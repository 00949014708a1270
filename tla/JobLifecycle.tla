------------------------------ MODULE JobLifecycle -----------------------------
(***************************************************************************)
(* What Jobflow promises the owner of a job, whatever goes on between the   *)
(* API server, RabbitMQ and the worker: a job is created pending; it is run *)
(* any number of times, also again when it has ended; a run first says      *)
(* running, then records its outcome, then announces that very outcome; a   *)
(* run can break off anywhere; an edit can put back the status it has read, *)
(* and nothing else; and nothing changes a deleted job. There is no queue,  *)
(* no publisher, no reconciler and no retry in it.                          *)
(*                                                                          *)
(* JobPipeline implements it.                                               *)
(***************************************************************************)
CONSTANTS
    Jobs,
    Editors,   \* who may edit jobs, one at a time each
    Workers,   \* who may run jobs, one at a time each
    None

VARIABLES
    status,  \* the status a job shows
    edit,    \* the edit an editor has under way: the job and the status it has read
    run,     \* the run a worker has under way
    told     \* the outcomes announced of a job

vars == <<status, edit, run, told>>

Outcomes == {"completed", "failed"}

NoEdit == [job |-> None, status |-> "absent"]
NoRun  == [phase |-> "none", job |-> None, outcome |-> None]

Init ==
    /\ status = [j \in Jobs |-> "absent"]
    /\ edit = [e \in Editors |-> NoEdit]
    /\ run = [w \in Workers |-> NoRun]
    /\ told = [j \in Jobs |-> {}]

Exists(j) == status[j] # "absent"

\* A write to a job that is gone has no effect.
Write(j, s) ==
    status' = IF status[j] \in {"absent", "deleted"} THEN status ELSE [status EXCEPT ![j] = s]

\* Several jobs can be created at once.
Create ==
    /\ \E J \in SUBSET {j \in Jobs : ~Exists(j)} :
        status' = [j \in Jobs |-> IF j \in J THEN "pending" ELSE status[j]]
    /\ UNCHANGED <<edit, run, told>>

Delete(j) ==
    /\ status[j] \notin {"absent", "deleted"}
    /\ status' = [status EXCEPT ![j] = "deleted"]
    /\ UNCHANGED <<edit, run, told>>

ReadForEdit(e, j) ==
    /\ edit[e] = NoEdit
    /\ status[j] \notin {"absent", "deleted"}
    /\ edit' = [edit EXCEPT ![e] = [job |-> j, status |-> status[j]]]
    /\ UNCHANGED <<status, run, told>>

WriteEdit(e) ==
    /\ edit[e].status # "absent"
    /\ Write(edit[e].job, edit[e].status)
    /\ edit' = [edit EXCEPT ![e] = NoEdit]
    /\ UNCHANGED <<run, told>>

DropEdits ==
    /\ \E E \in SUBSET Editors :
        edit' = [e \in Editors |-> IF e \in E THEN NoEdit ELSE edit[e]]
    /\ UNCHANGED <<status, run, told>>

StartRun(w, j, outcome) ==
    /\ run[w] = NoRun
    /\ Exists(j)
    /\ Write(j, "running")
    /\ run' = [run EXCEPT ![w] = [phase |-> "started", job |-> j, outcome |-> outcome]]
    /\ UNCHANGED <<edit, told>>

RecordOutcome(w) ==
    /\ run[w].phase = "started"
    /\ Write(run[w].job, run[w].outcome)
    /\ run' = [run EXCEPT ![w].phase = "recorded"]
    /\ UNCHANGED <<edit, told>>

Announce(w) ==
    /\ run[w].phase = "recorded"
    /\ told' = [told EXCEPT ![run[w].job] = @ \cup {run[w].outcome}]
    /\ run' = [run EXCEPT ![w] = NoRun]
    /\ UNCHANGED <<status, edit>>

BreakOff ==
    /\ \E W \in SUBSET Workers :
        run' = [w \in Workers |-> IF w \in W THEN NoRun ELSE run[w]]
    /\ UNCHANGED <<status, edit, told>>

Next ==
    \/ Create
    \/ \E j \in Jobs : Delete(j)
    \/ \E e \in Editors : WriteEdit(e) \/ \E j \in Jobs : ReadForEdit(e, j)
    \/ DropEdits
    \/ \E w \in Workers :
        \/ \E j \in Jobs, outcome \in Outcomes : StartRun(w, j, outcome)
        \/ RecordOutcome(w)
        \/ Announce(w)
    \/ BreakOff

Spec == Init /\ [][Next]_vars
================================================================================
