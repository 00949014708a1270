-------------------------- MODULE JobRefinementProofs --------------------------
(***************************************************************************)
(* JobPipeline implements JobLifecycle and Delivery, for any jobs,          *)
(* requests, consumers and faults.                                          *)
(*                                                                          *)
(* Most steps of the pipeline change nothing that the owner of a job sees;  *)
(* those that do are one step of the lifecycle each. What has to be known   *)
(* beyond the mapping is that messages are about jobs that exist            *)
(* (MessagesKnown), since a run must not start otherwise.                   *)
(*                                                                          *)
(* For Delivery it is that the copies of a job's message are told apart     *)
(* wherever they are (CopiesApart): a message that leaves the queue for a   *)
(* consumer, or comes back from one, is then the only one of its kind.      *)
(***************************************************************************)
EXTENDS JobPipelineProofs

\* Every message, queued or in a consumer's hands, is about a row that was inserted.
MessagesKnown ==
    /\ \A m \in delayed \cup ready : row[m.job].status # "absent"
    /\ \A c \in Consumers :
         cpc[c] \notin {"idle", "stopped"} => row[held[c].job].status # "absent"

RInv == Shape /\ RowsKnown /\ MessagesKnown

\* Steps that the owner of a job does not see.
LEMMA SameView ==
    ASSUME \A j \in Jobs : ShownStatus(j)' = ShownStatus(j),
           \A h \in Handlers : EditOf(h)' = EditOf(h),
           \A c \in Consumers : RunOf(c)' = RunOf(c),
           announced' = announced
    PROVE  UNCHANGED Lifecycle!vars
  BY DEF Lifecycle!vars

LEMMA SameRow == ASSUME row' = row PROVE \A j \in Jobs : ShownStatus(j)' = ShownStatus(j)
  BY DEF ShownStatus

LEMMA SameRuns ==
    ASSUME UNCHANGED <<cpc, held>> PROVE \A c \in Consumers : RunOf(c)' = RunOf(c)
  BY DEF RunOf, Run

LEMMA SameEdits ==
    ASSUME draft' = draft,
           \A h \in Handlers : ppc'[h] = "update" <=> ppc[h] = "update"
    PROVE  \A h \in Handlers : EditOf(h)' = EditOf(h)
  BY DEF EditOf

\* What the worker's updates do to a row is what a write of the lifecycle does.
LEMMA SetStatusWrites ==
    ASSUME Shape, RowsKnown, NEW j \in Jobs, NEW s \in Statuses \ {"absent"}, SetStatus(j, s)
    PROVE  Lifecycle!Write(j, s)
  <1>1. CASE Live(j)
    <2>1. row' = [row EXCEPT ![j] = [@ EXCEPT !.status = s]]
      BY <1>1 DEF SetStatus
    <2>2. ShownStatus(j) \notin {"absent", "deleted"}
      BY <1>1 DEF Live, ShownStatus, Shape, TypeOK, Row, Statuses
    <2>3. ShownStatus(j)' = s
      BY <1>1, <2>1 DEF Live, ShownStatus, Shape, TypeOK, Row
    <2>4. \A i \in Jobs \ {j} : ShownStatus(i)' = ShownStatus(i)
      BY <2>1 DEF ShownStatus, Shape, TypeOK
    <2> QED
      BY <2>2, <2>3, <2>4 DEF Lifecycle!Write
  <1>2. CASE ~Live(j)
    <2>1. ShownStatus(j) \in {"absent", "deleted"}
      BY <1>2 DEF Live, ShownStatus, Shape, TypeOK, Row, RowsKnown
    <2>2. \A i \in Jobs : ShownStatus(i)' = ShownStatus(i)
      BY <1>2, SameRow DEF SetStatus
    <2> QED
      BY <2>1, <2>2 DEF Lifecycle!Write
  <1> QED
    BY <1>1, <1>2

--------------------------------------------------------------------------------
(* The server's steps. *)

LEMMA AdvanceEdits ==
    ASSUME Shape, NEW p \in Procs, NEW rest, Advance(p, rest), draft' = draft,
           ppc[p] # "update"
    PROVE  \A h \in Handlers : EditOf(h)' = EditOf(h)
  <1>1. \A h \in Handlers : ppc'[h] = "update" <=> ppc[h] = "update"
    BY DEF Advance, Shape, TypeOK, Procs
  <1> QED
    BY <1>1, SameEdits

\* Publishing is not seen: MarkQueued only writes queued_at.
LEMMA PublishingUnseen ==
    ASSUME Shape, NEW p \in Procs, Publishing(p)
    PROVE  UNCHANGED Lifecycle!vars
  <1>1. UNCHANGED <<cpc, held, announced, draft>>
    BY DEF Publishing, PublishDelayed, PublishFails, AwaitConfirm, ConfirmAbandoned,
           MarkQueued, workerVars, ghostVars
  <1>2. \A h \in Handlers : EditOf(h)' = EditOf(h)
    <2>1. CASE PublishDelayed(p)
      BY <1>1, <2>1, SameEdits DEF PublishDelayed, Shape, TypeOK, Procs
    <2>2. CASE \E rest : Advance(p, rest) /\ ppc[p] # "update"
      BY <1>1, <2>2, AdvanceEdits
    <2>3. CASE ppc[p] = "confirm" /\ ppc' = [ppc EXCEPT ![p] = "mark"]
      BY <1>1, <2>3, SameEdits DEF Shape, TypeOK, Procs
    <2>4. PublishDelayed(p) \/ (\E rest : Advance(p, rest) /\ ppc[p] # "update")
            \/ (ppc[p] = "confirm" /\ ppc' = [ppc EXCEPT ![p] = "mark"])
      BY DEF Publishing, PublishFails, AwaitConfirm, ConfirmAbandoned, MarkQueued
    <2> QED
      BY <2>1, <2>2, <2>3, <2>4
  <1>3. \A j \in Jobs : ShownStatus(j)' = ShownStatus(j)
    <2>1. CASE row' = row
      BY <2>1, SameRow
    <2>2. CASE /\ MarkQueued(p)
               /\ row' = [row EXCEPT ![cur[p].job] = [@ EXCEPT !.queuedAt = "set"]]
      <3>1. cur[p].job \in Jobs
        BY <2>2, JobFields DEF Shape, ServerShape, MarkQueued
      <3> QED
        BY <2>2, <3>1 DEF ShownStatus, Shape, TypeOK, Row
    <2> QED
      BY <2>1, <2>2 DEF Publishing, PublishDelayed, PublishFails, AwaitConfirm,
                        ConfirmAbandoned, MarkQueued
  <1> QED
    BY <1>1, <1>2, <1>3, SameView, SameRuns

LEMMA ServerUnseen ==
    ASSUME Shape,
           \/ Tick \/ RepublishStuckJobs \/ ConnectionLost
           \/ \E h \in Handlers : ContextDone(h)
           \/ \E m \in delayed : Release(m)
    PROVE  UNCHANGED Lifecycle!vars
  <1>1. UNCHANGED <<row, cpc, held, announced, draft>>
    BY DEF Tick, RepublishStuckJobs, ConnectionLost, ContextDone, Release, serverVars,
           workerVars, ghostVars
  <1>2. \A h \in Handlers : ppc'[h] = "update" <=> ppc[h] = "update"
    BY ConstantsAssumption
       DEF Tick, RepublishStuckJobs, ConnectionLost, ContextDone, Release, serverVars,
           Shape, TypeOK, Procs
  <1> QED
    BY <1>1, <1>2, SameView, SameRow, SameRuns, SameEdits

\* CreateJobsService is Create.
LEMMA CreateSeen ==
    ASSUME Shape, RowsKnown, NEW h \in Handlers, CreateJobsService(h)
    PROVE  Lifecycle!Create
  <1>1. PICK J \in SUBSET {j \in Jobs : row[j].status = "absent"} :
          \E req \in [J -> Requests] :
            row' = [j \in Jobs |-> IF j \in J THEN InsertedRow(req[j]) ELSE row[j]]
    BY DEF CreateJobsService
  <1>2. PICK req \in [J -> Requests] :
          row' = [j \in Jobs |-> IF j \in J THEN InsertedRow(req[j]) ELSE row[j]]
    BY <1>1
  <1>3. J \subseteq {j \in Jobs : ShownStatus(j) = "absent"}
    BY <1>1 DEF ShownStatus, RowsKnown
  <1>4. \A j \in Jobs : ShownStatus(j)' = IF j \in J THEN "pending" ELSE ShownStatus(j)
    BY <1>2 DEF ShownStatus, InsertedRow
  <1>5. UNCHANGED <<cpc, held, announced, draft>>
    BY DEF CreateJobsService, workerVars, ghostVars
  <1>6. \A g \in Handlers : ppc'[g] = "update" <=> ppc[g] = "update"
    BY DEF CreateJobsService, Shape, TypeOK, Procs
  <1>7. /\ \A g \in Handlers : EditOf(g)' = EditOf(g)
        /\ \A c \in Consumers : RunOf(c)' = RunOf(c)
    BY <1>5, <1>6, SameEdits, SameRuns
  <1> QED
    BY <1>3, <1>4, <1>5, <1>7 DEF Lifecycle!Create, Lifecycle!Exists

\* DeleteJobService is Delete.
LEMMA DeleteSeen ==
    ASSUME Shape, NEW h \in Handlers, DeleteJobService(h)
    PROVE  \E j \in Jobs : Lifecycle!Delete(j)
  <1>1. PICK j \in Jobs : Live(j) /\ row' = [row EXCEPT ![j] = [@ EXCEPT !.deletedAt = "set"]]
    BY DEF DeleteJobService
  <1>2. ShownStatus(j) \notin {"absent", "deleted"} /\ ShownStatus(j)' = "deleted"
    BY <1>1 DEF Live, ShownStatus, Shape, TypeOK, Row, Statuses
  <1>3. \A i \in Jobs \ {j} : ShownStatus(i)' = ShownStatus(i)
    BY <1>1 DEF ShownStatus, Shape, TypeOK
  <1>4. UNCHANGED <<cpc, held, announced, draft, ppc>>
    BY DEF DeleteJobService, serverVars, workerVars, ghostVars
  <1>5. /\ \A g \in Handlers : EditOf(g)' = EditOf(g)
        /\ \A c \in Consumers : RunOf(c)' = RunOf(c)
    BY <1>4, SameEdits, SameRuns
  <1>6. Lifecycle!Delete(j)
    BY <1>2, <1>3, <1>4, <1>5 DEF Lifecycle!Delete
  <1> QED
    BY <1>6

\* UpdateJobService: the read, and the write of the status that was read.
LEMMA UpdateReadSeen ==
    ASSUME Shape, NEW h \in Handlers, UpdateRead(h)
    PROVE  \E j \in Jobs : Lifecycle!ReadForEdit(h, j)
  <1>1. PICK j \in Jobs :
          /\ Live(j)
          /\ \E type, n, at : draft' = [draft EXCEPT ![h] =
                 [job |-> j, status |-> row[j].status, queuedAt |-> row[j].queuedAt,
                  type |-> type, maxRetries |-> n, scheduledAt |-> at]]
    BY DEF UpdateRead
  <1>2. /\ ppc[h] = "idle" /\ ppc' = [ppc EXCEPT ![h] = "update"]
        /\ UNCHANGED <<row, cpc, held, announced>>
    BY DEF UpdateRead, workerVars, ghostVars
  <1>3. ShownStatus(j) = row[j].status /\ ShownStatus(j) \notin {"absent", "deleted"}
    BY <1>1 DEF Live, ShownStatus, Shape, TypeOK, Row, Statuses
  <1>4. EditOf(h) = [job |-> None, status |-> "absent"]
    BY <1>2 DEF EditOf
  <1>5. EditOf(h)' = [job |-> j, status |-> ShownStatus(j)]
    <2>1. draft'[h].job = j /\ draft'[h].status = row[j].status
      BY <1>1 DEF Shape, TypeOK, Procs
    <2> QED
      BY <1>2, <1>3, <2>1 DEF EditOf, Shape, TypeOK, Procs
  <1>6. \A g \in Handlers \ {h} : EditOf(g)' = EditOf(g)
    BY <1>1, <1>2 DEF EditOf, Shape, TypeOK, Procs
  <1>7. Lifecycle!ReadForEdit(h, j)
    BY <1>2, <1>3, <1>4, <1>5, <1>6, SameRow, SameRuns
       DEF Lifecycle!ReadForEdit, Lifecycle!NoEdit
  <1> QED
    BY <1>7

LEMMA UpdateWriteSeen ==
    ASSUME Shape, RowsKnown, NEW h \in Handlers, UpdateWrite(h)
    PROVE  Lifecycle!WriteEdit(h) \/ Lifecycle!DropEdits
  <1>1. /\ ppc[h] = "update" /\ ppc' = [ppc EXCEPT ![h] = "idle"]
        /\ draft' = [draft EXCEPT ![h] = None]
        /\ UNCHANGED <<cpc, held, announced>>
    BY DEF UpdateWrite, workerVars
  <1>2. PICK d \in Draft : d = draft[h] /\ d.job \in Jobs /\ d.status # "absent"
    BY <1>1, JobFields DEF Shape, ServerShape, Procs
  <1>3. EditOf(h) = [job |-> d.job, status |-> d.status]
    BY <1>1, <1>2 DEF EditOf
  <1>4. EditOf(h)' = [job |-> None, status |-> "absent"]
    BY <1>1 DEF EditOf, Shape, TypeOK, Procs
  <1>5. \A g \in Handlers \ {h} : EditOf(g)' = EditOf(g)
    BY <1>1 DEF EditOf, Shape, TypeOK, Procs
  <1>6. CASE row' = row
    <2>1. {h} \in SUBSET Handlers
      OBVIOUS
    <2>2. \A g \in Handlers : EditOf(g)' =
            IF g \in {h} THEN [job |-> None, status |-> "absent"] ELSE EditOf(g)
      BY <1>4, <1>5
    <2>3. Lifecycle!DropEdits
      BY <1>1, <1>6, <2>1, <2>2, SameRow, SameRuns DEF Lifecycle!DropEdits, Lifecycle!NoEdit
    <2> QED
      BY <2>3
  <1>7. CASE Live(d.job) /\ row' = [row EXCEPT ![d.job] = Overwrite(@, d)]
    <2>1. ShownStatus(d.job) \notin {"absent", "deleted"}
      BY <1>2, <1>7 DEF Live, ShownStatus, Shape, TypeOK, Row, Statuses
    <2>2. row'[d.job].status = d.status /\ row'[d.job].deletedAt = "NULL"
      BY <1>2, <1>7 DEF Live, Overwrite, Shape, TypeOK, Row
    <2>3. ShownStatus(d.job)' = d.status
      BY <2>2 DEF ShownStatus
    <2>4. \A i \in Jobs \ {d.job} : ShownStatus(i)' = ShownStatus(i)
      BY <1>7 DEF ShownStatus, Shape, TypeOK
    <2>5. Lifecycle!Write(d.job, d.status)
      BY <1>2, <2>1, <2>3, <2>4 DEF Lifecycle!Write
    <2>6. EditOf(h).job = d.job /\ EditOf(h).status = d.status
      BY <1>3
    <2>7. Lifecycle!Write(EditOf(h).job, EditOf(h).status)
      BY <2>5, <2>6
    <2>8. Lifecycle!WriteEdit(h)
      BY <1>1, <1>2, <1>4, <1>5, <2>6, <2>7, SameRuns DEF Lifecycle!WriteEdit, Lifecycle!NoEdit
    <2> QED
      BY <2>8
  <1> QED
    BY <1>2, <1>6, <1>7 DEF UpdateWrite

\* A crash of the server drops the updates under way.
LEMMA ServerCrashSeen ==
    ASSUME ServerCrash
    PROVE  Lifecycle!DropEdits
  <1>1. /\ ppc' = [p \in Procs |-> "idle"]
        /\ UNCHANGED <<row, cpc, held, announced>>
    BY DEF ServerCrash, workerVars, ghostVars
  <1>2. \A h \in Handlers : EditOf(h)' = [job |-> None, status |-> "absent"]
    BY <1>1 DEF EditOf, Procs
  <1> QED
    BY <1>1, <1>2, SameRow, SameRuns DEF Lifecycle!DropEdits, Lifecycle!NoEdit

--------------------------------------------------------------------------------
(* The worker's steps. *)

\* A worker step leaves the server alone.
LEMMA WorkerEdits ==
    ASSUME UNCHANGED serverVars PROVE \A h \in Handlers : EditOf(h)' = EditOf(h)
  BY SameEdits DEF serverVars

\* A consumer that is at none of the three places of a run, before and after.
Outside(c) == cpc[c] \notin {"work", "event"}

LEMMA OutsideRun ==
    ASSUME NEW c \in Consumers, Outside(c)
    PROVE  RunOf(c) = [phase |-> "none", job |-> None, outcome |-> None]
  BY DEF Outside, RunOf

LEMMA OthersRuns ==
    ASSUME Shape, NEW c \in Consumers, NEW pc, cpc' = [cpc EXCEPT ![c] = pc],
           \A d \in Consumers \ {c} : held'[d] = held[d]
    PROVE  \A d \in Consumers \ {c} : RunOf(d)' = RunOf(d)
  BY DEF RunOf, Run, Shape, TypeOK

\* Deliver, Settle and closed channels happen outside a run or do not touch it.
LEMMA DeliverUnseen ==
    ASSUME Shape, NEW c \in Consumers, Deliver(c) \/ Settle(c)
    PROVE  UNCHANGED Lifecycle!vars
  <1>1. /\ UNCHANGED <<row, announced, serverVars>>
        /\ \A d \in Consumers \ {c} : held'[d] = held[d]
        /\ Outside(c)
    BY DEF Deliver, Settle, ghostVars, Shape, TypeOK, Outside
  <1>2. PICK pc \in {"run", "ack", "idle", "stopped"} : cpc' = [cpc EXCEPT ![c] = pc]
    BY DEF Deliver, Settle
  <1>3. Outside(c)'
    BY <1>2 DEF Outside, Shape, TypeOK
  <1>4. RunOf(c)' = RunOf(c)
    BY <1>1, <1>3 DEF Outside, RunOf
  <1> QED
    BY <1>1, <1>2, <1>4, OthersRuns, SameView, SameRow, WorkerEdits

LEMMA ConsumersCutUnseen ==
    ASSUME Shape, ConsumersCut
    PROVE  UNCHANGED Lifecycle!vars
  <1>1. UNCHANGED <<row, announced, serverVars, held>>
    BY DEF ConsumersCut, ghostVars
  <1>2. \A c \in Consumers : cpc'[c] = cpc[c] \/ (cpc[c] = "idle" /\ cpc'[c] = "stopped")
    BY DEF ConsumersCut
  <1>3. \A c \in Consumers : RunOf(c)' = RunOf(c)
    BY <1>1, <1>2 DEF RunOf, Run
  <1> QED
    BY <1>1, <1>3, SameView, SameRow, WorkerEdits

\* Runs that are broken off: one that failed, or all of them in a crash.
LEMMA BrokenOff ==
    ASSUME NEW W \in SUBSET Consumers,
           \A c \in W : RunOf(c)' = [phase |-> "none", job |-> None, outcome |-> None],
           \A c \in Consumers \ W : RunOf(c)' = RunOf(c),
           UNCHANGED <<row, announced, serverVars>>
    PROVE  Lifecycle!BreakOff
  <1>1. \A c \in Consumers : RunOf(c)' =
          IF c \in W THEN [phase |-> "none", job |-> None, outcome |-> None] ELSE RunOf(c)
    OBVIOUS
  <1> QED
    BY <1>1, SameRow, WorkerEdits DEF Lifecycle!BreakOff, Lifecycle!NoRun

LEMMA WorkerCrashSeen ==
    ASSUME WorkerCrash
    PROVE  Lifecycle!BreakOff
  <1>1. /\ cpc' = [c \in Consumers |-> "idle"]
        /\ UNCHANGED <<row, announced, serverVars>>
    BY DEF WorkerCrash
  <1>2. \A c \in Consumers : RunOf(c)' = [phase |-> "none", job |-> None, outcome |-> None]
    BY <1>1 DEF RunOf
  <1> QED
    BY <1>1, <1>2, BrokenOff

\* A failed attempt ends outside a run, whether another one follows or not.
LEMMA FailedAttempt ==
    ASSUME Shape, NEW c \in Consumers, held[c] \in Message, RetryOrGiveUp(c),
           UNCHANGED <<row, announced, serverVars, held>>
    PROVE  Lifecycle!BreakOff
  <1>1. PICK pc \in {"run", "nack"} : cpc' = [cpc EXCEPT ![c] = pc]
    BY RetryType DEF Shape
  <1>2. RunOf(c)' = [phase |-> "none", job |-> None, outcome |-> None]
    BY <1>1 DEF RunOf, Shape, TypeOK
  <1>3. \A d \in Consumers \ {c} : RunOf(d)' = RunOf(d)
    BY <1>1, OthersRuns
  <1>4. /\ {c} \in SUBSET Consumers
        /\ \A d \in {c} : RunOf(d)' = [phase |-> "none", job |-> None, outcome |-> None]
    BY <1>2
  <1> QED
    BY <1>3, <1>4, BrokenOff

\* MarkRunning starts a run, for a job that exists.
LEMMA MarkRunningSeen ==
    ASSUME RInv, NEW c \in Consumers, MarkRunning(c)
    PROVE  \/ \E j \in Jobs, o \in Lifecycle!Outcomes : Lifecycle!StartRun(c, j, o)
           \/ Lifecycle!BreakOff
  <1>1. /\ cpc[c] = "run"
        /\ UNCHANGED <<announced, serverVars, held>>
    BY DEF MarkRunning
  <1>2. held[c] \in Message /\ held[c].job \in Jobs
    BY <1>1, JobFields DEF RInv, Shape, WorkerShape
  <1>3. CASE SetStatus(held[c].job, "running") /\ cpc' = [cpc EXCEPT ![c] = "work"]
    <2> DEFINE j == held[c].job
               o == Outcome(held[c].type)
    <2>1. o \in Lifecycle!Outcomes
      BY OutcomeType DEF Lifecycle!Outcomes, Terminal
    <2>2. ShownStatus(j) # "absent"
      BY <1>1, <1>2 DEF RInv, MessagesKnown, ShownStatus, Shape, TypeOK, Row
    <2>3. Lifecycle!Write(j, "running")
      BY <1>2, <1>3, SetStatusWrites DEF RInv, Statuses
    <2>4. RunOf(c) = [phase |-> "none", job |-> None, outcome |-> None]
      BY <1>1 DEF RunOf
    <2>5. RunOf(c)' = [phase |-> "started", job |-> j, outcome |-> o]
      BY <1>1, <1>3 DEF RunOf, Run, RInv, Shape, TypeOK
    <2>6. \A d \in Consumers \ {c} : RunOf(d)' = RunOf(d)
      BY <1>1, <1>3, OthersRuns DEF RInv
    <2> HIDE DEF j, o
    <2>7. j \in Jobs
      BY <1>2 DEF j
    <2>8. Lifecycle!StartRun(c, j, o)
      BY <1>1, <2>2, <2>3, <2>4, <2>5, <2>6, <2>7, WorkerEdits
         DEF Lifecycle!StartRun, Lifecycle!NoRun, Lifecycle!Exists
    <2> QED
      BY <2>1, <2>7, <2>8
  <1>4. CASE RetryOrGiveUp(c) /\ UNCHANGED row
    BY <1>1, <1>2, <1>4, FailedAttempt DEF RInv
  <1> QED
    BY <1>3, <1>4 DEF MarkRunning

\* MarkCompleted and MarkFailed record the outcome.
LEMMA MarkFinishedSeen ==
    ASSUME RInv, NEW c \in Consumers, MarkFinished(c)
    PROVE  Lifecycle!RecordOutcome(c) \/ Lifecycle!BreakOff
  <1>1. /\ cpc[c] = "work"
        /\ UNCHANGED <<announced, serverVars, held>>
    BY DEF MarkFinished
  <1>2. held[c] \in Message /\ held[c].job \in Jobs
    BY <1>1, JobFields DEF RInv, Shape, WorkerShape
  <1>3. CASE /\ SetStatus(held[c].job, Outcome(held[c].type))
             /\ cpc' = [cpc EXCEPT ![c] = "event"]
    <2>1. Lifecycle!Write(held[c].job, Outcome(held[c].type))
      BY <1>2, <1>3, SetStatusWrites, OutcomeType DEF RInv, Statuses, Terminal
    <2>2. RunOf(c) = Run("started", held[c])
      BY <1>1 DEF RunOf
    <2>3. RunOf(c)' = Run("recorded", held[c])
      BY <1>1, <1>3 DEF RunOf, Run, RInv, Shape, TypeOK
    <2>4. /\ RunOf(c).phase = "started"
          /\ RunOf(c).job = held[c].job
          /\ RunOf(c).outcome = Outcome(held[c].type)
          /\ RunOf(c)' = [RunOf(c) EXCEPT !.phase = "recorded"]
      BY <2>2, <2>3 DEF Run
    <2>5. \A d \in Consumers \ {c} : RunOf(d)' = RunOf(d)
      BY <1>1, <1>3, OthersRuns DEF RInv
    <2>6. Lifecycle!Write(RunOf(c).job, RunOf(c).outcome)
      BY <2>1, <2>4
    <2>7. Lifecycle!RecordOutcome(c)
      BY <1>1, <2>4, <2>5, <2>6, WorkerEdits DEF Lifecycle!RecordOutcome
    <2> QED
      BY <2>7
  <1>4. CASE RetryOrGiveUp(c) /\ UNCHANGED row
    BY <1>1, <1>2, <1>4, FailedAttempt DEF RInv
  <1> QED
    BY <1>3, <1>4 DEF MarkFinished

\* publishStatusEvent announces it.
LEMMA PublishStatusEventSeen ==
    ASSUME RInv, NEW c \in Consumers, PublishStatusEvent(c)
    PROVE  Lifecycle!Announce(c) \/ Lifecycle!BreakOff
  <1>1. /\ cpc[c] = "event"
        /\ cpc' = [cpc EXCEPT ![c] = "ack"]
        /\ UNCHANGED <<row, serverVars, held>>
    BY DEF PublishStatusEvent
  <1>2. held[c].job \in Jobs
    BY <1>1, JobFields DEF RInv, Shape, WorkerShape
  <1>3. RunOf(c)' = [phase |-> "none", job |-> None, outcome |-> None]
    BY <1>1 DEF RunOf, RInv, Shape, TypeOK
  <1>4. \A d \in Consumers \ {c} : RunOf(d)' = RunOf(d)
    BY <1>1, OthersRuns DEF RInv
  <1>5. /\ RunOf(c).phase = "recorded"
        /\ RunOf(c).job = held[c].job
        /\ RunOf(c).outcome = Outcome(held[c].type)
    BY <1>1 DEF RunOf, Run
  <1>6. CASE announced' = [announced EXCEPT ![held[c].job] = @ \cup {Outcome(held[c].type)}]
    <2>1. announced' = [announced EXCEPT ![RunOf(c).job] = @ \cup {RunOf(c).outcome}]
      BY <1>5, <1>6
    <2>2. Lifecycle!Announce(c)
      BY <1>1, <1>3, <1>4, <1>5, <2>1, SameRow, WorkerEdits
         DEF Lifecycle!Announce, Lifecycle!NoRun
    <2> QED
      BY <2>2
  <1>7. CASE announced' = announced
    <2>1. /\ {c} \in SUBSET Consumers
          /\ \A d \in {c} : RunOf(d)' = [phase |-> "none", job |-> None, outcome |-> None]
      BY <1>3
    <2> QED
      BY <1>1, <1>4, <1>7, <2>1, BrokenOff
  <1> QED
    BY <1>6, <1>7 DEF PublishStatusEvent

--------------------------------------------------------------------------------
(* Messages are about jobs that exist. *)

LEMMA NextMessagesKnown ==
    ASSUME RInv, [Next]_vars
    PROVE  MessagesKnown'
  <1>1. \A j \in Jobs : row[j].status # "absent" => row'[j].status # "absent"
    BY NextRows DEF RInv, RowStep, Live
  <1>2. ASSUME NEW m \in delayed' \cup ready'
        PROVE  row'[m.job].status # "absent"
    <2>1. CASE m \in delayed \cup ready
      BY <1>1, <2>1, JobFields DEF RInv, MessagesKnown, Shape, TypeOK
    <2>2. CASE \E c \in Consumers : cpc[c] \notin {"idle", "stopped"} /\ m = held[c]
      BY <1>1, <2>2, JobFields DEF RInv, MessagesKnown, Shape, WorkerShape
    <2>3. CASE \E p \in Procs : \E b \in todo[p] : m = MessageOf(b)
      <3>0. PICK p \in Procs : \E b \in todo[p] : m = MessageOf(b)
        BY <2>3
      <3>1. PICK b \in todo[p] : m = MessageOf(b)
        BY <3>0
      <3>2. b \in Body /\ b.job \in Jobs /\ row[b.job].status # "absent"
        BY JobFields DEF RInv, Shape, TypeOK, ServerShape, Procs
      <3>3. m.job = b.job
        BY <3>1 DEF MessageOf
      <3> QED
        BY <1>1, <3>2, <3>3
    <2>4. \/ m \in delayed \cup ready
          \/ \E c \in Consumers : cpc[c] \notin {"idle", "stopped"} /\ m = held[c]
          \/ \E p \in Procs : \E b \in todo[p] : m = MessageOf(b)
      <3>1. CASE ConsumersCut \/ WorkerCrash
        <4>1. PICK C \in SUBSET Consumers : delayed' = delayed /\ ready' = ready \cup Unacked(C)
          BY <3>1 DEF ConsumersCut, WorkerCrash, RInv, Shape, TypeOK
        <4>2. CASE m \in Unacked(C)
          BY <4>2 DEF Unacked
        <4> QED
          BY <4>1, <4>2
      <3>2. ASSUME NEW p \in Procs, PublishDelayed(p)
            PROVE  m \in delayed \cup ready \/ \E b \in todo[p] : m = MessageOf(b)
        BY <3>2 DEF PublishDelayed
      <3>3. \/ delayed' \cup ready' \subseteq delayed \cup ready
            \/ ConsumersCut \/ WorkerCrash
            \/ \E p \in Procs : PublishDelayed(p)
        BY DEF Next, Requesting, Publishing, Consuming, Tick, CreateJobsService, ContextDone,
               UpdateRead, UpdateWrite, DeleteJobService, PublishFails, AwaitConfirm,
               ConfirmAbandoned, MarkQueued, RepublishStuckJobs, ServerCrash, ConnectionLost,
               Release, Deliver, MarkRunning, MarkFinished, PublishStatusEvent, Settle,
               brokerVars, vars
      <3> QED
        BY <3>1, <3>2, <3>3
    <2> QED
      BY <2>1, <2>2, <2>3, <2>4
  <1>3. ASSUME NEW c \in Consumers, cpc'[c] \notin {"idle", "stopped"}
        PROVE  row'[held'[c].job].status # "absent"
    <2>1. CASE cpc[c] \notin {"idle", "stopped"} /\ held'[c] = held[c]
      BY <1>1, <2>1, JobFields DEF RInv, MessagesKnown, Shape, WorkerShape
    <2>2. CASE held'[c] \in ready
      BY <1>1, <2>2, JobFields DEF RInv, MessagesKnown, Shape, TypeOK
    <2>3. (cpc[c] \notin {"idle", "stopped"} /\ held'[c] = held[c]) \/ held'[c] \in ready
      <3>1. ASSUME NEW d \in Consumers, Deliver(d)
            PROVE  IF c = d THEN held'[c] \in ready ELSE UNCHANGED <<cpc[c], held[c]>>
        BY <3>1 DEF Deliver, RInv, Shape, TypeOK
      <3>2. ASSUME NEW d \in Consumers, Settle(d)
            PROVE  c # d /\ UNCHANGED <<cpc[c], held[c]>>
        BY <1>3, <3>2 DEF Settle, RInv, Shape, TypeOK
      <3>3. ASSUME NEW d \in Consumers,
                   MarkRunning(d) \/ MarkFinished(d) \/ PublishStatusEvent(d)
            PROVE  held' = held /\ cpc[c] \notin {"idle", "stopped"}
        <4>1. held' = held /\ \E pc : cpc' = [cpc EXCEPT ![d] = pc]
          BY <3>3 DEF MarkRunning, MarkFinished, PublishStatusEvent, RetryOrGiveUp
        <4>2. cpc[d] \in {"run", "work", "event"}
          BY <3>3 DEF MarkRunning, MarkFinished, PublishStatusEvent
        <4> QED
          BY <1>3, <4>1, <4>2 DEF RInv, Shape, TypeOK
      <3>4. CASE ConsumersCut
        BY <1>3, <3>4 DEF ConsumersCut
      <3>5. CASE WorkerCrash
        BY <1>3, <3>5 DEF WorkerCrash
      <3>6. \/ UNCHANGED <<cpc, held>>
            \/ \E d \in Consumers : \/ Deliver(d) \/ MarkRunning(d) \/ MarkFinished(d)
                                    \/ PublishStatusEvent(d) \/ Settle(d)
            \/ ConsumersCut
            \/ WorkerCrash
        BY DEF Next, Requesting, Publishing, Consuming, Tick, CreateJobsService, ContextDone,
               UpdateRead, UpdateWrite, DeleteJobService, PublishDelayed, PublishFails,
               AwaitConfirm, ConfirmAbandoned, MarkQueued, RepublishStuckJobs, ServerCrash,
               ConnectionLost, Release, vars, workerVars
      <3> QED
        BY <1>3, <3>1, <3>2, <3>3, <3>4, <3>5, <3>6
    <2> QED
      BY <2>1, <2>2, <2>3
  <1> QED
    BY <1>2, <1>3 DEF MessagesKnown

LEMMA RInvInvariant == Spec => []RInv
  <1>1. Init => RInv
    BY InitIInv DEF IInv, RInv, MessagesKnown, Init
  <1>2. RInv /\ [Next]_vars => RInv'
    BY NextShape, NextRowsKnown, NextMessagesKnown DEF RInv
  <1> QED
    BY <1>1, <1>2, PTL DEF Spec

--------------------------------------------------------------------------------

LEMMA NextSeen ==
    ASSUME RInv, [Next]_vars
    PROVE  [Lifecycle!Next]_(Lifecycle!vars)
  <1>1. ASSUME NEW h \in Handlers, Requesting(h) PROVE [Lifecycle!Next]_(Lifecycle!vars)
    BY <1>1, CreateSeen, DeleteSeen, UpdateReadSeen, UpdateWriteSeen, ServerUnseen
       DEF Requesting, RInv, Lifecycle!Next
  <1>2. ASSUME NEW c \in Consumers, Deliver(c) \/ Consuming(c)
        PROVE  [Lifecycle!Next]_(Lifecycle!vars)
    BY <1>2, DeliverUnseen, MarkRunningSeen, MarkFinishedSeen, PublishStatusEventSeen
       DEF Consuming, RInv, Lifecycle!Next
  <1>3. CASE ServerCrash \/ WorkerCrash
    BY <1>3, ServerCrashSeen, WorkerCrashSeen DEF Lifecycle!Next
  <1>4. CASE UNCHANGED vars
    <2>1. UNCHANGED <<row, ppc, draft, cpc, held, announced>>
      BY <1>4 DEF vars, serverVars, workerVars, ghostVars
    <2> QED
      BY <2>1, SameView, SameRow, SameRuns, SameEdits
  <1>5. CASE \/ Tick \/ RepublishStuckJobs \/ ConnectionLost \/ ConsumersCut
             \/ \E p \in Procs : Publishing(p)
             \/ \E m \in delayed : Release(m)
    BY <1>5, ServerUnseen, ConsumersCutUnseen, PublishingUnseen DEF RInv
  <1> QED
    BY <1>1, <1>2, <1>3, <1>4, <1>5 DEF Next

\* The pipeline implements the lifecycle: the dual write, the reconciler's duplicates,
\* redeliveries, retries, stale updates and crashes of either process never show the
\* owner of a job a status or an event that JobLifecycle does not allow.
THEOREM PipelineImplementsLifecycle == Spec => ImplementsLifecycle
  <1>1. Init => Lifecycle!Init
    BY DEF Init, AbsentRow, ShownStatus, EditOf, RunOf, Procs, Lifecycle!Init,
           Lifecycle!NoEdit, Lifecycle!NoRun
  <1>2. RInv /\ [Next]_vars => [Lifecycle!Next]_(Lifecycle!vars)
    BY NextSeen
  <1> QED
    BY <1>1, <1>2, RInvInvariant, PTL DEF Spec, ImplementsLifecycle, Lifecycle!Spec
--------------------------------------------------------------------------------
(* Copies of a message. *)

\* The messages the broker has not forgotten.
InBroker == delayed \cup ready \cup Unacked(Consumers)

\* The number of a copy is below the count of its job, tells it from every other copy,
\* and a message whose delay is not over is nowhere else.
CopiesApart ==
    /\ \A m \in InBroker : m.copy < sent[m.job]
    /\ \A m, n \in InBroker : Id(m) = Id(n) => m = n
    /\ delayed \cap (ready \cup Unacked(Consumers)) = {}

DInv == Shape /\ CopiesApart

\* A consumer that the broker has given a message to.
Has(c) == c \in linked /\ cpc[c] \notin {"idle", "stopped"}

LEMMA UnackedIs ==
    ASSUME NEW C
    PROVE  \A m : m \in Unacked(C) <=> \E c \in C : Has(c) /\ m = held[c]
  BY DEF Unacked, Has

LEMMA UnackedIsNext ==
    ASSUME NEW C
    PROVE  \A m : m \in Unacked(C)' <=> \E c \in C : Has(c)' /\ m = held'[c]
  BY DEF Unacked, Has

LEMMA HandIs ==
    ASSUME NEW c
    PROVE  HandOf(c) = IF Has(c) THEN {Id(held[c])} ELSE {}
  BY DEF HandOf, Unacked, Has

LEMMA HandIsNext ==
    ASSUME NEW c
    PROVE  HandOf(c)' = IF Has(c)' THEN {Id(held'[c])} ELSE {}
  <1>1. HandOf(c)' = {Id(m) : m \in Unacked({c})'}
    BY DEF HandOf, Id
  <1> QED
    BY <1>1, UnackedIsNext

\* Moving a message within the broker, or out of it, keeps the copies apart.
LEMMA MovedApart ==
    ASSUME CopiesApart, InBroker' \subseteq InBroker, sent' = sent,
           delayed' \subseteq delayed, delayed' \cap (ready' \cup Unacked(Consumers)') = {}
    PROVE  CopiesApart'
  BY DEF CopiesApart, Id

\* A step that touches neither the broker nor a consumer.
LEMMA BrokerUntouched ==
    ASSUME CopiesApart, UNCHANGED <<delayed, ready, sent, cpc, held, linked>>
    PROVE  CopiesApart' /\ UNCHANGED Queue!vars
  <1>1. Unacked(Consumers)' = Unacked(Consumers)
    BY DEF Unacked
  <1>2. CopiesApart'
    BY <1>1, MovedApart DEF InBroker, CopiesApart
  <1>3. \A c \in Consumers : HandOf(c)' = HandOf(c)
    BY HandIs, HandIsNext DEF Has
  <1>4. Accepted' = Accepted /\ Waiting' = Waiting /\ Finished' = Finished
    BY DEF Accepted, Waiting, Finished, Id
  <1> QED
    BY <1>2, <1>3, <1>4 DEF Queue!vars

\* The broker takes a copy with a new number.
LEMMA PublishAccepts ==
    ASSUME DInv, NEW p \in Procs, PublishDelayed(p)
    PROVE  CopiesApart' /\ [Queue!Next]_(Queue!vars)
  <1>0. UNCHANGED <<ready, cpc, held, linked>>
    BY DEF PublishDelayed, workerVars
  <1>1. CASE UNCHANGED <<delayed, sent>>
    BY <1>0, <1>1, BrokerUntouched DEF DInv
  <1>2. CASE ~UNCHANGED <<delayed, sent>>
    <2>1. PICK b \in todo[p] :
             delayed' = delayed \cup {MessageOf(b)} /\ sent' = [sent EXCEPT ![b.job] = @ + 1]
      BY <1>2 DEF PublishDelayed
    <2> DEFINE m == MessageOf(b)
    <2>2. /\ b \in Body /\ m \in Message /\ m.job \in Jobs /\ m.job = b.job
          /\ m.copy = sent[m.job] /\ sent \in [Jobs -> Nat]
      BY MessageOfType, JobFields DEF DInv, Shape, TypeOK, MessageOf
    <2> HIDE DEF m
    <2>3. Unacked(Consumers)' = Unacked(Consumers)
      BY <1>0 DEF Unacked
    <2>4. InBroker' = InBroker \cup {m} /\ InBroker \subseteq Message
      BY <1>0, <2>1, <2>3, UnackedType DEF InBroker, m, DInv, Shape, TypeOK
    <2>5. \A n \in InBroker : n.job \in Jobs /\ n.copy \in Nat /\ n.copy < sent[n.job]
      BY <2>4, JobFields DEF DInv, CopiesApart, Message
    <2>6. \A n \in InBroker : Id(n) # Id(m)
      BY <2>2, <2>5 DEF Id
    <2>7. CopiesApart'
      <3>1. \A n \in InBroker' : n.copy < sent'[n.job]
        BY <2>1, <2>2, <2>4, <2>5
      <3>2. \A n, o \in InBroker' : Id(n) = Id(o) => n = o
        BY <2>4, <2>6 DEF DInv, CopiesApart
      <3>3. delayed' \cap (ready' \cup Unacked(Consumers)') = {}
        BY <1>0, <2>1, <2>3, <2>6 DEF DInv, CopiesApart, InBroker, m
      <3> QED
        BY <3>1, <3>2, <3>3 DEF CopiesApart, Id
    <2>8. \A c \in Consumers : HandOf(c)' = HandOf(c)
      BY <1>0, HandIs, HandIsNext DEF Has
    <2>9. Finished' = Finished
      BY <1>0 DEF Finished
    <2>10. Id(m) \in (Jobs \X Nat) \ Accepted /\ Accepted' = Accepted \cup {Id(m)}
      <3>1. Id(m) = <<b.job, sent[b.job]>> /\ b.job \in Jobs
        BY <2>2 DEF Id
      <3>2. \A x : x \in Accepted <=>
               \E j \in Jobs, copy \in Nat : copy < sent[j] /\ x = <<j, copy>>
        BY <2>2 DEF Accepted
      <3>3. \A x : x \in Accepted' <=>
               \E j \in Jobs, copy \in Nat : copy < sent'[j] /\ x = <<j, copy>>
        BY <2>1, <2>2 DEF Accepted
      <3>4. Id(m) \notin Accepted /\ Id(m) \in Jobs \X Nat
        BY <2>2, <3>1, <3>2
      <3>5. Accepted' \subseteq Accepted \cup {Id(m)}
        BY <2>1, <2>2, <3>1, <3>2, <3>3
      <3>6. Accepted \subseteq Accepted'
        BY <2>1, <2>2, <3>2, <3>3
      <3>7. Id(m) \in Accepted'
        BY <2>1, <2>2, <3>1, <3>3
      <3> QED
        BY <3>4, <3>5, <3>6, <3>7
    <2>11. Waiting' = Waiting \cup {Id(m)} /\ Id(m) \notin Waiting
      <3>1. Waiting' = {Id(n) : n \in delayed' \cup ready'}
        BY DEF Waiting, Id
      <3> QED
        BY <1>0, <2>1, <2>6, <3>1 DEF Waiting, InBroker, m
    <2>12. Queue!Accept
      BY <2>8, <2>9, <2>10, <2>11 DEF Queue!Accept
    <2> QED
      BY <2>7, <2>12 DEF Queue!Next
  <1> QED
    BY <1>1, <1>2

\* The end of its delay moves a message within the queue.
LEMMA ReleaseWaits ==
    ASSUME DInv, NEW m \in delayed, Release(m)
    PROVE  CopiesApart' /\ UNCHANGED Queue!vars
  <1>1. /\ delayed' = delayed \ {m} /\ ready' = ready \cup {m}
        /\ UNCHANGED <<sent, cpc, held, linked>>
    BY DEF Release, workerVars
  <1>2. Unacked(Consumers)' = Unacked(Consumers)
    BY <1>1 DEF Unacked
  <1>3. CopiesApart'
    BY <1>1, <1>2, MovedApart DEF DInv, CopiesApart, InBroker
  <1>4. \A c \in Consumers : HandOf(c)' = HandOf(c)
    BY <1>1, HandIs, HandIsNext DEF Has
  <1>5. delayed' \cup ready' = delayed \cup ready
    BY <1>1
  <1>6. Accepted' = Accepted /\ Waiting' = Waiting /\ Finished' = Finished
    BY <1>1, <1>5 DEF Accepted, Waiting, Finished, Id
  <1> QED
    BY <1>3, <1>4, <1>6 DEF Queue!vars

\* Deliver hands out one copy; one that may not be run at all is finished at once.
LEMMA DeliverTakes ==
    ASSUME DInv, NEW c \in Consumers, Deliver(c)
    PROVE  CopiesApart' /\ Queue!Take(c)
  <1>1. PICK m \in ready : /\ ready' = ready \ {m}
                           /\ held' = [held EXCEPT ![c] = m]
                           /\ \E pc \in {"run", "ack"} : cpc' = [cpc EXCEPT ![c] = pc]
    BY DEF Deliver
  <1>2. PICK pc \in {"run", "ack"} : cpc' = [cpc EXCEPT ![c] = pc]
    BY <1>1
  <1>3. UNCHANGED <<delayed, sent, linked>> /\ c \in linked /\ cpc[c] = "idle"
    BY DEF Deliver
  <1>4. held' [c] = m /\ cpc'[c] = pc
        /\ \A d \in Consumers \ {c} : held'[d] = held[d] /\ cpc'[d] = cpc[d]
    BY <1>1, <1>2 DEF DInv, Shape, TypeOK
  <1>5. ~Has(c) /\ Has(c)' /\ \A d \in Consumers \ {c} : Has(d)' = Has(d)
    BY <1>3, <1>4 DEF Has
  <1>6. Unacked(Consumers)' \subseteq Unacked(Consumers) \cup {m}
    BY <1>4, <1>5, UnackedIs, UnackedIsNext
  <1>7. m \notin delayed
    BY DEF DInv, CopiesApart
  <1>8. CopiesApart'
    BY <1>1, <1>3, <1>6, <1>7, MovedApart DEF DInv, CopiesApart, InBroker
  <1>9. HandOf(c) = {} /\ HandOf(c)' = {Id(m)}
        /\ \A d \in Consumers \ {c} : HandOf(d)' = HandOf(d)
    BY <1>4, <1>5, HandIs, HandIsNext
  <1>10. Waiting' = Waiting \ {Id(m)} /\ Id(m) \in Waiting
    <2>1. \A n \in delayed \cup ready : Id(n) = Id(m) => n = m
      BY DEF DInv, CopiesApart, InBroker
    <2>2. Waiting' = {Id(n) : n \in delayed' \cup ready'}
      BY DEF Waiting, Id
    <2>3. delayed' \cup ready' = (delayed \cup ready) \ {m}
      BY <1>1, <1>3, <1>7
    <2> QED
      BY <2>1, <2>2, <2>3 DEF Waiting
  <1>11. Accepted' = Accepted
    BY <1>3 DEF Accepted
  <1>12. Finished' \in {Finished, Finished \cup {c}}
    BY <1>3, <1>4 DEF Finished, DInv, Shape, TypeOK
  <1>13. Queue!Take(c)
    BY <1>9, <1>10, <1>11, <1>12 DEF Queue!Take
  <1> QED
    BY <1>8, <1>13

\* The handler keeps its message, and may have finished with it.
LEMMA HandlerFinishes ==
    ASSUME DInv, NEW c \in Consumers, MarkRunning(c) \/ MarkFinished(c) \/ PublishStatusEvent(c)
    PROVE  CopiesApart' /\ (Queue!Finish(c) \/ UNCHANGED Queue!vars)
  <1>1. /\ UNCHANGED <<delayed, ready, sent, held, linked>>
        /\ cpc[c] \in {"run", "work", "event"}
    BY DEF MarkRunning, MarkFinished, PublishStatusEvent, brokerVars
  <1>2. PICK pc \in {"run", "work", "event", "ack", "nack"} : cpc' = [cpc EXCEPT ![c] = pc]
    BY DEF MarkRunning, MarkFinished, PublishStatusEvent, RetryOrGiveUp
  <1>3. cpc'[c] = pc /\ \A d \in Consumers \ {c} : cpc'[d] = cpc[d]
    BY <1>2 DEF DInv, Shape, TypeOK
  <1>4. \A d \in Consumers : Has(d)' = Has(d)
    BY <1>1, <1>3 DEF Has
  <1>5. Unacked(Consumers)' \subseteq Unacked(Consumers)
    BY <1>1, <1>4, UnackedIs, UnackedIsNext
  <1>6. CopiesApart'
    BY <1>1, <1>5, MovedApart DEF DInv, CopiesApart, InBroker
  <1>7. \A d \in Consumers : HandOf(d)' = HandOf(d)
    BY <1>1, <1>4, HandIs, HandIsNext
  <1>8. Accepted' = Accepted /\ Waiting' = Waiting
    BY <1>1 DEF Accepted, Waiting, Id
  <1>9. CASE c \in linked /\ pc \in {"ack", "nack"}
    <2>1. Finished' = Finished \cup {c}
      BY <1>1, <1>3, <1>9 DEF Finished, DInv, Shape, TypeOK
    <2>2. HandOf(c) # {}
      BY <1>1, <1>9, HandIs DEF Has
    <2>3. Queue!Finish(c)
      BY <1>7, <1>8, <2>1, <2>2 DEF Queue!Finish
    <2> QED
      BY <1>6, <2>3
  <1>10. CASE ~(c \in linked /\ pc \in {"ack", "nack"})
    <2>1. Finished' = Finished
      BY <1>1, <1>3, <1>10 DEF Finished, DInv, Shape, TypeOK
    <2> QED
      BY <1>6, <1>7, <1>8, <2>1 DEF Queue!vars
  <1> QED
    BY <1>9, <1>10

\* Ack and Nack count on an open channel only.
LEMMA SettleSettles ==
    ASSUME DInv, NEW c \in Consumers, Settle(c)
    PROVE  CopiesApart' /\ (Queue!Settle(c) \/ UNCHANGED Queue!vars)
  <1>1. /\ UNCHANGED <<delayed, ready, sent, linked>>
        /\ cpc[c] \in {"ack", "nack"}
        /\ held' = [held EXCEPT ![c] = None]
        /\ cpc' = [cpc EXCEPT ![c] = IF c \in linked THEN "idle" ELSE "stopped"]
    BY DEF Settle, brokerVars
  <1>2. cpc'[c] \in {"idle", "stopped"}
        /\ \A d \in Consumers \ {c} : held'[d] = held[d] /\ cpc'[d] = cpc[d]
    BY <1>1 DEF DInv, Shape, TypeOK
  <1>3. ~Has(c)' /\ \A d \in Consumers \ {c} : Has(d)' = Has(d)
    BY <1>1, <1>2 DEF Has
  <1>4. Unacked(Consumers)' \subseteq Unacked(Consumers)
    BY <1>2, <1>3, UnackedIs, UnackedIsNext
  <1>5. CopiesApart'
    BY <1>1, <1>4, MovedApart DEF DInv, CopiesApart, InBroker
  <1>6. HandOf(c)' = {} /\ \A d \in Consumers \ {c} : HandOf(d)' = HandOf(d)
    BY <1>2, <1>3, HandIs, HandIsNext
  <1>7. Accepted' = Accepted /\ Waiting' = Waiting
    BY <1>1 DEF Accepted, Waiting, Id
  <1>8. Finished' = Finished \ {c}
    BY <1>1, <1>2 DEF Finished, DInv, Shape, TypeOK
  <1>9. CASE c \in linked
    <2>1. c \in Finished
      BY <1>1, <1>9 DEF Finished
    <2>2. Queue!Settle(c)
      BY <1>6, <1>7, <1>8, <2>1 DEF Queue!Settle
    <2> QED
      BY <1>5, <2>2
  <1>10. CASE c \notin linked
    <2>1. HandOf(c) = {} /\ c \notin Finished
      BY <1>10, HandIs DEF Has, Finished
    <2> QED
      BY <1>5, <1>6, <1>7, <1>8, <2>1 DEF Queue!vars
  <1> QED
    BY <1>9, <1>10

\* Who loses its channel gives back what it has, and nobody else does.
LEMMA LostChannels ==
    ASSUME DInv, NEW C \in SUBSET Consumers,
           UNCHANGED <<delayed, sent>>,
           ready' = ready \cup Unacked(C), linked' \subseteq Consumers,
           \A c \in C : ~Has(c)' /\ c \notin Finished',
           \A c \in Consumers \ C :
              /\ Has(c)' = Has(c) /\ (Has(c) => held'[c] = held[c])
              /\ c \in Finished' <=> c \in Finished
    PROVE  CopiesApart' /\ Queue!GiveBack
  <1>1. Unacked(Consumers)' \subseteq Unacked(Consumers) /\ Unacked(C) \subseteq Unacked(Consumers)
    BY UnackedIs, UnackedIsNext
  <1>2. CopiesApart'
    BY <1>1, MovedApart DEF DInv, CopiesApart, InBroker
  <1> DEFINE hands == [c \in Consumers |-> HandOf(c)]
  <1>3. hands' = [c \in Consumers |-> IF c \in C THEN {} ELSE hands[c]]
    BY HandIs, HandIsNext
  <1>4. Waiting' = Waiting \cup UNION {hands[c] : c \in C}
    <2>1. Waiting' = {Id(m) : m \in delayed' \cup ready'}
      BY DEF Waiting, Id
    <2>2. Waiting' = Waiting \cup {Id(m) : m \in Unacked(C)}
      BY <2>1 DEF Waiting
    <2>3. {Id(m) : m \in Unacked(C)} \subseteq UNION {hands[c] : c \in C}
      <3>1. ASSUME NEW m \in Unacked(C) PROVE \E c \in C : Id(m) \in hands[c]
        <4>1. PICK c \in C : Has(c) /\ m = held[c]
          BY UnackedIs
        <4> QED
          BY <4>1, HandIs
      <3> QED
        BY <3>1
    <2>4. UNION {hands[c] : c \in C} \subseteq {Id(m) : m \in Unacked(C)}
      <3>1. ASSUME NEW c \in C, NEW x \in hands[c] PROVE x \in {Id(m) : m \in Unacked(C)}
        <4>1. Has(c) /\ x = Id(held[c])
          BY <3>1, HandIs
        <4>2. held[c] \in Unacked(C)
          BY <4>1, UnackedIs
        <4> QED
          BY <4>1, <4>2
      <3> QED
        BY <3>1
    <2> QED
      BY <2>2, <2>3, <2>4
  <1>5. Accepted' = Accepted
    BY DEF Accepted
  <1>6. Finished \subseteq Consumers /\ Finished' \subseteq Consumers
    <2>1. linked \subseteq Consumers /\ linked' \subseteq Consumers
      BY DEF DInv, Shape, TypeOK
    <2> QED
      BY <2>1 DEF Finished
  <1>7. Finished' = Finished \ C
    BY <1>6
  <1>8. Queue!GiveBack
    BY <1>3, <1>4, <1>5, <1>7 DEF Queue!GiveBack
  <1> QED
    BY <1>2, <1>8

LEMMA CutGivesBack == ASSUME DInv, ConsumersCut PROVE CopiesApart' /\ Queue!GiveBack
  <1>1. PICK C \in SUBSET linked :
           /\ ready' = ready \cup Unacked(C)
           /\ linked' = linked \ C
           /\ cpc' = [c \in Consumers |->
                        IF c \in C /\ cpc[c] = "idle" THEN "stopped" ELSE cpc[c]]
    BY DEF ConsumersCut
  <1>2. UNCHANGED <<delayed, sent, held>> /\ linked \subseteq Consumers
    BY DEF ConsumersCut, DInv, Shape, TypeOK
  <1>3. \A c \in C : ~Has(c)' /\ c \notin Finished'
    BY <1>1 DEF Has, Finished
  <1>4. \A c \in Consumers \ C : /\ Has(c)' = Has(c) /\ held'[c] = held[c]
                                 /\ c \in Finished' <=> c \in Finished
    BY <1>1, <1>2 DEF Has, Finished
  <1> QED
    BY <1>1, <1>2, <1>3, <1>4, LostChannels

LEMMA CrashGivesBack == ASSUME DInv, WorkerCrash PROVE CopiesApart' /\ Queue!GiveBack
  <1>1. /\ UNCHANGED <<delayed, sent>> /\ linked' = Consumers
        /\ ready' = ready \cup Unacked(Consumers)
        /\ cpc' = [c \in Consumers |-> "idle"]
    BY DEF WorkerCrash
  <1>2. \A c \in Consumers : ~Has(c)' /\ c \notin Finished'
    BY <1>1 DEF Has, Finished
  <1> QED
    BY <1>1, <1>2, LostChannels

LEMMA NextDelivery ==
    ASSUME DInv, [Next]_vars
    PROVE  CopiesApart' /\ [Queue!Next]_(Queue!vars)
  <1>1. ASSUME NEW c \in Consumers, Deliver(c) \/ Consuming(c)
        PROVE  CopiesApart' /\ [Queue!Next]_(Queue!vars)
    BY <1>1, DeliverTakes, HandlerFinishes, SettleSettles DEF Consuming, Queue!Next
  <1>2. CASE ConsumersCut \/ WorkerCrash
    BY <1>2, CutGivesBack, CrashGivesBack DEF Queue!Next
  <1>3. CASE \E m \in delayed : Release(m)
    BY <1>3, ReleaseWaits
  <1>4. CASE \E p \in Procs : PublishDelayed(p)
    BY <1>4, PublishAccepts
  <1>5. CASE UNCHANGED <<brokerVars, workerVars>>
    BY <1>5, BrokerUntouched DEF DInv, brokerVars, workerVars
  <1>6. \/ UNCHANGED <<brokerVars, workerVars>>
        \/ \E p \in Procs : PublishDelayed(p)
        \/ \E m \in delayed : Release(m)
        \/ \E c \in Consumers : Deliver(c) \/ Consuming(c)
        \/ ConsumersCut \/ WorkerCrash
    BY DEF Next, Requesting, Publishing, Tick, CreateJobsService, ContextDone, UpdateRead,
           UpdateWrite, DeleteJobService, PublishFails, AwaitConfirm, ConfirmAbandoned,
           MarkQueued, RepublishStuckJobs, ServerCrash, ConnectionLost, vars
  <1> QED
    BY <1>1, <1>2, <1>3, <1>4, <1>5, <1>6

LEMMA DInvInvariant == Spec => []DInv
  <1>1. Init => DInv
    BY InitShape DEF Init, DInv, CopiesApart, InBroker, Unacked
  <1>2. DInv /\ [Next]_vars => DInv'
    BY NextShape, NextDelivery DEF DInv
  <1> QED
    BY <1>1, <1>2, PTL DEF Spec

\* The pipeline implements Delivery: whatever is published again, retried, cut off or
\* crashes, a copy of a job's message is in the queue, with one consumer, or settled for
\* good by a consumer that went through its attempts and still had it.
THEOREM PipelineImplementsDelivery == Spec => ImplementsDelivery
  <1>1. Init => Queue!Init
    <2> SUFFICES ASSUME Init PROVE Queue!Init
      OBVIOUS
    <2>1. Waiting = {} /\ Accepted = {} /\ Finished = {}
      BY DEF Init, Waiting, Accepted, Finished
    <2>2. \A c \in Consumers : HandOf(c) = {}
      BY HandIs DEF Init, Has
    <2> QED
      BY <2>1, <2>2 DEF Queue!Init
  <1>2. DInv /\ [Next]_vars => [Queue!Next]_(Queue!vars)
    BY NextDelivery
  <1> QED
    BY <1>1, <1>2, DInvInvariant, PTL DEF Spec, ImplementsDelivery, Queue!Spec
================================================================================
