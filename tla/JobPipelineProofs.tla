--------------------------- MODULE JobPipelineProofs ---------------------------
(***************************************************************************)
(* Proofs about JobPipeline, for every set of jobs, requests and consumers, *)
(* every retry limit and grace, and any number of faults.                   *)
(***************************************************************************)
EXTENDS JobPipeline, TLAPS

--------------------------------------------------------------------------------
(* Type correctness, with what the program counters say of the other variables. *)

\* What a server goroutine works on is a job that exists.
ServerShape ==
    \A p \in Procs :
        /\ \A b \in todo[p] : row[b.job].status # "absent"
        /\ ppc[p] \in {"confirm", "mark"} =>
             cur[p] \in Body /\ row[cur[p].job].status # "absent"
        /\ ppc[p] = "update" =>
             draft[p] \in Draft /\ draft[p].status # "absent"

\* A consumer past Deliver holds a message.
WorkerShape ==
    \A c \in Consumers : cpc[c] \notin {"idle", "stopped"} => held[c] \in Message

Shape == TypeOK /\ ServerShape /\ WorkerShape

USE DEF Procs

LEMMA MessageOfType ==
    ASSUME TypeOK, NEW b \in Body
    PROVE  MessageOf(b) \in Message
  BY DEF TypeOK, MessageOf, Message, Body

\* Every record that names a job names one of Jobs.
LEMMA JobFields ==
    /\ \A b \in Body : b.job \in Jobs
    /\ \A m \in Message : m.job \in Jobs
    /\ \A d \in Draft : d.job \in Jobs
  BY DEF Body, Message, Draft

LEMMA BodyOfType ==
    ASSUME NEW j \in Jobs, NEW r \in Row
    PROVE  BodyOf(j, r) \in Body /\ BodyOf(j, r).job = j
  BY DEF BodyOf, Body, Row

LEMMA RequestType ==
    ASSUME NEW r \in Requests
    PROVE  r.type \in Types /\ r.maxRetries \in Int /\ r.delay \in Int
  BY ConstantsAssumption DEF Requests

LEMMA InsertedRowType ==
    ASSUME TypeOK, NEW r \in Requests, WithinLimit(r.maxRetries)
    PROVE  InsertedRow(r) \in Row /\ InsertedRow(r).status = "pending"
  <1>1. InsertedRetries(r.maxRetries) \in StoredRetries
    BY RequestType, ConstantsAssumption DEF InsertedRetries, StoredRetries, WithinLimit
  <1>2. now + r.delay \in Int
    <2>1. now \in Int
      BY ConstantsAssumption DEF TypeOK
    <2> QED
      BY <2>1, RequestType
  <1> QED
    BY <1>1, <1>2, RequestType DEF InsertedRow, Row, Statuses

LEMMA OverwriteType ==
    ASSUME NEW r \in Row, NEW d \in Draft
    PROVE  Overwrite(r, d) \in Row /\ Overwrite(r, d).status = d.status
  BY DEF Overwrite, Row, Draft, StoredRetries

LEMMA TimestampType ==
    ASSUME NEW r \in Row
    PROVE  /\ [r EXCEPT !.queuedAt = "set"] \in Row
           /\ [r EXCEPT !.deletedAt = "set"] \in Row
           /\ [r EXCEPT !.queuedAt = "set"].status = r.status
           /\ [r EXCEPT !.deletedAt = "set"].status = r.status
  BY DEF Row

LEMMA OutcomeType == ASSUME NEW t PROVE Outcome(t) \in Terminal
  BY DEF Outcome, Terminal

LEMMA FaultType ==
    ASSUME TypeOK, NEW kind, Fault(kind)
    PROVE  budget' \in 0..MaxFaults
  BY ConstantsAssumption DEF TypeOK, Fault

LEMMA BlameType ==
    ASSUME TypeOK, NEW j \in Jobs, NEW mishap \in Mishaps, Blame(j, mishap)
    PROVE  excuse' \in [Jobs -> SUBSET Mishaps]
  BY DEF TypeOK, Blame

LEMMA MishapTypes ==
    {"misconfirmed", "exhausted", "skipped", "clobbered", "orphaned", "unannounced"}
        \subseteq Mishaps
  BY DEF Mishaps

\* No write to the table removes a job.
RowsKept == \A j \in Jobs : row'[j].status = "absent" => row[j].status = "absent"

LEMMA SetStatusType ==
    ASSUME TypeOK, NEW j \in Jobs, NEW s \in Statuses \ {"absent"}, SetStatus(j, s)
    PROVE  row' \in [Jobs -> Row] /\ RowsKept
  <1>1. CASE Live(j)
    <2>1. row' = [row EXCEPT ![j].status = s]
      BY <1>1 DEF SetStatus
    <2> QED
      BY <2>1 DEF TypeOK, Row, RowsKept
  <1>2. CASE ~Live(j)
    BY <1>2 DEF SetStatus, TypeOK, RowsKept
  <1> QED
    BY <1>1, <1>2

LEMMA RetryType ==
    ASSUME TypeOK, NEW c \in Consumers, held[c] \in Message, RetryOrGiveUp(c)
    PROVE  /\ attempt' \in [Consumers -> Nat]
           /\ \E pc \in {"run", "nack"} : cpc' = [cpc EXCEPT ![c] = pc]
           /\ excuse' \in [Jobs -> SUBSET Mishaps]
  <1>1. held[c].job \in Jobs
    BY DEF Message
  <1>2. CASE attempt[c] < held[c].maxRetries
    <2>1. /\ attempt' = [attempt EXCEPT ![c] = @ + 1]
          /\ cpc' = [cpc EXCEPT ![c] = "run"]
          /\ UNCHANGED excuse
      BY <1>2 DEF RetryOrGiveUp, TypeOK, Message, StoredRetries
    <2> QED
      BY <2>1 DEF TypeOK
  <1>3. CASE ~(attempt[c] < held[c].maxRetries)
    <2>1. /\ Blame(held[c].job, "exhausted")
          /\ cpc' = [cpc EXCEPT ![c] = "nack"]
          /\ UNCHANGED attempt
      BY <1>3 DEF RetryOrGiveUp
    <2> QED
      BY <2>1, <1>1, BlameType, MishapTypes DEF TypeOK
  <1> QED
    BY <1>2, <1>3

LEMMA UnackedType ==
    ASSUME TypeOK, WorkerShape, NEW C \in SUBSET Consumers
    PROVE  Unacked(C) \subseteq Message
  BY DEF TypeOK, WorkerShape, Unacked

LEMMA InitShape == Init => Shape
  <1> SUFFICES ASSUME Init PROVE Shape
    OBVIOUS
  <1>1. AbsentRow \in Row
    BY ConstantsAssumption DEF AbsentRow, Row, Statuses, Types, StoredRetries
  <1>2. TypeOK
    BY <1>1, ConstantsAssumption DEF Init, TypeOK
  <1> QED
    BY <1>2 DEF Init, Shape, ServerShape, WorkerShape

LEMMA ServerShapeKept ==
    ASSUME TypeOK, ServerShape, RowsKept, UNCHANGED <<ppc, todo, cur, draft>>
    PROVE  ServerShape'
  <1>1. \A p \in Procs : todo[p] \subseteq Body
    BY DEF TypeOK
  <1> QED
    BY <1>1, JobFields DEF ServerShape, RowsKept

LEMMA AdvanceShape ==
    ASSUME TypeOK, ServerShape, RowsKept, NEW p \in Procs, NEW rest \in SUBSET todo[p],
           Advance(p, rest), todo' = [todo EXCEPT ![p] = rest], UNCHANGED draft
    PROVE  /\ ServerShape'
           /\ ppc' \in [Procs -> {"idle", "publish", "confirm", "mark", "update"}]
           /\ todo' \in [Procs -> SUBSET Body]
           /\ cur' \in [Procs -> Body \cup {None}]
           /\ accepted' \subseteq Procs
           /\ expired' \subseteq Handlers
  <1>1. \A q \in Procs : todo[q] \subseteq Body /\ todo'[q] \subseteq todo[q]
    BY DEF TypeOK
  <1>2. \A q \in Procs : ppc'[q] \in {"confirm", "mark", "update"} =>
                            ppc'[q] = ppc[q] /\ cur'[q] = cur[q]
    BY DEF TypeOK, Advance
  <1>3. ServerShape'
    BY <1>1, <1>2, JobFields DEF ServerShape, RowsKept
  <1> QED
    BY <1>3 DEF TypeOK, Advance

LEMMA TickShape ==
    ASSUME Shape, Tick
    PROVE  Shape'
  <1>1. TypeOK'
    BY ConstantsAssumption DEF Shape, TypeOK, Tick, serverVars, brokerVars, workerVars, ghostVars
  <1>2. ServerShape' /\ WorkerShape'
    BY ConstantsAssumption DEF Shape, TypeOK, ServerShape, WorkerShape, Tick, serverVars, brokerVars, workerVars, ghostVars
  <1> QED
    BY <1>1, <1>2 DEF Shape

LEMMA PublishDelayedShape ==
    ASSUME Shape, NEW p \in Procs, PublishDelayed(p)
    PROVE  Shape'
  <1>1. PICK b \in todo[p] :
           /\ todo' = [todo EXCEPT ![p] = @ \ {b}]
           /\ cur' = [cur EXCEPT ![p] = b]
           /\ \/ /\ delayed' = delayed \cup {MessageOf(b)}
                 /\ sent' = [sent EXCEPT ![b.job] = @ + 1]
                 /\ accepted' = accepted \cup {p}
                 /\ confirms' = Append(confirms, "ack")
                 /\ UNCHANGED budget
              \/ /\ Fault("nack")
                 /\ accepted' = accepted \ {p}
                 /\ confirms' = Append(confirms, "nack")
                 /\ UNCHANGED <<delayed, sent>>
    BY DEF PublishDelayed
  <1>2. b \in Body /\ b.job \in Jobs /\ MessageOf(b) \in Message
    BY MessageOfType, JobFields DEF Shape, TypeOK
  <1>a. budget' \in 0..MaxFaults
    BY <1>1, FaultType DEF Shape, TypeOK
  <1>b. confirms' \in Seq({"ack", "nack"})
    <2>1. confirms \in Seq({"ack", "nack"})
      BY DEF Shape, TypeOK
    <2>2. confirms' = Append(confirms, "ack") \/ confirms' = Append(confirms, "nack")
      BY <1>1
    <2> QED
      BY <2>1, <2>2
  <1>3. /\ delayed' \subseteq Message
        /\ sent' \in [Jobs -> Nat]
        /\ accepted' \subseteq Procs
    BY <1>1, <1>2 DEF Shape, TypeOK
  <1>4. TypeOK'
    BY <1>1, <1>2, <1>a, <1>b, <1>3 DEF Shape, TypeOK, PublishDelayed, workerVars, ghostVars
  <1>5. ServerShape' /\ WorkerShape'
    BY <1>1, <1>2 DEF Shape, TypeOK, ServerShape, WorkerShape, PublishDelayed, workerVars
  <1> QED
    BY <1>4, <1>5 DEF Shape

LEMMA PublishFailsShape ==
    ASSUME Shape, NEW p \in Procs, PublishFails(p)
    PROVE  Shape'
  <1>1. PICK b \in todo[p] :
           todo' = [todo EXCEPT ![p] = @ \ {b}] /\ Advance(p, todo[p] \ {b})
    BY DEF PublishFails
  <1>2. RowsKept /\ UNCHANGED <<row, draft>>
    BY DEF PublishFails, RowsKept
  <1>3. /\ ServerShape'
        /\ ppc' \in [Procs -> {"idle", "publish", "confirm", "mark", "update"}]
        /\ todo' \in [Procs -> SUBSET Body]
        /\ cur' \in [Procs -> Body \cup {None}]
        /\ accepted' \subseteq Procs
        /\ expired' \subseteq Handlers
    BY <1>1, <1>2, AdvanceShape DEF Shape
  <1>4. TypeOK' /\ WorkerShape'
    BY <1>3 DEF Shape, TypeOK, WorkerShape, PublishFails, brokerVars, workerVars, ghostVars
  <1> QED
    BY <1>3, <1>4 DEF Shape

LEMMA AwaitConfirmShape ==
    ASSUME Shape, NEW p \in Procs, AwaitConfirm(p)
    PROVE  Shape'
  <1>1. confirms' \in Seq({"ack", "nack"})
    BY DEF Shape, TypeOK, AwaitConfirm
  <1>2. WorkerShape' /\ RowsKept
    BY DEF Shape, WorkerShape, RowsKept, AwaitConfirm, workerVars
  <1>3. CASE Head(confirms) = "ack"
    <2>1. cur[p] \in Body /\ cur[p].job \in Jobs
      BY DEF Shape, ServerShape, AwaitConfirm, Body
    <2>2. /\ ppc' = [ppc EXCEPT ![p] = "mark"]
          /\ UNCHANGED <<row, todo, cur, draft, accepted, expired>>
      BY <1>3 DEF AwaitConfirm
    <2>3. excuse' \in [Jobs -> SUBSET Mishaps]
      <3>1. UNCHANGED excuse \/ Blame(cur[p].job, "misconfirmed")
        BY <1>3 DEF AwaitConfirm
      <3> QED
        BY <3>1, <2>1, BlameType, MishapTypes DEF Shape, TypeOK
    <2>4. TypeOK'
      BY <1>1, <2>2, <2>3 DEF Shape, TypeOK, AwaitConfirm, brokerVars, workerVars
    <2>5. ServerShape'
      BY <2>1, <2>2 DEF Shape, TypeOK, ServerShape, AwaitConfirm
    <2> QED
      BY <1>2, <2>4, <2>5 DEF Shape
  <1>4. CASE Head(confirms) = "nack"
    <2>1. Advance(p, todo[p]) /\ UNCHANGED <<row, todo, draft, excuse>>
      BY <1>4 DEF AwaitConfirm
    <2>2. todo' = [todo EXCEPT ![p] = todo[p]]
      BY <2>1 DEF Shape, TypeOK
    <2>3. /\ ServerShape'
          /\ ppc' \in [Procs -> {"idle", "publish", "confirm", "mark", "update"}]
          /\ cur' \in [Procs -> Body \cup {None}]
          /\ accepted' \subseteq Procs
          /\ expired' \subseteq Handlers
      BY <1>2, <2>1, <2>2, AdvanceShape DEF Shape
    <2>4. TypeOK'
      BY <1>1, <2>1, <2>3 DEF Shape, TypeOK, AwaitConfirm, brokerVars, workerVars
    <2> QED
      BY <1>2, <2>3, <2>4 DEF Shape
  <1> QED
    BY <1>3, <1>4 DEF AwaitConfirm

LEMMA ConfirmAbandonedShape ==
    ASSUME Shape, NEW p \in Procs, ConfirmAbandoned(p)
    PROVE  Shape'
  <1>1. TypeOK'
    BY DEF Shape, TypeOK, ConfirmAbandoned, brokerVars, workerVars, ghostVars, Advance
  <1>2. ServerShape' /\ WorkerShape'
    BY DEF Shape, TypeOK, ServerShape, WorkerShape, ConfirmAbandoned, brokerVars, workerVars, ghostVars, Advance
  <1> QED
    BY <1>1, <1>2 DEF Shape

LEMMA MarkQueuedShape ==
    ASSUME Shape, NEW p \in Procs, MarkQueued(p)
    PROVE  Shape'
  <1>1. row' \in [Jobs -> Row] /\ RowsKept
    <2>1. cur[p].job \in Jobs
      BY JobFields DEF Shape, ServerShape, MarkQueued
    <2>2. CASE row' = row
      BY <2>2 DEF Shape, TypeOK, RowsKept
    <2>3. CASE row' = [row EXCEPT ![cur[p].job] = [@ EXCEPT !.queuedAt = "set"]]
      BY <2>1, <2>3, TimestampType DEF Shape, TypeOK, RowsKept
    <2> QED
      BY <2>2, <2>3 DEF MarkQueued
  <1>2. budget' \in 0..MaxFaults
    BY FaultType DEF Shape, TypeOK, MarkQueued
  <1>3. /\ ServerShape'
        /\ ppc' \in [Procs -> {"idle", "publish", "confirm", "mark", "update"}]
        /\ cur' \in [Procs -> Body \cup {None}]
        /\ accepted' \subseteq Procs
        /\ expired' \subseteq Handlers
    <2>1. Advance(p, todo[p]) /\ UNCHANGED draft
      BY DEF MarkQueued
    <2>2. todo' = [todo EXCEPT ![p] = todo[p]]
      BY DEF Shape, TypeOK, MarkQueued
    <2> QED
      BY <1>1, <2>1, <2>2, AdvanceShape DEF Shape
  <1>4. TypeOK' /\ WorkerShape'
    BY <1>1, <1>2, <1>3
    DEF Shape, TypeOK, WorkerShape, MarkQueued, brokerVars, workerVars, ghostVars
  <1> QED
    BY <1>3, <1>4 DEF Shape

LEMMA ContextDoneShape ==
    ASSUME Shape, NEW h \in Handlers, ContextDone(h)
    PROVE  Shape'
  <1>1. TypeOK'
    BY FaultType DEF Shape, TypeOK, ContextDone, brokerVars, workerVars, ghostVars
  <1>2. ServerShape' /\ WorkerShape'
    BY FaultType DEF Shape, TypeOK, ServerShape, WorkerShape, ContextDone, brokerVars, workerVars, ghostVars
  <1> QED
    BY <1>1, <1>2 DEF Shape

LEMMA RepublishStuckJobsShape ==
    ASSUME Shape, RepublishStuckJobs
    PROVE  Shape'
  <1> DEFINE bodies == {BodyOf(j, row[j]) : j \in StuckJobs}
  <1>1. \A b \in bodies : b \in Body /\ row[b.job].status # "absent"
    BY BodyOfType DEF Shape, TypeOK, StuckJobs, Live
  <1>2. /\ todo' = [todo EXCEPT ![Reconciler] = bodies]
        /\ \E pc \in {"idle", "publish"} : ppc' = [ppc EXCEPT ![Reconciler] = pc]
        /\ UNCHANGED <<row, cur, draft>>
    BY DEF RepublishStuckJobs
  <1> HIDE DEF bodies
  <1>3. TypeOK' /\ WorkerShape'
    BY <1>1, <1>2
    DEF Shape, TypeOK, WorkerShape, RepublishStuckJobs, brokerVars, workerVars, ghostVars
  <1>4. ServerShape'
    BY <1>1, <1>2 DEF Shape, TypeOK, ServerShape
  <1> QED
    BY <1>3, <1>4 DEF Shape

LEMMA UpdateReadShape ==
    ASSUME Shape, NEW h \in Handlers, UpdateRead(h)
    PROVE  Shape'
  <1>1. PICK j \in Jobs :
          /\ Live(j)
          /\ \E type \in RequestTypes \cup {row[j].type} :
             \E n \in RequestedRetries \cup {row[j].maxRetries} :
             \E at \in {now + d : d \in RequestedDelays} \cup {row[j].scheduledAt} :
              /\ WithinLimit(n)
              /\ draft' = [draft EXCEPT ![h] =
                   [job |-> j, status |-> row[j].status, queuedAt |-> row[j].queuedAt,
                    type |-> type, maxRetries |-> n, scheduledAt |-> at]]
    BY DEF UpdateRead
  <1>2. PICK type \in RequestTypes \cup {row[j].type},
             n \in RequestedRetries \cup {row[j].maxRetries},
             at \in {now + d : d \in RequestedDelays} \cup {row[j].scheduledAt} :
            /\ WithinLimit(n)
            /\ draft' = [draft EXCEPT ![h] =
                 [job |-> j, status |-> row[j].status, queuedAt |-> row[j].queuedAt,
                  type |-> type, maxRetries |-> n, scheduledAt |-> at]]
    BY <1>1
  <1> DEFINE d == [job |-> j, status |-> row[j].status, queuedAt |-> row[j].queuedAt,
                   type |-> type, maxRetries |-> n, scheduledAt |-> at]
  <1>3. d \in Draft /\ d.status # "absent"
    <2>1. row[j] \in Row
      BY DEF Shape, TypeOK
    <2>2. type \in Types /\ row[j].queuedAt \in {"NULL", "set"} /\ row[j].status \in Statuses
      BY <2>1, ConstantsAssumption DEF Row
    <2>3. n \in Int /\ n <= RetryLimit
      BY <1>2, <2>1, ConstantsAssumption DEF Row, WithinLimit, StoredRetries
    <2>4. at \in Int
      BY <2>1, ConstantsAssumption DEF Row, Shape, TypeOK
    <2> QED
      BY <1>1, <2>2, <2>3, <2>4 DEF Draft, Live
  <1>4. draft' = [draft EXCEPT ![h] = d] /\ ppc' = [ppc EXCEPT ![h] = "update"]
    BY <1>2 DEF UpdateRead
  <1> HIDE DEF d
  <1>5. TypeOK' /\ WorkerShape'
    BY <1>3, <1>4
    DEF Shape, TypeOK, WorkerShape, UpdateRead, brokerVars, workerVars, ghostVars
  <1>6. ServerShape'
    BY <1>3, <1>4 DEF Shape, TypeOK, ServerShape, UpdateRead
  <1> QED
    BY <1>5, <1>6 DEF Shape

LEMMA UpdateWriteShape ==
    ASSUME Shape, NEW h \in Handlers, UpdateWrite(h)
    PROVE  Shape'
  <1> DEFINE d == draft[h]
  <1>1. d \in Draft /\ d.job \in Jobs /\ d.status # "absent"
    BY JobFields DEF Shape, ServerShape, UpdateWrite
  <1>2. /\ row' \in [Jobs -> Row] /\ RowsKept
        /\ excuse' \in [Jobs -> SUBSET Mishaps]
        /\ budget' \in 0..MaxFaults
    <2>1. CASE UNCHANGED <<row, excuse>>
      <3>1. budget' \in 0..MaxFaults
        BY FaultType DEF UpdateWrite, Shape, TypeOK
      <3> QED
        BY <2>1, <3>1 DEF Shape, TypeOK, RowsKept
    <2>2. CASE /\ row' = [row EXCEPT ![d.job] = Overwrite(@, d)]
               /\ UNCHANGED excuse \/ Blame(d.job, "clobbered")
               /\ UNCHANGED budget
      <3>1. row[d.job] \in Row
        BY <1>1 DEF Shape, TypeOK
      <3>2. Overwrite(row[d.job], d) \in Row /\ Overwrite(row[d.job], d).status # "absent"
        BY <1>1, <3>1, OverwriteType
      <3>3. row' = [row EXCEPT ![d.job] = Overwrite(row[d.job], d)]
        BY <2>2
      <3>4. row' \in [Jobs -> Row] /\ RowsKept
        BY <1>1, <3>2, <3>3 DEF Shape, TypeOK, RowsKept
      <3>5. excuse' \in [Jobs -> SUBSET Mishaps]
        BY <1>1, <2>2, BlameType, MishapTypes DEF Shape, TypeOK
      <3> QED
        BY <2>2, <3>4, <3>5 DEF Shape, TypeOK
    <2> QED
      BY <2>1, <2>2 DEF UpdateWrite
  <1>3. TypeOK' /\ WorkerShape'
    BY <1>2 DEF Shape, TypeOK, WorkerShape, UpdateWrite, brokerVars, workerVars
  <1>4. ServerShape'
    <2>1. \A p \in Procs : todo[p] \subseteq Body
      BY DEF Shape, TypeOK
    <2>2. \A p \in Procs : ppc'[p] # "idle" => ppc'[p] = ppc[p] /\ draft'[p] = draft[p]
      BY DEF Shape, TypeOK, UpdateWrite
    <2>3. UNCHANGED <<todo, cur>>
      BY DEF UpdateWrite
    <2> QED
      BY <1>2, <2>1, <2>2, <2>3, JobFields DEF Shape, ServerShape, RowsKept
  <1> QED
    BY <1>3, <1>4 DEF Shape

LEMMA DeleteJobServiceShape ==
    ASSUME Shape, NEW h \in Handlers, DeleteJobService(h)
    PROVE  Shape'
  <1>1. PICK j \in Jobs : row' = [row EXCEPT ![j] = [@ EXCEPT !.deletedAt = "set"]]
    BY DEF DeleteJobService
  <1>2. row' \in [Jobs -> Row] /\ RowsKept
    BY <1>1, TimestampType DEF Shape, TypeOK, RowsKept
  <1>3. TypeOK' /\ WorkerShape'
    BY <1>2
    DEF Shape, TypeOK, WorkerShape, DeleteJobService, serverVars, brokerVars, workerVars,
        ghostVars
  <1>4. ServerShape'
    BY <1>2, ServerShapeKept DEF Shape, DeleteJobService, serverVars
  <1> QED
    BY <1>3, <1>4 DEF Shape

LEMMA ServerCrashShape ==
    ASSUME Shape, ServerCrash
    PROVE  Shape'
  <1>1. TypeOK'
    BY FaultType DEF Shape, TypeOK, ServerCrash, brokerVars, workerVars, ghostVars
  <1>2. ServerShape' /\ WorkerShape'
    BY FaultType DEF Shape, TypeOK, ServerShape, WorkerShape, ServerCrash, brokerVars, workerVars, ghostVars
  <1> QED
    BY <1>1, <1>2 DEF Shape

LEMMA ConnectionLostShape ==
    ASSUME Shape, ConnectionLost
    PROVE  Shape'
  <1>1. TypeOK'
    BY FaultType DEF Shape, TypeOK, ConnectionLost, brokerVars, workerVars, ghostVars
  <1>2. ServerShape' /\ WorkerShape'
    BY FaultType DEF Shape, TypeOK, ServerShape, WorkerShape, ConnectionLost, brokerVars, workerVars, ghostVars
  <1> QED
    BY <1>1, <1>2 DEF Shape

LEMMA ReleaseShape ==
    ASSUME Shape, NEW m \in delayed, Release(m)
    PROVE  Shape'
  <1>1. TypeOK'
    BY DEF Shape, TypeOK, Release, serverVars, workerVars, ghostVars
  <1>2. ServerShape' /\ WorkerShape'
    BY DEF Shape, TypeOK, ServerShape, WorkerShape, Release, serverVars, workerVars, ghostVars
  <1> QED
    BY <1>1, <1>2 DEF Shape

LEMMA DeliverShape ==
    ASSUME Shape, NEW c \in Consumers, Deliver(c)
    PROVE  Shape'
  <1>1. PICK m \in ready :
          /\ ready' = ready \ {m}
          /\ held' = [held EXCEPT ![c] = m]
          /\ attempt' = [attempt EXCEPT ![c] = 0]
          /\ \E pc \in {"run", "ack"} : cpc' = [cpc EXCEPT ![c] = pc]
          /\ UNCHANGED excuse \/ Blame(m.job, "skipped")
    BY DEF Deliver
  <1>2. m \in Message /\ m.job \in Jobs
    BY JobFields DEF Shape, TypeOK
  <1>3. excuse' \in [Jobs -> SUBSET Mishaps]
    BY <1>1, <1>2, BlameType, MishapTypes DEF Shape, TypeOK
  <1>4. TypeOK'
    BY <1>1, <1>2, <1>3 DEF Shape, TypeOK, Deliver, serverVars
  <1>5. ServerShape'
    BY ServerShapeKept DEF Shape, Deliver, serverVars, RowsKept
  <1>6. WorkerShape'
    BY <1>1, <1>2 DEF Shape, TypeOK, WorkerShape
  <1> QED
    BY <1>4, <1>5, <1>6 DEF Shape

LEMMA MarkRunningShape ==
    ASSUME Shape, NEW c \in Consumers, MarkRunning(c)
    PROVE  Shape'
  <1>0. held[c] \in Message /\ held[c].job \in Jobs
    BY DEF Shape, WorkerShape, RowsKept, Body, MarkRunning, Message
  <1>a. /\ row' \in [Jobs -> Row] /\ RowsKept
        /\ attempt' \in [Consumers -> Nat]
        /\ \E pc \in {"run", "nack", "work"} : cpc' = [cpc EXCEPT ![c] = pc]
        /\ excuse' \in [Jobs -> SUBSET Mishaps]
        /\ budget' \in 0..MaxFaults
    <2>1. CASE SetStatus(held[c].job, "running") /\ cpc' = [cpc EXCEPT ![c] = "work"]
                  /\ UNCHANGED <<attempt, excuse, budget>>
      BY <1>0, <2>1, SetStatusType, OutcomeType DEF Shape, TypeOK, Statuses, Terminal
    <2>2. CASE Fault("dbError") /\ RetryOrGiveUp(c) /\ UNCHANGED row
      BY <1>0, <2>2, FaultType, RetryType DEF Shape, TypeOK, RowsKept
    <2> QED
      BY <2>1, <2>2 DEF MarkRunning
  <1>1. TypeOK'
    BY <1>a DEF Shape, TypeOK, MarkRunning, serverVars, brokerVars
  <1>2. ServerShape'
    BY <1>a, ServerShapeKept DEF Shape, MarkRunning, serverVars
  <1>3. WorkerShape'
    BY <1>0, <1>a DEF Shape, TypeOK, WorkerShape, MarkRunning
  <1> QED
    BY <1>1, <1>2, <1>3 DEF Shape

LEMMA MarkFinishedShape ==
    ASSUME Shape, NEW c \in Consumers, MarkFinished(c)
    PROVE  Shape'
  <1>0. held[c] \in Message /\ held[c].job \in Jobs
    BY DEF Shape, WorkerShape, RowsKept, Body, MarkFinished, Message
  <1>a. /\ row' \in [Jobs -> Row] /\ RowsKept
        /\ attempt' \in [Consumers -> Nat]
        /\ \E pc \in {"run", "nack", "event"} : cpc' = [cpc EXCEPT ![c] = pc]
        /\ excuse' \in [Jobs -> SUBSET Mishaps]
        /\ budget' \in 0..MaxFaults
    <2>1. CASE SetStatus(held[c].job, Outcome(held[c].type))
                  /\ cpc' = [cpc EXCEPT ![c] = "event"] /\ UNCHANGED <<attempt, excuse, budget>>
      BY <1>0, <2>1, SetStatusType, OutcomeType DEF Shape, TypeOK, Statuses, Terminal
    <2>2. CASE Fault("dbError") /\ RetryOrGiveUp(c) /\ UNCHANGED row
      BY <1>0, <2>2, FaultType, RetryType DEF Shape, TypeOK, RowsKept
    <2> QED
      BY <2>1, <2>2 DEF MarkFinished
  <1>1. TypeOK'
    BY <1>a DEF Shape, TypeOK, MarkFinished, serverVars, brokerVars
  <1>2. ServerShape'
    BY <1>a, ServerShapeKept DEF Shape, MarkFinished, serverVars
  <1>3. WorkerShape'
    BY <1>0, <1>a DEF Shape, TypeOK, WorkerShape, MarkFinished
  <1> QED
    BY <1>1, <1>2, <1>3 DEF Shape

LEMMA PublishStatusEventShape ==
    ASSUME Shape, NEW c \in Consumers, PublishStatusEvent(c)
    PROVE  Shape'
  <1>1. held[c] \in Message /\ held[c].job \in Jobs
    BY JobFields DEF Shape, WorkerShape, PublishStatusEvent
  <1>2. announced' \in [Jobs -> SUBSET Terminal]
    <2>1. CASE UNCHANGED announced
      BY <2>1 DEF Shape, TypeOK
    <2>2. CASE announced' = [announced EXCEPT ![held[c].job] = @ \cup {Outcome(held[c].type)}]
      BY <1>1, <2>2, OutcomeType DEF Shape, TypeOK
    <2> QED
      BY <2>1, <2>2 DEF PublishStatusEvent
  <1>3. excuse' \in [Jobs -> SUBSET Mishaps]
    BY <1>1, BlameType, MishapTypes DEF Shape, TypeOK, PublishStatusEvent
  <1>4. budget' \in 0..MaxFaults
    BY FaultType DEF Shape, TypeOK, PublishStatusEvent
  <1>5. TypeOK' /\ WorkerShape'
    BY <1>1, <1>2, <1>3, <1>4
    DEF Shape, TypeOK, WorkerShape, PublishStatusEvent, serverVars, brokerVars
  <1>6. ServerShape'
    BY ServerShapeKept DEF Shape, PublishStatusEvent, serverVars, RowsKept
  <1> QED
    BY <1>5, <1>6 DEF Shape

LEMMA SettleShape ==
    ASSUME Shape, NEW c \in Consumers, Settle(c)
    PROVE  Shape'
  <1>1. TypeOK'
    BY DEF Shape, TypeOK, Settle, serverVars, brokerVars, ghostVars
  <1>2. ServerShape' /\ WorkerShape'
    BY DEF Shape, TypeOK, ServerShape, WorkerShape, Settle, serverVars, brokerVars, ghostVars
  <1> QED
    BY <1>1, <1>2 DEF Shape

LEMMA ConsumersCutShape ==
    ASSUME Shape, ConsumersCut
    PROVE  Shape'
  <1>1. TypeOK'
    BY UnackedType, FaultType DEF Shape, TypeOK, ConsumersCut, serverVars, ghostVars
  <1>2. ServerShape' /\ WorkerShape'
    BY UnackedType, FaultType DEF Shape, TypeOK, ServerShape, WorkerShape, ConsumersCut, serverVars, ghostVars
  <1> QED
    BY <1>1, <1>2 DEF Shape

LEMMA WorkerCrashShape ==
    ASSUME Shape, WorkerCrash
    PROVE  Shape'
  <1>1. TypeOK'
    BY UnackedType, FaultType DEF Shape, TypeOK, WorkerCrash, serverVars, Mishaps
  <1>2. ServerShape' /\ WorkerShape'
    BY UnackedType, FaultType DEF Shape, TypeOK, ServerShape, WorkerShape, WorkerCrash, serverVars, Mishaps
  <1> QED
    BY <1>1, <1>2 DEF Shape

LEMMA CreateJobsServiceShape ==
    ASSUME Shape, NEW h \in Handlers, CreateJobsService(h)
    PROVE  Shape'
  <1>0. PICK J \in SUBSET {j \in Jobs : row[j].status = "absent"} :
          \E req \in [J -> Requests] :
            /\ \A j \in J : WithinLimit(req[j].maxRetries)
            /\ row' = [j \in Jobs |-> IF j \in J THEN InsertedRow(req[j]) ELSE row[j]]
            /\ todo' = [todo EXCEPT ![h] = {BodyOf(j, InsertedRow(req[j])) : j \in J}]
            /\ ppc' = [ppc EXCEPT ![h] = "publish"]
    BY DEF CreateJobsService
  <1>1. PICK req \in [J -> Requests] :
          /\ \A j \in J : WithinLimit(req[j].maxRetries)
          /\ row' = [j \in Jobs |-> IF j \in J THEN InsertedRow(req[j]) ELSE row[j]]
          /\ todo' = [todo EXCEPT ![h] = {BodyOf(j, InsertedRow(req[j])) : j \in J}]
          /\ ppc' = [ppc EXCEPT ![h] = "publish"]
    BY <1>0
  <1> DEFINE bodies == {BodyOf(j, InsertedRow(req[j])) : j \in J}
  <1>2. \A j \in J : InsertedRow(req[j]) \in Row /\ InsertedRow(req[j]).status = "pending"
    BY <1>1, InsertedRowType DEF Shape
  <1>3. row' \in [Jobs -> Row] /\ RowsKept
    BY <1>1, <1>2 DEF Shape, TypeOK, RowsKept
  <1>4. \A b \in bodies : b \in Body /\ b.job \in J
    BY <1>2, BodyOfType
  <1>5. \A b \in bodies : row'[b.job].status # "absent"
    BY <1>1, <1>2, <1>4
  <1>6. todo' = [todo EXCEPT ![h] = bodies]
    BY <1>1
  <1> HIDE DEF bodies
  <1>7. TypeOK' /\ WorkerShape'
    BY <1>1, <1>3, <1>4, <1>6
    DEF Shape, TypeOK, WorkerShape, CreateJobsService, brokerVars, workerVars, ghostVars
  <1>8. ServerShape'
    <2>1. \A p \in Procs : todo[p] \subseteq Body
      BY DEF Shape, TypeOK
    <2>2. \A p \in Procs : ppc'[p] # "publish" => ppc'[p] = ppc[p]
      BY <1>1 DEF Shape, TypeOK
    <2>3. \A p \in Procs : todo'[p] = todo[p] \/ todo'[p] = bodies
      BY <1>6 DEF Shape, TypeOK
    <2>4. UNCHANGED <<cur, draft>>
      BY DEF CreateJobsService
    <2> QED
      BY <1>3, <1>5, <2>1, <2>2, <2>3, <2>4, JobFields DEF Shape, ServerShape, RowsKept
  <1> QED
    BY <1>7, <1>8 DEF Shape

LEMMA StutterShape ==
    ASSUME Shape, UNCHANGED vars
    PROVE  Shape'
  <1>1. TypeOK'
    BY DEF Shape, TypeOK, vars, serverVars, brokerVars, workerVars, ghostVars
  <1>2. ServerShape' /\ WorkerShape'
    BY DEF Shape, ServerShape, WorkerShape, vars, serverVars, workerVars
  <1> QED
    BY <1>1, <1>2 DEF Shape

LEMMA NextShape == Shape /\ [Next]_vars => Shape'
  <1> SUFFICES ASSUME Shape, [Next]_vars PROVE Shape'
    OBVIOUS
  <1>1. ASSUME NEW h \in Handlers, Requesting(h) PROVE Shape'
    BY <1>1, CreateJobsServiceShape, ContextDoneShape, UpdateReadShape, UpdateWriteShape,
       DeleteJobServiceShape DEF Requesting
  <1>2. ASSUME NEW p \in Procs, Publishing(p) PROVE Shape'
    BY <1>2, PublishDelayedShape, PublishFailsShape, AwaitConfirmShape,
       ConfirmAbandonedShape, MarkQueuedShape DEF Publishing
  <1>3. ASSUME NEW c \in Consumers, Deliver(c) \/ Consuming(c) PROVE Shape'
    BY <1>3, DeliverShape, MarkRunningShape, MarkFinishedShape, PublishStatusEventShape,
       SettleShape DEF Consuming
  <1>4. ASSUME NEW m \in delayed, Release(m) PROVE Shape'
    BY <1>4, ReleaseShape
  <1> QED
    BY <1>1, <1>2, <1>3, <1>4, TickShape, RepublishStuckJobsShape, ServerCrashShape,
       ConnectionLostShape, ConsumersCutShape, WorkerCrashShape, StutterShape DEF Next

\* Every reachable state is well typed: in particular no message and no row ever
\* carries a maxRetries of 0 or above the limit, whatever clients send and however
\* creations, updates, sweeps and crashes interleave.
THEOREM TypeCorrect == Spec => []TypeOK
  <1>1. Shape => TypeOK
    BY DEF Shape
  <1> QED
    BY <1>1, InitShape, NextShape, PTL DEF Spec

--------------------------------------------------------------------------------
(***************************************************************************)
(* The three safety properties say of a job's status that something will    *)
(* still act on it. PendingSafe is stronger than PendingJobRecoverable: it   *)
(* does not ask for queued_at, and holds from the moment the broker has      *)
(* taken the message, before MarkQueued makes the reconciler blind to it.    *)
(***************************************************************************)

PendingSafe(j) == Live(j) /\ row[j].status = "pending" => Recoverable(j)
RunningSafe(j) == Live(j) /\ row[j].status = "running" => Tended(j)
OutcomeSafe(j) == Live(j) /\ row[j].status \in Terminal => Announced(j)

\* Consumers that will write a status of j, and those of them whose channel is open.
Working(j) == InHand(Consumers, j, {"run", "work"})
Served(j)  == InHand(linked, j, {"run", "work"})

\* Publishers between the broker's answer and MarkQueued, and what they rely on.
Claim(p) == ppc[p] = "mark" \/ (ppc[p] = "confirm" /\ p \in accepted)

PublishedCarried == \A p \in Procs : Claim(p) => PendingSafe(cur[p].job)

\* A row that was never inserted is blank, and what an update has read of queued_at is
\* still true when it writes.
RowsKnown ==
    /\ \A j \in Jobs :
         row[j].status = "absent" => row[j].queuedAt = "NULL" /\ row[j].deletedAt = "NULL"
    /\ \A p \in Procs :
         ppc[p] = "update" =>
             /\ row[draft[p].job].status # "absent"
             /\ draft[p].queuedAt = "set" => row[draft[p].job].queuedAt = "set"

Active(c) == cpc[c] \in {"run", "work", "event"}

\* The outcome of message m is announced, will be, or is known to be lost.
Covered(m) ==
    \/ m \in ready
    \/ \E d \in linked : Active(d) /\ held[d] = m
    \/ Outcome(m.type) \in announced[m.job]
    \/ About(m.job, {"unannounced", "exhausted"})

\* The message of a consumer that lost its channel was requeued, and whoever runs it
\* announces the same outcome: why a consumer that is cut off and then dies takes no
\* announcement with it.
CutCovered == \A c \in Consumers \ linked : Active(c) => Covered(held[c])

\* The inductive invariant.
IInv ==
    /\ Shape
    /\ RetryBudget
    /\ RowsKnown
    /\ CutCovered
    /\ PublishedCarried
    /\ PendingJobRecoverable
    /\ RunningJobTended
    /\ OutcomeAnnounced

\* What a step does to the three facts about one job that existed before it.
Kept ==
    \A j \in Jobs :
        /\ row[j].status # "absent" /\ PendingSafe(j) => PendingSafe(j)'
        /\ RunningSafe(j) => RunningSafe(j)'
        /\ OutcomeSafe(j) => OutcomeSafe(j)'

\* Steps of the server and the broker that lose no message, write no status and
\* forget no mishap.
Additive ==
    /\ \A j \in Jobs : Live(j)' => Live(j) /\ row'[j].status = row[j].status
    /\ delayed \cup ready \subseteq delayed' \cup ready'
    /\ UNCHANGED <<cpc, held, linked, announced>>
    /\ \A j \in Jobs : excuse[j] \subseteq excuse'[j]

LEMMA AdditiveKept == Additive => Kept
  <1> SUFFICES ASSUME Additive, NEW j \in Jobs
               PROVE  /\ PendingSafe(j) => PendingSafe(j)'
                      /\ RunningSafe(j) => RunningSafe(j)'
                      /\ OutcomeSafe(j) => OutcomeSafe(j)'
    BY DEF Kept
  <1>1. Live(j)' => Live(j) /\ row'[j].status = row[j].status
    BY DEF Additive
  <1>2. (Queued(j) => Queued(j)') /\ (QueuedRunnable(j) => QueuedRunnable(j)')
    BY DEF Additive, Queued, QueuedRunnable
  <1>3. \A S : About(j, S) => About(j, S)'
    BY DEF Additive, About
  <1>4. (Working(j) => Working(j)') /\ (Served(j) => Served(j)')
    BY DEF Additive, Working, Served, InHand
  <1>5. PendingSafe(j) => PendingSafe(j)'
    BY <1>1, <1>2, <1>3 DEF Additive, PendingSafe, Recoverable, InHand
  <1>6. RunningSafe(j) => RunningSafe(j)'
    BY <1>1, <1>2, <1>3, <1>4 DEF Additive, RunningSafe, Tended, Working
  <1>7. OutcomeSafe(j) => OutcomeSafe(j)'
    BY <1>1, <1>2, <1>3, <1>4 DEF Additive, OutcomeSafe, Announced, Served
  <1> QED
    BY <1>5, <1>6, <1>7

LEMMA BlameGrows ==
    ASSUME TypeOK, NEW i \in Jobs, NEW mishap, Blame(i, mishap)
    PROVE  /\ \A j \in Jobs : excuse[j] \subseteq excuse'[j]
           /\ mishap \in excuse'[i]
  BY DEF TypeOK, Blame

LEMMA TickKept ==
    ASSUME Shape, Tick
    PROVE  Kept
  <1>1. Additive
    BY DEF Additive, Live, Tick, brokerVars, workerVars, ghostVars
  <1> QED
    BY <1>1, AdditiveKept

LEMMA PublishFailsKept ==
    ASSUME Shape, NEW p \in Procs, PublishFails(p)
    PROVE  Kept
  <1>1. Additive
    BY DEF Additive, Live, PublishFails, brokerVars, workerVars, ghostVars
  <1> QED
    BY <1>1, AdditiveKept

LEMMA ConfirmAbandonedKept ==
    ASSUME Shape, NEW p \in Procs, ConfirmAbandoned(p)
    PROVE  Kept
  <1>1. Additive
    BY DEF Additive, Live, ConfirmAbandoned, brokerVars, workerVars, ghostVars
  <1> QED
    BY <1>1, AdditiveKept

LEMMA ContextDoneKept ==
    ASSUME Shape, NEW h \in Handlers, ContextDone(h)
    PROVE  Kept
  <1>1. Additive
    BY DEF Additive, Live, ContextDone, brokerVars, workerVars, ghostVars
  <1> QED
    BY <1>1, AdditiveKept

LEMMA RepublishStuckJobsKept ==
    ASSUME Shape, RepublishStuckJobs
    PROVE  Kept
  <1>1. Additive
    BY DEF Additive, Live, RepublishStuckJobs, brokerVars, workerVars, ghostVars
  <1> QED
    BY <1>1, AdditiveKept

LEMMA UpdateReadKept ==
    ASSUME Shape, NEW h \in Handlers, UpdateRead(h)
    PROVE  Kept
  <1>1. Additive
    BY DEF Additive, Live, UpdateRead, brokerVars, workerVars, ghostVars
  <1> QED
    BY <1>1, AdditiveKept

LEMMA ServerCrashKept ==
    ASSUME Shape, ServerCrash
    PROVE  Kept
  <1>1. Additive
    BY DEF Additive, Live, ServerCrash, brokerVars, workerVars, ghostVars
  <1> QED
    BY <1>1, AdditiveKept

LEMMA ConnectionLostKept ==
    ASSUME Shape, ConnectionLost
    PROVE  Kept
  <1>1. Additive
    BY DEF Additive, Live, ConnectionLost, brokerVars, workerVars, ghostVars
  <1> QED
    BY <1>1, AdditiveKept

LEMMA PublishDelayedKept ==
    ASSUME Shape, NEW p \in Procs, PublishDelayed(p)
    PROVE  Kept
  <1>1. Additive
    BY DEF Additive, Live, PublishDelayed, workerVars, ghostVars
  <1> QED
    BY <1>1, AdditiveKept

LEMMA ReleaseKept ==
    ASSUME Shape, NEW m \in delayed, Release(m)
    PROVE  Kept
  <1>1. Additive
    BY DEF Additive, Live, Release, workerVars, ghostVars
  <1> QED
    BY <1>1, AdditiveKept

LEMMA AwaitConfirmKept ==
    ASSUME Shape, NEW p \in Procs, AwaitConfirm(p)
    PROVE  Kept
  <1>1. cur[p].job \in Jobs
    BY JobFields DEF Shape, ServerShape, AwaitConfirm
  <1>2. \A j \in Jobs : excuse[j] \subseteq excuse'[j]
    BY <1>1, BlameGrows DEF Shape, AwaitConfirm
  <1>3. Additive
    BY <1>2 DEF Additive, Live, AwaitConfirm, brokerVars, workerVars
  <1> QED
    BY <1>3, AdditiveKept

LEMMA MarkQueuedKept ==
    ASSUME Shape, NEW p \in Procs, MarkQueued(p)
    PROVE  Kept
  <1>1. cur[p].job \in Jobs
    BY JobFields DEF Shape, ServerShape, MarkQueued
  <1>2. \A j \in Jobs : row'[j].status = row[j].status /\ row'[j].deletedAt = row[j].deletedAt
    <2>1. CASE row' = row
      BY <2>1
    <2>2. CASE row' = [row EXCEPT ![cur[p].job] = [@ EXCEPT !.queuedAt = "set"]]
      BY <1>1, <2>2 DEF Shape, TypeOK, Row
    <2> QED
      BY <2>1, <2>2 DEF MarkQueued
  <1>3. Additive
    BY <1>2 DEF Additive, Live, MarkQueued, brokerVars, workerVars, ghostVars
  <1> QED
    BY <1>3, AdditiveKept

LEMMA DeleteJobServiceKept ==
    ASSUME Shape, NEW h \in Handlers, DeleteJobService(h)
    PROVE  Kept
  <1>1. PICK i \in Jobs : row' = [row EXCEPT ![i] = [@ EXCEPT !.deletedAt = "set"]]
    BY DEF DeleteJobService
  <1>2. \A j \in Jobs : /\ row'[j].status = row[j].status
                        /\ row'[j].deletedAt = "NULL" => row[j].deletedAt = "NULL"
    BY <1>1 DEF Shape, TypeOK, Row
  <1>3. Additive
    BY <1>2 DEF Additive, Live, DeleteJobService, brokerVars, workerVars, ghostVars
  <1> QED
    BY <1>3, AdditiveKept

\* The rows of the batch are new; the others are not touched.
LEMMA CreateJobsServiceKept ==
    ASSUME Shape, NEW h \in Handlers, CreateJobsService(h)
    PROVE  Kept
  <1>1. \A j \in Jobs : \/ row'[j] = row[j]
                        \/ row[j].status = "absent" /\ row'[j].status = "pending"
    <2>1. PICK J \in SUBSET {j \in Jobs : row[j].status = "absent"} :
            \E req \in [J -> Requests] :
              row' = [j \in Jobs |-> IF j \in J THEN InsertedRow(req[j]) ELSE row[j]]
      BY DEF CreateJobsService
    <2>2. PICK req \in [J -> Requests] :
            row' = [j \in Jobs |-> IF j \in J THEN InsertedRow(req[j]) ELSE row[j]]
      BY <2>1
    <2>3. \A j \in J : InsertedRow(req[j]).status = "pending" /\ row[j].status = "absent"
      BY DEF InsertedRow
    <2> TAKE j \in Jobs
    <2>4. CASE j \in J
      <3>1. row'[j] = InsertedRow(req[j])
        BY <2>2, <2>4
      <3> QED
        BY <2>3, <2>4, <3>1
    <2>5. CASE j \notin J
      BY <2>2, <2>5
    <2> QED
      BY <2>4, <2>5
  <1>2. UNCHANGED <<delayed, ready, cpc, held, linked, announced, excuse>>
    BY DEF CreateJobsService, brokerVars, workerVars, ghostVars
  <1>3. ASSUME NEW j \in Jobs
        PROVE  /\ Recoverable(j) <=> Recoverable(j)'
               /\ Tended(j) <=> Tended(j)'
               /\ row'[j] = row[j] => (Announced(j) <=> Announced(j)')
    BY <1>2 DEF Recoverable, Tended, Announced, Queued, QueuedRunnable, InHand, About
  <1> QED
    BY <1>1, <1>3 DEF Kept, PendingSafe, RunningSafe, OutcomeSafe, Live, Terminal

\* A stale status written over a newer one is a mishap that excuses the job.
LEMMA UpdateWriteKept ==
    ASSUME Shape, NEW h \in Handlers, UpdateWrite(h)
    PROVE  Kept
  <1>1. PICK d \in Draft : d = draft[h] /\ d.job \in Jobs
    BY JobFields DEF Shape, ServerShape, UpdateWrite
  <1>2. UNCHANGED <<delayed, ready, cpc, held, linked, announced>>
    BY DEF UpdateWrite, brokerVars, workerVars
  <1>3. CASE UNCHANGED <<row, excuse>>
    <2>1. Additive
      BY <1>2, <1>3 DEF Additive, Live
    <2> QED
      BY <2>1, AdditiveKept
  <1>4. CASE /\ row' = [row EXCEPT ![d.job] = Overwrite(@, d)]
             /\ IF row[d.job].status = d.status THEN UNCHANGED excuse
                                                ELSE Blame(d.job, "clobbered")
    <2>1. \A j \in Jobs \ {d.job} : row'[j] = row[j]
      BY <1>4 DEF Shape, TypeOK
    <2>2. row'[d.job].status = d.status /\ row'[d.job].deletedAt = row[d.job].deletedAt
      BY <1>1, <1>4 DEF Shape, TypeOK, Row, Overwrite
    <2>3. CASE row[d.job].status = d.status
      <3>1. Additive
        BY <1>1, <1>2, <1>4, <2>1, <2>2, <2>3 DEF Additive, Live
      <3> QED
        BY <3>1, AdditiveKept
    <2>4. CASE row[d.job].status # d.status
      <3>1. Blame(d.job, "clobbered")
        BY <1>4, <2>4
      <3>2. \A j \in Jobs : excuse[j] \subseteq excuse'[j]
        BY <1>1, <3>1, BlameGrows DEF Shape
      <3>3. "clobbered" \in excuse'[d.job]
        BY <1>1, <3>1, BlameGrows DEF Shape
      <3>4. PendingSafe(d.job)' /\ RunningSafe(d.job)' /\ OutcomeSafe(d.job)'
        BY <3>3 DEF PendingSafe, RunningSafe, OutcomeSafe, Recoverable, Tended, Announced,
                    About
      <3>5. ASSUME NEW j \in Jobs \ {d.job}
            PROVE  /\ PendingSafe(j) => PendingSafe(j)'
                   /\ RunningSafe(j) => RunningSafe(j)'
                   /\ OutcomeSafe(j) => OutcomeSafe(j)'
        BY <1>2, <2>1, <3>2
        DEF PendingSafe, RunningSafe, OutcomeSafe, Recoverable, Tended, Announced, Live,
            Queued, QueuedRunnable, InHand, About
      <3> QED
        BY <3>4, <3>5 DEF Kept
    <2> QED
      BY <2>3, <2>4
  <1> QED
    BY <1>1, <1>3, <1>4 DEF UpdateWrite

USE DEF PendingSafe, RunningSafe, OutcomeSafe

LEMMA DeliverKept ==
    ASSUME Shape, NEW c \in Consumers, Deliver(c)
    PROVE  Kept
  <1>1. PICK m \in ready :
          /\ ready' = ready \ {m}
          /\ held' = [held EXCEPT ![c] = m]
          /\ \/ m.maxRetries >= 0 /\ cpc' = [cpc EXCEPT ![c] = "run"] /\ UNCHANGED excuse
             \/ m.maxRetries < 0 /\ cpc' = [cpc EXCEPT ![c] = "ack"] /\ Blame(m.job, "skipped")
    BY DEF Deliver
  <1>2. m.job \in Jobs /\ m.maxRetries \in Int
    BY DEF Shape, TypeOK, Message, StoredRetries
  <1>3. /\ c \in linked /\ cpc[c] = "idle"
        /\ UNCHANGED <<row, delayed, linked, announced>>
    BY DEF Deliver
  <1>4. \A j \in Jobs : excuse[j] \subseteq excuse'[j]
    BY <1>1, <1>2, BlameGrows DEF Shape
  <1>5. \A e \in Consumers \ {c} : cpc'[e] = cpc[e] /\ held'[e] = held[e]
    BY <1>1 DEF Shape, TypeOK
  <1>6. \/ m.maxRetries >= 0 /\ cpc'[c] = "run" /\ held'[c] = m
        \/ m.maxRetries < 0 /\ "skipped" \in excuse'[m.job]
    BY <1>1, <1>2, BlameGrows DEF Shape, TypeOK
  <1>7. linked \subseteq Consumers
    BY DEF Shape, TypeOK
  <1> SUFFICES ASSUME NEW j \in Jobs
               PROVE  /\ PendingSafe(j) => PendingSafe(j)'
                      /\ RunningSafe(j) => RunningSafe(j)'
                      /\ OutcomeSafe(j) => OutcomeSafe(j)'
    BY DEF Kept
  <1>8. Recoverable(j) => Recoverable(j)'
    BY <1>1, <1>3, <1>4, <1>5, <1>6, <1>7 DEF Recoverable, Queued, About, InHand
  <1>9. /\ QueuedRunnable(j) => QueuedRunnable(j)' \/ (Working(j)' /\ Served(j)')
        /\ (Working(j) => Working(j)') /\ (Served(j) => Served(j)')
    BY <1>1, <1>2, <1>3, <1>5, <1>6, <1>7 DEF QueuedRunnable, Working, Served, InHand
  <1>10. (Tended(j) => Tended(j)') /\ (Announced(j) => Announced(j)')
    BY <1>3, <1>4, <1>5, <1>9 DEF Tended, Announced, About, Working, Served
  <1> QED
    BY <1>3, <1>8, <1>10 DEF Live

\* A failed attempt: the consumer tries again, or the job is blamed.
LEMMA RetryKept ==
    ASSUME Shape, NEW c \in Consumers, cpc[c] \in {"run", "work"}, RetryOrGiveUp(c),
           UNCHANGED <<row, delayed, ready, held, linked, announced>>
    PROVE  Kept
  <1>1. PICK i \in Jobs : i = held[c].job
    BY JobFields DEF Shape, WorkerShape
  <1>2. \/ cpc' = [cpc EXCEPT ![c] = "run"] /\ UNCHANGED excuse
        \/ cpc' = [cpc EXCEPT ![c] = "nack"] /\ Blame(i, "exhausted")
    BY <1>1 DEF RetryOrGiveUp
  <1>3. \A j \in Jobs : excuse[j] \subseteq excuse'[j]
    BY <1>1, <1>2, BlameGrows DEF Shape
  <1>4. cpc'[c] = "run" \/ "exhausted" \in excuse'[i]
    BY <1>1, <1>2, BlameGrows DEF Shape, TypeOK
  <1>5. \A e \in Consumers \ {c} : cpc'[e] = cpc[e]
    BY <1>2 DEF Shape, TypeOK
  <1>6. linked \subseteq Consumers
    BY DEF Shape, TypeOK
  <1> SUFFICES ASSUME NEW j \in Jobs
               PROVE  /\ PendingSafe(j) => PendingSafe(j)'
                      /\ RunningSafe(j) => RunningSafe(j)'
                      /\ OutcomeSafe(j) => OutcomeSafe(j)'
    BY DEF Kept
  <1>7. Recoverable(j) => Recoverable(j)'
    BY <1>1, <1>3, <1>4, <1>5, <1>6 DEF Recoverable, Queued, About, InHand
  <1>8. (QueuedRunnable(j) <=> QueuedRunnable(j)')
    BY DEF QueuedRunnable
  <1>9. /\ Working(j) => Working(j)' \/ About(j, {"exhausted"})'
        /\ Served(j) => Served(j)' \/ About(j, {"exhausted"})'
    BY <1>1, <1>4, <1>5, <1>6 DEF Working, Served, InHand, About
  <1>10. (Tended(j) => Tended(j)') /\ (Announced(j) => Announced(j)')
    BY <1>3, <1>5, <1>8, <1>9 DEF Tended, Announced, About, Working, Served
  <1> QED
    BY <1>7, <1>10 DEF Live

\* A status written by a consumer that then stands for it.
LEMMA SetStatusKept ==
    ASSUME Shape, NEW c \in Consumers, NEW s \in Statuses,
           SetStatus(held[c].job, s),
           UNCHANGED <<delayed, ready, held, linked, announced, excuse>>,
           \/ cpc[c] = "run" /\ cpc' = [cpc EXCEPT ![c] = "work"] /\ s = "running"
           \/ /\ cpc[c] = "work" /\ cpc' = [cpc EXCEPT ![c] = "event"]
              /\ s = Outcome(held[c].type)
    PROVE  Kept
  <1>1. PICK i \in Jobs : i = held[c].job
    BY JobFields DEF Shape, WorkerShape
  <1>2. \A j \in Jobs \ {i} : row'[j] = row[j]
    BY <1>1 DEF SetStatus, Shape, TypeOK
  <1>3. Live(i)' => row'[i].status = s
    BY <1>1 DEF SetStatus, Shape, TypeOK, Row, Live
  <1>4. \A e \in Consumers \ {c} : cpc'[e] = cpc[e]
    BY DEF Shape, TypeOK
  <1>5. \/ cpc'[c] = "work" /\ s = "running"
        \/ cpc'[c] = "event" /\ s = Outcome(held[c].type)
    BY DEF Shape, TypeOK
  <1>6. s # "pending"
    BY <1>5, OutcomeType DEF Terminal
  <1>7. PendingSafe(i)'
    BY <1>3, <1>6
  <1>8. RunningSafe(i)'
    BY <1>1, <1>3, <1>5, OutcomeType DEF Tended, InHand, Terminal
  <1>9. OutcomeSafe(i)'
    BY <1>1, <1>3, <1>5 DEF Announced, Terminal
  <1>10. linked \subseteq Consumers
    BY DEF Shape, TypeOK
  <1>11. ASSUME NEW j \in Jobs \ {i}
         PROVE  /\ PendingSafe(j) => PendingSafe(j)'
                /\ RunningSafe(j) => RunningSafe(j)'
                /\ OutcomeSafe(j) => OutcomeSafe(j)'
    <2>1. (QueuedRunnable(j) <=> QueuedRunnable(j)') /\ (Queued(j) <=> Queued(j)')
      BY DEF QueuedRunnable, Queued
    <2>2. (Working(j) => Working(j)') /\ (Served(j) => Served(j)')
      BY <1>1, <1>4, <1>10 DEF Working, Served, InHand
    <2>3. Recoverable(j) => Recoverable(j)'
      BY <1>1, <1>4, <1>10, <2>1 DEF Recoverable, About, InHand
    <2>4. (Tended(j) => Tended(j)') /\ (Announced(j) => Announced(j)')
      BY <1>1, <1>2, <1>4, <2>1, <2>2 DEF Tended, Announced, About, Working, Served
    <2> QED
      BY <1>2, <2>3, <2>4 DEF Live
  <1> QED
    BY <1>7, <1>8, <1>9, <1>11 DEF Kept

LEMMA MarkRunningKept ==
    ASSUME Shape, NEW c \in Consumers, MarkRunning(c)
    PROVE  Kept
  <1>1. cpc[c] = "run" /\ UNCHANGED <<delayed, ready, held, linked, announced>>
    BY DEF MarkRunning, brokerVars
  <1>2. CASE /\ SetStatus(held[c].job, "running")
             /\ cpc' = [cpc EXCEPT ![c] = "work"] /\ UNCHANGED excuse
    BY <1>1, <1>2, SetStatusKept DEF Statuses
  <1>3. CASE RetryOrGiveUp(c) /\ UNCHANGED row
    BY <1>1, <1>3, RetryKept
  <1> QED
    BY <1>2, <1>3 DEF MarkRunning

LEMMA MarkFinishedKept ==
    ASSUME Shape, NEW c \in Consumers, MarkFinished(c)
    PROVE  Kept
  <1>1. cpc[c] = "work" /\ UNCHANGED <<delayed, ready, held, linked, announced>>
    BY DEF MarkFinished, brokerVars
  <1>2. CASE /\ SetStatus(held[c].job, Outcome(held[c].type))
             /\ cpc' = [cpc EXCEPT ![c] = "event"] /\ UNCHANGED excuse
    <2>1. PICK s \in Statuses : s = Outcome(held[c].type)
      BY OutcomeType DEF Statuses, Terminal
    <2> QED
      BY <1>1, <1>2, <2>1, SetStatusKept
  <1>3. CASE RetryOrGiveUp(c) /\ UNCHANGED row
    BY <1>1, <1>3, RetryKept
  <1> QED
    BY <1>2, <1>3 DEF MarkFinished

LEMMA PublishStatusEventKept ==
    ASSUME Shape, NEW c \in Consumers, PublishStatusEvent(c)
    PROVE  Kept
  <1>1. PICK i \in Jobs : i = held[c].job
    BY JobFields DEF Shape, WorkerShape, PublishStatusEvent
  <1>2. /\ cpc[c] = "event" /\ cpc' = [cpc EXCEPT ![c] = "ack"]
        /\ UNCHANGED <<row, delayed, ready, held, linked>>
    BY DEF PublishStatusEvent, brokerVars
  <1>3. \A e \in Consumers \ {c} : cpc'[e] = cpc[e]
    BY <1>2 DEF Shape, TypeOK
  <1>4. /\ \A j \in Jobs : excuse[j] \subseteq excuse'[j] /\ announced[j] \subseteq announced'[j]
        /\ Outcome(held[c].type) \in announced'[i] \/ "unannounced" \in excuse'[i]
    <2>1. CASE /\ announced' = [announced EXCEPT ![i] = @ \cup {Outcome(held[c].type)}]
               /\ UNCHANGED excuse
      BY <2>1 DEF Shape, TypeOK
    <2>2. CASE Blame(i, "unannounced") /\ UNCHANGED announced
      BY <2>2, BlameGrows DEF Shape
    <2> QED
      BY <1>1, <2>1, <2>2 DEF PublishStatusEvent
  <1>5. linked \subseteq Consumers
    BY DEF Shape, TypeOK
  <1> SUFFICES ASSUME NEW j \in Jobs
               PROVE  /\ PendingSafe(j) => PendingSafe(j)'
                      /\ RunningSafe(j) => RunningSafe(j)'
                      /\ OutcomeSafe(j) => OutcomeSafe(j)'
    BY DEF Kept
  <1>6. (QueuedRunnable(j) <=> QueuedRunnable(j)') /\ (Queued(j) <=> Queued(j)')
    BY <1>2 DEF QueuedRunnable, Queued
  <1>7. (Working(j) => Working(j)') /\ (Served(j) => Served(j)')
    BY <1>2, <1>3, <1>5 DEF Working, Served, InHand
  <1>8. Recoverable(j) => Recoverable(j)'
    BY <1>2, <1>3, <1>4, <1>5, <1>6 DEF Recoverable, About, InHand
  <1>9. Tended(j) => Tended(j)'
    BY <1>4, <1>6, <1>7 DEF Tended, About, Working
  <1>10. Announced(j) => Announced(j)'
    BY <1>1, <1>2, <1>3, <1>4, <1>6, <1>7 DEF Announced, About, Working, Served
  <1> QED
    BY <1>2, <1>8, <1>9, <1>10 DEF Live

\* What is acked or nacked is no longer counted on.
LEMMA SettleKept ==
    ASSUME Shape, NEW c \in Consumers, Settle(c)
    PROVE  Kept
  <1>1. /\ cpc[c] \in {"ack", "nack"}
        /\ UNCHANGED <<row, delayed, ready, linked, announced, excuse>>
    BY DEF Settle, brokerVars, ghostVars
  <1>2. \A e \in Consumers \ {c} : cpc'[e] = cpc[e] /\ held'[e] = held[e]
    BY DEF Settle, Shape, TypeOK
  <1>3. linked \subseteq Consumers
    BY DEF Shape, TypeOK
  <1> SUFFICES ASSUME NEW j \in Jobs
               PROVE  /\ PendingSafe(j) => PendingSafe(j)'
                      /\ RunningSafe(j) => RunningSafe(j)'
                      /\ OutcomeSafe(j) => OutcomeSafe(j)'
    BY DEF Kept
  <1>4. (QueuedRunnable(j) <=> QueuedRunnable(j)') /\ (Queued(j) <=> Queued(j)')
    BY <1>1 DEF QueuedRunnable, Queued
  <1>5. (Working(j) => Working(j)') /\ (Served(j) => Served(j)')
    BY <1>1, <1>2, <1>3 DEF Working, Served, InHand
  <1>6. Recoverable(j) => Recoverable(j)'
    BY <1>1, <1>2, <1>3, <1>4 DEF Recoverable, About, InHand
  <1>7. (Tended(j) => Tended(j)') /\ (Announced(j) => Announced(j)')
    BY <1>1, <1>2, <1>4, <1>5 DEF Tended, Announced, About, Working, Served
  <1> QED
    BY <1>1, <1>6, <1>7 DEF Live

\* The broker requeues what the closed channels held; because of RetryBudget it will
\* really be run again.
LEMMA HeldRunnable ==
    ASSUME Shape, RetryBudget, NEW c \in Consumers, cpc[c] \in {"run", "work", "event"}
    PROVE  held[c] \in Message /\ held[c].job \in Jobs /\ held[c].maxRetries >= 0
  <1>1. held[c] \in Message /\ attempt[c] <= held[c].maxRetries
    BY DEF RetryBudget, Shape, WorkerShape
  <1>2. attempt[c] \in Nat /\ held[c].maxRetries \in Int
    BY <1>1 DEF Shape, TypeOK, Message, StoredRetries
  <1> QED
    BY <1>1, <1>2, JobFields

LEMMA ConsumersCutKept ==
    ASSUME Shape, RetryBudget, ConsumersCut
    PROVE  Kept
  <1>1. PICK C \in SUBSET linked :
          /\ ready' = ready \cup Unacked(C)
          /\ linked' = linked \ C
          /\ cpc' = [c \in Consumers |->
                       IF c \in C /\ cpc[c] = "idle" THEN "stopped" ELSE cpc[c]]
    BY DEF ConsumersCut
  <1>2. UNCHANGED <<row, delayed, held, announced, excuse>>
    BY DEF ConsumersCut, ghostVars
  <1>3. linked \subseteq Consumers
    BY DEF Shape, TypeOK
  <1>4. \A c \in Consumers : cpc[c] \in {"run", "work", "event"} => cpc'[c] = cpc[c]
    BY <1>1
  <1>5. \A c \in C : cpc[c] \in {"run", "work"} => held[c] \in ready' /\ held[c].maxRetries >= 0
    BY <1>1, <1>3, HeldRunnable DEF Unacked
  <1>6. ready \subseteq ready'
    BY <1>1
  <1> SUFFICES ASSUME NEW j \in Jobs
               PROVE  /\ PendingSafe(j) => PendingSafe(j)'
                      /\ RunningSafe(j) => RunningSafe(j)'
                      /\ OutcomeSafe(j) => OutcomeSafe(j)'
    BY DEF Kept
  <1>7. (QueuedRunnable(j) => QueuedRunnable(j)') /\ (Queued(j) => Queued(j)')
    BY <1>2, <1>6 DEF QueuedRunnable, Queued
  <1>8. Working(j) => Working(j)'
    BY <1>2, <1>4 DEF Working, InHand
  <1>9. Served(j) => Served(j)' \/ QueuedRunnable(j)'
    BY <1>1, <1>2, <1>3, <1>4, <1>5 DEF Served, InHand, QueuedRunnable
  <1>10. InHand(linked, j, {"run"}) => InHand(linked, j, {"run"})' \/ Queued(j)'
    BY <1>1, <1>2, <1>3, <1>4, <1>5 DEF InHand, Queued
  <1>11. Recoverable(j) => Recoverable(j)'
    BY <1>2, <1>7, <1>10 DEF Recoverable, About
  <1>12. (Tended(j) => Tended(j)') /\ (Announced(j) => Announced(j)')
    BY <1>2, <1>4, <1>7, <1>8, <1>9 DEF Tended, Announced, About, Working, Served
  <1> QED
    BY <1>2, <1>11, <1>12 DEF Live

\* What consumers with a channel held is requeued; the jobs of the others are blamed,
\* except for their announcements, which CutCovered takes care of.
LEMMA WorkerCrashKept ==
    ASSUME Shape, RetryBudget, CutCovered, WorkerCrash
    PROVE  Kept
  <1>1. /\ ready' = ready \cup Unacked(Consumers)
        /\ UNCHANGED <<row, delayed, announced>>
    BY DEF WorkerCrash
  <1>2. \A j \in Jobs : excuse[j] \subseteq excuse'[j]
    BY DEF WorkerCrash
  <1>3. \A c \in linked : cpc[c] \in {"run", "work", "event"} =>
                             held[c] \in ready' /\ held[c].maxRetries >= 0
    BY <1>1, HeldRunnable DEF Unacked, Shape, TypeOK
  <1> SUFFICES ASSUME NEW j \in Jobs
               PROVE  /\ PendingSafe(j) => PendingSafe(j)'
                      /\ RunningSafe(j) => RunningSafe(j)'
                      /\ OutcomeSafe(j) => OutcomeSafe(j)'
    BY DEF Kept
  <1>4. (QueuedRunnable(j) => QueuedRunnable(j)') /\ (Queued(j) => Queued(j)')
    BY <1>1 DEF QueuedRunnable, Queued
  <1>5. Recoverable(j) => Recoverable(j)'
    <2>1. InHand(linked, j, {"run"}) => Queued(j)'
      BY <1>3 DEF InHand, Queued
    <2> QED
      BY <1>2, <1>4, <2>1 DEF Recoverable, About
  <1>6. Tended(j) => Tended(j)'
    <2>1. Working(j) => QueuedRunnable(j)' \/ "orphaned" \in excuse'[j]
      <3>1. ASSUME NEW c \in Consumers, cpc[c] \in {"run", "work"}, held[c].job = j
            PROVE  QueuedRunnable(j)' \/ "orphaned" \in excuse'[j]
        <4>1. CASE c \in linked
          BY <1>3, <3>1, <4>1 DEF QueuedRunnable
        <4>2. CASE c \notin linked
          BY <3>1, <4>2 DEF WorkerCrash
        <4> QED
          BY <4>1, <4>2
      <3> QED
        BY <3>1 DEF Working, InHand
    <2> QED
      BY <1>2, <1>4, <2>1 DEF Tended, About, Working
  <1>7. Served(j) => QueuedRunnable(j)'
    BY <1>3 DEF Served, InHand, QueuedRunnable
  <1>8. ASSUME NEW c \in Consumers, cpc[c] = "event", held[c].job = j,
               Outcome(held[c].type) = row[j].status
        PROVE  Announced(j)'
    <2>1. CASE c \in linked
      BY <1>3, <1>8, <2>1 DEF Announced, QueuedRunnable
    <2>2. CASE c \notin linked
      <3>1. held[c].maxRetries >= 0
        BY <1>8, HeldRunnable
      <3>2. CASE held[c] \in ready
        BY <1>1, <1>8, <3>1, <3>2 DEF Announced, QueuedRunnable
      <3>3. CASE \E d \in linked : cpc[d] \in {"run", "work", "event"} /\ held[d] = held[c]
        BY <1>3, <1>8, <3>3 DEF Announced, QueuedRunnable
      <3>4. CASE Outcome(held[c].type) \in announced[held[c].job]
        BY <1>1, <1>8, <3>4 DEF Announced
      <3>5. CASE About(held[c].job, {"unannounced", "exhausted"})
        BY <1>2, <1>8, <3>5 DEF Announced, About
      <3> QED
        BY <1>8, <2>2, <3>2, <3>3, <3>4, <3>5 DEF CutCovered, Covered, Active
    <2> QED
      BY <2>1, <2>2
  <1>9. Announced(j) => Announced(j)'
    BY <1>1, <1>2, <1>4, <1>7, <1>8 DEF Announced, About, Served
  <1> QED
    BY <1>1, <1>5, <1>6, <1>9 DEF Live

LEMMA StutterKept == ASSUME UNCHANGED vars PROVE Kept
  <1>1. Additive
    BY DEF Additive, Live, vars, brokerVars, workerVars, ghostVars
  <1> QED
    BY <1>1, AdditiveKept

LEMMA NextKept == ASSUME Shape, RetryBudget, CutCovered, [Next]_vars PROVE Kept
  <1>1. ASSUME NEW h \in Handlers, Requesting(h) PROVE Kept
    BY <1>1, CreateJobsServiceKept, ContextDoneKept, UpdateReadKept, UpdateWriteKept,
       DeleteJobServiceKept DEF Requesting
  <1>2. ASSUME NEW p \in Procs, Publishing(p) PROVE Kept
    BY <1>2, PublishDelayedKept, PublishFailsKept, AwaitConfirmKept, ConfirmAbandonedKept,
       MarkQueuedKept DEF Publishing
  <1>3. ASSUME NEW c \in Consumers, Deliver(c) \/ Consuming(c) PROVE Kept
    BY <1>3, DeliverKept, MarkRunningKept, MarkFinishedKept, PublishStatusEventKept,
       SettleKept DEF Consuming
  <1>4. ASSUME NEW m \in delayed, Release(m) PROVE Kept
    BY <1>4, ReleaseKept
  <1> QED
    BY <1>1, <1>2, <1>3, <1>4, TickKept, RepublishStuckJobsKept, ServerCrashKept,
       ConnectionLostKept, ConsumersCutKept, WorkerCrashKept, StutterKept DEF Next

--------------------------------------------------------------------------------
(* CutCovered: what stands in for a consumer without a channel is only ever replaced
   by something that also does. *)

\* A consumer without a channel gets no new message, and Covered messages stay so.
StillCovered ==
    /\ linked' = linked
    /\ \A c \in Consumers \ linked : Active(c)' => Active(c) /\ held'[c] = held[c]
    /\ \A m \in Message : m.maxRetries >= 0 /\ Covered(m) => Covered(m)'

LEMMA StillCoveredSuffices ==
    ASSUME Shape, RetryBudget, CutCovered, StillCovered
    PROVE  CutCovered'
  <1> SUFFICES ASSUME NEW c \in Consumers \ linked, Active(c)'
               PROVE  Covered(held[c])'
    BY DEF CutCovered, StillCovered
  <1>1. Active(c) /\ held'[c] = held[c] /\ Covered(held[c])
    BY DEF CutCovered, StillCovered
  <1>2. held[c] \in Message /\ held[c].maxRetries >= 0
    BY <1>1, HeldRunnable DEF Active
  <1>3. PICK m \in Message : m = held[c] /\ m = held'[c] /\ m.maxRetries >= 0 /\ Covered(m)
    BY <1>1, <1>2
  <1>4. Covered(m)'
    BY <1>3 DEF StillCovered
  <1> QED
    BY <1>3, <1>4

LEMMA QuietStillCovered ==
    ASSUME UNCHANGED <<cpc, held, linked, announced>>, ready \subseteq ready',
           \A j \in Jobs : excuse[j] \subseteq excuse'[j]
    PROVE  StillCovered
  <1>1. ASSUME NEW m \in Message, Covered(m) PROVE Covered(m)'
    <2>1. m.job \in Jobs
      BY JobFields
    <2> QED
      BY <1>1, <2>1 DEF Covered, Active, About
  <1> QED
    BY <1>1 DEF StillCovered, Active

\* The server's steps, and the broker's other than a delivery, touch no consumer.
LEMMA ServerStillCovered ==
    ASSUME Shape,
           \/ Tick \/ RepublishStuckJobs \/ ServerCrash \/ ConnectionLost
           \/ \E h \in Handlers : Requesting(h)
           \/ \E p \in Procs : Publishing(p)
           \/ \E m \in delayed : Release(m)
           \/ UNCHANGED vars
    PROVE  StillCovered
  <1>1. UNCHANGED <<cpc, held, linked, announced>>
    BY DEF Tick, RepublishStuckJobs, ServerCrash, ConnectionLost, Requesting, Publishing,
           Release, CreateJobsService, ContextDone, UpdateRead, UpdateWrite,
           DeleteJobService, PublishDelayed, PublishFails, AwaitConfirm, ConfirmAbandoned,
           MarkQueued, workerVars, ghostVars, vars
  <1>2. ready \subseteq ready'
    BY DEF Tick, RepublishStuckJobs, ServerCrash, ConnectionLost, Requesting, Publishing,
           Release, CreateJobsService, ContextDone, UpdateRead, UpdateWrite,
           DeleteJobService, PublishDelayed, PublishFails, AwaitConfirm, ConfirmAbandoned,
           MarkQueued, brokerVars, vars
  <1>3. \A j \in Jobs : excuse[j] \subseteq excuse'[j]
    <2>1. ASSUME NEW p \in Procs, AwaitConfirm(p)
          PROVE  \A j \in Jobs : excuse[j] \subseteq excuse'[j]
      <3>1. cur[p].job \in Jobs
        BY <2>1, JobFields DEF AwaitConfirm, Shape, ServerShape
      <3> QED
        BY <2>1, <3>1, BlameGrows DEF AwaitConfirm, Shape
    <2>2. ASSUME NEW h \in Handlers, UpdateWrite(h)
          PROVE  \A j \in Jobs : excuse[j] \subseteq excuse'[j]
      <3>1. UNCHANGED excuse \/ (draft[h].job \in Jobs /\ Blame(draft[h].job, "clobbered"))
        BY <2>2, JobFields DEF UpdateWrite, Shape, ServerShape, Procs
      <3> QED
        BY <3>1, BlameGrows DEF Shape
    <2> QED
      BY <2>1, <2>2 DEF Tick, RepublishStuckJobs, ServerCrash, ConnectionLost, Requesting,
             Publishing, Release, CreateJobsService, ContextDone, UpdateRead,
             DeleteJobService, PublishDelayed, PublishFails, ConfirmAbandoned,
             MarkQueued, ghostVars, vars
  <1> QED
    BY <1>1, <1>2, <1>3, QuietStillCovered

LEMMA DeliverStillCovered ==
    ASSUME Shape, NEW c \in Consumers, Deliver(c)
    PROVE  StillCovered
  <1>1. PICK m \in ready :
          /\ ready' = ready \ {m}
          /\ held' = [held EXCEPT ![c] = m]
          /\ \/ m.maxRetries >= 0 /\ cpc' = [cpc EXCEPT ![c] = "run"] /\ UNCHANGED excuse
             \/ m.maxRetries < 0 /\ cpc' = [cpc EXCEPT ![c] = "ack"] /\ Blame(m.job, "skipped")
    BY DEF Deliver
  <1>2. m.job \in Jobs /\ m.maxRetries \in Int
    BY DEF Shape, TypeOK, Message, StoredRetries
  <1>3. c \in linked /\ cpc[c] = "idle" /\ UNCHANGED <<linked, announced>>
    BY DEF Deliver
  <1>4. \A j \in Jobs : excuse[j] \subseteq excuse'[j]
    BY <1>1, <1>2, BlameGrows DEF Shape
  <1>5. \A e \in Consumers \ {c} : cpc'[e] = cpc[e] /\ held'[e] = held[e]
    BY <1>1 DEF Shape, TypeOK
  <1>6. held'[c] = m /\ (m.maxRetries >= 0 => Active(c)')
    BY <1>1, <1>2 DEF Shape, TypeOK, Active
  <1>7. linked \subseteq Consumers /\ ~Active(c)
    BY <1>3 DEF Shape, TypeOK, Active
  <1>8. ASSUME NEW n \in Message, n.maxRetries >= 0, Covered(n) PROVE Covered(n)'
    <2>1. n.job \in Jobs
      BY JobFields
    <2>2. CASE n \in ready
      BY <1>1, <1>3, <1>6, <1>8, <2>2 DEF Covered
    <2>3. CASE \E d \in linked : Active(d) /\ held[d] = n
      BY <1>3, <1>5, <1>7, <2>3 DEF Covered, Active
    <2> QED
      BY <1>3, <1>4, <1>8, <2>1, <2>2, <2>3 DEF Covered, About
  <1> QED
    BY <1>3, <1>5, <1>8 DEF StillCovered, Active

\* MarkRunning, MarkFinished: the consumer stays active, or its job is blamed.
LEMMA HandlerStillCovered ==
    ASSUME Shape, NEW c \in Consumers, MarkRunning(c) \/ MarkFinished(c)
    PROVE  StillCovered
  <1>1. /\ UNCHANGED <<ready, held, linked, announced>> /\ Active(c)
        /\ \/ cpc' = [cpc EXCEPT ![c] = "work"] /\ UNCHANGED excuse
           \/ cpc' = [cpc EXCEPT ![c] = "event"] /\ UNCHANGED excuse
           \/ cpc' = [cpc EXCEPT ![c] = "run"] /\ UNCHANGED excuse
           \/ cpc' = [cpc EXCEPT ![c] = "nack"] /\ Blame(held[c].job, "exhausted")
    BY DEF MarkRunning, MarkFinished, RetryOrGiveUp, brokerVars, Active
  <1>2. held[c].job \in Jobs
    BY <1>1, JobFields DEF Shape, WorkerShape, Active
  <1>3. \A j \in Jobs : excuse[j] \subseteq excuse'[j]
    BY <1>1, <1>2, BlameGrows DEF Shape
  <1>4. Active(c)' \/ "exhausted" \in excuse'[held[c].job]
    BY <1>1, <1>2, BlameGrows DEF Shape, TypeOK, Active
  <1>5. \A e \in Consumers \ {c} : cpc'[e] = cpc[e]
    BY <1>1 DEF Shape, TypeOK
  <1>6. linked \subseteq Consumers
    BY DEF Shape, TypeOK
  <1>7. ASSUME NEW n \in Message, Covered(n) PROVE Covered(n)'
    <2>1. n.job \in Jobs
      BY JobFields
    <2>2. CASE \E d \in linked : Active(d) /\ held[d] = n
      BY <1>1, <1>4, <1>5, <1>6, <2>2 DEF Covered, Active, About
    <2> QED
      BY <1>1, <1>3, <1>7, <2>1, <2>2 DEF Covered, About
  <1> QED
    BY <1>1, <1>5, <1>7 DEF StillCovered, Active

\* A consumer that is done has announced its outcome, or Redis is to blame.
LEMMA PublishStatusEventStillCovered ==
    ASSUME Shape, NEW c \in Consumers, PublishStatusEvent(c)
    PROVE  StillCovered
  <1>1. PICK i \in Jobs : i = held[c].job
    BY JobFields DEF Shape, WorkerShape, PublishStatusEvent
  <1>2. /\ cpc[c] = "event" /\ cpc' = [cpc EXCEPT ![c] = "ack"]
        /\ UNCHANGED <<ready, held, linked>>
    BY DEF PublishStatusEvent, brokerVars
  <1>3. \A e \in Consumers \ {c} : cpc'[e] = cpc[e]
    BY <1>2 DEF Shape, TypeOK
  <1>4. /\ \A j \in Jobs : excuse[j] \subseteq excuse'[j] /\ announced[j] \subseteq announced'[j]
        /\ Outcome(held[c].type) \in announced'[i] \/ "unannounced" \in excuse'[i]
    <2>1. CASE /\ announced' = [announced EXCEPT ![i] = @ \cup {Outcome(held[c].type)}]
               /\ UNCHANGED excuse
      BY <2>1 DEF Shape, TypeOK
    <2>2. CASE Blame(i, "unannounced") /\ UNCHANGED announced
      BY <2>2, BlameGrows DEF Shape
    <2> QED
      BY <1>1, <2>1, <2>2 DEF PublishStatusEvent
  <1>5. linked \subseteq Consumers
    BY DEF Shape, TypeOK
  <1>6. ASSUME NEW n \in Message, Covered(n) PROVE Covered(n)'
    <2>1. n.job \in Jobs
      BY JobFields
    <2>2. CASE \E d \in linked : Active(d) /\ held[d] = n
      <3>1. PICK d \in linked : Active(d) /\ held[d] = n
        BY <2>2
      <3>2. CASE d = c
        BY <1>1, <1>4, <3>1, <3>2 DEF Covered, About
      <3>3. CASE d # c
        BY <1>2, <1>3, <1>5, <3>1, <3>3 DEF Covered, Active
      <3> QED
        BY <3>2, <3>3
    <2> QED
      BY <1>2, <1>4, <1>6, <2>1, <2>2 DEF Covered, About
  <1> QED
    BY <1>2, <1>3, <1>6 DEF StillCovered, Active

LEMMA SettleStillCovered ==
    ASSUME Shape, NEW c \in Consumers, Settle(c)
    PROVE  StillCovered
  <1>1. ~Active(c) /\ ~Active(c)' /\ UNCHANGED <<ready, linked, announced, excuse>>
    BY DEF Settle, brokerVars, ghostVars, Active, Shape, TypeOK
  <1>2. \A e \in Consumers \ {c} : cpc'[e] = cpc[e] /\ held'[e] = held[e]
    BY DEF Settle, Shape, TypeOK
  <1>3. linked \subseteq Consumers
    BY DEF Shape, TypeOK
  <1>4. ASSUME NEW n \in Message, Covered(n) PROVE Covered(n)'
    <2>1. CASE \E d \in linked : Active(d) /\ held[d] = n
      BY <1>1, <1>2, <1>3, <2>1 DEF Covered, Active
    <2> QED
      BY <1>1, <1>4, <2>1 DEF Covered, About
  <1> QED
    BY <1>1, <1>2, <1>4 DEF StillCovered, Active

\* The cut requeues what it takes a channel from.
LEMMA ConsumersCutCovered ==
    ASSUME Shape, RetryBudget, CutCovered, ConsumersCut
    PROVE  CutCovered'
  <1>1. PICK C \in SUBSET linked :
          /\ ready' = ready \cup Unacked(C)
          /\ linked' = linked \ C
          /\ cpc' = [c \in Consumers |->
                       IF c \in C /\ cpc[c] = "idle" THEN "stopped" ELSE cpc[c]]
    BY DEF ConsumersCut
  <1>2. UNCHANGED <<held, announced, excuse>>
    BY DEF ConsumersCut, ghostVars
  <1>3. \A c \in Consumers : Active(c)' <=> Active(c)
    BY <1>1 DEF Active
  <1>4. \A c \in C : Active(c) => held[c] \in ready'
    BY <1>1 DEF Unacked, Active
  <1>5. linked \subseteq Consumers
    BY DEF Shape, TypeOK
  <1> SUFFICES ASSUME NEW c \in Consumers \ linked', Active(c)'
               PROVE  Covered(held[c])'
    BY <1>2 DEF CutCovered
  <1>6. CASE c \in C
    BY <1>2, <1>3, <1>4, <1>6 DEF Covered
  <1>7. CASE c \notin C
    <2>1. c \notin linked /\ Active(c)
      BY <1>1, <1>3, <1>7
    <2>2. Covered(held[c])
      BY <2>1 DEF CutCovered
    <2>3. CASE held[c] \in ready
      BY <1>1, <1>2, <2>3 DEF Covered
    <2>4. CASE \E d \in linked : Active(d) /\ held[d] = held[c]
      <3>1. PICK d \in linked : Active(d) /\ held[d] = held[c]
        BY <2>4
      <3>2. CASE d \in C
        BY <1>2, <1>4, <3>1, <3>2 DEF Covered
      <3>3. CASE d \notin C
        BY <1>1, <1>2, <1>3, <1>5, <3>1, <3>3 DEF Covered
      <3> QED
        BY <3>2, <3>3
    <2> QED
      BY <1>2, <2>2, <2>3, <2>4 DEF Covered, About
  <1> QED
    BY <1>6, <1>7

LEMMA NextCutCovered ==
    ASSUME Shape, RetryBudget, CutCovered, [Next]_vars
    PROVE  CutCovered'
  <1>1. ASSUME NEW c \in Consumers, Deliver(c) \/ Consuming(c) PROVE StillCovered
    BY <1>1, DeliverStillCovered, HandlerStillCovered, PublishStatusEventStillCovered,
       SettleStillCovered DEF Consuming
  <1>2. CASE WorkerCrash
    BY <1>2 DEF WorkerCrash, CutCovered
  <1>3. CASE StillCovered
    BY <1>3, StillCoveredSuffices
  <1> QED
    BY <1>1, <1>2, <1>3, ConsumersCutCovered, ServerStillCovered DEF Next

--------------------------------------------------------------------------------
(* What a step can do to the table, to the server's goroutines and to the retry loop. *)

RowStep(j) ==
    \/ row'[j] = row[j]
    \/ /\ row[j].status = "absent"
       /\ row'[j].status = "pending"
       /\ row'[j].queuedAt = "NULL"
    \/ /\ Live(j)
       /\ row'[j].status # "absent"
       /\ \/ row'[j].queuedAt = row[j].queuedAt
          \/ /\ row'[j].queuedAt = "set"
             /\ \E p \in Procs : ppc[p] = "mark" /\ cur[p].job = j

LEMMA SetStatusStep ==
    ASSUME Shape, NEW i \in Jobs, NEW s \in Statuses \ {"absent"}, SetStatus(i, s),
           NEW j \in Jobs
    PROVE  RowStep(j)
  <1>1. CASE Live(i)
    <2>1. row' = [row EXCEPT ![i] = [@ EXCEPT !.status = s]]
      BY <1>1 DEF SetStatus
    <2> QED
      BY <1>1, <2>1 DEF RowStep, Shape, TypeOK, Row
  <1>2. CASE ~Live(i)
    BY <1>2 DEF SetStatus, RowStep
  <1> QED
    BY <1>1, <1>2

LEMMA NextRows ==
    ASSUME Shape, RowsKnown, [Next]_vars, NEW j \in Jobs
    PROVE  RowStep(j)
  <1>1. CASE UNCHANGED row
    BY <1>1 DEF RowStep
  <1>2. ASSUME NEW h \in Handlers, CreateJobsService(h) PROVE RowStep(j)
    <2>1. PICK J \in SUBSET {i \in Jobs : row[i].status = "absent"} :
            \E req \in [J -> Requests] :
              row' = [i \in Jobs |-> IF i \in J THEN InsertedRow(req[i]) ELSE row[i]]
      BY <1>2 DEF CreateJobsService
    <2>2. PICK req \in [J -> Requests] :
            row' = [i \in Jobs |-> IF i \in J THEN InsertedRow(req[i]) ELSE row[i]]
      BY <2>1
    <2>3. CASE j \in J
      <3>1. row'[j] = InsertedRow(req[j])
        BY <2>2, <2>3
      <3>2. InsertedRow(req[j]).status = "pending" /\ InsertedRow(req[j]).queuedAt = "NULL"
        BY DEF InsertedRow
      <3> QED
        BY <2>3, <3>1, <3>2 DEF RowStep
    <2>4. CASE j \notin J
      BY <2>2, <2>4 DEF RowStep
    <2> QED
      BY <2>3, <2>4
  <1>3. ASSUME NEW p \in Procs, MarkQueued(p) PROVE RowStep(j)
    <2>1. cur[p].job \in Jobs /\ ppc[p] = "mark"
      BY <1>3, JobFields DEF Shape, ServerShape, MarkQueued
    <2>2. CASE UNCHANGED row
      BY <2>2 DEF RowStep
    <2>3. CASE Live(cur[p].job) /\ row' = [row EXCEPT ![cur[p].job] = [@ EXCEPT !.queuedAt = "set"]]
      BY <2>1, <2>3 DEF RowStep, Shape, TypeOK, Row, Live
    <2> QED
      BY <1>3, <2>2, <2>3 DEF MarkQueued
  <1>4. ASSUME NEW h \in Handlers, UpdateWrite(h) PROVE RowStep(j)
    <2>1. PICK d \in Draft : d = draft[h] /\ d.job \in Jobs /\ d.status # "absent"
      BY <1>4, JobFields DEF Shape, ServerShape, UpdateWrite
    <2>2. d.queuedAt = "set" => row[d.job].queuedAt = "set"
      BY <1>4, <2>1 DEF RowsKnown, UpdateWrite
    <2>3. CASE UNCHANGED row
      BY <2>3 DEF RowStep
    <2>4. CASE Live(d.job) /\ row' = [row EXCEPT ![d.job] = Overwrite(@, d)]
      <3>1. row[d.job] \in Row /\ d.queuedAt \in {"NULL", "set"}
        BY <2>1 DEF Shape, TypeOK, Draft
      <3>2. /\ Overwrite(row[d.job], d).status = d.status
            /\ Overwrite(row[d.job], d).queuedAt = row[d.job].queuedAt
        BY <2>2, <3>1 DEF Overwrite, Row
      <3> QED
        BY <2>1, <2>4, <3>2 DEF RowStep, Shape, TypeOK
    <2> QED
      BY <1>4, <2>1, <2>3, <2>4 DEF UpdateWrite
  <1>5. ASSUME NEW h \in Handlers, DeleteJobService(h) PROVE RowStep(j)
    <2>1. PICK i \in Jobs : Live(i) /\ row' = [row EXCEPT ![i] = [@ EXCEPT !.deletedAt = "set"]]
      BY <1>5 DEF DeleteJobService
    <2> QED
      BY <2>1 DEF RowStep, Shape, TypeOK, Row, Live
  <1>6. ASSUME NEW c \in Consumers, MarkRunning(c) \/ MarkFinished(c) PROVE RowStep(j)
    <2>1. PICK i \in Jobs : i = held[c].job
      BY <1>6, JobFields DEF Shape, WorkerShape, MarkRunning, MarkFinished
    <2>2. UNCHANGED row \/ \E s \in Statuses \ {"absent"} : SetStatus(i, s)
      BY <1>6, <2>1, OutcomeType DEF MarkRunning, MarkFinished, Statuses, Terminal
    <2> QED
      BY <1>1, <2>2, SetStatusStep
  <1>7. \/ UNCHANGED row
        \/ \E h \in Handlers : CreateJobsService(h) \/ UpdateWrite(h) \/ DeleteJobService(h)
        \/ \E p \in Procs : MarkQueued(p)
        \/ \E c \in Consumers : MarkRunning(c) \/ MarkFinished(c)
    BY DEF Next, Requesting, Publishing, Consuming, Tick, ContextDone, UpdateRead,
           PublishDelayed, PublishFails, AwaitConfirm, ConfirmAbandoned, RepublishStuckJobs,
           ServerCrash, ConnectionLost, Release, Deliver, PublishStatusEvent, Settle,
           ConsumersCut, WorkerCrash, vars
  <1> QED
    BY <1>1, <1>2, <1>3, <1>4, <1>5, <1>6, <1>7

\* No new publisher claims to have published, and no new update has read a row.
NoNewClaim ==
    \A p \in Procs :
        /\ Claim(p)' => Claim(p) /\ cur'[p] = cur[p]
        /\ ppc'[p] = "update" => ppc[p] = "update" /\ draft'[p] = draft[p]

LEMMA AdvanceNoNewClaim ==
    ASSUME Shape, NEW p \in Procs, NEW rest, Advance(p, rest), UNCHANGED draft
    PROVE  NoNewClaim
  BY DEF Shape, TypeOK, Advance, NoNewClaim, Claim

LEMMA NextClaims ==
    ASSUME Shape, [Next]_vars
    PROVE  \/ NoNewClaim
           \/ \E p \in Procs : PublishDelayed(p) \/ AwaitConfirm(p)
           \/ \E h \in Handlers : UpdateRead(h)
  <1>1. CASE UNCHANGED <<ppc, cur, draft, accepted>>
    BY <1>1 DEF NoNewClaim, Claim
  <1>2. ASSUME NEW h \in Handlers, CreateJobsService(h) PROVE NoNewClaim
    BY <1>2 DEF CreateJobsService, NoNewClaim, Claim, Shape, TypeOK
  <1>3. ASSUME NEW p \in Procs, PublishFails(p) PROVE NoNewClaim
    BY <1>3, AdvanceNoNewClaim DEF PublishFails
  <1>4. ASSUME NEW p \in Procs, ConfirmAbandoned(p) PROVE NoNewClaim
    BY <1>4, AdvanceNoNewClaim DEF ConfirmAbandoned
  <1>5. ASSUME NEW p \in Procs, MarkQueued(p) PROVE NoNewClaim
    BY <1>5, AdvanceNoNewClaim DEF MarkQueued
  <1>6. ASSUME NEW h \in Handlers, UpdateWrite(h) PROVE NoNewClaim
    BY <1>6 DEF UpdateWrite, NoNewClaim, Claim, Shape, TypeOK
  <1>7. CASE RepublishStuckJobs
    BY <1>7 DEF RepublishStuckJobs, NoNewClaim, Claim, Shape, TypeOK
  <1>8. CASE ServerCrash
    BY <1>8 DEF ServerCrash, NoNewClaim, Claim
  <1>9. \/ UNCHANGED <<ppc, cur, draft, accepted>>
        \/ \E h \in Handlers : CreateJobsService(h) \/ UpdateWrite(h) \/ UpdateRead(h)
        \/ \E p \in Procs : \/ PublishFails(p) \/ ConfirmAbandoned(p) \/ MarkQueued(p)
                            \/ PublishDelayed(p) \/ AwaitConfirm(p)
        \/ RepublishStuckJobs
        \/ ServerCrash
    BY DEF Next, Requesting, Publishing, Consuming, Tick, ContextDone, DeleteJobService,
           ConnectionLost, Release, Deliver, MarkRunning, MarkFinished, PublishStatusEvent,
           Settle, ConsumersCut, WorkerCrash, vars, serverVars
  <1> QED
    BY <1>1, <1>2, <1>3, <1>4, <1>5, <1>6, <1>7, <1>8, <1>9

LEMMA NextRowsKnown ==
    ASSUME Shape, RowsKnown, [Next]_vars
    PROVE  RowsKnown'
  <1>1. \A j \in Jobs : RowStep(j)
    BY NextRows
  <1>2. \A j \in Jobs : row'[j].status = "absent" =>
                            row'[j].queuedAt = "NULL" /\ row'[j].deletedAt = "NULL"
    BY <1>1 DEF RowStep, RowsKnown
  <1>3. ASSUME NEW p \in Procs, ppc'[p] = "update"
        PROVE  /\ row'[draft'[p].job].status # "absent"
               /\ draft'[p].queuedAt = "set" => row'[draft'[p].job].queuedAt = "set"
    <2>1. CASE ppc[p] = "update" /\ draft'[p] = draft[p]
      <3>1. draft[p].job \in Jobs
        BY <2>1, JobFields DEF Shape, ServerShape
      <3> QED
        BY <1>1, <2>1, <3>1 DEF RowsKnown, RowStep
    <2>2. ASSUME NEW h \in Handlers, UpdateRead(h), h = p PROVE
               /\ row'[draft'[p].job].status # "absent"
               /\ draft'[p].queuedAt = "set" => row'[draft'[p].job].queuedAt = "set"
      <3>1. PICK j \in Jobs :
              /\ Live(j)
              /\ draft'[h].job = j
              /\ draft'[h].queuedAt = row[j].queuedAt
        BY <2>2 DEF UpdateRead, Shape, TypeOK
      <3> QED
        BY <2>2, <3>1 DEF UpdateRead, Live
    <2>3. ASSUME NEW h \in Handlers, UpdateRead(h), h # p
          PROVE  ppc[p] = "update" /\ draft'[p] = draft[p]
      BY <1>3, <2>3 DEF UpdateRead, Shape, TypeOK
    <2>4. ASSUME NEW q \in Procs, PublishDelayed(q) \/ AwaitConfirm(q)
          PROVE  ppc[p] = "update" /\ draft'[p] = draft[p]
      BY <1>3, <2>4 DEF PublishDelayed, AwaitConfirm, Advance, Shape, TypeOK
    <2>5. NoNewClaim => ppc[p] = "update" /\ draft'[p] = draft[p]
      BY <1>3 DEF NoNewClaim
    <2> QED
      BY <2>1, <2>2, <2>3, <2>4, <2>5, NextClaims
  <1> QED
    BY <1>2, <1>3 DEF RowsKnown

LEMMA NextPublishedCarried ==
    ASSUME Shape, RetryBudget, CutCovered, PublishedCarried, [Next]_vars
    PROVE  PublishedCarried'
  <1>0. Kept
    BY NextKept
  <1>1. ASSUME NEW p \in Procs, Claim(p)
        PROVE  /\ cur[p].job \in Jobs /\ row[cur[p].job].status # "absent"
               /\ PendingSafe(cur[p].job)
    BY <1>1, JobFields DEF PublishedCarried, Claim, Shape, ServerShape
  <1>2. ASSUME NEW p \in Procs, Claim(p), cur'[p] = cur[p]
        PROVE  PendingSafe(cur[p].job)'
    <2>1. PICK j \in Jobs : j = cur[p].job /\ row[j].status # "absent" /\ PendingSafe(j)
      BY <1>1, <1>2
    <2>2. PendingSafe(j)'
      BY <1>0, <2>1 DEF Kept
    <2>3. j = cur'[p].job
      BY <1>2, <2>1
    <2> QED
      BY <2>2, <2>3
  <1>3. CASE NoNewClaim
    BY <1>2, <1>3 DEF NoNewClaim, PublishedCarried
  <1>4. ASSUME NEW h \in Handlers, UpdateRead(h)
        PROVE  \A p \in Procs : Claim(p)' => Claim(p) /\ cur'[p] = cur[p]
    BY <1>4 DEF UpdateRead, Claim, Shape, TypeOK
  <1>5. ASSUME NEW q \in Procs, PublishDelayed(q) PROVE PublishedCarried'
    <2>1. \A p \in Procs \ {q} : Claim(p)' => Claim(p) /\ cur'[p] = cur[p]
      BY <1>5 DEF PublishDelayed, Claim, Shape, TypeOK
    <2>2. Claim(q)' => PendingSafe(cur[q].job)'
      <3>1. PICK b \in todo[q] : /\ cur' = [cur EXCEPT ![q] = b]
                                 /\ q \in accepted' => MessageOf(b) \in delayed'
        BY <1>5 DEF PublishDelayed
      <3>2. cur'[q] = b /\ ppc'[q] = "confirm"
        BY <1>5, <3>1 DEF PublishDelayed, Shape, TypeOK
      <3>3. MessageOf(b).job = b.job
        BY DEF MessageOf
      <3>4. q \in accepted' => Recoverable(b.job)'
        BY <3>1, <3>3 DEF Recoverable, Queued
      <3> QED
        BY <3>2, <3>4 DEF Claim
    <2> QED
      BY <1>2, <2>1, <2>2 DEF PublishedCarried
  <1>6. ASSUME NEW q \in Procs, AwaitConfirm(q) PROVE PublishedCarried'
    <2>1. CASE Advance(q, todo[q])
      BY <1>3, <1>6, <2>1, AdvanceNoNewClaim DEF AwaitConfirm
    <2>2. CASE /\ ppc' = [ppc EXCEPT ![q] = "mark"]
               /\ IF q \in accepted THEN UNCHANGED excuse
                                    ELSE Blame(cur[q].job, "misconfirmed")
               /\ UNCHANGED <<cur, accepted>>
      <3>1. \A p \in Procs \ {q} : Claim(p)' => Claim(p) /\ cur'[p] = cur[p]
        BY <2>2 DEF Claim, Shape, TypeOK
      <3>2. CASE q \in accepted
        BY <1>2, <1>6, <2>2, <3>1, <3>2 DEF PublishedCarried, Claim, AwaitConfirm
      <3>3. CASE q \notin accepted
        <4>1. PICK j \in Jobs : j = cur[q].job
          BY <1>6, JobFields DEF AwaitConfirm, Shape, ServerShape
        <4>2. "misconfirmed" \in excuse'[j]
          BY <2>2, <3>3, <4>1, BlameGrows DEF Shape
        <4>3. PendingSafe(j)'
          BY <4>2 DEF Recoverable, About, InHand
        <4>4. j = cur'[q].job
          BY <2>2, <4>1
        <4> QED
          BY <1>2, <3>1, <4>3, <4>4 DEF PublishedCarried
      <3> QED
        BY <3>2, <3>3
    <2> QED
      BY <1>6, <2>1, <2>2 DEF AwaitConfirm
  <1> QED
    BY <1>2, <1>3, <1>4, <1>5, <1>6, NextClaims DEF PublishedCarried

LEMMA NextRetryBudget ==
    ASSUME Shape, RetryBudget, [Next]_vars
    PROVE  RetryBudget'
  <1>0. \A m \in Message : m.maxRetries \in Int /\ m.maxRetries <= RetryLimit
    BY DEF Message, StoredRetries
  <1>1. CASE UNCHANGED <<cpc, held, attempt>>
    BY <1>1 DEF RetryBudget
  <1>2. ASSUME NEW c \in Consumers, Deliver(c) PROVE RetryBudget'
    <2>1. PICK m \in ready :
            /\ held' = [held EXCEPT ![c] = m]
            /\ attempt' = [attempt EXCEPT ![c] = 0]
            /\ \/ m.maxRetries >= 0 /\ cpc' = [cpc EXCEPT ![c] = "run"]
               \/ m.maxRetries < 0 /\ cpc' = [cpc EXCEPT ![c] = "ack"]
      BY <1>2 DEF Deliver
    <2>2. m \in Message
      BY DEF Shape, TypeOK
    <2> QED
      BY <1>0, <2>1, <2>2 DEF RetryBudget, Shape, TypeOK
  <1>3. ASSUME NEW c \in Consumers, MarkRunning(c) \/ MarkFinished(c) PROVE RetryBudget'
    <2>1. held[c] \in Message /\ cpc[c] \in {"run", "work"} /\ UNCHANGED held
      BY <1>3 DEF MarkRunning, MarkFinished, Shape, WorkerShape
    <2>2. held[c].maxRetries \in Int /\ attempt[c] \in Nat
      BY <1>0, <2>1 DEF Shape, TypeOK
    <2>3. CASE /\ UNCHANGED attempt
               /\ \E pc \in {"work", "event"} : cpc' = [cpc EXCEPT ![c] = pc]
      BY <2>1, <2>3 DEF RetryBudget, Shape, TypeOK
    <2>4. CASE /\ attempt[c] < held[c].maxRetries
               /\ attempt' = [attempt EXCEPT ![c] = @ + 1]
               /\ cpc' = [cpc EXCEPT ![c] = "run"]
      <3>1. attempt'[c] <= held[c].maxRetries /\ held[c].maxRetries <= RetryLimit
        BY <1>0, <2>1, <2>2, <2>4 DEF Shape, TypeOK
      <3>2. \A e \in Consumers \ {c} : attempt'[e] = attempt[e] /\ cpc'[e] = cpc[e]
        BY <2>4 DEF Shape, TypeOK
      <3> QED
        BY <2>1, <3>1, <3>2 DEF RetryBudget
    <2>5. CASE UNCHANGED attempt /\ cpc' = [cpc EXCEPT ![c] = "nack"]
      BY <2>1, <2>5 DEF RetryBudget, Shape, TypeOK
    <2> QED
      BY <1>3, <2>3, <2>4, <2>5 DEF MarkRunning, MarkFinished, RetryOrGiveUp
  <1>4. ASSUME NEW c \in Consumers, PublishStatusEvent(c) PROVE RetryBudget'
    BY <1>4 DEF PublishStatusEvent, RetryBudget, Shape, TypeOK
  <1>5. ASSUME NEW c \in Consumers, Settle(c) PROVE RetryBudget'
    BY <1>5 DEF Settle, RetryBudget, Shape, TypeOK
  <1>6. CASE ConsumersCut
    BY <1>6 DEF ConsumersCut, RetryBudget
  <1>7. CASE WorkerCrash
    BY <1>7 DEF WorkerCrash, RetryBudget
  <1>8. \/ UNCHANGED <<cpc, held, attempt>>
        \/ \E c \in Consumers : \/ Deliver(c) \/ MarkRunning(c) \/ MarkFinished(c)
                                \/ PublishStatusEvent(c) \/ Settle(c)
        \/ ConsumersCut
        \/ WorkerCrash
    BY DEF Next, Requesting, Publishing, Consuming, Tick, CreateJobsService, ContextDone,
           UpdateRead, UpdateWrite, DeleteJobService, PublishDelayed, PublishFails,
           AwaitConfirm, ConfirmAbandoned, MarkQueued, RepublishStuckJobs, ServerCrash,
           ConnectionLost, Release, vars, workerVars
  <1> QED
    BY <1>1, <1>2, <1>3, <1>4, <1>5, <1>6, <1>7, <1>8

--------------------------------------------------------------------------------
(* The theorems. *)

LEMMA InitIInv == Init => IInv
  <1> SUFFICES ASSUME Init PROVE IInv
    OBVIOUS
  <1>1. \A j \in Jobs : row[j].status = "absent" /\ row[j].queuedAt = "NULL"
                                               /\ row[j].deletedAt = "NULL"
    BY DEF Init, AbsentRow
  <1>2. RetryBudget /\ PublishedCarried /\ RowsKnown /\ CutCovered
    BY <1>1 DEF Init, RetryBudget, PublishedCarried, Claim, RowsKnown, CutCovered
  <1>3. PendingJobRecoverable /\ RunningJobTended /\ OutcomeAnnounced
    BY <1>1 DEF PendingJobRecoverable, RunningJobTended, OutcomeAnnounced, Live
  <1> QED
    BY <1>2, <1>3, InitShape DEF IInv

\* A job that becomes invisible to the reconciler was in a publisher's hands that knew
\* it was carried (PublishedCarried); everything else is Kept.
LEMMA NextIInv == IInv /\ [Next]_vars => IInv'
  <1> SUFFICES ASSUME IInv, [Next]_vars PROVE IInv'
    OBVIOUS
  <1> USE DEF IInv
  <1>1. Shape' /\ RetryBudget' /\ RowsKnown' /\ CutCovered' /\ PublishedCarried'
    BY NextShape, NextRetryBudget, NextRowsKnown, NextCutCovered, NextPublishedCarried
  <1>2. Kept
    BY NextKept
  <1>3. PendingJobRecoverable'
    <2> SUFFICES ASSUME NEW j \in Jobs, Live(j)', row'[j].status = "pending",
                        row'[j].queuedAt = "set"
                 PROVE  Recoverable(j)'
      BY DEF PendingJobRecoverable
    <2>1. RowStep(j)
      BY NextRows
    <2>2. row[j].status # "absent"
      BY <2>1 DEF RowStep, Live
    <2>3. PendingSafe(j)
      <3>1. CASE row[j].queuedAt = "set"
        BY <3>1 DEF PendingJobRecoverable
      <3>2. CASE row[j].queuedAt # "set"
        <4>1. PICK p \in Procs : ppc[p] = "mark" /\ cur[p].job = j
          BY <2>1, <2>2, <3>2 DEF RowStep
        <4> QED
          BY <4>1 DEF PublishedCarried, Claim
      <3> QED
        BY <3>1, <3>2
    <2> QED
      BY <1>2, <2>2, <2>3 DEF Kept
  <1>4. RunningJobTended' /\ OutcomeAnnounced'
    BY <1>2 DEF Kept, RunningJobTended, OutcomeAnnounced
  <1> QED
    BY <1>1, <1>3, <1>4

\* The inductive invariant holds throughout: the message of a job is always somewhere
\* between PublishDelayed and the Ack, whoever crashes.
THEOREM InductiveInvariant == Spec => []IInv
  BY InitIInv, NextIInv, PTL DEF Spec

\* For any number of jobs, requests, consumers and faults: a pending job whose
\* publication is recorded still has its message, unless one of the four named mishaps
\* befell it.
THEOREM PendingJobsRecoverable == Spec => []PendingJobRecoverable
  <1>1. IInv => PendingJobRecoverable
    BY DEF IInv
  <1> QED
    BY <1>1, InductiveInvariant, PTL

\* A row says running only while the job is being run, will be run again, or one of the
\* three named mishaps befell it.
THEOREM RunningJobsTended == Spec => []RunningJobTended
  <1>1. IInv => RunningJobTended
    BY DEF IInv
  <1> QED
    BY <1>1, InductiveInvariant, PTL

\* No recorded outcome is left unannounced by a crash of the worker.
THEOREM OutcomesAnnounced == Spec => []OutcomeAnnounced
  <1>1. IInv => OutcomeAnnounced
    BY DEF IInv
  <1> QED
    BY <1>1, InductiveInvariant, PTL

\* The retry loop stays within the limit the service checked.
THEOREM RetriesBounded == Spec => []RetryBudget
  <1>1. IInv => RetryBudget
    BY DEF IInv
  <1> QED
    BY <1>1, InductiveInvariant, PTL

\* No step of any actor writes the row of a deleted job.
THEOREM DeletedRowsFrozen == Spec => DeletedFrozen
  <1>1. IInv /\ [Next]_vars =>
          [\A j \in Jobs : row[j].deletedAt = "set" => row'[j] = row[j]]_vars
    <2> SUFFICES ASSUME IInv, [Next]_vars, NEW j \in Jobs, row[j].deletedAt = "set"
                 PROVE  row'[j] = row[j]
      OBVIOUS
    <2>1. RowStep(j) /\ row[j].status # "absent"
      BY NextRows DEF IInv, RowsKnown
    <2> QED
      BY <2>1 DEF RowStep, Live
  <1> QED
    BY <1>1, InductiveInvariant, PTL DEF Spec, DeletedFrozen

\* No step of any actor, stale updates included, takes back a recorded queued_at.
THEOREM QueuedAtKept == Spec => QueuedNeverCleared
  <1>1. IInv /\ [Next]_vars =>
          [\A j \in Jobs : row[j].queuedAt = "set" => row'[j].queuedAt = "set"]_vars
    <2> SUFFICES ASSUME IInv, [Next]_vars, NEW j \in Jobs, row[j].queuedAt = "set"
                 PROVE  row'[j].queuedAt = "set"
      OBVIOUS
    <2>1. RowStep(j) /\ row[j].status # "absent"
      BY NextRows DEF IInv, RowsKnown
    <2> QED
      BY <2>1 DEF RowStep
  <1> QED
    BY <1>1, InductiveInvariant, PTL DEF Spec, QueuedNeverCleared
================================================================================
