------------------------------ MODULE JobPipeline ------------------------------
(***************************************************************************)
(* The path of a job through Jobflow: the API server inserts a row and      *)
(* publishes a message (a dual write without a transaction), RabbitMQ holds *)
(* the message until it is due, the worker's consumers run it and record    *)
(* what became of it, and a reconciler in the server republishes the jobs   *)
(* whose publish was never recorded.                                        *)
(*                                                                          *)
(* Source: internal/jobs (service, repository, model, message),             *)
(* internal/cron/jobReconciler.go, internal/rabbitmq (publisher, consume)   *)
(* and internal/worker (handler, repository).                               *)
(*                                                                          *)
(* The columns of a job that no code ever reads back to decide anything     *)
(* (attempts, worker_id, started_at, completed_at, error_msg, payload,      *)
(* priority) are left out; timestamps that are only tested for NULL are     *)
(* "NULL" or "set".                                                         *)
(***************************************************************************)
EXTENDS Integers, Sequences, FiniteSets

CONSTANTS
    Jobs,             \* identifiers of the jobs that may be created
    Handlers,         \* concurrent HTTP requests in the API server
    Reconciler,       \* the goroutine cron.JobReconciler.Start runs in
    Consumers,        \* the consumer goroutines of the worker process
    RequestTypes,     \* job types clients ask for
    RequestedRetries, \* values of maxRetries clients send
    RequestedDelays,  \* scheduledAt - now of the requests; 0 when it is omitted
    DefaultRetries,   \* the column default of max_retries
    RetryLimit,       \* the largest maxRetries the service accepts
    Grace,            \* queuePublishGrace, in ticks
    Horizon,          \* bound: the last tick of the clock
    MaxFaults,        \* bound: how many faults one behaviour may contain
    Environment,      \* the client calls and the faults this instance allows
    None

Procs == Handlers \cup {Reconciler}

Types == {"sendEmail", "generateReport", "resizeImage", "exportCSV"}

EnvironmentKinds ==
    {"update", "delete", "nack", "timeout", "connLost", "dbError", "redisError",
     "serverCrash", "workerCrash", "consumerCut"}

ASSUME ConstantsAssumption ==
    /\ Reconciler \notin Handlers
    /\ RequestTypes \subseteq Types
    /\ RequestedRetries \subseteq Int
    /\ RequestedDelays \subseteq Int
    /\ RetryLimit \in Nat
    /\ DefaultRetries \in 1..RetryLimit
    /\ Grace \in Nat
    /\ Horizon \in Nat
    /\ MaxFaults \in Nat
    /\ Environment \subseteq EnvironmentKinds

VARIABLES
    now,         \* the clock
    row,         \* the jobs table
    ppc, todo, cur, draft, expired,     \* the server's request and sweep goroutines
    accepted,    \* ghost: who is waiting for the confirm of a message the broker took
    connection,  \* the server's AMQP connection
    confirms,    \* the broker's confirms nobody has read yet, in publish order
    delayed, ready,  \* the delayed exchange and the jobs queue
    sent,        \* how many messages of a job the broker has taken (tells copies apart)
    cpc, held, attempt, linked,         \* the worker's consumers
    announced,   \* outcomes published to Redis, by job
    excuse,      \* ghost: the mishaps that have befallen a job
    budget       \* faults still allowed

serverVars == <<ppc, todo, cur, draft, expired, accepted, connection, confirms>>
brokerVars == <<delayed, ready, sent>>
workerVars == <<cpc, held, attempt, linked>>
ghostVars  == <<announced, excuse>>
vars == <<now, row, serverVars, brokerVars, workerVars, ghostVars, budget>>

--------------------------------------------------------------------------------
(* Data. *)

Statuses == {"absent", "pending", "running", "completed", "failed"}
Terminal == {"completed", "failed"}
Mishaps  == {"misconfirmed", "exhausted", "skipped", "clobbered", "orphaned",
             "unannounced"}

\* A stored max_retries: never 0, which GORM replaces by the column default on
\* insert and leaves out on update, and never above the limit.
StoredRetries == {n \in Int : n # 0 /\ n <= RetryLimit}

Row == [status : Statuses, queuedAt : {"NULL", "set"}, deletedAt : {"NULL", "set"},
        type : Types, maxRetries : StoredRetries, scheduledAt : Int]

\* JobMessage, and the message the broker keeps of it.
Body == [job : Jobs, type : Types, maxRetries : StoredRetries, scheduledAt : Int]
Message == [job : Jobs, type : Types, maxRetries : StoredRetries, scheduledAt : Int,
            copy : Nat]

\* The struct UpdateJobService fills in and hands to the repository.
Draft == [job : Jobs, status : Statuses, queuedAt : {"NULL", "set"}, type : Types,
          maxRetries : {n \in Int : n <= RetryLimit}, scheduledAt : Int]

AbsentRow == [status |-> "absent", queuedAt |-> "NULL", deletedAt |-> "NULL",
              type |-> "sendEmail", maxRetries |-> DefaultRetries, scheduledAt |-> 0]

\* GORM's soft delete: every query and update filters on deleted_at IS NULL.
Live(j) == row[j].status # "absent" /\ row[j].deletedAt = "NULL"

BodyOf(j, r) == [job |-> j, type |-> r.type, maxRetries |-> r.maxRetries,
                 scheduledAt |-> r.scheduledAt]

MessageOf(b) == [job |-> b.job, type |-> b.type, maxRetries |-> b.maxRetries,
                 scheduledAt |-> b.scheduledAt, copy |-> sent[b.job]]

\* The four handleXxx functions differ only in how they end.
Outcome(type) == IF type = "exportCSV" THEN "failed" ELSE "completed"

Blame(j, mishap) == excuse' = [excuse EXCEPT ![j] = @ \cup {mishap}]

Fault(kind) == kind \in Environment /\ budget > 0 /\ budget' = budget - 1

TypeOK ==
    /\ now \in 0..Horizon
    /\ row \in [Jobs -> Row]
    /\ ppc \in [Procs -> {"idle", "publish", "confirm", "mark", "update"}]
    /\ todo \in [Procs -> SUBSET Body]
    /\ cur \in [Procs -> Body \cup {None}]
    /\ draft \in [Procs -> Draft \cup {None}]
    /\ expired \subseteq Handlers
    /\ accepted \subseteq Procs
    /\ connection \in {"open", "closed"}
    /\ confirms \in Seq({"ack", "nack"})
    /\ delayed \subseteq Message
    /\ ready \subseteq Message
    /\ sent \in [Jobs -> Nat]
    /\ cpc \in [Consumers -> {"idle", "run", "work", "event", "ack", "nack", "stopped"}]
    /\ held \in [Consumers -> Message \cup {None}]
    /\ attempt \in [Consumers -> Nat]
    /\ linked \subseteq Consumers
    /\ announced \in [Jobs -> SUBSET Terminal]
    /\ excuse \in [Jobs -> SUBSET Mishaps]
    /\ budget \in 0..MaxFaults

Init ==
    /\ now = 0
    /\ row = [j \in Jobs |-> AbsentRow]
    /\ ppc = [p \in Procs |-> "idle"]
    /\ todo = [p \in Procs |-> {}]
    /\ cur = [p \in Procs |-> None]
    /\ draft = [p \in Procs |-> None]
    /\ expired = {}
    /\ accepted = {}
    /\ connection = "open"
    /\ confirms = <<>>
    /\ delayed = {}
    /\ ready = {}
    /\ sent = [j \in Jobs |-> 0]
    /\ cpc = [c \in Consumers |-> "idle"]
    /\ held = [c \in Consumers |-> None]
    /\ attempt = [c \in Consumers |-> 0]
    /\ linked = Consumers
    /\ announced = [j \in Jobs |-> {}]
    /\ excuse = [j \in Jobs |-> {}]
    /\ budget = MaxFaults

--------------------------------------------------------------------------------
(* The API server. *)

Requests == [type : RequestTypes, maxRetries : RequestedRetries, delay : RequestedDelays]

\* A maxRetries of 0 is the zero value of the struct, so GORM inserts the default.
InsertedRetries(n) == IF n = 0 THEN DefaultRetries ELSE n

InsertedRow(r) ==
    [status |-> "pending", queuedAt |-> "NULL", deletedAt |-> "NULL", type |-> r.type,
     maxRetries |-> InsertedRetries(r.maxRetries), scheduledAt |-> now + r.delay]

\* Mutant: the check forgets the limit.
WithinLimit_Unchecked(n) == n \in Int

\* The check of maxRetries in CreateJobsService and UpdateJobService: a request that
\* fails it changes nothing.
WithinLimit(n) == n <= RetryLimit

\* CreateJobsService: one INSERT for the whole batch J, then the handler publishes
\* the rows one by one. Bound: the reconciler's grace ends within the Horizon.
CreateJobsService(h) ==
    /\ ppc[h] = "idle"
    /\ \E J \in SUBSET {j \in Jobs : row[j].status = "absent"} : \E req \in [J -> Requests] :
        /\ J # {}
        /\ \A j \in J : WithinLimit(req[j].maxRetries)
        /\ \A j \in J : now + req[j].delay + Grace <= Horizon
        /\ row' = [j \in Jobs |-> IF j \in J THEN InsertedRow(req[j]) ELSE row[j]]
        /\ todo' = [todo EXCEPT ![h] = {BodyOf(j, InsertedRow(req[j])) : j \in J}]
        /\ ppc' = [ppc EXCEPT ![h] = "publish"]
    /\ UNCHANGED <<now, cur, draft, expired, accepted, connection, confirms,
                   brokerVars, workerVars, ghostVars, budget>>

\* RabbitMQ.mu is held from the publish until its confirm has been dealt with.
MutexFree == \A p \in Procs : ppc[p] # "confirm"

\* What a goroutine does once publishJob has returned: the rest of its list.
Advance(p, rest) ==
    /\ ppc' = [ppc EXCEPT ![p] = IF rest = {} THEN "idle" ELSE "publish"]
    /\ cur' = [cur EXCEPT ![p] = None]
    /\ accepted' = accepted \ {p}
    /\ expired' = IF rest = {} THEN expired \ {p} ELSE expired

\* PublishDelayed up to the wait: the broker takes the message, or it refuses it
\* and will answer with a nack.
PublishDelayed(p) ==
    /\ ppc[p] = "publish"
    /\ MutexFree
    /\ connection = "open"
    /\ \E b \in todo[p] :
        /\ todo' = [todo EXCEPT ![p] = @ \ {b}]
        /\ cur' = [cur EXCEPT ![p] = b]
        /\ \/ /\ delayed' = delayed \cup {MessageOf(b)}
              /\ sent' = [sent EXCEPT ![b.job] = @ + 1]
              /\ accepted' = accepted \cup {p}
              /\ confirms' = Append(confirms, "ack")
              /\ UNCHANGED budget
           \/ /\ Fault("nack")
              /\ accepted' = accepted \ {p}
              /\ confirms' = Append(confirms, "nack")
              /\ UNCHANGED <<delayed, sent>>
    /\ ppc' = [ppc EXCEPT ![p] = "confirm"]
    /\ UNCHANGED <<now, row, draft, expired, connection, ready, workerVars, ghostVars>>

\* PublishWithContext returns an error: the channel is closed. The library looks at no
\* context, so that a request that has expired still publishes the rest of its list.
PublishFails(p) ==
    /\ ppc[p] = "publish"
    /\ MutexFree
    /\ connection = "closed"
    /\ \E b \in todo[p] :
        /\ todo' = [todo EXCEPT ![p] = @ \ {b}]
        /\ Advance(p, todo[p] \ {b})
    /\ UNCHANGED <<now, row, draft, connection, confirms, brokerVars, workerVars,
                   ghostVars, budget>>

\* Mutant: PublishDelayed reads the confirm without looking at Ack.
AwaitConfirm_IgnoresNack(p) ==
    /\ ppc[p] = "confirm"
    /\ confirms # <<>>
    /\ confirms' = Tail(confirms)
    /\ ppc' = [ppc EXCEPT ![p] = "mark"]
    /\ UNCHANGED <<now, row, todo, cur, draft, expired, accepted, connection, brokerVars,
                   workerVars, ghostVars, budget>>

\* PublishDelayed takes the next confirm of the channel, whoever's it is. An ack
\* sends publishJob on to MarkQueued; a nack is an error, and the job is left to
\* the reconciler.
AwaitConfirm(p) ==
    /\ ppc[p] = "confirm"
    /\ confirms # <<>>
    /\ confirms' = Tail(confirms)
    /\ \/ /\ Head(confirms) = "ack"
          /\ ppc' = [ppc EXCEPT ![p] = "mark"]
          /\ IF p \in accepted THEN UNCHANGED excuse ELSE Blame(cur[p].job, "misconfirmed")
          /\ UNCHANGED <<cur, accepted, expired>>
       \/ /\ Head(confirms) = "nack"
          /\ Advance(p, todo[p])
          /\ UNCHANGED excuse
    /\ UNCHANGED <<now, row, todo, draft, connection, brokerVars, workerVars, announced,
                   budget>>

\* The wait ends without a confirm: the confirm channel was closed, or the context
\* of the request is done, in which case the confirm stays behind for the next
\* goroutine.
ConfirmAbandoned(p) ==
    /\ ppc[p] = "confirm"
    /\ (connection = "closed" /\ confirms = <<>>) \/ p \in expired
    /\ Advance(p, todo[p])
    /\ UNCHANGED <<now, row, todo, draft, connection, confirms, brokerVars, workerVars,
                   ghostVars, budget>>

\* MarkQueued; its failure is logged and forgotten. It fails for sure once the
\* context of the request is done.
MarkQueued(p) ==
    /\ ppc[p] = "mark"
    /\ \/ /\ p \notin expired
          /\ row' = IF Live(cur[p].job)
                      THEN [row EXCEPT ![cur[p].job].queuedAt = "set"] ELSE row
          /\ UNCHANGED budget
       \/ /\ p \in expired
          /\ UNCHANGED <<row, budget>>
       \/ /\ Fault("dbError")
          /\ UNCHANGED row
    /\ Advance(p, todo[p])
    /\ UNCHANGED <<now, todo, draft, connection, confirms, brokerVars, workerVars, ghostVars>>

\* The request's five seconds are over, or its client is gone.
ContextDone(h) ==
    /\ ppc[h] # "idle"
    /\ h \notin expired
    /\ Fault("timeout")
    /\ expired' = expired \cup {h}
    /\ UNCHANGED <<now, row, ppc, todo, cur, draft, accepted, connection, confirms,
                   brokerVars, workerVars, ghostVars>>

\* Mutant: the query looks for the jobs that were published.
StuckJobs_Inverted ==
    {j \in Jobs : /\ Live(j)
                  /\ row[j].status = "pending"
                  /\ row[j].queuedAt = "set"
                  /\ row[j].scheduledAt <= now - Grace}

\* GetUnqueuedPendingJobs, with the cutoff queuePublishGrace ago.
StuckJobs ==
    {j \in Jobs : /\ Live(j)
                  /\ row[j].status = "pending"
                  /\ row[j].queuedAt = "NULL"
                  /\ row[j].scheduledAt <= now - Grace}

\* One sweep: the rows are read once, then published one by one as they were. A
\* sweep that finds nothing changes nothing.
RepublishStuckJobs ==
    /\ ppc[Reconciler] = "idle"
    /\ todo' = [todo EXCEPT ![Reconciler] = {BodyOf(j, row[j]) : j \in StuckJobs}]
    /\ ppc' = [ppc EXCEPT ![Reconciler] = IF StuckJobs = {} THEN "idle" ELSE "publish"]
    /\ UNCHANGED <<now, row, cur, draft, expired, accepted, connection, confirms,
                   brokerVars, workerVars, ghostVars, budget>>

\* UpdateJobService reads the row and fills in the request; a field the request
\* omits keeps the value read. Nothing is published again.
UpdateRead(h) ==
    /\ "update" \in Environment
    /\ ppc[h] = "idle"
    /\ \E j \in Jobs :
        /\ Live(j)
        /\ \E type \in RequestTypes \cup {row[j].type} :
           \E n \in RequestedRetries \cup {row[j].maxRetries} :
           \E at \in {now + d : d \in RequestedDelays} \cup {row[j].scheduledAt} :
            /\ WithinLimit(n)
            /\ draft' = [draft EXCEPT ![h] =
                 [job |-> j, status |-> row[j].status, queuedAt |-> row[j].queuedAt,
                  type |-> type, maxRetries |-> n, scheduledAt |-> at]]
    /\ ppc' = [ppc EXCEPT ![h] = "update"]
    /\ UNCHANGED <<now, row, todo, cur, expired, accepted, connection, confirms,
                   brokerVars, workerVars, ghostVars, budget>>

\* Mutant: an edited job starts over.
Overwrite_StartsOver(r, d) ==
    [r EXCEPT !.status = "pending", !.type = d.type, !.scheduledAt = d.scheduledAt,
              !.maxRetries = IF d.maxRetries = 0 THEN @ ELSE d.maxRetries,
              !.queuedAt = IF d.queuedAt = "NULL" THEN @ ELSE d.queuedAt]

\* Mutant: Save instead of Updates, which writes nil and zero fields too.
Overwrite_Save(r, d) ==
    [r EXCEPT !.status = d.status, !.type = d.type, !.scheduledAt = d.scheduledAt,
              !.maxRetries = d.maxRetries, !.queuedAt = d.queuedAt]

\* GORM's Updates with a struct writes every field that is not zero, the status
\* read earlier included, and leaves out a max_retries of 0 and a nil queued_at.
Overwrite(r, d) ==
    [r EXCEPT !.status = d.status, !.type = d.type, !.scheduledAt = d.scheduledAt,
              !.maxRetries = IF d.maxRetries = 0 THEN @ ELSE d.maxRetries,
              !.queuedAt = IF d.queuedAt = "NULL" THEN @ ELSE d.queuedAt]

UpdateWrite(h) ==
    /\ ppc[h] = "update"
    /\ LET d == draft[h] IN
       \/ /\ h \notin expired
          /\ Live(d.job)
          /\ row' = [row EXCEPT ![d.job] = Overwrite(@, d)]
          /\ IF row[d.job].status = d.status THEN UNCHANGED excuse
                                             ELSE Blame(d.job, "clobbered")
          /\ UNCHANGED budget
       \/ /\ h \in expired \/ ~Live(d.job)
          /\ UNCHANGED <<row, excuse, budget>>
       \/ /\ Fault("dbError")
          /\ UNCHANGED <<row, excuse>>
    /\ ppc' = [ppc EXCEPT ![h] = "idle"]
    /\ draft' = [draft EXCEPT ![h] = None]
    /\ expired' = expired \ {h}
    /\ UNCHANGED <<now, todo, cur, accepted, connection, confirms, brokerVars, workerVars,
                   announced>>

\* DeleteJobService: a soft delete. Whatever is queued for the job stays queued.
DeleteJobService(h) ==
    /\ "delete" \in Environment
    /\ ppc[h] = "idle"
    /\ \E j \in Jobs : Live(j) /\ row' = [row EXCEPT ![j].deletedAt = "set"]
    /\ UNCHANGED <<now, serverVars, brokerVars, workerVars, ghostVars, budget>>

\* The server process dies and is restarted with a new connection.
ServerCrash ==
    /\ Fault("serverCrash")
    /\ ppc' = [p \in Procs |-> "idle"]
    /\ todo' = [p \in Procs |-> {}]
    /\ cur' = [p \in Procs |-> None]
    /\ draft' = [p \in Procs |-> None]
    /\ expired' = {}
    /\ accepted' = {}
    /\ connection' = "open"
    /\ confirms' = <<>>
    /\ UNCHANGED <<now, row, brokerVars, workerVars, ghostVars>>

\* The server's connection breaks; the server never dials again. What had arrived by
\* then is still handed over, before the confirm channel is closed.
ConnectionLost ==
    /\ connection = "open"
    /\ Fault("connLost")
    /\ connection' = "closed"
    /\ \E k \in 0..Len(confirms) : confirms' = SubSeq(confirms, 1, k)
    /\ UNCHANGED <<now, row, ppc, todo, cur, draft, expired, accepted, brokerVars,
                   workerVars, ghostVars>>

--------------------------------------------------------------------------------
(* RabbitMQ: the delayed exchange, and the worker's consumers. *)

\* The delayed-message plugin routes a message to the queue when its delay, computed
\* from scheduledAt when it was published, is over.
Release(m) ==
    /\ m \in delayed
    /\ m.scheduledAt <= now
    /\ delayed' = delayed \ {m}
    /\ ready' = ready \cup {m}
    /\ UNCHANGED <<now, row, serverVars, sent, workerVars, ghostVars, budget>>

\* A consumer gets its next message (prefetch 1). The retry loop runs from attempt 0
\* to maxRetries, so not at all when maxRetries is negative: no error, hence an ack.
Deliver(c) ==
    /\ c \in linked
    /\ cpc[c] = "idle"
    /\ \E m \in ready :
        /\ ready' = ready \ {m}
        /\ held' = [held EXCEPT ![c] = m]
        /\ attempt' = [attempt EXCEPT ![c] = 0]
        /\ \/ /\ m.maxRetries >= 0
              /\ cpc' = [cpc EXCEPT ![c] = "run"]
              /\ UNCHANGED excuse
           \/ /\ m.maxRetries < 0
              /\ cpc' = [cpc EXCEPT ![c] = "ack"]
              /\ Blame(m.job, "skipped")
    /\ UNCHANGED <<now, row, serverVars, delayed, sent, linked, announced, budget>>

\* Mutant: the loop tests attempt after incrementing it.
RetryOrGiveUp_OffByOne(c) ==
    \/ /\ attempt[c] <= held[c].maxRetries
       /\ attempt' = [attempt EXCEPT ![c] = @ + 1]
       /\ cpc' = [cpc EXCEPT ![c] = "run"]
       /\ UNCHANGED excuse
    \/ /\ attempt[c] > held[c].maxRetries
       /\ cpc' = [cpc EXCEPT ![c] = "nack"]
       /\ Blame(held[c].job, "exhausted")
       /\ UNCHANGED attempt

\* The handler returned an error: the next attempt, or the end of the retry loop.
RetryOrGiveUp(c) ==
    \/ /\ attempt[c] < held[c].maxRetries
       /\ attempt' = [attempt EXCEPT ![c] = @ + 1]
       /\ cpc' = [cpc EXCEPT ![c] = "run"]
       /\ UNCHANGED excuse
    \/ /\ attempt[c] >= held[c].maxRetries
       /\ cpc' = [cpc EXCEPT ![c] = "nack"]
       /\ Blame(held[c].job, "exhausted")
       /\ UNCHANGED attempt

\* Mutant: the worker's updates run Unscoped, so that they see deleted rows.
SetStatus_Unscoped(j, status) ==
    row' = IF row[j].status # "absent" THEN [row EXCEPT ![j].status = status] ELSE row

\* The worker's updates, like all of GORM's, touch a row only while it is not deleted.
SetStatus(j, status) ==
    row' = IF Live(j) THEN [row EXCEPT ![j].status = status] ELSE row

\* Mutant: the job is done although its row could not be marked as running.
MarkRunning_IgnoresError(c) ==
    /\ cpc[c] = "run"
    /\ \/ SetStatus(held[c].job, "running") /\ UNCHANGED budget
       \/ Fault("dbError") /\ UNCHANGED row
    /\ cpc' = [cpc EXCEPT ![c] = "work"]
    /\ UNCHANGED <<now, serverVars, brokerVars, held, attempt, linked, ghostVars>>

\* The first half of a handleXxx: MarkRunning, whatever the row's status is.
MarkRunning(c) ==
    /\ cpc[c] = "run"
    /\ \/ /\ SetStatus(held[c].job, "running")
          /\ cpc' = [cpc EXCEPT ![c] = "work"]
          /\ UNCHANGED <<attempt, excuse, budget>>
       \/ /\ Fault("dbError")
          /\ RetryOrGiveUp(c)
          /\ UNCHANGED row
    /\ UNCHANGED <<now, serverVars, brokerVars, held, linked, announced>>

\* The second half: the work is done, MarkCompleted or MarkFailed.
MarkFinished(c) ==
    /\ cpc[c] = "work"
    /\ \/ /\ SetStatus(held[c].job, Outcome(held[c].type))
          /\ cpc' = [cpc EXCEPT ![c] = "event"]
          /\ UNCHANGED <<attempt, excuse, budget>>
       \/ /\ Fault("dbError")
          /\ RetryOrGiveUp(c)
          /\ UNCHANGED row
    /\ UNCHANGED <<now, serverVars, brokerVars, held, linked, announced>>

\* publishStatusEvent; an error of Redis is logged and forgotten.
PublishStatusEvent(c) ==
    /\ cpc[c] = "event"
    /\ cpc' = [cpc EXCEPT ![c] = "ack"]
    /\ \/ /\ announced' = [announced EXCEPT ![held[c].job] = @ \cup {Outcome(held[c].type)}]
          /\ UNCHANGED <<excuse, budget>>
       \/ /\ Fault("redisError")
          /\ Blame(held[c].job, "unannounced")
          /\ UNCHANGED announced
    /\ UNCHANGED <<now, row, serverVars, brokerVars, held, attempt, linked>>

\* Ack, or Nack without requeue and without a dead-letter exchange: the broker
\* forgets the message. A consumer whose channel is gone leaves its loop.
Settle(c) ==
    /\ cpc[c] \in {"ack", "nack"}
    /\ cpc' = [cpc EXCEPT ![c] = IF c \in linked THEN "idle" ELSE "stopped"]
    /\ held' = [held EXCEPT ![c] = None]
    /\ attempt' = [attempt EXCEPT ![c] = 0]
    /\ UNCHANGED <<now, row, serverVars, brokerVars, linked, ghostVars, budget>>

\* Mutant: the consumers register with autoAck.
Unacked_AutoAck(C) == {held[c] : c \in {d \in C \cap linked : FALSE}}

\* Mutant: the message is acked as soon as the outcome is in the database.
Unacked_AckBeforeEvent(C) ==
    {held[c] : c \in {d \in C \cap linked : cpc[d] \notin {"idle", "stopped", "event"}}}

\* What the broker still counts as unacknowledged on the channels of C.
Unacked(C) == {held[c] : c \in {d \in C \cap linked : cpc[d] \notin {"idle", "stopped"}}}

\* The channels of some consumers are closed: the broker requeues what they hold.
\* A consumer at work does not notice; an idle one leaves its loop for good.
ConsumersCut ==
    /\ Fault("consumerCut")
    /\ \E C \in SUBSET linked :
        /\ C # {}
        /\ ready' = ready \cup Unacked(C)
        /\ linked' = linked \ C
        /\ cpc' = [c \in Consumers |->
                     IF c \in C /\ cpc[c] = "idle" THEN "stopped" ELSE cpc[c]]
    /\ UNCHANGED <<now, row, serverVars, delayed, sent, held, attempt, ghostVars>>

\* The worker process dies and is restarted; the broker requeues what was not
\* acknowledged. What a consumer without a channel was doing is simply gone.
WorkerCrash ==
    /\ Fault("workerCrash")
    /\ ready' = ready \cup Unacked(Consumers)
    /\ cpc' = [c \in Consumers |-> "idle"]
    /\ held' = [c \in Consumers |-> None]
    /\ attempt' = [c \in Consumers |-> 0]
    /\ linked' = Consumers
    /\ excuse' = [j \in Jobs |->
          IF \E c \in Consumers \ linked : /\ cpc[c] \in {"run", "work", "event"}
                                          /\ held[c].job = j
            THEN excuse[j] \cup {"orphaned"} ELSE excuse[j]]
    /\ UNCHANGED <<now, row, serverVars, delayed, sent, announced>>

Tick ==
    /\ now < Horizon
    /\ now' = now + 1
    /\ UNCHANGED <<row, serverVars, brokerVars, workerVars, ghostVars, budget>>

--------------------------------------------------------------------------------

Publishing(p) ==
    PublishDelayed(p) \/ PublishFails(p) \/ AwaitConfirm(p) \/ ConfirmAbandoned(p)
        \/ MarkQueued(p)

Requesting(h) ==
    CreateJobsService(h) \/ ContextDone(h) \/ UpdateRead(h) \/ UpdateWrite(h)
        \/ DeleteJobService(h)

Consuming(c) ==
    MarkRunning(c) \/ MarkFinished(c) \/ PublishStatusEvent(c) \/ Settle(c)

Next ==
    \/ Tick
    \/ \E h \in Handlers : Requesting(h)
    \/ \E p \in Procs : Publishing(p)
    \/ RepublishStuckJobs
    \/ ServerCrash
    \/ ConnectionLost
    \/ \E m \in delayed : Release(m)
    \/ \E c \in Consumers : Deliver(c) \/ Consuming(c)
    \/ ConsumersCut
    \/ WorkerCrash

Spec == Init /\ [][Next]_vars

\* The scheduling the code relies on: goroutines that can run do run, the ticker of
\* the reconciler fires, the broker reads, confirms, releases and delivers, time passes (a
\* broker that does none of the first two is in ServerLink). A goroutine that waits for
\* Go's mutex is not starved, hence strong fairness for publishers.
Fairness ==
    /\ WF_vars(Tick)
    /\ \A p \in Procs : SF_vars(Publishing(p))
    /\ WF_vars(RepublishStuckJobs)
    /\ WF_vars(\E m \in delayed : Release(m))
    /\ WF_vars(\E c \in Consumers : Deliver(c))
    /\ \A c \in Consumers : WF_vars(Consuming(c))

FairSpec == Spec /\ Fairness

--------------------------------------------------------------------------------
(* Properties. *)

Queued(j) == \E m \in delayed \cup ready : m.job = j

\* A message that will really be run: a negative maxRetries is acked unrun.
QueuedRunnable(j) == \E m \in delayed \cup ready : m.job = j /\ m.maxRetries >= 0

InHand(C, j, pcs) == \E c \in C : cpc[c] \in pcs /\ held[c].job = j

About(j, mishaps) == excuse[j] \cap mishaps # {}

\* What keeps a pending job going, or the mishap that explains why nothing does.
Recoverable(j) ==
    \/ Queued(j)
    \/ InHand(linked, j, {"run"})
    \/ About(j, {"misconfirmed", "exhausted", "skipped", "clobbered"})

\* A job that the reconciler will never look at again (pending, queued_at recorded) has
\* a message in the broker or in the hands of a consumer whose channel is open, across
\* crashes of either process, failed or abandoned confirms, redeliveries and concurrent
\* updates; the only ways to lose it are the four named ones: a confirm read by the
\* wrong publisher, retries used up, a negative maxRetries, a stale whole-row update.
PendingJobRecoverable ==
    \A j \in Jobs :
        Live(j) /\ row[j].status = "pending" /\ row[j].queuedAt = "set" => Recoverable(j)

Tended(j) ==
    \/ QueuedRunnable(j)
    \/ InHand(Consumers, j, {"run", "work"})
    \/ About(j, {"exhausted", "orphaned", "clobbered"})

\* A job whose row says running is being run, or will be run again, whatever crashed:
\* the worker's MarkRunning is undone by nothing else. The named exceptions: retries
\* used up, a stale update, and a redelivered job whose first consumer, cut off from
\* the broker, wrote "running" late and then died with the process.
RunningJobTended ==
    \A j \in Jobs : Live(j) /\ row[j].status = "running" => Tended(j)

Announced(j) ==
    \/ row[j].status \in announced[j]
    \/ \E c \in Consumers : /\ cpc[c] = "event"
                            /\ held[c].job = j
                            /\ Outcome(held[c].type) = row[j].status
    \/ QueuedRunnable(j)
    \/ InHand(linked, j, {"run", "work"})
    \/ About(j, {"unannounced", "exhausted", "clobbered"})

\* A recorded outcome reaches Redis: it was published, is about to be, or the job is
\* going to be run once more, even when the worker dies between MarkCompleted and
\* publishStatusEvent, with or without an open channel. Exceptions: Redis refused it, a
\* stale update, retries used up on a redelivery.
OutcomeAnnounced ==
    \A j \in Jobs : Live(j) /\ row[j].status \in Terminal => Announced(j)

\* The retry loop of Consume never starts an attempt beyond the message's maxRetries,
\* which the service bounded when the job was created or updated, and it never runs a
\* message whose maxRetries is negative.
RetryBudget ==
    \A c \in Consumers :
        cpc[c] \in {"run", "work", "event"} =>
            attempt[c] <= held[c].maxRetries /\ held[c].maxRetries <= RetryLimit

\* A deleted job's row is never written again, though the messages of the job are still
\* run, its publish may still be confirmed and an update of it may be under way.
DeletedFrozen ==
    [][\A j \in Jobs : row[j].deletedAt = "set" => row'[j] = row[j]]_vars

\* Once queued_at is recorded it stays, also when an update that read the row before
\* writes it back: the reconciler does not publish the job a second time because of it.
QueuedNeverCleared ==
    [][\A j \in Jobs : row[j].queuedAt = "set" => row'[j].queuedAt = "set"]_vars

\* In the end every job is completed or failed for good, unless it is deleted, though any
\* one of these befell it: a publish was refused, a request timed out between the insert
\* and queued_at, the database or Redis failed, the server or the worker died at any point.
\* Jobs with a negative maxRetries are not among them: the service accepts one, Consume
\* acks its message without a single run, and the job stays pending for ever.
JobSettles ==
    <>[](\A j \in Jobs :
           Live(j) /\ row[j].maxRetries >= 0 => row[j].status \in Terminal)

--------------------------------------------------------------------------------
(* What the owner of a job sees of all this. *)

ShownStatus(j) == IF row[j].deletedAt = "set" THEN "deleted" ELSE row[j].status

\* An update between its read and its write.
EditOf(h) ==
    IF ppc[h] = "update" THEN [job |-> draft[h].job, status |-> draft[h].status]
                         ELSE [job |-> None, status |-> "absent"]

Run(phase, m) == [phase |-> phase, job |-> m.job, outcome |-> Outcome(m.type)]

\* A handler between MarkRunning and publishStatusEvent, on an open channel or not.
RunOf(c) ==
    IF cpc[c] = "work" THEN Run("started", held[c])
    ELSE IF cpc[c] = "event" THEN Run("recorded", held[c])
    ELSE [phase |-> "none", job |-> None, outcome |-> None]

Lifecycle == INSTANCE JobLifecycle
    WITH Editors <- Handlers, Workers <- Consumers,
         status <- [j \in Jobs |-> ShownStatus(j)],
         edit <- [h \in Handlers |-> EditOf(h)],
         run <- [c \in Consumers |-> RunOf(c)],
         told <- announced

\* Batches, the dual write, duplicates, redeliveries, retries, crashes and cut channels
\* show the owner of a job nothing but the life of JobLifecycle: no status and no event
\* that a run in the right order, or an edit under way, does not account for.
ImplementsLifecycle == Lifecycle!Spec

--------------------------------------------------------------------------------
(* What RabbitMQ and its consumers do with a message. *)

Id(m) == <<m.job, m.copy>>

\* The message a consumer has on an open channel.
HandOf(c) == {Id(m) : m \in Unacked({c})}

Accepted == UNION {{<<j, copy>> : copy \in 0..sent[j] - 1} : j \in Jobs}
Waiting == {Id(m) : m \in delayed \cup ready}
Finished == {c \in linked : cpc[c] \in {"ack", "nack"}}

Queue == INSTANCE Delivery
    WITH Messages <- Jobs \X Nat, Workers <- Consumers,
         accepted <- Accepted, queue <- Waiting, finished <- Finished,
         hands <- [c \in Consumers |-> HandOf(c)]

\* Republished jobs, retries, crashes of either process and cut channels keep to the
\* promise of Delivery: no copy of a job's message is in two places, none is settled by a
\* consumer that has not gone through its attempts or no longer has it, and none that was
\* settled is delivered again.
ImplementsDelivery == Queue!Spec

--------------------------------------------------------------------------------
(* What the documentation says of this pipeline, and the code does not do. *)

\* rabbitmq/rabbitmqConnection.go:25 says that "we can correlate confirms to publishes by
\* waiting for the next confirm after each publish": whoever reads an ack as its own has
\* got its message to the broker.
ConfirmsCorrelated ==
    [][\A p \in Procs : ppc[p] = "confirm" /\ ppc'[p] = "mark" => p \in accepted]_vars
================================================================================
