# Jobflow in TLA+

A verification project for Jobflow, a job queue with a Go API server, a Go worker,
PostgreSQL, RabbitMQ with the delayed-message plugin, and Redis. The modules are
translated from the source; paths below are relative to the repository.
`PROJECT.json` maps every definition to its lines and lists runs, mutants, findings,
hazards and theorems.

## 1. The system

| Component | State it keeps | Operations |
|---|---|---|
| Job service (`internal/jobs`) | rows of `jobs`: status, `queued_at`, `deleted_at`, `scheduled_at`, `max_retries`, type | create one, create a batch, update, delete, `publishJob`, `RepublishStuckJobs` |
| Reconciler (`internal/cron/jobReconciler.go`) | nothing of its own | every minute: read the pending rows without `queued_at` past the grace, publish them again |
| Publisher (`internal/rabbitmq/publisher.go`) | one connection, one channel in confirm mode, a mutex, a confirm channel of size 1 | `Publish`, `PublishDelayed`: lock, publish, wait for the next confirm or for the context |
| Broker (external) | delayed messages, the queue `jobs`, unacknowledged deliveries | release when due, deliver, redeliver |
| Consumer (`internal/rabbitmq/consume.go`) | five goroutines, each with a channel and prefetch 1 | run the handler up to `maxRetries + 1` times, ack or nack without requeue |
| Worker handlers (`internal/worker`) | nothing of their own | `MarkRunning`, the work, `MarkCompleted` or `MarkFailed`, `publishStatusEvent` |
| Worker start and shutdown (`worker.go`) | a context, a WaitGroup | start five consumers; on a signal cancel and drain for at most 30 s |
| Sessions (`internal/auth`) | `users`, `refresh_tokens` with `family_id` and `parent_id` | signup, login, refresh with rotation and reuse detection, logout |
| Denylist (`jti_store.go`, `middleware/auth.go`) | Redis keys with a TTL | `Revoke`, `IsRevoked` |
| Token cleaner (`internal/cron/refreshTokenCleanUp.go`) | nothing of its own | every hour: delete expired rows |
| Status stream (`internal/sse`, `internal/redis/pubsub.go`) | client channels of ten messages under an RWMutex | add, remove and close, send or drop, relay from Redis |
| Rate limiter (`internal/ratelimit`) | a channel of tokens | refill on a tick, `TryAcquire` |
| Health check (`internal/health`) | nothing of its own | ping PostgreSQL and Redis under a timeout, open and close a channel on the connection under none |
| Start-up (`cmd`, `bootstrap`, `config`, `database`, `rabbitmqConnection.go`, `declareQueue.go`) | queues, exchange and binding in the broker | load the configuration, connect, dial in a loop of 30 attempts, declare, register the consumers |
| Server shutdown (`cmd/server/main.go`) | the state of `http.Server` | on a signal stop accepting, wait for the requests for at most 5 s, return |
| Email, routing, Redis client, HTTP helpers | none | wiring, formatting |

How they interact. Server and worker come up on their own and declare the same queues.
A create request inserts the row and then publishes the message:
two writes without a common transaction. `queued_at`, written after the broker's
confirm, tells the reconciler which rows still need a publish. All publishers of the
process share one channel, one mutex and one stream of confirms, and the health probes
share the connection, and with it the one socket everybody writes to and the one goroutine
that reads from the broker. The broker hands the
message to a consumer when it is due; the consumer writes the row, publishes the
outcome to Redis, and acks. Redis relays the outcome to the server's event streams.
Every request first passes the rate limiter and, apart from signup, login and refresh,
the denylist in Redis.

What is hard about it:

* the dual write, interrupted by crashes, timeouts, refused and lost publishes, and
  raced by the reconciler;
* confirms that belong to nobody any more, read by the next publisher;
* whole-row updates of stale reads, concurrent with publisher and worker;
* at-least-once delivery: redelivered messages while the first consumer still works;
* retries that run out, `maxRetries` at zero, negative and above the limit;
* concurrent rotations of one refresh token, and revocations that overlap one;
* keys that must live exactly as long as the token they deny;
* a shutdown in which a WaitGroup, a context and random selects race one another;
* stream channels that are closed, full or abandoned while events are sent to them;
* a ticker whose period is an integer division and whose reader may lag;
* one reader goroutine for everybody, which stands still when the confirm channel of size
  one is full, and a mutex held by a sweep whose context never ends;
* library calls that look at no context: a publish, with the mutex held, and a health probe
  write to a socket the broker does not read while it is under an alarm;
* a dial loop that races the boot of the broker, at start-up and never again;
* two processes that declare the same queues, die half way and start again.

## 2. Modules

| Module | What it is |
|---|---|
| `JobPipeline` | job service, reconciler, publisher, broker, consumers and worker handlers as one state machine; its properties |
| `JobPipelineProofs` | theorems about `JobPipeline` |
| `JobLifecycle` | what the owner sees of a job: the abstract specification that `JobPipeline` implements |
| `Delivery` | what a queue with acknowledgements promises about a message: the abstract specification that `JobPipeline` and `WorkerShutdown` implement |
| `JobRefinementProofs` | the proofs that `JobPipeline` implements both |
| `MCJobPipeline` | instances of it for TLC |
| `AuthSessions` | sessions, denylist, token cleaner, Redis restarts; its properties |
| `SessionChain` | what a session is: the abstract specification that `AuthSessions` implements |
| `AuthSessionsProofs` | theorems about `AuthSessions`, that refinement among them |
| `MCAuthSessions` | instances of it for TLC |
| `WorkerShutdown` | one life of the worker process: start, consumers, signal, drain, exit; its properties; TLC runs it as it is |
| `WorkerShutdownProofs` | theorems about it, the refinement of `Delivery` among them |
| `Startup` | both processes from `main` to serving, against a broker that boots and restarts; its properties; TLC runs it as it is |
| `StartupProofs` | theorems about it |
| `ServerLink` | the server that serves: publishers, health probes and the library's reader on one connection, and the shutdown; its properties; TLC runs it as it is |
| `ServerLinkProofs` | theorems about it |
| `StatusStream` | Redis subscriber, client manager, event streams; its properties; TLC runs it as it is |
| `StatusStreamProofs` | theorems about it |
| `TokenBucket` | the rate limiter; its properties; TLC runs it as it is |
| `TokenBucketProofs` | theorems about it |

How the modules meet. `Startup` ends where a process serves; there `ServerLink` takes over
for the server and `WorkerShutdown` for the worker. `JobPipeline` has the end of a process
as the single steps `ServerCrash` and `WorkerCrash`, and those two modules open up what
happens before it. `JobPipeline` and `ServerLink` both have the publisher: the first with
the rows it is for and an unbounded channel of confirms, the second with the channel of
size one, the reader that blocks on it and everybody else who waits for that reader. The
events `JobPipeline` records in `announced` are the ones `StatusStream` starts from
(`Publish`). `JobPipeline` instantiates `JobLifecycle` (`Lifecycle`) and has its
specification as a property (`ImplementsLifecycle`). `JobPipeline` and `WorkerShutdown`
look at the consumers from two sides, the first with rows, retries and publishers, the
second with the goroutines and the drain; both instantiate `Delivery` (`Queue`,
`ImplementsDelivery`), which says that they mean the same queue. `AuthSessions`
instantiates `SessionChain` (`Chain`, `ImplementsChain`).

An operator whose comment begins with "Mutant" is a plausible bug; nothing uses it. It
stands in front of the definition it would replace, and the properties listed for it in
`PROJECT.json` fail once it does.

### JobPipeline

State and code: `row` is the table; `ppc`, `todo`, `cur`, `draft`, `expired` are the
local state of the request goroutines and of the reconciler (where it is, rows still
to publish, the one being published, the struct of an update, whether its context is
done). `connection` and `confirms` are the connection and the confirms not read yet.
`delayed` and `ready` are the broker's messages; `sent` tells copies apart. `cpc`,
`held`, `attempt`, `linked` are the consumers: where they are, the message, the
attempt, and whether their channel is still open. `announced` records what was
published to Redis. `accepted` and `excuse` are ghosts that name mishaps, `budget`
bounds the faults.

The steps are the points at which another process can interfere: each SQL statement,
publish, confirm, Redis call and ack. So `CreateJobsService` is the INSERT, and the
publishing of its rows is `PublishDelayed`, `AwaitConfirm`, `MarkQueued` for each row
(or the error paths `PublishFails`, `ConfirmAbandoned`); a request that updates is
`UpdateRead` and `UpdateWrite`; the handler of a message is `MarkRunning`,
`MarkFinished`, `PublishStatusEvent`, `Settle`.

Abstractions:

* Columns no code reads back to decide anything (attempts, worker_id, started_at,
  completed_at, error_msg, payload, priority) are left out; `queued_at` and
  `deleted_at` are NULL or set.
* `CreateJobService` is a batch of one. Its checks differ only in wording.
* A request for somebody else's job, an invalid type (the CHECK of the table), an
  INSERT or SELECT that fails: nothing changes, so there is no step for them.
* `DeleteJobService` reads the row and then deletes it; the DELETE filters on the
  row being live itself, so the two are one step.
* A message lost in the socket is a nack or a lost connection. A write that blocks is in
  `ServerLink`: here the broker reads what it is sent.
* `time.Sleep` between attempts and the work itself take no modelled time; any step
  of others can happen meanwhile.
* `handleJob` can also fail on a body it cannot parse or a type it does not know;
  the server publishes neither.

### JobLifecycle

Four variables: the status a job shows, the edit each editor and the run each worker has
under way, and the outcomes told. There is no queue in it, no publisher, no reconciler, no
retry. It allows what at-least-once delivery brings with it, a job that has ended and runs
again, and an edit that puts back the status it has read; it does not allow an outcome
nobody's run recorded, an announcement before its record, a run of a job that does not
exist, or a change of a deleted job. The mapping: `ShownStatus` is the column, or deleted;
`EditOf` is the struct `UpdateJobService` holds between its read and its write; `RunOf` is
a consumer between `MarkRunning` and `PublishStatusEvent`; `told` is `announced`.

### Delivery

Four variables: the messages ever accepted, those the queue has, what each worker has, and
the workers that have finished with what they have. A message is accepted once, taken by a
worker with empty hands, finished, and settled by the worker that finished it; at any
moment any workers lose what they have to the queue (`GiveBack`). It does not allow a
message in two places, one settled by a worker that is not through with it or has lost it
meanwhile, or one delivered after it was settled.

The mapping in `JobPipeline`: a message is a job and the number of the copy (`Id`), since
a job is published again when its confirm was not seen; `Waiting` are the copies held by
the delayed exchange and those in the queue; `HandOf` is what a consumer has on an open
channel, and `Finished` are the consumers that have left the loop of attempts. In
`WorkerShutdown`, `HandOf` counts a prefetched message from the moment the broker has put
it into the consumer's channel, before the consumer has received it; `Finished` are the
consumers between `wg.Done` and the ack.

### AuthSessions

`rt` is the table of refresh tokens as committed; a row is named by its identifier and
a family by the token that started it. The transaction of `RotateRefreshToken` is two
steps: after `RotateUpdate` the row is locked (`Locked`), `RotateCommit` publishes both
writes. `RevokeFamily` is one UPDATE of several rows under READ COMMITTED: it takes its
snapshot in `RevokeFamilyStarts`, waits for locks, and in `RevokeFamilyEnds` revokes
the rows of the snapshot that still match. `deny` holds the expiry of the Redis keys,
`saved` the last snapshot Redis wrote to disk. `loggedOut`, `lost`, `dead` and `raced`
are ghosts.

Abstractions: passwords and signatures (requests are those that pass their checks);
users are never deleted by the code, so `GetUserByID` succeeds; Redis's truncation of a
TTL to milliseconds is below the clock's resolution; `clean` is one statement and one
step, which waits for locked rows it would delete.

### SessionChain

Two variables: the tokens given out, and for each chain the one token that can be
exchanged, if there is one. A login starts a chain, a refresh replaces its tip by a token
never given out before, and chains end, several at once if the cleaner ends them. A chain
that has no tip never has one again. The mapping: a token was issued if its row was ever
inserted, deleted rows included, and the tip of a family are its active rows (`Tip`), as
committed; the rotation under way is a stuttering step until `RotateCommit`.

### WorkerShutdown

`main` is the goroutine of `Start` and `drain`, `waiter` the goroutine that calls
`wg.Wait`, `cpc` the consumers. The counter of the WaitGroup is the set `counted`, since
each consumer adds one and takes one off. `inbox` is what the broker has delivered to a
consumer's Go channel, `held` what the consumer has received; both go back to `queue`
when the process ends or the consumer closes its channel. The steps are the points where
the goroutines can interleave: the receive, `wg.Add`, the handler with `wg.Done`, the
ack; `wg.Wait` falling asleep, being woken by the last `Done`, and returning. A `Wait`
that returns and finds the counter positive again panics, as in Go's `sync` package.

Abstractions: a handler and all its attempts are one run, whose database steps are in
`JobPipeline`; it takes arbitrarily long. `ChannelsCut` closes the channels of any
consumers at any moment, during the drain too: the broker takes their messages back, a
consumer in a handler goes on with a message that is no longer its own (`cut`), cannot ack
it, and leaves its loop.

### Startup

`stage` is where a process is in its `main`; the server connects to the database before the
broker, the worker after it (`After`). One tick is `connectRetryDelay`: `Tick` shortens the
boot of the broker and wakes those who sleep in the dial loop, which also sleeps after its
last attempt. `InitializeQueues` declares one entry of `AppQueues` per step, so that the
two processes interleave and each can die between two declarations. `BrokerRestarts` keeps
what is durable and closes every connection; `Restart` starts a process anew, and the
broker keeps what its earlier life declared. `unlucky` (ghost) marks those who met a
second outage while dialling.

Abstractions: `redis.NewRedis` opens no connection and cannot fail, so it is no step; the
wiring of handlers in `bootstrap.New` keeps no state; the arguments of a declaration are
the same in both processes, so a declaration never conflicts with an earlier one.

### ServerLink

`ppc` and `late` are the callers of `Publish` and `PublishDelayed` and the contexts that
are done, `unconfirmed` what the broker has still to confirm, `wire` what it has
sent and the reader has not read, `confirms` the channel of `NotifyPublish`. `ReaderReads`
takes the first frame: a confirm waits for room in that channel, and whatever is behind it
on the wire waits too. The reconciler has no deadline (`context.Background()`), requests
have five seconds (`ContextDone`), probes have none. `Signal`, `ShutdownDone` and
`ShutdownTimeout` are the end of `main`. `abandoned` is a ghost.

Writing is a step of its own, since it can block: `Lock` takes the mutex, `PublishSends` is
`PublishWithContext`, which looks at no context and waits while `socket` holds
`SocketSize` frames the broker has not read. The probes' `channel.open` and
`channel.close` (`ProbeWrites`) go through the same socket. `BrokerReads` empties it,
unless there is an `alarm`, under which RabbitMQ reads nothing from a connection that
publishes; what it has read it confirms when it likes, or never (`BrokerConfirms`).

A lost connection goes through two more states before everybody gets an error. While it is
`lost`, writes fail. Then the library notices and shuts down (`closing`): the reader still
has to hand over the confirm it holds (`ShutdownStarts`), and until it has done so, the
library keeps the locks a publish needs and does not close the confirm channel
(`ShutdownEnds`). If nobody reads that channel, for instance because the next publisher
already waits for those locks with `RabbitMQ.mu` in its hands, that is for ever.

Abstractions: which message is published, and whether the broker acks or nacks it, is in
`JobPipeline`; heartbeats are not modelled, so that a stalled reader may also lose its
connection, as at any other moment (`ConnectionLost`); there is no variable for an open
event stream, which keeps `srv.Shutdown` waiting like any other request, because nothing
is assumed about `ShutdownDone` ever being taken; the reader and the order of confirms
are the library's (`amqp091-go`), modelled from how it is used.

### StatusStream

`feed` is the Go channel of the Redis subscription, `spc`, `msg`, `todo` the subscriber
inside `SendToClient`, which it leaves when `todo` is empty; `clients`, `queued` and
`closed` are the manager's map and the channels; `hpc`, `user`, `writing` the requests in
`SSEStream`. `AddClient` and `RemoveClient` are one step each, because the write lock
covers all they do; the sends under the read lock are a step each. `seen` is what a
client got, `due` (ghost) what was relayed for its user while it was open.

Abstractions: the token check of the handler only rejects; events that Redis loses (no
subscription, a reconnect, a full go-redis buffer) never enter `feed`; the context of the
subscriber is `context.Background()` and never done.

### TokenBucket

`tokens` is the length of the channel of tokens, `next` and `pending` are the ticker,
`filling` the refill goroutine, which may lag behind and then finds one tick however many
it has missed. `Elapse` advances the clock by a millisecond. `Observe` lets an observer
start to count at any moment, so that invariants over `since`, `ticks` and `used` speak of
every interval. A rate above `Second` makes the period zero, and the process panics in
`time.NewTicker`. Negative values of the two settings, with which the process does not
start either, are left out.

## 3. Properties

Job pipeline:

* `PendingJobRecoverable`: a pending job with `queued_at`, which the reconciler never
  looks at again, has a message in the broker or with a connected consumer. Only four
  mishaps lose it: a confirm read by the wrong publisher, retries used up, a negative
  `maxRetries`, and a stale whole-row update.
* `RunningJobTended`: a job that says running is being run or will be run again.
* `OutcomeAnnounced`: a recorded outcome was published to Redis, is about to be, or the
  job will be run again.
* `RetryBudget`: no attempt beyond the bounded `maxRetries` of the message.
* `DeletedFrozen`: no step writes a deleted row. `QueuedNeverCleared`: no step takes
  `queued_at` back (GORM's `Updates` with a struct skips nil pointers).
* `ImplementsLifecycle` (refinement): batches, duplicates, redeliveries, retries, crashes
  and cut channels show the owner of a job nothing but a life that `JobLifecycle` allows.
* `ImplementsDelivery` (refinement): no copy of a message is in two places, settled by a
  consumer that has lost it or has attempts left, or delivered after it was settled.
* `JobSettles` (liveness): in the end every job whose `maxRetries` is not negative is
  completed or failed for good, or deleted, whichever one fault befell it. A negative one is
  accepted (`service.go:55` and `:89` test the upper limit only), runs zero times
  (`consume.go:52`) and is acked: that job stays pending for ever without any fault, and the
  run has such jobs beside the others.

Sessions:

* `OneActivePerFamily`, `RotatedOnce`: rotation is linear under concurrent refreshes,
  replays and the cleaner.
* `RevokedFamilyStaysDead`: after `RevokeFamily` the family never has a usable token
  again, unless a rotation committed while the UPDATE was under way.
* `ImplementsChain` (refinement): under all these races a family is a chain of
  `SessionChain`: a rotation takes the token that is the tip at its commit, its successor is
  new, and a family that has lost its tip, by logout, reuse or the cleaner, stays without.
* `LoggedOutDenied`: a logged-out access token is denied until it expires, unless Redis
  restarted from an older snapshot.

Worker shutdown:

* `CleanDrain`: when `drain` reports a clean end, the jobs whose handler was running when
  the signal came have run to their end.
* `LeftEmptyHanded`: a consumer that has left its loop keeps no message from others.
* `Accounted`: at any moment, and however the process ends, each message is with the
  broker, with a consumer whose channel is open, or settled after its handler has
  returned, and in one of these only.
* `ImplementsDelivery` (refinement): prefetch, cut channels, the drain, a panic and the exit
  do to a message only what `Delivery` allows; a consumer whose channel was cut in the
  middle of a handler settles nothing when it gets to the ack.
* `StopsAfterSignal` (liveness): the process ends although a handler hangs.
* `QueueServed` (liveness): before the signal no message waits for ever, although nothing
  replaces a consumer whose channel was closed, unless every consumer has left or hangs in
  a handler. The exception is the point: with none left the process lives on and idles.

Start-up:

* `PatientEnough`: the dial loop outlasts the boot of the broker; a process gives up only
  after a second outage.
* `RouteDeclared`: whoever is past `InitializeQueues` has queue, exchange and binding in
  the broker, whichever process declared them and whatever died or restarted meanwhile.
* `RestartCures` (liveness): neither process dials again after it has lost its connection,
  but one that is started after the last fault ends up serving with an open connection.

Server and its connection:

* `OwnConfirm`: the confirm that somebody who waits can read is its own, until somebody has
  given up waiting.
* `DriftExact`: each wait given up leaves one confirm too many for as long as the
  connection lives; no call catches up.
* `RequestsReturn` (liveness): a request that publishes returns, its deadline ending its
  wait for the confirm. The deadline ends nothing else, hence the exceptions: the reconciler,
  whose context never ends, waits for a confirm with the mutex for ever, or somebody is stuck
  in `PublishWithContext` with it (`WriteStuck`), because the broker does not read or because
  the library's shutdown waits for a reader nobody relieves.
* `ProbeReturns` (liveness): a health probe is answered, unless the reader is stuck for
  good on confirms nobody waits for, or the broker is under an alarm for ever or again and
  again, since the probe is made on the connection that publishes.
* `ServerStops` (liveness): after a signal the server exits, although a stream stays open,
  a probe hangs or the broker never confirms.

Status stream:

* `NoSendOnClosed`: `SendToClient` never meets a closed channel.
* `BurstDelivered`: a connected stream gets the events of its user and no others, in
  order and once, as long as they fit its buffer.
* `SeenInOrder`: when they do not fit, what a client is shown is still of its own user,
  from the time its stream was open, in the order of publication, and none of it twice.
* `SlowClientsIsolated`, `GoneForgotten` (liveness): a client that does not read holds up
  nobody; a client that has gone is closed and forgotten.

Rate limiter:

* `BurstBounded`: in every interval at most the capacity, one token per period, and two
  for the ticks at the edges.

## 4. Runs that pass

| Run | Instance | What it shows |
|---|---|---|
| `publish` | 2 jobs, `maxRetries` 1 or -1, 1 request goroutine, reconciler, 1 consumer, 1 fault of nack, timeout, database error, Redis error, crash of either process | the dual write: batch, sweep, confirms left behind; the refinement of `JobLifecycle`; `JobSettles` under `FairSpec` |
| `worker` | 1 job, 2 consumers, `maxRetries` in {-1, 0, 3} (default 1, limit 2), a job that fails (`exportCSV`), 3 faults of database error, Redis error, worker crash, closed channels | retries, redeliveries, two consumers on one job; the refinement of `Delivery` |
| `update` | 1 job, 2 request goroutines, updates, deletes, 1 fault of nack, timeout, lost connection, worker crash | stale updates against publisher, worker and each other; the refinement of `JobLifecycle` |
| `sessions` | 3 refresh tokens, 1 access token that is followed, 2 requests, refresh TTL 1, access TTL 2, clock to 3, Redis restarts | rotation, replay, logout at every distance from expiry, cleaner; the refinement of `SessionChain` |
| `shutdown` | 3 consumers, 2 messages, handlers that may hang, channels that close | every order of signal, receive, Add, Done, Wait, cut, timeout and exit; the refinement of `Delivery`; `StopsAfterSignal` and `QueueServed` under `FairSpec` |
| `stream` | 2 users, 2 streams, buffers of 2, 3 events | the fan-out against streams that come, stall and go, with bursts that fit the buffer and bursts that do not; the two liveness properties under `FairSpec` |
| `burst` | a second of 12 ms; rates missing, 5, 12 and 13; capacities missing, 1 and 2; clock to 13 | bursts counted from every moment |
| `startup` | both processes, 3 dial attempts, boots of up to 2 ticks, 2 faults of missing key, database, refused dial, broker restart, process restart | every interleaving of the two starts; `RestartCures` under `FairSpec` |
| `link` | 2 requests, the reconciler, 1 probe, a socket of 1 frame, alarms, backlog of 3 | drift of the confirms, the stuck reader, the stuck writer, the two shutdowns; three liveness properties under `FairSpec` |

The two refinements of the pipeline are checked where their steps are: `JobLifecycle` where
jobs are created, edited and deleted (`publish`, `update`), `Delivery` where messages are
redelivered (`worker`). Both are proved for every instance.

Why the bounds are enough to be interesting. A confirm read by the wrong publisher
takes two publishers (a request and the reconciler) and one fault (a timeout), and a job
lost by it a second one (a nack), which is the run `confirm` below; that nothing else
follows from two or more faults is proved (section 6). A batch of two is the least in
which a failure in the middle leaves a rest. Two consumers are the least for a redelivery that overlaps its original, and three faults
allow a cut, a crash and a failing write in one behaviour. The grace is one tick and
jobs are created at delay 0 or -1, so sweeps happen before, during and after the
publish of a request. With a default of 1 and a limit of 2 the requested `maxRetries`
cover the zero value, the refused and the negative one. Three refresh tokens are a
family of three generations or two families; two requests are the least that race, and
with a TTL of 1 and a clock to 3 tokens expire and are deleted under a rotation, while an
access token of TTL 2 is logged out at its issue, half way and at its last moment. The
clocks stop at `Horizon`, and nothing is reported as a deadlock because the reconciler's
and the cleaner's tickers never stop. Of three consumers one can be leaving, one working and one
between receive and `wg.Add`, and one is left when the others are cut. The code has five,
and the proofs cover any number. Three attempts against a boot of two ticks is the
tightest loop that still has to succeed, as 30 attempts against 29 delays; two faults kill
a process half way through its declarations and restart the broker under the other. A
backlog of three is two confirms nobody waits for, the least that stalls the reader, and a
publisher behind them; the second request is the least that can queue on the mutex behind
one that times out. A socket of one frame is the least in which a frame that is not read
blocks the next writer, publisher or probe.
Three events overflow a buffer of two while a stream of another user is served. Of the
rates, 12 divides the second, 5 does not, 13 exceeds it. Deadlock is not checked for the
worker and the server, whose processes end, for the start-up, which is over when both
serve, for the stream, whose events run out, and for the bucket, whose clock stops.

### Fairness

`FairSpec` assumes: time passes, goroutines that can run do, the reconciler's ticker
fires, the broker releases what is due and delivers to an idle consumer. Publishers get
strong fairness, because Go's mutex does not starve a waiter (after one millisecond it
is handed over) and the reconciler and requests alternate on it. Nothing is assumed of
clients or of faults. For the shutdown, the goroutines of `Start` and `wg.Wait` go on and
the timer fires, the broker delivers and each consumer goes on; nothing is assumed of the
end of a handler (`Done`), since a database call can hang. For the start-up, a process that
was started goes on and time passes. For the server, goroutines go on, the mutex starves
nobody (strong fairness of each publisher), the deadlines of requests and of `Shutdown`
come, the reader reads what it can, a socket with room starves no writer, the library
notices a lost connection, and the broker reads and answers the probes' frames while it is
not under an alarm. Nothing is assumed of the end of an alarm, of confirms, or of
`srv.Shutdown` returning before its deadline; and a probe on a connection that is being
shut down gets its error once the shutdown is over, if not before. For the stream, the subscriber goes on; a write to a client that has gone ends; a select that
finds the context done again and again takes that branch at some time, since Go chooses
at random; and a writer waiting for a `sync.RWMutex` is let in before new readers (the
two strong fairness conditions). A connected client may stall for ever.

What `JobSettles` does not cover. The `publish` run has one fault per behaviour: two can
leave a job pending for good, as the run `confirm` shows, and retries can be used up. Its
broker reads and confirms (or refuses) every publish. It excludes the faults after which
the code really is stuck: the server's lost connection, since it dials RabbitMQ only at
start-up, and closed consumer channels, since a consumer that has left is not replaced.
Edits are in the `update` run, without liveness. Jobs with a negative `maxRetries` are in
the run, and excepted by the property, since they never end.

## 5. Runs that fail: code and documentation disagree

| Run | Property | What happens |
|---|---|---|
| `confirm` | `ConfirmsCorrelated` | after a timeout the next publisher takes the confirm left behind for its own; its job, refused by the broker, is recorded as queued |
| `family` | `RevokesEveryActiveRow` | a rotation that commits while `RevokeFamily` waits for its lock leaves an active row |
| `clean` | `AllJobsCompleted` | a consumer has received a message and not called `wg.Add` yet; `wg.Wait` returns, and "All jobs completed cleanly" is logged while the handler runs |

The quoted lines are in `PROJECT.json` under "findings". All three are action properties.

The models show more of this kind, which has no run of its own:

* An update that moves `scheduled_at` to later publishes nothing (`UpdateWrite`); the old
  message runs the job at the old time, although `README.md:35` says that the broker holds
  the message until `scheduled_at`.
* A sweep that reads the table between INSERT and `MarkQueued` publishes a job the broker
  has already (`RepublishStuckJobs`), although `cron/jobReconciler.go:13` speaks of jobs
  "whose queue publish never succeeded". The job is run twice.
* The change to running is never published to Redis (`PublishStatusEvent` follows
  `MarkFinished` only), although `README.md:45` says "on status change".
* A job created with a negative `maxRetries` is accepted, published, acked without a run and
  never looked at again (`Deliver`, mishap "skipped"): it stays pending for ever.
* A request that publishes can outlive its five seconds: `PublishWithContext` ignores its
  context, so that while the broker reads nothing under an alarm, the write blocks with the
  mutex in its hands and everybody behind it waits too (`WriteStuck`). Health probes, made
  on the same connection, hang with them, although the alarm is about publishers only.
* A connection lost while the reader is stuck on a confirm nobody waits for can leave the
  library's shutdown, and the publisher that holds the mutex, waiting for each other
  (`link = "closing"`); only a restart ends that.
* After `ConnectionLost` every publish fails, the reconciler's too, until the process is
  restarted, which `RestartCures` shows to be enough.
* Two confirms left behind stall the library's reader (`Stalled`): health probes hang until
  another publish takes one of them, for its own. If the sweep is the one that waits for a
  confirm that never comes, it keeps the mutex, and requests that queue on it do not return
  at their deadline.
* A consumer that calls `wg.Add` after the last `wg.Done` woke the waiter and before
  `wg.Wait` has returned makes it panic (`WaitReturns`), in the middle of a drain.
* The event for a stream whose buffer is full is dropped (`Offer`), although
  `sse/subscriber.go:20` says "relays every message to all connected SSE clients";
  `BurstDelivered` is what holds.
* `Period` is an integer division: a rate of 600 gives one millisecond, that is 1000
  tokens per second, although `.env.example:25` says "tokens allowed per second", and
  above 1000 the process does not start; `BurstBounded` is what holds.

## 6. Proofs

For every value of the constants that satisfies `ConstantsAssumption` (the reconciler is
not a request, the requested values are integers, the column default lies between 1 and
the limit, bounds are naturals):

* `TypeCorrect`, `RetriesBounded`, `PendingJobsRecoverable`, `RunningJobsTended`,
  `OutcomesAnnounced`, `DeletedRowsFrozen`, `QueuedAtKept`.

And for those that satisfy `AuthAssumption` (TTLs are positive, `None` is no token):

* `SessionTypes`, `FamiliesLinear`, `TokensRotatedOnce`, `FamiliesStayDead`,
  `LogoutsDenied`, and the refinement `SessionsImplementChain`.

For any sets of consumers and messages (`ShutdownAssumption`), of users and streams and
any buffer size (`StreamAssumption`), and any rates and capacities (`BucketAssumption`):

* `DrainsCleanly`, `NobodyLeavesWithMessages`, `MessagesAccounted`, and the refinement
  `WorkerImplementsDelivery`;
* `NeverSendsOnClosed`, `BurstsDelivered`, `ClientsSeeInOrder`;
* `BurstsBounded`.

For any number of dial attempts that is larger than the longest boot
(`StartupAssumption`), any number of faults, and any sets of requests and probes
(`LinkAssumption`):

* `StartupTypes`, `DialIsPatient`, `RouteIsDeclared`;
* `LinkTypes`, `ConfirmsAreOwn`, `DriftIsExact`.

And, under `ConstantsAssumption`, the two refinements of the pipeline:
`PipelineImplementsLifecycle` and `PipelineImplementsDelivery`. Every safety property of the passing runs is thus proved.

The argument for the pipeline. None of the three safety properties is inductive. `IInv`
adds to them

* `Shape`: types, and that a goroutine at a point of its code has the data it uses there;
* `RowsKnown`: a row that was never inserted is blank, and the `queued_at` an update has
  read is still true when the update writes;
* `PublishedCarried`: a publisher about to write `queued_at` whose message the broker
  took leaves a job that is safe in one of the ways `PendingJobRecoverable` counts;
* `CutCovered`: a message in the hands of a consumer that lost its channel was requeued,
  and is still in the queue, with a connected consumer, announced, or excused; without it
  a crash of the worker could take an announcement with it that only a cut consumer was
  about to make.

Every action preserves what is known about one job (`Kept`, one lemma per action),
except where it changes the row; `NextRows` lists those changes, and the new status is
justified by the pc of the consumer that wrote it. Most actions only add messages or
mishaps (`Additive`), which is enough for them. `DeletedRowsFrozen` and `QueuedAtKept`
follow from `NextRows` alone.

For the sessions `AInv` consists of `TableInv` (families are named by tokens that were
issued, a parent that is still referred to is revoked, and the two linearity
properties), `RequestInv` (the row a request found was issued, the row a rotation has
locked is active, and two requests never hold the same lock), `FamilyInv` (a
`RevokeFamily` under way has the active row of its family in its snapshot, or a rotation
raced it) and `DenyInv` (the key of a logged-out token lives until the `exp` of the
token). The lock is what makes `RotateCommit` preserve them.

For the shutdown `SInv` adds to `Accounted` what a consumer at each point of its loop has
in its hands (`Hands`), and `Counting`: before the drain ends cleanly, a job that was in
flight at the signal and is not handled is held by a consumer that is counted, so that
neither `Wait` returns nor the waiter wakes before it is done.

For the stream `StreamInv` adds to `BurstDelivered` that the manager's map holds exactly
the open and leaving streams, none of them closed (`Registered`), and that a stream has
nothing in its hands or its channel at the points where it cannot (`Quiet`). A full
channel means that more than `BufSize` events were due, which is what `Send` needs.

`SeenInOrder` is proved from `InOrder`, which follows an event through all the places it
can be in: the subscription (`FeedInOrder`, numbers above everything relayed so far), and
for each stream what it has seen, then what it is writing, then what its channel holds,
then the message being sent (`StreamInOrder`). Read in this order the numbers increase, and
all of them are due. A dropped event only shortens such a sequence, and `Receive` only
moves an element from one stage to the next.

For the bucket `BucketInv` adds `Conserved`, tokens, pending tick and grants never exceed
the capacity, one old tick and the ticks since `since`; and `Spaced`, the ticks are a
period apart.

For the start-up `DialInv` relates the attempts made to the boot that is left: a process
that met no second outage has dialled no more often than the boot has taken so far, so its
last attempt comes after the boot. `StepInv` says that everything before a process's next
declaration is in the broker, which the other process can only add to and a restart of the
broker keeps.

For the server's connection the invariant (`LInv`) counts. On an open connection the
confirms due, on their way or in the channel are those abandoned and those awaited; on any
other they are at most that many, none of them is still due at the broker, and once the
library has closed the channel none is on the way (`Drift`); and as long as nothing was
abandoned every confirm is for somebody who still waits (`Addressed`). The mutex (`Mutex`)
leaves only one between `Lock` and its return, so only one who waits, and the confirm it can
read is its own. What is in the socket matters to none of this.

The refinement of `JobLifecycle` is shown step by step from `RInv`, which is `Shape` and `RowsKnown` from the
proof of the pipeline and `MessagesKnown`: every message, queued or in a consumer's hands,
is about a job that was inserted, without which a run could start of nothing. Most steps of
the pipeline are stuttering steps of the lifecycle (`SameView`); the others are one step of
it each, the crashes being `DropEdits` and `BreakOff` for everybody at once.

That of `Delivery` needs in addition that copies of messages are told apart (`DInv`,
`CopiesApart`): every copy number is below `sent`, so that a publish is new; two messages
of one job with the same number are the same message; and what the delayed exchange holds
is neither in the queue nor in the hands of a connected consumer. That a message is never
in the queue and in somebody's hands, or in two hands, then follows from `Delivery`, whose
steps only move it.
What a consumer does after its channel was closed, ack included, is a stuttering step; a
crash or a cut is `GiveBack` by everybody it concerns. For `WorkerShutdown` the invariant
of the shutdown, with `Accounted`, is enough: the steps of `main` and the waiter stutter,
except where the process ends.

The refinement of `SessionChain` follows from `AInv`. By `OneActivePerFamily` a family with
an active row has that row as its tip (`TipIs`); a rotation has the tip locked, so that at
`RotateCommit` it is still there and the new row takes its place; `RevokeFamilyEnds` and
`clean` only take active rows away (`RowsLost`), which ends chains; signup and login use a
row that never existed, so that no ended family is started again.

Only model-checked: the liveness properties `JobSettles`, `StopsAfterSignal`, `QueueServed`,
`SlowClientsIsolated`, `GoneForgotten`, `RestartCures`, `RequestsReturn`, `ProbeReturns`
and `ServerStops`, since liveness under fairness is out of the prover's reach, and the
three refutations.

## 7. Not modelled

`email` is a scaffold that returns errors. `routes`, `httpx`, the Redis client and the
wiring in `bootstrap.New` keep no state that changes; what the HTTP handlers add to the
services, the five-second context, is `ContextDone` and `RequestFails`. The read-only
requests (`GetJobById`, `GetAllJobs`) change nothing. Events that Redis loses before the
subscriber has them are not in `StatusStream`; its promises start from what arrives.
A logout that revokes the access token and then fails on the database leaves the family
active and cannot be repeated with the same access token; the model has that state
(`RequestFails`), and no property is stated of it because the code promises nothing.
`README.md:70` of the repository says that logout deletes a stored `jti`; the code stores
it at logout, as a denylist, and that is what `AuthSessions` models.

## 8. Plan

Done: `JobPipeline` with its abstractions `JobLifecycle` and `Delivery`, `AuthSessions`
with its abstraction `SessionChain`, `WorkerShutdown` with closed channels as a second
implementation of `Delivery`, `Startup`, `ServerLink`, `StatusStream`, `TokenBucket`, their
runs, and the proofs of all their safety properties and refinements.

Left, in this order:

1. `StatusStream` behind the announcements of `JobPipeline`: what a connected client sees
   of its job when the job is run twice.
2. A shared abstraction of the publisher in `JobPipeline` and `ServerLink`, so that the
   bounded confirm channel of the second is shown to implement the confirms of the first.
3. The safety part of `ProbeReturns`: that a reader which is not stalled always has a
   frame to read or room for it, as an invariant that can be proved.
