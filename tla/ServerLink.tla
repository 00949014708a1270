------------------------------- MODULE ServerLink ------------------------------
(***************************************************************************)
(* The life of a server that serves, as far as it hangs on its one AMQP     *)
(* connection: the requests and the reconciler that publish through it, the *)
(* health probes that open a channel on it, the goroutine of the library    *)
(* that reads everything the broker sends, and the shutdown.                *)
(*                                                                          *)
(* Source: internal/rabbitmq/publisher.go and rabbitmqConnection.go,        *)
(* internal/health/handler.go and cmd/server/main.go. How the connection    *)
(* came about is in Startup, what a published job means in JobPipeline.     *)
(*                                                                          *)
(* The reader hands confirms over in publish order and waits while the      *)
(* channel of NotifyPublish, which holds one, is full; until then it reads  *)
(* nothing else. Everybody writes to the same socket, and the library's     *)
(* calls look at no context: a write blocks while the socket is full, which *)
(* a broker that has stopped reading it does not change. When the           *)
(* connection is lost, writes fail and the library shuts down: it holds the *)
(* locks a publish needs until the reader has handed over the confirm it    *)
(* has in its hands; then the channel is closed and callers get errors.     *)
(***************************************************************************)
EXTENDS Integers, Sequences, FiniteSets

CONSTANTS
    Handlers,    \* requests that publish
    Reconciler,  \* the sweep, whose context never ends
    Probes,      \* GET /health requests
    SocketSize,  \* how many frames are written before the broker reads one
    MaxBacklog   \* bound: publishes under way and confirms not read, together

Procs == Handlers \cup {Reconciler}

ASSUME LinkAssumption ==
    /\ Reconciler \notin Handlers
    /\ Procs \cap Probes = {}
    /\ SocketSize \in Nat \ {0}
    /\ MaxBacklog \in Nat

VARIABLES
    link,         \* the connection: open, lost, being shut down, closed
    alarm,        \* whether the broker has stopped reading it
    socket,       \* who wrote the frames the broker has not read
    srv,          \* http.Server and main: listening, in Shutdown, gone
    ppc, late,    \* Publish and PublishDelayed; contexts that are done
    unconfirmed,  \* publishes written and not yet confirmed, in order
    wire,         \* what the broker has sent and the reader has not read
    confirms,     \* the channel of NotifyPublish
    probe,        \* checkRabbitMQ
    abandoned     \* ghost: waits for a confirm that were given up on this connection

publisherVars == <<ppc, late, unconfirmed, confirms, abandoned>>
brokerVars == <<alarm, socket>>
vars == <<link, srv, brokerVars, publisherVars, probe, wire>>

\* A confirm is an ack or a nack; both end the call that reads them.
Frame == [kind : {"confirm"}, to : Procs] \cup [kind : {"reply"}, to : Probes]

TypeOK ==
    /\ link \in {"open", "lost", "closing", "closed"}
    /\ alarm \in BOOLEAN
    /\ socket \in Seq(Procs \cup Probes) /\ Len(socket) <= SocketSize
    /\ srv \in {"listening", "stopping", "exited"}
    /\ ppc \in [Procs -> {"idle", "lock", "write", "await"}]
    /\ late \subseteq Handlers
    /\ unconfirmed \in Seq(Procs)
    /\ wire \in Seq(Frame)
    /\ confirms \in Seq(Frame) /\ Len(confirms) <= 1
    /\ probe \in [Probes -> {"idle", "open", "opening", "close", "closing"}]
    /\ abandoned \in Nat

Init ==
    /\ link = "open"
    /\ alarm = FALSE
    /\ socket = <<>>
    /\ srv = "listening"
    /\ ppc = [p \in Procs |-> "idle"]
    /\ late = {}
    /\ unconfirmed = <<>>
    /\ wire = <<>>
    /\ confirms = <<>>
    /\ probe = [h \in Probes |-> "idle"]
    /\ abandoned = 0

Alive == srv # "exited"
Open == link = "open"

\* A write returns; otherwise it waits for the broker to read.
Writable == Open /\ Len(socket) < SocketSize

\* The places of the confirms among the frames.
ConfirmsIn(frames) == {i \in DOMAIN frames : frames[i].kind = "confirm"}

\* Those who hold RabbitMQ.mu, those of them who wait for a confirm, and the confirms that
\* are due, on their way or waiting to be read.
Holding == {p \in Procs : ppc[p] \in {"write", "await"}}
Awaiting == {p \in Procs : ppc[p] = "await"}
Pending == Len(unconfirmed) + Cardinality(ConfirmsIn(wire)) + Len(confirms)

--------------------------------------------------------------------------------
(* Publish and PublishDelayed, which differ in the exchange only. *)

\* Somebody calls, and waits for RabbitMQ.mu.
Call(p) ==
    /\ Alive
    /\ p \in Handlers => srv = "listening"
    /\ ppc[p] = "idle"
    /\ Pending + Cardinality({q \in Procs : ppc[q] # "idle"}) < MaxBacklog
    /\ ppc' = [ppc EXCEPT ![p] = "lock"]
    /\ UNCHANGED <<link, srv, brokerVars, late, unconfirmed, confirms, abandoned, probe,
                   wire>>

\* Mutant: no mutex.
MutexFree_NoLock == TRUE

\* RabbitMQ.mu is held from before PublishWithContext to the return.
MutexFree == Holding = {}

Lock(p) ==
    /\ Alive
    /\ ppc[p] = "lock"
    /\ MutexFree
    /\ ppc' = [ppc EXCEPT ![p] = "write"]
    /\ UNCHANGED <<link, srv, brokerVars, late, unconfirmed, confirms, abandoned, probe,
                   wire>>

Return(p) ==
    /\ ppc' = [ppc EXCEPT ![p] = "idle"]
    /\ late' = late \ {p}

\* PublishWithContext writes the message, whatever the context says by now.
PublishSends(p) ==
    /\ Alive
    /\ ppc[p] = "write"
    /\ Writable
    /\ ppc' = [ppc EXCEPT ![p] = "await"]
    /\ socket' = Append(socket, p)
    /\ unconfirmed' = Append(unconfirmed, p)
    /\ UNCHANGED <<link, srv, alarm, late, confirms, abandoned, probe, wire>>

\* PublishWithContext returns an error: the socket is broken, or the channel is closed. In
\* between it waits for the channel's lock, which the library's shutdown holds.
PublishFails(p) ==
    /\ Alive
    /\ ppc[p] = "write"
    /\ link \in {"lost", "closed"}
    /\ Return(p)
    /\ UNCHANGED <<link, srv, brokerVars, unconfirmed, confirms, abandoned, probe,
                   wire>>

\* Mutant: the call returns without waiting for its confirm.
AwaitConfirm_FireAndForget(p) ==
    /\ Alive
    /\ ppc[p] = "await"
    /\ Return(p)
    /\ UNCHANGED <<link, srv, brokerVars, unconfirmed, confirms, abandoned, probe,
                   wire>>

\* The next confirm of the channel, whoever's it is.
AwaitConfirm(p) ==
    /\ Alive
    /\ ppc[p] = "await"
    /\ confirms # <<>>
    /\ confirms' = Tail(confirms)
    /\ Return(p)
    /\ UNCHANGED <<link, srv, brokerVars, unconfirmed, abandoned, probe, wire>>

\* Mutant: Publish waits for its confirm without looking at the context.
ConfirmAbandoned_NoDeadline(p) ==
    /\ Alive
    /\ ppc[p] = "await"
    /\ link = "closed" /\ confirms = <<>>
    /\ Return(p)
    /\ UNCHANGED <<link, srv, brokerVars, unconfirmed, confirms, abandoned, probe,
                   wire>>

\* The context is done, or the confirm channel is closed.
ConfirmAbandoned(p) ==
    /\ Alive
    /\ ppc[p] = "await"
    /\ \/ /\ p \in late
          /\ abandoned' = abandoned + 1
       \/ /\ link = "closed" /\ confirms = <<>>
          /\ UNCHANGED abandoned
    /\ Return(p)
    /\ UNCHANGED <<link, srv, brokerVars, unconfirmed, confirms, probe, wire>>

\* The five seconds of a request are over, or its client is gone.
ContextDone(h) ==
    /\ Alive
    /\ ppc[h] # "idle"
    /\ h \notin late
    /\ late' = late \cup {h}
    /\ UNCHANGED <<link, srv, brokerVars, ppc, unconfirmed, confirms, abandoned, probe,
                   wire>>

--------------------------------------------------------------------------------
(* The broker, and the reader. *)

\* Under a memory or disk alarm the broker reads nothing from a connection that publishes.
Alarm ==
    /\ Alive /\ Open
    /\ alarm' = ~alarm
    /\ UNCHANGED <<link, srv, socket, publisherVars, probe, wire>>

\* A message is to be confirmed, a probe's channel.open or channel.close is answered.
BrokerReads ==
    /\ Alive /\ Open
    /\ ~alarm
    /\ socket # <<>>
    /\ socket' = Tail(socket)
    /\ wire' = IF Head(socket) \in Probes
                 THEN Append(wire, [kind |-> "reply", to |-> Head(socket)]) ELSE wire
    /\ UNCHANGED <<link, srv, alarm, publisherVars, probe>>

\* What it has read it may confirm at any time, or never.
BrokerConfirms ==
    /\ Alive /\ Open
    /\ Cardinality({i \in DOMAIN socket : socket[i] \in Procs}) < Len(unconfirmed)
    /\ unconfirmed' = Tail(unconfirmed)
    /\ wire' = Append(wire, [kind |-> "confirm", to |-> Head(unconfirmed)])
    /\ UNCHANGED <<link, srv, brokerVars, ppc, late, confirms, abandoned, probe>>

\* Mutant: the channel takes any number of confirms.
Room_Unbounded == Len(confirms) >= 0

\* Mutant: the channel is not buffered.
Room_Unbuffered == confirms = <<>> /\ Awaiting # {}

\* The channel of NotifyPublish is made with room for one confirm.
Room == confirms = <<>>

\* A confirm goes to the channel once there is room, a reply to the probe it belongs to:
\* to the Channel call, after which the probe closes the channel again, or to that Close.
ReaderReads ==
    /\ Alive
    /\ wire # <<>>
    /\ LET f == Head(wire) IN
       \/ /\ f.kind = "confirm"
          /\ Room
          /\ confirms' = Append(confirms, f)
          /\ UNCHANGED probe
       \/ /\ f.kind = "reply"
          /\ probe' = [probe EXCEPT ![f.to] = IF @ = "opening" THEN "close" ELSE "idle"]
          /\ UNCHANGED confirms
    /\ wire' = Tail(wire)
    /\ UNCHANGED <<link, srv, brokerVars, ppc, late, unconfirmed, abandoned>>

\* The reader is stuck: one confirm fills the channel, another one is in its hands.
Stalled == wire # <<>> /\ Head(wire).kind = "confirm" /\ confirms # <<>>

\* The connection is lost for good. Some of what was sent still arrives.
ConnectionLost ==
    /\ Alive /\ Open
    /\ link' = "lost"
    /\ alarm' = FALSE
    /\ socket' = <<>>
    /\ unconfirmed' = <<>>
    /\ \E k \in 0..Len(wire) : wire' = SubSeq(wire, 1, k)
    /\ UNCHANGED <<srv, ppc, late, confirms, probe, abandoned>>

\* The library has noticed, by a failed read, write or heartbeat. From now on nothing more
\* is handed over but the confirm the reader has in its hands.
ShutdownStarts ==
    /\ Alive
    /\ link = "lost"
    /\ link' = "closing"
    /\ wire' = IF Stalled THEN <<Head(wire)>> ELSE <<>>
    /\ UNCHANGED <<srv, brokerVars, publisherVars, probe>>

\* It cannot close the confirm channel before the reader is rid of that confirm.
ShutdownEnds ==
    /\ Alive
    /\ link = "closing"
    /\ wire = <<>>
    /\ link' = "closed"
    /\ UNCHANGED <<srv, brokerVars, publisherVars, probe, wire>>

--------------------------------------------------------------------------------
(* The health check and the shutdown. *)

\* Health: PostgreSQL and Redis are pinged under a timeout and always answer something.
\* checkRabbitMQ answers at once when the connection is known to be closed, and otherwise
\* opens a channel and closes it again, under no timeout.
Health(h) ==
    /\ Alive
    /\ srv = "listening"
    /\ probe[h] = "idle"
    /\ link \in {"open", "lost"}
    /\ probe' = [probe EXCEPT ![h] = "open"]
    /\ UNCHANGED <<link, srv, brokerVars, publisherVars, wire>>

\* channel.open and channel.close go over the socket of the publishers.
ProbeWrites(h) ==
    /\ Alive
    /\ probe[h] \in {"open", "close"}
    /\ Writable
    /\ socket' = Append(socket, h)
    /\ probe' = [probe EXCEPT ![h] = IF @ = "open" THEN "opening" ELSE "closing"]
    /\ UNCHANGED <<link, srv, alarm, publisherVars, wire>>

\* Channel or Close returns an error: its write fails, or the library has shut its channel
\* down, the confirm channel perhaps not yet.
ProbeFails(h) ==
    /\ Alive
    /\ probe[h] # "idle"
    /\ \/ link = "lost" /\ probe[h] \in {"open", "close"}
       \/ link \in {"closing", "closed"}
    /\ probe' = [probe EXCEPT ![h] = "idle"]
    /\ UNCHANGED <<link, srv, brokerVars, publisherVars, wire>>

Signal ==
    /\ Alive
    /\ srv = "listening"
    /\ srv' = "stopping"
    /\ UNCHANGED <<link, brokerVars, publisherVars, probe, wire>>

RequestsDone ==
    /\ \A h \in Handlers : ppc[h] = "idle"
    /\ \A h \in Probes : probe[h] = "idle"

\* The end of main takes the goroutines, the connection and what is on it along.
ProcessEnds ==
    /\ srv' = "exited"
    /\ link' = "closed"
    /\ alarm' = FALSE
    /\ socket' = <<>>
    /\ ppc' = [p \in Procs |-> "idle"]
    /\ late' = {}
    /\ unconfirmed' = <<>>
    /\ wire' = <<>>
    /\ confirms' = <<>>
    /\ probe' = [h \in Probes |-> "idle"]
    /\ UNCHANGED abandoned

\* srv.Shutdown returns once every request has returned, which it never does while an event
\* stream is open. Then app.Stop ends the refill goroutine, which is Stop of TokenBucket,
\* and main returns.
ShutdownDone ==
    /\ srv = "stopping"
    /\ RequestsDone
    /\ ProcessEnds

\* Mutant: Shutdown gets a context without a deadline.
ShutdownTimeout_NoDeadline ==
    /\ srv = "stopping"
    /\ RequestsDone
    /\ ProcessEnds

\* Its five seconds are over: main returns, whatever the requests are doing.
ShutdownTimeout ==
    /\ srv = "stopping"
    /\ ProcessEnds

\* ListenAndServe returns an error: log.Fatalf.
ListenFails ==
    /\ srv = "listening"
    /\ ProcessEnds

--------------------------------------------------------------------------------

Publishing(p) ==
    Lock(p) \/ PublishSends(p) \/ PublishFails(p) \/ AwaitConfirm(p) \/ ConfirmAbandoned(p)

Next ==
    \/ \E p \in Procs : Call(p) \/ Publishing(p)
    \/ \E h \in Handlers : ContextDone(h)
    \/ Alarm
    \/ BrokerReads
    \/ BrokerConfirms
    \/ ReaderReads
    \/ ConnectionLost
    \/ ShutdownStarts
    \/ ShutdownEnds
    \/ \E h \in Probes : Health(h) \/ ProbeWrites(h) \/ ProbeFails(h)
    \/ Signal
    \/ ShutdownDone
    \/ ShutdownTimeout
    \/ ListenFails

Spec == Init /\ [][Next]_vars

\* Goroutines that can run do run, neither the mutex nor a socket with room starves
\* anybody, deadlines come, a broker that is not under an alarm reads. Nothing is assumed
\* of the end of an alarm, of confirms, or of ShutdownDone. While the library shuts down,
\* whether a probe gets its error before the confirm channel is closed is a matter of luck.
Fairness ==
    /\ \A p \in Procs : SF_vars(Publishing(p))
    /\ \A h \in Handlers : WF_vars(ContextDone(h))
    /\ WF_vars(BrokerReads)
    /\ WF_vars(ReaderReads)
    /\ WF_vars(ShutdownStarts \/ ShutdownEnds)
    /\ \A h \in Probes : /\ SF_vars(ProbeWrites(h))
                         /\ WF_vars(link # "closing" /\ ProbeFails(h))
    /\ WF_vars(ShutdownTimeout)

FairSpec == Spec /\ Fairness

--------------------------------------------------------------------------------
(* Properties. *)

\* Correlating a confirm with a publish by taking the next one works, over all
\* interleavings of publishers, as long as nobody has given up waiting on this connection:
\* the confirm that somebody who waits can read is its own.
OwnConfirm ==
    \A p \in Awaiting : confirms # <<>> => Head(confirms).to = p \/ abandoned > 0

\* Every wait that was given up leaves one confirm too many, for as long as the connection
\* lives: the publishers after it are that many confirms behind, and no call catches up.
DriftExact ==
    Alive /\ Open => Pending = abandoned + Cardinality(Awaiting)

\* Somebody holds the mutex inside PublishWithContext and cannot get on: the broker does not
\* read what is in the socket, or the library's shutdown keeps the channel's lock.
WriteStuck ==
    /\ Holding # Awaiting
    /\ \/ Open /\ Len(socket) = SocketSize
       \/ link = "closing"

\* A request that publishes always returns, though the broker stops confirming, the
\* connection is lost or other requests hang, since its own deadline ends its wait for the
\* confirm. That deadline ends nothing else: neither a write that is stuck for good, its own or that of
\* the holder of the mutex, nor the wait for a confirm of the reconciler, which has none.
RequestsReturn ==
    \A h \in Handlers :
        \/ []<>(ppc[h] = "idle" \/ ~Alive)
        \/ <>[](ppc[Reconciler] = "await")
        \/ <>[]WriteStuck

\* A health probe is answered, though checkRabbitMQ waits under no timeout and the broker
\* restarts meanwhile; unless the reader is stuck for good on confirms nobody waits for, or
\* the broker stops reading the connection, for ever or again and again: the probe shares
\* it with the publishers an alarm is meant to stop.
ProbeReturns ==
    \A h \in Probes :
        \/ []<>(probe[h] = "idle" \/ ~Alive)
        \/ <>[]Stalled
        \/ []<>alarm

\* After a signal the server exits, though an event stream stays open, a probe hangs or the
\* broker never confirms: only Shutdown's own deadline sees to that.
ServerStops == srv = "stopping" ~> srv = "exited"
================================================================================
