---------------------------- MODULE WorkerShutdown -----------------------------
(***************************************************************************)
(* One life of the worker process: it starts its consumers, runs jobs, and  *)
(* on a signal cancels their context and drains: it waits on a WaitGroup    *)
(* for the jobs in flight, for thirty seconds at most, and exits.           *)
(*                                                                          *)
(* Source: internal/worker/worker.go and the goroutine of                   *)
(* internal/rabbitmq/consume.go. What the handler of a job does is in       *)
(* JobPipeline; here it runs for an arbitrary time, for ever if a call of   *)
(* the database hangs, and all its attempts together are one run.           *)
(*                                                                          *)
(* Every consumer adds one to the WaitGroup and takes one off, so that its  *)
(* counter is the number of elements of the set counted.                    *)
(*                                                                          *)
(* The channel of a consumer may be closed under it, by the broker or with  *)
(* the connection. The broker then takes its message back; the consumer     *)
(* goes on with it, cannot settle it, and leaves its loop for good.         *)
(***************************************************************************)
EXTENDS FiniteSets

CONSTANTS
    Consumers,  \* the numConsumers goroutines
    Messages,   \* the messages in the queue
    None

ASSUME ShutdownAssumption == None \notin Messages

VARIABLES
    main,      \* the goroutine of Start and drain
    ctxDone,   \* cancel() was called
    waiter,    \* the goroutine that calls wg.Wait
    counted,   \* the WaitGroup: the consumers between Add and Done
    cpc,       \* the consumers
    inbox,     \* what the broker has delivered to the channel of a consumer
    held,      \* what a consumer has taken out of it
    cut,       \* the consumers whose channel was closed under them
    queue,     \* the broker: messages to deliver
    settled,   \* the broker: messages acked or nacked
    handled,   \* ghost: messages whose handler has returned
    inflight,  \* ghost: consumers whose handler has been running since before cancel()
    ending     \* how the process came to its end

process == <<main, ctxDone, waiter>>
broker == <<cut, queue, settled>>
ghosts == <<handled, inflight>>
vars == <<process, counted, cpc, inbox, held, broker, ghosts, ending>>

\* A consumer waits in its select, has received a message, runs the handler, has called
\* wg.Done and not yet acked, or has left its loop.
ConsumerPCs == {"off", "select", "received", "handle", "ack", "left"}

TypeOK ==
    /\ main \in {"starting", "serving", "draining", "returned", "exited"}
    /\ ctxDone \in BOOLEAN
    /\ waiter \in {"none", "call", "asleep", "woken", "closed"}
    /\ counted \subseteq Consumers
    /\ cpc \in [Consumers -> ConsumerPCs]
    /\ inbox \in [Consumers -> Messages \cup {None}]
    /\ held \in [Consumers -> Messages \cup {None}]
    /\ cut \subseteq Consumers
    /\ queue \subseteq Messages
    /\ settled \subseteq Messages
    /\ handled \subseteq Messages
    /\ inflight \subseteq Consumers
    /\ ending \in {"none", "clean", "timeout", "fatal", "panic"}

Init ==
    /\ main = "starting"
    /\ ctxDone = FALSE
    /\ waiter = "none"
    /\ counted = {}
    /\ cpc = [c \in Consumers |-> "off"]
    /\ inbox = [c \in Consumers |-> None]
    /\ held = [c \in Consumers |-> None]
    /\ cut = {}
    /\ queue = Messages
    /\ settled = {}
    /\ handled = {}
    /\ inflight = {}
    /\ ending = "none"

Alive == main # "exited"

Goto(c, where) == cpc' = [cpc EXCEPT ![c] = where]

--------------------------------------------------------------------------------
(* The end of the process: the goroutines are gone, the broker sees the connection
   close and takes back what was not settled. *)

\* What the broker counts as delivered on the channels of C and not settled.
UnsettledOf(C) == {inbox[c] : c \in C \ cut} \cup {held[c] : c \in C \ cut}

Unsettled == UnsettledOf(Consumers)

ProcessEnds ==
    /\ main' = "exited"
    /\ queue' = queue \cup (Unsettled \cap Messages)
    /\ inbox' = [c \in Consumers |-> None]
    /\ held' = [c \in Consumers |-> None]
    /\ cpc' = [c \in Consumers |-> "off"]
    /\ UNCHANGED <<ctxDone, waiter, counted, cut, settled, ghosts>>

--------------------------------------------------------------------------------
(* Start and drain. *)

\* Start: the next consumer registers, or cannot and log.Fatalf ends the process.
StartConsumer ==
    /\ main = "starting"
    /\ \E c \in Consumers :
        /\ cpc[c] = "off"
        /\ Goto(c, "select")
    /\ UNCHANGED <<process, counted, inbox, held, broker, ghosts, ending>>

ConsumeFails ==
    /\ main = "starting"
    /\ \E c \in Consumers : cpc[c] = "off"
    /\ ending' = "fatal"
    /\ ProcessEnds

Started ==
    /\ main = "starting"
    /\ \A c \in Consumers : cpc[c] # "off"
    /\ main' = "serving"
    /\ UNCHANGED <<ctxDone, waiter, counted, cpc, inbox, held, broker, ghosts, ending>>

\* The signal goroutine cancels, also while consumers are still being started.
Signal ==
    /\ Alive
    /\ ~ctxDone
    /\ ctxDone' = TRUE
    /\ inflight' = {c \in Consumers : cpc[c] = "handle"}
    /\ UNCHANGED <<main, waiter, counted, cpc, inbox, held, broker, handled, ending>>

\* drain: from here on the goroutine of wg.Wait and the timer run.
Drain ==
    /\ main = "serving"
    /\ ctxDone
    /\ main' = "draining"
    /\ waiter' = "call"
    /\ UNCHANGED <<ctxDone, counted, cpc, inbox, held, broker, ghosts, ending>>

\* wg.Wait returns at once when the counter is zero, and sleeps otherwise.
WaitCalled ==
    /\ Alive
    /\ waiter = "call"
    /\ waiter' = IF counted = {} THEN "closed" ELSE "asleep"
    /\ UNCHANGED <<main, ctxDone, counted, cpc, inbox, held, broker, ghosts, ending>>

\* The sleeper that the last Done has woken. sync.WaitGroup panics when the counter is
\* not zero any more: "WaitGroup is reused before previous Wait has returned".
WaitReturns ==
    /\ Alive
    /\ waiter = "woken"
    /\ \/ /\ counted = {}
          /\ waiter' = "closed"
          /\ UNCHANGED <<main, ctxDone, counted, cpc, inbox, held, broker, ghosts, ending>>
       \/ /\ counted # {}
          /\ ending' = "panic"
          /\ ProcessEnds

DrainedCleanly ==
    /\ main = "draining"
    /\ waiter = "closed"
    /\ ending' = "clean"
    /\ main' = "returned"
    /\ UNCHANGED <<ctxDone, waiter, counted, cpc, inbox, held, broker, ghosts>>

\* Mutant: drain only waits for done.
DrainTimeout_Never ==
    /\ main = "draining"
    /\ waiter = "closed"
    /\ ending' = "timeout"
    /\ main' = "returned"
    /\ UNCHANGED <<ctxDone, waiter, counted, cpc, inbox, held, broker, ghosts>>

\* The thirty seconds are over; drain's select may still find done closed as well.
DrainTimeout ==
    /\ main = "draining"
    /\ ending' = "timeout"
    /\ main' = "returned"
    /\ UNCHANGED <<ctxDone, waiter, counted, cpc, inbox, held, broker, ghosts>>

\* Start and main return.
Exit ==
    /\ main = "returned"
    /\ ProcessEnds
    /\ UNCHANGED ending

--------------------------------------------------------------------------------
(* The consumers, and the broker's side of their channels. *)

\* The broker has a consumer on an open channel.
Attached(c) == cpc[c] \notin {"off", "left"} /\ c \notin cut

\* Prefetch 1: the next message once the last one is settled.
Deliver(c) ==
    /\ Alive
    /\ Attached(c)
    /\ inbox[c] = None /\ held[c] = None
    /\ \E m \in queue :
        /\ inbox' = [inbox EXCEPT ![c] = m]
        /\ queue' = queue \ {m}
    /\ UNCHANGED <<process, counted, cpc, held, cut, settled, ghosts, ending>>

\* The select takes a message, also when the context is done: the choice is random.
Receive(c) ==
    /\ Alive
    /\ cpc[c] = "select"
    /\ inbox[c] # None
    /\ held' = [held EXCEPT ![c] = inbox[c]]
    /\ inbox' = [inbox EXCEPT ![c] = None]
    /\ Goto(c, "received")
    /\ UNCHANGED <<process, counted, broker, ghosts, ending>>

\* Mutant: the goroutine returns without closing its channel.
Leave_ChannelOpen(c) ==
    /\ Alive
    /\ cpc[c] = "select"
    /\ ctxDone \/ c \in cut
    /\ Goto(c, "left")
    /\ UNCHANGED <<process, counted, inbox, held, broker, ghosts, ending>>

\* The select finds the context done, and the deferred Close hands a message nobody has
\* received back to the broker; or it finds the channel of the deliveries closed.
Leave(c) ==
    /\ Alive
    /\ cpc[c] = "select"
    /\ ctxDone \/ c \in cut
    /\ Goto(c, "left")
    /\ queue' = queue \cup ({inbox[c]} \cap Messages)
    /\ inbox' = [inbox EXCEPT ![c] = None]
    /\ UNCHANGED <<process, counted, held, cut, settled, ghosts, ending>>

\* Mutant: wg.Add(1) is missing.
Add_Uncounted(c) ==
    /\ Alive
    /\ cpc[c] = "received"
    /\ Goto(c, "handle")
    /\ UNCHANGED <<process, counted, inbox, held, broker, ghosts, ending>>

\* wg.Add(1), and the handler starts.
Add(c) ==
    /\ Alive
    /\ cpc[c] = "received"
    /\ counted' = counted \cup {c}
    /\ Goto(c, "handle")
    /\ UNCHANGED <<process, inbox, held, broker, ghosts, ending>>

\* Mutant: the handler runs in a goroutine of its own, and nobody waits for it.
HandlerReturned_Detached(c) == handled' = handled

HandlerReturned(c) == handled' = handled \cup {held[c]}

\* The handler has returned for the last time; wg.Done, which wakes the waiter when the
\* counter becomes zero.
Done(c) ==
    /\ Alive
    /\ cpc[c] = "handle"
    /\ HandlerReturned(c)
    /\ inflight' = inflight \ {c}
    /\ counted' = counted \ {c}
    /\ waiter' = IF waiter = "asleep" /\ counted = {c} THEN "woken" ELSE waiter
    /\ Goto(c, "ack")
    /\ UNCHANGED <<main, ctxDone, inbox, held, broker, ending>>

\* Mutant: the message is neither acked nor nacked.
Settle_Forgotten(c) ==
    /\ Alive
    /\ cpc[c] = "ack"
    /\ Goto(c, "select")
    /\ UNCHANGED <<process, counted, inbox, held, broker, ghosts, ending>>

\* Ack or Nack, whose error on a closed channel is ignored.
Settle(c) ==
    /\ Alive
    /\ cpc[c] = "ack"
    /\ settled' = IF c \in cut THEN settled ELSE settled \cup {held[c]}
    /\ held' = [held EXCEPT ![c] = None]
    /\ Goto(c, "select")
    /\ UNCHANGED <<process, counted, inbox, cut, queue, ghosts, ending>>

\* Channels are closed: the broker takes back what was not settled on them, the library
\* drops what it has not handed over.
ChannelsCut ==
    /\ Alive
    /\ \E C \in SUBSET {c \in Consumers : Attached(c)} :
        /\ C # {}
        /\ cut' = cut \cup C
        /\ queue' = queue \cup (UnsettledOf(C) \cap Messages)
        /\ inbox' = [c \in Consumers |-> IF c \in C THEN None ELSE inbox[c]]
    /\ UNCHANGED <<process, counted, cpc, held, settled, ghosts, ending>>

Main == StartConsumer \/ Started \/ Drain \/ DrainedCleanly \/ DrainTimeout \/ Exit

Waiter == WaitCalled \/ WaitReturns

Consumer(c) == Deliver(c) \/ Receive(c) \/ Leave(c) \/ Add(c) \/ Settle(c)

Next ==
    \/ Main
    \/ ConsumeFails
    \/ Signal
    \/ Waiter
    \/ \E c \in Consumers : Consumer(c) \/ Done(c)
    \/ ChannelsCut

Spec == Init /\ [][Next]_vars

\* Goroutines go on, the timer fires and the broker delivers. A handler may hang, so that
\* nothing is assumed of Done.
FairSpec ==
    /\ Spec
    /\ WF_vars(Main)
    /\ WF_vars(Waiter)
    /\ \A c \in Consumers : WF_vars(Consumer(c))

--------------------------------------------------------------------------------
(* Properties. *)

\* When drain reports a clean end, every job whose handler was running when the signal
\* came has been run to its end: no interleaving of Add, Done and Wait lets drain forget one.
CleanDrain == ending = "clean" => inflight = {}

\* A consumer that has left its loop sits on no message, so that another worker can have
\* it while this one waits for its long-running jobs.
LeftEmptyHanded == \A c \in Consumers : cpc[c] = "left" => inbox[c] = None /\ held[c] = None

\* Every message is with the broker, with a consumer on an open channel, or settled after
\* its handler has returned, and in no two of these at once, whichever channels are closed
\* and whichever way and whenever the process ends.
Accounted ==
    /\ settled \subseteq handled
    /\ Messages \subseteq queue \cup Unsettled \cup settled
    /\ queue \cap (Unsettled \cup settled) = {}
    /\ Unsettled \cap settled = {}

\* After a signal the process ends, though a handler hangs.
StopsAfterSignal == ctxDone ~> ~Alive

\* Until a signal comes no message waits in the queue for ever, though nothing replaces a
\* consumer whose channel was closed: one that is left and not caught in a handler takes
\* what the others dropped. With none left, the process lives on and the messages wait.
QueueServed ==
    \A m \in Messages :
        \/ (m \in queue ~> m \notin queue \/ ctxDone \/ ~Alive)
        \/ <>[](\A c \in Consumers : cpc[c] \in {"handle", "left"})

--------------------------------------------------------------------------------
(* The jobs queue, seen from the worker. *)

\* What a consumer has of the queue: prefetched or received, and as long as its channel
\* is open.
HandOf(c) == UnsettledOf({c}) \cap Messages

Finished == {c \in Consumers \ cut : cpc[c] = "ack"}

Queue == INSTANCE Delivery
    WITH Workers <- Consumers,
         accepted <- Messages,
         hands <- [c \in Consumers |-> HandOf(c)],
         finished <- Finished

\* Prefetched and received messages, cut channels, the drain, a panic and the end of the
\* process are no more than workers that take, finish, settle and give back: every message
\* is in one place at a time, and only who has it still and is through with it settles it.
ImplementsDelivery == Queue!Spec

--------------------------------------------------------------------------------
(* What a message of the code says, and the code does not do. *)

\* worker.go:75 says "All jobs completed cleanly": no handler is running by then.
AllJobsCompleted ==
    [][ending' = "clean" /\ ending = "none" => \A c \in Consumers : cpc[c] # "handle"]_vars
================================================================================
