-------------------------------- MODULE Delivery -------------------------------
(***************************************************************************)
(* At-least-once delivery, as the jobs queue and its consumers promise it:  *)
(* a message that was accepted is in the queue, with one worker, or settled *)
(* for good, and it is settled by a worker that has finished with it and    *)
(* still had it. A worker can lose what it has to the queue at any moment,  *)
(* and what it does after that no longer counts.                            *)
(*                                                                          *)
(* JobPipeline implements it with publishers, a delayed exchange, retries   *)
(* and crashes, WorkerShutdown with prefetched messages, a drain and the    *)
(* end of the process.                                                      *)
(***************************************************************************)
CONSTANTS
    Messages,
    Workers

VARIABLES
    accepted,  \* the messages the queue has ever taken in
    queue,     \* those it has to hand out
    hands,     \* the message a worker has, if there is one
    finished   \* the workers that have finished with their message

vars == <<accepted, queue, hands, finished>>

Init ==
    /\ queue \subseteq Messages
    /\ accepted = queue
    /\ hands = [w \in Workers |-> {}]
    /\ finished = {}

\* A message is accepted once; when it has been settled it does not come back.
Accept ==
    /\ \E m \in queue' \ queue :
        /\ m \in Messages \ accepted
        /\ accepted' = accepted \cup {m}
        /\ queue' = queue \cup {m}
    /\ UNCHANGED <<hands, finished>>

\* There may be nothing to do for a message.
Take(w) ==
    /\ hands[w] = {}
    /\ \E m \in queue :
        /\ queue' = queue \ {m}
        /\ hands' = [hands EXCEPT ![w] = {m}]
    /\ finished' \in {finished, finished \cup {w}}
    /\ UNCHANGED accepted

Finish(w) ==
    /\ hands[w] # {}
    /\ finished' = finished \cup {w}
    /\ UNCHANGED <<accepted, queue, hands>>

Settle(w) ==
    /\ w \in finished
    /\ hands' = [hands EXCEPT ![w] = {}]
    /\ finished' = finished \ {w}
    /\ UNCHANGED <<accepted, queue>>

GiveBack ==
    /\ \E W \in SUBSET Workers :
        /\ queue' = queue \cup UNION {hands[w] : w \in W}
        /\ hands' = [w \in Workers |-> IF w \in W THEN {} ELSE hands[w]]
        /\ finished' = finished \ W
    /\ UNCHANGED accepted

Next ==
    \/ Accept
    \/ \E w \in Workers : Take(w) \/ Finish(w) \/ Settle(w)
    \/ GiveBack

Spec == Init /\ [][Next]_vars
================================================================================
