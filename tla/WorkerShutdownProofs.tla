------------------------- MODULE WorkerShutdownProofs --------------------------
(***************************************************************************)
(* What WorkerShutdown keeps true for any number of consumers and messages. *)
(*                                                                          *)
(* CleanDrain rests on the counter: it is the set of consumers in their     *)
(* handlers, so when it is found empty, no handler runs that ran at the     *)
(* signal; and this stays true, though the counter does not stay zero.      *)
(* Accounted rests on no message being in two hands on open channels; a     *)
(* consumer whose channel was closed may hold a copy of anything.           *)
(***************************************************************************)
EXTENDS WorkerShutdown, TLAPS

\* Where a consumer's message is, given where the consumer is; no two that are not cut
\* off have the same.
Hands ==
    /\ \A c \in Consumers : held[c] # None <=> cpc[c] \in {"received", "handle", "ack"}
    /\ \A c \in Consumers : inbox[c] # None => Attached(c)
    /\ \A c \in Consumers : inbox[c] = None \/ held[c] = None
    /\ \A c, d \in Consumers \ cut : c # d =>
          /\ inbox[c] # None => inbox[c] # inbox[d] /\ inbox[c] # held[d]
          /\ held[c] # None => held[c] # held[d]
    /\ \A c \in Consumers : cpc[c] = "ack" => held[c] \in handled

\* The WaitGroup counts the handlers, those still running since the signal among them.
Counting ==
    /\ Alive => counted = {c \in Consumers : cpc[c] = "handle"}
    /\ ~ctxDone => inflight = {} /\ waiter = "none" /\ ending # "clean"
    /\ main = "draining" => ctxDone
    /\ main = "returned" => ctxDone /\ ending \in {"clean", "timeout"}
    /\ Alive => inflight \subseteq counted
    /\ waiter \in {"woken", "closed"} => inflight = {}
    /\ CleanDrain

SInv == TypeOK /\ Hands /\ Accounted /\ Counting

LEMMA InitSInv == Init => SInv
  <1> SUFFICES ASSUME Init PROVE SInv
    OBVIOUS
  <1>1. TypeOK
    BY DEF Init, TypeOK, ConsumerPCs
  <1>2. Hands
    BY DEF Init, Hands, Attached
  <1>3. Accounted
    BY ShutdownAssumption DEF Init, Accounted, Unsettled, UnsettledOf
  <1>4. Counting
    BY DEF Init, Counting, CleanDrain
  <1> QED
    BY <1>1, <1>2, <1>3, <1>4 DEF SInv

\* The end of the process, for whatever reason: everything unsettled is in the queue.
LEMMA ProcessEndsInv ==
  ASSUME SInv, ProcessEnds, ending' \in {"clean", "timeout", "fatal", "panic"},
         ending' = "clean" => ending = "clean"
  PROVE  SInv'
  <1>1. TypeOK'
    BY DEF SInv, TypeOK, ProcessEnds, ConsumerPCs, broker, ghosts
  <1>2. Hands'
    BY DEF SInv, Hands, Attached, ProcessEnds, broker, ghosts
  <1>3. Unsettled' \subseteq {None}
    BY DEF ProcessEnds, Unsettled, UnsettledOf, broker, ghosts
  <1>4. settled \subseteq Messages /\ queue \subseteq Messages
    BY DEF SInv, TypeOK
  <1>5. Accounted'
    <2>1. settled' \subseteq handled'
      BY DEF SInv, Accounted, ProcessEnds, broker, ghosts
    <2>2. Messages \subseteq queue' \cup Unsettled' \cup settled'
      BY <1>3 DEF SInv, Accounted, ProcessEnds, broker, ghosts
    <2>3. queue' \cap settled' = {}
      BY <1>4 DEF SInv, Accounted, ProcessEnds, broker, ghosts
    <2>4. None \notin queue' /\ None \notin settled'
      BY <1>4, ShutdownAssumption DEF ProcessEnds, broker, ghosts
    <2>5. queue' \cap Unsettled' = {} /\ Unsettled' \cap settled' = {}
      BY <1>3, <2>4
    <2> QED
      BY <2>1, <2>2, <2>3, <2>5 DEF Accounted
  <1>6. Counting'
    BY DEF SInv, Counting, CleanDrain, ProcessEnds, Alive, broker, ghosts
  <1> QED
    BY <1>1, <1>2, <1>5, <1>6 DEF SInv

\* Steps that touch no message.
LEMMA MessagesKept ==
  ASSUME SInv, UNCHANGED <<inbox, held, cut, queue, settled, handled>>
  PROVE  Accounted'
  BY DEF SInv, Accounted, Unsettled, UnsettledOf

LEMMA StartConsumerInv == ASSUME SInv, StartConsumer PROVE SInv'
  <1>1. TypeOK'
    BY DEF SInv, TypeOK, StartConsumer, Goto, ConsumerPCs, process, broker, ghosts
  <1>2. Hands'
    BY DEF SInv, TypeOK, Hands, Attached, StartConsumer, Goto, process, broker, ghosts
  <1>3. Accounted'
    BY MessagesKept DEF StartConsumer, broker, ghosts
  <1>4. Counting'
    BY DEF SInv, TypeOK, Counting, CleanDrain, StartConsumer, Goto, process, Alive, broker, ghosts
  <1> QED
    BY <1>1, <1>2, <1>3, <1>4 DEF SInv

\* The other steps of the main goroutine and of the waiter move nothing but themselves.
LEMMA MainInv ==
  ASSUME SInv, Started \/ Drain \/ WaitCalled \/ DrainedCleanly \/ DrainTimeout
  PROVE  SInv'
  <1>1. TypeOK'
    BY DEF SInv, TypeOK, Started, Drain, WaitCalled, DrainedCleanly, DrainTimeout, broker, ghosts
  <1>2. UNCHANGED <<counted, cpc, inbox, held, cut, queue, settled, handled, inflight,
                   ctxDone>>
    BY DEF Started, Drain, WaitCalled, DrainedCleanly, DrainTimeout, broker, ghosts
  <1>3. Hands' /\ Accounted'
    BY <1>2, MessagesKept DEF SInv, Hands, Attached
  <1>4. Counting'
    <2>1. CASE Started \/ Drain \/ DrainTimeout
      BY <1>2, <2>1 DEF SInv, Counting, CleanDrain, Alive, Started, Drain, DrainTimeout, broker, ghosts
    <2>2. CASE WaitCalled
      BY <1>2, <2>2 DEF SInv, Counting, CleanDrain, Alive, WaitCalled, broker, ghosts
    <2>3. CASE DrainedCleanly
      BY <1>2, <2>3 DEF SInv, Counting, CleanDrain, Alive, DrainedCleanly
    <2> QED
      BY <2>1, <2>2, <2>3
  <1> QED
    BY <1>1, <1>3, <1>4 DEF SInv

LEMMA WaitReturnsInv == ASSUME SInv, WaitReturns PROVE SInv'
  <1>1. CASE counted = {}
    <2>1. TypeOK' /\ Hands' /\ Accounted'
      BY <1>1, MessagesKept DEF SInv, TypeOK, Hands, Attached, WaitReturns, broker, ghosts
    <2>2. Counting'
      BY <1>1 DEF SInv, Counting, CleanDrain, Alive, WaitReturns, broker, ghosts
    <2> QED
      BY <2>1, <2>2 DEF SInv
  <1>2. CASE counted # {}
    BY <1>2, ProcessEndsInv DEF WaitReturns, broker, ghosts
  <1> QED
    BY <1>1, <1>2

LEMMA ConsumeFailsInv == ASSUME SInv, ConsumeFails PROVE SInv'
  BY ProcessEndsInv DEF ConsumeFails

LEMMA ExitInv == ASSUME SInv, Exit PROVE SInv'
  BY ProcessEndsInv DEF SInv, Counting, Exit

LEMMA SignalInv == ASSUME SInv, Signal PROVE SInv'
  <1>1. inflight' \subseteq Consumers
    BY DEF SInv, TypeOK, Hands, Attached, Signal, broker, ghosts
  <1>2. TypeOK'
    BY <1>1 DEF SInv, TypeOK, Signal, broker, ghosts
  <1>3. Hands' /\ Accounted'
    BY MessagesKept DEF SInv, Hands, Attached, Signal, broker, ghosts
  <1>4. Counting'
    <2>1. waiter' = "none"
      BY DEF SInv, Counting, Signal, broker, ghosts
    <2>2. ending' # "clean"
      BY DEF SInv, Counting, Signal, broker, ghosts
    <2> QED
      BY <2>1, <2>2 DEF SInv, Counting, CleanDrain, Alive, Signal, broker, ghosts
  <1> QED
    BY <1>2, <1>3, <1>4 DEF SInv

--------------------------------------------------------------------------------
(* The consumers. *)

LEMMA DeliverInv == ASSUME SInv, NEW c \in Consumers, Deliver(c) PROVE SInv'
  <1>1. PICK m \in queue : inbox' = [inbox EXCEPT ![c] = m] /\ queue' = queue \ {m}
    BY DEF Deliver, broker, ghosts
  <1>2. m \in Messages /\ m # None
    BY <1>1, ShutdownAssumption DEF SInv, TypeOK
  <1>3. UNCHANGED <<process, counted, cpc, held, cut, settled, handled, inflight, ending>>
    BY DEF Deliver, broker, ghosts
  <1>4. inbox[c] = None /\ held[c] = None /\ cpc[c] \notin {"off", "left"} /\ c \notin cut
    BY DEF Deliver, Attached
  <1>5. inbox \in [Consumers -> Messages \cup {None}]
    BY DEF SInv, TypeOK
  <1>6. \A d \in Consumers \ cut : inbox[d] # m /\ held[d] # m
    BY <1>1 DEF SInv, Accounted, Unsettled, UnsettledOf
  <1>7. TypeOK'
    BY <1>1, <1>2, <1>3 DEF SInv, TypeOK, process
  <1>8. Hands'
    BY <1>1, <1>2, <1>3, <1>4, <1>5, <1>6 DEF SInv, Hands, Attached
  <1>9. Accounted'
    <2>1. Unsettled' \subseteq Unsettled \cup {m}
      BY <1>1, <1>3, <1>5 DEF Unsettled, UnsettledOf
    <2>2. Unsettled \cup {m} \subseteq Unsettled' \cup {None}
      BY <1>1, <1>3, <1>4, <1>5 DEF Unsettled, UnsettledOf
    <2> QED
      BY <1>1, <1>2, <1>3, <2>1, <2>2, ShutdownAssumption DEF SInv, Accounted, TypeOK
  <1>10. Counting'
    BY <1>3 DEF SInv, Counting, CleanDrain, Alive, process
  <1> QED
    BY <1>7, <1>8, <1>9, <1>10 DEF SInv

LEMMA ReceiveInv == ASSUME SInv, NEW c \in Consumers, Receive(c) PROVE SInv'
  <1>1. /\ cpc[c] = "select" /\ inbox[c] # None
        /\ held' = [held EXCEPT ![c] = inbox[c]]
        /\ inbox' = [inbox EXCEPT ![c] = None]
        /\ cpc' = [cpc EXCEPT ![c] = "received"]
        /\ UNCHANGED <<process, counted, cut, queue, settled, handled, inflight, ending>>
    BY DEF Receive, Goto, broker, ghosts
  <1>2. TypeOK'
    BY <1>1 DEF SInv, TypeOK, process, ConsumerPCs
  <1>3. Hands'
    BY <1>1 DEF SInv, TypeOK, Hands, Attached
  <1>4. Accounted'
    <2>1. Unsettled' \subseteq Unsettled \cup {None}
      BY <1>1 DEF SInv, TypeOK, Unsettled, UnsettledOf
    <2>2. Unsettled \subseteq Unsettled' \cup {None}
      <3>1. held[c] = None
        BY <1>1 DEF SInv, Hands, Attached
      <3> QED
        BY <1>1, <3>1 DEF SInv, TypeOK, Unsettled, UnsettledOf
    <2> QED
      BY <1>1, <2>1, <2>2, ShutdownAssumption DEF SInv, Accounted, TypeOK
  <1>5. Counting'
    BY <1>1 DEF SInv, TypeOK, Counting, CleanDrain, Alive, process
  <1> QED
    BY <1>2, <1>3, <1>4, <1>5 DEF SInv

LEMMA LeaveInv == ASSUME SInv, NEW c \in Consumers, Leave(c) PROVE SInv'
  <1>1. /\ cpc[c] = "select"
        /\ cpc' = [cpc EXCEPT ![c] = "left"]
        /\ queue' = queue \cup ({inbox[c]} \cap Messages)
        /\ inbox' = [inbox EXCEPT ![c] = None]
        /\ UNCHANGED <<process, counted, held, cut, settled, handled, inflight, ending>>
    BY DEF Leave, Goto, broker, ghosts
  <1>2. TypeOK'
    BY <1>1 DEF SInv, TypeOK, process, ConsumerPCs
  <1>3. Hands'
    BY <1>1 DEF SInv, TypeOK, Hands, Attached
  <1>4. Accounted'
    <2>1. CASE c \in cut
      <3>1. inbox[c] = None
        BY <2>1 DEF SInv, Hands, Attached
      <3>2. inbox' = inbox /\ queue' = queue
        BY <1>1, <3>1, ShutdownAssumption DEF SInv, TypeOK
      <3> QED
        BY <1>1, <3>2, MessagesKept
    <2>2. CASE c \notin cut
      <3>1. Unsettled' \subseteq (Unsettled \ {inbox[c]}) \cup {None}
        BY <1>1, <2>2 DEF SInv, TypeOK, Hands, Attached, Unsettled, UnsettledOf
      <3>2. Unsettled \subseteq Unsettled' \cup {inbox[c]}
        BY <1>1 DEF SInv, TypeOK, Unsettled, UnsettledOf
      <3>3. inbox[c] \in Unsettled
        BY <2>2 DEF Unsettled, UnsettledOf
      <3>4. Unsettled \subseteq Messages \cup {None}
        BY DEF SInv, TypeOK, Unsettled, UnsettledOf
      <3> QED
        BY <1>1, <3>1, <3>2, <3>3, <3>4, ShutdownAssumption DEF SInv, Accounted, TypeOK
    <2> QED
      BY <2>1, <2>2
  <1>5. Counting'
    BY <1>1 DEF SInv, TypeOK, Counting, CleanDrain, Alive, process
  <1> QED
    BY <1>2, <1>3, <1>4, <1>5 DEF SInv

LEMMA AddInv == ASSUME SInv, NEW c \in Consumers, Add(c) PROVE SInv'
  <1>1. /\ cpc[c] = "received"
        /\ counted' = counted \cup {c}
        /\ cpc' = [cpc EXCEPT ![c] = "handle"]
        /\ UNCHANGED <<process, inbox, held, cut, queue, settled, handled, inflight, ending>>
    BY DEF Add, Goto, broker, ghosts
  <1>2. TypeOK'
    BY <1>1 DEF SInv, TypeOK, process, ConsumerPCs
  <1>3. Hands'
    BY <1>1 DEF SInv, TypeOK, Hands, Attached
  <1>4. Accounted'
    BY <1>1, MessagesKept
  <1>5. Counting'
    BY <1>1 DEF SInv, TypeOK, Counting, CleanDrain, Alive, process
  <1> QED
    BY <1>2, <1>3, <1>4, <1>5 DEF SInv

LEMMA DoneInv == ASSUME SInv, NEW c \in Consumers, Done(c) PROVE SInv'
  <1>1. /\ Alive /\ cpc[c] = "handle"
        /\ handled' = handled \cup {held[c]}
        /\ inflight' = inflight \ {c}
        /\ counted' = counted \ {c}
        /\ waiter' = IF waiter = "asleep" /\ counted = {c} THEN "woken" ELSE waiter
        /\ cpc' = [cpc EXCEPT ![c] = "ack"]
        /\ UNCHANGED <<main, ctxDone, inbox, held, cut, queue, settled, ending>>
    BY DEF Done, Goto, HandlerReturned, broker, ghosts
  <1>2. held[c] \in Messages
    BY <1>1 DEF SInv, TypeOK, Hands, Attached
  <1>3. TypeOK'
    BY <1>1, <1>2 DEF SInv, TypeOK, ConsumerPCs
  <1>4. Hands'
    BY <1>1 DEF SInv, TypeOK, Hands, Attached
  <1>5. Accounted'
    BY <1>1 DEF SInv, Accounted, Unsettled, UnsettledOf
  <1>6. counted' = {d \in Consumers : cpc'[d] = "handle"}
    BY <1>1 DEF SInv, TypeOK, Counting
  <1>7. inflight' \subseteq counted'
    BY <1>1 DEF SInv, Counting
  <1>8. waiter' \in {"woken", "closed"} => inflight' = {}
    BY <1>1, <1>7 DEF SInv, Counting
  <1>9. Counting'
    BY <1>1, <1>6, <1>7, <1>8 DEF SInv, Counting, CleanDrain, Alive
  <1> QED
    BY <1>3, <1>4, <1>5, <1>9 DEF SInv

LEMMA SettleInv == ASSUME SInv, NEW c \in Consumers, Settle(c) PROVE SInv'
  <1>1. /\ cpc[c] = "ack"
        /\ settled' = IF c \in cut THEN settled ELSE settled \cup {held[c]}
        /\ held' = [held EXCEPT ![c] = None]
        /\ cpc' = [cpc EXCEPT ![c] = "select"]
        /\ UNCHANGED <<process, counted, inbox, cut, queue, handled, inflight, ending>>
    BY DEF Settle, Goto, broker, ghosts
  <1>2. held[c] \in Messages /\ held[c] \in handled
    BY <1>1 DEF SInv, TypeOK, Hands, Attached
  <1>3. TypeOK'
    BY <1>1, <1>2 DEF SInv, TypeOK, process, ConsumerPCs
  <1>4. Hands'
    BY <1>1 DEF SInv, TypeOK, Hands, Attached
  <1>5. Accounted'
    <2>1. CASE c \in cut
      <3>1. Unsettled' = Unsettled
        BY <1>1, <2>1 DEF SInv, TypeOK, Unsettled, UnsettledOf
      <3> QED
        BY <1>1, <2>1, <3>1 DEF SInv, Accounted
    <2>2. CASE c \notin cut
      <3>1. Unsettled' \subseteq (Unsettled \ {held[c]}) \cup {None}
        BY <1>1, <1>2, <2>2, ShutdownAssumption
           DEF SInv, TypeOK, Hands, Attached, Unsettled, UnsettledOf
      <3>2. Unsettled \subseteq Unsettled' \cup {held[c]}
        BY <1>1 DEF SInv, TypeOK, Unsettled, UnsettledOf
      <3>3. held[c] \in Unsettled
        BY <2>2 DEF Unsettled, UnsettledOf
      <3> QED
        BY <1>1, <1>2, <2>2, <3>1, <3>2, <3>3, ShutdownAssumption DEF SInv, Accounted, TypeOK
    <2> QED
      BY <2>1, <2>2
  <1>6. Counting'
    BY <1>1 DEF SInv, TypeOK, Counting, CleanDrain, Alive, process
  <1> QED
    BY <1>3, <1>4, <1>5, <1>6 DEF SInv

\* Closed channels: what was unsettled on them is in the queue again, and nowhere else
\* that counts.
LEMMA ChannelsCutInv == ASSUME SInv, ChannelsCut PROVE SInv'
  <1>1. PICK C \in SUBSET {c \in Consumers : Attached(c)} :
           /\ cut' = cut \cup C
           /\ queue' = queue \cup (UnsettledOf(C) \cap Messages)
           /\ inbox' = [c \in Consumers |-> IF c \in C THEN None ELSE inbox[c]]
    BY DEF ChannelsCut
  <1>2. UNCHANGED <<process, counted, cpc, held, settled, handled, inflight, ending>>
    BY DEF ChannelsCut, ghosts
  <1>3. C \subseteq Consumers /\ C \cap cut = {}
    BY <1>1 DEF Attached
  <1>4. TypeOK'
    BY <1>1, <1>2, <1>3 DEF SInv, TypeOK, process
  <1>5. Hands'
    BY <1>1, <1>2, <1>3 DEF SInv, TypeOK, Hands, Attached
  <1>6. Accounted'
    <2>1. Unsettled' = UnsettledOf(Consumers \ C)
      BY <1>1, <1>2, <1>3 DEF Unsettled, UnsettledOf
    <2>2. Unsettled = UnsettledOf(C) \cup UnsettledOf(Consumers \ C)
      BY <1>3 DEF Unsettled, UnsettledOf
    <2>3. UnsettledOf(C) \cap UnsettledOf(Consumers \ C) \subseteq {None}
      <3>1. ASSUME NEW c \in C \ cut, NEW d \in (Consumers \ C) \ cut
            PROVE  /\ inbox[c] = inbox[d] => inbox[c] = None
                   /\ held[c] = held[d] => held[c] = None
                   /\ inbox[c] = held[d] => inbox[c] = None
                   /\ held[c] = inbox[d] => held[c] = None
        BY <1>3 DEF SInv, Hands
      <3> QED
        BY <3>1 DEF UnsettledOf
    <2>4. Unsettled \subseteq Messages \cup {None}
      BY DEF SInv, TypeOK, Unsettled, UnsettledOf
    <2>5. Messages \subseteq queue' \cup Unsettled' \cup settled'
      BY <1>1, <1>2, <2>1, <2>2 DEF SInv, Accounted
    <2>6. queue' \cap Unsettled' = {}
      BY <1>1, <2>1, <2>2, <2>3, ShutdownAssumption DEF SInv, Accounted
    <2>7. queue' \cap settled' = {} /\ Unsettled' \cap settled' = {}
      BY <1>1, <1>2, <2>1, <2>2 DEF SInv, Accounted
    <2> QED
      BY <1>2, <2>5, <2>6, <2>7 DEF SInv, Accounted
  <1>7. Counting'
    BY <1>2 DEF SInv, Counting, CleanDrain, Alive, process
  <1> QED
    BY <1>4, <1>5, <1>6, <1>7 DEF SInv

LEMMA NextSInv == SInv /\ [Next]_vars => SInv'
  <1> SUFFICES ASSUME SInv, [Next]_vars PROVE SInv'
    OBVIOUS
  <1>1. CASE Main \/ ConsumeFails \/ Signal \/ Waiter
    BY <1>1, StartConsumerInv, MainInv, ExitInv, ConsumeFailsInv, SignalInv, WaitReturnsInv
       DEF Main, Waiter
  <1>2. ASSUME NEW c \in Consumers, Consumer(c) \/ Done(c) PROVE SInv'
    BY <1>2, DeliverInv, ReceiveInv, LeaveInv, AddInv, DoneInv, SettleInv DEF Consumer
  <1>3. CASE UNCHANGED vars
    BY <1>3 DEF SInv, TypeOK, Hands, Attached, Accounted, Unsettled, UnsettledOf, Counting,
                CleanDrain, Alive, vars, process, broker, ghosts
  <1> QED
    BY <1>1, <1>2, <1>3, ChannelsCutInv DEF Next

--------------------------------------------------------------------------------

\* The inductive invariant of WorkerShutdown holds.
THEOREM ShutdownInvariant == Spec => []SInv
  BY InitSInv, NextSInv, PTL DEF Spec

\* CleanDrain: "All jobs completed cleanly" is never logged while a job that was in its
\* handler at the signal is still being run, for any number of consumers.
THEOREM DrainsCleanly == Spec => []CleanDrain
  <1>1. SInv => CleanDrain
    BY DEF SInv, Counting
  <1> QED
    BY <1>1, ShutdownInvariant, PTL

\* LeftEmptyHanded: a goroutine that returns from Consume keeps no message from others.
THEOREM NobodyLeavesWithMessages == Spec => []LeftEmptyHanded
  <1>1. SInv => LeftEmptyHanded
    BY DEF SInv, Hands, Attached, LeftEmptyHanded
  <1> QED
    BY <1>1, ShutdownInvariant, PTL

\* Accounted: no end of the process, clean, forced, fatal or by panic, loses or duplicates
\* a message.
THEOREM MessagesAccounted == Spec => []Accounted
  <1>1. SInv => Accounted
    BY DEF SInv
  <1> QED
    BY <1>1, ShutdownInvariant, PTL

--------------------------------------------------------------------------------
(* The worker implements Delivery. *)

\* What a consumer has of the queue, read off its two places.
LEMMA HandFacts ==
  ASSUME SInv, NEW c \in Consumers
  PROVE  /\ c \in cut => HandOf(c) = {}
         /\ c \notin cut => HandOf(c) = {inbox[c], held[c]} \cap Messages
  BY DEF HandOf, UnsettledOf

\* The same after a step.
LEMMA HandFactsNext ==
  ASSUME SInv', NEW c \in Consumers
  PROVE  /\ c \in cut' => HandOf(c)' = {}
         /\ c \notin cut' => HandOf(c)' = {inbox'[c], held'[c]} \cap Messages
  BY DEF HandOf, UnsettledOf

\* Steps that move no message, and finish none, are none of the queue's.
LEMMA SameHands ==
  ASSUME UNCHANGED <<queue, cut>>,
         \A c \in Consumers : HandOf(c)' = HandOf(c),
         \A c \in Consumers \ cut : cpc'[c] = "ack" <=> cpc[c] = "ack"
  PROVE  UNCHANGED Queue!vars
  BY DEF Queue!vars, Finished

LEMMA InitDelivery == Init => Queue!Init
  BY ShutdownAssumption DEF Init, Queue!Init, HandOf, UnsettledOf, Finished

\* The end of the process gives everything back.
LEMMA EndGivesBack == ASSUME SInv, SInv', ProcessEnds PROVE Queue!GiveBack
  <1>1. \A c \in Consumers : HandOf(c)' = {}
    BY HandFactsNext, ShutdownAssumption DEF ProcessEnds
  <1>2. Finished' = {}
    BY DEF ProcessEnds, Finished
  <1>3. UNION {HandOf(c) : c \in Consumers} = Unsettled \cap Messages
    BY DEF HandOf, Unsettled, UnsettledOf
  <1>4. Finished \ Consumers = {}
    BY DEF Finished
  <1> QED
    BY <1>1, <1>2, <1>3, <1>4 DEF Queue!GiveBack, ProcessEnds

LEMMA DeliverTakes ==
  ASSUME SInv, SInv', NEW c \in Consumers, Deliver(c)
  PROVE  Queue!Take(c)
  <1>1. PICK m \in queue : inbox' = [inbox EXCEPT ![c] = m] /\ queue' = queue \ {m}
    BY DEF Deliver
  <1>2. UNCHANGED <<cpc, held, cut>> /\ c \notin cut /\ inbox[c] = None /\ held[c] = None
    BY DEF Deliver, Attached
  <1>3. m \in Messages /\ inbox \in [Consumers -> Messages \cup {None}]
    BY DEF SInv, TypeOK
  <1>4. HandOf(c) = {} /\ HandOf(c)' = {m}
    BY <1>1, <1>2, <1>3, HandFacts, HandFactsNext, ShutdownAssumption
  <1>5. \A d \in Consumers \ {c} : HandOf(d)' = HandOf(d)
    BY <1>1, <1>2, <1>3, HandFacts, HandFactsNext
  <1>6. Finished' = Finished
    BY <1>2 DEF Finished
  <1> QED
    BY <1>1, <1>4, <1>5, <1>6 DEF Queue!Take

LEMMA LeaveGivesBack ==
  ASSUME SInv, SInv', NEW c \in Consumers, Leave(c)
  PROVE  Queue!GiveBack
  <1>1. /\ queue' = queue \cup ({inbox[c]} \cap Messages)
        /\ inbox' = [inbox EXCEPT ![c] = None]
        /\ cpc' = [cpc EXCEPT ![c] = "left"] /\ cpc[c] = "select"
        /\ UNCHANGED <<held, cut>>
    BY DEF Leave, Goto
  <1>2. held[c] = None /\ (c \in cut => inbox[c] = None)
    BY <1>1 DEF SInv, Hands, Attached
  <1>3. inbox \in [Consumers -> Messages \cup {None}] /\ cpc \in [Consumers -> ConsumerPCs]
    BY DEF SInv, TypeOK
  <1>4. HandOf(c) = {inbox[c]} \cap Messages /\ HandOf(c)' = {}
    BY <1>1, <1>2, <1>3, HandFacts, HandFactsNext, ShutdownAssumption
  <1>5. \A d \in Consumers \ {c} : HandOf(d)' = HandOf(d)
    BY <1>1, <1>3, HandFacts, HandFactsNext
  <1>6. Finished' = Finished /\ c \notin Finished
    BY <1>1, <1>3 DEF Finished
  <1> DEFINE hands == [d \in Consumers |-> HandOf(d)]
  <1>7. queue' = queue \cup UNION {hands[d] : d \in {c}}
    <2>1. UNION {hands[d] : d \in {c}} = hands[c]
      OBVIOUS
    <2>2. hands[c] = HandOf(c)
      OBVIOUS
    <2> QED
      BY <1>1, <1>4, <2>1, <2>2
  <1>8. hands' = [d \in Consumers |-> IF d \in {c} THEN {} ELSE hands[d]]
    BY <1>4, <1>5
  <1>9. Finished' = Finished \ {c} /\ {c} \in SUBSET Consumers
    BY <1>6
  <1> QED
    BY <1>7, <1>8, <1>9 DEF Queue!GiveBack

\* wg.Done: who still has its channel has finished.
LEMMA DoneFinishes ==
  ASSUME SInv, SInv', NEW c \in Consumers, Done(c)
  PROVE  Queue!Finish(c) \/ UNCHANGED Queue!vars
  <1>1. /\ cpc[c] = "handle" /\ cpc' = [cpc EXCEPT ![c] = "ack"]
        /\ UNCHANGED <<inbox, held, cut, queue>>
    BY DEF Done, Goto, broker
  <1>2. held[c] \in Messages /\ cpc \in [Consumers -> ConsumerPCs]
    BY <1>1 DEF SInv, TypeOK, Hands
  <1>3. \A d \in Consumers : HandOf(d)' = HandOf(d)
    BY <1>1 DEF HandOf, UnsettledOf
  <1>4. CASE c \in cut
    BY <1>1, <1>2, <1>3, <1>4, SameHands
  <1>5. CASE c \notin cut
    <2>1. HandOf(c) # {}
      BY <1>2, <1>5, HandFacts
    <2>2. Finished' = Finished \cup {c}
      BY <1>1, <1>2, <1>5 DEF Finished
    <2> QED
      BY <1>1, <1>3, <2>1, <2>2 DEF Queue!Finish
  <1> QED
    BY <1>4, <1>5

\* An ack counts on an open channel only.
LEMMA SettleSettles ==
  ASSUME SInv, SInv', NEW c \in Consumers, Settle(c)
  PROVE  Queue!Settle(c) \/ UNCHANGED Queue!vars
  <1>1. /\ cpc[c] = "ack" /\ cpc' = [cpc EXCEPT ![c] = "select"]
        /\ held' = [held EXCEPT ![c] = None]
        /\ UNCHANGED <<inbox, cut, queue>>
    BY DEF Settle, Goto
  <1>2. /\ held[c] # None /\ inbox[c] = None
        /\ held \in [Consumers -> Messages \cup {None}] /\ cpc \in [Consumers -> ConsumerPCs]
    BY <1>1 DEF SInv, TypeOK, Hands
  <1>3. \A d \in Consumers \ {c} : HandOf(d)' = HandOf(d)
    BY <1>1, <1>2, HandFacts, HandFactsNext
  <1>4. CASE c \in cut
    <2>1. HandOf(c)' = HandOf(c)
      BY <1>1, <1>4, HandFacts, HandFactsNext
    <2> QED
      BY <1>1, <1>2, <1>3, <1>4, <2>1, SameHands
  <1>5. CASE c \notin cut
    <2>1. HandOf(c)' = {}
      BY <1>1, <1>2, <1>5, HandFactsNext, ShutdownAssumption
    <2>2. c \in Finished /\ Finished' = Finished \ {c}
      BY <1>1, <1>2, <1>5 DEF Finished
    <2> QED
      BY <1>1, <1>3, <2>1, <2>2 DEF Queue!Settle
  <1> QED
    BY <1>4, <1>5

LEMMA CutGivesBack == ASSUME SInv, SInv', ChannelsCut PROVE Queue!GiveBack
  <1>1. PICK C \in SUBSET {c \in Consumers : Attached(c)} :
           /\ cut' = cut \cup C
           /\ queue' = queue \cup (UnsettledOf(C) \cap Messages)
           /\ inbox' = [c \in Consumers |-> IF c \in C THEN None ELSE inbox[c]]
    BY DEF ChannelsCut
  <1>2. UNCHANGED <<cpc, held>>
    BY DEF ChannelsCut
  <1>3. \A c \in C : HandOf(c)' = {}
    BY <1>1, HandFactsNext
  <1>4. \A c \in Consumers \ C : HandOf(c)' = HandOf(c)
    BY <1>1, <1>2, HandFacts, HandFactsNext
  <1>5. UNION {HandOf(c) : c \in C} = UnsettledOf(C) \cap Messages
    BY DEF HandOf, UnsettledOf
  <1>6. Finished' = Finished \ C
    BY <1>1, <1>2 DEF Finished
  <1> QED
    BY <1>1, <1>3, <1>4, <1>5, <1>6 DEF Queue!GiveBack

\* Receive and wg.Add move a message within the hands of its consumer.
LEMMA WithinHands ==
  ASSUME SInv, SInv', NEW c \in Consumers, Receive(c) \/ Add(c)
  PROVE  UNCHANGED Queue!vars
  <1>1. UNCHANGED <<cut, queue>> /\ cpc[c] \in {"select", "received"}
    BY DEF Receive, Add, broker
  <1>2. cpc'[c] # "ack" /\ \A d \in Consumers \ {c} : cpc'[d] = cpc[d]
    BY DEF Receive, Add, Goto, SInv, TypeOK
  <1>3. {inbox'[c], held'[c]} \cap Messages = {inbox[c], held[c]} \cap Messages
    <2>1. CASE Receive(c)
      <3>1. inbox'[c] = None /\ held'[c] = inbox[c] /\ held[c] = None
        BY <2>1 DEF Receive, SInv, TypeOK, Hands
      <3> QED
        BY <3>1
    <2>2. CASE Add(c)
      BY <2>2 DEF Add
    <2> QED
      BY <2>1, <2>2
  <1>4. \A d \in Consumers \ {c} : inbox'[d] = inbox[d] /\ held'[d] = held[d]
    BY DEF Receive, Add, SInv, TypeOK
  <1>5. \A d \in Consumers : HandOf(d)' = HandOf(d)
    BY <1>1, <1>3, <1>4, HandFacts, HandFactsNext
  <1> QED
    BY <1>1, <1>2, <1>5, SameHands

\* The goroutines of Start, of the signal and of wg.Wait have no message in their hands.
LEMMA MainKeepsHands ==
  ASSUME SInv, SInv',
         \/ StartConsumer \/ Started \/ Drain \/ DrainedCleanly \/ DrainTimeout
         \/ Signal \/ WaitCalled \/ (WaitReturns /\ counted = {})
  PROVE  UNCHANGED Queue!vars
  <1>1. UNCHANGED <<inbox, held, cut, queue>>
    BY DEF StartConsumer, Started, Drain, DrainedCleanly, DrainTimeout, Signal, WaitCalled,
           WaitReturns, broker
  <1>2. \A c \in Consumers : cpc'[c] = "ack" <=> cpc[c] = "ack"
    BY DEF StartConsumer, Started, Drain, DrainedCleanly, DrainTimeout, Signal, WaitCalled,
           WaitReturns, Goto, SInv, TypeOK
  <1>3. \A c \in Consumers : HandOf(c)' = HandOf(c)
    BY <1>1 DEF HandOf, UnsettledOf
  <1> QED
    BY <1>1, <1>2, <1>3, SameHands

LEMMA NextDelivery == SInv /\ SInv' /\ [Next]_vars => [Queue!Next]_(Queue!vars)
  <1> SUFFICES ASSUME SInv, SInv', [Next]_vars PROVE [Queue!Next]_(Queue!vars)
    OBVIOUS
  <1>1. CASE Main \/ ConsumeFails \/ Signal \/ Waiter
    <2>1. CASE Exit \/ ConsumeFails \/ (WaitReturns /\ counted # {})
      BY <2>1, EndGivesBack DEF Exit, ConsumeFails, WaitReturns, Queue!Next
    <2> QED
      BY <1>1, <2>1, MainKeepsHands DEF Main, Waiter
  <1>2. ASSUME NEW c \in Consumers, Consumer(c) \/ Done(c) PROVE [Queue!Next]_(Queue!vars)
    BY <1>2, DeliverTakes, WithinHands, LeaveGivesBack, SettleSettles, DoneFinishes
       DEF Consumer, Queue!Next
  <1>3. CASE ChannelsCut
    BY <1>3, CutGivesBack DEF Queue!Next
  <1>4. CASE UNCHANGED vars
    BY <1>4, SameHands DEF vars, process, broker, ghosts, HandOf, UnsettledOf
  <1> QED
    BY <1>1, <1>2, <1>3, <1>4 DEF Next

\* ImplementsDelivery: the consumers of one worker, with prefetched messages, closed
\* channels, the drain and every end of the process, keep the promise of the queue.
THEOREM WorkerImplementsDelivery == Spec => ImplementsDelivery
  BY InitDelivery, NextDelivery, ShutdownInvariant, PTL DEF Spec, ImplementsDelivery, Queue!Spec
================================================================================
