-------------------------- MODULE StatusStreamProofs ---------------------------
(***************************************************************************)
(* What StatusStream keeps true for any number of users, streams and events *)
(* and any capacity of the channels.                                        *)
(*                                                                          *)
(* The manager's map and the requests agree on which streams are open       *)
(* (Registered); the read lock keeps it so while the subscriber is on its   *)
(* way through the map. BurstDelivered then follows stream by stream: an    *)
(* event moves from the subscriber's hand to the channel to the client, and *)
(* is dropped only when the channel alone already holds BufSize of them.    *)
(***************************************************************************)
EXTENDS StatusStream, TLAPS

--------------------------------------------------------------------------------
(* Events on their way through a stream: four moves and a count. *)

\* Send: the event in the subscriber's hand is the last one of the channel.
LEMMA SentIsBuffered ==
  ASSUME NEW s \in Seq(Nat), NEW w \in Seq(Nat), NEW q \in Seq(Nat), NEW m \in Nat
  PROVE  s \o w \o Append(q, m) \o <<>> = s \o w \o q \o <<m>>
  OBVIOUS

\* Receive: the head of the channel is being written.
LEMMA TakenIsWriting ==
  ASSUME NEW s \in Seq(Nat), NEW q \in Seq(Nat), NEW p \in Seq(Nat), q # <<>>
  PROVE  s \o <<Head(q)>> \o Tail(q) \o p = s \o <<>> \o q \o p
  OBVIOUS

\* SSEvent: what was being written has been seen.
LEMMA WrittenIsSeen ==
  ASSUME NEW s \in Seq(Nat), NEW w \in Seq(Nat), NEW q \in Seq(Nat), NEW p \in Seq(Nat)
  PROVE  (s \o w) \o <<>> \o q \o p = s \o w \o q \o p
  OBVIOUS

\* Relay: the event taken from the subscription is in the subscriber's hand.
LEMMA RelayedIsDue ==
  ASSUME NEW s \in Seq(Nat), NEW w \in Seq(Nat), NEW q \in Seq(Nat), NEW m \in Nat
  PROVE  s \o w \o q \o <<m>> = Append(s \o w \o q \o <<>>, m)
  OBVIOUS

\* A full channel, and one more event: more than BufSize are due.
LEMMA FullMeansMany ==
  ASSUME NEW s \in Seq(Nat), NEW w \in Seq(Nat), NEW q \in Seq(Nat), NEW m \in Nat
  PROVE  Len(s \o w \o q \o <<m>>) > Len(q)
  OBVIOUS

--------------------------------------------------------------------------------
(* The inductive invariant. *)

Present(c) == hpc[c] \in {"stream", "write", "leaving"}

\* The map has the open streams of each user and those about to be removed, and the
\* subscriber's list is a part of it.
Registered ==
    /\ \A u \in Users : \A c \in clients[u] : user[c] = u /\ Present(c)
    /\ \A c \in Conns : Present(c) =>
          user[c] \in Users /\ c \in clients[user[c]] /\ c \notin closed
    /\ \A c \in todo : Present(c)
    /\ spc = "idle" => todo = {}

\* A stream that is not open yet has received nothing, and one that is not at its write
\* has nothing to write.
Quiet ==
    /\ \A c \in Conns : hpc[c] = "new" =>
          /\ seen[c] = <<>> /\ queued[c] = <<>> /\ due[c] = <<>>
    /\ \A c \in Conns : hpc[c] # "write" => writing[c] = <<>>
    /\ \A c \in closed : hpc[c] = "returned"

StreamInv == TypeOK /\ Registered /\ Quiet /\ BurstDelivered

LEMMA InitStreamInv == Init => StreamInv
  <1> SUFFICES ASSUME Init PROVE StreamInv
    OBVIOUS
  <1>1. TypeOK
    BY StreamAssumption DEF Init, TypeOK
  <1>2. Registered /\ Quiet /\ BurstDelivered
    BY DEF Init, Registered, Present, Quiet, BurstDelivered, Open
  <1> QED
    BY <1>1, <1>2 DEF StreamInv

\* The user of an event is a user, and its number a number.
LEMMA EventFields == ASSUME NEW e \in Event PROVE UserOf(e) \in Users /\ e.id \in Nat
  <1>1. PICK u \in Users : e.channel = Channel(u)
    BY DEF Event
  <1>2. UserOf(e) = u
    BY <1>1 DEF UserOf, Channel
  <1> QED
    BY <1>2 DEF Event

\* What a stream has received when the subscriber has, or has not, an event for it.
LEMMA ReceivedForms ==
  ASSUME NEW c \in Conns
  PROVE  /\ c \in todo => Received(c) = seen[c] \o writing[c] \o queued[c] \o <<msg>>
         /\ c \notin todo => Received(c) = seen[c] \o writing[c] \o queued[c] \o <<>>
  BY DEF Received

LEMMA PublishInv == ASSUME StreamInv, NEW u \in Users, Publish(u) PROVE StreamInv'
  <1>1. [channel |-> Channel(u), id |-> count'] \in Event /\ count' \in 0..MaxEvents
    BY StreamAssumption DEF StreamInv, TypeOK, Publish, Event
  <1>2. TypeOK'
    BY <1>1 DEF StreamInv, TypeOK, Publish, subscriber, stream
  <1>3. Registered' /\ Quiet' /\ BurstDelivered'
    BY DEF StreamInv, Registered, Present, Quiet, BurstDelivered, Received, Open, Publish,
           subscriber, stream
  <1> QED
    BY <1>2, <1>3 DEF StreamInv

LEMMA RelayInv == ASSUME StreamInv, Relay PROVE StreamInv'
  <1> DEFINE e == Head(feed)
             u == UserOf(e)
  <1>1. e \in Event /\ u \in Users /\ e.id \in Nat /\ feed' \in Seq(Event)
    BY EventFields DEF StreamInv, TypeOK, Relay
  <1>2. /\ spc = "idle" /\ msg' = e.id /\ todo' = clients[u]
        /\ spc' = IF clients[u] = {} THEN "idle" ELSE "send"
        /\ due' = [c \in Conns |-> IF Open(c) /\ user[c] = u THEN Append(due[c], e.id)
                                                             ELSE due[c]]
        /\ UNCHANGED <<count, clients, queued, closed, stream, gone, seen>>
    BY DEF Relay
  <1> HIDE DEF e, u
  <1>3. TypeOK'
    BY <1>1, <1>2 DEF StreamInv, TypeOK, stream
  <1>4. Registered'
    BY <1>1, <1>2 DEF StreamInv, TypeOK, Registered, Present, stream
  <1>5. Quiet'
    BY <1>2 DEF StreamInv, TypeOK, Quiet, Open, stream
  <1>6. ASSUME NEW c \in Conns, Open(c)', c \notin gone', Len(due'[c]) <= BufSize
        PROVE  Received(c)' = due'[c]
    <2>1. Open(c) /\ c \notin gone /\ c \notin todo
      BY <1>2, <1>6 DEF StreamInv, Registered, Open, stream
    <2>2. /\ seen[c] \in Seq(Nat) /\ writing[c] \in Seq(Nat) /\ queued[c] \in Seq(Nat)
          /\ due[c] \in Seq(Nat)
      BY DEF StreamInv, TypeOK
    <2>3. UNCHANGED <<seen[c], writing[c], queued[c]>>
      BY <1>2 DEF stream
    <2>4. CASE user[c] = u
      <3>1. due'[c] = Append(due[c], e.id) /\ c \in todo'
        BY <1>1, <1>2, <2>1, <2>4 DEF StreamInv, Registered, Present, Open
      <3>2. Len(due[c]) <= BufSize
        BY <1>1, <1>6, <2>2, <3>1, StreamAssumption
      <3>3. due[c] = seen[c] \o writing[c] \o queued[c] \o <<>>
        BY <2>1, <3>2, ReceivedForms DEF StreamInv, BurstDelivered
      <3>4. Received(c)' = seen[c] \o writing[c] \o queued[c] \o <<e.id>>
        BY <1>2, <2>3, <3>1 DEF Received
      <3>5. seen[c] \o writing[c] \o queued[c] \o <<e.id>>
              = Append(seen[c] \o writing[c] \o queued[c] \o <<>>, e.id)
        BY <1>1, <2>2, RelayedIsDue
      <3> QED
        BY <3>1, <3>3, <3>4, <3>5, Zenon
    <2>5. CASE user[c] # u
      <3>1. due'[c] = due[c] /\ c \notin todo'
        BY <1>1, <1>2, <2>5 DEF StreamInv, Registered
      <3>2. Received(c)' = Received(c)
        BY <2>1, <2>3, <3>1 DEF Received
      <3> QED
        BY <1>6, <2>1, <3>1, <3>2 DEF StreamInv, BurstDelivered
    <2> QED
      BY <2>4, <2>5
  <1> QED
    BY <1>3, <1>4, <1>5, <1>6 DEF StreamInv, BurstDelivered

LEMMA SendInv == ASSUME StreamInv, NEW c \in Conns, Send(c) PROVE StreamInv'
  <1>1. /\ spc = "send" /\ c \in todo
        /\ queued' = IF Room(c) THEN [queued EXCEPT ![c] = Append(@, msg)] ELSE queued
        /\ todo' = todo \ {c}
        /\ spc' = IF todo = {c} THEN "idle" ELSE "send"
        /\ UNCHANGED <<feed, count, msg, clients, closed, stream, gone, seen, due>>
    BY DEF Send, Offer
  <1>2. TypeOK'
    <2>1. queued' \in [Conns -> Seq(Nat)]
      BY <1>1 DEF StreamInv, TypeOK
    <2> QED
      BY <1>1, <2>1 DEF StreamInv, TypeOK, stream
  <1>3. Registered'
    BY <1>1 DEF StreamInv, Registered, Present, stream
  <1>4. Quiet'
    <2>1. hpc[c] # "new"
      BY <1>1 DEF StreamInv, Registered, Present
    <2> QED
      BY <1>1, <2>1 DEF StreamInv, TypeOK, Quiet, stream
  <1>5. ASSUME NEW d \in Conns, Open(d)', d \notin gone', Len(due'[d]) <= BufSize
        PROVE  Received(d)' = due'[d]
    <2>1. Received(d) = due[d] /\ due'[d] = due[d]
      BY <1>1, <1>5 DEF StreamInv, BurstDelivered, Open, stream
    <2>2. seen[d] \in Seq(Nat) /\ writing[d] \in Seq(Nat) /\ queued[d] \in Seq(Nat) /\ msg \in Nat
      BY DEF StreamInv, TypeOK
    <2>3. CASE d # c
      <3>1. queued'[d] = queued[d]
        BY <1>1, <2>3 DEF StreamInv, TypeOK
      <3>2. Received(d)' = Received(d)
        BY <1>1, <2>3, <3>1 DEF Received, stream
      <3> QED
        BY <2>1, <3>2
    <2>4. CASE d = c
      <3>1. due[c] = seen[c] \o writing[c] \o queued[c] \o <<msg>>
        BY <1>1, <2>1, <2>4, ReceivedForms
      <3>2. Len(queued[c]) < BufSize
        <4>1. Len(due[c]) > Len(queued[c])
          BY <2>2, <2>4, <3>1, FullMeansMany, Zenon
        <4>2. Len(due[c]) <= BufSize /\ due[c] \in Seq(Nat)
          BY <1>5, <2>1, <2>4 DEF StreamInv, TypeOK
        <4>3. queued[c] \in Seq(Nat)
          BY <2>2, <2>4
        <4> QED
          BY <4>1, <4>2, <4>3, StreamAssumption
      <3>3. queued'[c] = Append(queued[c], msg)
        BY <1>1, <3>2 DEF StreamInv, TypeOK, Room
      <3>4. Received(c)' = seen[c] \o writing[c] \o Append(queued[c], msg) \o <<>>
        BY <1>1, <3>3 DEF Received, stream
      <3>5. seen[c] \o writing[c] \o Append(queued[c], msg) \o <<>>
              = seen[c] \o writing[c] \o queued[c] \o <<msg>>
        <4>1. /\ seen[c] \in Seq(Nat) /\ writing[c] \in Seq(Nat) /\ queued[c] \in Seq(Nat)
              /\ msg \in Nat
          BY <2>2, <2>4
        <4> QED
          BY <4>1, SentIsBuffered, Zenon
      <3> QED
        BY <2>1, <2>4, <3>1, <3>4, <3>5, Zenon
    <2> QED
      BY <2>3, <2>4
  <1> QED
    BY <1>2, <1>3, <1>4, <1>5 DEF StreamInv, BurstDelivered

LEMMA AddClientInv == ASSUME StreamInv, NEW c \in Conns, AddClient(c) PROVE StreamInv'
  <1>1. PICK u \in Users : /\ clients' = [clients EXCEPT ![u] = @ \cup {c}]
                           /\ user' = [user EXCEPT ![c] = u]
    BY DEF AddClient
  <1>2. /\ hpc[c] = "new" /\ spc # "send"
        /\ hpc' = [hpc EXCEPT ![c] = "stream"]
        /\ UNCHANGED <<feed, count, subscriber, queued, closed, writing, gone, seen, due>>
    BY DEF AddClient, Unlocked
  <1>3. TypeOK'
    BY <1>1, <1>2 DEF StreamInv, TypeOK, subscriber
  <1>4. todo = {} /\ todo' = {}
    BY <1>2 DEF StreamInv, TypeOK, Registered, subscriber
  <1>5. c \notin closed
    BY <1>2 DEF StreamInv, Quiet
  <1>6. Registered'
    BY <1>1, <1>2, <1>4, <1>5 DEF StreamInv, TypeOK, Registered, Present, subscriber
  <1>7. Quiet'
    BY <1>2, <1>5 DEF StreamInv, TypeOK, Quiet
  <1>8. ASSUME NEW d \in Conns, Open(d)', d \notin gone', Len(due'[d]) <= BufSize
        PROVE  Received(d)' = due'[d]
    <2>1. CASE d = c
      <3>1. /\ seen[c] = <<>> /\ queued[c] = <<>> /\ due[c] = <<>> /\ writing[c] = <<>>
        BY <1>2 DEF StreamInv, Quiet
      <3>2. Received(c)' = <<>> \o <<>> \o <<>> \o <<>>
        BY <1>2, <1>4, <3>1 DEF Received
      <3> QED
        BY <1>2, <2>1, <3>1, <3>2
    <2>2. CASE d # c
      <3>1. Open(d)
        BY <1>2, <1>8, <2>2 DEF StreamInv, TypeOK, Open
      <3>2. Received(d)' = Received(d)
        BY <1>2 DEF Received, subscriber
      <3> QED
        BY <1>2, <1>8, <3>1, <3>2 DEF StreamInv, BurstDelivered
    <2> QED
      BY <2>1, <2>2
  <1> QED
    BY <1>3, <1>6, <1>7, <1>8 DEF StreamInv, BurstDelivered

LEMMA ReceiveInv == ASSUME StreamInv, NEW c \in Conns, Receive(c) PROVE StreamInv'
  <1>1. /\ hpc[c] = "stream" /\ queued[c] # <<>>
        /\ writing' = [writing EXCEPT ![c] = <<Head(queued[c])>>]
        /\ queued' = [queued EXCEPT ![c] = Tail(queued[c])]
        /\ hpc' = [hpc EXCEPT ![c] = "write"]
        /\ UNCHANGED <<feed, count, subscriber, clients, closed, user, gone, seen, due>>
    BY DEF Receive
  <1>2. queued[c] \in Seq(Nat) /\ Head(queued[c]) \in Nat /\ Tail(queued[c]) \in Seq(Nat)
    BY <1>1 DEF StreamInv, TypeOK
  <1>3. TypeOK'
    <2>1. writing' \in [Conns -> Seq(Nat)] /\ queued' \in [Conns -> Seq(Nat)]
      BY <1>1, <1>2 DEF StreamInv, TypeOK
    <2> QED
      BY <1>1, <2>1 DEF StreamInv, TypeOK, subscriber
  <1>4. Registered'
    BY <1>1 DEF StreamInv, TypeOK, Registered, Present, subscriber
  <1>5. Quiet'
    BY <1>1 DEF StreamInv, TypeOK, Quiet
  <1>6. ASSUME NEW d \in Conns, Open(d)', d \notin gone', Len(due'[d]) <= BufSize
        PROVE  Received(d)' = due'[d]
    <2>1. Received(d) = due[d] /\ due'[d] = due[d]
      BY <1>1, <1>6 DEF StreamInv, TypeOK, BurstDelivered, Open
    <2>2. CASE d = c
      <3> DEFINE p == IF c \in todo THEN <<msg>> ELSE <<>>
      <3>1. p \in Seq(Nat) /\ seen[c] \in Seq(Nat)
        BY DEF StreamInv, TypeOK
      <3>2. writing[c] = <<>>
        BY <1>1 DEF StreamInv, Quiet
      <3>3. Received(c) = seen[c] \o <<>> \o queued[c] \o p
        BY <3>2 DEF Received
      <3>4. writing'[c] = <<Head(queued[c])>> /\ queued'[c] = Tail(queued[c])
        BY <1>1 DEF StreamInv, TypeOK
      <3>5. Received(c)' = seen[c] \o <<Head(queued[c])>> \o Tail(queued[c]) \o p
        BY <1>1, <3>4 DEF Received, subscriber
      <3> QED
        BY <1>1, <1>2, <2>1, <2>2, <3>1, <3>3, <3>5, TakenIsWriting
    <2>3. CASE d # c
      <3>1. writing'[d] = writing[d] /\ queued'[d] = queued[d]
        BY <1>1, <2>3 DEF StreamInv, TypeOK
      <3> QED
        BY <1>1, <2>1, <3>1 DEF Received, subscriber
    <2> QED
      BY <2>2, <2>3
  <1> QED
    BY <1>3, <1>4, <1>5, <1>6 DEF StreamInv, BurstDelivered

LEMMA SSEventInv == ASSUME StreamInv, NEW c \in Conns, SSEvent(c) PROVE StreamInv'
  <1>1. /\ hpc[c] = "write"
        /\ seen' = IF c \in gone THEN seen ELSE [seen EXCEPT ![c] = seen[c] \o writing[c]]
        /\ writing' = [writing EXCEPT ![c] = <<>>]
        /\ hpc' = [hpc EXCEPT ![c] = "stream"]
        /\ UNCHANGED <<feed, count, subscriber, clients, queued, closed, user, gone, due>>
    BY DEF SSEvent
  <1>2. TypeOK'
    <2>1. writing' \in [Conns -> Seq(Nat)] /\ seen' \in [Conns -> Seq(Nat)]
      BY <1>1 DEF StreamInv, TypeOK
    <2> QED
      BY <1>1, <2>1 DEF StreamInv, TypeOK, subscriber
  <1>3. Registered'
    BY <1>1 DEF StreamInv, TypeOK, Registered, Present, subscriber
  <1>4. Quiet'
    BY <1>1 DEF StreamInv, TypeOK, Quiet
  <1>5. ASSUME NEW d \in Conns, Open(d)', d \notin gone', Len(due'[d]) <= BufSize
        PROVE  Received(d)' = due'[d]
    <2>1. Received(d) = due[d] /\ due'[d] = due[d] /\ d \notin gone
      BY <1>1, <1>5 DEF StreamInv, TypeOK, BurstDelivered, Open
    <2>2. CASE d = c
      <3> DEFINE p == IF c \in todo THEN <<msg>> ELSE <<>>
      <3>1. /\ p \in Seq(Nat) /\ seen[c] \in Seq(Nat) /\ writing[c] \in Seq(Nat)
            /\ queued[c] \in Seq(Nat)
        BY DEF StreamInv, TypeOK
      <3>2. Received(c) = seen[c] \o writing[c] \o queued[c] \o p
        BY DEF Received
      <3>3. writing'[c] = <<>> /\ seen'[c] = seen[c] \o writing[c]
        BY <1>1, <2>1, <2>2 DEF StreamInv, TypeOK
      <3>4. Received(c)' = (seen[c] \o writing[c]) \o <<>> \o queued[c] \o p
        BY <1>1, <3>3 DEF Received, subscriber
      <3>5. (seen[c] \o writing[c]) \o <<>> \o queued[c] \o p
              = seen[c] \o writing[c] \o queued[c] \o p
        BY <3>1, WrittenIsSeen
      <3> QED
        BY <2>1, <2>2, <3>2, <3>4, <3>5, Zenon
    <2>3. CASE d # c
      <3>1. writing'[d] = writing[d] /\ seen'[d] = seen[d]
        BY <1>1, <2>3 DEF StreamInv, TypeOK
      <3> QED
        BY <1>1, <2>1, <3>1 DEF Received, subscriber
    <2> QED
      BY <2>2, <2>3
  <1> QED
    BY <1>2, <1>3, <1>4, <1>5 DEF StreamInv, BurstDelivered

\* The end of a stream: nothing that is still due to anybody changes.
LEMMA EndInv ==
  ASSUME StreamInv, NEW c \in Conns, Disconnect(c) \/ StreamEnds(c) \/ RemoveClient(c)
  PROVE  StreamInv'
  <1>1. /\ \A d \in Conns : Open(d)' => Open(d)
        /\ \A d \in Conns : d \notin gone' => d \notin gone
        /\ UNCHANGED <<feed, count, subscriber, queued, user, writing, seen, due>>
    BY DEF StreamInv, TypeOK, Open, Disconnect, StreamEnds, RemoveClient, stream
  <1>2. BurstDelivered'
    BY <1>1 DEF StreamInv, BurstDelivered, Received, subscriber
  <1>3. CASE Disconnect(c)
    BY <1>2, <1>3 DEF StreamInv, TypeOK, Registered, Present, Quiet, Disconnect, subscriber,
                      stream
  <1>4. CASE StreamEnds(c)
    BY <1>2, <1>4 DEF StreamInv, TypeOK, Registered, Present, Quiet, StreamEnds, subscriber
  <1>5. CASE RemoveClient(c)
    <2>1. /\ hpc[c] = "leaving" /\ todo = {}
          /\ user[c] \in Users /\ c \in clients[user[c]]
      BY <1>5 DEF StreamInv, TypeOK, Registered, Present, RemoveClient, Unlocked
    <2>2. /\ closed' = closed \cup {c}
          /\ clients' = [clients EXCEPT ![user[c]] = clients[user[c]] \ {c}]
          /\ hpc' = [hpc EXCEPT ![c] = "returned"]
          /\ gone' = gone
      BY <1>5, <2>1 DEF RemoveClient
    <2>3. TypeOK'
      BY <1>1, <2>1, <2>2 DEF StreamInv, TypeOK, subscriber
    <2>4. Registered'
      BY <1>1, <2>1, <2>2 DEF StreamInv, TypeOK, Registered, Present, subscriber
    <2>5. Quiet'
      BY <1>1, <2>1, <2>2 DEF StreamInv, TypeOK, Quiet
    <2> QED
      BY <1>2, <2>3, <2>4, <2>5 DEF StreamInv
  <1> QED
    BY <1>3, <1>4, <1>5

LEMMA NextStreamInv == StreamInv /\ [Next]_vars => StreamInv'
  <1> SUFFICES ASSUME StreamInv, [Next]_vars PROVE StreamInv'
    OBVIOUS
  <1>1. ASSUME NEW u \in Users, Publish(u) PROVE StreamInv'
    BY <1>1, PublishInv
  <1>2. CASE Subscriber
    BY <1>2, RelayInv, SendInv DEF Subscriber
  <1>3. ASSUME NEW c \in Conns, SSEStream(c) \/ Disconnect(c) PROVE StreamInv'
    BY <1>3, AddClientInv, ReceiveInv, SSEventInv, EndInv DEF SSEStream
  <1>4. CASE UNCHANGED vars
    BY <1>4 DEF StreamInv, TypeOK, Registered, Present, Quiet, BurstDelivered, Received, Open,
                vars, subscriber, stream
  <1> QED
    BY <1>1, <1>2, <1>3, <1>4 DEF Next

--------------------------------------------------------------------------------

\* The inductive invariant of StatusStream holds.
THEOREM StreamInvariant == Spec => []StreamInv
  BY InitStreamInv, NextStreamInv, PTL DEF Spec

\* NoSendOnClosed: SendToClient and RemoveClient cannot make the server panic, whatever
\* streams come and go.
THEOREM NeverSendsOnClosed == Spec => []NoSendOnClosed
  <1>1. StreamInv => NoSendOnClosed
    BY DEF StreamInv, TypeOK, Registered, NoSendOnClosed
  <1> QED
    BY <1>1, StreamInvariant, PTL

\* BurstDelivered: the channel of a stream gives its client, in order and once, every event
\* of its user, and only those, as long as they are not more than it holds.
THEOREM BurstsDelivered == Spec => []BurstDelivered
  <1>1. StreamInv => BurstDelivered
    BY DEF StreamInv
  <1> QED
    BY <1>1, StreamInvariant, PTL
--------------------------------------------------------------------------------
(* The order of events, also when some are dropped. *)

LEMMA AppendElements ==
  ASSUME NEW s \in Seq(Nat), NEW m \in Nat
  PROVE  /\ Elements(Append(s, m)) = Elements(s) \cup {m}
         /\ Increasing(s) /\ (\A x \in Elements(s) : x < m) => Increasing(Append(s, m))
  <1>1. /\ Len(Append(s, m)) = Len(s) + 1 /\ Append(s, m)[Len(s) + 1] = m
        /\ Len(s) \in Nat
        /\ \A i \in 1..Len(s) : Append(s, m)[i] = s[i] /\ s[i] \in Nat
    OBVIOUS
  <1>2. \A i \in 1..(Len(s) + 1) : i \in 1..Len(s) \/ i = Len(s) + 1
    BY <1>1
  <1>3. Elements(Append(s, m)) \subseteq Elements(s) \cup {m}
    BY <1>1, <1>2 DEF Elements
  <1>4. Elements(s) \cup {m} \subseteq Elements(Append(s, m))
    <2>1. \A i \in 1..Len(s) : i \in 1..(Len(s) + 1)
      BY <1>1
    <2>2. Len(s) + 1 \in 1..(Len(s) + 1)
      BY <1>1
    <2> QED
      BY <1>1, <2>1, <2>2 DEF Elements
  <1>5. Increasing(s) /\ (\A x \in Elements(s) : x < m) => Increasing(Append(s, m))
    BY <1>1, <1>2 DEF Increasing, Elements
  <1> QED
    BY <1>3, <1>4, <1>5

LEMMA TailElements ==
  ASSUME NEW q \in Seq(Nat), q # <<>>
  PROVE  /\ Elements(<<Head(q)>>) \subseteq Elements(q)
         /\ Elements(Tail(q)) \subseteq Elements(q)
         /\ Increasing(<<Head(q)>>)
         /\ Increasing(q) => /\ Increasing(Tail(q))
                             /\ \A x \in Elements(<<Head(q)>>), y \in Elements(Tail(q)) : x < y
  <1>1. /\ Len(q) \in Nat \ {0} /\ Len(Tail(q)) = Len(q) - 1 /\ Head(q) = q[1]
        /\ \A i \in 1..(Len(q) - 1) : Tail(q)[i] = q[i + 1]
    OBVIOUS
  <1>2. Len(<<Head(q)>>) = 1 /\ <<Head(q)>>[1] = q[1]
    BY <1>1
  <1>3. Elements(<<Head(q)>>) = {q[1]}
    BY <1>2 DEF Elements
  <1>4. \A y \in Elements(Tail(q)) : \E k \in 2..Len(q) : y = q[k]
    BY <1>1 DEF Elements
  <1>5. Elements(<<Head(q)>>) \subseteq Elements(q) /\ Elements(Tail(q)) \subseteq Elements(q)
    BY <1>1, <1>3, <1>4 DEF Elements
  <1>6. Increasing(<<Head(q)>>)
    BY <1>2 DEF Increasing
  <1>7. Increasing(q) => Increasing(Tail(q))
    BY <1>1 DEF Increasing
  <1>8. ASSUME Increasing(q), NEW x \in Elements(<<Head(q)>>), NEW y \in Elements(Tail(q))
        PROVE  x < y
    BY <1>1, <1>3, <1>4, <1>8 DEF Increasing
  <1> QED
    BY <1>5, <1>6, <1>7, <1>8

LEMMA ConcatElements ==
  ASSUME NEW s \in Seq(Nat), NEW w \in Seq(Nat)
  PROVE  /\ Elements(s \o w) = Elements(s) \cup Elements(w)
         /\ /\ Increasing(s) /\ Increasing(w)
            /\ \A x \in Elements(s), y \in Elements(w) : x < y
            => Increasing(s \o w)
  <1>1. /\ Len(s) \in Nat /\ Len(w) \in Nat /\ Len(s \o w) = Len(s) + Len(w)
        /\ \A i \in 1..Len(s) : (s \o w)[i] = s[i]
        /\ \A i \in 1..Len(w) : (s \o w)[Len(s) + i] = w[i]
    OBVIOUS
  <1>2. \A i \in 1..(Len(s) + Len(w)) :
           i \in 1..Len(s) \/ \E j \in 1..Len(w) : i = Len(s) + j
    <2> SUFFICES ASSUME NEW i \in 1..(Len(s) + Len(w)), i \notin 1..Len(s)
                 PROVE  \E j \in 1..Len(w) : i = Len(s) + j
      OBVIOUS
    <2>1. i - Len(s) \in 1..Len(w) /\ i = Len(s) + (i - Len(s))
      BY <1>1
    <2> QED
      BY <2>1
  <1>3. Elements(s \o w) \subseteq Elements(s) \cup Elements(w)
    BY <1>1, <1>2 DEF Elements
  <1>4. Elements(s) \subseteq Elements(s \o w)
    <2>1. \A i \in 1..Len(s) : i \in 1..(Len(s) + Len(w))
      BY <1>1
    <2> QED
      BY <1>1, <2>1 DEF Elements
  <1>5. Elements(w) \subseteq Elements(s \o w)
    <2>1. \A i \in 1..Len(w) : Len(s) + i \in 1..(Len(s) + Len(w))
      BY <1>1
    <2> QED
      BY <1>1, <2>1 DEF Elements
  <1>6. ASSUME Increasing(s), Increasing(w), \A x \in Elements(s), y \in Elements(w) : x < y
        PROVE  Increasing(s \o w)
    <2> SUFFICES ASSUME NEW i \in 1..(Len(s) + Len(w)), NEW k \in 1..(Len(s) + Len(w)), i < k
                 PROVE  (s \o w)[i] < (s \o w)[k]
      BY <1>1 DEF Increasing
    <2>1. CASE i \in 1..Len(s) /\ k \in 1..Len(s)
      BY <1>1, <1>6, <2>1 DEF Increasing
    <2>2. ASSUME i \in 1..Len(s), NEW j \in 1..Len(w), k = Len(s) + j
          PROVE  (s \o w)[i] < (s \o w)[k]
      <3>1. (s \o w)[i] \in Elements(s) /\ (s \o w)[k] \in Elements(w)
        BY <1>1, <2>2 DEF Elements
      <3> QED
        BY <1>6, <3>1
    <2>3. ASSUME NEW j \in 1..Len(w), i = Len(s) + j, NEW l \in 1..Len(w), k = Len(s) + l
          PROVE  (s \o w)[i] < (s \o w)[k]
      <3>1. j < l
        BY <1>1, <2>3
      <3> QED
        BY <1>1, <1>6, <2>3, <3>1 DEF Increasing
    <2>4. ~(k \in 1..Len(s) /\ \E j \in 1..Len(w) : i = Len(s) + j)
      BY <1>1
    <2> QED
      BY <1>2, <2>1, <2>2, <2>3, <2>4
  <1> QED
    BY <1>3, <1>4, <1>5, <1>6

LEMMA NoElements == Elements(<<>>) = {} /\ Increasing(<<>>)
  BY DEF Elements, Increasing

\* The subscription holds events in the order of their numbers, all later than the one
\* the subscriber took last.
FeedInOrder ==
    /\ msg <= count
    /\ \A i \in 1..Len(feed) : msg < feed[i].id /\ feed[i].id <= count
    /\ \A i, k \in 1..Len(feed) : i < k => feed[i].id < feed[k].id

\* What a stream has, from the client back to the subscriber, and what its user's events
\* say of it. A stream that is being left may still be sent events; nobody reads them.
StreamInOrder(c) ==
    /\ Increasing(seen[c]) /\ Increasing(writing[c]) /\ Increasing(queued[c])
    /\ \A x \in Elements(seen[c]), y \in Elements(writing[c]) \cup Elements(queued[c]) : x < y
    /\ \A x \in Elements(writing[c]), y \in Elements(queued[c]) : x < y
    /\ \A x \in Elements(seen[c]) \cup Elements(writing[c]) \cup Elements(queued[c]) :
          x <= msg /\ (c \in todo => x < msg)
    /\ Elements(seen[c]) \subseteq Elements(due[c])
    /\ Open(c) => /\ Elements(writing[c]) \cup Elements(queued[c]) \subseteq Elements(due[c])
                  /\ c \in todo => msg \in Elements(due[c])

InOrder == FeedInOrder /\ \A c \in Conns : StreamInOrder(c)

LEMMA StreamTypes ==
  ASSUME StreamInv, NEW c \in Conns
  PROVE  /\ seen[c] \in Seq(Nat) /\ writing[c] \in Seq(Nat) /\ queued[c] \in Seq(Nat)
         /\ due[c] \in Seq(Nat) /\ msg \in Nat
         /\ Elements(seen[c]) \subseteq Nat /\ Elements(writing[c]) \subseteq Nat
         /\ Elements(queued[c]) \subseteq Nat
  <1>1. /\ seen[c] \in Seq(Nat) /\ writing[c] \in Seq(Nat) /\ queued[c] \in Seq(Nat)
        /\ due[c] \in Seq(Nat) /\ msg \in Nat
    BY DEF StreamInv, TypeOK
  <1>2. \A s \in Seq(Nat) : Elements(s) \subseteq Nat
    BY DEF Elements
  <1> QED
    BY <1>1, <1>2

LEMMA InitInOrder == Init => InOrder
  <1> SUFFICES ASSUME Init PROVE InOrder
    OBVIOUS
  <1>1. FeedInOrder
    BY DEF Init, FeedInOrder
  <1>2. \A c \in Conns : StreamInOrder(c)
    BY NoElements DEF Init, StreamInOrder, Open
  <1> QED
    BY <1>1, <1>2 DEF InOrder

\* Steps that leave a stream's events, and what the subscriber has for it, alone.
LEMMA StreamUntouched ==
  ASSUME NEW c \in Conns, StreamInOrder(c), Open(c)' => Open(c),
         UNCHANGED <<seen[c], writing[c], queued[c], due[c], msg>>, c \in todo' => c \in todo
  PROVE  StreamInOrder(c)'
  <1>1. UNCHANGED <<Elements(seen[c]), Elements(writing[c]), Elements(queued[c]),
                    Elements(due[c])>>
    BY DEF Elements
  <1>2. UNCHANGED <<Increasing(seen[c]), Increasing(writing[c]), Increasing(queued[c])>>
    BY DEF Increasing
  <1> QED
    BY <1>1, <1>2 DEF StreamInOrder

LEMMA PublishOrder == ASSUME StreamInv, InOrder, NEW u \in Users, Publish(u) PROVE InOrder'
  <1>1. PICK e : e.id = count + 1 /\ feed' = Append(feed, e) /\ e \in Event
    <2>1. count' = count + 1 /\ count' \in Nat
      BY StreamAssumption DEF Publish, StreamInv, TypeOK
    <2> QED
      BY <2>1 DEF Publish, Event
  <1>2. /\ count' = count + 1 /\ UNCHANGED <<msg, todo, seen, writing, queued, due, hpc>>
        /\ count \in Nat /\ msg \in Nat /\ feed \in Seq(Event)
    BY StreamAssumption DEF Publish, subscriber, stream, StreamInv, TypeOK
  <1>3. /\ Len(feed') = Len(feed) + 1 /\ Len(feed) \in Nat /\ feed'[Len(feed) + 1] = e
        /\ \A i \in 1..Len(feed) : feed'[i] = feed[i] /\ feed[i] \in Event
    BY <1>1, <1>2
  <1>4. \A i \in 1..Len(feed) : feed'[i].id = feed[i].id /\ feed[i].id \in Nat
    BY <1>3, EventFields
  <1>5. \A i \in 1..Len(feed') : i \in 1..Len(feed) \/ i = Len(feed) + 1
    BY <1>3
  <1>6. FeedInOrder'
    <2>1. msg' <= count'
      BY <1>2 DEF InOrder, FeedInOrder
    <2>2. \A i \in 1..Len(feed') : msg' < feed'[i].id /\ feed'[i].id <= count'
      BY <1>1, <1>2, <1>3, <1>4, <1>5 DEF InOrder, FeedInOrder
    <2>3. \A i, k \in 1..Len(feed') : i < k => feed'[i].id < feed'[k].id
      BY <1>1, <1>2, <1>3, <1>4, <1>5 DEF InOrder, FeedInOrder
    <2> QED
      BY <2>1, <2>2, <2>3 DEF FeedInOrder
  <1>7. \A c \in Conns : StreamInOrder(c)'
    BY <1>2, StreamUntouched DEF InOrder, Open
  <1> QED
    BY <1>6, <1>7 DEF InOrder

\* The event that is taken is later than everything the streams have.
LEMMA RelayOrder == ASSUME StreamInv, InOrder, Relay PROVE InOrder'
  <1> DEFINE e == Head(feed)
             u == UserOf(e)
  <1>1. /\ feed \in Seq(Event) /\ feed # <<>> /\ e \in Event /\ u \in Users /\ e.id \in Nat
        /\ msg \in Nat /\ count \in Nat
    BY EventFields, StreamAssumption DEF StreamInv, TypeOK, Relay
  <1>2. /\ spc = "idle" /\ msg' = e.id /\ todo' = clients[u] /\ feed' = Tail(feed)
        /\ due' = [c \in Conns |-> IF Open(c) /\ user[c] = u THEN Append(due[c], e.id)
                                                             ELSE due[c]]
        /\ UNCHANGED <<count, queued, writing, hpc, seen>>
    BY DEF Relay, stream
  <1>3. /\ Len(feed) \in Nat \ {0} /\ e = feed[1] /\ Len(Tail(feed)) = Len(feed) - 1
        /\ \A i \in 1..(Len(feed) - 1) : Tail(feed)[i] = feed[i + 1]
    BY <1>1
  <1> HIDE DEF e, u
  <1>4. msg < e.id /\ e.id <= count /\ \A i \in 2..Len(feed) : e.id < feed[i].id
    BY <1>3 DEF InOrder, FeedInOrder
  <1>5. FeedInOrder'
    BY <1>1, <1>2, <1>3, <1>4 DEF InOrder, FeedInOrder
  <1>6. ASSUME NEW c \in Conns PROVE StreamInOrder(c)'
    <2>1. StreamInOrder(c) /\ c \notin todo
      BY <1>2 DEF InOrder, StreamInv, Registered
    <2>2. ASSUME NEW x \in Elements(seen[c]) \cup Elements(writing[c]) \cup Elements(queued[c])
          PROVE  x < e.id /\ x <= e.id
      <3>1. x \in Nat
        BY StreamTypes
      <3>2. x <= msg
        BY <2>1 DEF StreamInOrder
      <3> QED
        BY <1>1, <1>4, <3>1, <3>2
    <2>3. Elements(due[c]) \subseteq Elements(due'[c])
      BY <1>1, <1>2, StreamTypes, AppendElements
    <2>4. Open(c) /\ c \in todo' => e.id \in Elements(due'[c])
      BY <1>1, <1>2, StreamTypes, AppendElements DEF StreamInv, Registered
    <2>5. UNCHANGED <<Elements(seen[c]), Elements(writing[c]), Elements(queued[c]), Open(c)>>
      BY <1>2 DEF Elements, Open
    <2>6. UNCHANGED <<Increasing(seen[c]), Increasing(writing[c]), Increasing(queued[c])>>
      BY <1>2 DEF Increasing
    <2>7. Elements(due[c])' = Elements(due'[c])
      BY DEF Elements
    <2> QED
      BY <1>2, <2>1, <2>2, <2>3, <2>4, <2>5, <2>6, <2>7 DEF StreamInOrder
  <1> QED
    BY <1>5, <1>6 DEF InOrder

LEMMA SendOrder == ASSUME StreamInv, InOrder, NEW c \in Conns, Send(c) PROVE InOrder'
  <1>1. /\ c \in todo /\ todo' = todo \ {c}
        /\ queued' = IF Room(c) THEN [queued EXCEPT ![c] = Append(queued[c], msg)] ELSE queued
        /\ UNCHANGED <<feed, count, msg, writing, hpc, seen, due>>
    BY DEF Send, Offer, stream
  <1>2. FeedInOrder'
    BY <1>1 DEF InOrder, FeedInOrder
  <1>3. ASSUME NEW d \in Conns, queued'[d] = queued[d] PROVE StreamInOrder(d)'
    BY <1>1, <1>3, StreamUntouched DEF InOrder, Open
  <1>4. ASSUME queued'[c] = Append(queued[c], msg) PROVE StreamInOrder(c)'
    <2>1. StreamInOrder(c)
      BY DEF InOrder
    <2>2. \A x \in Elements(seen[c]) \cup Elements(writing[c]) \cup Elements(queued[c]) : x < msg
      BY <1>1, <2>1 DEF StreamInOrder
    <2>3. Elements(queued'[c]) = Elements(queued[c]) \cup {msg} /\ Increasing(queued'[c])
      BY <1>4, <2>1, <2>2, StreamTypes, AppendElements DEF StreamInOrder
    <2>4. UNCHANGED <<Elements(seen[c]), Elements(writing[c]), Elements(due[c]), Open(c)>>
      BY <1>1 DEF Elements, Open
    <2>5. UNCHANGED <<Increasing(seen[c]), Increasing(writing[c])>>
      BY <1>1 DEF Increasing
    <2>6. Elements(queued[c])' = Elements(queued'[c]) /\ Increasing(queued[c])' = Increasing(queued'[c])
      BY DEF Elements, Increasing
    <2>7. msg \in Nat
      BY StreamTypes
    <2> QED
      BY <1>1, <2>1, <2>2, <2>3, <2>4, <2>5, <2>6, <2>7 DEF StreamInOrder
  <1>5. \A d \in Conns : queued'[d] = queued[d] \/ (d = c /\ queued'[c] = Append(queued[c], msg))
    BY <1>1 DEF StreamInv, TypeOK
  <1> QED
    BY <1>2, <1>3, <1>4, <1>5 DEF InOrder

LEMMA ReceiveOrder == ASSUME StreamInv, InOrder, NEW c \in Conns, Receive(c) PROVE InOrder'
  <1>1. /\ hpc[c] = "stream" /\ queued[c] # <<>>
        /\ writing' = [writing EXCEPT ![c] = <<Head(queued[c])>>]
        /\ queued' = [queued EXCEPT ![c] = Tail(queued[c])]
        /\ hpc' = [hpc EXCEPT ![c] = "write"]
        /\ UNCHANGED <<feed, count, msg, todo, seen, due>>
    BY DEF Receive, subscriber
  <1>2. FeedInOrder'
    BY <1>1 DEF InOrder, FeedInOrder
  <1>3. ASSUME NEW d \in Conns \ {c} PROVE StreamInOrder(d)'
    BY <1>1, <1>3, StreamUntouched DEF InOrder, Open, StreamInv, TypeOK
  <1>4. StreamInOrder(c)'
    <2>1. StreamInOrder(c) /\ Open(c) /\ Open(c)'
      BY <1>1 DEF InOrder, Open, StreamInv, TypeOK
    <2>2. writing'[c] = <<Head(queued[c])>> /\ queued'[c] = Tail(queued[c])
      BY <1>1 DEF StreamInv, TypeOK
    <2>3. /\ Elements(writing'[c]) \subseteq Elements(queued[c])
          /\ Elements(queued'[c]) \subseteq Elements(queued[c])
          /\ Increasing(writing'[c]) /\ Increasing(queued'[c])
          /\ \A x \in Elements(writing'[c]), y \in Elements(queued'[c]) : x < y
      <3>1. queued[c] \in Seq(Nat) /\ Increasing(queued[c])
        BY <2>1, StreamTypes DEF StreamInOrder
      <3>2. /\ Elements(<<Head(queued[c])>>) \subseteq Elements(queued[c])
            /\ Elements(Tail(queued[c])) \subseteq Elements(queued[c])
            /\ Increasing(<<Head(queued[c])>>) /\ Increasing(Tail(queued[c]))
            /\ \A x \in Elements(<<Head(queued[c])>>), y \in Elements(Tail(queued[c])) : x < y
        BY <1>1, <3>1, TailElements, Zenon
      <3> QED
        BY <2>2, <3>2, Zenon
    <2>4. UNCHANGED <<Elements(seen[c]), Elements(due[c]), Increasing(seen[c])>>
      BY <1>1 DEF Elements, Increasing
    <2>5. /\ Elements(queued[c])' = Elements(queued'[c])
          /\ Increasing(queued[c])' = Increasing(queued'[c])
          /\ Elements(writing[c])' = Elements(writing'[c])
          /\ Increasing(writing[c])' = Increasing(writing'[c])
      BY DEF Elements, Increasing
    <2> QED
      BY <1>1, <2>1, <2>3, <2>4, <2>5 DEF StreamInOrder
  <1> QED
    BY <1>2, <1>3, <1>4 DEF InOrder

LEMMA SSEventOrder == ASSUME StreamInv, InOrder, NEW c \in Conns, SSEvent(c) PROVE InOrder'
  <1>1. /\ hpc[c] = "write"
        /\ seen' = IF c \in gone THEN seen ELSE [seen EXCEPT ![c] = seen[c] \o writing[c]]
        /\ writing' = [writing EXCEPT ![c] = <<>>]
        /\ hpc' = [hpc EXCEPT ![c] = "stream"]
        /\ UNCHANGED <<feed, count, msg, todo, queued, due>>
    BY DEF SSEvent, subscriber
  <1>2. FeedInOrder'
    BY <1>1 DEF InOrder, FeedInOrder
  <1>3. ASSUME NEW d \in Conns \ {c} PROVE StreamInOrder(d)'
    BY <1>1, <1>3, StreamUntouched DEF InOrder, Open, StreamInv, TypeOK
  <1>4. StreamInOrder(c)'
    <2>1. StreamInOrder(c) /\ Open(c) /\ Open(c)'
      BY <1>1 DEF InOrder, Open, StreamInv, TypeOK
    <2>2. writing'[c] = <<>> /\ (seen'[c] = seen[c] \/ seen'[c] = seen[c] \o writing[c])
      BY <1>1 DEF StreamInv, TypeOK
    <2>3. Elements(writing'[c]) = {} /\ Increasing(writing'[c])
      BY <2>2, NoElements
    <2>4. Elements(seen'[c]) \subseteq Elements(seen[c]) \cup Elements(writing[c])
          /\ Increasing(seen'[c])
      BY <2>1, <2>2, StreamTypes, ConcatElements DEF StreamInOrder
    <2>5. UNCHANGED <<Elements(queued[c]), Elements(due[c]), Increasing(queued[c])>>
      BY <1>1 DEF Elements, Increasing
    <2>6. /\ Elements(seen[c])' = Elements(seen'[c])
          /\ Increasing(seen[c])' = Increasing(seen'[c])
          /\ Elements(writing[c])' = Elements(writing'[c])
          /\ Increasing(writing[c])' = Increasing(writing'[c])
      BY DEF Elements, Increasing
    <2> QED
      BY <1>1, <2>1, <2>3, <2>4, <2>5, <2>6 DEF StreamInOrder
  <1> QED
    BY <1>2, <1>3, <1>4 DEF InOrder

\* A stream that is opened has nothing yet; one that ends keeps what it has.
LEMMA ComeAndGoOrder ==
  ASSUME StreamInv, InOrder, NEW c \in Conns,
         AddClient(c) \/ StreamEnds(c) \/ RemoveClient(c) \/ Disconnect(c)
  PROVE  InOrder'
  <1>1. UNCHANGED <<feed, count, msg, todo, seen, writing, queued, due>>
    BY DEF AddClient, StreamEnds, RemoveClient, Disconnect, subscriber, stream
  <1>2. FeedInOrder'
    BY <1>1 DEF InOrder, FeedInOrder
  <1>3. ASSUME NEW d \in Conns, Open(d)' => Open(d) PROVE StreamInOrder(d)'
    BY <1>1, <1>3, StreamUntouched DEF InOrder
  <1>4. ASSUME NEW d \in Conns, Open(d)', ~Open(d) PROVE StreamInOrder(d)'
    <2>1. hpc[d] = "new" /\ spc # "send"
      BY <1>4 DEF AddClient, StreamEnds, RemoveClient, Disconnect, Open, Unlocked, stream,
                  StreamInv, TypeOK
    <2>2. seen[d] = <<>> /\ writing[d] = <<>> /\ queued[d] = <<>> /\ d \notin todo
      BY <2>1 DEF StreamInv, Quiet, Registered, TypeOK
    <2> QED
      BY <1>1, <2>2, NoElements DEF StreamInOrder
  <1> QED
    BY <1>2, <1>3, <1>4 DEF InOrder

\* SeenInOrder: for any number of users, streams and events and any capacity, no client is
\* shown an event twice, out of order, or that is not its user's, whatever was dropped.
THEOREM ClientsSeeInOrder == Spec => []SeenInOrder
  <1>1. Init => InOrder
    BY InitInOrder
  <1>2. StreamInv /\ InOrder /\ [Next]_vars => InOrder'
    <2> SUFFICES ASSUME StreamInv, InOrder, [Next]_vars PROVE InOrder'
      OBVIOUS
    <2>1. CASE UNCHANGED vars
      <3>1. FeedInOrder'
        BY <2>1 DEF InOrder, FeedInOrder, vars, subscriber
      <3>2. \A c \in Conns : StreamInOrder(c)'
        BY <2>1, StreamUntouched DEF InOrder, Open, vars, subscriber, stream
      <3> QED
        BY <3>1, <3>2 DEF InOrder
    <2>2. ASSUME NEW c \in Conns, SSEStream(c) \/ Disconnect(c) PROVE InOrder'
      BY <2>2, ReceiveOrder, SSEventOrder, ComeAndGoOrder DEF SSEStream
    <2> QED
      BY <2>1, <2>2, PublishOrder, RelayOrder, SendOrder DEF Next, Subscriber
  <1>3. InOrder => SeenInOrder
    BY DEF InOrder, StreamInOrder, SeenInOrder
  <1> QED
    BY <1>1, <1>2, <1>3, StreamInvariant, PTL DEF Spec
================================================================================
