----------------------------- MODULE StatusStream ------------------------------
(***************************************************************************)
(* The last leg of a status change: the server's Redis subscriber relays    *)
(* each event to the event streams its user has open, through one buffered  *)
(* Go channel per stream.                                                   *)
(*                                                                          *)
(* Source: internal/sse (subscriber, manager, handler) and the channel      *)
(* names of internal/worker/handler.go. An event that Redis loses before it *)
(* reaches the subscriber is not in feed.                                   *)
(*                                                                          *)
(* AddClient and RemoveClient do all their work under the write lock, and   *)
(* are one step each. SendToClient holds the read lock over several sends,  *)
(* which interleave with the streams that empty their channels.             *)
(***************************************************************************)
EXTENDS Integers, Sequences

CONSTANTS
    Users,
    Conns,      \* streams that are ever opened, by connID
    BufSize,    \* the capacity of a stream's channel, 10 in the code
    MaxEvents,  \* bound: events that are ever published
    None

ASSUME StreamAssumption ==
    /\ None \notin Users
    /\ BufSize \in Nat \ {0}
    /\ MaxEvents \in Nat

VARIABLES
    feed,     \* the Go channel of the Redis subscription
    count,    \* events published so far; they are numbered
    spc, msg, todo,   \* the subscriber: in SendToClient, for which event, streams left
    clients,  \* ClientManager.clients; users without a stream have no entry, here {}
    queued,   \* the contents of the streams' channels
    closed,   \* the channels that were closed
    hpc, user, writing,   \* the SSEStream requests
    gone,     \* streams whose client has disconnected
    seen,     \* what has been written to a client
    due       \* ghost: events relayed for the stream's user while the stream was open

subscriber == <<spc, msg, todo>>
stream == <<hpc, user, writing>>
vars == <<feed, count, subscriber, clients, queued, closed, stream, gone, seen, due>>

\* A status event goes to the Redis channel "user:{userID}:jobs".
Channel(u) == <<"user", u, "jobs">>
Event == [channel : {Channel(u) : u \in Users}, id : Nat]

\* SplitN: the second of three segments.
UserOf(e) == e.channel[2]

TypeOK ==
    /\ feed \in Seq(Event)
    /\ count \in 0..MaxEvents
    /\ spc \in {"idle", "send"}
    /\ msg \in Nat
    /\ todo \subseteq Conns
    /\ clients \in [Users -> SUBSET Conns]
    /\ queued \in [Conns -> Seq(Nat)]
    /\ closed \subseteq Conns
    /\ hpc \in [Conns -> {"new", "stream", "write", "leaving", "returned"}]
    /\ user \in [Conns -> Users \cup {None}]
    /\ writing \in [Conns -> Seq(Nat)]
    /\ gone \subseteq Conns
    /\ seen \in [Conns -> Seq(Nat)]
    /\ due \in [Conns -> Seq(Nat)]

Init ==
    /\ feed = <<>>
    /\ count = 0
    /\ spc = "idle"
    /\ msg = 0
    /\ todo = {}
    /\ clients = [u \in Users |-> {}]
    /\ queued = [c \in Conns |-> <<>>]
    /\ closed = {}
    /\ hpc = [c \in Conns |-> "new"]
    /\ user = [c \in Conns |-> None]
    /\ writing = [c \in Conns |-> <<>>]
    /\ gone = {}
    /\ seen = [c \in Conns |-> <<>>]
    /\ due = [c \in Conns |-> <<>>]

Open(c) == hpc[c] \in {"stream", "write"}

--------------------------------------------------------------------------------
(* The subscriber. *)

\* publishStatusEvent of the worker.
Publish(u) ==
    /\ count < MaxEvents
    /\ count' = count + 1
    /\ feed' = Append(feed, [channel |-> Channel(u), id |-> count'])
    /\ UNCHANGED <<subscriber, clients, queued, closed, stream, gone, seen, due>>

\* The loop of Start takes an event, and SendToClient takes the read lock.
Relay ==
    /\ spc = "idle"
    /\ feed # <<>>
    /\ LET e == Head(feed) IN
       /\ msg' = e.id
       /\ todo' = clients[UserOf(e)]
       /\ spc' = IF clients[UserOf(e)] = {} THEN "idle" ELSE "send"
       /\ due' = [c \in Conns |-> IF Open(c) /\ user[c] = UserOf(e)
                                    THEN Append(due[c], e.id) ELSE due[c]]
    /\ feed' = Tail(feed)
    /\ UNCHANGED <<count, clients, queued, closed, stream, gone, seen>>

\* Mutant: the channel is one shorter.
Room_OneLess(c) == Len(queued[c]) + 1 < BufSize

\* A send on the channel would not block.
Room(c) == Len(queued[c]) < BufSize

\* Mutant: a plain send, which waits for room.
Offer_Blocking(c) ==
    /\ Room(c)
    /\ queued' = [queued EXCEPT ![c] = Append(@, msg)]

\* The select of SendToClient: the event is dropped when there is no room.
Offer(c) ==
    queued' = IF Room(c) THEN [queued EXCEPT ![c] = Append(@, msg)] ELSE queued

\* One round of SendToClient's loop; after the last one the read lock is released.
Send(c) ==
    /\ spc = "send"
    /\ c \in todo
    /\ Offer(c)
    /\ todo' = todo \ {c}
    /\ spc' = IF todo = {c} THEN "idle" ELSE "send"
    /\ UNCHANGED <<feed, count, msg, clients, closed, stream, gone, seen, due>>

--------------------------------------------------------------------------------
(* The streams. *)

\* Mutant: RemoveClient and AddClient forget the lock.
Unlocked_Always == TRUE

\* The write lock can be had: nobody holds the read lock.
Unlocked == spc # "send"

\* SSEStream up to AddClient, for a user whose token matches the path.
AddClient(c) ==
    /\ hpc[c] = "new"
    /\ Unlocked
    /\ \E u \in Users :
        /\ clients' = [clients EXCEPT ![u] = @ \cup {c}]
        /\ user' = [user EXCEPT ![c] = u]
    /\ hpc' = [hpc EXCEPT ![c] = "stream"]
    /\ UNCHANGED <<feed, count, subscriber, queued, closed, writing, gone, seen, due>>

\* Mutant: the event is read and not taken out.
Receive_Peeks(c) ==
    /\ hpc[c] = "stream"
    /\ queued[c] # <<>>
    /\ writing' = [writing EXCEPT ![c] = <<Head(queued[c])>>]
    /\ hpc' = [hpc EXCEPT ![c] = "write"]
    /\ UNCHANGED <<feed, count, subscriber, clients, queued, closed, user, gone, seen, due>>

\* A step of c.Stream: the select takes an event out of the channel.
Receive(c) ==
    /\ hpc[c] = "stream"
    /\ queued[c] # <<>>
    /\ writing' = [writing EXCEPT ![c] = <<Head(queued[c])>>]
    /\ queued' = [queued EXCEPT ![c] = Tail(@)]
    /\ hpc' = [hpc EXCEPT ![c] = "write"]
    /\ UNCHANGED <<feed, count, subscriber, clients, closed, user, gone, seen, due>>

\* SSEvent and the flush, which take as long as the client likes; what is written to a
\* client that has gone is lost, and its error is not looked at.
SSEvent(c) ==
    /\ hpc[c] = "write"
    /\ seen' = IF c \in gone THEN seen ELSE [seen EXCEPT ![c] = @ \o writing[c]]
    /\ writing' = [writing EXCEPT ![c] = <<>>]
    /\ hpc' = [hpc EXCEPT ![c] = "stream"]
    /\ UNCHANGED <<feed, count, subscriber, clients, queued, closed, user, gone, due>>

Disconnect(c) ==
    /\ Open(c)
    /\ c \notin gone
    /\ gone' = gone \cup {c}
    /\ UNCHANGED <<feed, count, subscriber, clients, queued, closed, stream, seen, due>>

\* Mutant: no deferred RemoveClient.
StreamEnds_NoDefer(c) ==
    /\ hpc[c] = "stream"
    /\ c \in gone
    /\ hpc' = [hpc EXCEPT ![c] = "returned"]
    /\ UNCHANGED <<feed, count, subscriber, clients, queued, closed, user, writing, gone,
                   seen, due>>

\* c.Stream returns: the context of the request is done.
StreamEnds(c) ==
    /\ hpc[c] = "stream"
    /\ c \in gone
    /\ hpc' = [hpc EXCEPT ![c] = "leaving"]
    /\ UNCHANGED <<feed, count, subscriber, clients, queued, closed, user, writing, gone,
                   seen, due>>

\* The deferred call: the channel is closed and forgotten.
RemoveClient(c) ==
    /\ hpc[c] = "leaving"
    /\ Unlocked
    /\ closed' = IF c \in clients[user[c]] THEN closed \cup {c} ELSE closed
    /\ clients' = [clients EXCEPT ![user[c]] = @ \ {c}]
    /\ hpc' = [hpc EXCEPT ![c] = "returned"]
    /\ UNCHANGED <<feed, count, subscriber, queued, user, writing, gone, seen, due>>

Subscriber == Relay \/ \E c \in Conns : Send(c)

SSEStream(c) ==
    AddClient(c) \/ Receive(c) \/ SSEvent(c) \/ StreamEnds(c) \/ RemoveClient(c)

Next ==
    \/ \E u \in Users : Publish(u)
    \/ Subscriber
    \/ \E c \in Conns : SSEStream(c) \/ Disconnect(c)

Spec == Init /\ [][Next]_vars

\* The subscriber runs. A client may read as slowly as it likes, but the write to one that
\* has gone comes to an end; then select finds the context done in the end, though it
\* chooses at random, and sync.RWMutex lets a waiting writer in before new readers.
Fairness ==
    /\ WF_vars(Subscriber)
    /\ \A c \in Conns :
        /\ WF_vars(c \in gone /\ SSEvent(c))
        /\ SF_vars(StreamEnds(c))
        /\ SF_vars(RemoveClient(c))

FairSpec == Spec /\ Fairness

--------------------------------------------------------------------------------
(* Properties. *)

\* SendToClient never sends on a closed channel, which would be a panic in the server: no
\* stream is removed while the subscriber is on its way through the map.
NoSendOnClosed == spc = "send" => todo \cap closed = {}

\* What has come to a stream, in order: written, being written, buffered, being sent.
Received(c) ==
    seen[c] \o writing[c] \o queued[c] \o (IF c \in todo THEN <<msg>> ELSE <<>>)

\* A connected stream gets every event of its user, no other, in order and once, as long
\* as no more come than its channel holds, however slow its client and whatever streams
\* come and go meanwhile.
BurstDelivered ==
    \A c \in Conns :
        Open(c) /\ c \notin gone /\ Len(due[c]) <= BufSize => Received(c) = due[c]

Increasing(s) == \A i, k \in 1..Len(s) : i < k => s[i] < s[k]
Elements(s) == {s[i] : i \in 1..Len(s)}

\* However many events were dropped for want of room, and whoever has gone: what a client
\* is shown are events of its own user from the time its stream was open, in the order in
\* which they were published, and none of them twice.
SeenInOrder ==
    \A c \in Conns : Increasing(seen[c]) /\ Elements(seen[c]) \subseteq Elements(due[c])

\* The subscriber gets through its events though some client never reads: a full channel
\* holds up neither the other streams nor the other users.
SlowClientsIsolated == []<>(feed = <<>> /\ spc = "idle")

\* A stream whose client has gone is closed and removed from the manager, however many
\* events keep coming for it.
GoneForgotten == \A c \in Conns : c \in gone ~> c \in closed /\ c \notin clients[user[c]]
================================================================================
