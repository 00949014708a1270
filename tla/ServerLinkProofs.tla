---------------------------- MODULE ServerLinkProofs ---------------------------
(***************************************************************************)
(* Proofs about ServerLink, for any number of requests and probes: how far  *)
(* the confirms can get out of step with the publishers.                    *)
(*                                                                          *)
(* The invariant counts: what is pending is what was abandoned and what is  *)
(* awaited (no more than that once the connection is lost), and as long as  *)
(* nothing was abandoned, every confirm is somebody's who still waits. The  *)
(* mutex makes that somebody the one who reads it.                          *)
(***************************************************************************)
EXTENDS ServerLink, FiniteSetTheorems, TLAPS

\* Counting the confirms among frames.

LEMMA ConfirmsFinite ==
    ASSUME NEW s \in Seq(Frame)
    PROVE  IsFiniteSet(ConfirmsIn(s)) /\ Cardinality(ConfirmsIn(s)) \in Nat
  <1>1. IsFiniteSet(1..Len(s)) /\ ConfirmsIn(s) \in SUBSET (1..Len(s))
    BY FS_Interval DEF ConfirmsIn
  <1> QED
    BY <1>1, FS_Subset, FS_CardinalityType

LEMMA ConfirmsAppend ==
    ASSUME NEW s \in Seq(Frame), NEW f \in Frame
    PROVE  Cardinality(ConfirmsIn(Append(s, f))) =
               Cardinality(ConfirmsIn(s)) + (IF f.kind = "confirm" THEN 1 ELSE 0)
  <1>1. f.kind = "confirm" => ConfirmsIn(Append(s, f)) = ConfirmsIn(s) \cup {Len(s) + 1}
    BY DEF ConfirmsIn
  <1>2. f.kind # "confirm" => ConfirmsIn(Append(s, f)) = ConfirmsIn(s)
    BY DEF ConfirmsIn
  <1>3. Len(s) + 1 \notin ConfirmsIn(s)
    BY DEF ConfirmsIn
  <1> QED
    BY <1>1, <1>2, <1>3, ConfirmsFinite, FS_AddElement

LEMMA ConfirmsTail ==
    ASSUME NEW s \in Seq(Frame), s # <<>>
    PROVE  Cardinality(ConfirmsIn(Tail(s))) =
               Cardinality(ConfirmsIn(s)) - (IF Head(s).kind = "confirm" THEN 1 ELSE 0)
  <1> DEFINE S == ConfirmsIn(Tail(s))
             T == ConfirmsIn(s) \ {1}
             f == [i \in S |-> i + 1]
  <1>1. Len(s) \in Nat /\ Len(s) > 0 /\ Tail(s) \in Seq(Frame) /\ Len(Tail(s)) = Len(s) - 1
    OBVIOUS
  <1>2. \A i \in 1..Len(s) - 1 : Tail(s)[i] = s[i + 1]
    BY <1>1
  <1>3. S = {i \in 1..Len(s) - 1 : s[i + 1].kind = "confirm"}
    BY <1>1, <1>2 DEF ConfirmsIn
  <1>4. T = {i \in 2..Len(s) : s[i].kind = "confirm"}
    BY <1>1 DEF ConfirmsIn
  <1>5. f \in Bijection(S, T)
    <2>1. f \in [S -> T]
      BY <1>1, <1>3, <1>4
    <2>2. \A a, b \in S : f[a] = f[b] => a = b
      BY <1>3
    <2>3. \A t \in T : \E i \in S : f[i] = t
      <3> SUFFICES ASSUME NEW t \in T
                   PROVE  \E i \in S : f[i] = t
        OBVIOUS
      <3>1. t - 1 \in S /\ f[t - 1] = t
        BY <1>1, <1>3, <1>4
      <3> QED
        BY <3>1
    <2> QED
      BY <2>1, <2>2, <2>3 DEF Bijection, Injection, Surjection, IsInjective
  <1>6. Cardinality(S) = Cardinality(T)
    <2>1. ExistsBijection(S, T)
      BY <1>5 DEF ExistsBijection
    <2> QED
      BY <1>1, <2>1, ConfirmsFinite, FS_Bijection
  <1>7. 1 \in ConfirmsIn(s) <=> Head(s).kind = "confirm"
    BY <1>1 DEF ConfirmsIn
  <1>8. Cardinality(T) = Cardinality(ConfirmsIn(s)) - (IF 1 \in ConfirmsIn(s) THEN 1 ELSE 0)
    <2>1. IsFiniteSet(ConfirmsIn(s)) /\ Cardinality(ConfirmsIn(s)) \in Nat
      BY ConfirmsFinite
    <2>2. Cardinality(T) = IF 1 \in ConfirmsIn(s) THEN Cardinality(ConfirmsIn(s)) - 1
                                                  ELSE Cardinality(ConfirmsIn(s))
      BY <2>1, FS_RemoveElement
    <2> QED
      BY <2>1, <2>2
  <1> QED
    BY <1>6, <1>7, <1>8

LEMMA ConfirmsPrefix ==
    ASSUME NEW s \in Seq(Frame), NEW k \in 0..Len(s)
    PROVE  /\ SubSeq(s, 1, k) \in Seq(Frame)
           /\ ConfirmsIn(SubSeq(s, 1, k)) \subseteq ConfirmsIn(s)
           /\ Cardinality(ConfirmsIn(SubSeq(s, 1, k))) <= Cardinality(ConfirmsIn(s))
           /\ \A i \in ConfirmsIn(SubSeq(s, 1, k)) : SubSeq(s, 1, k)[i] = s[i]
  <1>1. /\ SubSeq(s, 1, k) \in Seq(Frame)
        /\ ConfirmsIn(SubSeq(s, 1, k)) \subseteq ConfirmsIn(s)
        /\ \A i \in ConfirmsIn(SubSeq(s, 1, k)) : SubSeq(s, 1, k)[i] = s[i]
    BY DEF ConfirmsIn
  <1> QED
    BY <1>1, ConfirmsFinite, FS_Subset
--------------------------------------------------------------------------------

\* A sequence that grows at its end, loses its head or is cut keeps its type.
LEMMA QueueFacts ==
    ASSUME NEW S, NEW s \in Seq(S)
    PROVE  /\ Len(s) \in Nat
           /\ \A x \in S : Append(s, x) \in Seq(S) /\ Len(Append(s, x)) = Len(s) + 1
           /\ s # <<>> => /\ Head(s) \in S
                          /\ Len(s) > 0
                          /\ Tail(s) \in Seq(S)
                          /\ Len(Tail(s)) = Len(s) - 1
  OBVIOUS

\* RabbitMQ.mu.
Mutex == \A p, q \in Holding : p = q

Drift ==
    /\ Pending <= abandoned + Cardinality(Awaiting)
    /\ Open => Pending = abandoned + Cardinality(Awaiting)
    /\ ~Open => unconfirmed = <<>>
    /\ link = "closed" => wire = <<>>

\* Every confirm that is pending is for somebody of P.
For(P) ==
    /\ \A i \in DOMAIN unconfirmed : unconfirmed[i] \in P
    /\ \A i \in ConfirmsIn(wire) : wire[i].to \in P
    /\ \A i \in DOMAIN confirms : confirms[i].to \in P

Addressed == abandoned = 0 => For(Awaiting)

LInv == TypeOK /\ Mutex /\ Drift /\ Addressed

\* With the mutex, nobody waits or one does.
LEMMA AwaitingOne ==
    ASSUME Mutex
    PROVE  /\ IsFiniteSet(Awaiting)
           /\ Cardinality(Awaiting) = IF Awaiting = {} THEN 0 ELSE 1
  <1>1. \A p, q \in Awaiting : p = q
    BY DEF Mutex, Awaiting, Holding
  <1>2. CASE Awaiting = {}
    BY <1>2, FS_EmptySet
  <1>3. CASE Awaiting # {}
    <2>1. PICK p : Awaiting = {p}
      BY <1>1, <1>3
    <2> QED
      BY <2>1, FS_Singleton
  <1> QED
    BY <1>2, <1>3

\* The sum of what is pending, and what it means that it is zero.
LEMMA PendingFacts ==
    ASSUME NEW u \in Seq(Procs), NEW w \in Seq(Frame), NEW c \in Seq(Frame),
           NEW n, n = Len(u) + Cardinality(ConfirmsIn(w)) + Len(c)
    PROVE  /\ n \in Nat
           /\ Cardinality(ConfirmsIn(w)) \in Nat
           /\ n = 0 => DOMAIN u = {} /\ ConfirmsIn(w) = {} /\ DOMAIN c = {}
  <1>1. Len(u) \in Nat /\ Len(c) \in Nat
    BY QueueFacts
  <1>2. IsFiniteSet(ConfirmsIn(w)) /\ Cardinality(ConfirmsIn(w)) \in Nat
    BY ConfirmsFinite
  <1>3. ASSUME n = 0
        PROVE  DOMAIN u = {} /\ ConfirmsIn(w) = {} /\ DOMAIN c = {}
    <2>1. Len(u) = 0 /\ Len(c) = 0 /\ Cardinality(ConfirmsIn(w)) = 0
      BY <1>1, <1>2, <1>3
    <2> QED
      BY <1>2, <2>1, FS_EmptySet
  <1> QED
    BY <1>1, <1>2, <1>3

LEMMA NonePending ==
    ASSUME TypeOK
    PROVE  /\ Pending \in Nat
           /\ Cardinality(ConfirmsIn(wire)) \in Nat
           /\ Pending = 0 => \A P : For(P)
  <1>1. unconfirmed \in Seq(Procs) /\ wire \in Seq(Frame) /\ confirms \in Seq(Frame)
    BY DEF TypeOK
  <1>2. /\ Pending \in Nat
        /\ Cardinality(ConfirmsIn(wire)) \in Nat
        /\ Pending = 0 => DOMAIN unconfirmed = {} /\ ConfirmsIn(wire) = {} /\ DOMAIN confirms = {}
    BY <1>1, PendingFacts DEF Pending
  <1> QED
    BY <1>2 DEF For

\* The same after a step.
LEMMA NonePendingNext ==
    ASSUME TypeOK'
    PROVE  /\ Pending' \in Nat
           /\ Pending' = 0 => \A P : For(P)'
  <1>1. unconfirmed' \in Seq(Procs) /\ wire' \in Seq(Frame) /\ confirms' \in Seq(Frame)
    BY DEF TypeOK
  <1>2. Pending' = Len(unconfirmed') + Cardinality(ConfirmsIn(wire')) + Len(confirms')
    BY DEF Pending
  <1>3. /\ Pending' \in Nat
        /\ Pending' = 0 => /\ DOMAIN unconfirmed' = {}
                           /\ ConfirmsIn(wire') = {}
                           /\ DOMAIN confirms' = {}
    BY <1>1, <1>2, PendingFacts
  <1> QED
    BY <1>3 DEF For

LEMMA InitInv == Init => LInv
  <1> SUFFICES ASSUME Init
               PROVE  LInv
    OBVIOUS
  <1>1. TypeOK
    <2>1. unconfirmed \in Seq(Procs) /\ wire \in Seq(Frame)
      BY DEF Init
    <2>2. confirms \in Seq(Frame) /\ Len(confirms) <= 1
      BY DEF Init
    <2>3. socket \in Seq(Procs \cup Probes) /\ Len(socket) <= SocketSize
      BY LinkAssumption DEF Init
    <2>4. /\ ppc \in [Procs -> {"idle", "lock", "write", "await"}]
          /\ probe \in [Probes -> {"idle", "open", "opening", "close", "closing"}]
      BY DEF Init
    <2> QED
      BY <2>1, <2>2, <2>3, <2>4 DEF Init, TypeOK
  <1>2. Holding = {} /\ Awaiting = {} /\ ConfirmsIn(wire) = {}
    BY DEF Init, Holding, Awaiting, ConfirmsIn
  <1>3. Pending = 0 /\ Cardinality(Awaiting) = 0
    <2>1. Len(unconfirmed) = 0 /\ Len(confirms) = 0
      BY DEF Init
    <2> QED
      BY <1>2, <2>1, FS_EmptySet DEF Pending
  <1> QED
    BY <1>1, <1>2, <1>3, NonePending DEF Init, LInv, Mutex, Drift, Addressed, Open

\* Steps that touch neither the publishers nor what the broker has sent.
LEMMA ElsewhereInv ==
    ASSUME LInv, TypeOK', UNCHANGED <<link, publisherVars, wire>>
    PROVE  LInv'
  BY DEF LInv, Mutex, Drift, Addressed, Open, Holding, Awaiting, Pending, For, ConfirmsIn,
         publisherVars

\* A publisher comes, takes the mutex or goes without having waited.
LEMMA CallInv ==
    ASSUME LInv, NEW p \in Procs, Call(p) \/ Lock(p) \/ PublishFails(p)
    PROVE  LInv'
  <1> USE DEF LInv
  <1>1. /\ ppc[p] # "await"
        /\ \E v \in {"idle", "lock", "write"} :
               ppc' = [ppc EXCEPT ![p] = v] /\ (v = "write" => Holding = {})
        /\ late' \in {late, late \ {p}}
        /\ UNCHANGED <<link, srv, alarm, socket, unconfirmed, confirms, abandoned, probe,
                       wire>>
    BY DEF Call, Lock, MutexFree, PublishFails, Return, brokerVars
  <1>2. TypeOK'
    BY <1>1 DEF TypeOK
  <1>3. Awaiting' = Awaiting
    BY <1>1 DEF Awaiting, TypeOK
  <1>4. Mutex'
    BY <1>1 DEF Mutex, Holding, TypeOK
  <1>5. Pending' = Pending /\ \A P : For(P)' <=> For(P)
    BY <1>1 DEF Pending, For, ConfirmsIn
  <1> QED
    BY <1>1, <1>2, <1>3, <1>4, <1>5 DEF Drift, Addressed, Open

LEMMA PublishSendsInv ==
    ASSUME LInv, NEW p \in Procs, PublishSends(p)
    PROVE  LInv'
  <1> USE DEF LInv
  <1>1. /\ ppc[p] = "write"
        /\ Open
        /\ Len(socket) < SocketSize
        /\ ppc' = [ppc EXCEPT ![p] = "await"]
        /\ socket' = Append(socket, p)
        /\ unconfirmed' = Append(unconfirmed, p)
        /\ UNCHANGED <<link, srv, alarm, late, confirms, abandoned, probe, wire>>
    BY DEF PublishSends, Writable
  <1>2. /\ unconfirmed' \in Seq(Procs)
        /\ Len(unconfirmed') = Len(unconfirmed) + 1
        /\ Len(unconfirmed) \in Nat
        /\ Len(confirms) \in Nat
    BY <1>1, QueueFacts DEF TypeOK
  <1>3. TypeOK'
    <2>1. socket' \in Seq(Procs \cup Probes) /\ Len(socket') <= SocketSize
      <3>1. /\ Len(socket) \in Nat
            /\ Append(socket, p) \in Seq(Procs \cup Probes)
            /\ Len(Append(socket, p)) = Len(socket) + 1
        BY QueueFacts DEF TypeOK
      <3> QED
        BY <1>1, <3>1, LinkAssumption
    <2> QED
      BY <1>1, <1>2, <2>1 DEF TypeOK
  <1>4. Holding = {p} /\ Awaiting = {}
    BY <1>1 DEF Mutex, Holding, Awaiting
  <1>5. Holding' = {p} /\ Awaiting' = {p}
    BY <1>1, <1>4 DEF Holding, Awaiting, TypeOK
  <1>6. Cardinality(Awaiting') = 1 /\ Cardinality(Awaiting) = 0
    BY <1>4, <1>5, FS_Singleton, FS_EmptySet
  <1>7. Pending' = Pending + 1
    <2>1. ConfirmsIn(wire)' = ConfirmsIn(wire)
      BY <1>1 DEF ConfirmsIn
    <2> QED
      BY <1>1, <1>2, <2>1, NonePending DEF Pending
  <1>8. Mutex' /\ Drift'
    BY <1>1, <1>3, <1>5, <1>6, <1>7, NonePending DEF Mutex, Drift, Open, TypeOK
  <1>9. Addressed'
    <2> SUFFICES ASSUME abandoned = 0
                 PROVE  For({p})'
      BY <1>1, <1>5 DEF Addressed
    <2>1. For({})
      BY <1>4 DEF Addressed
    <2>2. DOMAIN unconfirmed = {} /\ ConfirmsIn(wire) = {} /\ DOMAIN confirms = {}
      BY <2>1 DEF For
    <2>3. unconfirmed' = <<p>>
      <3>1. unconfirmed = <<>>
        BY <2>2 DEF TypeOK
      <3> QED
        BY <1>1, <3>1
    <2> QED
      BY <1>1, <2>2, <2>3 DEF For, ConfirmsIn
  <1> QED
    BY <1>3, <1>8, <1>9

\* The one who waited returns.
LEMMA ReturnFacts ==
    ASSUME LInv, NEW p \in Procs, ppc[p] = "await", Return(p)
    PROVE  /\ Awaiting = {p}
           /\ Awaiting' = {}
           /\ Cardinality(Awaiting) = 1
           /\ Cardinality(Awaiting') = 0
           /\ Mutex'
  <1>1. Holding = {p} /\ Awaiting = {p}
    BY DEF LInv, Mutex, Holding, Awaiting
  <1>2. Holding' = {} /\ Awaiting' = {}
    BY <1>1 DEF Return, Holding, Awaiting, LInv, TypeOK
  <1> QED
    BY <1>1, <1>2, FS_Singleton, FS_EmptySet DEF Mutex

LEMMA AwaitConfirmInv ==
    ASSUME LInv, NEW p \in Procs, AwaitConfirm(p)
    PROVE  LInv'
  <1> USE DEF LInv
  <1>1. /\ ppc[p] = "await"
        /\ confirms # <<>>
        /\ confirms' = Tail(confirms)
        /\ Return(p)
        /\ UNCHANGED <<link, srv, alarm, socket, unconfirmed, abandoned, probe, wire>>
    BY DEF AwaitConfirm, brokerVars
  <1>2. /\ confirms' \in Seq(Frame)
        /\ Len(confirms') = Len(confirms) - 1
        /\ Len(confirms) \in Nat
        /\ Len(confirms) > 0
        /\ Len(unconfirmed) \in Nat
    BY <1>1, QueueFacts DEF TypeOK
  <1>3. TypeOK'
    BY <1>1, <1>2 DEF TypeOK, Return
  <1>4. /\ Awaiting = {p}
        /\ Awaiting' = {}
        /\ Cardinality(Awaiting) = 1
        /\ Cardinality(Awaiting') = 0
        /\ Mutex'
    BY <1>1, ReturnFacts
  <1>5. Pending' = Pending - 1
    <2>1. ConfirmsIn(wire)' = ConfirmsIn(wire)
      BY <1>1 DEF ConfirmsIn
    <2> QED
      BY <1>1, <1>2, <2>1, NonePending DEF Pending
  <1>6. Drift'
    BY <1>1, <1>4, <1>5, NonePending DEF Drift, Open, TypeOK
  <1>7. Addressed'
    <2>1. abandoned = 0 => Pending' = 0
      BY <1>1, <1>3, <1>4, <1>6, NonePendingNext DEF Drift
    <2> QED
      BY <1>1, <1>3, <2>1, NonePendingNext DEF Addressed
  <1> QED
    BY <1>3, <1>4, <1>6, <1>7

LEMMA ConfirmAbandonedInv ==
    ASSUME LInv, NEW p \in Procs, ConfirmAbandoned(p)
    PROVE  LInv'
  <1> USE DEF LInv
  <1>1. /\ ppc[p] = "await"
        /\ Return(p)
        /\ UNCHANGED <<link, srv, alarm, socket, unconfirmed, confirms, probe, wire>>
        /\ \/ abandoned' = abandoned + 1
           \/ link = "closed" /\ confirms = <<>> /\ abandoned' = abandoned
    BY DEF ConfirmAbandoned, brokerVars
  <1>2. TypeOK'
    BY <1>1 DEF TypeOK, Return
  <1>3. /\ Awaiting = {p}
        /\ Awaiting' = {}
        /\ Cardinality(Awaiting) = 1
        /\ Cardinality(Awaiting') = 0
        /\ Mutex'
    BY <1>1, ReturnFacts
  <1>4. Pending' = Pending /\ \A P : For(P)' <=> For(P)
    BY <1>1 DEF Pending, For, ConfirmsIn
  <1>5. CASE abandoned' = abandoned + 1
    <2>1. Drift'
      BY <1>1, <1>3, <1>4, <1>5, NonePending DEF Drift, Open, TypeOK
    <2>2. Addressed'
      BY <1>5 DEF Addressed, TypeOK
    <2> QED
      BY <1>2, <1>3, <2>1, <2>2
  <1>6. CASE link = "closed" /\ confirms = <<>> /\ abandoned' = abandoned
    <2>1. Pending = 0
      <3>1. unconfirmed = <<>> /\ ConfirmsIn(wire) = {}
        BY <1>6 DEF Drift, Open, ConfirmsIn
      <3> QED
        BY <1>6, <3>1, FS_EmptySet DEF Pending
    <2>2. Drift'
      BY <1>1, <1>3, <1>4, <1>6, <2>1 DEF Drift, Open, TypeOK
    <2>3. Addressed'
      BY <1>1, <1>4, <1>6, <2>1, NonePending DEF Addressed
    <2> QED
      BY <1>2, <1>3, <2>2, <2>3
  <1> QED
    BY <1>1, <1>5, <1>6

LEMMA BrokerConfirmsInv ==
    ASSUME LInv, BrokerConfirms
    PROVE  LInv'
  <1> USE DEF LInv
  <1> DEFINE f == [kind |-> "confirm", to |-> Head(unconfirmed)]
  <1>1. /\ Open
        /\ unconfirmed # <<>>
        /\ unconfirmed' = Tail(unconfirmed)
        /\ wire' = Append(wire, f)
        /\ UNCHANGED <<link, srv, alarm, socket, ppc, late, confirms, abandoned, probe>>
    <2> DEFINE S == {i \in DOMAIN socket : socket[i] \in Procs}
    <2>1. Cardinality(S) \in Nat
      <3>1. Len(socket) \in Nat /\ DOMAIN socket = 1..Len(socket)
        BY DEF TypeOK
      <3>2. IsFiniteSet(1..Len(socket)) /\ S \in SUBSET (1..Len(socket))
        BY <3>1, FS_Interval
      <3> QED
        BY <3>2, FS_Subset, FS_CardinalityType
    <2>2. Cardinality(S) < Len(unconfirmed)
      BY DEF BrokerConfirms
    <2>3. unconfirmed # <<>>
      BY <2>1, <2>2 DEF TypeOK
    <2> QED
      BY <2>3 DEF BrokerConfirms, brokerVars
  <1>2. /\ unconfirmed' \in Seq(Procs)
        /\ Len(unconfirmed') = Len(unconfirmed) - 1
        /\ Len(unconfirmed) \in Nat
        /\ Len(unconfirmed) > 0
        /\ Len(confirms) \in Nat
        /\ Head(unconfirmed) \in Procs
    BY <1>1, QueueFacts DEF TypeOK
  <1>3. f \in Frame /\ f.kind = "confirm" /\ wire \in Seq(Frame)
    BY <1>2 DEF Frame, TypeOK
  <1>4. TypeOK'
    BY <1>1, <1>2, <1>3 DEF TypeOK
  <1>5. Cardinality(ConfirmsIn(wire)') = Cardinality(ConfirmsIn(wire)) + 1
    <2>1. ConfirmsIn(wire)' = ConfirmsIn(Append(wire, f))
      BY <1>1
    <2> QED
      BY <1>3, <2>1, ConfirmsAppend
  <1>6. Pending' = Pending
    BY <1>1, <1>2, <1>5, NonePending DEF Pending
  <1>7. Awaiting' = Awaiting
    BY <1>1 DEF Awaiting
  <1>8. ASSUME NEW P, For(P)
        PROVE  For(P)'
    <2>1. \A i \in DOMAIN unconfirmed' : /\ i + 1 \in DOMAIN unconfirmed
                                         /\ unconfirmed'[i] = unconfirmed[i + 1]
      BY <1>1, <1>2 DEF TypeOK
    <2>2. \A i \in ConfirmsIn(wire)' : \/ i \in ConfirmsIn(wire) /\ wire'[i] = wire[i]
                                       \/ wire'[i] = f
      BY <1>1, <1>3 DEF ConfirmsIn
    <2>3. 1 \in DOMAIN unconfirmed /\ f.to = unconfirmed[1]
      BY <1>1, <1>2 DEF TypeOK
    <2> HIDE DEF f
    <2> QED
      BY <1>1, <1>8, <2>1, <2>2, <2>3 DEF For
  <1> QED
    BY <1>1, <1>4, <1>6, <1>7, <1>8 DEF Mutex, Holding, Drift, Addressed, Open

LEMMA BrokerReadsInv ==
    ASSUME LInv, BrokerReads
    PROVE  LInv'
  <1> USE DEF LInv
  <1> DEFINE f == [kind |-> "reply", to |-> Head(socket)]
  <1>1. /\ Open
        /\ socket # <<>>
        /\ socket' = Tail(socket)
        /\ wire' = IF Head(socket) \in Probes THEN Append(wire, f) ELSE wire
        /\ UNCHANGED <<link, srv, alarm, ppc, late, unconfirmed, confirms, abandoned, probe>>
    BY DEF BrokerReads, publisherVars
  <1>2. wire \in Seq(Frame)
    BY DEF TypeOK
  <1>3. socket' \in Seq(Procs \cup Probes) /\ Len(socket') <= SocketSize
    <2>1. /\ Len(socket) \in Nat
          /\ Tail(socket) \in Seq(Procs \cup Probes)
          /\ Len(Tail(socket)) = Len(socket) - 1
          /\ Len(socket) <= SocketSize
      BY <1>1, QueueFacts DEF TypeOK
    <2> QED
      BY <1>1, <2>1, LinkAssumption
  <1>4. /\ wire' \in Seq(Frame)
        /\ ConfirmsIn(wire)' = ConfirmsIn(wire)
        /\ \A i \in ConfirmsIn(wire) : wire'[i] = wire[i]
    <2>1. CASE Head(socket) \in Probes
      <3>1. f \in Frame /\ f.kind = "reply"
        BY <2>1 DEF Frame
      <3> HIDE DEF f
      <3> QED
        BY <1>1, <1>2, <2>1, <3>1 DEF ConfirmsIn
    <2>2. CASE Head(socket) \notin Probes
      BY <1>1, <1>2, <2>2 DEF ConfirmsIn
    <2> QED
      BY <2>1, <2>2
  <1>5. TypeOK'
    BY <1>1, <1>3, <1>4 DEF TypeOK
  <1>6. Pending' = Pending /\ \A P : For(P)' <=> For(P)
    BY <1>1, <1>4 DEF Pending, For
  <1>7. Awaiting' = Awaiting /\ Holding' = Holding
    BY <1>1 DEF Awaiting, Holding
  <1> QED
    BY <1>1, <1>5, <1>6, <1>7 DEF Mutex, Drift, Addressed, Open

LEMMA ReaderReadsInv ==
    ASSUME LInv, ReaderReads
    PROVE  LInv'
  <1> USE DEF LInv
  <1> DEFINE f == Head(wire)
  <1>1. /\ wire # <<>>
        /\ wire' = Tail(wire)
        /\ UNCHANGED <<link, srv, alarm, socket, ppc, late, unconfirmed, abandoned>>
    BY DEF ReaderReads, brokerVars
  <1>2. /\ f \in Frame
        /\ wire \in Seq(Frame)
        /\ wire' \in Seq(Frame)
        /\ Len(wire) \in Nat
        /\ Len(wire) > 0
        /\ Len(wire') = Len(wire) - 1
        /\ Len(unconfirmed) \in Nat
        /\ Len(confirms) \in Nat
        /\ Cardinality(ConfirmsIn(wire)) \in Nat
    BY <1>1, QueueFacts, NonePending DEF TypeOK
  <1>3. Cardinality(ConfirmsIn(wire)') =
            Cardinality(ConfirmsIn(wire)) - (IF f.kind = "confirm" THEN 1 ELSE 0)
    <2>1. ConfirmsIn(wire)' = ConfirmsIn(Tail(wire))
      BY <1>1
    <2> QED
      BY <1>1, <1>2, <2>1, ConfirmsTail
  <1>4. \A i \in ConfirmsIn(wire)' : i + 1 \in ConfirmsIn(wire) /\ wire'[i] = wire[i + 1]
    BY <1>1, <1>2 DEF ConfirmsIn
  <1>5. Awaiting' = Awaiting /\ Holding' = Holding
    BY <1>1 DEF Awaiting, Holding
  <1>6. CASE /\ f.kind = "confirm"
             /\ confirms = <<>>
             /\ confirms' = Append(confirms, f)
             /\ UNCHANGED probe
    <2>1. confirms' = <<f>>
      BY <1>6
    <2>2. confirms' \in Seq(Frame) /\ Len(confirms') = 1 /\ Len(confirms) = 0
      BY <1>2, <1>6, <2>1
    <2>3. TypeOK'
      BY <1>1, <1>2, <1>6, <2>2 DEF TypeOK
    <2>4. Pending' = Pending
      BY <1>1, <1>2, <1>3, <1>6, <2>2 DEF Pending
    <2>5. 1 \in ConfirmsIn(wire) /\ f = wire[1]
      BY <1>1, <1>2, <1>6 DEF ConfirmsIn
    <2>6. \A i \in DOMAIN confirms' : confirms'[i] = f
      BY <2>1
    <2> HIDE DEF f
    <2>7. ASSUME NEW P, For(P)
          PROVE  For(P)'
      BY <1>1, <1>4, <2>5, <2>6, <2>7 DEF For
    <2> QED
      BY <1>1, <1>5, <2>3, <2>4, <2>7 DEF Mutex, Drift, Addressed, Open
  <1>7. CASE /\ f.kind = "reply"
             /\ UNCHANGED confirms
             /\ probe' = [probe EXCEPT ![f.to] = IF @ = "opening" THEN "close" ELSE "idle"]
    <2>1. f.to \in Probes
      BY <1>2, <1>7 DEF Frame
    <2>2. TypeOK'
      BY <1>1, <1>2, <1>7, <2>1 DEF TypeOK
    <2>3. Pending' = Pending
      BY <1>1, <1>2, <1>3, <1>7 DEF Pending
    <2>4. ASSUME NEW P, For(P)
          PROVE  For(P)'
      BY <1>1, <1>4, <1>7, <2>4 DEF For
    <2> QED
      BY <1>1, <1>5, <2>2, <2>3, <2>4 DEF Mutex, Drift, Addressed, Open
  <1> QED
    BY <1>6, <1>7 DEF ReaderReads, Room

LEMMA ConnectionLostInv ==
    ASSUME LInv, ConnectionLost
    PROVE  LInv'
  <1> USE DEF LInv
  <1>1. PICK k \in 0..Len(wire) : wire' = SubSeq(wire, 1, k)
    BY DEF ConnectionLost
  <1>2. /\ link' = "lost"
        /\ alarm' = FALSE
        /\ socket' = <<>>
        /\ unconfirmed' = <<>>
        /\ UNCHANGED <<srv, ppc, late, confirms, probe, abandoned>>
    BY DEF ConnectionLost
  <1>3. wire \in Seq(Frame)
    BY DEF TypeOK
  <1>4. /\ wire' \in Seq(Frame)
        /\ ConfirmsIn(wire)' \subseteq ConfirmsIn(wire)
        /\ Cardinality(ConfirmsIn(wire)') <= Cardinality(ConfirmsIn(wire))
        /\ \A i \in ConfirmsIn(wire)' : wire'[i] = wire[i]
    BY <1>1, <1>3, ConfirmsPrefix
  <1>5. TypeOK'
    <2>1. /\ unconfirmed' \in Seq(Procs)
          /\ socket' \in Seq(Procs \cup Probes) /\ Len(socket') <= SocketSize
      BY <1>2, LinkAssumption
    <2> QED
      BY <1>2, <1>4, <2>1 DEF TypeOK
  <1>6. Awaiting' = Awaiting /\ Holding' = Holding
    BY <1>2 DEF Awaiting, Holding
  <1>7. Pending' <= Pending
    <2>1. Len(unconfirmed') = 0
      BY <1>2
    <2>2. Len(unconfirmed) \in Nat /\ Len(confirms) \in Nat
      BY QueueFacts DEF TypeOK
    <2>3. /\ Cardinality(ConfirmsIn(wire)) \in Nat
          /\ Cardinality(ConfirmsIn(wire)') \in Nat
      BY <1>3, <1>4, ConfirmsFinite
    <2> QED
      BY <1>2, <1>4, <2>1, <2>2, <2>3 DEF Pending
  <1>8. Drift'
    <2>1. Pending \in Nat /\ Pending' \in Nat /\ Cardinality(Awaiting) \in Nat
      BY <1>5, NonePending, NonePendingNext, AwaitingOne, FS_CardinalityType
    <2> QED
      BY <1>2, <1>6, <1>7, <2>1 DEF Drift, Open, TypeOK
  <1>9. Addressed'
    BY <1>2, <1>4, <1>6 DEF Addressed, For
  <1> QED
    BY <1>2, <1>5, <1>6, <1>8, <1>9 DEF Mutex

\* The library's shutdown drops all that was sent but the confirm in the reader's hands.
LEMMA ShutdownStartsInv ==
    ASSUME LInv, ShutdownStarts
    PROVE  LInv'
  <1> USE DEF LInv
  <1>1. /\ link = "lost" /\ link' = "closing"
        /\ UNCHANGED <<srv, alarm, socket, ppc, late, unconfirmed, confirms, probe, abandoned>>
        /\ wire' = IF Stalled THEN <<Head(wire)>> ELSE <<>>
    BY DEF ShutdownStarts, brokerVars, publisherVars
  <1>2. wire \in Seq(Frame) /\ unconfirmed = <<>>
    BY <1>1 DEF TypeOK, Drift, Open
  <1> DEFINE Prefix ==
               /\ wire' \in Seq(Frame)
               /\ ConfirmsIn(wire)' \subseteq ConfirmsIn(wire)
               /\ Cardinality(ConfirmsIn(wire)') <= Cardinality(ConfirmsIn(wire))
               /\ \A i \in ConfirmsIn(wire)' : wire'[i] = wire[i]
  <1>3. ASSUME Stalled
        PROVE  Prefix
    <2>1. /\ Len(wire) \in Nat /\ Len(wire) > 0
          /\ Head(wire) \in Frame
          /\ Head(wire).kind = "confirm"
      BY <1>2, <1>3, QueueFacts DEF Stalled
    <2>2. Head(wire) = wire[1] /\ 1 \in ConfirmsIn(wire)
      BY <1>2, <2>1 DEF ConfirmsIn
    <2>3. /\ wire' = <<wire[1]>>
          /\ wire' \in Seq(Frame)
      BY <1>1, <1>3, <2>1, <2>2
    <2>4. \A i \in ConfirmsIn(wire)' : i = 1 /\ wire'[i] = wire[1]
      BY <2>3 DEF ConfirmsIn
    <2> QED
      BY <1>2, <2>2, <2>3, <2>4, ConfirmsFinite, FS_Subset
  <1>4. ASSUME ~Stalled
        PROVE  Prefix
    <2>1. wire' = <<>> /\ wire' \in Seq(Frame) /\ ConfirmsIn(wire)' = {}
      BY <1>1, <1>4 DEF ConfirmsIn
    <2> QED
      BY <1>2, <2>1, ConfirmsFinite, FS_Subset
  <1>5. Prefix
    BY <1>3, <1>4
  <1>6. TypeOK'
    BY <1>1, <1>5 DEF TypeOK
  <1>7. Awaiting' = Awaiting /\ Holding' = Holding
    BY <1>1 DEF Awaiting, Holding
  <1>8. Pending' <= Pending
    <2>1. Len(unconfirmed) \in Nat /\ Len(confirms) \in Nat
      BY QueueFacts DEF TypeOK
    <2>2. /\ Cardinality(ConfirmsIn(wire)) \in Nat
          /\ Cardinality(ConfirmsIn(wire)') \in Nat
      BY <1>2, <1>5, ConfirmsFinite
    <2> QED
      BY <1>1, <1>5, <2>1, <2>2 DEF Pending
  <1>9. Drift'
    <2>1. Pending \in Nat /\ Pending' \in Nat /\ Cardinality(Awaiting) \in Nat
      BY <1>6, NonePending, NonePendingNext, AwaitingOne, FS_CardinalityType
    <2> QED
      BY <1>1, <1>2, <1>7, <1>8, <2>1 DEF Drift, Open, TypeOK
  <1>10. Addressed'
    BY <1>1, <1>5, <1>7 DEF Addressed, For
  <1> QED
    BY <1>6, <1>7, <1>9, <1>10 DEF Mutex

LEMMA ShutdownEndsInv ==
    ASSUME LInv, ShutdownEnds
    PROVE  LInv'
  BY DEF ShutdownEnds, LInv, TypeOK, Mutex, Drift, Addressed, Open, Holding, Awaiting, Pending,
         For, ConfirmsIn, brokerVars, publisherVars

\* A probe writes a frame, which is not the publishers' concern.
LEMMA ProbeWritesInv ==
    ASSUME LInv, NEW h \in Probes, ProbeWrites(h)
    PROVE  LInv'
  <1>1. /\ Len(socket) < SocketSize
        /\ socket' = Append(socket, h)
        /\ probe' = [probe EXCEPT ![h] = IF @ = "open" THEN "opening" ELSE "closing"]
        /\ UNCHANGED <<link, srv, alarm, publisherVars, wire>>
    BY DEF ProbeWrites, Writable
  <1>2. socket' \in Seq(Procs \cup Probes) /\ Len(socket') <= SocketSize
    <2>1. /\ Len(socket) \in Nat
          /\ Append(socket, h) \in Seq(Procs \cup Probes)
          /\ Len(Append(socket, h)) = Len(socket) + 1
      BY QueueFacts DEF LInv, TypeOK
    <2> QED
      BY <1>1, <2>1, LinkAssumption
  <1>3. TypeOK'
    BY <1>1, <1>2 DEF LInv, TypeOK, publisherVars
  <1> QED
    BY <1>1, <1>3, ElsewhereInv

\* The process takes everything along.
LEMMA ProcessEndsInv ==
    ASSUME LInv, ProcessEnds
    PROVE  LInv'
  <1> USE DEF LInv
  <1>1. TypeOK'
    <2>1. /\ unconfirmed' \in Seq(Procs) /\ wire' \in Seq(Frame)
          /\ confirms' \in Seq(Frame) /\ Len(confirms') <= 1
          /\ socket' \in Seq(Procs \cup Probes) /\ Len(socket') <= SocketSize
      BY LinkAssumption DEF ProcessEnds
    <2> QED
      BY <2>1 DEF ProcessEnds, TypeOK
  <1>2. Holding' = {} /\ Awaiting' = {} /\ ConfirmsIn(wire)' = {}
    BY DEF ProcessEnds, Holding, Awaiting, ConfirmsIn
  <1>3. Pending' = 0 /\ Cardinality(Awaiting') = 0
    <2>1. Len(unconfirmed') = 0 /\ Len(confirms') = 0
      BY DEF ProcessEnds
    <2> QED
      BY <1>2, <2>1, FS_EmptySet DEF Pending
  <1> QED
    BY <1>1, <1>2, <1>3, NonePendingNext DEF ProcessEnds, TypeOK, Mutex, Drift, Addressed, Open

LEMMA ContextDoneInv ==
    ASSUME LInv, NEW h \in Handlers, ContextDone(h)
    PROVE  LInv'
  BY DEF ContextDone, LInv, TypeOK, Mutex, Drift, Addressed, Open, Holding, Awaiting, Pending,
         For, ConfirmsIn, brokerVars

\* The invariant is inductive.
THEOREM LinkInvariant == Spec => []LInv
  <1>1. LInv /\ [Next]_vars => LInv'
    <2> SUFFICES ASSUME LInv, [Next]_vars
                 PROVE  LInv'
      OBVIOUS
    <2>1. CASE \/ Alarm \/ Signal \/ UNCHANGED vars
               \/ \E h \in Probes : Health(h) \/ ProbeFails(h)
      <3>1. UNCHANGED <<link, publisherVars, wire>>
        BY <2>1 DEF Alarm, Signal, Health, ProbeFails, vars
      <3>2. TypeOK'
        BY <2>1 DEF LInv, TypeOK, Alarm, Signal, Health, ProbeFails, vars, publisherVars,
                    brokerVars
      <3> QED
        BY <3>1, <3>2, ElsewhereInv
    <2>2. CASE \E p \in Procs : Call(p) \/ Publishing(p)
      BY <2>2, CallInv, PublishSendsInv, AwaitConfirmInv, ConfirmAbandonedInv DEF Publishing
    <2>3. CASE \/ BrokerReads \/ BrokerConfirms \/ ReaderReads \/ ConnectionLost
               \/ ShutdownStarts \/ ShutdownEnds
               \/ \E h \in Handlers : ContextDone(h)
               \/ \E h \in Probes : ProbeWrites(h)
      BY <2>3, BrokerReadsInv, BrokerConfirmsInv, ReaderReadsInv, ConnectionLostInv,
         ShutdownStartsInv, ShutdownEndsInv, ContextDoneInv, ProbeWritesInv
    <2>4. CASE ShutdownDone \/ ShutdownTimeout \/ ListenFails
      BY <2>4, ProcessEndsInv DEF ShutdownDone, ShutdownTimeout, ListenFails
    <2> QED
      BY <2>1, <2>2, <2>3, <2>4 DEF Next
  <1> QED
    BY <1>1, InitInv, PTL DEF Spec

\* ServerLink keeps its types: the channel of NotifyPublish never holds two confirms, and a
\* reply is always for a probe.
THEOREM LinkTypes == Spec => []TypeOK
  BY LinkInvariant, PTL DEF LInv

\* Taking the next confirm is right for any number of publishers until one gives up.
THEOREM ConfirmsAreOwn == Spec => []OwnConfirm
  <1>1. LInv => OwnConfirm
    <2> SUFFICES ASSUME LInv, NEW p \in Awaiting, confirms # <<>>, abandoned = 0
                 PROVE  Head(confirms).to = p
      BY DEF OwnConfirm, LInv, TypeOK
    <2>1. Awaiting = {p}
      BY DEF LInv, Mutex, Holding, Awaiting
    <2>2. 1 \in DOMAIN confirms /\ Head(confirms) = confirms[1]
      BY DEF LInv, TypeOK
    <2> QED
      BY <2>1, <2>2 DEF LInv, Addressed, For
  <1> QED
    BY <1>1, LinkInvariant, PTL

\* On an open connection the surplus of confirms is the number of abandoned waits.
THEOREM DriftIsExact == Spec => []DriftExact
  <1>1. LInv => DriftExact
    BY DEF LInv, Drift, DriftExact
  <1> QED
    BY <1>1, LinkInvariant, PTL
================================================================================
