--------------------------- MODULE TokenBucketProofs ---------------------------
(***************************************************************************)
(* BurstBounded for every rate, capacity and length of the window. Two      *)
(* facts carry it: a token that was granted came out of the bucket as it    *)
(* was or out of a tick (Conserved), and ticks are a period apart (Spaced). *)
(***************************************************************************)
EXTENDS TokenBucket, TLAPS

Conserved == used + tokens + pending <= capacity + ticks + 1

Spaced ==
    /\ next = first + ticks * Period
    /\ next <= now + Period
    /\ filling => now < next /\ since < first
    /\ ticks > 0 => since < first

BucketInv ==
    /\ TypeOK
    /\ running = "up" => Period \in Nat \ {0} /\ Conserved /\ Spaced

LEMMA DefaultedType ==
  ASSUME NEW n \in Nat, NEW d \in Nat \ {0} PROVE Defaulted(n, d) \in Nat \ {0}
  BY DEF Defaulted

LEMMA PeriodType == ASSUME rate \in Nat \ {0} PROVE Period \in Nat
  BY BucketAssumption DEF Period

\* One more tick is one more period.
LEMMA OneMore == ASSUME NEW k \in Nat, NEW p \in Nat PROVE (k + 1) * p = k * p + p
  OBVIOUS

\* A smaller number of periods is not longer.
LEMMA FewerPeriods ==
  ASSUME NEW a \in Int, NEW b \in Int, NEW p \in Nat, a <= b PROVE a * p <= b * p
  OBVIOUS

LEMMA InitBucketInv == Init => BucketInv
  <1> SUFFICES ASSUME Init PROVE BucketInv
    OBVIOUS
  <1>1. rate \in Nat \ {0}
    BY DefaultedType, BucketAssumption DEF Init
  <1>2. capacity \in Nat \ {0}
    BY DefaultedType, BucketAssumption DEF Init
  <1>3. Period \in Nat
    BY <1>1, PeriodType
  <1>4. TypeOK
    <2>1. filling \in BOOLEAN /\ cancelled \in BOOLEAN /\ running \in {"up", "panicked"}
      BY Zenon DEF Init
    <2>2. /\ now \in 0..Horizon /\ tokens \in 0..capacity /\ next \in Nat /\ pending \in {0, 1}
          /\ since \in 0..now /\ first \in Nat /\ ticks \in Nat /\ used \in Nat
      BY <1>2, <1>3, BucketAssumption DEF Init
    <2> QED
      BY <1>1, <1>2, <2>1, <2>2, Zenon DEF TypeOK
  <1>5. running = "up" => Period > 0
    BY DEF Init
  <1>6. 0 * Period = 0
    BY <1>3
  <1>7. ASSUME running = "up" PROVE Conserved /\ Spaced
    BY <1>2, <1>3, <1>5, <1>6, <1>7 DEF Init, Conserved, Spaced
  <1> QED
    BY <1>3, <1>4, <1>5, <1>7 DEF BucketInv

LEMMA ElapseInv == ASSUME BucketInv, Elapse PROVE BucketInv'
  <1>1. /\ running = "up" /\ now < Horizon /\ now' = now + 1
        /\ UNCHANGED <<rate, capacity, running, tokens, filling, cancelled, since, first, used>>
    BY DEF Elapse, config
  <1>2. Period' = Period /\ Period \in Nat \ {0} /\ Conserved /\ Spaced /\ TypeOK
    BY <1>1 DEF BucketInv, Period
  <1> DEFINE p == Period
  <1>3. p \in Nat \ {0} /\ p = Period
    BY <1>2
  <1> HIDE DEF p
  <1>4. CASE now' = next /\ filling /\ next' = next + Period /\ pending' = 1 /\ ticks' = ticks + 1
    <2>1. TypeOK'
      BY <1>1, <1>2, <1>4, BucketAssumption DEF TypeOK
    <2>2. Conserved'
      BY <1>1, <1>2, <1>4 DEF TypeOK, Conserved
    <2>3. (ticks + 1) * p = ticks * p + p /\ ticks * p \in Nat
      BY <1>2, <1>3, OneMore DEF TypeOK
    <2>4. Spaced'
      BY <1>1, <1>2, <1>3, <1>4, <2>3 DEF TypeOK, Spaced
    <2> QED
      BY <1>2, <2>1, <2>2, <2>4 DEF BucketInv
  <1>5. CASE (now' # next \/ ~filling) /\ UNCHANGED <<next, pending, ticks>>
    <2>1. TypeOK'
      BY <1>1, <1>2, <1>5, BucketAssumption DEF TypeOK
    <2>2. Conserved'
      BY <1>1, <1>2, <1>5 DEF TypeOK, Conserved
    <2>3. Spaced'
      BY <1>1, <1>2, <1>3, <1>5 DEF TypeOK, Spaced
    <2> QED
      BY <1>2, <2>1, <2>2, <2>3 DEF BucketInv
  <1> QED
    BY <1>4, <1>5 DEF Elapse

\* The steps that move tokens, or stop the filler.
LEMMA TokensInv ==
  ASSUME BucketInv, Refill \/ TryAcquire \/ Stop \/ FillerEnds
  PROVE  BucketInv'
  <1>1. /\ running = "up"
        /\ UNCHANGED <<now, rate, capacity, running, next, since, first, ticks>>
    BY DEF Refill, TryAcquire, Stop, FillerEnds, config, window
  <1>2. Period' = Period /\ Period \in Nat \ {0} /\ Conserved /\ Spaced /\ TypeOK
    BY <1>1 DEF BucketInv, Period
  <1>3. TypeOK'
    <2>1. filling' \in BOOLEAN /\ cancelled' \in BOOLEAN
      BY <1>2, Zenon DEF TypeOK, Refill, TryAcquire, Stop, FillerEnds
    <2>2. tokens' \in 0..capacity /\ pending' \in {0, 1} /\ used' \in Nat
      BY <1>2 DEF TypeOK, Refill, TopUp, TryAcquire, Stop, FillerEnds, window
    <2> QED
      BY <1>1, <1>2, <2>1, <2>2, Zenon DEF TypeOK
  <1>4. Conserved'
    BY <1>1, <1>2 DEF TypeOK, Conserved, Refill, TopUp, TryAcquire, Stop, FillerEnds, window
  <1>5. filling' => filling
    BY DEF Refill, TryAcquire, Stop, FillerEnds
  <1>6. Spaced'
    BY <1>1, <1>2, <1>5 DEF Spaced
  <1> QED
    BY <1>2, <1>3, <1>4, <1>6 DEF BucketInv

LEMMA ObserveInv == ASSUME BucketInv, Observe PROVE BucketInv'
  <1>1. /\ running = "up" /\ since' = now /\ first' = next /\ ticks' = 0 /\ used' = 0
        /\ UNCHANGED <<now, rate, capacity, running, tokens, next, pending, filling, cancelled>>
    BY DEF Observe, config, bucket
  <1>2. Period' = Period /\ Period \in Nat \ {0} /\ Conserved /\ Spaced /\ TypeOK
    BY <1>1 DEF BucketInv, Period
  <1>3. TypeOK'
    BY <1>1, <1>2 DEF TypeOK
  <1>4. Conserved'
    BY <1>1, <1>2 DEF TypeOK, Conserved
  <1>5. 0 * Period = 0
    BY <1>2
  <1>6. Spaced'
    BY <1>1, <1>2, <1>5 DEF TypeOK, Spaced
  <1> QED
    BY <1>2, <1>3, <1>4, <1>6 DEF BucketInv

LEMMA NextBucketInv == BucketInv /\ [Next]_vars => BucketInv'
  <1> SUFFICES ASSUME BucketInv, [Next]_vars PROVE BucketInv'
    OBVIOUS
  <1>1. CASE Next
    BY <1>1, ElapseInv, TokensInv, ObserveInv DEF Next
  <1>2. CASE UNCHANGED vars
    BY <1>2 DEF BucketInv, TypeOK, Conserved, Spaced, Period, vars, config, bucket, window
  <1> QED
    BY <1>1, <1>2

--------------------------------------------------------------------------------

\* The inductive invariant of TokenBucket holds.
THEOREM BucketInvariant == Spec => []BucketInv
  BY InitBucketInv, NextBucketInv, PTL DEF Spec

\* BurstBounded: in no stretch of time, however long, do requests get more tokens than the
\* capacity, one for each period, and two for its edges.
THEOREM BurstsBounded == Spec => []BurstBounded
  <1>1. BucketInv => BurstBounded
    <2> SUFFICES ASSUME BucketInv, running = "up"
                 PROVE  (used - capacity - 2) * Period <= now - since
      BY DEF BurstBounded
    <2>1. Period \in Nat \ {0} /\ Conserved /\ Spaced /\ TypeOK
      BY DEF BucketInv
    <2>2. used - capacity - 2 <= ticks - 1 /\ used - capacity - 2 \in Int /\ ticks - 1 \in Int
      BY <2>1 DEF TypeOK, Conserved
    <2>3. (used - capacity - 2) * Period <= (ticks - 1) * Period
      BY <2>1, <2>2, FewerPeriods
    <2>4. (ticks - 1) * Period <= now - since
      <3>1. CASE ticks = 0
        <4>1. (ticks - 1) * Period = -Period
          BY <2>1, <3>1
        <4> QED
          BY <2>1, <4>1 DEF TypeOK
      <3>2. CASE ticks # 0
        <4>1. ticks - 1 \in Nat /\ (ticks - 1) + 1 = ticks
          BY <2>1, <3>2 DEF TypeOK
        <4>2. ticks * Period = (ticks - 1) * Period + Period
          BY <2>1, <4>1, OneMore
        <4>3. (ticks - 1) * Period \in Int
          BY <2>1, <4>1
        <4> QED
          BY <2>1, <3>2, <4>2, <4>3 DEF TypeOK, Spaced
      <3> QED
        BY <3>1, <3>2
    <2>5. (used - capacity - 2) * Period \in Int /\ (ticks - 1) * Period \in Int
      BY <2>1, <2>2
    <2>6. now - since \in Int
      BY <2>1 DEF TypeOK
    <2> QED
      BY <2>3, <2>4, <2>5, <2>6
  <1> QED
    BY <1>1, BucketInvariant, PTL
================================================================================
