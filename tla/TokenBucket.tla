------------------------------ MODULE TokenBucket ------------------------------
(***************************************************************************)
(* The rate limiter in front of every request: a channel of tokens, filled  *)
(* at the start and topped up by one token on every tick of a time.Ticker,  *)
(* from which each request takes one or is rejected.                        *)
(*                                                                          *)
(* Source: internal/ratelimit/token_bucket.go, the defaults of              *)
(* internal/config/config.go and internal/middleware/ratelimit.go.          *)
(***************************************************************************)
EXTENDS Integers

CONSTANTS
    Second,      \* 1000 in the code: the clock counts milliseconds
    Rates,       \* values of RATE_LIMIT_RATE; 0 when it is not set
    Capacities,  \* values of RATE_LIMIT_CAPACITY; 0 when it is not set
    Horizon      \* bound: the last millisecond of the clock

ASSUME BucketAssumption ==
    /\ Second \in Nat \ {0}
    /\ Rates \subseteq Nat
    /\ Capacities \subseteq Nat
    /\ Horizon \in Nat

VARIABLES
    now,
    rate, capacity,  \* the configuration, defaults filled in
    running,         \* "up"; "panicked" when NewTicker refuses the period
    tokens,          \* the length of the channel of tokens
    next, pending,   \* the ticker: its next tick, and whether its channel holds one
    filling,         \* the refill goroutine, until it finds the context done
    cancelled,       \* Stop was called
    since, first,    \* ghost: an arbitrary moment, and the next tick at that moment
    ticks, used      \* ghost: ticks and grants since then

bucket == <<tokens, next, pending, filling, cancelled>>
config == <<rate, capacity, running>>
window == <<since, first, ticks, used>>
vars == <<now, config, bucket, window>>

\* config.Load: what is not set gets a default.
Defaulted(n, default) == IF n = 0 THEN default ELSE n

\* everyMs := 1000 / rate, an integer division.
Period == Second \div rate

TypeOK ==
    /\ now \in 0..Horizon
    /\ rate \in Nat \ {0}
    /\ capacity \in Nat \ {0}
    /\ running \in {"up", "panicked"}
    /\ tokens \in 0..capacity
    /\ next \in Nat
    /\ pending \in {0, 1}
    /\ filling \in BOOLEAN
    /\ cancelled \in BOOLEAN
    /\ since \in 0..now
    /\ first \in Nat
    /\ ticks \in Nat
    /\ used \in Nat

\* NewTokenBucket: a full bucket, and a ticker, whose period must be positive.
Init ==
    /\ now = 0
    /\ rate \in {Defaulted(r, 2) : r \in Rates}
    /\ capacity \in {Defaulted(n, 5) : n \in Capacities}
    /\ running = IF Period > 0 THEN "up" ELSE "panicked"
    /\ tokens = capacity
    /\ next = Period
    /\ pending = 0
    /\ filling = TRUE
    /\ cancelled = FALSE
    /\ since = 0
    /\ first = Period
    /\ ticks = 0
    /\ used = 0

\* A millisecond passes. The ticker's channel has room for one tick; a tick that nobody
\* has taken when the next one comes swallows it.
Elapse ==
    /\ running = "up"
    /\ now < Horizon
    /\ now' = now + 1
    /\ \/ /\ now' = next /\ filling
          /\ next' = next + Period
          /\ pending' = 1
          /\ ticks' = ticks + 1
       \/ /\ now' # next \/ ~filling
          /\ UNCHANGED <<next, pending, ticks>>
    /\ UNCHANGED <<config, tokens, filling, cancelled, since, first, used>>

\* Mutant: a counter in place of the channel, without its limit.
TopUp_NoLimit == tokens' = tokens + 1

\* The inner select: a token is added unless the channel is full.
TopUp == tokens' = IF tokens < capacity THEN tokens + 1 ELSE tokens

\* The refill goroutine takes a tick.
Refill ==
    /\ running = "up"
    /\ filling
    /\ pending = 1
    /\ pending' = 0
    /\ TopUp
    /\ UNCHANGED <<now, config, next, filling, cancelled, window>>

\* TryAcquire in RateLimit: a request that finds no token is rejected and changes nothing.
TryAcquire ==
    /\ running = "up"
    /\ tokens > 0
    /\ tokens' = tokens - 1
    /\ used' = used + 1
    /\ UNCHANGED <<now, config, next, pending, filling, cancelled, since, first, ticks>>

Stop ==
    /\ running = "up"
    /\ ~cancelled
    /\ cancelled' = TRUE
    /\ UNCHANGED <<now, config, tokens, next, pending, filling, window>>

\* The refill goroutine finds the context done and stops the ticker.
FillerEnds ==
    /\ running = "up"
    /\ filling
    /\ cancelled
    /\ filling' = FALSE
    /\ UNCHANGED <<now, config, tokens, next, pending, cancelled, window>>

\* An observer starts to count.
Observe ==
    /\ running = "up"
    /\ since' = now
    /\ first' = next
    /\ ticks' = 0
    /\ used' = 0
    /\ UNCHANGED <<now, config, bucket>>

Next == Elapse \/ Refill \/ TryAcquire \/ Stop \/ FillerEnds \/ Observe

Spec == Init /\ [][Next]_vars

--------------------------------------------------------------------------------
(* Properties. *)

\* From whatever moment one counts, requests get no more tokens than the bucket holds, one
\* for each period that passes, and two for the ticks at the edges (one fired before and
\* not yet taken, one about to fire): idle time is never saved up beyond the capacity, and
\* a refill goroutine that lags behind its ticker does not catch up.
BurstBounded == running = "up" => (used - capacity - 2) * Period <= now - since
================================================================================
