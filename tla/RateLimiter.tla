---------------------------- MODULE RateLimiter -----------------------------
(***************************************************************************)
(* The in-memory token buckets of src/src/rate_limit.rs.  A bucket is      *)
(* refilled only when its key is hit, and when there are many, those that  *)
(* were not hit for a window are dropped.  try_acquire holds the mutex     *)
(* from reading the clock to its answer and is one step.                   *)
(*                                                                         *)
(* Time is counted in ticks, tokens in Window-ths, so that one tick        *)
(* refills Capacity of them: the fractions of the code, without the        *)
(* rounding of its f64.                                                    *)
(***************************************************************************)
EXTENDS Naturals, FiniteSets

CONSTANTS Keys,        \* client IPs
          Capacity,    \* hits per window, and at once
          Window,      \* ticks
          PurgeAbove,  \* buckets from which on idle ones are dropped (10 000)
          MaxTime,     \* bound: ticks
          NULL

ASSUME LimiterAssumption == /\ Capacity \in Nat \ {0}
                            /\ Window \in Nat \ {0}
                            /\ PurgeAbove \in Nat
                            /\ MaxTime \in Nat

Token == Window
Full == Capacity * Window

Bucket == [tokens : 0 .. Full, last : 0 .. MaxTime]

ASSUME LimiterNullAssumption == NULL \notin Bucket /\ NULL \notin Keys

VARIABLES clock,
          buckets,  \* the map: NULL for a key without a bucket
          answer,   \* the last hit: its key and whether it was let through
          watched,  \* history: the key whose hits an observer counts,
          since,    \*          from when on,
          granted   \*          and how many were let through

limiter == <<clock, buckets, answer, watched, since, granted>>

LimiterTypeOK ==
    /\ clock \in 0 .. MaxTime
    /\ buckets \in [Keys -> Bucket \cup {NULL}]
    /\ answer \in {<<>>} \cup (Keys \X BOOLEAN)
    /\ watched \in Keys \cup {NULL}
    /\ since \in 0 .. MaxTime
    /\ granted \in Nat

LimiterInit ==
    /\ clock = 0
    /\ buckets = [k \in Keys |-> NULL]
    /\ answer = <<>>
    /\ watched = NULL /\ since = 0 /\ granted = 0

-----------------------------------------------------------------------------
Capped(n) == IF n > Full THEN Full ELSE n

NewBucket == [tokens |-> Full, last |-> clock]

\* Mutant: buckets idle for half a window are dropped.
IdleHalf(b) == 2 * (clock - b.last) >= Window

\* Idle for a whole window: full again, and not to be told from a new one.
Idle(b) == clock - b.last >= Window

\* The map after the opportunistic purge.
Purged ==
    IF Cardinality({k \in Keys : buckets[k] # NULL}) > PurgeAbove
    THEN [k \in Keys |-> IF buckets[k] # NULL /\ Idle(buckets[k]) THEN NULL
                         ELSE buckets[k]]
    ELSE buckets

\* Mutant: refilled without a cap.
RefilledUncapped(b) ==
    [tokens |-> b.tokens + (clock - b.last) * Capacity, last |-> clock]

\* Tokens for the time since the last hit, up to the capacity.
Refilled(b) ==
    [tokens |-> Capped(b.tokens + (clock - b.last) * Capacity), last |-> clock]

\* The bucket of the key as this hit finds it.
Found(k) == Refilled(IF Purged[k] = NULL THEN NewBucket ELSE Purged[k])

Count(k) == granted' = IF watched = k THEN granted + 1 ELSE granted

Granted(k) ==
    /\ Found(k).tokens >= Token
    /\ buckets' = [Purged EXCEPT ![k] = [Found(k) EXCEPT !.tokens = @ - Token]]
    /\ answer' = <<k, TRUE>>
    /\ Count(k)
    /\ UNCHANGED <<clock, watched, since>>

Denied(k) ==
    /\ Found(k).tokens < Token
    /\ buckets' = [Purged EXCEPT ![k] = Found(k)]
    /\ answer' = <<k, FALSE>>
    /\ UNCHANGED <<clock, watched, since, granted>>

TryAcquire(k) == Granted(k) \/ Denied(k)

Tick == /\ clock < MaxTime
        /\ clock' = clock + 1
        /\ UNCHANGED <<buckets, answer, watched, since, granted>>

\* The buckets are in memory only.
LimiterRestart ==
    /\ buckets' = [k \in Keys |-> NULL]
    /\ watched' = NULL /\ since' = 0 /\ granted' = 0
    /\ UNCHANGED <<clock, answer>>

\* The observer begins to count, at any time and for any key.
Watch(k) ==
    /\ watched = NULL
    /\ watched' = k
    /\ since' = clock
    /\ granted' = 0
    /\ UNCHANGED <<clock, buckets, answer>>

LimiterNext == \/ \E k \in Keys : TryAcquire(k) \/ Watch(k)
               \/ Tick
               \/ LimiterRestart

LimiterSpec == LimiterInit /\ [][LimiterNext]_limiter

-----------------------------------------------------------------------------
\* What a bucket would hold now: refilling late and forgetting idle buckets
\* make no difference to it.
Level(k) == IF buckets[k] = NULL THEN Full
            ELSE Capped(buckets[k].tokens + (clock - buckets[k].last) * Capacity)

Ideal == INSTANCE TokenBucket WITH Refill <- Capacity,
                                   level <- [k \in Keys |-> Level(k)]

\* rate_limit.rs:55-56: dropping idle buckets does not affect the limiting.
\* The limiter answers every hit as buckets would that are refilled all the
\* time and never dropped.
ImplementsBucket == Ideal!Spec

\* rate_limit.rs:3-4: a steady rate of Capacity per Window with one burst of
\* Capacity, never more: from whatever moment on the hits of a key are counted,
\* at most Capacity and those refilled since are let through.
GrantsBounded ==
    watched # NULL => granted * Token <= Full + (clock - since) * Capacity
=============================================================================
