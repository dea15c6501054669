---------------------------- MODULE TokenBucket -----------------------------
(***************************************************************************)
(* What a rate limiter promises: every key has a bucket that is filled at  *)
(* a constant rate up to its capacity, and a hit is let through exactly    *)
(* when a whole token is there to be taken.  Levels are counted in parts   *)
(* of a token, so that one tick adds a whole number of them.               *)
(***************************************************************************)
EXTENDS Naturals

CONSTANTS Keys,    \* whom the limiter tells apart
          Refill,  \* parts added to a bucket in one tick
          Token,   \* parts a hit costs
          Full     \* parts a bucket holds

VARIABLES level,   \* of the bucket of each key
          answer   \* the last hit: its key and whether it was let through

Init == /\ level = [k \in Keys |-> Full]
        /\ answer = <<>>

Hit(k) ==
    \/ /\ level[k] >= Token
       /\ level' = [level EXCEPT ![k] = @ - Token]
       /\ answer' = <<k, TRUE>>
    \/ /\ level[k] < Token
       /\ answer' = <<k, FALSE>>
       /\ UNCHANGED level

Tick == /\ level' = [k \in Keys |-> IF level[k] + Refill > Full THEN Full
                                    ELSE level[k] + Refill]
        /\ UNCHANGED answer

\* A restarted process begins with full buckets.
Restart == level' = [k \in Keys |-> Full] /\ UNCHANGED answer

Next == Tick \/ Restart \/ \E k \in Keys : Hit(k)

Spec == Init /\ [][Next]_<<level, answer>>
=============================================================================
