----------------------------- MODULE KeyedMutex -----------------------------
(***************************************************************************)
(* What `KeyedLock::run` (src/src/keyed_lock.rs) promises its callers: a   *)
(* caller asks for a key, waits, runs its future alone among the callers   *)
(* of that key, and leaves.  A caller may also be dropped while it waits   *)
(* or runs (the HTTP client went away, or the future panicked).  There is  *)
(* no lock table here: KeyedLock.tla has it, and implements this module.   *)
(***************************************************************************)
CONSTANTS Procs,      \* the concurrent callers of run
          Keys        \* the profile and rule-set ids used as lock keys

VARIABLES phase,      \* "idle", "waiting" or "inside", per caller
          wants       \* the key a caller is not idle on

vars == <<phase, wants>>

TypeOK == /\ phase \in [Procs -> {"idle", "waiting", "inside"}]
          /\ wants \in [Procs -> Keys]

Init == /\ phase = [p \in Procs |-> "idle"]
        /\ wants \in [Procs -> Keys]

\* The callers that run their future under key k.
Inside(k) == {p \in Procs : phase[p] = "inside" /\ wants[p] = k}

Ask(p, k) == /\ phase[p] = "idle"
             /\ phase' = [phase EXCEPT ![p] = "waiting"]
             /\ wants' = [wants EXCEPT ![p] = k]

Enter(p) == /\ phase[p] = "waiting"
            /\ Inside(wants[p]) = {}
            /\ phase' = [phase EXCEPT ![p] = "inside"]
            /\ UNCHANGED wants

\* The future is done, or the caller is dropped while it waits or runs.
Leave(p) == /\ phase[p] # "idle"
            /\ phase' = [phase EXCEPT ![p] = "idle"]
            /\ UNCHANGED wants

Next == \E p \in Procs : (\E k \in Keys : Ask(p, k)) \/ Enter(p) \/ Leave(p)

Spec == Init /\ [][Next]_vars
=============================================================================
