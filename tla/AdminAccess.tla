---------------------------- MODULE AdminAccess -----------------------------
(***************************************************************************)
(* How an admin gets in: the login limiter of rate_limit.rs before the     *)
(* login handler, and the sessions of auth.rs that all other calls of the  *)
(* admin API need.  Both live in memory and are lost by a restart.         *)
(*                                                                         *)
(* A login counts against its IP when it arrives and is verified later,    *)
(* once its body has been read; a logout is let in by its session like any *)
(* other call, and removes it later.  The session map's mutex makes each   *)
(* of its operations one step.                                             *)
(***************************************************************************)
EXTENDS RateLimiter

CONSTANTS Requests,     \* login and logout handlers in flight
          Ids,          \* session ids, each drawn once
          SessionIdle   \* ticks a session lives without being used

ASSUME SessionAssumption == SessionIdle \in Nat /\ NULL \notin Ids \cup Nat

VARIABLES sessions,  \* the map: last_seen of an id, NULL when it is not there
          pc,        \* what a handler in flight does next
          id,        \* the session a logout came with
          accepted,  \* the session the last step has let a call in by
          issued,    \* history: the ids that were drawn
          lastUse,   \* history: when a live id was drawn or last let a call in
          dead       \* history: ids logged out, refused, or lost by a restart

access == <<sessions, pc, id, accepted, issued, lastUse, dead>>
vars == <<limiter, access>>

TypeOK ==
    /\ LimiterTypeOK
    /\ sessions \in [Ids -> (0 .. MaxTime) \cup {NULL}]
    /\ pc \in [Requests -> {"idle", "verifying", "leaving"}]
    /\ id \in [Requests -> Ids \cup {NULL}]
    /\ accepted \in Ids \cup {NULL}
    /\ issued \in SUBSET Ids
    /\ lastUse \in [Ids -> 0 .. MaxTime]
    /\ dead \in SUBSET issued

Init ==
    /\ LimiterInit
    /\ sessions = [i \in Ids |-> NULL]
    /\ pc = [r \in Requests |-> "idle"]
    /\ id = [r \in Requests |-> NULL]
    /\ accepted = NULL
    /\ issued = {} /\ dead = {}
    /\ lastUse = [i \in Ids |-> 0]

-----------------------------------------------------------------------------
\* rate_limit::login: 429 or on to the handler.  check_origin comes first and
\* answers 403 without counting.
LoginArrive(r, k) ==
    /\ pc[r] = "idle"
    /\ TryAcquire(k)
    /\ pc' = IF Found(k).tokens >= Token THEN [pc EXCEPT ![r] = "verifying"] ELSE pc
    /\ accepted' = NULL
    /\ UNCHANGED <<sessions, id, issued, lastUse, dead>>

Alive(i) == sessions[i] # NULL /\ clock - sessions[i] <= SessionIdle

\* Mutant: no sweep.
Unswept == sessions

\* create sweeps the sessions that have expired ...
Swept == [i \in Ids |-> IF Alive(i) THEN sessions[i] ELSE NULL]

\* ... and adds a new one.
LoginOk(r) ==
    /\ pc[r] = "verifying"
    /\ pc' = [pc EXCEPT ![r] = "idle"]
    /\ \E i \in Ids \ issued :
          /\ sessions' = [Swept EXCEPT ![i] = clock]
          /\ issued' = issued \cup {i}
          /\ lastUse' = [lastUse EXCEPT ![i] = clock]
    /\ accepted' = NULL
    /\ UNCHANGED <<limiter, id, dead>>

LoginBad(r) ==
    /\ pc[r] = "verifying"
    /\ pc' = [pc EXCEPT ![r] = "idle"]
    /\ accepted' = NULL
    /\ UNCHANGED <<limiter, sessions, id, issued, lastUse, dead>>

\* validate_and_touch of a session that is there and in time.
Validate(i) ==
    /\ Alive(i)
    /\ sessions' = [sessions EXCEPT ![i] = clock]
    /\ accepted' = i
    /\ lastUse' = [lastUse EXCEPT ![i] = clock]

Call(i) ==
    /\ Validate(i)
    /\ UNCHANGED <<limiter, pc, id, issued, dead>>

\* Mutant: touched before it is looked at.
RefuseTouching(i) ==
    /\ i \in issued
    /\ ~Alive(i)
    /\ sessions' = IF sessions[i] = NULL THEN sessions ELSE [sessions EXCEPT ![i] = clock]
    /\ dead' = dead \cup {i}
    /\ lastUse' = [lastUse EXCEPT ![i] = 0]
    /\ accepted' = NULL
    /\ UNCHANGED <<limiter, pc, id, issued>>

\* ... and otherwise 401; one that has expired is removed.
Refuse(i) ==
    /\ i \in issued
    /\ ~Alive(i)
    /\ sessions' = [sessions EXCEPT ![i] = NULL]
    /\ dead' = dead \cup {i}
    /\ lastUse' = [lastUse EXCEPT ![i] = 0]
    /\ accepted' = NULL
    /\ UNCHANGED <<limiter, pc, id, issued>>

\* logout runs behind require_session.
LogoutArrive(r, i) ==
    /\ pc[r] = "idle"
    /\ Validate(i)
    /\ pc' = [pc EXCEPT ![r] = "leaving"]
    /\ id' = [id EXCEPT ![r] = i]
    /\ UNCHANGED <<limiter, issued, dead>>

\* Mutant: only the cookie is cleared.
LogoutCookieOnly(r) ==
    /\ pc[r] = "leaving"
    /\ pc' = [pc EXCEPT ![r] = "idle"]
    /\ id' = [id EXCEPT ![r] = NULL]
    /\ dead' = dead \cup {id[r]}
    /\ lastUse' = [lastUse EXCEPT ![id[r]] = 0]
    /\ accepted' = NULL
    /\ UNCHANGED <<limiter, sessions, issued>>

Logout(r) ==
    /\ pc[r] = "leaving"
    /\ sessions' = [sessions EXCEPT ![id[r]] = NULL]
    /\ pc' = [pc EXCEPT ![r] = "idle"]
    /\ id' = [id EXCEPT ![r] = NULL]
    /\ dead' = dead \cup {id[r]}
    /\ lastUse' = [lastUse EXCEPT ![id[r]] = 0]
    /\ accepted' = NULL
    /\ UNCHANGED <<limiter, issued>>

\* The handler is dropped before its body was read or its session removed.
Cancel(r) ==
    /\ pc[r] # "idle"
    /\ pc' = [pc EXCEPT ![r] = "idle"]
    /\ id' = [id EXCEPT ![r] = NULL]
    /\ accepted' = NULL
    /\ UNCHANGED <<limiter, sessions, issued, lastUse, dead>>

TimePasses == /\ Tick
              /\ accepted' = NULL
              /\ UNCHANGED <<sessions, pc, id, issued, lastUse, dead>>

Observe(k) == /\ Watch(k)
              /\ accepted' = NULL
              /\ UNCHANGED <<sessions, pc, id, issued, lastUse, dead>>

Restart == /\ LimiterRestart
           /\ sessions' = [i \in Ids |-> NULL]
           /\ pc' = [r \in Requests |-> "idle"]
           /\ id' = [r \in Requests |-> NULL]
           /\ accepted' = NULL
           /\ dead' = issued
           /\ lastUse' = [i \in Ids |-> 0]
           /\ UNCHANGED issued

Next == \/ \E r \in Requests :
              \/ LoginOk(r) \/ LoginBad(r) \/ Logout(r) \/ Cancel(r)
              \/ \E k \in Keys : LoginArrive(r, k)
              \/ \E i \in Ids : LogoutArrive(r, i)
        \/ \E i \in Ids : Call(i) \/ Refuse(i)
        \/ \E k \in Keys : Observe(k)
        \/ TimePasses
        \/ Restart

Spec == Init /\ [][Next]_vars

-----------------------------------------------------------------------------
\* A session that was refused, logged out or lost is not in the map again, and
\* the map holds nothing that was not issued; last_seen is the last use.
Inv ==
    /\ TypeOK
    /\ \A i \in Ids : sessions[i] # NULL =>
          i \in issued /\ i \notin dead /\ sessions[i] = lastUse[i] /\ lastUse[i] <= clock
    /\ \A r \in Requests : pc[r] = "leaving" => id[r] \in issued

\* auth.rs: a call is let in only by a session that was issued by this process,
\* has neither been logged out nor refused before, and was used at most
\* SessionIdle ago, however logins, logouts and other calls overlap.
LetInAlive ==
    [][accepted' # NULL =>
          /\ accepted' \in issued \ dead
          /\ clock - lastUse[accepted'] <= SessionIdle]_vars

\* auth.rs:88-90: create is the only place where the map grows, and sweeping
\* there keeps abandoned sessions from piling up.
GrowsSwept ==
    [][(\E i \in Ids : sessions[i] = NULL /\ sessions'[i] # NULL) =>
          \A i \in Ids : sessions'[i] # NULL => clock - sessions'[i] <= SessionIdle]_vars
=============================================================================
