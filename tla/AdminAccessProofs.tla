------------------------- MODULE AdminAccessProofs --------------------------
(***************************************************************************)
(* Proofs about RateLimiter and AdminAccess for every capacity, window,    *)
(* purge threshold and set of keys.  First the limiter alone: it           *)
(* implements TokenBucket, and from any moment on no key gets more hits    *)
(* than one burst and what is refilled.  Then behind the login handler: it *)
(* keeps these promises, and only live sessions let a call in.             *)
(***************************************************************************)
EXTENDS AdminAccess, TLAPS

\* The products the limiter is built of.
LEMMA Product == \A m, n \in Nat :
    /\ m * n \in Nat
    /\ m * n = n * m
    /\ (m + 1) * n = m * n + n
BY SMT

LEMMA ProductMonotone == \A l, m, n \in Nat : l >= m => l * n >= m * n
<1>. SUFFICES ASSUME NEW l \in Nat, NEW m \in Nat, NEW n \in Nat, l >= m
              PROVE l * n >= m * n
  OBVIOUS
<1>. DEFINE d == l - m
<1>1. d \in Nat /\ l = m + d
  OBVIOUS
<1>2. d * n \in Nat /\ m * n \in Nat
  BY <1>1, Product
<1>. HIDE DEF d
<1>3. (m + d) * n = m * n + d * n
  BY <1>1, SMT
<1>. QED BY <1>1, <1>2, <1>3

LEMMA FullNat == Full \in Nat /\ Token \in Nat \ {0} /\ Full = Window * Capacity
BY LimiterAssumption, Product DEF Full, Token

\* Types, and no bucket was hit in the future.
LimiterInv == /\ LimiterTypeOK
              /\ \A k \in Keys : buckets[k] # NULL => buckets[k].last <= clock
              /\ since <= clock

\* What the bucket b would hold now.
Held(b) == IF b = NULL THEN Full ELSE Capped(b.tokens + (clock - b.last) * Capacity)

LEMMA HeldRange ==
    ASSUME LimiterTypeOK, NEW b \in Bucket \cup {NULL}, b # NULL => b.last <= clock
    PROVE Held(b) \in 0 .. Full
<1>1. CASE b = NULL
  BY <1>1, FullNat DEF Held
<1>2. CASE b # NULL
  <2>1. b \in Bucket /\ b.tokens \in 0 .. Full /\ clock - b.last \in Nat
    BY <1>2, LimiterAssumption, FullNat DEF LimiterTypeOK, Bucket
  <2>2. (clock - b.last) * Capacity \in Nat
    BY <2>1, Product, LimiterAssumption
  <2>. QED BY <1>2, <2>1, <2>2, FullNat DEF Held, Capped
<1>. QED BY <1>1, <1>2

\* The purge changes no bucket but those that hold their capacity again, and
\* a hit finds in a bucket what it would hold now.
LEMMA PurgedHeld ==
    ASSUME LimiterInv, NEW k \in Keys
    PROVE /\ Purged \in [Keys -> Bucket \cup {NULL}]
          /\ Purged[k] # NULL => Purged[k].last <= clock
          /\ Held(Purged[k]) = Level(k)
          /\ Found(k).tokens = Level(k)
          /\ Found(k).last = clock
          /\ Found(k) \in Bucket
<1>1. Purged \in [Keys -> Bucket \cup {NULL}] /\ Purged[k] \in {NULL, buckets[k]}
  BY DEF Purged, LimiterInv, LimiterTypeOK
<1>2. Purged[k] # NULL => Purged[k].last <= clock
  BY <1>1 DEF LimiterInv
<1>3. Level(k) = Held(buckets[k])
  BY DEF Level, Held
<1>4. Held(Purged[k]) = Level(k)
  <2>1. CASE Purged[k] = buckets[k]
    BY <2>1, <1>3
  <2>2. CASE Purged[k] = NULL /\ buckets[k] # NULL
    <3>1. clock - buckets[k].last >= Window
      BY <2>2 DEF Purged, Idle
    <3>2. buckets[k] \in Bucket /\ buckets[k].tokens \in Nat
      BY <2>2, FullNat DEF LimiterInv, LimiterTypeOK, Bucket
    <3>3. clock - buckets[k].last \in Nat
      BY <2>2, <3>2, LimiterAssumption DEF LimiterInv, LimiterTypeOK, Bucket
    <3>4. (clock - buckets[k].last) * Capacity >= Full
      BY <3>1, <3>3, ProductMonotone, FullNat, LimiterAssumption
    <3>5. (clock - buckets[k].last) * Capacity \in Nat
      BY <3>3, Product, LimiterAssumption
    <3>6. Held(buckets[k]) = Full
      BY <2>2, <3>2, <3>4, <3>5, FullNat DEF Held, Capped
    <3>. QED BY <2>2, <3>6, <1>3 DEF Held
  <2>. QED BY <2>1, <2>2, <1>1
<1>5. Found(k).tokens = Held(Purged[k]) /\ Found(k).last = clock
  <2>1. CASE Purged[k] = NULL
    <3>1. (clock - clock) * Capacity = 0
      BY LimiterAssumption DEF LimiterInv, LimiterTypeOK
    <3>. QED BY <2>1, <3>1, FullNat DEF Found, Refilled, NewBucket, Capped, Held
  <2>2. CASE Purged[k] # NULL
    BY <2>2 DEF Found, Refilled, Held
  <2>. QED BY <2>1, <2>2
<1>6. Held(Purged[k]) \in 0 .. Full
  BY <1>1, <1>2, HeldRange DEF LimiterInv
<1>7. Found(k) \in Bucket
  <2>1. Found(k) = [tokens |-> Found(k).tokens, last |-> Found(k).last]
    BY DEF Found, Refilled
  <2>. QED BY <2>1, <1>5, <1>6 DEF Bucket, LimiterInv, LimiterTypeOK
<1>. QED BY <1>1, <1>2, <1>4, <1>5, <1>7

LEMMA InitLimiterInv == LimiterInit => LimiterInv
BY LimiterAssumption, LimiterNullAssumption
   DEF LimiterInit, LimiterInv, LimiterTypeOK

LEMMA LevelRange == ASSUME LimiterInv, NEW k \in Keys PROVE Level(k) \in 0 .. Full
BY HeldRange DEF Level, Held, LimiterInv, LimiterTypeOK

\* A hit is let through exactly when the bucket would hold a token now.
LEMMA AcquireByLevel ==
    ASSUME LimiterInv, NEW k \in Keys, TryAcquire(k)
    PROVE \/ Granted(k) /\ Level(k) >= Token
          \/ Denied(k) /\ Level(k) < Token
BY PurgedHeld DEF TryAcquire, Granted, Denied

\* After a hit of k: its bucket holds the level left, the others what they held.
LEMMA AcquireLevels ==
    ASSUME LimiterInv, NEW k \in Keys, TryAcquire(k)
    PROVE /\ LimiterInv'
          /\ Level(k)' = IF Level(k) >= Token THEN Level(k) - Token ELSE Level(k)
          /\ \A j \in Keys \ {k} : Level(j)' = Level(j)
<1>. DEFINE left == IF Level(k) >= Token THEN Level(k) - Token ELSE Level(k)
            b == [tokens |-> left, last |-> clock]
<1>1. Level(k) \in 0 .. Full
  BY HeldRange DEF Level, Held, LimiterInv, LimiterTypeOK
<1>2. left \in 0 .. Full
  BY <1>1, FullNat
<1>3. b \in Bucket /\ b # NULL
  BY <1>2, LimiterNullAssumption DEF Bucket, LimiterInv, LimiterTypeOK
<1>4. Found(k) = [tokens |-> Level(k), last |-> clock]
  BY PurgedHeld DEF Found, Refilled
<1>5. buckets' = [Purged EXCEPT ![k] = b] /\ clock' = clock
  <2>1. CASE Granted(k) /\ Level(k) >= Token
    <3>1. [Found(k) EXCEPT !.tokens = @ - Token] = b
      BY <1>4, <2>1
    <3>. QED BY <2>1, <3>1 DEF Granted
  <2>2. CASE Denied(k) /\ Level(k) < Token
    <3>1. Found(k) = b
      BY <1>1, <1>4, <2>2, FullNat
    <3>. QED BY <2>2, <3>1 DEF Denied
  <2>. QED BY <2>1, <2>2, AcquireByLevel
<1>6. buckets'[k] = b /\ \A j \in Keys \ {k} : buckets'[j] = Purged[j]
  BY <1>5, PurgedHeld
<1>7. LimiterInv'
  <2>1. buckets' \in [Keys -> Bucket \cup {NULL}]
    BY <1>3, <1>5, PurgedHeld
  <2>2. \A j \in Keys : buckets'[j] # NULL => buckets'[j].last <= clock
    BY <1>6, PurgedHeld DEF LimiterInv, LimiterTypeOK
  <2>3. /\ answer' \in Keys \X BOOLEAN
        /\ UNCHANGED <<watched, since>>
        /\ granted' \in {granted, granted + 1}
    <3>1. CASE Granted(k)
      BY <3>1 DEF Granted, Count
    <3>2. CASE Denied(k)
      BY <3>2 DEF Denied
    <3>. QED BY <3>1, <3>2 DEF TryAcquire
  <2>. QED
    BY <2>1, <2>2, <2>3, <1>5 DEF LimiterInv, LimiterTypeOK
<1>8. Level(k)' = left
  <2>1. (clock' - clock) * Capacity = 0
    BY <1>5, LimiterAssumption DEF LimiterInv, LimiterTypeOK
  <2>. QED BY <2>1, <1>2, <1>3, <1>6, FullNat DEF Level, Capped
<1>9. \A j \in Keys \ {k} : Level(j)' = Level(j)
  BY <1>5, <1>6, PurgedHeld DEF Level, Held
<1>. QED BY <1>7, <1>8, <1>9

\* A tick refills every bucket up to its capacity.
LEMMA TickLevels ==
    ASSUME LimiterInv, Tick
    PROVE /\ LimiterInv'
          /\ \A k \in Keys : Level(k)' = Capped(Level(k) + Capacity)
<1>1. LimiterInv'
  BY LimiterAssumption DEF Tick, LimiterInv, LimiterTypeOK, Bucket
<1>2. ASSUME NEW k \in Keys PROVE Level(k)' = Capped(Level(k) + Capacity)
  <2>1. CASE buckets[k] = NULL
    BY <2>1, FullNat, LimiterAssumption DEF Tick, Level, Capped
  <2>2. CASE buckets[k] # NULL
    <3>. DEFINE age == clock - buckets[k].last
                have == buckets[k].tokens
    <3>1. age \in Nat /\ have \in Nat
      BY <2>2, LimiterAssumption, FullNat DEF LimiterInv, LimiterTypeOK, Bucket
    <3>2. clock' - buckets'[k].last = age + 1 /\ buckets'[k] = buckets[k]
      BY <2>2, LimiterAssumption DEF Tick, LimiterInv, LimiterTypeOK, Bucket
    <3>. HIDE DEF age
    <3>3. (age + 1) * Capacity = age * Capacity + Capacity /\ age * Capacity \in Nat
      BY <3>1, Product, LimiterAssumption
    <3>4. Level(k)' = Capped(have + (age + 1) * Capacity)
      BY <2>2, <3>2 DEF Level, Capped, Full
    <3>5. Level(k) = Capped(have + age * Capacity)
      BY <2>2 DEF Level, age
    <3>. QED BY <3>1, <3>3, <3>4, <3>5, FullNat, LimiterAssumption DEF Capped
  <2>. QED BY <2>1, <2>2
<1>. QED BY <1>1, <1>2

LEMMA RestartLevels ==
    ASSUME LimiterInv, LimiterRestart
    PROVE LimiterInv' /\ \A k \in Keys : Level(k)' = Full
BY LimiterAssumption DEF LimiterRestart, LimiterInv, LimiterTypeOK, Level, Full

LEMMA WatchLevels ==
    ASSUME LimiterInv, NEW k \in Keys, Watch(k)
    PROVE LimiterInv' /\ \A j \in Keys : Level(j)' = Level(j)
BY DEF Watch, LimiterInv, LimiterTypeOK, Level, Capped, Full

LEMMA NextLimiterInv == LimiterInv /\ [LimiterNext]_limiter => LimiterInv'
<1>1. ASSUME LimiterInv, UNCHANGED limiter PROVE LimiterInv'
  BY <1>1 DEF limiter, LimiterInv, LimiterTypeOK
<1>. QED
  BY <1>1, AcquireLevels, TickLevels, RestartLevels, WatchLevels DEF LimiterNext

\* Types hold and no bucket is dated in the future.
THEOREM LimiterInvHolds == LimiterSpec => []LimiterInv
<1>. QED BY InitLimiterInv, NextLimiterInv, PTL DEF LimiterSpec

-----------------------------------------------------------------------------
\* Refilling late and dropping idle buckets make no difference: the limiter
\* answers every hit as TokenBucket does.
THEOREM Refinement == LimiterSpec => ImplementsBucket
<1>. DEFINE level == [k \in Keys |-> Level(k)]
<1>1. LimiterInit => Ideal!Init
  BY DEF LimiterInit, Ideal!Init, Level
<1>2. LimiterInv /\ [LimiterNext]_limiter => [Ideal!Next]_<<level, answer>>
  <2>. SUFFICES ASSUME LimiterInv, [LimiterNext]_limiter
                PROVE [Ideal!Next]_<<level, answer>>
    OBVIOUS
  <2>1. CASE UNCHANGED limiter
    BY <2>1 DEF limiter, Level, Capped, Full
  <2>2. ASSUME NEW k \in Keys, TryAcquire(k) PROVE Ideal!Hit(k)
    <3>2. answer' = IF Level(k) >= Token THEN <<k, TRUE>> ELSE <<k, FALSE>>
      <4>1. Level(k) \in Nat
        BY LevelRange, FullNat
      <4>2. CASE Granted(k) /\ Level(k) >= Token
        BY <4>2 DEF Granted
      <4>3. CASE Denied(k) /\ Level(k) < Token
        <5>1. ~(Level(k) >= Token)
          BY <4>1, <4>3, FullNat
        <5>. QED BY <4>3, <5>1, Zenon DEF Denied
      <4>. QED BY <2>2, <4>2, <4>3, AcquireByLevel
    <3>3. level' = [level EXCEPT ![k] =
                      IF Level(k) >= Token THEN Level(k) - Token ELSE Level(k)]
      BY <2>2, AcquireLevels
    <3>4. Level(k) \in 0 .. Full
      BY LevelRange
    <3>5. CASE Level(k) >= Token
      BY <3>2, <3>3, <3>5 DEF Ideal!Hit
    <3>6. CASE Level(k) < Token
      BY <3>2, <3>3, <3>4, <3>6, FullNat DEF Ideal!Hit
    <3>. QED BY <3>4, <3>5, <3>6, FullNat
  <2>3. CASE Tick
    BY <2>3, TickLevels DEF Ideal!Next, Ideal!Tick, Tick, Capped
  <2>4. CASE LimiterRestart
    BY <2>4, RestartLevels DEF Ideal!Next, Ideal!Restart, LimiterRestart
  <2>5. ASSUME NEW k \in Keys, Watch(k) PROVE UNCHANGED <<level, answer>>
    BY <2>5, WatchLevels DEF Watch
  <2>. QED BY <2>1, <2>2, <2>3, <2>4, <2>5 DEF LimiterNext, Ideal!Next
<1>. QED BY <1>1, <1>2, LimiterInvHolds, PTL DEF LimiterSpec, ImplementsBucket, Ideal!Spec

-----------------------------------------------------------------------------
\* What was let through and what is left are paid for by the capacity and the
\* refills since the observer began to count.
Accounted ==
    watched # NULL =>
        granted * Token + Level(watched) <= Full + (clock - since) * Capacity

LEMMA NextAccounted == LimiterInv /\ Accounted /\ [LimiterNext]_limiter => Accounted'
<1>. SUFFICES ASSUME LimiterInv, Accounted, [LimiterNext]_limiter, watched' # NULL
              PROVE (granted * Token + Level(watched)
                       <= Full + (clock - since) * Capacity)'
  BY DEF Accounted
<1>. DEFINE age == clock - since
<1>1. /\ age \in Nat /\ granted \in Nat
      /\ age * Capacity \in Nat /\ granted * Token \in Nat
      /\ (age + 1) * Capacity = age * Capacity + Capacity
      /\ (granted + 1) * Token = granted * Token + Token
  <2>1. age \in Nat /\ granted \in Nat
    BY LimiterAssumption DEF LimiterInv, LimiterTypeOK
  <2>. QED BY <2>1, Product, FullNat, LimiterAssumption
<1>2. CASE UNCHANGED limiter
  BY <1>2 DEF limiter, Accounted, Level, Capped, Full, Token
<1>3. ASSUME NEW k \in Keys, TryAcquire(k)
      PROVE (granted * Token + Level(watched) <= Full + (clock - since) * Capacity)'
  <2>1. watched' = watched /\ clock' = clock /\ since' = since /\ watched \in Keys
    BY <1>3 DEF TryAcquire, Granted, Denied, LimiterInv, LimiterTypeOK
  <2>2. granted * Token + Level(watched) <= Full + age * Capacity
    BY <2>1 DEF Accounted
  <2>3. Level(watched) \in Nat
    BY <2>1, LevelRange, FullNat
  <2>4. Full' = Full /\ Token' = Token /\ Level(watched)' = Level(watched)'
    BY DEF Full, Token
  <2>5. CASE watched # k
    <3>1. granted' = granted /\ Level(watched)' = Level(watched)
      BY <2>1, <2>5, <1>3, AcquireLevels DEF TryAcquire, Granted, Denied, Count
    <3>. QED BY <3>1, <2>1, <2>2, <2>4
  <2>6. CASE watched = k /\ Level(k) >= Token
    <3>1. granted' = granted + 1
      <4>1. Granted(k)
        BY <2>3, <2>6, <1>3, AcquireByLevel, FullNat
      <4>. QED BY <2>6, <4>1 DEF Granted, Count
    <3>2. Level(watched)' = Level(watched) - Token
      BY <2>1, <2>6, <1>3, AcquireLevels
    <3>. QED BY <3>1, <3>2, <2>1, <2>2, <2>3, <2>4, <1>1, FullNat
  <2>7. CASE watched = k /\ Level(k) < Token
    <3>1. granted' = granted
      <4>1. Denied(k)
        BY <2>3, <2>7, <1>3, AcquireByLevel, FullNat
      <4>. QED BY <4>1 DEF Denied
    <3>2. Level(watched)' = Level(watched)
      BY <2>1, <2>3, <2>7, <1>3, AcquireLevels, FullNat
    <3>. QED BY <3>1, <3>2, <2>1, <2>2, <2>4
  <2>. QED BY <2>3, <2>5, <2>6, <2>7, FullNat
<1>4. CASE Tick
  <2>1. /\ watched' = watched /\ since' = since /\ granted' = granted
        /\ clock' - since' = age + 1 /\ watched \in Keys
    BY <1>4, LimiterAssumption DEF Tick, LimiterInv, LimiterTypeOK
  <2>2. granted * Token + Level(watched) <= Full + age * Capacity
    BY <2>1 DEF Accounted
  <2>3. Level(watched) \in Nat
    BY <2>1, LevelRange, FullNat
  <2>4. Level(watched)' = Capped(Level(watched) + Capacity)
    BY <1>4, <2>1, TickLevels
  <2>5. Level(watched)' \in Nat /\ Level(watched)' <= Level(watched) + Capacity
    BY <2>3, <2>4, FullNat, LimiterAssumption DEF Capped
  <2>6. Full' = Full /\ Token' = Token
    BY DEF Full, Token
  <2>7. granted * Token + Level(watched)' <= Full + (age + 1) * Capacity
    <3>. DEFINE spent == granted * Token
                refilled == age * Capacity
    <3>1. /\ spent \in Nat /\ refilled \in Nat
          /\ (age + 1) * Capacity = refilled + Capacity
          /\ spent + Level(watched) <= Full + refilled
      BY <1>1, <2>2
    <3>. HIDE DEF spent, refilled
    <3>2. spent + Level(watched)' <= Full + (refilled + Capacity)
      BY <2>3, <2>5, <3>1, FullNat, LimiterAssumption
    <3>. QED BY <3>1, <3>2 DEF spent
  <2>. HIDE DEF age
  <2>. QED BY <2>1, <2>6, <2>7
<1>5. CASE LimiterRestart
  BY <1>5 DEF LimiterRestart
<1>6. ASSUME NEW k \in Keys, Watch(k)
      PROVE (granted * Token + Level(watched) <= Full + (clock - since) * Capacity)'
  <2>1. /\ granted' = 0 /\ watched' = k
        /\ clock' = clock /\ since' = clock /\ clock \in Nat
    BY <1>6, LimiterAssumption DEF Watch, LimiterInv, LimiterTypeOK
  <2>2. Level(k)' \in 0 .. Full
    BY <1>6, WatchLevels, LevelRange
  <2>3. 0 * Token = 0 /\ (clock - clock) * Capacity = 0
    BY <2>1, FullNat, LimiterAssumption
  <2>. QED BY <2>1, <2>2, <2>3, FullNat DEF Full, Token
<1>. QED BY <1>2, <1>3, <1>4, <1>5, <1>6 DEF LimiterNext

\* From whatever moment on they are counted, the hits of a key that are let
\* through are at most one burst and what is refilled meanwhile.
THEOREM GrantsBoundedHolds == LimiterSpec => []GrantsBounded
<1>1. LimiterInit => Accounted
  BY DEF LimiterInit, Accounted
<1>2. LimiterInv /\ Accounted => GrantsBounded
  <2>. SUFFICES ASSUME LimiterInv, Accounted, watched # NULL PROVE GrantsBounded
    BY DEF GrantsBounded
  <2>1. watched \in Keys /\ clock - since \in Nat /\ granted \in Nat
    BY LimiterAssumption DEF LimiterInv, LimiterTypeOK
  <2>2. Level(watched) \in Nat
    BY <2>1, LevelRange, FullNat
  <2>3. granted * Token \in Nat /\ (clock - since) * Capacity \in Nat
    BY <2>1, Product, FullNat, LimiterAssumption
  <2>. QED BY <2>2, <2>3, FullNat DEF Accounted, GrantsBounded
<1>. QED BY <1>1, <1>2, NextAccounted, LimiterInvHolds, PTL DEF LimiterSpec

-----------------------------------------------------------------------------
\* Every step is one of the limiter, or leaves the limiter alone.
LEMMA UsesLimiter == Spec => LimiterSpec
<1>1. Init => LimiterInit
  BY DEF Init
<1>2. [Next]_vars => [LimiterNext]_limiter
  BY DEF Next, vars, LoginOk, LoginBad, Logout, Cancel, LoginArrive, LogoutArrive,
     Call, Refuse, Observe, TimePasses, Restart, LimiterNext
<1>. QED BY <1>1, <1>2, PTL DEF Spec, LimiterSpec

\* Whatever logins, sessions and restarts do, logins are limited as by buckets
\* that are refilled all the time and never dropped.
THEOREM LoginsByBucket == Spec => ImplementsBucket
<1>. QED BY UsesLimiter, Refinement, PTL

\* No IP gets more logins verified than one burst and the refills allow.
THEOREM LoginsBounded == Spec => []GrantsBounded
<1>. QED BY UsesLimiter, GrantsBoundedHolds, PTL

-----------------------------------------------------------------------------
\* What Inv says of the sessions.
SessionOK(i) == sessions[i] # NULL =>
    i \in issued /\ i \notin dead /\ sessions[i] = lastUse[i] /\ lastUse[i] <= clock

LEMMA InitInv == Init => Inv
BY InitLimiterInv, LimiterAssumption
   DEF Init, Inv, TypeOK, LimiterInv, LimiterInit

\* A step of the limiter leaves the sessions as they were and the clock ahead.
LEMMA ClockInv ==
    ASSUME Inv, LimiterInv, LimiterInv', clock' >= clock,
           UNCHANGED <<sessions, issued, lastUse, dead, id>>,
           accepted' = NULL,
           pc' \in [Requests -> {"idle", "verifying", "leaving"}],
           \A r \in Requests : pc'[r] = "leaving" => pc[r] = "leaving"
    PROVE Inv'
BY LimiterAssumption DEF Inv, TypeOK, LimiterInv, LimiterTypeOK

LEMMA LoginArriveInv ==
    ASSUME Inv, LimiterInv, LimiterInv',
           NEW r \in Requests, NEW k \in Keys, LoginArrive(r, k)
    PROVE Inv'
<1>1. clock' = clock
  BY DEF LoginArrive, TryAcquire, Granted, Denied
<1>2. pc' \in [Requests -> {"idle", "verifying", "leaving"}]
  BY DEF LoginArrive, Inv, TypeOK
<1>3. \A q \in Requests : pc'[q] = "leaving" => pc[q] = "leaving"
  BY DEF LoginArrive, Inv, TypeOK
<1>. QED BY <1>1, <1>2, <1>3, ClockInv DEF LoginArrive, Inv, TypeOK, LimiterTypeOK

LEMMA LoginOkInv == ASSUME Inv, NEW r \in Requests, LoginOk(r) PROVE Inv'
<1>1. clock \in 0 .. MaxTime /\ UNCHANGED limiter
  BY DEF LoginOk, Inv, TypeOK, LimiterTypeOK
<1>2. PICK i \in Ids \ issued : /\ sessions' = [Swept EXCEPT ![i] = clock]
                                /\ issued' = issued \cup {i}
                                /\ lastUse' = [lastUse EXCEPT ![i] = clock]
  BY DEF LoginOk
<1>3. Swept \in [Ids -> (0 .. MaxTime) \cup {NULL}]
  BY DEF Swept, Inv, TypeOK
<1>4. LimiterTypeOK'
  BY <1>1 DEF limiter, LimiterTypeOK, Inv, TypeOK, Bucket, Full
<1>5. TypeOK'
  BY <1>1, <1>2, <1>3, <1>4 DEF LoginOk, Inv, TypeOK
<1>6. \A j \in Ids : SessionOK(j)'
  BY <1>1, <1>2, <1>3, LimiterAssumption
  DEF LoginOk, SessionOK, Swept, Inv, TypeOK, limiter
<1>7. \A q \in Requests : pc'[q] = "leaving" => id'[q] \in issued'
  BY <1>2 DEF LoginOk, Inv, TypeOK
<1>. QED BY <1>5, <1>6, <1>7 DEF Inv, SessionOK

LEMMA ValidateInv ==
    ASSUME Inv, NEW i \in Ids, Validate(i), UNCHANGED <<limiter, issued, dead>>
    PROVE /\ LimiterTypeOK'
          /\ sessions' \in [Ids -> (0 .. MaxTime) \cup {NULL}]
          /\ lastUse' \in [Ids -> 0 .. MaxTime]
          /\ i \in issued \ dead /\ clock - lastUse[i] <= SessionIdle
          /\ \A j \in Ids : SessionOK(j)'
<1>1. clock \in 0 .. MaxTime /\ LimiterTypeOK'
  BY DEF limiter, LimiterTypeOK, Inv, TypeOK, Bucket, Full
<1>2. i \in issued \ dead /\ clock - lastUse[i] <= SessionIdle
  BY DEF Validate, Alive, Inv
<1>3. /\ sessions' = [sessions EXCEPT ![i] = clock]
      /\ lastUse' = [lastUse EXCEPT ![i] = clock]
      /\ issued' = issued /\ dead' = dead /\ clock' = clock
  BY DEF Validate, limiter
<1>4. \A j \in Ids : SessionOK(j)'
  BY <1>1, <1>2, <1>3, LimiterAssumption DEF SessionOK, Inv, TypeOK
<1>. QED BY <1>1, <1>2, <1>3, <1>4 DEF Inv, TypeOK

LEMMA CallInv == ASSUME Inv, NEW i \in Ids, Call(i) PROVE Inv'
<1>1. Validate(i) /\ UNCHANGED <<limiter, pc, id, issued, dead>>
  BY DEF Call
<1>. QED BY <1>1, ValidateInv DEF Validate, Inv, TypeOK, SessionOK

LEMMA LogoutArriveInv ==
    ASSUME Inv, NEW r \in Requests, NEW i \in Ids, LogoutArrive(r, i) PROVE Inv'
<1>1. Validate(i) /\ UNCHANGED <<limiter, issued, dead>>
  BY DEF LogoutArrive
<1>2. /\ pc' = [pc EXCEPT ![r] = "leaving"]
      /\ id' = [id EXCEPT ![r] = i]
      /\ accepted' = i
  BY DEF LogoutArrive, Validate
<1>. QED BY <1>1, <1>2, ValidateInv DEF Inv, TypeOK, SessionOK

\* Removing a session that had been issued.
LEMMA RemoveInv ==
    ASSUME Inv, NEW i \in issued,
           sessions' = [sessions EXCEPT ![i] = NULL],
           lastUse' = [lastUse EXCEPT ![i] = 0],
           dead' = dead \cup {i},
           accepted' = NULL,
           UNCHANGED <<limiter, issued>>,
           pc' \in [Requests -> {"idle", "verifying", "leaving"}],
           id' \in [Requests -> Ids \cup {NULL}],
           \A r \in Requests : pc'[r] = "leaving" => pc[r] = "leaving" /\ id'[r] = id[r]
    PROVE Inv'
<1>1. LimiterTypeOK'
  BY DEF limiter, LimiterTypeOK, Inv, TypeOK, Bucket, Full
<1>2. TypeOK'
  BY <1>1, LimiterAssumption DEF Inv, TypeOK
<1>3. \A j \in Ids : SessionOK(j)'
  BY DEF SessionOK, Inv, TypeOK, limiter
<1>. QED BY <1>2, <1>3 DEF Inv, SessionOK

LEMMA RefuseInv == ASSUME Inv, NEW i \in Ids, Refuse(i) PROVE Inv'
BY RemoveInv DEF Refuse, Inv, TypeOK

LEMMA LogoutInv == ASSUME Inv, NEW r \in Requests, Logout(r) PROVE Inv'
<1>1. id[r] \in issued
  BY DEF Logout, Inv
<1>2. /\ pc' \in [Requests -> {"idle", "verifying", "leaving"}]
      /\ id' \in [Requests -> Ids \cup {NULL}]
      /\ \A q \in Requests : pc'[q] = "leaving" => pc[q] = "leaving" /\ id'[q] = id[q]
  BY DEF Logout, Inv, TypeOK
<1>. QED BY <1>1, <1>2, RemoveInv DEF Logout

LEMMA LeaveInv ==
    ASSUME Inv, NEW r \in Requests, LoginBad(r) \/ Cancel(r) PROVE Inv'
<1>1. UNCHANGED <<limiter, sessions, issued, lastUse, dead>> /\ accepted' = NULL
  BY DEF LoginBad, Cancel
<1>2. LimiterTypeOK'
  BY <1>1 DEF limiter, LimiterTypeOK, Inv, TypeOK, Bucket, Full
<1>3. /\ pc' \in [Requests -> {"idle", "verifying", "leaving"}]
      /\ id' \in [Requests -> Ids \cup {NULL}]
      /\ \A q \in Requests : pc'[q] = "leaving" => id'[q] \in issued
  BY DEF LoginBad, Cancel, Inv, TypeOK
<1>. QED BY <1>1, <1>2, <1>3 DEF Inv, TypeOK, limiter

LEMMA NextInv == Inv /\ LimiterInv /\ LimiterInv' /\ [Next]_vars => Inv'
<1>. SUFFICES ASSUME Inv, LimiterInv, LimiterInv', [Next]_vars PROVE Inv'
  OBVIOUS
<1>1. CASE UNCHANGED vars
  BY <1>1 DEF vars, limiter, access, Inv, TypeOK, LimiterTypeOK, Bucket, Full
<1>2. CASE TimePasses
  <2>1. clock' >= clock
    BY <1>2 DEF TimePasses, Tick, LimiterInv, LimiterTypeOK
  <2>. QED BY <1>2, <2>1, ClockInv DEF TimePasses, Inv, TypeOK
<1>3. ASSUME NEW k \in Keys, Observe(k) PROVE Inv'
  <2>1. clock' >= clock
    BY <1>3 DEF Observe, Watch, LimiterInv, LimiterTypeOK
  <2>. QED BY <1>3, <2>1, ClockInv DEF Observe, Inv, TypeOK
<1>4. CASE Restart
  BY <1>4, LimiterAssumption DEF Restart, Inv, TypeOK, LimiterInv
<1>. QED
  BY <1>1, <1>2, <1>3, <1>4, LoginArriveInv, LoginOkInv, CallInv, LogoutArriveInv,
     RefuseInv, LogoutInv, LeaveInv
  DEF Next

\* Types; a session that is in the map was issued, has not been logged out or
\* refused, and its last_seen is the last call it let in.
THEOREM InvHolds == Spec => []Inv
<1>. QED BY InitInv, NextInv, LimiterInvHolds, UsesLimiter, PTL DEF Spec

\* A call is let in only by a session that was issued by this process, was not
\* logged out or refused before, and was used at most SessionIdle ago.
THEOREM LetInAliveHolds == Spec => LetInAlive
<1>1. Inv /\ [Next]_vars =>
        [accepted' # NULL =>
            /\ accepted' \in issued \ dead
            /\ clock - lastUse[accepted'] <= SessionIdle]_vars
  <2>. SUFFICES ASSUME Inv, Next, accepted' # NULL
                PROVE /\ accepted' \in issued \ dead
                      /\ clock - lastUse[accepted'] <= SessionIdle
    OBVIOUS
  <2>1. PICK i \in Ids : Validate(i)
    BY DEF Next, LoginOk, LoginBad, Logout, Cancel, LoginArrive, LogoutArrive,
       Call, Refuse, Observe, TimePasses, Restart
  <2>. QED BY <2>1 DEF Validate, Alive, Inv
<1>. QED BY <1>1, InvHolds, PTL DEF Spec, LetInAlive

\* When the map grows, nothing that has expired stays in it.
THEOREM GrowsSweptHolds == Spec => GrowsSwept
<1>1. Inv /\ [Next]_vars =>
        [(\E i \in Ids : sessions[i] = NULL /\ sessions'[i] # NULL) =>
            \A i \in Ids : sessions'[i] # NULL =>
                clock - sessions'[i] <= SessionIdle]_vars
  <2>. SUFFICES ASSUME Inv, Next, NEW j \in Ids,
                       sessions[j] = NULL, sessions'[j] # NULL
                PROVE \A i \in Ids : sessions'[i] # NULL =>
                          clock - sessions'[i] <= SessionIdle
    OBVIOUS
  <2>1. PICK r \in Requests : LoginOk(r)
    BY DEF Next, LoginBad, Logout, Cancel, LoginArrive, LogoutArrive, Call, Refuse,
       Observe, TimePasses, Restart, Validate, Alive, Inv, TypeOK
  <2>2. clock \in Nat
    BY LimiterAssumption DEF Inv, TypeOK, LimiterTypeOK
  <2>. QED BY <2>1, <2>2, SessionAssumption DEF LoginOk, Swept, Alive
<1>. QED BY <1>1, InvHolds, PTL DEF Spec, GrowsSwept
=============================================================================
