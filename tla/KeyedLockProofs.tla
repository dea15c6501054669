-------------------------- MODULE KeyedLockProofs ---------------------------
(***************************************************************************)
(* KeyedLock excludes for any number of callers, keys and addresses.  The  *)
(* argument: Inv is inductive, because an entry whose Arc a second caller  *)
(* of the key still holds has a strong count of at least 3 and so survives *)
(* `release`; under Inv two callers that run with one key own one mutex.   *)
(***************************************************************************)
EXTENDS KeyedLock, FiniteSetTheorems, TLAPS

USE DEF Steps

\* A table reference and those of two callers make a strong count above 2.
LEMMA ThirdReference ==
    ASSUME TypeOK,
           NEW p \in Procs, NEW q \in Procs, p # q,
           NEW k \in Keys, NEW a,
           table[k] = a, arc[p] = a, arc[q] = a
    PROVE  ~(StrongCount(a) <= 2)
<1>1. {k} \in SUBSET Entries(a) /\ {p, q} \in SUBSET Holders(a)
  BY DEF Entries, Holders
<1>2. IsFiniteSet(Entries(a))
  <2>1. Entries(a) \in SUBSET Keys
    BY DEF Entries
  <2> QED BY <2>1, KeysAssumption, FS_Subset
<1>3. IsFiniteSet(Holders(a))
  <2>1. Holders(a) \in SUBSET Procs
    BY DEF Holders
  <2> QED BY <2>1, ProcsAssumption, FS_Subset
<1>4. Cardinality({k}) = 1
  BY FS_Singleton
<1>5. Cardinality({p, q}) = 2
  <2>1. IsFiniteSet({p}) /\ Cardinality({p}) = 1
    BY FS_Singleton
  <2>2. {p, q} = {p} \cup {q} /\ q \notin {p}
    OBVIOUS
  <2>3. Cardinality({p} \cup {q}) = Cardinality({p}) + 1
    BY <2>1, <2>2, FS_AddElement
  <2> QED BY <2>1, <2>2, <2>3
<1>6. Cardinality(Entries(a)) \in Nat /\ 1 <= Cardinality(Entries(a))
  BY <1>1, <1>2, <1>4, FS_Subset, FS_CardinalityType
<1>7. Cardinality(Holders(a)) \in Nat /\ 2 <= Cardinality(Holders(a))
  BY <1>1, <1>3, <1>5, FS_Subset, FS_CardinalityType
<1> QED BY <1>6, <1>7 DEF StrongCount

\* So the last holder of an entry is the only caller with its Arc.
LEMMA LastHolderAlone ==
    ASSUME TypeOK, NEW p \in Procs, LastHolder(p),
           NEW q \in Procs, arc[q] = arc[p]
    PROVE  q = p
<1>1. key[p] \in Keys /\ table[key[p]] = arc[p] /\ StrongCount(arc[p]) <= 2
  BY DEF LastHolder, TypeOK
<1> QED BY <1>1, ThirdReference

\* Init establishes the inductive invariant.
LEMMA InitInv == Init => Inv
BY ProcsAssumption, AddrsAssumption
   DEF Init, Inv, TypeOK, EntryHeld, RunnerOwns, NoOrphanedPermit, Queue

\* What letting go of mutex a does to the owners: the permit goes to a caller
\* that queues on a, or to nobody when there is none.
LEMMA HandOverOwner ==
    ASSUME TypeOK, NEW a \in Addrs, HandOver(a)
    PROVE  /\ owner' \in [Addrs -> Procs \cup {NULL}]
           /\ ahead' \in [Procs -> SUBSET Procs]
           /\ \A b \in Addrs : b # a => owner'[b] = owner[b]
           /\ \/ owner'[a] = NULL /\ Queue(a) = {}
              \/ owner'[a] \in Queue(a)
BY DEF HandOver, TypeOK, Queue

LEMMA StepInv == Inv /\ [Next]_vars => Inv'
<1> SUFFICES ASSUME Inv, [Next]_vars PROVE Inv'
  OBVIOUS
<1> USE ProcsAssumption, AddrsAssumption
<1>1. TypeOK
  BY DEF Inv
<1>2. ASSUME NEW p \in Procs, NEW k \in Keys, LockFor(p, k) PROVE Inv'
  <2>1. TypeOK'
    BY <1>1, <1>2 DEF LockFor, TypeOK
  <2>2. \A q \in Procs : arc'[q] = NULL <=> pc'[q] = "idle"
    BY <1>2, <1>1 DEF LockFor, TypeOK, Inv
  <2>3. EntryHeld'
    BY <1>2, <1>1 DEF LockFor, TypeOK, Inv, EntryHeld, Free, Entries, Holders
  <2>4. RunnerOwns'
    BY <1>2, <1>1 DEF LockFor, TypeOK, Inv, RunnerOwns, Free, Entries, Holders
  <2>5. NoOrphanedPermit'
    BY <1>2, <1>1 DEF LockFor, TypeOK, Inv, NoOrphanedPermit, Queue, Free, Entries, Holders
  <2> QED BY <2>1, <2>2, <2>3, <2>4, <2>5 DEF Inv
<1>3. ASSUME NEW p \in Procs, Lock(p) PROVE Inv'
  <2>1. arc[p] \in Addrs
    BY <1>3, <1>1 DEF Lock, TypeOK, Inv
  <2> QED BY <1>3, <1>1, <2>1
    DEF Lock, Inv, TypeOK, EntryHeld, RunnerOwns, NoOrphanedPermit, Queue
<1>4. ASSUME NEW p \in Procs, Enqueue(p) PROVE Inv'
  BY <1>4, <1>1
    DEF Enqueue, Inv, TypeOK, EntryHeld, RunnerOwns, NoOrphanedPermit, Queue
<1>5. ASSUME NEW p \in Procs, Wake(p) PROVE Inv'
  BY <1>5, <1>1
    DEF Wake, Inv, TypeOK, EntryHeld, RunnerOwns, NoOrphanedPermit, Queue
<1>6. ASSUME NEW p \in Procs, DropGuard(p) PROVE Inv'
  <2>1. arc[p] \in Addrs /\ owner[arc[p]] = p
    BY <1>6, <1>1 DEF DropGuard, TypeOK, Inv, RunnerOwns
  <2>2. HandOver(arc[p])
    BY <1>6 DEF DropGuard
  <2>3. TypeOK'
    BY <1>6, <1>1, <2>1, <2>2, HandOverOwner DEF DropGuard, TypeOK
  <2>4. \A q \in Procs : arc'[q] = NULL <=> pc'[q] = "idle"
    BY <1>6, <1>1 DEF DropGuard, TypeOK, Inv
  <2>5. EntryHeld'
    BY <1>6, <1>1 DEF DropGuard, TypeOK, Inv, EntryHeld
  <2>6. RunnerOwns'
    BY <1>6, <1>1, <2>1, <2>2, HandOverOwner DEF DropGuard, TypeOK, Inv, RunnerOwns
  <2>7. NoOrphanedPermit'
    BY <1>6, <1>1, <2>1, <2>2, HandOverOwner DEF DropGuard, TypeOK, Inv, NoOrphanedPermit, Queue
  <2> QED BY <2>3, <2>4, <2>5, <2>6, <2>7 DEF Inv
<1>7. ASSUME NEW p \in Procs, Release(p) PROVE Inv'
  <2>1. TypeOK'
    BY <1>7, <1>1 DEF Release, TypeOK
  <2>2. EntryHeld'
    <3> SUFFICES ASSUME NEW q \in Procs,
                        pc'[q] \in {"got", "waiting", "running", "releasing"}
                 PROVE  table'[key'[q]] = arc'[q]
      BY DEF EntryHeld
    <3>1. q # p /\ pc[q] = pc'[q] /\ key' = key /\ arc' = arc
      BY <1>7, <1>1 DEF Release, TypeOK
    <3>2. table[key[q]] = arc[q]
      BY <3>1 DEF Inv, EntryHeld
    <3>3. CASE LastHolder(p)
      <4>1. arc[q] # arc[p]
        BY <1>1, <3>1, <3>3, LastHolderAlone
      <4>2. key[q] # key[p]
        BY <3>2, <3>3, <4>1 DEF LastHolder
      <4> QED BY <1>7, <1>1, <3>1, <3>2, <3>3, <4>2 DEF Release, TypeOK
    <3>4. CASE ~LastHolder(p)
      BY <1>7, <3>1, <3>2, <3>4 DEF Release
    <3> QED BY <3>3, <3>4
  <2>3. \A q \in Procs : arc'[q] = NULL <=> pc'[q] = "idle"
    BY <1>7, <1>1 DEF Release, TypeOK, Inv
  <2>4. RunnerOwns' /\ NoOrphanedPermit'
    BY <1>7, <1>1 DEF Release, TypeOK, Inv, RunnerOwns, NoOrphanedPermit, Queue
  <2> QED BY <2>1, <2>2, <2>3, <2>4 DEF Inv
<1>8. ASSUME NEW p \in Procs, Return(p) PROVE Inv'
  BY <1>8, <1>1
    DEF Return, Inv, TypeOK, EntryHeld, RunnerOwns, NoOrphanedPermit, Queue
<1>9. ASSUME NEW p \in Procs, Cancel(p) PROVE Inv'
  <2>1. arc[p] \in Addrs
    BY <1>9, <1>1 DEF Cancel, TypeOK, Inv
  <2>2. EntryHeld' /\ \A q \in Procs : arc'[q] = NULL <=> pc'[q] = "idle"
    BY <1>9, <1>1 DEF Cancel, TypeOK, Inv, EntryHeld
  <2>3. CASE owner[arc[p]] = p /\ HandOver(arc[p])
    <3>1. TypeOK'
      BY <1>9, <1>1, <2>1, <2>3, HandOverOwner DEF Cancel, TypeOK
    <3>2. RunnerOwns'
      BY <1>9, <1>1, <2>1, <2>3, HandOverOwner DEF Cancel, TypeOK, Inv, RunnerOwns
    <3>3. NoOrphanedPermit'
      BY <1>9, <1>1, <2>1, <2>3, HandOverOwner DEF Cancel, TypeOK, Inv, NoOrphanedPermit, Queue
    <3> QED BY <2>2, <3>1, <3>2, <3>3 DEF Inv
  <2>4. CASE /\ owner[arc[p]] # p /\ UNCHANGED owner
             /\ ahead' = [q \in Procs |-> ahead[q] \ {p}]
    <3>1. TypeOK'
      BY <1>9, <1>1, <2>4 DEF Cancel, TypeOK
    <3>2. RunnerOwns' /\ NoOrphanedPermit'
      BY <1>9, <1>1, <2>4 DEF Cancel, TypeOK, Inv, RunnerOwns, NoOrphanedPermit, Queue
    <3> QED BY <2>2, <3>1, <3>2 DEF Inv
  <2> QED BY <1>9, <2>3, <2>4 DEF Cancel
<1>10. CASE UNCHANGED vars
  BY <1>10 DEF vars, Inv, TypeOK, EntryHeld, RunnerOwns, NoOrphanedPermit, Queue
<1> QED
  BY <1>2, <1>3, <1>4, <1>5, <1>6, <1>7, <1>8, <1>9, <1>10 DEF Next, Step

\* Inv holds in every reachable state: types, and from lock_for to release
\* the Arc a caller holds is the one in the table.
THEOREM InvHolds == Spec => []Inv
BY InitInv, StepInv, PTL DEF Spec

\* A mutex is held by a live caller, and nobody queues on a free one: callers
\* dropped at any await leave no permit behind.
THEOREM NoOrphanedPermitHolds == Spec => []NoOrphanedPermit
<1>1. Inv => NoOrphanedPermit
  BY DEF Inv
<1> QED BY <1>1, InvHolds, PTL

-----------------------------------------------------------------------------
\* keyed_lock.rs:25: at most one future runs under a key.
THEOREM MutualExclusionHolds == Spec => []MutualExclusion
<1>1. Inv => MutualExclusion
  <2> SUFFICES ASSUME Inv, NEW p \in Procs, NEW q \in Procs,
                      pc[p] = "running", pc[q] = "running", key[p] = key[q]
               PROVE  p = q
    BY DEF MutualExclusion
  <2>1. arc[p] = arc[q]
    BY DEF Inv, EntryHeld
  <2> QED BY <2>1 DEF Inv, RunnerOwns
<1> QED BY <1>1, InvHolds, PTL

\* keyed_lock.rs:43-44: an entry is removed only when no caller of its key is
\* between lock_for and the drop of its guard.
THEOREM EntryLeavesUnusedHolds == Spec => EntryLeavesUnused
<1>1. ASSUME Inv, [Next]_vars, NEW k \in Keys, table[k] # NULL, table'[k] = NULL
      PROVE  ~Busy(k)
  <2>1. TypeOK
    BY <1>1 DEF Inv
  <2>2. PICK p \in Procs : Release(p) /\ LastHolder(p) /\ k = key[p]
    BY <1>1, <2>1, AddrsAssumption
      DEF Next, Step, vars, LockFor, Lock, Enqueue, Wake, DropGuard, Release,
          Return, Cancel, TypeOK
  <2>3. ASSUME NEW q \in Procs, key[q] = k,
               pc[q] \in {"got", "waiting", "running"}
        PROVE  FALSE
    <3>1. arc[q] = arc[p]
      BY <1>1, <2>2, <2>3 DEF Inv, EntryHeld, LastHolder
    <3>2. q = p
      BY <2>1, <2>2, <3>1, LastHolderAlone
    <3> QED BY <2>2, <2>3, <3>2 DEF Release
  <2> QED BY <2>3 DEF Busy
<1>2. Inv /\ [Next]_vars =>
        [\A k \in Keys : table[k] # NULL /\ table'[k] = NULL => ~Busy(k)]_vars
  BY <1>1
<1> QED BY <1>2, InvHolds, PTL DEF Spec, EntryLeavesUnused

-----------------------------------------------------------------------------
\* KeyedLock implements KeyedMutex: its callers cannot tell the lock table
\* with its removals and reused addresses from one mutex per key.
THEOREM Refinement == Spec => ImplementsMutex
<1>1. Init => Mutex!Init
  BY DEF Init, Mutex!Init, PhaseOf
<1>2. Inv /\ [Next]_vars => [Mutex!Next]_(Mutex!vars)
  <2> SUFFICES ASSUME Inv, [Next]_vars PROVE [Mutex!Next]_(Mutex!vars)
    OBVIOUS
  <2> USE DEF PhaseOf
  <2>1. TypeOK
    BY DEF Inv
  <2>2. ASSUME NEW p \in Procs, NEW k \in Keys, LockFor(p, k) PROVE Mutex!Ask(p, k)
    BY <2>1, <2>2 DEF LockFor, Mutex!Ask, TypeOK
  <2>3. ASSUME NEW p \in Procs, Lock(p) \/ Wake(p) PROVE Mutex!Enter(p)
    <3>1. \A q \in Procs : ~(pc[q] = "running" /\ key[q] = key[p])
      <4> SUFFICES ASSUME NEW q \in Procs, pc[q] = "running", key[q] = key[p]
                   PROVE  FALSE
        OBVIOUS
      <4>1. arc[q] = arc[p]
        BY <2>3 DEF Inv, EntryHeld, Lock, Wake
      <4>2. owner[arc[p]] = q
        BY <4>1 DEF Inv, RunnerOwns
      <4> QED BY <2>3, <4>2, ProcsAssumption DEF Lock, Wake
    <3>2. Mutex!Inside(key[p]) = {}
      BY <3>1 DEF Mutex!Inside
    <3> QED BY <2>1, <2>3, <3>2 DEF Lock, Wake, Mutex!Enter, TypeOK
  <2>4. ASSUME NEW p \in Procs, DropGuard(p) \/ Cancel(p) PROVE Mutex!Leave(p)
    BY <2>1, <2>4 DEF DropGuard, Cancel, Mutex!Leave, TypeOK
  <2>5. ASSUME NEW p \in Procs, Enqueue(p) \/ Release(p) \/ Return(p)
        PROVE  UNCHANGED Mutex!vars
    BY <2>1, <2>5 DEF Enqueue, Release, Return, Mutex!vars, TypeOK
  <2>6. CASE UNCHANGED vars
    BY <2>6 DEF vars, Mutex!vars
  <2> QED BY <2>2, <2>3, <2>4, <2>5, <2>6 DEF Next, Step, Mutex!Next
<1> QED BY <1>1, <1>2, InvHolds, PTL DEF Spec, ImplementsMutex, Mutex!Spec
=============================================================================
