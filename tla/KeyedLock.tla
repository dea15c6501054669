----------------------------- MODULE KeyedLock ------------------------------
(***************************************************************************)
(* `KeyedLock` (src/src/keyed_lock.rs): a table from keys to reference-    *)
(* counted tokio mutexes.  `run` looks the key up (or inserts a mutex),    *)
(* awaits the mutex, awaits the caller's future under the guard, drops the *)
(* guard, and removes the entry when it seems to be the last holder.  The  *)
(* table itself is under a std mutex, so `lock_for` and `release` are one  *)
(* step each.  Everything else interleaves: the reference a caller holds   *)
(* goes away only when `run` returns, one step after `release`.            *)
(*                                                                         *)
(* A caller is an axum handler: when its client disconnects the handler is *)
(* dropped at the await it is suspended on, so `Cancel` may take a caller  *)
(* that waits or runs, and then `release` is never called.                 *)
(***************************************************************************)
EXTENDS Naturals, FiniteSets

CONSTANTS Procs,   \* the concurrent callers of run
          Keys,    \* the keys they use
          Addrs,   \* where a mutex can be allocated; an address is reused
          NULL     \* no mutex, no caller

ASSUME ProcsAssumption == IsFiniteSet(Procs) /\ NULL \notin Procs
ASSUME KeysAssumption == IsFiniteSet(Keys) /\ Keys # {}
ASSUME AddrsAssumption == NULL \notin Addrs

VARIABLES table,   \* the HashMap: the mutex of a key, or NULL
          pc,      \* where each caller is in run
          key,     \* its `key` argument
          arc,     \* its local `lock`: an Arc, or NULL when it has none
          owner,   \* the holder of each tokio mutex, or NULL
          ahead    \* the callers queued on the mutex before a queued caller

vars == <<table, pc, key, arc, owner, ahead>>

Steps == {"idle", "got", "waiting", "running", "releasing", "returning"}

TypeOK == /\ table \in [Keys -> Addrs \cup {NULL}]
          /\ pc \in [Procs -> Steps]
          /\ key \in [Procs -> Keys]
          /\ arc \in [Procs -> Addrs \cup {NULL}]
          /\ owner \in [Addrs -> Procs \cup {NULL}]
          /\ ahead \in [Procs -> SUBSET Procs]

Init == /\ table = [k \in Keys |-> NULL]
        /\ pc = [p \in Procs |-> "idle"]
        /\ key \in [Procs -> Keys]
        /\ arc = [p \in Procs |-> NULL]
        /\ owner = [a \in Addrs |-> NULL]
        /\ ahead = [p \in Procs |-> {}]

-----------------------------------------------------------------------------
\* The references that are alive: a mutex nobody refers to is freed.
Entries(a) == {k \in Keys : table[k] = a}
Holders(a) == {p \in Procs : arc[p] = a}

\* Mutant: only the callers' references are counted.
StrongCountNoTable(a) == Cardinality(Holders(a))

StrongCount(a) == Cardinality(Entries(a)) + Cardinality(Holders(a))

Free(a) == Entries(a) = {} /\ Holders(a) = {}

\* The callers queued on mutex a: they wait and do not have the permit yet.
Queue(a) == {p \in Procs : pc[p] = "waiting" /\ arc[p] = a /\ owner[a] # p}

\* Mutant: the permit is given back and nobody is woken.
HandOverToNobody(a) == owner' = [owner EXCEPT ![a] = NULL] /\ UNCHANGED ahead

(***************************************************************************)
(* The tokio mutex is fair: when its holder lets go, the permit passes to  *)
(* the caller that has queued longest, before that caller is polled again. *)
(***************************************************************************)
HandOver(a) ==
    \/ /\ Queue(a) = {}
       /\ owner' = [owner EXCEPT ![a] = NULL]
       /\ UNCHANGED ahead
    \/ \E q \in Queue(a) :
          /\ ahead[q] = {}
          /\ owner' = [owner EXCEPT ![a] = q]
          /\ ahead' = [r \in Procs |-> ahead[r] \ {q}]

-----------------------------------------------------------------------------
\* Mutant: insert in place of entry().or_default().
LockForInsert(p, k) ==
    /\ pc[p] = "idle"
    /\ pc' = [pc EXCEPT ![p] = "got"]
    /\ key' = [key EXCEPT ![p] = k]
    /\ UNCHANGED ahead
    /\ \E a \in Addrs : /\ Free(a)
                        /\ table' = [table EXCEPT ![k] = a]
                        /\ arc' = [arc EXCEPT ![p] = a]
                        /\ owner' = [owner EXCEPT ![a] = NULL]

\* run starts: lock_for clones the entry's Arc, inserting a fresh mutex first
\* when the key has none.
LockFor(p, k) ==
    /\ pc[p] = "idle"
    /\ pc' = [pc EXCEPT ![p] = "got"]
    /\ key' = [key EXCEPT ![p] = k]
    /\ UNCHANGED ahead
    /\ \/ /\ table[k] # NULL
          /\ arc' = [arc EXCEPT ![p] = table[k]]
          /\ UNCHANGED <<table, owner>>
       \/ /\ table[k] = NULL
          /\ \E a \in Addrs :
                /\ Free(a)
                /\ table' = [table EXCEPT ![k] = a]
                /\ arc' = [arc EXCEPT ![p] = a]
                /\ owner' = [owner EXCEPT ![a] = NULL]

\* First poll of lock().await: take the free mutex ...
Lock(p) ==
    /\ pc[p] = "got"
    /\ owner[arc[p]] = NULL
    /\ owner' = [owner EXCEPT ![arc[p]] = p]
    /\ pc' = [pc EXCEPT ![p] = "running"]
    /\ UNCHANGED <<table, key, arc, ahead>>

\* ... or queue behind those who wait already.
Enqueue(p) ==
    /\ pc[p] = "got"
    /\ owner[arc[p]] # NULL
    /\ ahead' = [ahead EXCEPT ![p] = Queue(arc[p])]
    /\ pc' = [pc EXCEPT ![p] = "waiting"]
    /\ UNCHANGED <<table, key, arc, owner>>

\* The permit was handed over; the task is polled and runs the future.
Wake(p) ==
    /\ pc[p] = "waiting"
    /\ owner[arc[p]] = p
    /\ pc' = [pc EXCEPT ![p] = "running"]
    /\ UNCHANGED <<table, key, arc, owner, ahead>>

\* The future is done: the block ends and drops the guard.
DropGuard(p) ==
    /\ pc[p] = "running"
    /\ HandOver(arc[p])
    /\ pc' = [pc EXCEPT ![p] = "releasing"]
    /\ UNCHANGED <<table, key, arc>>

\* Mutants: the count is not looked at; the count is off by one.
LastHolderUncounted(p) == table[key[p]] = arc[p]
LastHolderOffByOne(p) == StrongCount(arc[p]) <= 3 /\ table[key[p]] = arc[p]

\* A count of 2 is the table's reference and the caller's own.
LastHolder(p) == StrongCount(arc[p]) <= 2 /\ table[key[p]] = arc[p]

Release(p) ==
    /\ pc[p] = "releasing"
    /\ table' = IF LastHolder(p) THEN [table EXCEPT ![key[p]] = NULL] ELSE table
    /\ pc' = [pc EXCEPT ![p] = "returning"]
    /\ UNCHANGED <<key, arc, owner, ahead>>

\* The local Arc goes out of scope: run returned, or its future was dropped.
Return(p) ==
    /\ pc[p] = "returning"
    /\ pc' = [pc EXCEPT ![p] = "idle"]
    /\ arc' = [arc EXCEPT ![p] = NULL]
    /\ UNCHANGED <<table, key, owner, ahead>>

\* Mutant: a caller dropped before it sees its permit keeps it.
CancelForgetsPermit(p) ==
    /\ pc[p] \in {"waiting", "running"}
    /\ pc' = [pc EXCEPT ![p] = "returning"]
    /\ UNCHANGED <<table, key, arc>>
    /\ IF pc[p] = "running"
       THEN HandOver(arc[p])
       ELSE /\ ahead' = [q \in Procs |-> ahead[q] \ {p}]
            /\ UNCHANGED owner

\* The handler is dropped (or its future panics) while it queues: it leaves
\* the queue; or while it has the permit: the permit is handed over.
Cancel(p) ==
    /\ pc[p] \in {"waiting", "running"}
    /\ pc' = [pc EXCEPT ![p] = "returning"]
    /\ UNCHANGED <<table, key, arc>>
    /\ \/ /\ owner[arc[p]] = p
          /\ HandOver(arc[p])
       \/ /\ owner[arc[p]] # p
          /\ ahead' = [q \in Procs |-> ahead[q] \ {p}]
          /\ UNCHANGED owner

\* The steps of run itself, and all of a caller's steps.
Step(p) == \/ Lock(p) \/ Enqueue(p) \/ Wake(p)
           \/ DropGuard(p) \/ Release(p) \/ Return(p)

Next == \E p \in Procs : (\E k \in Keys : LockFor(p, k)) \/ Step(p) \/ Cancel(p)

Spec == Init /\ [][Next]_vars

\* The runtime polls a task that is ready, and the futures run under the lock
\* end: their database calls return and their fetches time out.
Fairness == \A p \in Procs : WF_vars(Step(p))

FairSpec == Spec /\ Fairness

-----------------------------------------------------------------------------
\* keyed_lock.rs:25 "at any moment only one refresh of a key is running".  It
\* is about keys, not mutexes: it fails when two callers of one key hold two
\* different mutexes because an entry was removed too early.
MutualExclusion ==
    \A p, q \in Procs :
        pc[p] = "running" /\ pc[q] = "running" /\ key[p] = key[q] => p = q

\* An entry leaves the table only when no caller of that key is between
\* lock_for and the drop of its guard: otherwise the next caller would get a
\* second mutex and run beside it (keyed_lock.rs:43-44).
Busy(k) == \E p \in Procs : pc[p] \in {"got", "waiting", "running"} /\ key[p] = k

EntryLeavesUnused ==
    [][\A k \in Keys : table[k] # NULL /\ table'[k] = NULL => ~Busy(k)]_vars

\* A mutex is held only by a caller that is alive and will let go of it, and
\* nobody queues on a free one.  A caller dropped while it waits, runs, or was
\* just handed the permit must not take the key down with it.
NoOrphanedPermit ==
    \A a \in Addrs :
        /\ owner[a] # NULL => /\ arc[owner[a]] = a
                              /\ pc[owner[a]] \in {"waiting", "running"}
        /\ owner[a] = NULL => Queue(a) = {}

\* Why the lock excludes: from lock_for to release, the Arc a caller holds is
\* the one the table gives to newcomers of its key.  With the owners of the
\* mutexes, this is the inductive invariant of the proofs.
EntryHeld ==
    \A p \in Procs :
        pc[p] \in {"got", "waiting", "running", "releasing"} =>
            table[key[p]] = arc[p]

RunnerOwns == \A p \in Procs : pc[p] = "running" => owner[arc[p]] = p

Inv == /\ TypeOK
       /\ \A p \in Procs : arc[p] = NULL <=> pc[p] = "idle"
       /\ EntryHeld
       /\ RunnerOwns
       /\ NoOrphanedPermit

\* Whoever asks for a key runs under it, unless its client gives up first,
\* however many others come and go.
EveryCallerServed ==
    \A p \in Procs : pc[p] = "got" ~> pc[p] \in {"running", "returning"}

\* The promise of KeyedMutex: idle outside the guard, waiting until the permit
\* is seen, inside while the future runs.
PhaseOf(s) == IF s \in {"got", "waiting"} THEN "waiting"
              ELSE IF s = "running" THEN "inside" ELSE "idle"

Mutex == INSTANCE KeyedMutex WITH phase <- [p \in Procs |-> PhaseOf(pc[p])],
                                  wants <- key

ImplementsMutex == Mutex!Spec
=============================================================================
