------------------------ MODULE RuleSetMirrorProofs -------------------------
(***************************************************************************)
(* Proofs about RuleSetMirror, for all sets of clients, admins and URLs    *)
(* and all bounds.  Inv is inductive as it stands; the action properties   *)
(* follow from it step by step.                                            *)
(***************************************************************************)
EXTENDS RuleSetMirror, TLAPS

USE TasksAssumption, BoundsAssumption, NullAssumption

LEMMA InitInv == Init => Inv
BY DEF Init, Inv, TypeOK, Exclusive, RowOK, HandlersOK, RefusedOnlyUnmirrored,
       Tasks, Fetching, Row, Body

LEMMA LookUpInv == ASSUME Inv, NEW c \in Clients, LookUp(c) PROVE Inv'
<1>1. TypeOK'
  BY DEF LookUp, Hosted, Goto, Inv, TypeOK, Exclusive, RowOK, HandlersOK,
         RefusedOnlyUnmirrored, Tasks, Fetching, Row, Body
<1>2. Exclusive' /\ RowOK'
  BY DEF LookUp, Hosted, Goto, Inv, TypeOK, Exclusive, RowOK, HandlersOK,
         RefusedOnlyUnmirrored, Tasks, Fetching, Row, Body
<1>3. HandlersOK'
  BY DEF LookUp, Hosted, Goto, Inv, TypeOK, Exclusive, RowOK, HandlersOK,
         RefusedOnlyUnmirrored, Tasks, Fetching, Row, Body
<1>4. RefusedOnlyUnmirrored'
  BY DEF LookUp, Hosted, Goto, Inv, TypeOK, Exclusive, RowOK, HandlersOK,
         RefusedOnlyUnmirrored, Tasks, Fetching, Row, Body
<1>. QED BY <1>1, <1>2, <1>3, <1>4 DEF Inv

LEMMA LookUpMissingInv == ASSUME Inv, NEW c \in Clients, LookUpMissing(c) PROVE Inv'
<1>1. TypeOK'
  BY DEF LookUpMissing, Hosted, locals, Inv, TypeOK, Exclusive, RowOK, HandlersOK,
         RefusedOnlyUnmirrored, Tasks, Fetching, Row, Body
<1>2. Exclusive' /\ RowOK'
  BY DEF LookUpMissing, Hosted, locals, Inv, TypeOK, Exclusive, RowOK, HandlersOK,
         RefusedOnlyUnmirrored, Tasks, Fetching, Row, Body
<1>3. HandlersOK'
  BY DEF LookUpMissing, Hosted, locals, Inv, TypeOK, Exclusive, RowOK, HandlersOK,
         RefusedOnlyUnmirrored, Tasks, Fetching, Row, Body
<1>4. RefusedOnlyUnmirrored'
  BY DEF LookUpMissing, Hosted, locals, Inv, TypeOK, Exclusive, RowOK, HandlersOK,
         RefusedOnlyUnmirrored, Tasks, Fetching, Row, Body
<1>. QED BY <1>1, <1>2, <1>3, <1>4 DEF Inv

LEMMA EnterMissingInv == ASSUME Inv, NEW c \in Clients, EnterMissing(c) PROVE Inv'
<1>1. TypeOK'
  BY DEF EnterMissing, CanEnter, Answer, Forget, Goto, Inv, TypeOK, Exclusive, RowOK, HandlersOK,
         RefusedOnlyUnmirrored, Tasks, Fetching, Row, Body
<1>2. Exclusive' /\ RowOK'
  BY DEF EnterMissing, CanEnter, Answer, Forget, Goto, Inv, TypeOK, Exclusive, RowOK, HandlersOK,
         RefusedOnlyUnmirrored, Tasks, Fetching, Row, Body
<1>3. HandlersOK'
  BY DEF EnterMissing, CanEnter, Answer, Forget, Goto, Inv, TypeOK, Exclusive, RowOK, HandlersOK,
         RefusedOnlyUnmirrored, Tasks, Fetching, Row, Body
<1>4. RefusedOnlyUnmirrored'
  BY DEF EnterMissing, CanEnter, Answer, Forget, Goto, Inv, TypeOK, Exclusive, RowOK, HandlersOK,
         RefusedOnlyUnmirrored, Tasks, Fetching, Row, Body
<1>. QED BY <1>1, <1>2, <1>3, <1>4 DEF Inv

LEMMA EnterAndServeInv == ASSUME Inv, NEW c \in Clients, EnterAndServe(c) PROVE Inv'
<1>1. TypeOK'
  BY DEF EnterAndServe, CanEnter, Mirrored, Answer, Forget, Goto, Inv, TypeOK, Exclusive, RowOK, HandlersOK,
         RefusedOnlyUnmirrored, Tasks, Fetching, Row, Body
<1>2. Exclusive' /\ RowOK'
  BY DEF EnterAndServe, CanEnter, Mirrored, Answer, Forget, Goto, Inv, TypeOK, Exclusive, RowOK, HandlersOK,
         RefusedOnlyUnmirrored, Tasks, Fetching, Row, Body
<1>3. HandlersOK'
  BY DEF EnterAndServe, CanEnter, Mirrored, Answer, Forget, Goto, Inv, TypeOK, Exclusive, RowOK, HandlersOK,
         RefusedOnlyUnmirrored, Tasks, Fetching, Row, Body
<1>4. RefusedOnlyUnmirrored'
  BY DEF EnterAndServe, CanEnter, Mirrored, Answer, Forget, Goto, Inv, TypeOK, Exclusive, RowOK, HandlersOK,
         RefusedOnlyUnmirrored, Tasks, Fetching, Row, Body
<1>. QED BY <1>1, <1>2, <1>3, <1>4 DEF Inv

LEMMA EnterAndFetchInv == ASSUME Inv, NEW c \in Clients, EnterAndFetch(c) PROVE Inv'
<1>1. TypeOK'
  BY DEF EnterAndFetch, CanEnter, Mirrored, Goto, Inv, TypeOK, Exclusive, RowOK, HandlersOK,
         RefusedOnlyUnmirrored, Tasks, Fetching, Row, Body
<1>2. Exclusive' /\ RowOK'
  BY DEF EnterAndFetch, CanEnter, Mirrored, Goto, Inv, TypeOK, Exclusive, RowOK, HandlersOK,
         RefusedOnlyUnmirrored, Tasks, Fetching, Row, Body
<1>3. HandlersOK'
  BY DEF EnterAndFetch, CanEnter, Mirrored, Goto, Inv, TypeOK, Exclusive, RowOK, HandlersOK,
         RefusedOnlyUnmirrored, Tasks, Fetching, Row, Body
<1>4. RefusedOnlyUnmirrored'
  BY DEF EnterAndFetch, CanEnter, Mirrored, Goto, Inv, TypeOK, Exclusive, RowOK, HandlersOK,
         RefusedOnlyUnmirrored, Tasks, Fetching, Row, Body
<1>. QED BY <1>1, <1>2, <1>3, <1>4 DEF Inv

LEMMA FetchOkInv == ASSUME Inv, NEW c \in Clients, FetchOk(c) PROVE Inv'
<1>1. TypeOK'
  BY DEF FetchOk, Goto, Inv, TypeOK, Exclusive, RowOK, HandlersOK,
         RefusedOnlyUnmirrored, Tasks, Fetching, Row, Body
<1>2. Exclusive' /\ RowOK'
  BY DEF FetchOk, Goto, Inv, TypeOK, Exclusive, RowOK, HandlersOK,
         RefusedOnlyUnmirrored, Tasks, Fetching, Row, Body
<1>3. HandlersOK'
  BY DEF FetchOk, Goto, Inv, TypeOK, Exclusive, RowOK, HandlersOK,
         RefusedOnlyUnmirrored, Tasks, Fetching, Row, Body
<1>4. RefusedOnlyUnmirrored'
  BY DEF FetchOk, Goto, Inv, TypeOK, Exclusive, RowOK, HandlersOK,
         RefusedOnlyUnmirrored, Tasks, Fetching, Row, Body
<1>. QED BY <1>1, <1>2, <1>3, <1>4 DEF Inv

LEMMA FetchFailInv == ASSUME Inv, NEW c \in Clients, FetchFail(c) PROVE Inv'
<1>1. TypeOK'
  BY DEF FetchFail, Goto, locals, Inv, TypeOK, Exclusive, RowOK, HandlersOK,
         RefusedOnlyUnmirrored, Tasks, Fetching, Row, Body
<1>2. Exclusive' /\ RowOK'
  BY DEF FetchFail, Goto, locals, Inv, TypeOK, Exclusive, RowOK, HandlersOK,
         RefusedOnlyUnmirrored, Tasks, Fetching, Row, Body
<1>3. HandlersOK'
  BY DEF FetchFail, Goto, locals, Inv, TypeOK, Exclusive, RowOK, HandlersOK,
         RefusedOnlyUnmirrored, Tasks, Fetching, Row, Body
<1>4. RefusedOnlyUnmirrored'
  BY DEF FetchFail, Goto, locals, Inv, TypeOK, Exclusive, RowOK, HandlersOK,
         RefusedOnlyUnmirrored, Tasks, Fetching, Row, Body
<1>. QED BY <1>1, <1>2, <1>3, <1>4 DEF Inv

LEMMA PersistInv == ASSUME Inv, NEW c \in Clients, Persist(c) PROVE Inv'
<1>1. TypeOK'
  BY DEF Persist, Answer, Forget, Goto, Inv, TypeOK, Exclusive, RowOK, HandlersOK,
         RefusedOnlyUnmirrored, Tasks, Fetching, Row, Body
<1>2. Exclusive' /\ RowOK'
  BY DEF Persist, Answer, Forget, Goto, Inv, TypeOK, Exclusive, RowOK, HandlersOK,
         RefusedOnlyUnmirrored, Tasks, Fetching, Row, Body
<1>3. HandlersOK'
  <2>1. \A d \in Clients : d # c => pc[d] \notin Fetching
    BY DEF Persist, Inv, Exclusive, Fetching
  <2>2. /\ pc'[c] = "idle"
        /\ \A t \in Tasks : t # c => pc'[t] = pc[t] /\ url'[t] = url[t]
        /\ \A d \in Clients : d # c => kept'[d] = kept[d] /\ got'[d] = got[d]
    BY DEF Persist, Answer, Forget, Goto, Inv, TypeOK, Tasks
  <2>3. \A d \in Clients : pc'[d] \notin Fetching
    BY <2>1, <2>2 DEF Fetching, Tasks
  <2>4. row' # NULL => /\ row # NULL /\ row'.body = got[c]
                       /\ got[c] # NULL /\ got[c].ver <= upstream
    BY DEF Persist, Inv, TypeOK, Row, HandlersOK
  <2>5. \A d \in known : row' # NULL
    BY DEF Persist, Inv, TypeOK, Row, HandlersOK, NullAssumption
  <2>. QED
    BY <2>2, <2>3, <2>4, <2>5 DEF Persist, Answer, Inv, TypeOK, HandlersOK, Tasks, Fetching
<1>4. RefusedOnlyUnmirrored'
  BY DEF Persist, Answer, Forget, Goto, Inv, TypeOK, Exclusive, RowOK, HandlersOK,
         RefusedOnlyUnmirrored, Tasks, Fetching, Row, Body
<1>. QED BY <1>1, <1>2, <1>3, <1>4 DEF Inv

LEMMA PersistFailInv == ASSUME Inv, NEW c \in Clients, PersistFail(c) PROVE Inv'
<1>1. TypeOK'
  BY DEF PersistFail, Answer, Forget, Goto, Inv, TypeOK, Exclusive, RowOK, HandlersOK,
         RefusedOnlyUnmirrored, Tasks, Fetching, Row, Body
<1>2. Exclusive' /\ RowOK'
  BY DEF PersistFail, Answer, Forget, Goto, Inv, TypeOK, Exclusive, RowOK, HandlersOK,
         RefusedOnlyUnmirrored, Tasks, Fetching, Row, Body
<1>3. HandlersOK'
  BY DEF PersistFail, Answer, Forget, Goto, Inv, TypeOK, Exclusive, RowOK, HandlersOK,
         RefusedOnlyUnmirrored, Tasks, Fetching, Row, Body
<1>4. RefusedOnlyUnmirrored'
  BY DEF PersistFail, Answer, Forget, Goto, Inv, TypeOK, Exclusive, RowOK, HandlersOK,
         RefusedOnlyUnmirrored, Tasks, Fetching, Row, Body
<1>. QED BY <1>1, <1>2, <1>3, <1>4 DEF Inv

LEMMA FallBackInv == ASSUME Inv, NEW c \in Clients, FallBack(c) PROVE Inv'
<1>1. TypeOK'
  BY DEF FallBack, Answer, Forget, Goto, Inv, TypeOK, Exclusive, RowOK, HandlersOK,
         RefusedOnlyUnmirrored, Tasks, Fetching, Row, Body
<1>2. Exclusive' /\ RowOK'
  BY DEF FallBack, Answer, Forget, Goto, Inv, TypeOK, Exclusive, RowOK, HandlersOK,
         RefusedOnlyUnmirrored, Tasks, Fetching, Row, Body
<1>3. HandlersOK'
  BY DEF FallBack, Answer, Forget, Goto, Inv, TypeOK, Exclusive, RowOK, HandlersOK,
         RefusedOnlyUnmirrored, Tasks, Fetching, Row, Body
<1>4. RefusedOnlyUnmirrored'
  BY DEF FallBack, Answer, Forget, Goto, Inv, TypeOK, Exclusive, RowOK, HandlersOK,
         RefusedOnlyUnmirrored, Tasks, Fetching, Row, Body
<1>. QED BY <1>1, <1>2, <1>3, <1>4 DEF Inv

LEMMA UpdateLoadInv == ASSUME Inv, NEW a \in Admins, UpdateLoad(a) PROVE Inv'
<1>1. TypeOK'
  BY DEF UpdateLoad, Goto, Inv, TypeOK, Exclusive, RowOK, HandlersOK,
         RefusedOnlyUnmirrored, Tasks, Fetching, Row, Body
<1>2. Exclusive' /\ RowOK'
  BY DEF UpdateLoad, Goto, Inv, TypeOK, Exclusive, RowOK, HandlersOK,
         RefusedOnlyUnmirrored, Tasks, Fetching, Row, Body
<1>3. HandlersOK'
  BY DEF UpdateLoad, Goto, Inv, TypeOK, Exclusive, RowOK, HandlersOK,
         RefusedOnlyUnmirrored, Tasks, Fetching, Row, Body
<1>4. RefusedOnlyUnmirrored'
  BY DEF UpdateLoad, Goto, Inv, TypeOK, Exclusive, RowOK, HandlersOK,
         RefusedOnlyUnmirrored, Tasks, Fetching, Row, Body
<1>. QED BY <1>1, <1>2, <1>3, <1>4 DEF Inv

\* What an update may write has no mirrored body.
LEMMA DefinitionsCleared ==
    ASSUME TypeOK, NEW a \in Admins, NEW r \in Definitions(a)
    PROVE r \in Row /\ r.body = NULL /\ ~r.fresh /\ (r.hosted => r.url # NULL)
<1>. url[a] \in Urls \cup {NULL}
  BY DEF TypeOK, Tasks
<1>1. CASE r = [url |-> NULL, hosted |-> FALSE, body |-> NULL, fresh |-> FALSE]
  BY <1>1 DEF Row
<1>2. CASE r \in [url : Urls \cup ({url[a]} \ {NULL}), hosted : BOOLEAN,
                  body : {NULL}, fresh : {FALSE}]
  <2>1. r.url \in Urls /\ r.hosted \in BOOLEAN /\ r.body = NULL /\ r.fresh = FALSE
    BY <1>2
  <2>2. r = [url |-> r.url, hosted |-> r.hosted, body |-> r.body, fresh |-> r.fresh]
    BY <1>2
  <2>3. r.url # NULL
    BY <2>1, NullAssumption
  <2>. QED BY <2>1, <2>2, <2>3 DEF Row
<1>. QED BY <1>1, <1>2 DEF Definitions

LEMMA UpdateWriteInv == ASSUME Inv, NEW a \in Admins, UpdateWrite(a) PROVE Inv'
<1>0. /\ row' \in Row \cup {NULL}
      /\ row' # NULL => /\ row'.body = NULL /\ ~row'.fresh
                        /\ row'.hosted => row'.url # NULL
  BY DefinitionsCleared DEF UpdateWrite, Inv
<1>1. TypeOK'
  BY <1>0 DEF UpdateWrite, Forget, Goto, Inv, TypeOK, HandlersOK, Tasks, Fetching
<1>2. Exclusive' /\ RowOK'
  BY <1>0 DEF UpdateWrite, Forget, Goto, Inv, TypeOK, Exclusive, RowOK, Tasks, Fetching
<1>3. HandlersOK'
  BY <1>0 DEF UpdateWrite, Forget, Goto, Inv, TypeOK, HandlersOK, Tasks, Fetching
<1>4. RefusedOnlyUnmirrored'
  BY DEF UpdateWrite, RefusedOnlyUnmirrored
<1>. QED BY <1>1, <1>2, <1>3, <1>4 DEF Inv

LEMMA DeleteInv == ASSUME Inv, NEW a \in Admins, Delete(a) PROVE Inv'
<1>1. TypeOK'
  BY DEF Delete, locals, Inv, TypeOK, Exclusive, RowOK, HandlersOK,
         RefusedOnlyUnmirrored, Tasks, Fetching, Row, Body
<1>2. Exclusive' /\ RowOK'
  BY DEF Delete, locals, Inv, TypeOK, Exclusive, RowOK, HandlersOK,
         RefusedOnlyUnmirrored, Tasks, Fetching, Row, Body
<1>3. HandlersOK'
  BY DEF Delete, locals, Inv, TypeOK, Exclusive, RowOK, HandlersOK,
         RefusedOnlyUnmirrored, Tasks, Fetching, Row, Body
<1>4. RefusedOnlyUnmirrored'
  BY DEF Delete, locals, Inv, TypeOK, Exclusive, RowOK, HandlersOK,
         RefusedOnlyUnmirrored, Tasks, Fetching, Row, Body
<1>. QED BY <1>1, <1>2, <1>3, <1>4 DEF Inv

LEMMA UpstreamChangesInv == ASSUME Inv, UpstreamChanges PROVE Inv'
<1>1. TypeOK'
  BY DEF UpstreamChanges, locals, Inv, TypeOK, Exclusive, RowOK, HandlersOK,
         RefusedOnlyUnmirrored, Tasks, Fetching, Row, Body
<1>2. Exclusive' /\ RowOK'
  BY DEF UpstreamChanges, locals, Inv, TypeOK, Exclusive, RowOK, HandlersOK,
         RefusedOnlyUnmirrored, Tasks, Fetching, Row, Body
<1>3. HandlersOK'
  BY DEF UpstreamChanges, locals, Inv, TypeOK, Exclusive, RowOK, HandlersOK,
         RefusedOnlyUnmirrored, Tasks, Fetching, Row, Body
<1>4. RefusedOnlyUnmirrored'
  BY DEF UpstreamChanges, locals, Inv, TypeOK, Exclusive, RowOK, HandlersOK,
         RefusedOnlyUnmirrored, Tasks, Fetching, Row, Body
<1>. QED BY <1>1, <1>2, <1>3, <1>4 DEF Inv

LEMMA ExpireInv == ASSUME Inv, Expire PROVE Inv'
<1>1. TypeOK'
  BY DEF Expire, locals, Inv, TypeOK, Exclusive, RowOK, HandlersOK,
         RefusedOnlyUnmirrored, Tasks, Fetching, Row, Body
<1>2. Exclusive' /\ RowOK'
  BY DEF Expire, locals, Inv, TypeOK, Exclusive, RowOK, HandlersOK,
         RefusedOnlyUnmirrored, Tasks, Fetching, Row, Body
<1>3. HandlersOK'
  BY DEF Expire, locals, Inv, TypeOK, Exclusive, RowOK, HandlersOK,
         RefusedOnlyUnmirrored, Tasks, Fetching, Row, Body
<1>4. RefusedOnlyUnmirrored'
  BY DEF Expire, locals, Inv, TypeOK, Exclusive, RowOK, HandlersOK,
         RefusedOnlyUnmirrored, Tasks, Fetching, Row, Body
<1>. QED BY <1>1, <1>2, <1>3, <1>4 DEF Inv

LEMMA CancelInv == ASSUME Inv, NEW t \in Tasks, Cancel(t) PROVE Inv'
<1>1. TypeOK'
  BY DEF Cancel, Forget, Goto, Inv, TypeOK, Exclusive, RowOK, HandlersOK,
         RefusedOnlyUnmirrored, Tasks, Fetching, Row, Body
<1>2. Exclusive' /\ RowOK'
  BY DEF Cancel, Forget, Goto, Inv, TypeOK, Exclusive, RowOK, HandlersOK,
         RefusedOnlyUnmirrored, Tasks, Fetching, Row, Body
<1>3. HandlersOK'
  BY DEF Cancel, Forget, Goto, Inv, TypeOK, Exclusive, RowOK, HandlersOK,
         RefusedOnlyUnmirrored, Tasks, Fetching, Row, Body
<1>4. RefusedOnlyUnmirrored'
  BY DEF Cancel, Forget, Goto, Inv, TypeOK, Exclusive, RowOK, HandlersOK,
         RefusedOnlyUnmirrored, Tasks, Fetching, Row, Body
<1>. QED BY <1>1, <1>2, <1>3, <1>4 DEF Inv

\* Every step, one action at a time.
LEMMA NextInv == Inv /\ [Next]_vars => Inv'
<1>. SUFFICES ASSUME Inv, [Next]_vars PROVE Inv'
  OBVIOUS
<1>1. CASE UNCHANGED vars
  BY <1>1 DEF vars, locals, Inv, TypeOK, Exclusive, RowOK, HandlersOK,
              RefusedOnlyUnmirrored
<1>2. CASE \E c \in Clients : Serve(c) \/ Failure(c)
  BY <1>2, LookUpInv, LookUpMissingInv, EnterMissingInv, EnterAndServeInv,
     EnterAndFetchInv, FetchOkInv, FetchFailInv, PersistInv, PersistFailInv,
     FallBackInv
  DEF Serve, Failure, Enter
<1>3. CASE \E a \in Admins : Edit(a)
  BY <1>3, UpdateLoadInv, UpdateWriteInv, DeleteInv DEF Edit
<1>4. CASE UpstreamChanges \/ Expire
  BY <1>4, UpstreamChangesInv, ExpireInv
<1>5. CASE \E t \in Tasks : Cancel(t)
  BY <1>5, CancelInv
<1>. QED BY <1>1, <1>2, <1>3, <1>4, <1>5 DEF Next, CalmNext

\* Types hold, one download at a time is inside the lock, who fetches found no
\* fresh body, and who could count on a body has one to fall back to.
THEOREM InvHolds == Spec => []Inv
<1>. QED BY InitInv, NextInv, PTL DEF Spec

\* A client that found a body at its look-up is never answered 503, whatever
\* fails, until an edit clears the body.
THEOREM RefusedOnlyUnmirroredHolds == Spec => []RefusedOnlyUnmirrored
<1>1. Inv => RefusedOnlyUnmirrored
  BY DEF Inv
<1>. QED BY <1>1, InvHolds, PTL

-----------------------------------------------------------------------------
\* The only steps that put another body into a row.
LEMMA BodyChanges ==
    ASSUME Inv, [Next]_vars, row # NULL, row' # NULL, row.body # row'.body
    PROVE \/ row'.body = NULL
          \/ \E c \in Clients : Persist(c)
<1>. SUFFICES ASSUME \A c \in Clients : ~Persist(c) PROVE row'.body = NULL
  OBVIOUS
<1>1. ASSUME NEW a \in Admins, UpdateWrite(a) PROVE row'.body = NULL
  BY <1>1, DefinitionsCleared DEF UpdateWrite, Inv
<1>2. CASE \E a \in Admins : Edit(a)
  BY <1>1, <1>2 DEF Edit, UpdateLoad, Delete
<1>3. CASE Expire
  BY <1>3 DEF Expire, Inv, TypeOK, Row
<1>. QED
  BY <1>2, <1>3 DEF Next, CalmNext, Serve, Enter, Failure, LookUp, LookUpMissing,
     EnterMissing, EnterAndServe, EnterAndFetch, FetchOk, FetchFail, PersistFail,
     FallBack, UpstreamChanges, Cancel, vars

\* Single-flight: a body that is still fresh is not replaced.
THEOREM KeptWhileFreshHolds == Spec => KeptWhileFresh
<1>1. Inv /\ [Next]_vars =>
        [row # NULL /\ row' # NULL /\ row.body # row'.body
            => ~row.fresh \/ row'.body = NULL]_vars
  BY BodyChanges DEF Persist, Inv, HandlersOK, Fetching
<1>. QED BY <1>1, InvHolds, PTL DEF Spec, KeptWhileFresh

\* A mirror does not go back to an older version of its document.
THEOREM MirrorNeverOlderHolds == Spec => MirrorNeverOlder
<1>1. Inv /\ [Next]_vars =>
        [row # NULL /\ row' # NULL /\ row.body # NULL /\ row'.body # NULL
            /\ row.body.url = row'.body.url => row'.body.ver >= row.body.ver]_vars
  <2>. SUFFICES ASSUME Inv, [Next]_vars, row # NULL, row' # NULL,
                       row.body # NULL, row'.body # NULL
                PROVE row'.body.ver >= row.body.ver
    OBVIOUS
  <2>1. CASE row.body = row'.body
    BY <2>1 DEF Inv, TypeOK, Row, Body
  <2>2. ASSUME NEW c \in Clients, Persist(c) PROVE row'.body.ver >= row.body.ver
    BY <2>2 DEF Persist, Inv, TypeOK, Row, HandlersOK
  <2>. QED BY <2>1, <2>2, BodyChanges
<1>. QED BY <1>1, InvHolds, PTL DEF Spec, MirrorNeverOlder

\* A deleted rule-set is not brought back by a download in flight.
THEOREM DeletedStaysDeletedHolds == Spec => DeletedStaysDeleted
<1>1. [Next]_vars => [row = NULL => row' = NULL]_vars
  BY DEF Next, CalmNext, Serve, Enter, Failure, Edit, LookUp, LookUpMissing,
     EnterMissing, EnterAndServe, EnterAndFetch, FetchOk, FetchFail, Persist,
     PersistFail, FallBack, UpdateLoad, UpdateWrite, Delete, UpstreamChanges,
     Expire, Cancel, vars
<1>. QED BY <1>1, PTL DEF Spec, DeletedStaysDeleted
=============================================================================
