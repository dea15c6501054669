----------------------- MODULE SubscriptionCacheProofs ------------------------
(***************************************************************************)
(* For any number of downloads, admin calls, sources, rule-sets and orders *)
(* a download is refused only without a row or unable to read it, by Inv,  *)
(* which is inductive; and downloads among themselves share a fetch and    *)
(* never take the row back to an older document.                           *)
(***************************************************************************)
EXTENDS SubscriptionCache, TLAPS

USE NullAssumption, TasksAssumption DEF Tasks

-----------------------------------------------------------------------------
(* Rows stay rows. *)

\* An arrival is later than every row: it only leaves their since sets.
LEMMA WithoutArrivalRow ==
    ASSUME NEW row \in Row \cup {NULL}, NEW c
    PROVE  /\ WithoutArrival(row, c) \in Row \cup {NULL}
           /\ WithoutArrival(row, c) = NULL <=> row = NULL
<1>1. CASE row = NULL
  BY <1>1 DEF WithoutArrival
<1>2. CASE row # NULL
  <2>1. row \in Row
    BY <1>2
  <2>2. [row EXCEPT !.since = @ \ {c}] \in Row
    BY <2>1 DEF Row
  <2> QED BY <1>2, <2>2 DEF WithoutArrival
<1> QED BY <1>1, <1>2

\* Expiry changes the freshness of a row and nothing else.
LEMMA ExpiredRow ==
    ASSUME NEW row \in Row \cup {NULL}
    PROVE  /\ Expired(row) \in Row \cup {NULL}
           /\ Expired(row) = NULL <=> row = NULL
<1>1. CASE row = NULL
  BY <1>1 DEF Expired
<1>2. CASE row # NULL
  <2>1. [row EXCEPT !.fresh = FALSE] \in Row
    BY <1>2 DEF Row
  <2> QED BY <1>2, <2>1 DEF Expired
<1> QED BY <1>1, <1>2

\* The steps of a build fill in parts of a row.
LEMMA FilledRow ==
    ASSUME NEW row \in Row, NEW r \in SUBSET RuleSets, NEW o \in Orders,
           NEW s \in SUBSET Clients
    PROVE  /\ [row EXCEPT !.out.rules = r, !.out.providers = r] \in Row
           /\ [row EXCEPT !.out.order = o, !.fresh = TRUE, !.since = s] \in Row
           /\ [row EXCEPT !.out.order = o] \in Row
           /\ [row EXCEPT !.out.rules = r] \in Row
BY DEF Row, Output

\* A resynced output goes into the row it is written to.
LEMMA PatchedRow ==
    ASSUME NEW row \in Row, NEW d \in Row
    PROVE  [row EXCEPT !.out = d.out] \in Row
BY DEF Row

\* A fetched document starts a row.
LEMMA StartedRow ==
    ASSUME NEW s \in Sources, NEW v \in 0 .. MaxVer
    PROVE  [out |-> [src |-> s, ver |-> v, rules |-> {},
                     providers |-> {}, order |-> DefaultOrder],
            fresh |-> FALSE, since |-> {}] \in Row
BY OrdersAssumption DEF Row, Output

-----------------------------------------------------------------------------
(* Inv is inductive: one lemma per group of actions. *)

USE DEF Refreshing, Resyncing, Drafting, Inside

\* The state profiles::create leaves satisfies Inv.
LEMMA InitInv == Init => Inv
BY BoundsAssumption
   DEF Init, Inv, TypeOK, WhoIsWhere, HasDraft, RowStays, KnownRow,
       RefusedOnlyUnread

\* Arrival, and the two ways a download goes on once it has the lock.
LEMMA DownloadInv ==
    ASSUME Inv, NEW c \in Clients, Download(c)
    PROVE  Inv'
<1> USE DEF Inv, db, locals, history
<1>1. CASE Arrive(c)
  <2>1. /\ cache' \in Row \cup {NULL}
        /\ cache' = NULL <=> cache = NULL
    BY <1>1, WithoutArrivalRow DEF Arrive, TypeOK
  <2>2. /\ draft' \in [Tasks -> Row \cup {NULL}]
        /\ cached' \in [Tasks -> Row \cup {NULL}]
        /\ \A t \in Tasks : /\ draft'[t] = NULL <=> draft[t] = NULL
                            /\ cached'[t] = NULL <=> cached[t] = NULL
    BY <1>1, WithoutArrivalRow DEF Arrive, TypeOK
  <2>3. TypeOK'
    BY <1>1, <2>1, <2>2 DEF Arrive, TypeOK, Goto
  <2>4. pc' = [pc EXCEPT ![c] = "waiting"] /\ pc[c] = "idle"
    BY <1>1 DEF Arrive, Goto
  <2>5. WhoIsWhere'
    BY <2>4 DEF TypeOK, WhoIsWhere
  <2>6. HasDraft'
    BY <2>2, <2>4 DEF TypeOK, HasDraft
  <2>7. RowStays'
    BY <2>1, <2>4 DEF TypeOK, RowStays
  <2>8. KnownRow'
    <3>1. known' = IF cache # NULL THEN known \cup {c} ELSE known \ {c}
      BY <1>1 DEF Arrive
    <3>2. \A d \in known' : cache # NULL
      BY <3>1 DEF KnownRow
    <3>3. ASSUME NEW d \in known', pc'[d] \in Refreshing PROVE cached'[d] # NULL
      <4>1. d \in Clients /\ d # c /\ d \in known
        BY <2>4, <3>1, <3>3 DEF TypeOK
      <4> QED BY <2>2, <2>4, <3>3, <4>1 DEF TypeOK, KnownRow
    <3> QED BY <2>1, <3>2, <3>3 DEF KnownRow
  <2>9. RefusedOnlyUnread'
    <3>1. known' = IF cache # NULL THEN known \cup {c} ELSE known \ {c}
      BY <1>1 DEF Arrive
    <3>2. reply' = [reply EXCEPT ![c] = NULL] /\ NULL # "refused"
      BY <1>1 DEF Arrive
    <3> QED BY <3>1, <3>2 DEF TypeOK, RefusedOnlyUnread
  <2> QED BY <2>3, <2>5, <2>6, <2>7, <2>8, <2>9
<1>2. CASE EnterAndServe(c)
  <2>1. TypeOK'
    BY <1>2 DEF EnterAndServe, CanEnter, TypeOK, Forget, Goto, Answer
  <2>2. WhoIsWhere' /\ HasDraft' /\ RowStays'
    BY <1>2 DEF EnterAndServe, CanEnter, TypeOK, Forget, Goto, WhoIsWhere, HasDraft, RowStays
  <2>3. KnownRow' /\ RefusedOnlyUnread'
    BY <1>2 DEF EnterAndServe, CanEnter, TypeOK, Forget, Goto, Answer, KnownRow,
                RefusedOnlyUnread
  <2> QED BY <2>1, <2>2, <2>3
<1>3. CASE EnterAndFetch(c)
  <2>1. TypeOK'
    BY <1>3 DEF EnterAndFetch, CanEnter, TypeOK, Goto
  <2>2. WhoIsWhere' /\ HasDraft' /\ RowStays'
    BY <1>3 DEF EnterAndFetch, CanEnter, TypeOK, Goto, WhoIsWhere, HasDraft, RowStays
  <2>3. KnownRow' /\ RefusedOnlyUnread'
    BY <1>3 DEF EnterAndFetch, CanEnter, TypeOK, Goto, KnownRow, RefusedOnlyUnread
  <2> QED BY <2>1, <2>2, <2>3
<1> QED BY <1>1, <1>2, <1>3 DEF Download

\* A handler that ends: its locals are typed and it is nowhere.
LEMMA ForgetTypes ==
    ASSUME TypeOK, NEW t \in Tasks, Forget(t)
    PROVE  /\ pc' = [pc EXCEPT ![t] = "idle"]
           /\ core' \in [Tasks -> Sources]
           /\ cached' \in [Tasks -> Row \cup {NULL}]
           /\ draft' \in [Tasks -> Row \cup {NULL}]
           /\ \A u \in Tasks : u # t => cached'[u] = cached[u] /\ draft'[u] = draft[u]
BY DEF Forget, Goto, TypeOK

\* Inv depends on nothing that an ending handler, which answers no refusal it
\* should not, takes away; the other steps that leave rows where they are and
\* move t to a place it may be are covered too.
LEMMA MoveInv ==
    ASSUME Inv, TypeOK', NEW t \in Tasks, NEW l,
           pc' = [pc EXCEPT ![t] = l],
           \A u \in Tasks : u # t => cached'[u] = cached[u] /\ draft'[u] = draft[u],
           known' = known,
           cache # NULL => cache' # NULL,
           t \in Clients => /\ l \notin Resyncing
                            /\ l \notin {"idle", "waiting"} => t \in Inside,
           t \in Admins => l \notin {"waiting", "falling_back"},
           l \in Drafting => draft'[t] # NULL,
           l \in Resyncing \ {"resync_load"} => cache' # NULL,
           t \in known /\ l \in Refreshing => cached'[t] # NULL,
           \A c \in Clients : reply'[c] = "refused" => c \notin known
    PROVE  Inv'
<1> USE DEF Inv
<1>1. WhoIsWhere'
  BY DEF WhoIsWhere, TypeOK
<1>2. HasDraft'
  BY DEF HasDraft, TypeOK
<1>3. RowStays'
  BY DEF RowStays, TypeOK
<1>4. KnownRow'
  BY DEF KnownRow, TypeOK
<1>5. RefusedOnlyUnread'
  BY DEF RefusedOnlyUnread
<1> QED BY <1>1, <1>2, <1>3, <1>4, <1>5

\* Who cannot read the row goes on like one that arrived when there was none.
LEMMA UnreadInv ==
    ASSUME Inv, NEW c \in Clients, EnterUnread(c)
    PROVE  Inv'
<1> USE DEF db, locals
<1>0. TypeOK /\ RefusedOnlyUnread
  BY DEF Inv
<1>1. /\ TypeOK'
      /\ pc' = [pc EXCEPT ![c] = "fetching"]
      /\ known' \subseteq known /\ c \notin known'
      /\ UNCHANGED <<cache, cached, draft, reply>>
  BY <1>0 DEF EnterUnread, CanEnter, Goto, TypeOK
<1>2. WhoIsWhere'
  BY <1>0, <1>1 DEF Inv, WhoIsWhere, EnterUnread, CanEnter, TypeOK
<1>3. HasDraft' /\ RowStays' /\ KnownRow' /\ RefusedOnlyUnread'
  BY <1>0, <1>1 DEF Inv, HasDraft, RowStays, KnownRow, RefusedOnlyUnread, TypeOK
<1> QED BY <1>1, <1>2, <1>3 DEF Inv

\* A refresh that succeeds, step by step: only Persist touches the row, and
\* puts another one in its place.
LEMMA RefreshInv ==
    ASSUME Inv, NEW t \in Tasks, Refresh(t)
    PROVE  Inv'
<1> USE DEF db, locals, history
<1>0. TypeOK /\ HasDraft /\ KnownRow /\ RefusedOnlyUnread
  BY DEF Inv
<1>1. CASE FetchOk(t)
  <2>1. /\ pc' = [pc EXCEPT ![t] = "recording"]
        /\ draft'[t] \in Row
        /\ draft' \in [Tasks -> Row \cup {NULL}]
        /\ \A u \in Tasks : u # t => draft'[u] = draft[u]
    BY <1>0, <1>1, StartedRow DEF FetchOk, Goto, TypeOK
  <2>2. TypeOK'
    BY <1>0, <1>1, <2>1 DEF FetchOk, TypeOK
  <2> QED BY <1>0, <1>1, <2>1, <2>2, MoveInv
          DEF FetchOk, TypeOK, KnownRow, RefusedOnlyUnread
<1>2. CASE RecordSuccess(t)
  <2>1. TypeOK' /\ pc' = [pc EXCEPT ![t] = "reading_rules"]
    BY <1>0, <1>2 DEF RecordSuccess, Goto, TypeOK
  <2> QED BY <1>0, <1>2, <2>1, MoveInv
          DEF RecordSuccess, HasDraft, KnownRow, RefusedOnlyUnread
<1>3. CASE ReadRules(t)
  <2>1. draft[t] \in Row
    BY <1>0, <1>3 DEF ReadRules, HasDraft, TypeOK
  <2>2. /\ pc' = [pc EXCEPT ![t] = "reading_orders"]
        /\ draft'[t] \in Row
        /\ draft' \in [Tasks -> Row \cup {NULL}]
        /\ \A u \in Tasks : u # t => draft'[u] = draft[u]
    BY <1>0, <1>3, <2>1, FilledRow, OrdersAssumption DEF ReadRules, Goto, TypeOK
  <2>3. TypeOK'
    BY <1>0, <1>3, <2>2 DEF ReadRules, TypeOK
  <2> QED BY <1>0, <1>3, <2>2, <2>3, MoveInv
          DEF ReadRules, KnownRow, RefusedOnlyUnread
<1>4. CASE Build(t)
  <2>1. draft[t] \in Row
    BY <1>0, <1>4 DEF Build, HasDraft, TypeOK
  <2>2. OutputOrder(order) \in Orders /\ Waiting \in SUBSET Clients
    BY <1>0, OrdersAssumption DEF OutputOrder, Waiting, TypeOK
  <2>3. [draft[t] EXCEPT !.out.order = OutputOrder(order), !.fresh = TRUE,
                         !.since = Waiting] \in Row
    BY <2>1, <2>2, FilledRow
  <2>4. /\ pc' = [pc EXCEPT ![t] = "persisting"]
        /\ draft'[t] \in Row
        /\ draft' \in [Tasks -> Row \cup {NULL}]
        /\ \A u \in Tasks : u # t => draft'[u] = draft[u]
    BY <1>0, <1>4, <2>3 DEF Build, Goto, TypeOK
  <2>5. TypeOK'
    BY <1>0, <1>4, <2>4 DEF Build, TypeOK
  <2> QED BY <1>0, <1>4, <2>4, <2>5, MoveInv
          DEF Build, KnownRow, RefusedOnlyUnread
<1>5. CASE Persist(t)
  <2>1. draft[t] \in Row
    BY <1>0, <1>5 DEF Persist, HasDraft, TypeOK
  <2>2. TypeOK' /\ cache' # NULL /\ pc' = [pc EXCEPT ![t] = "snapshotting"]
    BY <1>0, <1>5, <2>1 DEF Persist, Waiting, Goto, TypeOK
  <2> QED BY <1>0, <1>5, <2>1, <2>2, MoveInv
          DEF Persist, KnownRow, RefusedOnlyUnread
<1>6. CASE Snapshot(t)
  <2>1. draft[t] \in Row
    BY <1>0, <1>6 DEF Snapshot, HasDraft, TypeOK
  <2>2. order' \in Orders \cup {NULL}
    BY <1>0, <1>6, <2>1 DEF Snapshot, TypeOK, Row, Output
  <2>3. reply' \in [Clients -> {NULL, "cached", "built", "stale", "refused"}]
    BY <1>0, <1>6 DEF Snapshot, Answer, TypeOK
  <2>4. TypeOK' /\ pc' = [pc EXCEPT ![t] = "idle"]
    BY <1>0, <1>6, <2>2, <2>3, ForgetTypes DEF Snapshot, TypeOK
  <2>5. \A c \in Clients : reply'[c] = "refused" => c \notin known
    BY <1>0, <1>6 DEF Snapshot, Answer, TypeOK, RefusedOnlyUnread
  <2> QED BY <1>0, <1>6, <2>4, <2>5, ForgetTypes, MoveInv DEF Snapshot
<1> QED BY <1>1, <1>2, <1>3, <1>4, <1>5, <1>6 DEF Refresh

\* The handler ends without an answer.
LEMMA ForgetInv ==
    ASSUME Inv, NEW t \in Tasks, Forget(t), NEW a \in {"cached", "built", "stale"},
           \/ UNCHANGED reply
           \/ Answer(t, a),
           UNCHANGED <<rules, order, source, upstream, adminOps, history>>,
           cache' \in Row \cup {NULL}, cache # NULL => cache' # NULL
    PROVE  Inv'
<1>1. TypeOK /\ RefusedOnlyUnread
  BY DEF Inv
<1>2. /\ reply' \in [Clients -> {NULL, "cached", "built", "stale", "refused"}]
      /\ \A c \in Clients : reply'[c] = "refused" => c \notin known
  BY <1>1 DEF Answer, TypeOK, RefusedOnlyUnread
<1>3. TypeOK' /\ pc' = [pc EXCEPT ![t] = "idle"]
  BY <1>1, <1>2, ForgetTypes DEF TypeOK, history
<1> QED BY <1>1, <1>2, <1>3, ForgetTypes, MoveInv DEF history

\* Failures, and what a handler does about them.  FallBack refuses only when
\* it loaded no row, and so never a known client.
LEMMA FailureInv ==
    ASSUME Inv, NEW t \in Tasks, Failure(t) \/ Recover(t)
    PROVE  Inv'
<1> USE DEF db, locals, history
<1>0. TypeOK /\ KnownRow /\ RefusedOnlyUnread
  BY DEF Inv
<1>1. CASE FetchFail(t)
  <2>1. TypeOK' /\ pc' = [pc EXCEPT ![t] = "failing"]
    BY <1>0, <1>1 DEF FetchFail, Goto, TypeOK
  <2> QED BY <1>0, <1>1, <2>1, MoveInv
          DEF FetchFail, KnownRow, RefusedOnlyUnread
<1>2. ASSUME GiveUp(t), pc[t] \in Refreshing,
             UNCHANGED <<rules, order, source, cache, upstream, reply, adminOps, history>>
      PROVE  Inv'
  <2>1. CASE t \in Clients
    <3>1. TypeOK' /\ pc' = [pc EXCEPT ![t] = "falling_back"]
      BY <1>0, <1>2, <2>1 DEF GiveUp, Goto, TypeOK
    <3> QED BY <1>0, <1>2, <2>1, <3>1, MoveInv
            DEF GiveUp, KnownRow, RefusedOnlyUnread
  <2>2. CASE t \notin Clients
    <3>1. Forget(t)
      BY <1>2, <2>2 DEF GiveUp
    <3> QED BY <1>0, <1>2, <3>1, ForgetInv DEF TypeOK
  <2> QED BY <2>1, <2>2
<1>3. CASE ConvertFail(t)
  BY <1>0, <1>2, <1>3 DEF ConvertFail, TypeOK
<1>4. CASE RecordFailure(t)
  BY <1>2, <1>4 DEF RecordFailure
<1>5. CASE PersistFail(t)
  BY <1>0, <1>5, ForgetInv DEF PersistFail, TypeOK
<1>6. CASE FallBack(t)
  <2>1. CASE cached[t] = NULL
    <3>1. t \in Clients /\ t \notin known
      BY <1>0, <1>6, <2>1 DEF FallBack, KnownRow
    <3>2. /\ reply' \in [Clients -> {NULL, "cached", "built", "stale", "refused"}]
          /\ \A c \in Clients : reply'[c] = "refused" => c \notin known
      BY <1>0, <1>6, <3>1 DEF FallBack, Answer, TypeOK, RefusedOnlyUnread
    <3>3. TypeOK' /\ pc' = [pc EXCEPT ![t] = "idle"]
      BY <1>0, <1>6, <3>2, ForgetTypes DEF FallBack, TypeOK
    <3> QED BY <1>0, <1>6, <3>2, <3>3, ForgetTypes, MoveInv DEF FallBack
  <2>2. CASE cached[t] # NULL
    BY <1>0, <1>6, <2>2, ForgetInv DEF FallBack, TypeOK
  <2> QED BY <2>1, <2>2
<1> QED BY <1>1, <1>3, <1>4, <1>5, <1>6 DEF Failure, Recover

\* The admin's calls leave the row alone until a resync patches it.
LEMMA AdminInv ==
    ASSUME Inv, NEW a \in Admins, AdminCall(a) \/ Resync(a)
    PROVE  Inv'
<1> USE BoundsAssumption DEF db, locals, history
<1>0. TypeOK /\ HasDraft /\ RowStays /\ KnownRow /\ RefusedOnlyUnread /\ a \notin Clients
  BY DEF Inv
<1>1. CASE Generate(a)
  <2>1. TypeOK' /\ pc' = [pc EXCEPT ![a] = "fetching"]
    BY <1>0, <1>1 DEF Generate, Call, Goto, TypeOK
  <2> QED BY <1>0, <1>1, <2>1, MoveInv
          DEF Generate, TypeOK, KnownRow, RefusedOnlyUnread
<1>2. CASE PutRules(a) \/ SetGroupOrder(a)
  <2>1. TypeOK' /\ pc' = [pc EXCEPT ![a] = "resync_load"]
    BY <1>0, <1>2 DEF PutRules, SetGroupOrder, Call, Goto, TypeOK
  <2> QED BY <1>0, <1>2, <2>1, MoveInv
          DEF PutRules, SetGroupOrder, TypeOK, KnownRow, RefusedOnlyUnread
<1>3. CASE SetSource(a)
  <2>1. TypeOK'
    BY <1>0, <1>3 DEF SetSource, Call, TypeOK
  <2>2. UNCHANGED <<pc, cache, cached, draft, reply, known>>
    BY <1>3 DEF SetSource
  <2> QED BY <2>1, <2>2 DEF Inv, WhoIsWhere, HasDraft, RowStays, KnownRow,
                            RefusedOnlyUnread
<1>4. CASE ResyncLoad(a)
  <2>1. CASE cache = NULL
    <3>1. Forget(a)
      BY <1>4, <2>1 DEF ResyncLoad
    <3> QED BY <1>0, <1>4, <3>1, ForgetInv DEF ResyncLoad, TypeOK
  <2>2. CASE cache # NULL
    <3>1. /\ TypeOK' /\ pc' = [pc EXCEPT ![a] = "resync_orders"]
          /\ draft'[a] # NULL
          /\ \A u \in Tasks : u # a => cached'[u] = cached[u] /\ draft'[u] = draft[u]
          /\ UNCHANGED <<cache, reply, known>>
      BY <1>0, <1>4, <2>2 DEF ResyncLoad, Goto, TypeOK
    <3>2. a \notin known
      BY <1>0 DEF TypeOK
    <3> QED BY <1>0, <2>2, <3>1, <3>2, MoveInv DEF RefusedOnlyUnread
  <2> QED BY <2>1, <2>2
<1>5. CASE ResyncOrders(a)
  <2>1. draft[a] \in Row /\ cache # NULL
    BY <1>0, <1>5 DEF ResyncOrders, HasDraft, RowStays, TypeOK
  <2>2. (IF order = NULL THEN draft[a] ELSE [draft[a] EXCEPT !.out.order = order]) \in Row
    BY <1>0, <2>1, FilledRow DEF TypeOK
  <2>3. /\ pc' = [pc EXCEPT ![a] = "resync_rules"]
        /\ draft'[a] \in Row
        /\ draft' \in [Tasks -> Row \cup {NULL}]
        /\ \A u \in Tasks : u # a => draft'[u] = draft[u]
    BY <1>0, <1>5, <2>2 DEF ResyncOrders, Goto, TypeOK
  <2>4. TypeOK'
    BY <1>0, <1>5, <2>3 DEF ResyncOrders, TypeOK
  <2> QED BY <1>0, <1>5, <2>1, <2>3, <2>4, MoveInv
          DEF ResyncOrders, KnownRow, RefusedOnlyUnread
<1>6. CASE ResyncRules(a)
  <2>1. draft[a] \in Row /\ cache # NULL
    BY <1>0, <1>6 DEF ResyncRules, HasDraft, RowStays, TypeOK
  <2>2. [draft[a] EXCEPT !.out.rules = rules] \in Row
    BY <1>0, <2>1, FilledRow, OrdersAssumption DEF TypeOK
  <2>3. /\ pc' = [pc EXCEPT ![a] = "resync_write"]
        /\ draft'[a] \in Row
        /\ draft' \in [Tasks -> Row \cup {NULL}]
        /\ \A u \in Tasks : u # a => draft'[u] = draft[u]
    BY <1>0, <1>6, <2>2 DEF ResyncRules, Goto, TypeOK
  <2>4. TypeOK'
    BY <1>0, <1>6, <2>3 DEF ResyncRules, TypeOK
  <2> QED BY <1>0, <1>6, <2>1, <2>3, <2>4, MoveInv
          DEF ResyncRules, KnownRow, RefusedOnlyUnread
<1>7. CASE ResyncWrite(a)
  <2>1. draft[a] \in Row /\ cache \in Row
    BY <1>0, <1>7 DEF ResyncWrite, HasDraft, RowStays, TypeOK
  <2>2. [cache EXCEPT !.out = draft[a].out] \in Row
    BY <2>1, PatchedRow
  <2>3. cache' \in Row
    BY <1>7, <2>1, <2>2 DEF ResyncWrite
  <2> QED BY <1>0, <1>7, <2>3, ForgetInv DEF ResyncWrite, TypeOK
<1> QED BY <1>1, <1>2, <1>3, <1>4, <1>5, <1>6, <1>7 DEF AdminCall, Resync

\* Time, the provider and dropped handlers.
LEMMA WorldInv ==
    ASSUME Inv, UpstreamChanges \/ Expire \/ \E t \in Tasks : Cancel(t)
    PROVE  Inv'
<1> USE BoundsAssumption DEF db, locals, history
<1>0. TypeOK /\ HasDraft /\ RowStays /\ KnownRow /\ RefusedOnlyUnread
  BY DEF Inv
<1>1. CASE UpstreamChanges
  <2>1. upstream' \in 0 .. MaxVer
    BY <1>0, <1>1 DEF UpstreamChanges, TypeOK
  <2> QED BY <1>0, <1>1, <2>1 DEF UpstreamChanges, Inv, TypeOK, WhoIsWhere, HasDraft,
                                  RowStays, KnownRow, RefusedOnlyUnread
<1>2. CASE Expire
  <2>1. /\ cache' \in Row \cup {NULL}
        /\ cache' = NULL <=> cache = NULL
        /\ draft' \in [Tasks -> Row \cup {NULL}]
        /\ \A t \in Tasks : draft'[t] = NULL <=> draft[t] = NULL
    BY <1>0, <1>2, ExpiredRow DEF Expire, TypeOK
  <2>2. UNCHANGED <<rules, order, source, upstream, pc, core, cached, reply,
                    adminOps, joined, known>>
    BY <1>2 DEF Expire
  <2>3. TypeOK'
    BY <1>0, <2>1, <2>2 DEF TypeOK
  <2> QED BY <2>1, <2>2, <2>3 DEF Inv, WhoIsWhere, HasDraft, RowStays, KnownRow,
                                  RefusedOnlyUnread
<1>3. ASSUME NEW t \in Tasks, Cancel(t) PROVE Inv'
  BY <1>0, <1>3, ForgetInv DEF Cancel, TypeOK
<1> QED BY <1>1, <1>2, <1>3

LEMMA StepInv == Inv /\ [Next]_vars => Inv'
<1> SUFFICES ASSUME Inv, [Next]_vars PROVE Inv'
  OBVIOUS
<1>1. CASE UNCHANGED vars
  BY <1>1 DEF vars, db, locals, history, Inv, TypeOK, WhoIsWhere, HasDraft, RowStays,
              KnownRow, RefusedOnlyUnread
<1>2. CASE Next
  BY <1>2, DownloadInv, UnreadInv, RefreshInv, FailureInv, AdminInv, WorldInv DEF Next, CalmNext
<1> QED BY <1>1, <1>2

\* Inv, and with it type correctness, holds in every reachable state.
THEOREM InvHolds == Spec => []Inv
BY InitInv, StepInv, PTL DEF Spec

\* Cache and refresh, generate.rs: a download that arrived when a row existed
\* and could read it is answered from it at worst, never with 503.
THEOREM RefusedOnlyUnreadHolds == Spec => []RefusedOnlyUnread
<1>1. Inv => RefusedOnlyUnread
  BY DEF Inv
<1> QED BY <1>1, InvHolds, PTL

-----------------------------------------------------------------------------
(* Downloads among themselves: with no admin call beside them, concurrent  *)
(* ones share a fetch and the row follows the provider's document.         *)

Building == {"recording", "reading_rules", "reading_orders", "persisting"}

\* A row that is stored, or about to be, was generated after every client
\* arrived that has waited through an earlier one.
Merged ==
    /\ \A c \in joined : pc[c] = "waiting" =>
          /\ cache # NULL /\ c \in cache.since
          /\ \A d \in Clients : pc[d] = "persisting" => c \in draft[d].since
    /\ SingleFetch

\* What is stored is no newer than what is being built, and that no newer
\* than the provider's document.
Aged ==
    /\ cache # NULL => cache.out.ver <= upstream
    /\ \A d \in Clients : pc[d] \in Building =>
          /\ draft[d].out.ver <= upstream
          /\ cache # NULL => cache.out.ver <= draft[d].out.ver

\* A new profile has neither a row nor waiting clients.
LEMMA InitMerged == Init => Merged /\ Aged
BY DEF Init, Merged, Aged, Building, SingleFetch

\* An arrival takes the client, and nobody else, out of a row.
LEMMA ArrivalParts ==
    ASSUME NEW row \in Row, NEW c
    PROVE  /\ WithoutArrival(row, c).since = row.since \ {c}
           /\ WithoutArrival(row, c).out = row.out
           /\ WithoutArrival(row, c) # NULL
BY WithoutArrivalRow DEF WithoutArrival, Row

\* Expiry leaves the output and the since set of a row alone.
LEMMA ExpiredParts ==
    ASSUME NEW row \in Row
    PROVE  /\ Expired(row).since = row.since
           /\ Expired(row).out = row.out
           /\ Expired(row) # NULL
BY ExpiredRow DEF Expired, Row

\* A handler that moves on without touching the row, without entering the
\* lock and without reaching its write.
LEMMA Moved ==
    ASSUME Inv, Merged, Aged, NEW t \in Clients, NEW l,
           pc' = [pc EXCEPT ![t] = l],
           l \notin {"waiting", "fetching", "recording", "persisting"},
           l \in Building => pc[t] \in Building /\ draft'[t].out.ver = draft[t].out.ver,
           \A u \in Clients : u # t => draft'[u] = draft[u],
           UNCHANGED <<cache, joined, upstream>>
    PROVE  Merged' /\ Aged'
<1> USE DEF Inv, TypeOK, Tasks
<1>1. Merged'
  BY DEF Merged, SingleFetch
<1>2. Aged'
  <2>1. ASSUME NEW d \in Clients, pc'[d] \in Building
        PROVE  pc[d] \in Building /\ draft'[d].out.ver = draft[d].out.ver
    <3>1. CASE d = t BY <2>1, <3>1
    <3>2. CASE d # t BY <2>1, <3>2
    <3> QED BY <3>1, <3>2
  <2> QED BY <2>1 DEF Aged
<1> QED BY <1>1, <1>2

\* The steps that look at the row or write it.
LEMMA ArriveShared ==
    ASSUME Inv, Merged, Aged, NEW c \in Clients, Arrive(c)
    PROVE  Merged' /\ Aged' /\ (cache # NULL => cache' # NULL /\ cache'.out = cache.out)
<1> USE DEF Inv, TypeOK, Tasks, Arrive, Goto
<1>1. /\ cache = NULL => cache' = NULL
      /\ cache # NULL => /\ cache' # NULL /\ cache'.out = cache.out
                         /\ cache'.since = cache.since \ {c}
  BY ArrivalParts, WithoutArrivalRow
<1>2. ASSUME NEW d \in Clients, pc[d] \in Building
      PROVE  /\ draft'[d].out = draft[d].out
             /\ draft'[d].since = draft[d].since \ {c}
  <2>1. draft[d] \in Row
    BY <1>2 DEF HasDraft, Building
  <2> QED BY <2>1, ArrivalParts
<1>3. \A d \in Clients : pc'[d] \in Building => pc[d] \in Building
  BY DEF Building
<1>4. Merged'
  BY <1>1, <1>2, <1>3 DEF Merged, SingleFetch, Building
<1>5. Aged'
  BY <1>1, <1>2, <1>3 DEF Aged
<1> QED BY <1>1, <1>4, <1>5

\* Who starts a fetch waited through no store.
LEMMA EnterAndFetchShared ==
    ASSUME Inv, Merged, Aged, NEW c \in Clients, EnterAndFetch(c)
    PROVE  Merged' /\ Aged'
<1> USE DEF Inv, TypeOK, Tasks, EnterAndFetch, CanEnter, Goto, db, history
<1>1. c \notin joined
  BY DEF Merged, ServeCached, GeneratedSince
<1>2. Merged'
  BY <1>1 DEF Merged, SingleFetch
<1>3. Aged'
  BY DEF Aged, Building
<1> QED BY <1>2, <1>3

\* Who cannot read the row no longer counts on it.
LEMMA EnterUnreadShared ==
    ASSUME Inv, Merged, Aged, NEW c \in Clients, EnterUnread(c)
    PROVE  Merged' /\ Aged' /\ UNCHANGED cache
<1> USE DEF Inv, TypeOK, Tasks, EnterUnread, CanEnter, Goto, db, locals
<1>1. Merged'
  BY DEF Merged, SingleFetch
<1>2. Aged'
  BY DEF Aged, Building
<1> QED BY <1>1, <1>2

\* What is fetched is as new as the provider's document.
LEMMA FetchOkShared ==
    ASSUME Inv, Merged, Aged, NEW c \in Clients, FetchOk(c)
    PROVE  Merged' /\ Aged'
<1> USE DEF Inv, TypeOK, Tasks, FetchOk, Goto, db, history
<1>1. Merged'
  BY DEF Merged, SingleFetch
<1>2. draft'[c].out.ver = upstream /\ UNCHANGED <<cache, upstream>>
  OBVIOUS
<1>3. \A d \in Clients : d # c => draft'[d] = draft[d] /\ pc'[d] = pc[d]
  OBVIOUS
<1>4. Aged'
  BY <1>2, <1>3 DEF Aged
<1> QED BY <1>1, <1>4

\* generated_at is after the arrival of all who wait now.
LEMMA BuildShared ==
    ASSUME Inv, Merged, Aged, NEW c \in Clients, Build(c)
    PROVE  Merged' /\ Aged'
<1> USE DEF Inv, TypeOK, Tasks, Build, Goto, db, history
<1>1. draft[c] \in Row
  BY DEF HasDraft
<1>2. draft'[c].out.ver = draft[c].out.ver /\ draft'[c].since = Waiting
  BY <1>1 DEF Row, Output
<1>3. \A d \in Clients : d # c => draft'[d] = draft[d] /\ pc'[d] = pc[d]
  OBVIOUS
<1>4. Merged'
  BY <1>2, <1>3 DEF Merged, SingleFetch, Waiting
<1>5. Aged'
  BY <1>2, <1>3 DEF Aged, Building
<1> QED BY <1>4, <1>5

\* Alone inside the lock, a download stores what is no older.
LEMMA PersistShared ==
    ASSUME Inv, Merged, Aged, NEW c \in Clients, Persist(c)
    PROVE  Merged' /\ Aged' /\ (cache # NULL => cache' # NULL /\ cache.out.ver <= cache'.out.ver)
<1> USE DEF Inv, TypeOK, Tasks, Persist, Goto, locals
<1>1. draft[c] \in Row /\ cache' = draft[c] /\ cache' # NULL
  BY DEF HasDraft
<1>2. \A d \in Clients : pc'[d] \notin Building \cup {"fetching"}
  BY DEF WhoIsWhere, Building
<1>3. cache'.out.ver <= upstream' /\ (cache # NULL => cache.out.ver <= cache'.out.ver)
  BY <1>1 DEF Aged, Building
<1>4. ASSUME NEW d \in joined', pc'[d] = "waiting" PROVE d \in cache'.since
  BY <1>1, <1>4 DEF Merged
<1>5. Merged'
  BY <1>1, <1>2, <1>4 DEF Merged, SingleFetch, Building
<1>6. Aged'
  BY <1>2, <1>3 DEF Aged
<1> QED BY <1>1, <1>3, <1>5, <1>6

\* Time and the provider.
LEMMA WorldShared ==
    ASSUME Inv, Merged, Aged, Admins = {}, UpstreamChanges \/ Expire
    PROVE  Merged' /\ Aged' /\ (cache # NULL => cache' # NULL /\ cache'.out = cache.out)
<1> USE DEF Inv, TypeOK, Tasks
<1>1. CASE UpstreamChanges
  <2>1. upstream' = upstream + 1 /\ upstream \in Nat
    BY <1>1, BoundsAssumption DEF UpstreamChanges
  <2>2. UNCHANGED <<cache, draft, pc, joined>>
    BY <1>1 DEF UpstreamChanges, db, locals, history
  <2>3. \A d \in Clients : pc[d] \in Building => draft[d].out.ver \in Nat
    BY BoundsAssumption DEF HasDraft, Building, Row, Output
  <2>4. cache # NULL => cache.out.ver \in Nat
    BY BoundsAssumption DEF Row, Output
  <2>5. Aged'
    BY <2>1, <2>2, <2>3, <2>4 DEF Aged
  <2> QED BY <2>2, <2>5 DEF Merged, SingleFetch
<1>2. CASE Expire
  <2>1. UNCHANGED <<pc, joined, upstream>>
    BY <1>2 DEF Expire, db, history
  <2>2. /\ cache = NULL => cache' = NULL
        /\ cache # NULL => /\ cache' # NULL /\ cache'.out = cache.out
                           /\ cache'.since = cache.since
    BY <1>2, ExpiredParts DEF Expire, db
  <2>3. ASSUME NEW d \in Clients, pc[d] \in Building
        PROVE  draft'[d].out = draft[d].out /\ draft'[d].since = draft[d].since
    <3>1. draft[d] \in Row
      BY <2>3 DEF HasDraft, Building
    <3> QED BY <1>2, <3>1, ExpiredParts DEF Expire, locals
  <2> QED BY <2>1, <2>2, <2>3 DEF Merged, Aged, SingleFetch, Building
<1> QED BY <1>1, <1>2

\* The other steps of a download, failing and being dropped included.
LEMMA DownloadShared ==
    ASSUME Inv, Merged, Aged, NEW c \in Clients,
           \/ EnterAndServe(c) \/ RecordSuccess(c) \/ ReadRules(c)
           \/ Snapshot(c) \/ Failure(c) \/ Recover(c) \/ Cancel(c)
    PROVE  Merged' /\ Aged' /\ UNCHANGED cache
<1> USE DEF db, locals, history, Goto, Tasks
<1>1. CASE EnterAndServe(c)
  BY <1>1, Moved DEF EnterAndServe, Forget, Inv, TypeOK, Building
<1>2. CASE RecordSuccess(c)
  BY <1>2, Moved DEF RecordSuccess, Building
<1>3. CASE ReadRules(c)
  <2>1. draft[c] \in Row
    BY <1>3 DEF ReadRules, Inv, TypeOK, HasDraft
  <2>2. [draft[c] EXCEPT !.out.rules = rules, !.out.providers = rules].out.ver
           = draft[c].out.ver
    BY <2>1 DEF Row, Output
  <2>3. /\ draft'[c].out.ver = draft[c].out.ver
        /\ \A u \in Clients : u # c => draft'[u] = draft[u]
    BY <1>3, <2>2 DEF ReadRules, Inv, TypeOK
  <2> QED BY <1>3, <2>3, Moved DEF ReadRules, Building
<1>4. CASE Snapshot(c) \/ Cancel(c) \/ PersistFail(c) \/ FallBack(c)
  BY <1>4, Moved DEF Snapshot, Cancel, PersistFail, FallBack, Forget, Inv, TypeOK, Building
<1>5. CASE FetchFail(c) \/ ConvertFail(c) \/ RecordFailure(c)
  BY <1>5, Moved DEF FetchFail, ConvertFail, RecordFailure, GiveUp, Building
<1> QED BY <1>1, <1>2, <1>3, <1>4, <1>5 DEF Failure, Recover

\* Without admins these are all steps there are.
LEMMA SharedNext ==
    ASSUME Admins = {}
    PROVE  Inv /\ Merged /\ Aged /\ [Next]_vars
              => /\ Merged' /\ Aged'
                 /\ cache # NULL => cache' # NULL /\ cache'.out.ver >= cache.out.ver
<1> SUFFICES ASSUME Inv, Merged, Aged, [Next]_vars
             PROVE  /\ Merged' /\ Aged'
                    /\ cache # NULL => /\ cache' # NULL
                                       /\ cache.out.ver <= cache'.out.ver
  BY DEF Aged
<1>1. cache # NULL => cache.out.ver <= cache.out.ver
  BY BoundsAssumption DEF Inv, TypeOK, Row, Output
<1>2. CASE UNCHANGED vars
  BY <1>1, <1>2 DEF vars, db, locals, history, Merged, Aged, SingleFetch
<1>3. CASE UpstreamChanges \/ Expire
  BY <1>1, <1>3, WorldShared
<1>4. ASSUME NEW c \in Clients,
             \/ Download(c) \/ EnterUnread(c)
             \/ Refresh(c) \/ Failure(c) \/ Recover(c) \/ Cancel(c)
      PROVE  /\ Merged' /\ Aged'
             /\ cache # NULL => cache' # NULL /\ cache.out.ver <= cache'.out.ver
  <2>1. CASE Arrive(c) BY <1>1, <2>1, ArriveShared
  <2>2. CASE EnterAndFetch(c)
    BY <1>1, <2>2, EnterAndFetchShared DEF EnterAndFetch, db
  <2>3. CASE FetchOk(c) BY <1>1, <2>3, FetchOkShared DEF FetchOk, db
  <2>4. CASE Build(c) BY <1>1, <2>4, BuildShared DEF Build, db
  <2>5. CASE Persist(c) BY <2>5, PersistShared
  <2>6. CASE EnterUnread(c) BY <1>1, <2>6, EnterUnreadShared
  <2>7. CASE \/ EnterAndServe(c) \/ RecordSuccess(c) \/ ReadRules(c)
             \/ Snapshot(c) \/ Failure(c) \/ Recover(c) \/ Cancel(c)
    BY <1>1, <2>7, DownloadShared
  <2> QED BY <1>4, <2>1, <2>2, <2>3, <2>4, <2>5, <2>6, <2>7 DEF Download, Refresh
<1> QED BY <1>2, <1>3, <1>4 DEF Next, CalmNext, Tasks

\* Single-flight, architecture.md: of downloads without an admin's generate
\* beside them (which takes no lock), none fetches again what was stored while
\* it waited.
THEOREM SingleFetchHolds ==
    ASSUME Admins = {}
    PROVE  Spec => []SingleFetch
<1>1. Inv /\ Merged /\ Aged /\ [Next]_vars => Merged' /\ Aged'
  BY SharedNext
<1>2. Merged => SingleFetch
  BY DEF Merged
<1> QED BY <1>1, <1>2, InitMerged, InvHolds, PTL DEF Spec

\* Nor does the row of such downloads go back to an older document: a refresh
\* under way is never overtaken by a later one.
THEOREM CacheNeverOlderHolds ==
    ASSUME Admins = {}
    PROVE  Spec => CacheNeverOlder
<1>1. Inv /\ Merged /\ Aged /\ [Next]_vars => Merged' /\ Aged'
  BY SharedNext
<1>2. Inv /\ Merged /\ Aged /\ [Next]_vars
         => [cache # NULL => cache'.out.ver >= cache.out.ver]_vars
  BY SharedNext
<1> QED BY <1>1, <1>2, InitMerged, InvHolds, PTL DEF Spec, CacheNeverOlder
=============================================================================
