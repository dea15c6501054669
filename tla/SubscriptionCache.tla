------------------------- MODULE SubscriptionCache --------------------------
(***************************************************************************)
(* The generated subscription of one profile: src/src/generate.rs with the *)
(* edits of src/src/profiles.rs that reach it.                             *)
(*                                                                         *)
(* Public downloads (serve_or_refresh) run one at a time under the keyed   *)
(* lock of the profile and reuse, refresh or fall back to the row of       *)
(* generated_cache.  The admin's generate and edits do not take that lock: *)
(* generate fetches and persists beside them, and an edit writes its own   *)
(* row and then "resyncs" the cached output with a read and a later write. *)
(* Each database call is one step, since each is an await.  What they      *)
(* write to last_fetch_status is only shown to the admin and left out.     *)
(*                                                                         *)
(* What a rules text means here is the set of rule-sets its RULE-SET lines *)
(* name, and every rule-set is defined and enabled.  A group order is one  *)
(* of the permutations of a fixed set of groups.  Time is relational: a    *)
(* row is fresh until it expires, and it knows which of the requests now   *)
(* waiting had arrived when it was generated (generated_since).            *)
(***************************************************************************)
EXTENDS Naturals, FiniteSets

CONSTANTS Clients,       \* public downloads
          Admins,        \* handlers of the admin API
          RuleSets,      \* the names RULE-SET rules may refer to
          Sources,       \* source_url values
          Orders,        \* permutations of the profile's groups
          DefaultOrder,  \* the one by created_at
          MaxVer,        \* bound: how often the provider changes its document
          MaxAdminOps,   \* bound: how many admin calls are made
          NULL

ASSUME TasksAssumption == Clients \cap Admins = {}
ASSUME OrdersAssumption == DefaultOrder \in Orders /\ NULL \notin Orders
ASSUME BoundsAssumption == MaxVer \in Nat /\ MaxAdminOps \in Nat

Tasks == Clients \cup Admins

Output == [src : Sources, ver : 0 .. MaxVer,
           rules : SUBSET RuleSets, providers : SUBSET RuleSets, order : Orders]

Row == [out : Output, fresh : BOOLEAN, since : SUBSET Clients]

ASSUME NullAssumption ==
    /\ NULL \notin Row
    /\ NULL \notin {"cached", "built", "stale", "refused"}

VARIABLES rules,      \* rulesets.content
          order,      \* profiles.group_order, NULL for the default
          source,     \* profiles.source_url
          cache,      \* the row of generated_cache, or NULL
          upstream,   \* the version of the provider's document
          pc,         \* the await a handler is suspended on
          core,       \* the source_url its ProfileCore was loaded with
          cached,     \* the row it loaded
          draft,      \* the row it is building
          reply,      \* the answer to a client's last request
          adminOps,   \* how many admin calls were made
          joined,     \* history: clients that waited for a row that has been stored
          known       \* history: clients that arrived when a row existed; out of
                      \* both is who failed to read the row

db == <<rules, order, source, cache>>
locals == <<core, cached, draft>>
history == <<joined, known>>
vars == <<db, upstream, pc, locals, reply, adminOps, history>>

Refreshing == {"fetching", "recording", "reading_rules", "reading_orders",
               "persisting", "snapshotting", "failing", "falling_back"}
Resyncing == {"resync_load", "resync_orders", "resync_rules", "resync_write"}

TypeOK ==
    /\ rules \in SUBSET RuleSets
    /\ order \in Orders \cup {NULL}
    /\ source \in Sources
    /\ cache \in Row \cup {NULL}
    /\ upstream \in 0 .. MaxVer
    /\ pc \in [Tasks -> {"idle", "waiting"} \cup Refreshing \cup Resyncing]
    /\ core \in [Tasks -> Sources]
    /\ cached \in [Tasks -> Row \cup {NULL}]
    /\ draft \in [Tasks -> Row \cup {NULL}]
    /\ reply \in [Clients -> {NULL, "cached", "built", "stale", "refused"}]
    /\ adminOps \in 0 .. MaxAdminOps
    /\ joined \in SUBSET Clients
    /\ known \in SUBSET Clients

\* profiles::create has committed: an empty ruleset, nothing fetched yet.
Init ==
    /\ rules = {} /\ order = NULL /\ source \in Sources
    /\ cache = NULL
    /\ upstream = 0
    /\ pc = [t \in Tasks |-> "idle"]
    /\ core = [t \in Tasks |-> source]
    /\ cached = [t \in Tasks |-> NULL]
    /\ draft = [t \in Tasks |-> NULL]
    /\ reply = [c \in Clients |-> NULL]
    /\ adminOps = 0
    /\ joined = {} /\ known = {}

-----------------------------------------------------------------------------
Goto(t, l) == pc' = [pc EXCEPT ![t] = l]

\* The handler ends and its locals are gone.
Forget(t) == /\ Goto(t, "idle")
             /\ cached' = [cached EXCEPT ![t] = NULL]
             /\ draft' = [draft EXCEPT ![t] = NULL]
             /\ UNCHANGED core

\* A client's response; an admin's response is not looked at.
Answer(t, a) == reply' = IF t \in Clients THEN [reply EXCEPT ![t] = a] ELSE reply

\* converter::convert with the saved group order: NULL keeps created_at order.
OutputOrder(o) == IF o = NULL THEN DefaultOrder ELSE o

\* What generated_at and arrived decide for a client: the row was generated
\* after the client arrived.
GeneratedSince(row, c) == c \in row.since

\* Rows in the database and rows being built age alike; a new arrival is
\* later than all of them.
WithoutArrival(row, c) ==
    IF row = NULL THEN NULL ELSE [row EXCEPT !.since = @ \ {c}]

Expired(row) == IF row = NULL THEN NULL ELSE [row EXCEPT !.fresh = FALSE]

-----------------------------------------------------------------------------
(***************************************************************************)
(* The public download.                                                    *)
(***************************************************************************)

\* public_sub: the profile is loaded by its token, arrived is taken, and the
\* request waits for the profile's lock.
Arrive(c) ==
    /\ pc[c] = "idle"
    /\ Goto(c, "waiting")
    /\ core' = [core EXCEPT ![c] = source]
    /\ cache' = WithoutArrival(cache, c)
    /\ draft' = [t \in Tasks |-> WithoutArrival(draft[t], c)]
    /\ cached' = [t \in Tasks |-> WithoutArrival(cached[t], c)]
    /\ reply' = [reply EXCEPT ![c] = NULL]
    /\ joined' = joined \ {c}
    /\ known' = IF cache # NULL THEN known \cup {c} ELSE known \ {c}
    /\ UNCHANGED <<rules, order, source, upstream, adminOps>>

\* Mutant: a lock that is released before the row is written.
CanEnterWhilePersisting(c) ==
    /\ pc[c] = "waiting"
    /\ \A d \in Clients : pc[d] \in {"idle", "waiting", "persisting", "snapshotting"}

\* KeyedMutex: nobody else is inside the lock of this profile.
CanEnter(c) ==
    pc[c] = "waiting" /\ \A d \in Clients : pc[d] \in {"idle", "waiting"}

\* Mutant: a row generated while the request waited is not reused.
ServeFresh(c) == cache # NULL /\ cache.fresh

ServeCached(c) == cache # NULL /\ (cache.fresh \/ GeneratedSince(cache, c))

\* Inside the lock the cache is loaded, and served when it is fresh enough or
\* was generated while this request waited ...
EnterAndServe(c) ==
    /\ CanEnter(c)
    /\ ServeCached(c)
    /\ Forget(c)
    /\ Answer(c, "cached")
    /\ UNCHANGED <<db, upstream, adminOps, history>>

\* Mutant: the row that could be served stale is not kept.
EnterAndFetchUnloaded(c) ==
    /\ CanEnter(c)
    /\ ~ServeCached(c)
    /\ Goto(c, "fetching")
    /\ UNCHANGED <<db, upstream, locals, reply, adminOps, history>>

\* ... and otherwise the provider is asked.
EnterAndFetch(c) ==
    /\ CanEnter(c)
    /\ ~ServeCached(c)
    /\ Goto(c, "fetching")
    /\ cached' = [cached EXCEPT ![c] = cache]
    /\ UNCHANGED <<db, upstream, core, draft, reply, adminOps, history>>

\* A read that fails is taken for no row: the provider is asked whatever is
\* stored, and there is nothing to fall back to.
EnterUnread(c) ==
    /\ CanEnter(c)
    /\ Goto(c, "fetching")
    /\ joined' = joined \ {c} /\ known' = known \ {c}
    /\ UNCHANGED <<db, upstream, locals, reply, adminOps>>

-----------------------------------------------------------------------------
(***************************************************************************)
(* fetch_convert_and_record and persist_cache_and_group_order, as run by a *)
(* client inside the lock or by an admin's generate outside it.            *)
(***************************************************************************)
Waiting == {c \in Clients : pc[c] = "waiting"}

FetchOk(t) ==
    /\ pc[t] = "fetching"
    /\ Goto(t, "recording")
    /\ draft' = [draft EXCEPT ![t] =
          [out |-> [src |-> core[t], ver |-> upstream, rules |-> {},
                    providers |-> {}, order |-> DefaultOrder],
           fresh |-> FALSE, since |-> {}]]
    /\ UNCHANGED <<db, upstream, core, cached, reply, adminOps, history>>

FetchFail(t) ==
    /\ pc[t] = "fetching"
    /\ Goto(t, "failing")
    /\ UNCHANGED <<db, upstream, locals, reply, adminOps, history>>

\* "success" is recorded before the conversion is tried.
RecordSuccess(t) ==
    /\ pc[t] = "recording"
    /\ Goto(t, "reading_rules")
    /\ UNCHANGED <<db, upstream, locals, reply, adminOps, history>>

\* Mutant: a failed refresh tries again under the lock.
GiveUpRetrying(t) == Goto(t, "fetching") /\ UNCHANGED locals

\* Only a client has a stale copy to fall back to.
GiveUp(t) ==
    IF t \in Clients
    THEN Goto(t, "falling_back") /\ UNCHANGED locals
    ELSE Forget(t)

RecordFailure(t) ==
    /\ pc[t] = "failing"
    /\ GiveUp(t)
    /\ UNCHANGED <<db, upstream, reply, adminOps, history>>

\* convert reads the rules and the rule-sets they name, ...
ReadRules(t) ==
    /\ pc[t] = "reading_rules"
    /\ Goto(t, "reading_orders")
    /\ draft' = [draft EXCEPT ![t] =
          [@ EXCEPT !.out.rules = rules, !.out.providers = rules]]
    /\ UNCHANGED <<db, upstream, core, cached, reply, adminOps, history>>

\* ... then the orders; the output is complete and generated_at is now.
Build(t) ==
    /\ pc[t] = "reading_orders"
    /\ Goto(t, "persisting")
    /\ draft' = [draft EXCEPT ![t] =
          [@ EXCEPT !.out.order = OutputOrder(order), !.fresh = TRUE,
                    !.since = Waiting]]
    /\ UNCHANGED <<db, upstream, core, cached, reply, adminOps, history>>

\* The provider's document does not parse, or the rules or the database do
\* not allow an output.
ConvertFail(t) ==
    /\ pc[t] = "reading_orders"
    /\ GiveUp(t)
    /\ UNCHANGED <<db, upstream, reply, adminOps, history>>

\* Mutant: ON CONFLICT DO NOTHING.
PersistOnce(t) ==
    /\ pc[t] = "persisting"
    /\ Goto(t, "snapshotting")
    /\ cache' = IF cache = NULL THEN draft[t] ELSE cache
    /\ UNCHANGED <<rules, order, source, upstream, locals, reply,
                   adminOps, history>>

Persist(t) ==
    /\ pc[t] = "persisting"
    /\ Goto(t, "snapshotting")
    /\ cache' = draft[t]
    /\ joined' = joined \cup (draft[t].since \cap Waiting)
    /\ UNCHANGED <<rules, order, source, upstream, locals, reply, adminOps, known>>

\* A client is answered from memory when its output could not be stored.
PersistFail(t) ==
    /\ pc[t] = "persisting"
    /\ Forget(t)
    /\ Answer(t, "built")
    /\ UNCHANGED <<db, upstream, adminOps, history>>

\* snapshot_group_order, best effort: the order of the output is saved.
Snapshot(t) ==
    /\ pc[t] = "snapshotting"
    /\ order' \in {order, draft[t].out.order}
    /\ Forget(t)
    /\ Answer(t, "built")
    /\ UNCHANGED <<rules, source, cache, upstream, adminOps, history>>

\* Mutant: the stale copy is served only while it is fresh.
FallBackFresh(c) ==
    /\ c \in Clients
    /\ pc[c] = "falling_back"
    /\ Forget(c)
    /\ Answer(c, IF cached[c] # NULL /\ cached[c].fresh THEN "stale" ELSE "refused")
    /\ UNCHANGED <<db, upstream, adminOps, history>>

\* A refresh failed: the row that was loaded before the fetch is served, if
\* there was one, however old it is.
FallBack(c) ==
    /\ c \in Clients
    /\ pc[c] = "falling_back"
    /\ Forget(c)
    /\ Answer(c, IF cached[c] = NULL THEN "refused" ELSE "stale")
    /\ UNCHANGED <<db, upstream, adminOps, history>>

-----------------------------------------------------------------------------
(***************************************************************************)
(* The admin's calls.                                                      *)
(***************************************************************************)
Call(a) == /\ a \in Admins
           /\ pc[a] = "idle"
           /\ adminOps < MaxAdminOps
           /\ adminOps' = adminOps + 1

\* POST generate: the profile is loaded and fetched at once.
Generate(a) ==
    /\ Call(a)
    /\ Goto(a, "fetching")
    /\ core' = [core EXCEPT ![a] = source]
    /\ UNCHANGED <<db, upstream, cached, draft, reply, history>>

PutRules(a) ==
    /\ Call(a)
    /\ rules' \in SUBSET RuleSets
    /\ Goto(a, "resync_load")
    /\ UNCHANGED <<order, source, cache, upstream, locals, reply, history>>

\* An empty order is stored as NULL.
SetGroupOrder(a) ==
    /\ Call(a)
    /\ order' \in Orders \cup {NULL}
    /\ Goto(a, "resync_load")
    /\ UNCHANGED <<rules, source, cache, upstream, locals, reply, history>>

\* profiles::update changes the source and leaves the cache alone.
SetSource(a) ==
    /\ Call(a)
    /\ source' \in Sources
    /\ UNCHANGED <<rules, order, cache, upstream, pc, locals, reply, history>>

\* resync_cache: a no-op when nothing was generated yet.
ResyncLoad(a) ==
    /\ pc[a] = "resync_load"
    /\ IF cache = NULL
       THEN Forget(a)
       ELSE /\ Goto(a, "resync_orders")
            /\ cached' = [cached EXCEPT ![a] = cache]
            /\ draft' = [draft EXCEPT ![a] = cache]
            /\ UNCHANGED core
    /\ UNCHANGED <<db, upstream, reply, adminOps, history>>

\* reorder_by_name leaves the cached order as it is when none is saved.
ResyncOrders(a) ==
    /\ pc[a] = "resync_orders"
    /\ Goto(a, "resync_rules")
    /\ draft' = [draft EXCEPT ![a] =
          IF order = NULL THEN @ ELSE [@ EXCEPT !.out.order = order]]
    /\ UNCHANGED <<db, upstream, core, cached, reply, adminOps, history>>

\* The rules block is replaced; rule-providers are not touched.
ResyncRules(a) ==
    /\ pc[a] = "resync_rules"
    /\ draft' = [draft EXCEPT ![a] = [@ EXCEPT !.out.rules = rules]]
    /\ Goto(a, "resync_write")
    /\ UNCHANGED <<db, upstream, core, cached, reply, adminOps, history>>

\* Output and hash are written, unless nothing changed; generated_at stays
\* what it is in the row.
ResyncWrite(a) ==
    /\ pc[a] = "resync_write"
    /\ cache' = IF draft[a].out = cached[a].out
                THEN cache
                ELSE [cache EXCEPT !.out = draft[a].out]
    /\ Forget(a)
    /\ UNCHANGED <<rules, order, source, upstream, reply, adminOps, history>>

-----------------------------------------------------------------------------
(***************************************************************************)
(* The world around the handlers.                                          *)
(***************************************************************************)
UpstreamChanges ==
    /\ upstream < MaxVer
    /\ upstream' = upstream + 1
    /\ UNCHANGED <<db, pc, locals, reply, adminOps, history>>

\* The minimum refresh interval since generated_at is over.  A row that was
\* generated earlier expires earlier.
Expire ==
    \/ /\ cache # NULL /\ cache.fresh
       /\ cache' = Expired(cache)
       /\ UNCHANGED <<rules, order, source, upstream, pc, locals, reply,
                      adminOps, history>>
    \/ \E t \in Tasks :
          /\ pc[t] = "persisting" /\ draft[t].fresh
          /\ draft' = [draft EXCEPT ![t] = Expired(@)]
          /\ UNCHANGED <<db, upstream, pc, core, cached, reply, adminOps,
                         history>>

\* The handler is dropped at the await it is suspended on; its guard with it.
Cancel(t) ==
    /\ pc[t] # "idle"
    /\ Forget(t)
    /\ UNCHANGED <<db, upstream, reply, adminOps, history>>

\* What a handler does by itself, without and with failures.
Refresh(t) == \/ FetchOk(t) \/ RecordSuccess(t) \/ ReadRules(t) \/ Build(t)
              \/ Persist(t) \/ Snapshot(t)
Failure(t) == FetchFail(t) \/ ConvertFail(t) \/ PersistFail(t)
Recover(t) == RecordFailure(t) \/ FallBack(t)
Resync(a) == ResyncLoad(a) \/ ResyncOrders(a) \/ ResyncRules(a) \/ ResyncWrite(a)
Download(c) == Arrive(c) \/ EnterAndServe(c) \/ EnterAndFetch(c)
Enter(c) == EnterAndServe(c) \/ EnterAndFetch(c) \/ EnterUnread(c)
AdminCall(a) == Generate(a) \/ PutRules(a) \/ SetGroupOrder(a) \/ SetSource(a)

CalmNext == \/ \E c \in Clients : Download(c)
            \/ \E a \in Admins : AdminCall(a) \/ Resync(a)
            \/ \E t \in Tasks : Refresh(t)
            \/ UpstreamChanges
            \/ Expire

Next == \/ CalmNext
        \/ \E c \in Clients : EnterUnread(c)
        \/ \E t \in Tasks : Failure(t) \/ Recover(t) \/ Cancel(t)

Spec == Init /\ [][Next]_vars

\* Downloads are scheduled, and the lock is fair (KeyedLock!EveryCallerServed).
\* Nothing is asked of the admin's handlers: they hold nothing up.
Scheduling ==
    \A c \in Clients : WF_vars(Refresh(c) \/ Recover(c)) /\ SF_vars(Enter(c))

\* Clients keep polling and the interval elapses.  Providers, the database
\* and clients may fail again and again, but no await of a download is the
\* one that always fails.
Polling ==
    /\ \A c \in Clients : /\ WF_vars(Arrive(c))
                          /\ SF_vars(FetchOk(c))
                          /\ SF_vars(RecordSuccess(c))
                          /\ SF_vars(ReadRules(c))
                          /\ SF_vars(Build(c))
                          /\ SF_vars(Persist(c))
    /\ WF_vars(Expire)

FairSpec == Spec /\ Scheduling

PollingSpec == FairSpec /\ Polling

-----------------------------------------------------------------------------
(***************************************************************************)
(* Properties.                                                             *)
(***************************************************************************)

\* 503 answers a profile without a row, or a client that could not read it.
\* (architecture.md:224 and :600 say only the former; `.ok().flatten()` makes
\* them one.)  A client that arrived when a row existed and read it is not
\* refused, whatever fails afterwards.
RefusedOnlyUnread ==
    \A c \in Clients : reply[c] = "refused" => c \notin known

\* What holds between the steps of all handlers: who can be where, what a
\* handler has loaded by then, that a row, once there, is never gone, and that
\* a client which could count on a row has loaded one.
Inside == {c \in Clients : pc[c] \notin {"idle", "waiting"}}

Drafting == {"recording", "reading_rules", "reading_orders", "persisting",
             "snapshotting", "resync_orders", "resync_rules", "resync_write"}

WhoIsWhere ==
    /\ \A c \in Clients : pc[c] \notin Resyncing
    /\ \A a \in Admins : pc[a] \notin {"waiting", "falling_back"}
    /\ \A c, d \in Inside : c = d

HasDraft == \A t \in Tasks : pc[t] \in Drafting => draft[t] # NULL

RowStays == \A a \in Admins :
    pc[a] \in {"resync_orders", "resync_rules", "resync_write"} => cache # NULL

KnownRow ==
    \A c \in known : cache # NULL /\ (pc[c] \in Refreshing => cached[c] # NULL)

Inv == /\ TypeOK /\ WhoIsWhere /\ HasDraft /\ RowStays /\ KnownRow
       /\ RefusedOnlyUnread

\* Among downloads alone the row never goes back to an older document of the
\* provider: an in-flight refresh is never overtaken by a later one.
CacheNeverOlder ==
    [][cache # NULL => cache'.out.ver >= cache.out.ver]_vars

\* architecture.md, single-flight: concurrent downloads are merged into one
\* fetch.  A client that was waiting when a row was generated, and waited on
\* until it was stored, does not fetch again, even if the row has outlived the
\* minimum interval by the time the client gets the lock, unless it cannot
\* read that row.  (Only a stored row merges: when a fetch fails, those who
\* waited fetch again in their turn.)
SingleFetch == \A c \in Clients : pc[c] = "fetching" => c \notin joined

\* generate.rs:452-454: the snapshot keeps groups where they are, and a drag
\* saved by set_group_order overrides the snapshot, not the reverse.
SnapshotKeepsOrder ==
    [][(\E t \in Tasks : pc[t] = "snapshotting" /\ pc'[t] = "idle") /\ order # NULL
          => order' = order]_vars

\* What generating again from the same document would produce.
Regenerated(row) ==
    [row EXCEPT !.out.rules = rules, !.out.providers = rules,
                !.out.order = OutputOrder(order)]

\* generate.rs:528-529: for these edits a resync is equivalent to generating
\* again.
ResyncRegenerates ==
    [][\A a \in Admins : pc[a] = "resync_write" /\ pc'[a] = "idle"
          => cache' = Regenerated(cache)]_vars

\* The cached output is what the database says it should be.
Current == /\ cache # NULL
           /\ cache.out.src = source
           /\ cache = Regenerated(cache)

\* Whatever was lost to races, failures and dropped handlers heals by itself:
\* once the admin has stopped, the downloads bring the row back to what is
\* saved, and it stays so.  What an admin's generate or resync stored over a
\* later refresh (a document of the source there was before) is among it.
EventuallyCurrent == <>[]Current

\* Every download is answered or given up, however many share the lock.
DownloadsEnd == \A c \in Clients : pc[c] = "waiting" ~> pc[c] = "idle"
=============================================================================
