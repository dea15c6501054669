--------------------------- MODULE RuleSetMirror ----------------------------
(***************************************************************************)
(* The mirror of one remote rule-set: public_serve and serve_remote of     *)
(* src/src/profile_rule_sets.rs with the admin's update and delete.        *)
(*                                                                         *)
(* A download looks the rule-set up by name, then waits for the keyed lock *)
(* of the row's id, reads the row again by id, and serves its cached body, *)
(* or fetches the upstream URL and stores what it got.  The admin's edits  *)
(* take no lock.  Each database call and the fetch is one step.            *)
(*                                                                         *)
(* A body is known by the URL and the version of the document it was       *)
(* fetched from.  Behavior, format and file name go with the definition    *)
(* and are not told apart; "hosted" is what public_serve asks of a row.    *)
(***************************************************************************)
EXTENDS Naturals

CONSTANTS Clients,    \* public downloads
          Admins,     \* handlers of the admin API
          Urls,       \* upstream URLs of the rule-set
          MaxVer,     \* bound: how often the upstream documents change
          MaxEdits,   \* bound: how many admin calls are made
          NULL

ASSUME TasksAssumption == Clients \cap Admins = {}
ASSUME BoundsAssumption == MaxVer \in Nat /\ MaxEdits \in Nat

Body == [url : Urls, ver : 0 .. MaxVer]

\* A row of profile_rule_sets: fresh says cached_at is within mirror_ttl.
Row == [url : Urls \cup {NULL}, hosted : BOOLEAN,
        body : Body \cup {NULL}, fresh : BOOLEAN]

ASSUME NullAssumption ==
    NULL \notin Row \cup Body \cup Urls \cup {"body", "stale", "refused", "notfound"}

VARIABLES row,       \* the row with the id looked at, NULL once deleted
          upstream,  \* the version of the upstream documents
          pc,        \* the await a handler is suspended on
          url,       \* the URL its first look-up found; of an update, the old one
          kept,      \* the body of the row it read inside the lock
          got,       \* the body it fetched
          reply,     \* the answer to a client's last request
          edits,     \* how many admin calls were made
          known      \* history: clients that found a body, not edited away since

locals == <<url, kept, got>>
vars == <<row, upstream, pc, locals, reply, edits, known>>

Tasks == Clients \cup Admins
Fetching == {"fetching", "persisting", "failing"}

TypeOK ==
    /\ row \in Row \cup {NULL}
    /\ upstream \in 0 .. MaxVer
    /\ pc \in [Tasks -> {"idle", "waiting", "updating"} \cup Fetching]
    /\ url \in [Tasks -> Urls \cup {NULL}]
    /\ kept \in [Clients -> Body \cup {NULL}]
    /\ got \in [Clients -> Body \cup {NULL}]
    /\ reply \in [Clients -> {NULL, "body", "stale", "refused", "notfound"}]
    /\ edits \in 0 .. MaxEdits
    /\ known \in SUBSET Clients

\* create: a remote source, to be hosted, with nothing mirrored yet.
Init ==
    /\ \E u \in Urls :
          row = [url |-> u, hosted |-> TRUE, body |-> NULL, fresh |-> FALSE]
    /\ upstream = 0
    /\ pc = [t \in Tasks |-> "idle"]
    /\ url = [t \in Tasks |-> NULL]
    /\ kept = [c \in Clients |-> NULL]
    /\ got = [c \in Clients |-> NULL]
    /\ reply = [c \in Clients |-> NULL]
    /\ edits = 0
    /\ known = {}

-----------------------------------------------------------------------------
Goto(t, l) == pc' = [pc EXCEPT ![t] = l]

\* A handler ends and its locals are gone.
Forget(t) == /\ Goto(t, "idle")
             /\ url' = [url EXCEPT ![t] = NULL]
             /\ kept' = [c \in Clients |-> IF c = t THEN NULL ELSE kept[c]]
             /\ got' = [c \in Clients |-> IF c = t THEN NULL ELSE got[c]]

Answer(c, a) == /\ Forget(c)
                /\ reply' = [reply EXCEPT ![c] = a]

Hosted == row # NULL /\ row.hosted

\* public_serve: only an enabled remote row with cache on gets to serve_remote,
\* which notes the URL before it waits for the lock.
LookUp(c) ==
    /\ pc[c] = "idle"
    /\ Hosted
    /\ Goto(c, "waiting")
    /\ url' = [url EXCEPT ![c] = row.url]
    /\ reply' = [reply EXCEPT ![c] = NULL]
    /\ known' = IF row.body # NULL THEN known \cup {c} ELSE known \ {c}
    /\ UNCHANGED <<row, upstream, kept, got, edits>>

\* ... and otherwise the answer is 404 at once.
LookUpMissing(c) ==
    /\ pc[c] = "idle"
    /\ ~Hosted
    /\ reply' = [reply EXCEPT ![c] = "notfound"]
    /\ known' = known \ {c}
    /\ UNCHANGED <<row, upstream, pc, locals, edits>>

\* Mutants: no lock; a lock given up before the body is stored.
CanEnterUnlocked(c) == pc[c] = "waiting"
CanEnterWhilePersisting(c) ==
    pc[c] = "waiting" /\ \A d \in Clients : pc[d] \notin {"fetching", "failing"}

\* KeyedMutex: nobody else is inside the lock of this row's id.
CanEnter(c) == pc[c] = "waiting" /\ \A d \in Clients : pc[d] \notin Fetching

Mirrored == row # NULL /\ row.fresh /\ row.body # NULL

\* The row is gone, or cannot be read: 404 in either case.
EnterMissing(c) ==
    /\ CanEnter(c)
    /\ Answer(c, "notfound")
    /\ known' = IF row = NULL THEN known ELSE known \ {c}
    /\ UNCHANGED <<row, upstream, edits>>

EnterAndServe(c) ==
    /\ CanEnter(c)
    /\ Mirrored
    /\ Answer(c, "body")
    /\ UNCHANGED <<row, upstream, edits, known>>

\* Mutant: the body to fall back to is not kept.
EnterAndFetchUnloaded(c) ==
    /\ CanEnter(c)
    /\ row # NULL /\ ~Mirrored
    /\ Goto(c, "fetching")
    /\ UNCHANGED <<row, upstream, locals, reply, edits, known>>

EnterAndFetch(c) ==
    /\ CanEnter(c)
    /\ row # NULL /\ ~Mirrored
    /\ Goto(c, "fetching")
    /\ kept' = [kept EXCEPT ![c] = row.body]
    /\ UNCHANGED <<row, upstream, url, got, reply, edits, known>>

\* What is fetched is the URL of the first look-up.
FetchOk(c) ==
    /\ pc[c] = "fetching"
    /\ Goto(c, "persisting")
    /\ got' = [got EXCEPT ![c] = [url |-> url[c], ver |-> upstream]]
    /\ UNCHANGED <<row, upstream, url, kept, reply, edits, known>>

FetchFail(c) ==
    /\ pc[c] = "fetching"
    /\ Goto(c, "failing")
    /\ UNCHANGED <<row, upstream, locals, reply, edits, known>>

\* Mutant: INSERT OR REPLACE of the row the handler has seen.
PersistUpsert(c) ==
    /\ pc[c] = "persisting"
    /\ row' = [url |-> url[c], hosted |-> TRUE, body |-> got[c], fresh |-> TRUE]
    /\ Answer(c, "body")
    /\ UNCHANGED <<upstream, edits, known>>

\* Mutant: the body is stored with the age of the one it replaces.
PersistUndated(c) ==
    /\ pc[c] = "persisting"
    /\ row' = IF row = NULL \/ row.body # NULL THEN row
              ELSE [row EXCEPT !.body = got[c], !.fresh = TRUE]
    /\ Answer(c, "body")
    /\ UNCHANGED <<upstream, edits, known>>

\* persist_remote_cache: an UPDATE by id, whatever the row has become.
Persist(c) ==
    /\ pc[c] = "persisting"
    /\ row' = IF row = NULL THEN row ELSE [row EXCEPT !.body = got[c], !.fresh = TRUE]
    /\ Answer(c, "body")
    /\ UNCHANGED <<upstream, edits, known>>

\* Its error is ignored.
PersistFail(c) ==
    /\ pc[c] = "persisting"
    /\ Answer(c, "body")
    /\ UNCHANGED <<row, upstream, edits, known>>

\* Mutant: a failed fetch clears the mirror, as an update does.
FallBackClearing(c) ==
    /\ pc[c] = "failing"
    /\ Answer(c, IF kept[c] = NULL THEN "refused" ELSE "stale")
    /\ row' = IF row = NULL THEN row ELSE [row EXCEPT !.body = NULL, !.fresh = FALSE]
    /\ UNCHANGED <<upstream, edits, known>>

\* The status of the failure is stored (nobody here reads it), and the body
\* read inside the lock is served however old it is.
FallBack(c) ==
    /\ pc[c] = "failing"
    /\ Answer(c, IF kept[c] = NULL THEN "refused" ELSE "stale")
    /\ UNCHANGED <<row, upstream, edits, known>>

-----------------------------------------------------------------------------
\* update reads the row for its URL, ...
UpdateLoad(a) ==
    /\ pc[a] = "idle"
    /\ edits < MaxEdits
    /\ row # NULL
    /\ Goto(a, "updating")
    /\ url' = [url EXCEPT ![a] = row.url]
    /\ edits' = edits + 1
    /\ UNCHANGED <<row, upstream, kept, got, reply, known>>

\* rulelib::normalize: a manual rule-set has no URL; a remote one has that of
\* the request, or the one loaded when the request gives none.
Definitions(a) ==
    {[url |-> NULL, hosted |-> FALSE, body |-> NULL, fresh |-> FALSE]}
        \cup [url : Urls \cup ({url[a]} \ {NULL}), hosted : BOOLEAN,
              body : {NULL}, fresh : {FALSE}]

\* ... and writes all of the definition; the mirror is cleared in any case.
UpdateWrite(a) ==
    /\ pc[a] = "updating"
    /\ IF row = NULL THEN row' = row ELSE row' \in Definitions(a)
    /\ Forget(a)
    /\ known' = {}
    /\ UNCHANGED <<upstream, reply, edits>>

Delete(a) ==
    /\ pc[a] = "idle"
    /\ edits < MaxEdits
    /\ row # NULL
    /\ row' = NULL
    /\ edits' = edits + 1
    /\ known' = {}
    /\ UNCHANGED <<upstream, pc, locals, reply>>

-----------------------------------------------------------------------------
UpstreamChanges ==
    /\ upstream < MaxVer
    /\ upstream' = upstream + 1
    /\ UNCHANGED <<row, pc, locals, reply, edits, known>>

\* interval_hours have passed since cached_at.
Expire ==
    /\ row # NULL /\ row.fresh
    /\ row' = [row EXCEPT !.fresh = FALSE]
    /\ UNCHANGED <<upstream, pc, locals, reply, edits, known>>

\* The handler is dropped at the await it is suspended on; its guard with it.
Cancel(t) ==
    /\ pc[t] # "idle"
    /\ Forget(t)
    /\ UNCHANGED <<row, upstream, reply, edits, known>>

Enter(c) == EnterAndServe(c) \/ EnterAndFetch(c)
                \/ (row = NULL /\ EnterMissing(c))
Serve(c) == LookUp(c) \/ LookUpMissing(c) \/ Enter(c) \/ FetchOk(c) \/ Persist(c)
Edit(a) == UpdateLoad(a) \/ UpdateWrite(a) \/ Delete(a)
Failure(c) == FetchFail(c) \/ PersistFail(c) \/ FallBack(c) \/ EnterMissing(c)

CalmNext == \/ \E c \in Clients : Serve(c)
            \/ \E a \in Admins : Edit(a)
            \/ UpstreamChanges
            \/ Expire

Next == \/ CalmNext
        \/ \E c \in Clients : Failure(c)
        \/ \E t \in Tasks : Cancel(t)

Spec == Init /\ [][Next]_vars

\* Handlers are scheduled and the lock is fair; clients keep polling, the
\* interval elapses, and no await of a download is the one that always fails.
PollingSpec ==
    /\ Spec
    /\ \A c \in Clients : /\ WF_vars(LookUp(c))
                          /\ SF_vars(Enter(c))
                          /\ WF_vars(FetchOk(c) \/ FetchFail(c))
                          /\ WF_vars(Persist(c) \/ FallBack(c))
                          /\ SF_vars(FetchOk(c))
                          /\ SF_vars(Persist(c))
    /\ \A a \in Admins : WF_vars(UpdateWrite(a))
    /\ WF_vars(Expire)

-----------------------------------------------------------------------------
(***************************************************************************)
(* Properties.                                                             *)
(***************************************************************************)

\* One download of a rule-set is inside the lock at a time.
Exclusive == \A c, d \in Clients : pc[c] \in Fetching /\ pc[d] \in Fetching => c = d

\* A hosted row has a URL to mirror, and a fresh one has a body.
RowOK == row # NULL => (row.hosted => row.url # NULL) /\ (row.fresh => row.body # NULL)

\* A handler that fetches has a URL; what is fetched or stored exists upstream;
\* who fetches found no fresh body, and nobody has stored a newer one since;
\* who found a body at its look-up still has one to fall back to.
HandlersOK ==
    /\ \A c \in Clients :
          /\ pc[c] # "updating"
          /\ pc[c] \in Fetching \cup {"waiting"} => url[c] # NULL
          /\ pc[c] \in Fetching /\ row # NULL => ~row.fresh
          /\ pc[c] = "persisting" => got[c] # NULL /\ got[c].ver <= upstream
          /\ pc[c] = "persisting" /\ row # NULL /\ row.body # NULL
                => got[c].ver >= row.body.ver
          /\ c \in known =>
                /\ row # NULL /\ row.body # NULL
                /\ pc[c] \in Fetching => kept[c] # NULL
    /\ \A a \in Admins : pc[a] \in {"idle", "updating"}
    /\ row # NULL /\ row.body # NULL => row.body.ver <= upstream

\* architecture.md:241: 503 only answers the first pull, when there is no
\* mirrored body.  A client that found a body at its look-up is not answered
\* 503 however many fetches fail meanwhile, unless an edit cleared the body.
RefusedOnlyUnmirrored == \A c \in Clients : reply[c] = "refused" => c \notin known

Inv == TypeOK /\ Exclusive /\ RowOK /\ HandlersOK /\ RefusedOnlyUnmirrored

\* Single-flight: a body that is still fresh is not replaced by another one,
\* so downloads store at most one per interval however they overlap.
KeptWhileFresh ==
    [][row # NULL /\ row' # NULL /\ row.body # row'.body
          => ~row.fresh \/ row'.body = NULL]_vars

\* A mirror does not go back to an older version of the same document.
MirrorNeverOlder ==
    [][row # NULL /\ row' # NULL /\ row.body # NULL /\ row'.body # NULL
          /\ row.body.url = row'.body.url => row'.body.ver >= row.body.ver]_vars

\* A deleted rule-set is not brought back by a download still in flight.
DeletedStaysDeleted == [][row = NULL => row' = NULL]_vars

\* profile_rule_sets.rs:171: any update clears the mirror cache, and the next
\* pull goes back to the upstream: what is mirrored is of the URL of the row.
MirrorOfUrl == row # NULL /\ row.body # NULL => row.body.url = row.url

\* What a download that overlapped an update has stored is replaced in the
\* end: with clients polling, a hosted row comes to hold its own URL's body
\* and keeps it.
MirrorHeals == <>[](Hosted => row.body # NULL /\ MirrorOfUrl)
=============================================================================
