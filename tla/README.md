# TLA+ models of the Mihomo subscription panel

The server (`src/src/`, Rust, axum + sqlx/SQLite, one process) turns an airport
provider's subscription into a Mihomo configuration: it fetches the provider's
YAML, merges it with the admin's nodes, groups, rules and rule-sets, keeps the
result per profile, and hands it out under a public link. This directory holds
TLA+ modules of its stateful parts, TLC runs over small instances, and TLAPS
proofs for instances of any size. The modules follow the code, not the docs;
where a run shows that a comment or a doc says something else, `PROJECT.json`
lists it under `findings`.

## The system

| part (source) | state | operations | talks to |
|---|---|---|---|
| keyed lock (`keyed_lock.rs`) | map key -> `Arc<Mutex>` | `run` (lock_for, lock, release) | used by the two caches below |
| subscription cache (`generate.rs`) | row of `generated_cache`, `profiles.last_fetch_*` | `public_sub`, `generate`, `resync_cache` | keyed lock, fetcher, converter |
| profile edits (`profiles.rs`) | `profiles`, `rulesets`, groups | CRUD, `put_rules`, orders, `reset_token`, import of groups | end in `resync_cache` |
| converter (`converter.rs`) | none | `convert`, `reorder_by_name`, `concat_sections`, `ruleset_refs` | called by generate and resync |
| global nodes (`global_nodes.rs`) | `global_nodes` with positions | CRUD, `set_order` | `set_order` resyncs every profile |
| rule-set mirror (`profile_rule_sets.rs`, `rulelib.rs`) | rows with `cached_body`, `cached_at` | `public_serve`, CRUD, `import` | keyed lock, fetcher |
| rule-set library (`rule_sets.rs`) | `rule_sets` | CRUD, `set_order` | source of `import` |
| admin access (`auth.rs`, `rate_limit.rs`) | session map, token buckets, both in memory | login, logout, `require_session`, `try_acquire` | in front of every admin call; the limiter also in front of downloads |
| public gate (`app.rs`, `settings.rs`, `db.rs`) | path prefix, in memory and in the database | `public_gate`, `reset_public_path` | in front of every download |
| fetcher (`fetch.rs`, `ssrf.rs`) | none | `fetch_subscription`, `fetch_bytes` with redirects, address checks, limits | the providers |
| the rest (`net.rs`, `yaml.rs`, `mask.rs`, `error.rs`, `util.rs`, `main.rs`, `web/`) | none | pure functions, start-up, UI | |

What is hard: handlers are futures that interleave at every `await` and are
dropped at any of them when the client goes away; the database is read, awaited
and written in separate statements without transactions; downloads take the
keyed lock, admin calls do not; a fetch fails or takes long while others wait
for the lock; limits and expiries meet exact boundaries; everything in memory
is gone after a restart. `PROJECT.json` lists these as `hazards`, each with the
properties that watch it or the reason why none does.

What makes each part correct: * keyed lock: one future per key; the table entry
is never dropped under a user; a dropped caller blocks nobody; entries go away.
* subscription cache: one fetch for all who wait; a download that can read a
row is never refused; the row does not go back; edits reach the row, at once or
at least in the end. * mirror: the same for rule-sets, and a mirror belongs to
the row's URL. * admin access: the limiter is a token bucket in spite of lazy
refill and purge; only live sessions let a call in; the session map is swept. *
links and profiles: a revoked link stays dead, who is let in had a live link,
edits are not lost, the links inside an output come to work. * import: rules
refer to what is defined and to nothing twice, a copy replaces nothing, an
import that was cut off can be sent again. * output: references resolve, a
resync only permutes, the provider's block stays together, edits of nodes,
groups and rules reach the output. * fetcher: every hop is checked and
connected to what was checked; time and size are bounded.

## The modules

| module | models | role |
|---|---|---|
| `KeyedMutex` | what `KeyedLock::run` promises | abstract specification |
| `KeyedLock` | `keyed_lock.rs` | detailed; implements `KeyedMutex` |
| `SubscriptionCache` | `generate.rs`, the edits of `profiles.rs` that resync | component |
| `RuleSetMirror` | `serve_remote`, update and delete of `profile_rule_sets.rs` | component |
| `TokenBucket` | what a rate limiter promises | abstract specification |
| `RateLimiter` | `rate_limit.rs` | detailed; implements `TokenBucket` |
| `AdminAccess` | `auth.rs` behind the login limiter | composes sessions with `RateLimiter` |
| `PublicLinks` | `public_gate` (`app.rs`), `settings.rs`, the prefix of `db.rs`, create, update, delete and `reset_token` of `profiles.rs` | component |
| `RuleSetImport` | `import`, create, update, delete of `profile_rule_sets.rs`, the same of `rule_sets.rs`, `normalize` of `rulelib.rs`, `put_rules` | component |
| `Listing` | filters and stable sorts of lists | operators |
| `Converter` | `converter.rs` | operators |
| `ProfileOutput` | `global_nodes.rs`, groups and orders of `profiles.rs`, `convert` and `resync_cache` of `generate.rs` | component over `Converter` |
| `Fetch` | `fetch.rs`, `ssrf.rs` | component |
| `MC*` | | instances for TLC; `CalmSpec` there leaves out failures |
| `*Proofs` | | theorems, checked by `tlapm` |

**KeyedLock.** `table` is the map, `mem` and the callers' local `lock` count the
strong references, a mutex has an owner and a FIFO queue as tokio's. One action
per step between two awaits or two table locks: `LockFor`, `Lock`/`Enqueue`,
`Wake`, `DropGuard`, `Release`, `Return` (the local reference dies only here),
and `Cancel`, the drop of the future at any of them. Addresses are reused once
free, so a second mutex for a key in use would be seen.

**SubscriptionCache.** One profile. `pc` says which await a handler is
suspended on; a database call, the fetch and the wait for the lock are one step
each. `serve_or_refresh` is `Arrive`, then `EnterAndServe`, `EnterAndFetch` or,
when the read of the row fails and is taken for no row, `EnterUnread`, then the
shared sequence `FetchOk`, `RecordSuccess`, `ReadRules`, `Build`, `Persist`,
`Snapshot`, and on any failure `RecordFailure` and `FallBack`. The admin's
`Generate` runs the same sequence outside the lock; `PutRules`, `SetGroupOrder`
write and run `ResyncLoad`..`ResyncWrite`; `SetSource` only writes. An output
is known by its source and version, its rules, its rule-providers and the order
of its groups. Time is relational: a row is fresh until `Expire`, and `since`
holds the waiting clients that had arrived before it was generated. `CanEnter`
takes from the keyed lock what `KeyedLock` shows of it, one holder per key. The
history variables `joined` (waited while a row was stored that was generated
since) and `known` (arrived when there was a row) lose who failed to read the
row. `last_fetch_status`, only shown to the admin, is left out.

**RuleSetMirror.** One row. `LookUp` notes the URL before the lock is waited
for, `EnterMissing/EnterAndServe/EnterAndFetch` read the row again inside it,
`Persist` updates by id, `FallBack` serves the body read inside the lock. The
admin's update is two statements, `UpdateLoad` and `UpdateWrite`; `Delete` one.

**RateLimiter, AdminAccess.** Tokens are counted in `Window`-ths, so a tick
refills `Capacity` of them and the arithmetic is exact (the code uses `f64`). A
bucket is refilled when it is hit, and dropped by the purge; `Level` is what it
would hold now and maps to `TokenBucket!level`. `Watch` lets an observer count
the hits of any key from any time. A login is limited when it arrives
(`LoginArrive`) and verified later; a logout is let in first and removes its
session later.

**PublicLinks.** A link is a prefix and a token; both are random and never drawn
twice, so they are numbered as drawn. `Ask` is the gate's comparison of the
prefix, `LetIn` (used by `Admit` and `OpenRuleSet`) its lookup of the token one
await later, `Refuse` the 404. A download then waits for its profile's lock,
serves the row or refreshes it with the token it loaded (`Convert`, `Persist`).
`Update` reads the row and `UpdateWrite` writes all of its fields; `ResetPath`
stores the prefix and `SetPrefix` publishes it; `Restart` empties the memory and
reads the stored prefix. `Drop` ends a handler at any await. History variables:
`dead` are links that worked once and stopped, `saved` what the admin gave last,
`wasLive` whether the link was live on arrival; `tangled` and `raced` record
that two resets, or two updates of one profile, overlapped.

**RuleSetImport.** A rules text is the sequence of the names its lines refer to,
a definition its source and URL. `import` is `Import` (normalising the names),
per name `CheckOwn`, `ReadLibrary`, `Insert`, then `ReadRules` and `WriteRules`,
each an await with every other call in between; `Abort` is a dropped handler or
a database error at any of them. The edits are one action each, the library's
update two (`LibUpdate` reads, `LibUpdateWrite` writes). A URL that an update
leaves out is the stored one.

**Listing.** `Arrange` lists chosen places of a sequence or function in a
strict order, by counting how many come before each; `Pick` is a filter. Both
the import's lists and the output are built from them instead of by recursion
or folds, which the provers cannot unfold.

**Converter, ProfileOutput.** A proxy or group of an output is its name and the
row it came from, since the two can differ (a node's name is in its content, a
group's options may replace its name). `Convert` is validation, blocks, order
and rules. `Generation` reads rules, nodes, groups and orders in four steps and
stores and snapshots; `Resync` is the queries of `resync_cache` in their order,
then `Resynced`, which partitions the proxies by today's names of the nodes and
reorders. Edits of nodes, groups, rules and both orders, and the import of the
provider's groups row by row, run beside them. Freshness is left to
`SubscriptionCache`: here a generation may start at any time.

**Fetch.** One fetch of any URL: a profile's was checked when it was stored, a
rule-set's only for its prefix (`rulelib.rs:94`), so the first hop may meet
whatever a redirect may, or a URL that does not parse. `Validate`, `Resolve`,
`Connect`, then `Redirect` (back to `Validate`), `Reject` or `Accept`, and
`Chunk`s until `Finish`. Every lookup may answer anything of `Answers`, so a
name changes its address between two hops. `Tick` counts the time of one
request (`used`) and of all (`time`); names are resolved before the timer of
the request runs, as in the code. The shorter timer of the connection
(`connect_timeout`) is left out: it ends some fetches earlier.

## The runs

| run | instance | shows |
|---|---|---|
| `KeyedLock` | 3 callers, 2 keys, 4 addresses, `FairSpec` (62 000 states) | mutual exclusion, no entry leaves in use, no orphaned permit, refinement of `KeyedMutex`, every caller served |
| `SubDownloads` | 2 clients, 2 document changes, all failures (47 000 states) | single-flight, nobody refused who could read a row, never older, every download ends |
| `SubEdits` | 1 polling client, 1 admin with 2 calls, 2 sources, 2 orders, all failures (130 000 states) | inductive invariant; the row heals |
| `SubDrag` (violation) | refresh over `set_group_order` | a saved order is overwritten by a snapshot |
| `SubResync` (violation) | one admin, one call after the other | a resync is not what generating again gives |
| `Mirror` | 2 clients, 1 admin with 2 edits, 2 URLs, all failures (30 000 states) | one store per interval, never older, no 503 for who found a body, no return after delete, heals |
| `MirrorUpdate` (violation) | one download, one update | old URL's body stored under the new URL |
| `AdminAccess` | 2 IPs, burst 2 per 2 ticks, purge from the 2nd bucket, 2 sessions, 3 ticks (380 000 states) | refinement of `TokenBucket`, bound on grants, only live sessions, swept map |
| `PublicLinks` | 1 polling client, 2 admins with 3 calls, 1 profile id, 2 tokens, 3 prefixes, 1 fault or restart (220 000 states) | who is let in, revoked links stay dead, saved fields stay, links in outputs heal |
| `Import` | 2 admins importing 2 names (with a blank and a repeat), 2 other calls, 1 fault (150 000 states) | rules refer once and to what is defined, nothing is replaced, a retry completes |
| `ProfileOutput` | 2 admins with 2 calls, 2 nodes, 3 group bodies (one with an alias), 2 documents, 1 fault or change (650 000 states) | references resolve, blocks kept, a resync permutes, the output heals |
| `Fetch` | 4 addresses (one inside another's IPv6 form), 2 domains, refused URLs, 3 redirects, 2 ticks, 2 bytes | connects to what was checked from the first hop on, bounded, ends |

The violation runs use `CalmSpec` (no failure, no dropped handler), so what
they find needs interleaving only; `SubResync` needs not even that.

**Bounds.** Two downloads are enough for every pair that can meet at the lock
(one inside, one waiting), the third caller of `KeyedLock` is for the one that
arrives between release and return. Two values of each kind of data tell old
from new; two edits let one undo or overtake another, two admins let them interleave
inside a handler, and a fault (`MaxFaults`, `MaxUpsets`) is added to each such
pair; three calls in `PublicLinks` are a create, something, and a reset. `MaxVer` counts changes
of the provider's document, `MaxAdminOps`/`MaxEdits` admin calls, `MaxTime`
ticks; each is a guard of the one action that counts. Three ticks exceed the window
(2) and the sessions' idle limit (1). The proofs need none of these bounds.

**Fairness.** `KeyedLock!FairSpec`: tokio polls woken tasks, handlers finish,
and a queue is served in order; a caller may be dropped but need not.
`SubscriptionCache!Scheduling`: a download that can go on does, and strong
fairness for entering the lock is what `EveryCallerServed` shows of it; nothing
is asked of the admin's handlers. `Polling`, only for the healing
properties: clients poll, the interval elapses, and each await of a refresh
succeeds now and then (strong fairness), since a provider that always fails
heals nothing. The admin is never required to act.
`PublicLinks` assumes the same of pollers and of a handler that is not
dropped. `ProfileOutput` assumes only that downloads go on: `OutputHeals` holds
even if a handler of the admin API stops for ever at any of its steps, because
the next generation repairs what it left. `RuleSetImport`: whoever wants a list keeps asking for it
(only for `RetryCompletes`). `Fetch`: its own steps go on and the clock runs;
nothing is assumed of a server, and of a lookup only that it returns.

`CHECK_DEADLOCK FALSE` is set in `SubResync`, where there are no clients and
the admin's calls are used up, and in `PublicLinks`, where nobody has a link
to ask for while no profile was ever created and the calls are used up.

## Where code and documents part

Three runs expect a violation, each of a sentence of the code or the docs:
`SubDrag`, `SubResync` and `MirrorUpdate`. Six more such places are not runs
of their own, because a property that holds says what the code does instead, or
what becomes of it; they are hazards in `PROJECT.json`:

* two callers that overlap in `release` (`keyed_lock.rs:48`) both count three
  references, and the entry stays until its key is used again alone;
* a resync that read the row before a refresh stored a newer one writes the
  older document back under the newer `generated_at` (`generate.rs:589`);
* a refresh that read the rules before an edit stores its output after the
  edit's resync (`generate.rs:292`), so "at once" holds only in the end;
* rules with a policy that does not exist are served after their resync and
  refused by the next generation (`profiles.rs:409`);
* `architecture.md:224` and `:600` answer 503 only without a cache, and `:595`
  merges concurrent refreshes into one fetch. A failed read of the row counts as
  no row (`generate.rs:196`, `.ok().flatten()`): then a failing fetch is
  answered 503 although a copy is stored, and who waited fetches again.
  `RefusedOnlyUnread` and `SingleFetch` claim no more than that, each for the
  clients that could read the row;
* `fetch.rs:102` and `architecture.md:558` call the timeout the total of a whole
  request. Every redirect starts it again (`fetch.rs:145`), so a fetch may
  take four of them; `TimeBounded` is the bound that holds.

`EventuallyCurrent` and `OutputHeals` show that the second to fourth heal.

Some properties excuse the very race that a hazard names, since the code allows
it, and say that nothing else has the same effect: `RevokedStaysDead` two
overlapping resets (`tangled`), `SavedStays` two overlapping updates (`raced`),
`AskedStaysReferenced` a text saved over the import's, `BlocksKept` nodes
renamed or deleted since the generation (`strayed`). The hazards' notes say so.

## The proofs

All theorems hold for any set of callers, keys, clients, URLs, IPs, and all
bounds, under the named `ASSUME`s of the modules (tasks disjoint, `NULL`
distinct from data, positive capacity and window).

* `KeyedLockProofs`: `Inv` is inductive. Its heart is that a caller between
  `lock_for` and `release` holds the mutex the table gives out: the count the
  last holder compares with includes every such caller, so the entry cannot go.
  No orphaned permit, mutual exclusion, no early removal, and the refinement of `KeyedMutex` follow.
* `SubscriptionCacheProofs`: `Inv` (one download inside, drafts exist where
  they are written, the row once there stays, a client that arrived when there
  was a row and could read it has loaded one) is inductive, and
  `RefusedOnlyUnread` is part of it. For downloads without admin calls (`Admins
  = {}`: an admin's generate takes no lock and may overtake) `Merged`, that a
  row stored or about to be was generated after the arrival of everyone who has
  waited through an earlier one, gives `SingleFetch`, and `Aged`, that the
  stored document, the one being built and the provider's are in that order,
  gives `CacheNeverOlder`.
* `RuleSetMirrorProofs`: `Inv` adds that who fetches found no fresh body and
  that what is fetched is no older than what is stored; the three action
  properties follow from it and from `BodyChanges` (only `Persist` replaces a
  body).
* `AdminAccessProofs`: first the limiter. `PurgedHeld` is the point: an idle
  window's refill is at least the capacity, so a purged bucket held a full
  one's level, and a hit finds exactly `Level`. Refinement and the accounting
  `granted * Token + Level <= Full + elapsed * Capacity` follow. Then the
  composition: every step is a limiter step or leaves it alone, so both results
  carry over; `Inv` ties `last_seen` to the last use, and gives `LetInAlive`
  and `GrowsSwept`.
* `PublicLinksProofs`: the three properties are conjuncts of `Inv` or follow
  from it. `Tokened`: a token that was issued never gains an owner. `Prefixed`:
  the stored prefix is the last one drawn, the one in memory never above it;
  unless resets tangled, a reset under way is about to publish the last one,
  so the memory never goes back. `Buried`: so whatever is
  dead has a prefix that is below, or a token without an owner. `Gated`: a
  request that may still be let in was live when the gate compared prefixes.
  `Edited`: a pending update that is alone with its profile holds today's
  values of the fields it was not given.
* `RuleSetImportProofs`: every definition is whole (`Stored`: also those read
  by an import and not yet inserted, and the URL an update carries), hence no
  remote without a URL; `OwnKept` is proved step by step from it. `Lists` says
  that an import holds each name once and none is left when it comes to the
  rules. `Once` says of the rules, and of every copy of them an import still
  holds, that what was added to a saved text refers to no name twice: an import
  that writes over another's lines writes such a copy, so `Inv` survives the
  lost update. `Defined` says the same of definitions: every name of the rules,
  of a copy, or behind an import in its loop has one or a reason to have none.
  The list lemmas (`Ranks`, `Arranged`, `Kept`, `Picked`) are that `Pick` keeps
  the entries, their order and their number.
* `ProfileOutputProofs`: the same list lemmas, and that a reordering is a
  permutation (`Reordered`, `Joined`, `SameCounts`): what a resync writes has the
  entries it read, each as often (`ResyncKeepsEntries`); `reorder_by_name` is a
  stable sort (`ReorderByNameSorts`). `Typed` is `Stored` (tables, unique
  names), `Held` (what a handler's place says of what it has read: a list of
  groups while it imports, names while it reorders, an output while it resyncs)
  and `Counted`. `OutputsMove` reduces every step to three: an output is
  converted, stored, or resynced. `AllClosed` then carries closed references
  over them, for the row and for the outputs that handlers hold: a check at
  conversion lasts because a resync keeps names. `Blocks` does the same for the
  provider's block (`BlocksKept`): a resync tells the two parts apart by the
  names of the nodes it has read, which must cover the custom proxies of the
  output it holds (`Covers`) and none of the provider's (`Apart`); both hold
  only until a node is renamed, deleted or takes a proxy's name, which is
  `strayed`. `ConvertedIsSettled` is the part of `OutputHeals` that is no
  liveness: an output converted from the tables as they are agrees with them.
* `FetchProofs`: `Inv` is inductive, from any stored URL: `Stages` knows of a
  connection that its URL passed `validate_url` on this hop; `PinnedConnect` is
  that a client built for a host and an address, or reused for the same pair,
  connects there, and `Stretch` the arithmetic of the hops.

Only model-checked: the liveness properties (`EveryCallerServed`,
`DownloadsEnd`, `EventuallyCurrent`, `MirrorHeals`, `OutputLinksHeal`,
`RetryCompletes`, `OutputHeals`, `FetchEnds`), which are out of the prover's
reach: they need fairness and `ENABLED`. Every safety property and action
property of a passing run is stated by a theorem.

## Not modelled

Text: YAML parsing and limits, the wording of errors, masking, headers. Pure
derivations: the client address. The display order of the rule-set library
(`set_order` of `rule_sets.rs`), which no output depends on. The web UI is a
client. SQLite's single statements are atomic here and durable; nothing keeps
half a statement. `f64` rounding of the limiter. Behavior, format and file
names of rule-sets. `preview` and `provider_rules` only read.

## What is left

The order of the modules was: locks and caches, admin access, then links,
import, output and fetcher. Left of it: an abstract layout (the multiset of
entries and two blocks) that both a generation and a resync implement; the
composition of `Fetch` with the cache, so that the time others wait for the
lock is bounded by a number.
