---------------------------- MODULE PublicLinks -----------------------------
(***************************************************************************)
(* The links that leave the panel: the gate of the public endpoints        *)
(* (app.rs), the reset of the public path (settings.rs), what a restart    *)
(* reads back (db.rs), the life of a profile (create, update, delete,      *)
(* reset_token of profiles.rs), and the rule-set links that generate.rs    *)
(* writes into the cached output.                                          *)
(*                                                                         *)
(* A link is a prefix and a token.  Both are random and never drawn twice, *)
(* so they are numbered in the order they are drawn.  The prefix is kept   *)
(* in the database and in memory; a token only in the database.  Of the    *)
(* cached output only the link of its hosted rule-sets is kept.  Whether a *)
(* row is fresh is left open here: SubscriptionCache decides that.         *)
(*                                                                         *)
(* A fault is a handler dropped at an await, a failed fetch or a restart.  *)
(***************************************************************************)
EXTENDS Naturals, FiniteSets

CONSTANTS Clients,      \* public downloads
          Admins,       \* handlers of the admin API
          Profiles,     \* ids that may be drawn
          Names, Urls,
          MaxPrefix,    \* bound: prefixes drawn after the first
          MaxToken,     \* bound: tokens drawn
          MaxAdminOps,  \* bound: admin calls
          MaxFaults,    \* bound: faults
          NULL

ASSUME TasksAssumption == Clients \cap Admins = {}
ASSUME LinkBoundsAssumption ==
    /\ MaxPrefix \in Nat /\ MaxToken \in Nat
    /\ MaxAdminOps \in Nat /\ MaxFaults \in Nat

Tasks == Clients \cup Admins
Prefixes == 0 .. MaxPrefix
Tokens == 1 .. MaxToken
Links == Prefixes \X Tokens

Profile == [name : Names, url : Urls, token : Tokens]
Core == [id : Profiles, token : Tokens]
Edit == [id : Profiles, name : Names, url : Urls, given : SUBSET {"name", "url"}]

ASSUME LinkNullAssumption ==
    NULL \notin Profile \cup Links \cup Core \cup Edit \cup Prefixes
                \cup Names \cup Urls \cup [name : Names, url : Urls]

VARIABLES prefixDb,   \* app_settings.public_path_prefix
          prefix,     \* AppState.public_path_prefix
          drawn,      \* prefixes 0 .. drawn were drawn
          issued,     \* tokens 1 .. issued were drawn
          profile,    \* the rows of profiles; NULL when there is none
          born,       \* ids that were drawn
          row,        \* generated_cache: the rule-set link in the output
          pc,
          link,       \* the link a client asked for
          prefixOk,   \* what the gate found when it compared prefixes
          core,       \* the ProfileCore a handler loaded
          draft,      \* the link in the output it built
          held,       \* the prefix a reset has stored and not yet published
          edit,       \* the row update is about to write
          adminOps, faults,
          wasLive,    \* history: the client's link was live when it arrived
          dead,       \* history: links that were live and are no longer
          tangled,    \* history: two resets of the public path overlapped
          saved,      \* history: the value last given for each field
          raced       \* history: profiles with overlapping updates

settings == <<prefixDb, prefix, drawn>>
tables == <<profile, born, issued, row>>
locals == <<link, prefixOk, core, draft, held, edit>>
bounds == <<adminOps, faults>>
edits == <<saved, raced>>
vars == <<settings, tables, pc, locals, bounds, wasLive, dead, tangled, edits>>

Gate == {"sub_gate", "rule_set_gate"}   \* public_sub and public_serve
Lbl == Gate \cup {"idle", "opening", "waiting", "loading", "fetching",
                   "persisting", "resetting", "updating"}

TypeOK ==
    /\ prefixDb \in Prefixes /\ prefix \in Prefixes /\ drawn \in Prefixes
    /\ issued \in 0 .. MaxToken
    /\ profile \in [Profiles -> Profile \cup {NULL}]
    /\ born \in SUBSET Profiles
    /\ row \in [Profiles -> Links \cup {NULL}]
    /\ pc \in [Tasks -> Lbl]
    /\ link \in [Clients -> Links \cup {NULL}]
    /\ prefixOk \in [Clients -> BOOLEAN]
    /\ core \in [Tasks -> Core \cup {NULL}]
    /\ draft \in [Tasks -> Links \cup {NULL}]
    /\ held \in [Admins -> Prefixes \cup {NULL}]
    /\ edit \in [Admins -> Edit \cup {NULL}]
    /\ adminOps \in 0 .. MaxAdminOps /\ faults \in 0 .. MaxFaults
    /\ wasLive \in [Clients -> BOOLEAN]
    /\ dead \in SUBSET Links
    /\ tangled \in BOOLEAN
    /\ saved \in [Profiles -> [name : Names, url : Urls] \cup {NULL}]
    /\ raced \in SUBSET Profiles

\* The first start: the prefix has been seeded and stored.
Init ==
    /\ prefixDb = 0 /\ prefix = 0 /\ drawn = 0 /\ issued = 0
    /\ profile = [i \in Profiles |-> NULL] /\ born = {}
    /\ row = [i \in Profiles |-> NULL]
    /\ pc = [t \in Tasks |-> "idle"]
    /\ link = [c \in Clients |-> NULL] /\ prefixOk = [c \in Clients |-> FALSE]
    /\ core = [t \in Tasks |-> NULL] /\ draft = [t \in Tasks |-> NULL]
    /\ held = [a \in Admins |-> NULL] /\ edit = [a \in Admins |-> NULL]
    /\ adminOps = 0 /\ faults = 0
    /\ wasLive = [c \in Clients |-> FALSE] /\ dead = {} /\ tangled = FALSE
    /\ saved = [i \in Profiles |-> NULL] /\ raced = {}

-----------------------------------------------------------------------------
Existing == {i \in Profiles : profile[i] # NULL}
Owner(k) == {i \in Existing : profile[i].token = k}

\* subscription_url and profile_rule_set_url: the prefix in memory, the token.
LinkOf(k) == <<prefix, k>>

\* A request for the link, taken alone, would be let in.
Live(l) == l[1] = prefix /\ Owner(l[2]) # {}
LiveLinks == {l \in Links : Live(l)}

\* Every step: the links that it takes away are dead.
Bury == dead' = dead \cup (LiveLinks \ LiveLinks')

Goto(t, l) == pc' = [pc EXCEPT ![t] = l]

\* The handler ends; its locals are gone.
Reset(f, t) == IF t \in DOMAIN f THEN [f EXCEPT ![t] = NULL] ELSE f
Leave(t) == /\ Goto(t, "idle")
            /\ link' = Reset(link, t) /\ core' = Reset(core, t)
            /\ draft' = Reset(draft, t) /\ edit' = Reset(edit, t)
            /\ held' = Reset(held, t)
            /\ prefixOk' = [c \in Clients |-> prefixOk[c] /\ c # t]
            /\ wasLive' = [c \in Clients |-> wasLive[c] /\ c # t]

\* UNIQUE (name) holds for a row of profile i.
NameFree(n, i) == \A j \in Existing \ {i} : profile[j].name # n

-----------------------------------------------------------------------------
(***************************************************************************)
(* The public endpoints.                                                   *)
(***************************************************************************)

\* public_gate compares the prefix and only then awaits the lookup.  A client
\* may ask for anything that was ever handed out.
Ask(c) ==
    /\ pc[c] = "idle"
    /\ \E g \in Gate : Goto(c, g)
    /\ \E l \in (0 .. drawn) \X (1 .. issued) :
          /\ link' = [link EXCEPT ![c] = l]
          /\ prefixOk' = [prefixOk EXCEPT ![c] = (l[1] = prefix)]
          /\ wasLive' = [wasLive EXCEPT ![c] = Live(l)]
    /\ UNCHANGED <<settings, tables, core, draft, held, edit, bounds, dead,
                   tangled, edits>>

\* Mutant: the prefix in the database is compared, not the one in memory.
LetInStored(c, i) == link[c][1] = prefixDb /\ i \in Owner(link[c][2])

\* public_gate: the lookup found a profile and the prefix was right.
LetIn(c, i) == prefixOk[c] /\ i \in Owner(link[c][2])

\* 404 for any of the reasons.
Refuse(c) ==
    /\ pc[c] \in Gate
    /\ ~\E i \in Profiles : LetIn(c, i)
    /\ Leave(c)
    /\ UNCHANGED <<settings, tables, bounds, dead, tangled, edits>>

\* public_sub waits for the lock of the profile with the core it loaded;
\* public_serve goes on to the rule-set.
Admit(c) ==
    /\ pc[c] \in Gate
    /\ \E i \in Profiles :
          /\ LetIn(c, i)
          /\ core' = [core EXCEPT ![c] = [id |-> i, token |-> link[c][2]]]
    /\ Goto(c, IF pc[c] = "sub_gate" THEN "waiting" ELSE "opening")
    /\ UNCHANGED <<settings, tables, link, prefixOk, draft, held, edit, bounds,
                   wasLive, dead, tangled, edits>>

\* fetch_serve_by_name: the rule-set is answered, or 404 if it went with its
\* profile; nothing of the model changes.
OpenRuleSet(c) ==
    /\ pc[c] = "opening"
    /\ Leave(c)
    /\ UNCHANGED <<settings, tables, bounds, dead, tangled, edits>>

\* keyed_lock.run(&profile.id): one download of a profile at a time.
CanEnter(c) ==
    /\ pc[c] = "waiting"
    /\ \A d \in Clients \ {c} :
          pc[d] \in {"fetching", "persisting"} => core[d].id # core[c].id

\* A row that is fresh enough is served as it is ...
ServeCached(c) ==
    /\ CanEnter(c)
    /\ row[core[c].id] # NULL
    /\ Leave(c)
    /\ UNCHANGED <<settings, tables, bounds, dead, tangled, edits>>

\* ... and otherwise the provider is asked.
Refresh(c) ==
    /\ CanEnter(c)
    /\ Goto(c, "fetching")
    /\ UNCHANGED <<settings, tables, locals, bounds, wasLive, dead, tangled, edits>>

\* convert writes the links with the prefix of now and the token of the core.
Convert(t) ==
    /\ pc[t] = "fetching"
    /\ Goto(t, "persisting")
    /\ draft' = [draft EXCEPT ![t] = LinkOf(core[t].token)]
    /\ UNCHANGED <<settings, tables, link, prefixOk, core, held, edit, bounds,
                   wasLive, dead, tangled, edits>>

\* The fetch or the conversion fails: a stale row, a 503 or an error, and no
\* change; create goes on without an output.
FetchFails(t) ==
    /\ pc[t] = "fetching"
    /\ faults < MaxFaults /\ faults' = faults + 1
    /\ Leave(t)
    /\ UNCHANGED <<settings, tables, adminOps, dead, tangled, edits>>

\* Mutants: no foreign key; the first output is kept.
PersistUnchecked(t) ==
    /\ pc[t] = "persisting"
    /\ row' = [row EXCEPT ![core[t].id] = draft[t]]
    /\ Leave(t)
    /\ UNCHANGED <<settings, profile, born, issued, bounds, dead,
                   tangled, edits>>
PersistFirst(t) ==
    /\ pc[t] = "persisting"
    /\ row' = IF core[t].id \in Existing /\ row[core[t].id] = NULL
              THEN [row EXCEPT ![core[t].id] = draft[t]] ELSE row
    /\ Leave(t)
    /\ UNCHANGED <<settings, profile, born, issued, bounds, dead,
                   tangled, edits>>

\* The upsert; the foreign key refuses it when the profile is gone, and the
\* output is answered from memory.
Persist(t) ==
    /\ pc[t] = "persisting"
    /\ row' = IF core[t].id \in Existing
              THEN [row EXCEPT ![core[t].id] = draft[t]] ELSE row
    /\ Leave(t)
    /\ UNCHANGED <<settings, profile, born, issued, bounds, dead,
                   tangled, edits>>

-----------------------------------------------------------------------------
(***************************************************************************)
(* The admin API.                                                          *)
(***************************************************************************)
Call(a) == /\ pc[a] = "idle"
           /\ adminOps < MaxAdminOps
           /\ adminOps' = adminOps + 1
           /\ UNCHANGED faults

\* create commits the profile and its empty ruleset, or fails on the name;
\* then it generates, best effort: it loads the profile again and goes on like
\* a download without the lock.
Create(a) ==
    /\ Call(a)
    /\ issued < MaxToken /\ issued' = issued + 1
    /\ \E i \in Profiles \ born, n \in Names, u \in Urls :
          /\ NameFree(n, i)
          /\ born' = born \cup {i}
          /\ profile' = [profile EXCEPT
                ![i] = [name |-> n, url |-> u, token |-> issued']]
          /\ saved' = [saved EXCEPT ![i] = [name |-> n, url |-> u]]
          /\ core' = [core EXCEPT ![a] = [id |-> i, token |-> issued']]
    /\ Goto(a, "loading")
    /\ UNCHANGED <<settings, row, link, prefixOk, draft, held, edit, wasLive,
                   dead, tangled, raced>>

Load(a) ==
    /\ pc[a] = "loading"
    /\ LET i == core[a].id
       IN IF i \in Existing
          THEN /\ core' = [core EXCEPT ![a].token = profile[i].token]
               /\ Goto(a, "fetching")
               /\ UNCHANGED <<link, prefixOk, draft, held, edit, wasLive>>
          ELSE Leave(a)
    /\ UNCHANGED <<settings, tables, bounds, dead, tangled, edits>>

\* POST generate.
Generate(a) ==
    /\ Call(a)
    /\ \E i \in Existing :
          core' = [core EXCEPT ![a] = [id |-> i, token |-> profile[i].token]]
    /\ Goto(a, "fetching")
    /\ UNCHANGED <<settings, tables, link, prefixOk, draft, held, edit, wasLive,
                   dead, tangled, edits>>

\* Mutant: unwrap_or_default.
GivenDefault(v, old) ==
    IF v # NULL THEN v ELSE IF old \in Names THEN CHOOSE n \in Names : TRUE ELSE old

Given(v, old) == IF v = NULL THEN old ELSE v

\* update reads the row and keeps its value for a field that is not given.
Update(a) ==
    /\ Call(a)
    /\ \E i \in Existing, n \in Names \cup {NULL}, u \in Urls \cup {NULL} :
          /\ edit' = [edit EXCEPT ![a] =
                [id |-> i, name |-> Given(n, profile[i].name),
                 url |-> Given(u, profile[i].url),
                 given |-> (IF n = NULL THEN {} ELSE {"name"})
                           \cup (IF u = NULL THEN {} ELSE {"url"})]]
          /\ raced' = IF \E b \in Admins : pc[b] = "updating" /\ edit[b].id = i
                      THEN raced \cup {i} ELSE raced
    /\ Goto(a, "updating")
    /\ UNCHANGED <<settings, tables, link, prefixOk, core, draft, held, wasLive,
                   dead, tangled, saved>>

UpdateApplies(a) == /\ edit[a].id \in Existing
                    /\ NameFree(edit[a].name, edit[a].id)

\* ... and writes both; a name that is taken by now, or a profile that is
\* gone, leaves the table alone.
UpdateWrite(a) ==
    /\ pc[a] = "updating"
    /\ LET e == edit[a]
           i == e.id
       IN IF UpdateApplies(a)
          THEN /\ profile' = [profile EXCEPT ![i].name = e.name, ![i].url = e.url]
               /\ saved' = [saved EXCEPT
                     ![i] = [name |-> IF "name" \in e.given THEN e.name ELSE @.name,
                             url |-> IF "url" \in e.given THEN e.url ELSE @.url]]
          ELSE UNCHANGED <<profile, saved>>
    /\ Leave(a)
    /\ UNCHANGED <<settings, born, issued, row, bounds, dead, tangled, raced>>

\* ON DELETE CASCADE takes the output along.
Delete(a) ==
    /\ Call(a)
    /\ \E i \in Existing :
          /\ profile' = [profile EXCEPT ![i] = NULL]
          /\ row' = [row EXCEPT ![i] = NULL]
          /\ saved' = [saved EXCEPT ![i] = NULL]
    /\ UNCHANGED <<settings, born, issued, pc, locals, wasLive, tangled, raced>>
    /\ Bury

\* reset_token: only the token of the row is written.
ResetToken(a) ==
    /\ Call(a)
    /\ issued < MaxToken /\ issued' = issued + 1
    /\ \E i \in Existing : profile' = [profile EXCEPT ![i].token = issued']
    /\ UNCHANGED <<settings, born, row, pc, locals, wasLive, tangled, edits>>
    /\ Bury

\* Mutant: the memory is set before the database is asked.
ResetMemoryFirst(a) ==
    /\ Call(a)
    /\ drawn < MaxPrefix /\ drawn' = drawn + 1
    /\ prefix' = drawn'
    /\ held' = [held EXCEPT ![a] = drawn']
    /\ tangled' = (tangled \/ \E b \in Admins : pc[b] = "resetting")
    /\ Goto(a, "resetting")
    /\ UNCHANGED <<prefixDb, tables, link, prefixOk, core, draft, edit, wasLive,
                   edits>>
    /\ Bury

\* reset_public_path stores a new prefix ...
ResetPath(a) ==
    /\ Call(a)
    /\ drawn < MaxPrefix /\ drawn' = drawn + 1
    /\ prefixDb' = drawn'
    /\ held' = [held EXCEPT ![a] = drawn']
    /\ tangled' = (tangled \/ \E b \in Admins : pc[b] = "resetting")
    /\ Goto(a, "resetting")
    /\ UNCHANGED <<prefix, tables, link, prefixOk, core, draft, edit, wasLive,
                   dead, edits>>

\* ... and set_prefix publishes it when the database has answered.
SetPrefix(a) ==
    /\ pc[a] = "resetting"
    /\ prefix' = held[a]
    /\ Leave(a)
    /\ UNCHANGED <<prefixDb, drawn, tables, bounds, tangled, edits>>
    /\ Bury

-----------------------------------------------------------------------------
\* The caller hangs up and the handler is dropped at its await.
Drop(t) ==
    /\ pc[t] # "idle"
    /\ faults < MaxFaults /\ faults' = faults + 1
    /\ Leave(t)
    /\ UNCHANGED <<settings, tables, adminOps, dead, tangled, edits>>

\* The process stops and starts again: ensure_public_path_prefix returns the
\* prefix that was stored.
Restart ==
    /\ faults < MaxFaults /\ faults' = faults + 1
    /\ prefix' = prefixDb
    /\ pc' = [t \in Tasks |-> "idle"]
    /\ link' = [c \in Clients |-> NULL]
    /\ core' = [t \in Tasks |-> NULL] /\ draft' = [t \in Tasks |-> NULL]
    /\ edit' = [a \in Admins |-> NULL] /\ held' = [a \in Admins |-> NULL]
    /\ prefixOk' = [c \in Clients |-> FALSE]
    /\ wasLive' = [c \in Clients |-> FALSE]
    /\ UNCHANGED <<prefixDb, drawn, tables, adminOps, tangled, edits>>
    /\ Bury

Next ==
    \/ \E c \in Clients : \/ Ask(c) \/ Refuse(c) \/ Admit(c) \/ OpenRuleSet(c)
                          \/ ServeCached(c) \/ Refresh(c)
    \/ \E t \in Tasks : Convert(t) \/ FetchFails(t) \/ Persist(t) \/ Drop(t)
    \/ \E a \in Admins : \/ Create(a) \/ Load(a) \/ Generate(a) \/ Update(a) \/ UpdateWrite(a)
                         \/ Delete(a) \/ ResetToken(a) \/ ResetPath(a) \/ SetPrefix(a)
    \/ Restart

\* A subscriber of profile i polls the link of now, and its row is old enough.
AskLive(c, i) == /\ Ask(c)
                 /\ profile[i] # NULL
                 /\ link'[c] = LinkOf(profile[i].token)
                 /\ pc'[c] = "sub_gate"
RefreshOf(c, i) == Refresh(c) /\ core[c].id = i

\* A handler that is not dropped goes on when its await is answered; the
\* lock is fair (KeyedLock).  Subscribers keep polling the link that works,
\* for the subscription as well as its rule-sets, and a row that is older
\* than the minimum interval is not served without a refresh.
Fairness ==
    /\ \A c \in Clients : WF_vars(Refuse(c) \/ Admit(c) \/ OpenRuleSet(c))
    /\ \A c \in Clients, i \in Profiles : /\ SF_vars(AskLive(c, i))
                                          /\ SF_vars(RefreshOf(c, i))
    /\ \A t \in Tasks : WF_vars(Convert(t) \/ Persist(t))
    /\ \A a \in Admins : WF_vars(Load(a) \/ UpdateWrite(a) \/ SetPrefix(a))

Spec == Init /\ [][Next]_vars /\ Fairness

-----------------------------------------------------------------------------
(***************************************************************************)
(* Properties.                                                             *)
(***************************************************************************)

\* The gate reads the prefix before it waits for the database, so nothing it
\* compares is of one moment.  Still a request is let in only if its link was
\* live when it arrived: a token that was replaced or deleted never returns.
LetInWasLive ==
    \A c \in Clients :
        pc[c] \in {"waiting", "opening", "fetching", "persisting"} => wasLive[c]

\* A link that stopped working never works again, across resets, renames,
\* deletions, dropped handlers and restarts, unless two resets of the public
\* path overlapped (their writes to the database and to the memory may then
\* end in different orders, and a restart brings a revoked prefix back).
RevokedStaysDead == tangled \/ dead \cap LiveLinks = {}

\* generated_cache and profiles agree: an output that was being built when
\* its profile was deleted is not stored after it.
NoOrphanRow == \A i \in Profiles : row[i] # NULL => profile[i] # NULL

\* What an admin saved for a field stays until another value is given for
\* it, whatever other calls write in between, unless two updates of the
\* profile overlapped (each writes back what it read of the other's field).
SavedStays ==
    \A i \in Existing \ raced :
        profile[i].name = saved[i].name /\ profile[i].url = saved[i].url

\* What makes these inductive.  Tokens: an owner is unique, and a token that
\* was issued never gains one.
Tokened ==
    /\ Existing \subseteq born
    /\ \A i \in Existing : profile[i].token <= issued
    /\ \A i, j \in Existing : profile[i].token = profile[j].token => i = j

\* Prefixes: the database has the last one that was drawn, and so has the
\* only reset under way unless resets overlapped.
Prefixed ==
    /\ prefixDb = drawn /\ prefix <= drawn
    /\ \A a \in Admins : pc[a] = "resetting" =>
          /\ held[a] \in Nat /\ held[a] <= drawn
          /\ ~tangled => held[a] = drawn

\* Links that died: of an earlier prefix, or of a token without an owner.
Buried ==
    \A l \in dead :
        /\ l[2] <= issued
        /\ ~tangled => l[1] <= prefix /\ (l[1] = prefix => Owner(l[2]) = {})

\* At the gate: what can still be let in was live on arrival.
Gated ==
    \A c \in Clients : pc[c] \in Gate =>
        /\ link[c] # NULL /\ link[c][2] <= issued
        /\ prefixOk[c] /\ Owner(link[c][2]) # {} => wasLive[c]

\* What a handler has at each await.
Stages ==
    /\ \A t \in Tasks :
          /\ pc[t] \in {"opening", "waiting", "loading", "fetching", "persisting"}
                => core[t] # NULL
          /\ pc[t] = "persisting" => draft[t] # NULL
    /\ \A a \in Admins : pc[a] = "updating" => edit[a] # NULL /\ edit[a].id \in born

\* Updates: alone with a profile, and holding its values.
Edited ==
    /\ \A i \in Existing : saved[i] # NULL
    /\ \A a \in Admins : pc[a] = "updating" /\ edit[a].id \notin raced =>
          /\ \A b \in Admins \ {a} : pc[b] = "updating" => edit[b].id # edit[a].id
          /\ edit[a].id \in Existing =>
                /\ "name" \in edit[a].given \/ edit[a].name = profile[edit[a].id].name
                /\ "url" \in edit[a].given \/ edit[a].url = profile[edit[a].id].url

Inv == /\ TypeOK /\ Tokened /\ Prefixed /\ Buried /\ Gated /\ Stages /\ Edited
       /\ NoOrphanRow /\ LetInWasLive /\ SavedStays

\* Reset links reach the cached outputs.  A download that loaded its token
\* before a reset may store links that are dead already; once resets and
\* faults are over, polling leaves every profile, also one whose create was
\* cut off before its first output, with an output whose links work.
OutputLinksHeal ==
    <>[](\A i \in Existing : row[i] # NULL /\ Live(row[i]))
=============================================================================
