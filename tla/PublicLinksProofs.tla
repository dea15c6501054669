------------------------- MODULE PublicLinksProofs --------------------------
(***************************************************************************)
(* PublicLinks for any clients, admins, profiles and bounds: the invariant *)
(* Inv is inductive, and with it what the gate lets in was live, a revoked *)
(* link stays dead, and what was saved stays saved.                        *)
(***************************************************************************)
EXTENDS PublicLinks, TLAPS

USE TasksAssumption, LinkBoundsAssumption, LinkNullAssumption

-----------------------------------------------------------------------------
\* The end of a handler: its own locals are gone, the others' are untouched.
LEMMA Left ==
    ASSUME TypeOK, NEW t \in Tasks, Leave(t)
    PROVE  /\ pc' \in [Tasks -> Lbl]
           /\ \A u \in Tasks : pc'[u] = IF u = t THEN "idle" ELSE pc[u]
           /\ core' \in [Tasks -> Core \cup {NULL}]
           /\ \A u \in Tasks : u # t => core'[u] = core[u]
           /\ draft' \in [Tasks -> Links \cup {NULL}]
           /\ \A u \in Tasks : u # t => draft'[u] = draft[u]
           /\ link' \in [Clients -> Links \cup {NULL}]
           /\ prefixOk' \in [Clients -> BOOLEAN]
           /\ wasLive' \in [Clients -> BOOLEAN]
           /\ \A c \in Clients : c # t => /\ link'[c] = link[c]
                                          /\ prefixOk'[c] = prefixOk[c]
                                          /\ wasLive'[c] = wasLive[c]
           /\ held' \in [Admins -> Prefixes \cup {NULL}]
           /\ edit' \in [Admins -> Edit \cup {NULL}]
           /\ \A a \in Admins : a # t => held'[a] = held[a] /\ edit'[a] = edit[a]
<1>1. pc' \in [Tasks -> Lbl] /\ \A u \in Tasks : pc'[u] = IF u = t THEN "idle" ELSE pc[u]
  BY DEF Leave, Goto, TypeOK, Lbl
<1>2. /\ core' \in [Tasks -> Core \cup {NULL}]
      /\ \A u \in Tasks : u # t => core'[u] = core[u]
  BY DEF Leave, Reset, TypeOK
<1>3. /\ draft' \in [Tasks -> Links \cup {NULL}]
      /\ \A u \in Tasks : u # t => draft'[u] = draft[u]
  BY DEF Leave, Reset, TypeOK
<1>4. /\ link' \in [Clients -> Links \cup {NULL}]
      /\ \A c \in Clients : c # t => link'[c] = link[c]
  BY DEF Leave, Reset, TypeOK
<1>5. /\ prefixOk' \in [Clients -> BOOLEAN] /\ wasLive' \in [Clients -> BOOLEAN]
      /\ \A c \in Clients : c # t => /\ prefixOk'[c] = prefixOk[c]
                                     /\ wasLive'[c] = wasLive[c]
  <2>1. /\ prefixOk \in [Clients -> BOOLEAN] /\ wasLive \in [Clients -> BOOLEAN]
        /\ prefixOk' = [c \in Clients |-> prefixOk[c] /\ c # t]
        /\ wasLive' = [c \in Clients |-> wasLive[c] /\ c # t]
    BY DEF Leave, TypeOK
  <2> QED BY <2>1
<1>6. /\ held' \in [Admins -> Prefixes \cup {NULL}]
      /\ \A a \in Admins : a # t => held'[a] = held[a]
  BY DEF Leave, Reset, TypeOK
<1>7. /\ edit' \in [Admins -> Edit \cup {NULL}]
      /\ \A a \in Admins : a # t => edit'[a] = edit[a]
  BY DEF Leave, Reset, TypeOK
<1> QED BY <1>1, <1>2, <1>3, <1>4, <1>5, <1>6, <1>7

\* Inv of the first state.
LEMMA InitInv == Init => Inv
<1> SUFFICES ASSUME Init PROVE Inv OBVIOUS
<1>1. TypeOK
  <2>1. /\ prefixDb \in Prefixes /\ prefix \in Prefixes /\ drawn \in Prefixes
        /\ issued \in 0 .. MaxToken
        /\ adminOps \in 0 .. MaxAdminOps /\ faults \in 0 .. MaxFaults
    BY SMT DEF Init, Prefixes
  <2>2. /\ prefixOk \in [Clients -> BOOLEAN] /\ wasLive \in [Clients -> BOOLEAN]
        /\ tangled \in BOOLEAN
    BY DEF Init
  <2>3. pc \in [Tasks -> Lbl] BY DEF Init, Lbl
  <2> QED BY <2>1, <2>2, <2>3 DEF Init, TypeOK
<1>2. Existing = {} BY DEF Init, Existing
<1>3. Tokened /\ Buried /\ SavedStays BY <1>2 DEF Init, Tokened, Buried, SavedStays
<1>4. Prefixed /\ Gated /\ Stages BY DEF Init, Prefixed, Gated, Stages, Tasks, Gate
<1>5. NoOrphanRow /\ LetInWasLive BY DEF Init, NoOrphanRow, LetInWasLive, Tasks
<1>6. Edited BY <1>2 DEF Init, Edited, Tasks
<1> QED BY <1>1, <1>3, <1>4, <1>5, <1>6 DEF Inv

-----------------------------------------------------------------------------
(***************************************************************************)
(* The actions that change what the parts of Inv are about.                *)
(***************************************************************************)

\* Who writes the profiles and their tokens.
LEMMA ProfileWriters ==
    ASSUME [Next]_vars
    PROVE  \/ UNCHANGED <<profile, born, issued, saved>>
           \/ \E a \in Admins : Create(a) \/ UpdateWrite(a) \/ Delete(a) \/ ResetToken(a)
  BY DEF Next, vars, tables, edits, Ask, Refuse, Admit, OpenRuleSet, ServeCached,
     Refresh, Convert, FetchFails, Persist, Drop, Load, Generate, Update,
     ResetPath, SetPrefix, Restart

\* Who writes the prefix, in the database or in memory.
LEMMA PrefixWriters ==
    ASSUME [Next]_vars
    PROVE  \/ UNCHANGED <<settings, tangled>>
           \/ \E a \in Admins : ResetPath(a) \/ SetPrefix(a)
           \/ Restart
  BY DEF Next, vars, settings, Ask, Refuse, Admit, OpenRuleSet, ServeCached,
     Refresh, Convert, FetchFails, Persist, Drop, Create, Load, Generate, Update,
     UpdateWrite, Delete, ResetToken

\* How a step moves the handlers: one ends, or goes to its next await with
\* the locals of that await, or none moves.
LEMMA Moves ==
    ASSUME [Next]_vars
    PROVE  \/ UNCHANGED <<pc, held>>
           \/ \E t \in Tasks : Leave(t)
           \/ \E t \in Tasks, l \in Lbl : Goto(t, l) /\ l # "resetting" /\ UNCHANGED held
           \/ Restart
           \/ \E b \in Admins : ResetPath(b)
<1> DEFINE Goal == \/ UNCHANGED <<pc, held>>
                   \/ \E t \in Tasks : Leave(t)
                   \/ \E t \in Tasks, l \in Lbl :
                         Goto(t, l) /\ l # "resetting" /\ UNCHANGED held
                   \/ Restart
                   \/ \E b \in Admins : ResetPath(b)
<1>1. ASSUME NEW c \in Clients,
             \/ Ask(c) \/ Refuse(c) \/ Admit(c) \/ OpenRuleSet(c)
             \/ ServeCached(c) \/ Refresh(c)
      PROVE  Goal
  BY <1>1 DEF Ask, Refuse, Admit, OpenRuleSet, ServeCached, Refresh, Tasks, Lbl, Gate, locals
<1>2. ASSUME NEW t \in Tasks, Convert(t) \/ FetchFails(t) \/ Persist(t) \/ Drop(t)
      PROVE  Goal
  BY <1>2 DEF Convert, FetchFails, Persist, Drop, Lbl
<1>3. ASSUME NEW a \in Admins,
             \/ Create(a) \/ Load(a) \/ Generate(a) \/ Update(a) \/ UpdateWrite(a)
             \/ Delete(a) \/ ResetToken(a) \/ ResetPath(a) \/ SetPrefix(a)
      PROVE  Goal
  BY <1>3 DEF Create, Load, Generate, Update, UpdateWrite, Delete, ResetToken, SetPrefix,
     Tasks, Lbl, locals
<1>4. CASE UNCHANGED vars BY <1>4 DEF vars, locals
<1> QED BY <1>1, <1>2, <1>3, <1>4 DEF Next

\* Tokens of a step: what was issued stays so, and no issued token gains an
\* owner.
LEMMA NoNewOwner ==
    ASSUME TypeOK, Tokened, Stages, [Next]_vars
    PROVE  /\ issued <= issued'
           /\ \A k \in 1 .. issued : Owner(k)' \subseteq Owner(k)
<1>t. issued \in Nat /\ profile \in [Profiles -> Profile \cup {NULL}] /\ pc \in [Tasks -> Lbl]
      /\ edit \in [Admins -> Edit \cup {NULL}]
  BY DEF TypeOK
<1>1. CASE UNCHANGED <<profile, born, issued, saved>>
  BY <1>1, <1>t DEF Owner, Existing
<1>2. ASSUME NEW a \in Admins, Create(a)
      PROVE  /\ issued <= issued'
             /\ \A k \in 1 .. issued : Owner(k)' \subseteq Owner(k)
  BY <1>2, <1>t DEF Create, Owner, Existing, Profile
<1>3. ASSUME NEW a \in Admins, UpdateWrite(a)
      PROVE  /\ issued <= issued'
             /\ \A k \in 1 .. issued : Owner(k)' \subseteq Owner(k)
  <2>1. edit[a] \in Edit BY <1>3, <1>t DEF UpdateWrite, Stages
  <2> QED BY <1>3, <1>t, <2>1 DEF UpdateWrite, UpdateApplies, Owner, Existing, Profile, Edit
<1>4. ASSUME NEW a \in Admins, Delete(a)
      PROVE  /\ issued <= issued'
             /\ \A k \in 1 .. issued : Owner(k)' \subseteq Owner(k)
  BY <1>4, <1>t DEF Delete, Owner, Existing
<1>5. ASSUME NEW a \in Admins, ResetToken(a)
      PROVE  /\ issued <= issued'
             /\ \A k \in 1 .. issued : Owner(k)' \subseteq Owner(k)
  BY <1>5, <1>t DEF ResetToken, Owner, Existing, Profile
<1> QED BY <1>1, <1>2, <1>3, <1>4, <1>5, ProfileWriters

-----------------------------------------------------------------------------
(***************************************************************************)
(* The parts of Inv, one after the other.                                  *)
(***************************************************************************)

\* Tokens are drawn once and lost for good.
LEMMA TokenedNext == TypeOK /\ Tokened /\ Stages /\ [Next]_vars => Tokened'
<1> SUFFICES ASSUME TypeOK, Tokened, Stages, [Next]_vars PROVE Tokened' OBVIOUS
<1>t. /\ issued \in Nat /\ profile \in [Profiles -> Profile \cup {NULL}]
      /\ edit \in [Admins -> Edit \cup {NULL}]
  BY DEF TypeOK
<1>1. CASE UNCHANGED <<profile, born, issued, saved>>
  BY <1>1 DEF Tokened, Existing
<1>2. ASSUME NEW a \in Admins, Create(a) PROVE Tokened'
  <2>1. PICK i \in Profiles \ born, n \in Names, u \in Urls :
           /\ born' = born \cup {i}
           /\ profile' = [profile EXCEPT ![i] = [name |-> n, url |-> u, token |-> issued']]
    BY <1>2 DEF Create
  <2>2. issued' = issued + 1 /\ issued' \in Tokens
    BY <1>2, <1>t DEF Create, Tokens
  <2>3. /\ profile'[i] = [name |-> n, url |-> u, token |-> issued'] /\ profile'[i] # NULL
        /\ \A j \in Profiles : j # i => profile'[j] = profile[j]
    BY <2>1, <2>2, <1>t DEF Profile
  <2>4. i \notin Existing /\ Existing' = Existing \cup {i}
    BY <2>1, <2>3 DEF Existing, Tokened
  <2>5. \A j \in Existing : profile'[j].token = profile[j].token /\ profile[j].token \in Nat
    BY <2>3, <2>4, <1>t DEF Existing, Profile, Tokens
  <2>6. Existing' \subseteq born' BY <2>1, <2>4 DEF Tokened
  <2>7. \A j \in Existing' : profile'[j].token <= issued'
    BY <2>2, <2>3, <2>4, <2>5, <1>t DEF Tokened
  <2>8. \A j, k \in Existing' : profile'[j].token = profile'[k].token => j = k
    <3>1. \A j \in Existing : profile'[j].token # profile'[i].token
      BY <2>2, <2>3, <2>5, <1>t DEF Tokened
    <3> QED BY <3>1, <2>4, <2>5 DEF Tokened
  <2> QED BY <2>6, <2>7, <2>8 DEF Tokened
<1>3. ASSUME NEW a \in Admins, UpdateWrite(a) PROVE Tokened'
  <2>1. edit[a] \in Edit BY <1>3, <1>t DEF UpdateWrite, Stages
  <2> QED BY <1>3, <1>t, <2>1 DEF UpdateWrite, UpdateApplies, Tokened, Existing, Profile, Edit
<1>4. ASSUME NEW a \in Admins, Delete(a) PROVE Tokened'
  BY <1>4, <1>t DEF Delete, Tokened, Existing
<1>5. ASSUME NEW a \in Admins, ResetToken(a) PROVE Tokened'
  <2>1. PICK i \in Existing : profile' = [profile EXCEPT ![i].token = issued']
    BY <1>5 DEF ResetToken
  <2>2. issued' = issued + 1 /\ born' = born
    BY <1>5 DEF ResetToken
  <2>3. \A j \in Existing : profile[j] \in Profile /\ profile[j].token \in Nat
    BY <1>t DEF Existing, Profile, Tokens
  <2>4. /\ profile'[i].token = issued' /\ profile'[i] # NULL
        /\ \A j \in Profiles : j # i => profile'[j] = profile[j]
    <3>1. profile'[i] = [profile[i] EXCEPT !.token = issued'] BY <2>1, <1>t DEF Existing
    <3>2. profile'[i] \in Profile
      BY <3>1, <2>3, <2>2, <1>5, <1>t DEF Profile, Tokens, ResetToken
    <3> QED BY <3>1, <3>2, <2>1, <2>3, <1>t DEF Existing, Profile
  <2>5. Existing' = Existing BY <2>4 DEF Existing
  <2>6. \A j \in Existing \ {i} : profile'[j].token # profile'[i].token
    BY <2>2, <2>3, <2>4, <1>t DEF Tokened, Existing
  <2> QED BY <2>2, <2>3, <2>4, <2>5, <2>6, <1>t DEF Tokened, Existing
<1> QED BY <1>1, <1>2, <1>3, <1>4, <1>5, ProfileWriters

\* Nobody else comes to "resetting", and what a reset holds is left alone.
LEMMA ResettingKept ==
    ASSUME TypeOK, [Next]_vars, UNCHANGED settings, NEW a \in Admins, pc'[a] = "resetting"
    PROVE  pc[a] = "resetting" /\ held'[a] = held[a]
<1>t. /\ pc \in [Tasks -> Lbl] /\ a \in Tasks /\ drawn \in Nat
  BY DEF TypeOK, Tasks, Prefixes
<1>1. CASE UNCHANGED <<pc, held>> BY <1>1
<1>2. ASSUME NEW t \in Tasks, Leave(t) PROVE pc[a] = "resetting" /\ held'[a] = held[a]
  BY <1>2, <1>t, Left
<1>3. ASSUME NEW t \in Tasks, NEW l \in Lbl, Goto(t, l), l # "resetting", UNCHANGED held
      PROVE  pc[a] = "resetting" /\ held'[a] = held[a]
  BY <1>3, <1>t DEF Goto
<1>4. CASE Restart BY <1>4, <1>t DEF Restart
<1>5. ASSUME NEW b \in Admins, ResetPath(b) PROVE FALSE
  BY <1>5, <1>t DEF ResetPath, settings
<1>6. \/ UNCHANGED <<pc, held>>
      \/ \E t \in Tasks : Leave(t)
      \/ \E t \in Tasks, l \in Lbl : Goto(t, l) /\ l # "resetting" /\ UNCHANGED held
      \/ Restart
      \/ \E b \in Admins : ResetPath(b)
  BY Moves
<1> QED BY <1>1, <1>2, <1>3, <1>4, <1>5, <1>6

\* The reset's two writes: drawn and stored, and then published.
LEMMA PrefixedNext == TypeOK /\ Prefixed /\ [Next]_vars => Prefixed' /\ (~tangled' => prefix <= prefix')
<1> SUFFICES ASSUME TypeOK, Prefixed, [Next]_vars
             PROVE  Prefixed' /\ (~tangled' => prefix <= prefix')
  OBVIOUS
<1>t. /\ drawn \in Nat /\ prefix \in Nat /\ prefixDb \in Nat
      /\ pc \in [Tasks -> Lbl] /\ held \in [Admins -> Prefixes \cup {NULL}]
      /\ Admins \subseteq Tasks
  BY DEF TypeOK, Prefixes, Tasks
\* Nobody else reaches "resetting" or touches what a resetting admin holds.
<1>1. ASSUME UNCHANGED <<settings, tangled>> PROVE Prefixed'
  <2>1. \A a \in Admins : pc'[a] = "resetting" => pc[a] = "resetting" /\ held'[a] = held[a]
    BY ResettingKept, <1>1
  <2> QED BY <1>1, <2>1 DEF Prefixed, settings
<1>2. ASSUME NEW a \in Admins, ResetPath(a) PROVE Prefixed' /\ prefix' = prefix
  <2>1. /\ drawn' = drawn + 1 /\ prefixDb' = drawn' /\ prefix' = prefix
        /\ held'[a] = drawn' /\ pc'[a] = "resetting"
        /\ \A b \in Admins : b # a => held'[b] = held[b] /\ pc'[b] = pc[b]
        /\ ~tangled' => ~tangled /\ \A b \in Admins : pc[b] # "resetting"
    BY <1>2, <1>t DEF ResetPath, Goto
  <2> QED BY <2>1, <1>t DEF Prefixed, Prefixes
<1>3. ASSUME NEW a \in Admins, SetPrefix(a) PROVE Prefixed' /\ (~tangled' => prefix <= prefix')
  BY <1>3, <1>t, Left DEF SetPrefix, Prefixed
<1>4. ASSUME Restart PROVE Prefixed' /\ prefix <= prefix'
  BY <1>4, <1>t DEF Restart, Prefixed
<1> QED BY <1>1, <1>2, <1>3, <1>4, <1>t, PrefixWriters DEF settings

-----------------------------------------------------------------------------
\* What a handler that ends leaves well typed.
LEMMA LeaveType ==
    ASSUME TypeOK, NEW t \in Tasks, Leave(t),
           prefixDb' \in Prefixes, prefix' \in Prefixes, drawn' \in Prefixes,
           issued' \in 0 .. MaxToken, profile' \in [Profiles -> Profile \cup {NULL}],
           born' \in SUBSET Profiles, row' \in [Profiles -> Links \cup {NULL}],
           adminOps' \in 0 .. MaxAdminOps, faults' \in 0 .. MaxFaults,
           dead' \in SUBSET Links, tangled' \in BOOLEAN,
           saved' \in [Profiles -> [name : Names, url : Urls] \cup {NULL}],
           raced' \in SUBSET Profiles
    PROVE  TypeOK'
<1>1. /\ pc' \in [Tasks -> Lbl]
      /\ core' \in [Tasks -> Core \cup {NULL}]
      /\ draft' \in [Tasks -> Links \cup {NULL}]
      /\ link' \in [Clients -> Links \cup {NULL}]
      /\ held' \in [Admins -> Prefixes \cup {NULL}]
      /\ edit' \in [Admins -> Edit \cup {NULL}]
  BY Left
<1>2. prefixOk' \in [Clients -> BOOLEAN] /\ wasLive' \in [Clients -> BOOLEAN] BY Left
<1> QED BY <1>1, <1>2 DEF TypeOK

\* The downloads.
LEMMA ClientType ==
    ASSUME TypeOK, Stages, NEW c \in Clients,
           \/ Ask(c) \/ Refuse(c) \/ Admit(c) \/ OpenRuleSet(c)
           \/ ServeCached(c) \/ Refresh(c)
    PROVE  TypeOK'
<1>t. c \in Tasks BY DEF Tasks
<1>1. CASE Ask(c)
  <2>1. pc' \in [Tasks -> Lbl] BY <1>1, <1>t DEF Ask, Goto, TypeOK, Lbl
  <2>2. PICK l \in (0 .. drawn) \X (1 .. issued) :
           /\ link' = [link EXCEPT ![c] = l]
           /\ prefixOk' = [prefixOk EXCEPT ![c] = (l[1] = prefix)]
           /\ wasLive' = [wasLive EXCEPT ![c] = Live(l)]
    BY <1>1 DEF Ask
  <2>3. l \in Links BY DEF TypeOK, Links, Prefixes, Tokens
  <2>4. link' \in [Clients -> Links \cup {NULL}] BY <2>2, <2>3 DEF TypeOK
  <2>5. (l[1] = prefix) \in BOOLEAN /\ Live(l) \in BOOLEAN BY DEF Live
  <2>6. prefixOk \in [Clients -> BOOLEAN] /\ wasLive \in [Clients -> BOOLEAN] BY DEF TypeOK
  <2>7. prefixOk' \in [Clients -> BOOLEAN] /\ wasLive' \in [Clients -> BOOLEAN]
    BY <2>2, <2>5, <2>6, Zenon
  <2> QED BY <1>1, <2>1, <2>4, <2>7 DEF Ask, TypeOK, settings, tables, bounds, edits
<1>2. CASE Admit(c)
  <2>1. pc[c] \in Gate /\ pc' \in [Tasks -> Lbl] BY <1>2, <1>t DEF Admit, Goto, TypeOK, Lbl
  <2>2. PICK i \in Profiles :
           LetIn(c, i) /\ core' = [core EXCEPT ![c] = [id |-> i, token |-> link[c][2]]]
    BY <1>2 DEF Admit
  <2>3. i \in Existing /\ profile[i].token = link[c][2] BY <2>2 DEF LetIn, Owner
  <2>4. link[c][2] \in Tokens BY <2>3 DEF TypeOK, Existing, Profile
  <2>5. core' \in [Tasks -> Core \cup {NULL}] BY <2>2, <2>4, <1>t DEF TypeOK, Core
  <2> QED BY <1>2, <2>1, <2>5 DEF Admit, TypeOK, settings, tables, bounds, edits
<1>3. CASE Refresh(c)
  <2>1. pc' \in [Tasks -> Lbl] BY <1>3, <1>t DEF Refresh, Goto, TypeOK, Lbl
  <2> QED BY <1>3, <2>1 DEF Refresh, TypeOK, settings, tables, bounds, edits, locals
<1>4. CASE Refuse(c) \/ OpenRuleSet(c) \/ ServeCached(c)
  <2>1. Leave(c) /\ UNCHANGED <<settings, tables, bounds, dead, tangled, edits>>
    BY <1>4 DEF Refuse, OpenRuleSet, ServeCached
  <2> QED BY <1>t, <2>1, LeaveType DEF TypeOK, settings, tables, bounds, edits
<1> QED BY <1>1, <1>2, <1>3, <1>4

\* Conversions and the ends of handlers.
LEMMA TaskType ==
    ASSUME TypeOK, Stages, NEW t \in Tasks,
           Convert(t) \/ FetchFails(t) \/ Persist(t) \/ Drop(t)
    PROVE  TypeOK'
<1>1. CASE Convert(t)
  <2>1. pc' \in [Tasks -> Lbl] BY <1>1 DEF Convert, Goto, TypeOK, Lbl
  <2>2. LinkOf(core[t].token) \in Links
    BY <1>1 DEF Convert, Stages, TypeOK, Core, LinkOf, Links
  <2>3. draft' \in [Tasks -> Links \cup {NULL}] BY <1>1, <2>2 DEF Convert, TypeOK
  <2> QED BY <1>1, <2>1, <2>3 DEF Convert, TypeOK, settings, tables, bounds, edits
<1>2. CASE FetchFails(t) \/ Drop(t)
  <2>1. /\ Leave(t) /\ UNCHANGED <<settings, tables, adminOps, dead, tangled, edits>>
        /\ faults < MaxFaults /\ faults' = faults + 1
    BY <1>2 DEF FetchFails, Drop
  <2>2. faults' \in 0 .. MaxFaults BY <2>1 DEF TypeOK
  <2> QED BY <2>1, <2>2, LeaveType DEF TypeOK, settings, tables, edits
<1>3. CASE Persist(t)
  <2>1. row' \in [Profiles -> Links \cup {NULL}]
    BY <1>3 DEF Persist, TypeOK, Stages, Existing
  <2>2. Leave(t) /\ UNCHANGED <<settings, profile, born, issued, bounds, dead, tangled, edits>>
    BY <1>3 DEF Persist
  <2> QED BY <2>1, <2>2, LeaveType DEF TypeOK, settings, bounds, edits
<1> QED BY <1>1, <1>2, <1>3

\* The dead links are links.
LEMMA BuryType == TypeOK /\ Bury => dead' \in SUBSET Links
  BY DEF TypeOK, Bury, LiveLinks

\* The admin's calls.
LEMMA AdminType ==
    ASSUME TypeOK, Prefixed, Stages, Edited, NEW a \in Admins,
           \/ Create(a) \/ Load(a) \/ Generate(a) \/ Update(a) \/ UpdateWrite(a)
           \/ Delete(a) \/ ResetToken(a) \/ ResetPath(a) \/ SetPrefix(a)
    PROVE  TypeOK'
<1>t. a \in Tasks BY DEF Tasks
<1>c. Call(a) => adminOps' \in 0 .. MaxAdminOps /\ faults' = faults
  BY DEF Call, TypeOK
<1>1. CASE Create(a)
  <2>1. issued' \in 0 .. MaxToken /\ issued' \in Tokens BY <1>1 DEF Create, TypeOK, Tokens
  <2>2. pc' \in [Tasks -> Lbl] BY <1>1, <1>t DEF Create, Goto, TypeOK, Lbl
  <2>3. PICK i \in Profiles \ born, n \in Names, u \in Urls :
          /\ born' = born \cup {i}
          /\ profile' = [profile EXCEPT ![i] = [name |-> n, url |-> u, token |-> issued']]
          /\ saved' = [saved EXCEPT ![i] = [name |-> n, url |-> u]]
          /\ core' = [core EXCEPT ![a] = [id |-> i, token |-> issued']]
    BY <1>1 DEF Create
  <2>4. born' \in SUBSET Profiles BY <2>3 DEF TypeOK
  <2>5. profile' \in [Profiles -> Profile \cup {NULL}] BY <2>1, <2>3 DEF TypeOK, Profile
  <2>6. saved' \in [Profiles -> [name : Names, url : Urls] \cup {NULL}] BY <2>3 DEF TypeOK
  <2>7. core' \in [Tasks -> Core \cup {NULL}] BY <2>1, <2>3, <1>t DEF TypeOK, Core
  <2> QED BY <1>1, <1>c, <2>1, <2>2, <2>4, <2>5, <2>6, <2>7 DEF Create, TypeOK, settings
<1>2. CASE Load(a)
  <2>1. CASE core[a].id \in Existing
    <3>1. pc' \in [Tasks -> Lbl] BY <1>2, <2>1, <1>t DEF Load, Goto, TypeOK, Lbl
    <3>2. profile[core[a].id].token \in Tokens BY <2>1 DEF TypeOK, Existing, Profile
    <3>3. core[a] \in Core BY <1>2, <1>t DEF Load, Stages, TypeOK
    <3>4. core' = [core EXCEPT ![a].token = profile[core[a].id].token] BY <1>2, <2>1 DEF Load
    <3>5. core' \in [Tasks -> Core \cup {NULL}] BY <3>2, <3>3, <3>4, <1>t DEF TypeOK, Core
    <3> QED BY <1>2, <2>1, <3>1, <3>5 DEF Load, TypeOK, settings, tables, bounds, edits
  <2>2. CASE core[a].id \notin Existing
    <3>1. Leave(a) /\ UNCHANGED <<settings, tables, bounds, dead, tangled, edits>>
      BY <1>2, <2>2 DEF Load
    <3> QED BY <1>t, <3>1, LeaveType DEF TypeOK, settings, tables, bounds, edits
  <2> QED BY <2>1, <2>2
<1>3. CASE Generate(a)
  <2>1. pc' \in [Tasks -> Lbl] BY <1>3, <1>t DEF Generate, Goto, TypeOK, Lbl
  <2>2. core' \in [Tasks -> Core \cup {NULL}]
    BY <1>3, <1>t DEF Generate, TypeOK, Existing, Profile, Core
  <2> QED BY <1>3, <1>c, <2>1, <2>2 DEF Generate, TypeOK, settings, tables, edits
<1>4. CASE Update(a)
  <2>1. pc' \in [Tasks -> Lbl] BY <1>4, <1>t DEF Update, Goto, TypeOK, Lbl
  <2>2. PICK i \in Existing, n \in Names \cup {NULL}, u \in Urls \cup {NULL} :
          /\ edit' = [edit EXCEPT ![a] =
                [id |-> i, name |-> Given(n, profile[i].name),
                 url |-> Given(u, profile[i].url),
                 given |-> (IF n = NULL THEN {} ELSE {"name"})
                           \cup (IF u = NULL THEN {} ELSE {"url"})]]
          /\ raced' \in {raced \cup {i}, raced}
    BY <1>4 DEF Update
  <2>3. profile[i] \in Profile /\ i \in Profiles BY DEF TypeOK, Existing
  <2>4. Given(n, profile[i].name) \in Names /\ Given(u, profile[i].url) \in Urls
    BY <2>3 DEF Given, Profile
  <2>5. edit' \in [Admins -> Edit \cup {NULL}] BY <2>2, <2>3, <2>4 DEF TypeOK, Edit
  <2>6. raced' \in SUBSET Profiles BY <2>2, <2>3 DEF TypeOK
  <2> QED BY <1>4, <1>c, <2>1, <2>5, <2>6 DEF Update, TypeOK, settings, tables
<1>5. CASE UpdateWrite(a)
  <2>1. edit[a] \in Edit BY <1>5 DEF UpdateWrite, Stages, TypeOK
  <2>2. /\ profile' \in [Profiles -> Profile \cup {NULL}]
        /\ saved' \in [Profiles -> [name : Names, url : Urls] \cup {NULL}]
    <3>1. CASE ~UpdateApplies(a) BY <1>5, <3>1 DEF UpdateWrite, TypeOK
    <3>2. CASE UpdateApplies(a)
      <4> DEFINE e == edit[a]
                 i == e.id
      <4>1. /\ i \in Existing /\ i \in Profiles /\ profile[i] \in Profile
            /\ profile' = [profile EXCEPT ![i].name = e.name, ![i].url = e.url]
            /\ saved' = [saved EXCEPT
                     ![i] = [name |-> IF "name" \in e.given THEN e.name ELSE @.name,
                             url |-> IF "url" \in e.given THEN e.url ELSE @.url]]
        BY <1>5, <3>2 DEF UpdateWrite, UpdateApplies, Existing, TypeOK
      <4>2. profile' \in [Profiles -> Profile \cup {NULL}]
        BY <4>1, <2>1 DEF TypeOK, Profile, Edit
      <4>3. saved[i] \in [name : Names, url : Urls] BY <4>1 DEF Edited, TypeOK
      <4>4. saved' \in [Profiles -> [name : Names, url : Urls] \cup {NULL}]
        BY <4>1, <4>3, <2>1 DEF TypeOK, Edit
      <4> QED BY <4>2, <4>4
    <3> QED BY <3>1, <3>2
  <2>3. Leave(a) /\ UNCHANGED <<settings, born, issued, row, bounds, dead, tangled, raced>>
    BY <1>5 DEF UpdateWrite
  <2> QED BY <1>t, <2>2, <2>3, LeaveType DEF TypeOK, settings, bounds
<1>6. CASE Delete(a)
  <2>1. /\ profile' \in [Profiles -> Profile \cup {NULL}]
        /\ row' \in [Profiles -> Links \cup {NULL}]
        /\ saved' \in [Profiles -> [name : Names, url : Urls] \cup {NULL}]
    BY <1>6 DEF Delete, TypeOK
  <2>2. dead' \in SUBSET Links BY <1>6, BuryType DEF Delete
  <2> QED BY <1>6, <1>c, <2>1, <2>2 DEF Delete, TypeOK, settings, locals
<1>7. CASE ResetToken(a)
  <2>1. issued' \in 0 .. MaxToken /\ issued' \in Tokens BY <1>7 DEF ResetToken, TypeOK, Tokens
  <2>2. profile' \in [Profiles -> Profile \cup {NULL}]
    BY <1>7, <2>1 DEF ResetToken, TypeOK, Existing, Profile
  <2>3. dead' \in SUBSET Links BY <1>7, BuryType DEF ResetToken
  <2> QED BY <1>7, <1>c, <2>1, <2>2, <2>3 DEF ResetToken, TypeOK, settings, locals, edits
<1>8. CASE ResetPath(a)
  <2>1. drawn' \in Prefixes /\ prefixDb' \in Prefixes /\ prefix' \in Prefixes
    BY <1>8 DEF ResetPath, TypeOK, Prefixes
  <2>2. held' \in [Admins -> Prefixes \cup {NULL}] BY <1>8, <2>1 DEF ResetPath, TypeOK
  <2>3. pc' \in [Tasks -> Lbl] BY <1>8, <1>t DEF ResetPath, Goto, TypeOK, Lbl
  <2>4. tangled' \in BOOLEAN BY <1>8 DEF ResetPath, TypeOK
  <2> QED BY <1>8, <1>c, <2>1, <2>2, <2>3, <2>4 DEF ResetPath, TypeOK, tables, edits
<1>9. CASE SetPrefix(a)
  <2>1. held[a] \in Prefixes BY <1>9 DEF SetPrefix, Prefixed, TypeOK, Prefixes
  <2>2. dead' \in SUBSET Links BY <1>9, BuryType DEF SetPrefix
  <2> QED BY <1>9, <1>t, <2>1, <2>2, LeaveType DEF SetPrefix, TypeOK, tables, bounds, edits
<1> QED BY <1>1, <1>2, <1>3, <1>4, <1>5, <1>6, <1>7, <1>8, <1>9

\* Every state a step can reach is well typed.
LEMMA TypeNext == TypeOK /\ Prefixed /\ Stages /\ Edited /\ [Next]_vars => TypeOK'
<1> SUFFICES ASSUME TypeOK, Prefixed, Stages, Edited, [Next]_vars PROVE TypeOK' OBVIOUS
<1>1. CASE Restart
  <2>1. prefix' \in Prefixes /\ faults' \in 0 .. MaxFaults BY <1>1 DEF Restart, TypeOK
  <2>2. dead' \in SUBSET Links BY <1>1, BuryType DEF Restart
  <2>3. prefixOk' \in [Clients -> BOOLEAN] /\ wasLive' \in [Clients -> BOOLEAN]
    BY <1>1 DEF Restart
  <2>4. pc' \in [Tasks -> Lbl] BY <1>1 DEF Restart, Lbl
  <2> QED BY <1>1, <2>1, <2>2, <2>3, <2>4 DEF Restart, TypeOK, tables, edits
<1>2. CASE UNCHANGED vars
  BY <1>2 DEF TypeOK, vars, settings, tables, locals, bounds, edits
<1> QED BY <1>1, <1>2, ClientType, TaskType, AdminType DEF Next

-----------------------------------------------------------------------------
\* A step is one handler's: nobody else's place or locals move.
Same(u) == /\ pc'[u] = pc[u] /\ core'[u] = core[u] /\ draft'[u] = draft[u]
           /\ u \in Clients => /\ link'[u] = link[u] /\ prefixOk'[u] = prefixOk[u]
                               /\ wasLive'[u] = wasLive[u]
           /\ u \in Admins => held'[u] = held[u] /\ edit'[u] = edit[u]

\* An ending handler leaves the others alone.
LEMMA LeaveSame ==
    ASSUME TypeOK, NEW t \in Tasks, Leave(t), NEW u \in Tasks, u # t
    PROVE  Same(u)
  BY Left DEF Same

LEMMA ClientAlone ==
    ASSUME TypeOK, NEW c \in Clients,
           \/ Ask(c) \/ Refuse(c) \/ Admit(c) \/ OpenRuleSet(c)
           \/ ServeCached(c) \/ Refresh(c),
           NEW u \in Tasks, u # c
    PROVE  Same(u)
<1>1. c \in Tasks BY DEF Tasks
<1>2. CASE Ask(c) BY <1>2, <1>1 DEF Ask, Goto, Same, TypeOK
<1>3. CASE Admit(c) BY <1>3, <1>1 DEF Admit, Goto, Same, TypeOK
<1>4. CASE Refresh(c) BY <1>4, <1>1 DEF Refresh, Goto, Same, TypeOK, locals
<1>5. CASE Refuse(c) \/ OpenRuleSet(c) \/ ServeCached(c)
  BY <1>5, <1>1, LeaveSame DEF Refuse, OpenRuleSet, ServeCached
<1> QED BY <1>2, <1>3, <1>4, <1>5

LEMMA TaskAlone ==
    ASSUME TypeOK, NEW t \in Tasks, Convert(t) \/ FetchFails(t) \/ Persist(t) \/ Drop(t),
           NEW u \in Tasks, u # t
    PROVE  Same(u)
<1>1. CASE Convert(t) BY <1>1 DEF Convert, Goto, Same, TypeOK
<1>2. CASE FetchFails(t) \/ Persist(t) \/ Drop(t)
  BY <1>2, LeaveSame DEF FetchFails, Persist, Drop
<1> QED BY <1>1, <1>2

LEMMA AdminAlone ==
    ASSUME TypeOK, NEW a \in Admins,
           \/ Create(a) \/ Load(a) \/ Generate(a) \/ Update(a) \/ UpdateWrite(a)
           \/ Delete(a) \/ ResetToken(a) \/ ResetPath(a) \/ SetPrefix(a),
           NEW u \in Tasks, u # a
    PROVE  Same(u)
<1>1. a \in Tasks BY DEF Tasks
<1>2. CASE Create(a) BY <1>2, <1>1 DEF Create, Goto, Same, TypeOK
<1>3. CASE Load(a) BY <1>3, <1>1, LeaveSame DEF Load, Goto, Same, TypeOK
<1>4. CASE Generate(a) BY <1>4, <1>1 DEF Generate, Goto, Same, TypeOK
<1>5. CASE Update(a) BY <1>5, <1>1 DEF Update, Goto, Same, TypeOK
<1>6. CASE UpdateWrite(a) \/ SetPrefix(a)
  BY <1>6, <1>1, LeaveSame DEF UpdateWrite, SetPrefix
<1>7. CASE Delete(a) \/ ResetToken(a) BY <1>7 DEF Delete, ResetToken, Same, locals
<1>8. CASE ResetPath(a) BY <1>8, <1>1 DEF ResetPath, Goto, Same, TypeOK
<1> QED BY <1>2, <1>3, <1>4, <1>5, <1>6, <1>7, <1>8

\* What a client can do in a step, as far as the gate goes.
LEMMA ClientMoves ==
    ASSUME TypeOK, [Next]_vars, NEW c \in Clients
    PROVE  \/ pc'[c] = "idle" \/ Ask(c) \/ Admit(c)
           \/ /\ {pc[c], pc'[c]} \subseteq {"waiting", "fetching", "persisting"}
              /\ wasLive'[c] = wasLive[c]
           \/ Same(c)
<1>t. c \in Tasks /\ c \notin Admins /\ pc \in [Tasks -> Lbl] BY DEF Tasks, TypeOK
<1> DEFINE Goal == \/ pc'[c] = "idle" \/ Ask(c) \/ Admit(c)
                   \/ /\ {pc[c], pc'[c]} \subseteq {"waiting", "fetching", "persisting"}
                      /\ wasLive'[c] = wasLive[c]
                   \/ Same(c)
<1>1. ASSUME NEW d \in Clients,
             \/ Ask(d) \/ Refuse(d) \/ Admit(d) \/ OpenRuleSet(d)
             \/ ServeCached(d) \/ Refresh(d)
      PROVE  Goal
  <2>1. CASE d # c BY <1>1, <1>t, <2>1, ClientAlone
  <2>2. CASE Ask(c) \/ Admit(c) BY <2>2
  <2>3. CASE Refresh(c) BY <2>3, <1>t DEF Refresh, CanEnter, Goto
  <2>4. CASE Refuse(c) \/ OpenRuleSet(c) \/ ServeCached(c)
    BY <2>4, <1>t, Left DEF Refuse, OpenRuleSet, ServeCached
  <2> QED BY <1>1, <2>1, <2>2, <2>3, <2>4
<1>2. ASSUME NEW t \in Tasks, Convert(t) \/ FetchFails(t) \/ Persist(t) \/ Drop(t)
      PROVE  Goal
  <2>1. CASE t # c BY <1>2, <1>t, <2>1, TaskAlone
  <2>2. CASE Convert(c) BY <2>2, <1>t DEF Convert, Goto
  <2>3. CASE FetchFails(c) \/ Persist(c) \/ Drop(c)
    BY <2>3, <1>t, Left DEF FetchFails, Persist, Drop
  <2> QED BY <1>2, <2>1, <2>2, <2>3
<1>3. ASSUME NEW a \in Admins,
             \/ Create(a) \/ Load(a) \/ Generate(a) \/ Update(a) \/ UpdateWrite(a)
             \/ Delete(a) \/ ResetToken(a) \/ ResetPath(a) \/ SetPrefix(a)
      PROVE  Goal
  BY <1>3, <1>t, AdminAlone
<1>4. CASE Restart BY <1>4, <1>t DEF Restart
<1>5. CASE UNCHANGED vars BY <1>5 DEF vars, locals, Same
<1> QED BY <1>1, <1>2, <1>3, <1>4, <1>5 DEF Next

-----------------------------------------------------------------------------
\* Dead links are added by Bury alone, and resets that overlapped stay so.
LEMMA Burials ==
    ASSUME [Next]_vars
    PROVE  (dead' = dead \/ Bury) /\ (tangled => tangled')
<1>1. ASSUME NEW c \in Clients,
             \/ Ask(c) \/ Refuse(c) \/ Admit(c) \/ OpenRuleSet(c)
             \/ ServeCached(c) \/ Refresh(c)
      PROVE  dead' = dead /\ tangled' = tangled
  BY <1>1 DEF Ask, Refuse, Admit, OpenRuleSet, ServeCached, Refresh
<1>2. ASSUME NEW t \in Tasks, Convert(t) \/ FetchFails(t) \/ Persist(t) \/ Drop(t)
      PROVE  dead' = dead /\ tangled' = tangled
  BY <1>2 DEF Convert, FetchFails, Persist, Drop
<1>3. ASSUME NEW a \in Admins,
             \/ Create(a) \/ Load(a) \/ Generate(a) \/ Update(a) \/ UpdateWrite(a)
      PROVE  dead' = dead /\ tangled' = tangled
  BY <1>3 DEF Create, Load, Generate, Update, UpdateWrite
<1>4. ASSUME NEW a \in Admins, Delete(a) \/ ResetToken(a) \/ SetPrefix(a)
      PROVE  Bury /\ tangled' = tangled
  BY <1>4 DEF Delete, ResetToken, SetPrefix
<1>5. ASSUME NEW a \in Admins, ResetPath(a)
      PROVE  dead' = dead /\ (tangled => tangled')
  BY <1>5 DEF ResetPath
<1>6. CASE Restart BY <1>6 DEF Restart
<1>7. CASE UNCHANGED vars BY <1>7 DEF vars
<1> QED BY <1>1, <1>2, <1>3, <1>4, <1>5, <1>6, <1>7 DEF Next

\* The dead stay dead.
LEMMA BuriedNext ==
    TypeOK /\ TypeOK' /\ Tokened /\ Prefixed /\ Buried /\ Stages /\ [Next]_vars => Buried'
<1> SUFFICES ASSUME TypeOK, TypeOK', Tokened, Prefixed, Buried, Stages, [Next]_vars,
                    NEW l \in dead'
             PROVE  /\ l[2] <= issued'
                    /\ ~tangled' => l[1] <= prefix' /\ (l[1] = prefix' => Owner(l[2])' = {})
  BY DEF Buried
<1>t. /\ issued \in Nat /\ issued' \in Nat /\ prefix \in Nat /\ prefix' \in Nat
      /\ dead \in SUBSET Links
      /\ profile \in [Profiles -> Profile \cup {NULL}]
  BY DEF TypeOK, Prefixes
<1>1. issued <= issued' /\ \A k \in 1 .. issued : Owner(k)' \subseteq Owner(k)
  BY NoNewOwner
<1>2. ~tangled' => ~tangled /\ prefix <= prefix' BY PrefixedNext, Burials
<1>3. CASE l \in dead
  <2>1. l \in Links /\ l[1] \in Nat /\ l[2] \in Nat \ {0}
    BY <1>3, <1>t DEF Links, Prefixes, Tokens
  <2>2. /\ l[2] <= issued
        /\ ~tangled => l[1] <= prefix /\ (l[1] = prefix => Owner(l[2]) = {})
    BY <1>3 DEF Buried
  <2>3. l[2] \in 1 .. issued BY <1>t, <2>1, <2>2
  <2> QED BY <1>t, <1>1, <1>2, <2>1, <2>2, <2>3
<1>4. CASE l \notin dead
  <2>1. l \in LiveLinks /\ l \notin LiveLinks' BY <1>4, Burials DEF Bury
  <2>2. l \in Links /\ l[1] = prefix /\ Owner(l[2]) # {} BY <2>1 DEF LiveLinks, Live
  <2>3. l[2] <= issued BY <2>2 DEF Owner, Tokened
  <2>4. ~(l[1] = prefix' /\ Owner(l[2])' # {}) BY <2>1, <2>2 DEF LiveLinks, Live
  <2>5. l[2] \in Nat BY <2>2 DEF Links, Tokens
  <2> QED BY <1>t, <1>1, <1>2, <2>2, <2>3, <2>4, <2>5
<1> QED BY <1>3, <1>4

-----------------------------------------------------------------------------
\* What Gated and LetInWasLive say of one client.
GatedAt(c) ==
    pc[c] \in Gate => /\ link[c] # NULL /\ link[c][2] <= issued
                      /\ prefixOk[c] /\ Owner(link[c][2]) # {} => wasLive[c]
LiveAt(c) == pc[c] \in {"waiting", "opening", "fetching", "persisting"} => wasLive[c]

\* What waits at the gate.
LEMMA GatedNext ==
    TypeOK /\ TypeOK' /\ Tokened /\ Gated /\ LetInWasLive /\ Stages /\ [Next]_vars
        => Gated' /\ LetInWasLive'
<1> SUFFICES ASSUME TypeOK, TypeOK', Tokened, Gated, LetInWasLive, Stages, [Next]_vars,
                    NEW c \in Clients
             PROVE  GatedAt(c)' /\ LiveAt(c)'
  BY DEF Gated, LetInWasLive, GatedAt, LiveAt
<1>t. /\ c \in Tasks /\ issued \in Nat /\ issued' \in Nat /\ pc \in [Tasks -> Lbl]
      /\ link \in [Clients -> Links \cup {NULL}]
  BY DEF TypeOK, Tasks
<1>1. issued <= issued' /\ \A k \in 1 .. issued : Owner(k)' \subseteq Owner(k)
  BY NoNewOwner
<1>2. CASE pc'[c] = "idle" BY <1>2 DEF Gate, GatedAt, LiveAt
<1>3. CASE Ask(c)
  <2>1. PICK l \in (0 .. drawn) \X (1 .. issued) :
           /\ link' = [link EXCEPT ![c] = l]
           /\ prefixOk' = [prefixOk EXCEPT ![c] = (l[1] = prefix)]
           /\ wasLive' = [wasLive EXCEPT ![c] = Live(l)]
    BY <1>3 DEF Ask
  <2>2. l # NULL /\ l[2] \in 1 .. issued BY DEF TypeOK, Links, Prefixes, Tokens
  <2>3. link'[c] = l /\ prefixOk'[c] = (l[1] = prefix) /\ wasLive'[c] = Live(l)
    BY <2>1, Zenon DEF TypeOK
  <2>4. pc'[c] \in Gate BY <1>3, <1>t DEF Ask, Goto
  <2>5. profile' = profile /\ issued' = issued BY <1>3 DEF Ask, tables
  <2>6. LiveAt(c)' BY <2>4 DEF LiveAt, Gate
  <2>7. prefixOk'[c] /\ Owner(l[2])' # {} => wasLive'[c]
    BY <2>3, <2>5, Zenon DEF Live, Owner, Existing
  <2>8. GatedAt(c)' BY <1>t, <2>2, <2>3, <2>5, <2>7 DEF GatedAt
  <2> QED BY <2>6, <2>8
<1>4. CASE Admit(c)
  <2>1. pc[c] \in Gate /\ \E i \in Profiles : LetIn(c, i) BY <1>4 DEF Admit
  <2>2. wasLive[c] BY <2>1 DEF LetIn, Gated
  <2>3. wasLive'[c] /\ pc'[c] \in {"waiting", "opening"} BY <1>4, <1>t, <2>2 DEF Admit, Goto
  <2> QED BY <2>3 DEF Gate, GatedAt, LiveAt
<1>5. CASE /\ {pc[c], pc'[c]} \subseteq {"waiting", "fetching", "persisting"}
           /\ wasLive'[c] = wasLive[c]
  BY <1>5 DEF LetInWasLive, Gate, GatedAt, LiveAt
<1>6. CASE Same(c)
  <2>1. /\ pc'[c] = pc[c] /\ link'[c] = link[c] /\ prefixOk'[c] = prefixOk[c]
        /\ wasLive'[c] = wasLive[c]
    BY <1>6 DEF Same
  <2>2. LiveAt(c)' BY <2>1 DEF LetInWasLive, LiveAt
  <2>3. ASSUME pc[c] \in Gate PROVE GatedAt(c)'
    <3>1. /\ link[c] # NULL /\ link[c][2] <= issued
          /\ prefixOk[c] /\ Owner(link[c][2]) # {} => wasLive[c]
      BY <2>3 DEF Gated
    <3>2. PICK k \in 1 .. issued : k = link[c][2] BY <3>1, <1>t DEF Links, Tokens
    <3>3. Owner(k)' \subseteq Owner(k) BY <1>1
    <3>4. k = link'[c][2] /\ k <= issued' BY <2>1, <3>2, <1>1, <1>t
    <3>5. prefixOk'[c] /\ Owner(k)' # {} => wasLive'[c]
      BY <2>1, <3>1, <3>2, <3>3
    <3> QED BY <2>1, <3>1, <3>4, <3>5 DEF GatedAt
  <2>4. pc[c] \notin Gate => GatedAt(c)' BY <2>1 DEF GatedAt
  <2> QED BY <2>2, <2>3, <2>4
<1> QED BY <1>2, <1>3, <1>4, <1>5, <1>6, ClientMoves

-----------------------------------------------------------------------------
\* What Stages says of one handler.
StageAt(t) ==
    /\ pc[t] \in {"opening", "waiting", "loading", "fetching", "persisting"}
          => core[t] # NULL
    /\ pc[t] = "persisting" => draft[t] # NULL
    /\ t \in Admins /\ pc[t] = "updating" => edit[t] # NULL /\ edit[t].id \in born

\* What handlers hold.
LEMMA StagesNext ==
    TypeOK /\ TypeOK' /\ Tokened /\ Stages /\ [Next]_vars => Stages'
<1> SUFFICES ASSUME TypeOK, TypeOK', Tokened, Stages, [Next]_vars, NEW u \in Tasks
             PROVE  StageAt(u)'
  BY DEF Stages, StageAt, Tasks
<1>t. /\ pc \in [Tasks -> Lbl] /\ core \in [Tasks -> Core \cup {NULL}]
      /\ draft \in [Tasks -> Links \cup {NULL}] /\ StageAt(u)
      /\ core' \in [Tasks -> Core \cup {NULL}] /\ edit' \in [Admins -> Edit \cup {NULL}]
      /\ edit \in [Admins -> Edit \cup {NULL}]
  BY DEF TypeOK, Stages, StageAt
<1>b. born \subseteq born'
  <2>1. CASE UNCHANGED <<profile, born, issued, saved>> BY <2>1
  <2>2. ASSUME NEW a \in Admins, Create(a) \/ UpdateWrite(a) \/ Delete(a) \/ ResetToken(a)
        PROVE  born \subseteq born'
    BY <2>2 DEF Create, UpdateWrite, Delete, ResetToken
  <2> QED BY <2>1, <2>2, ProfileWriters
<1>s. Same(u) => StageAt(u)'
  BY <1>t, <1>b DEF Same, StageAt
<1>i. pc'[u] = "idle" => StageAt(u)' BY DEF StageAt
<1>l. Leave(u) => StageAt(u)' BY <1>i, Left
<1>1. ASSUME NEW c \in Clients,
             \/ Ask(c) \/ Refuse(c) \/ Admit(c) \/ OpenRuleSet(c)
             \/ ServeCached(c) \/ Refresh(c)
      PROVE  StageAt(u)'
  <2>t. c \in Tasks /\ c \notin Admins BY DEF Tasks
  <2>1. CASE c # u BY <1>1, <1>s, <2>1, ClientAlone
  <2>2. CASE c = u /\ Ask(c) BY <2>2, <1>t DEF Ask, Goto, StageAt, Gate
  <2>3. CASE c = u /\ Admit(c)
    <3>1. core'[c] # NULL
      <4>1. PICK i \in Profiles :
               LetIn(c, i) /\ core' = [core EXCEPT ![c] = [id |-> i, token |-> link[c][2]]]
        BY <2>3 DEF Admit
      <4>2. link[c][2] \in Tokens BY <4>1 DEF LetIn, Owner, Existing, TypeOK, Profile
      <4> QED BY <4>1, <4>2, <2>t, <1>t DEF Core
    <3>2. pc'[c] \in {"waiting", "opening"} BY <2>3, <1>t DEF Admit, Goto
    <3> QED BY <2>t, <2>3, <3>1, <3>2 DEF StageAt
  <2>4. CASE c = u /\ Refresh(c)
    BY <2>t, <2>4, <1>t DEF Refresh, CanEnter, Goto, locals, StageAt
  <2>5. CASE c = u /\ (Refuse(c) \/ OpenRuleSet(c) \/ ServeCached(c))
    BY <2>5, <1>l DEF Refuse, OpenRuleSet, ServeCached
  <2> QED BY <1>1, <2>1, <2>2, <2>3, <2>4, <2>5
<1>2. ASSUME NEW t \in Tasks, Convert(t) \/ FetchFails(t) \/ Persist(t) \/ Drop(t)
      PROVE  StageAt(u)'
  <2>1. CASE t # u BY <1>2, <1>s, <2>1, TaskAlone
  <2>2. CASE t = u /\ Convert(t)
    <3>1. LinkOf(core[t].token) \in Links
      BY <2>2 DEF Convert, Stages, TypeOK, Core, LinkOf, Links
    <3>2. draft'[t] # NULL BY <2>2, <1>t, <3>1 DEF Convert
    <3> QED BY <2>2, <1>t, <3>2 DEF Convert, Goto, StageAt
  <2>3. CASE t = u /\ (FetchFails(t) \/ Persist(t) \/ Drop(t))
    BY <2>3, <1>l DEF FetchFails, Persist, Drop
  <2> QED BY <1>2, <2>1, <2>2, <2>3
<1>3. ASSUME NEW a \in Admins,
             \/ Create(a) \/ Load(a) \/ Generate(a) \/ Update(a) \/ UpdateWrite(a)
             \/ Delete(a) \/ ResetToken(a) \/ ResetPath(a) \/ SetPrefix(a)
      PROVE  StageAt(u)'
  <2>t. a \in Tasks BY DEF Tasks
  <2>1. CASE a # u BY <1>3, <1>s, <2>1, AdminAlone
  <2>2. CASE a = u /\ (Create(a) \/ Generate(a))
    <3>1. core'[a] # NULL
      <4>1. CASE Create(a)
        <5>1. PICK i \in Profiles \ born :
                 core' = [core EXCEPT ![a] = [id |-> i, token |-> issued']]
          BY <4>1 DEF Create
        <5>2. issued' \in Tokens BY <4>1 DEF Create, TypeOK, Tokens
        <5> QED BY <5>1, <5>2, <1>t, <2>t DEF Core
      <4>2. CASE Generate(a)
        <5>1. PICK i \in Existing :
                 core' = [core EXCEPT ![a] = [id |-> i, token |-> profile[i].token]]
          BY <4>2 DEF Generate
        <5>2. i \in Profiles /\ profile[i].token \in Tokens BY DEF Existing, TypeOK, Profile
        <5> QED BY <5>1, <5>2, <1>t, <2>t DEF Core
      <4> QED BY <2>2, <4>1, <4>2
    <3>2. pc'[a] \in {"loading", "fetching"} BY <2>2, <1>t, <2>t DEF Create, Generate, Goto
    <3> QED BY <2>2, <3>1, <3>2 DEF StageAt
  <2>3. CASE a = u /\ Load(a)
    <3>1. CASE core[a].id \in Existing
      <4>1. core[a] \in Core BY <2>3, <2>t, <1>t DEF Load, StageAt
      <4>2. profile[core[a].id].token \in Tokens BY <3>1 DEF Existing, TypeOK, Profile
      <4>3. core'[a] # NULL BY <2>3, <2>t, <3>1, <4>1, <4>2, <1>t DEF Load, Core
      <4> QED BY <2>3, <2>t, <3>1, <4>3, <1>t DEF Load, Goto, StageAt
    <3>2. CASE core[a].id \notin Existing BY <2>3, <3>2, <1>l DEF Load
    <3> QED BY <3>1, <3>2
  <2>4. CASE a = u /\ Update(a)
    <3>1. PICK i \in Existing, n \in Names \cup {NULL}, v \in Urls \cup {NULL} :
             edit' = [edit EXCEPT ![a] =
                [id |-> i, name |-> Given(n, profile[i].name),
                 url |-> Given(v, profile[i].url),
                 given |-> (IF n = NULL THEN {} ELSE {"name"})
                           \cup (IF v = NULL THEN {} ELSE {"url"})]]
      BY <2>4 DEF Update
    <3>2. /\ profile[i] \in Profile /\ i \in Profiles
          /\ Given(n, profile[i].name) \in Names /\ Given(v, profile[i].url) \in Urls
      BY DEF TypeOK, Existing, Given, Profile
    <3>3. edit'[a] \in Edit /\ edit'[a].id = i BY <3>1, <3>2, <1>t DEF Edit
    <3>4. edit'[a] # NULL /\ pc'[a] = "updating" BY <3>3, <2>4, <2>t, <1>t DEF Update, Goto
    <3>5. i \in born' BY <1>b DEF Tokened
    <3> QED BY <2>4, <3>3, <3>4, <3>5 DEF StageAt
  <2>5. CASE a = u /\ (UpdateWrite(a) \/ SetPrefix(a)) BY <2>5, <1>l DEF UpdateWrite, SetPrefix
  <2>6. CASE a = u /\ (Delete(a) \/ ResetToken(a))
    BY <2>6, <1>s DEF Delete, ResetToken, Same, locals
  <2>7. CASE a = u /\ ResetPath(a) BY <2>7, <2>t, <1>t DEF ResetPath, Goto, StageAt
  <2> QED BY <1>3, <2>1, <2>2, <2>3, <2>4, <2>5, <2>6, <2>7
<1>4. CASE Restart BY <1>4, <1>i DEF Restart
<1>5. CASE UNCHANGED vars BY <1>5, <1>s DEF vars, locals, Same
<1> QED BY <1>1, <1>2, <1>3, <1>4, <1>5 DEF Next

\* Rows and profiles.
LEMMA NoOrphanRowNext ==
    TypeOK /\ Stages /\ NoOrphanRow /\ [Next]_vars => NoOrphanRow'
<1> SUFFICES ASSUME TypeOK, Stages, NoOrphanRow, [Next]_vars PROVE NoOrphanRow' OBVIOUS
<1>t. /\ profile \in [Profiles -> Profile \cup {NULL}]
      /\ row \in [Profiles -> Links \cup {NULL}]
      /\ edit \in [Admins -> Edit \cup {NULL}]
  BY DEF TypeOK
<1>1. ASSUME NEW t \in Tasks, Persist(t) PROVE NoOrphanRow'
  BY <1>1, <1>t DEF Persist, NoOrphanRow, Existing
<1>2. ASSUME NEW a \in Admins, Create(a) PROVE NoOrphanRow'
  <2>1. PICK i \in Profiles \ born, n \in Names, u \in Urls :
           profile' = [profile EXCEPT ![i] = [name |-> n, url |-> u, token |-> issued']]
    BY <1>2 DEF Create
  <2>2. issued' \in Tokens BY <1>2 DEF Create, TypeOK, Tokens
  <2>3. profile'[i] # NULL /\ \A j \in Profiles : j # i => profile'[j] = profile[j]
    BY <2>1, <2>2, <1>t DEF Profile
  <2>4. row' = row BY <1>2 DEF Create
  <2> QED BY <2>3, <2>4 DEF NoOrphanRow
<1>3. ASSUME NEW a \in Admins, UpdateWrite(a) PROVE NoOrphanRow'
  <2>1. edit[a] \in Edit BY <1>3, <1>t DEF UpdateWrite, Stages
  <2> QED BY <1>3, <1>t, <2>1 DEF UpdateWrite, UpdateApplies, NoOrphanRow, Existing, Profile, Edit
<1>4. ASSUME NEW a \in Admins, Delete(a) PROVE NoOrphanRow'
  BY <1>4, <1>t DEF Delete, NoOrphanRow
<1>5. ASSUME NEW a \in Admins, ResetToken(a) PROVE NoOrphanRow'
  <2>1. PICK i \in Existing : profile' = [profile EXCEPT ![i].token = issued']
    BY <1>5 DEF ResetToken
  <2>2. issued' \in Tokens /\ row' = row BY <1>5 DEF ResetToken, TypeOK, Tokens
  <2>3. profile[i] \in Profile BY <1>t DEF Existing
  <2>4. profile'[i] # NULL BY <2>1, <2>2, <2>3, <1>t DEF Profile, Existing
  <2>5. \A j \in Profiles : j # i => profile'[j] = profile[j] BY <2>1, <1>t
  <2> QED BY <2>2, <2>4, <2>5 DEF NoOrphanRow
<1>6. \/ UNCHANGED <<profile, row>>
      \/ \E t \in Tasks : Persist(t)
      \/ \E a \in Admins : Create(a) \/ UpdateWrite(a) \/ Delete(a) \/ ResetToken(a)
  BY DEF Next, vars, tables, edits, Ask, Refuse, Admit, OpenRuleSet, ServeCached,
     Refresh, Convert, FetchFails, Drop, Load, Generate, Update, ResetPath, SetPrefix,
     Restart
<1> QED BY <1>1, <1>2, <1>3, <1>4, <1>5, <1>6 DEF NoOrphanRow

-----------------------------------------------------------------------------
\* Who writes what updates compare with, and who holds an edit.
LEMMA EditWriters ==
    ASSUME [Next]_vars
    PROVE  \/ UNCHANGED <<profile, saved, raced>>
           \/ \E a \in Admins : \/ Create(a) \/ Update(a) \/ UpdateWrite(a) \/ Delete(a)
                                \/ ResetToken(a)
  BY DEF Next, vars, tables, edits, Ask, Refuse, Admit, OpenRuleSet, ServeCached,
     Refresh, Convert, FetchFails, Persist, Drop, Load, Generate, ResetPath, SetPrefix,
     Restart

\* Who can be in the middle of an update after a step.
LEMMA Updating ==
    ASSUME TypeOK, [Next]_vars, NEW a \in Admins, pc'[a] = "updating", ~Update(a)
    PROVE  pc[a] = "updating" /\ edit'[a] = edit[a]
<1>t. a \in Tasks /\ pc \in [Tasks -> Lbl] BY DEF Tasks, TypeOK
<1> DEFINE Goal == pc[a] = "updating" /\ edit'[a] = edit[a]
<1>1. ASSUME NEW c \in Clients,
             \/ Ask(c) \/ Refuse(c) \/ Admit(c) \/ OpenRuleSet(c)
             \/ ServeCached(c) \/ Refresh(c)
      PROVE  Goal
  BY <1>1, <1>t, ClientAlone, TasksAssumption DEF Same
<1>2. ASSUME NEW t \in Tasks, Convert(t) \/ FetchFails(t) \/ Persist(t) \/ Drop(t)
      PROVE  Goal
  <2>1. CASE t # a BY <1>2, <1>t, <2>1, TaskAlone DEF Same
  <2>2. CASE t = a /\ Convert(t) BY <2>2, <1>t DEF Convert, Goto
  <2>3. CASE t = a /\ (FetchFails(t) \/ Persist(t) \/ Drop(t))
    BY <2>3, <1>t, Left DEF FetchFails, Persist, Drop
  <2> QED BY <1>2, <2>1, <2>2, <2>3
<1>3. ASSUME NEW b \in Admins,
             \/ Create(b) \/ Load(b) \/ Generate(b) \/ Update(b) \/ UpdateWrite(b)
             \/ Delete(b) \/ ResetToken(b) \/ ResetPath(b) \/ SetPrefix(b)
      PROVE  Goal
  <2>1. CASE b # a BY <1>3, <1>t, <2>1, AdminAlone DEF Same
  <2>2. CASE b = a /\ (Create(b) \/ Generate(b) \/ ResetPath(b))
    BY <2>2, <1>t DEF Create, Generate, ResetPath, Goto
  <2>3. CASE b = a /\ Load(b) BY <2>3, <1>t, Left DEF Load, Goto
  <2>4. CASE b = a /\ (UpdateWrite(b) \/ SetPrefix(b))
    BY <2>4, <1>t, Left DEF UpdateWrite, SetPrefix
  <2>5. CASE b = a /\ (Delete(b) \/ ResetToken(b)) BY <2>5 DEF Delete, ResetToken, locals
  <2> QED BY <1>3, <2>1, <2>2, <2>3, <2>4, <2>5
<1>4. CASE Restart BY <1>4, <1>t DEF Restart
<1>5. CASE UNCHANGED vars BY <1>5 DEF vars, locals
<1> QED BY <1>1, <1>2, <1>3, <1>4, <1>5 DEF Next

\* What Edited says of one admin.
EditAt(a) ==
    pc[a] = "updating" /\ edit[a].id \notin raced =>
        /\ \A b \in Admins \ {a} : pc[b] = "updating" => edit[b].id # edit[a].id
        /\ edit[a].id \in Existing =>
              /\ "name" \in edit[a].given \/ edit[a].name = profile[edit[a].id].name
              /\ "url" \in edit[a].given \/ edit[a].url = profile[edit[a].id].url

\* Pending updates and what was saved.
LEMMA EditedNext ==
    TypeOK /\ Tokened /\ Stages /\ Edited /\ SavedStays /\ [Next]_vars
        => Edited' /\ SavedStays'
<1> SUFFICES ASSUME TypeOK, Tokened, Stages, Edited, SavedStays, [Next]_vars
             PROVE  Edited' /\ SavedStays'
  OBVIOUS
<1>t. /\ profile \in [Profiles -> Profile \cup {NULL}] /\ pc \in [Tasks -> Lbl]
      /\ saved \in [Profiles -> [name : Names, url : Urls] \cup {NULL}]
      /\ edit \in [Admins -> Edit \cup {NULL}] /\ Admins \subseteq Tasks
      /\ Existing \subseteq Profiles /\ Existing \subseteq born
  BY DEF TypeOK, Existing, Tasks, Tokened
<1>a. (\A i \in Existing' : saved'[i] # NULL) /\ (\A a \in Admins : EditAt(a)') => Edited'
  BY DEF Edited, EditAt
<1>e. \A a \in Admins : EditAt(a) BY DEF Edited, EditAt
\* An action that nobody's edit comes from, and whose writes keep an edit's
\* profile as it is.
<1>k. ASSUME \A a \in Admins : ~Update(a), raced' = raced,
             \A i \in born : i \in Existing' =>
                /\ i \in Existing
                /\ profile'[i].name = profile[i].name /\ profile'[i].url = profile[i].url
      PROVE  \A a \in Admins : EditAt(a)'
  <2> SUFFICES ASSUME NEW a \in Admins, pc'[a] = "updating", edit'[a].id \notin raced
               PROVE  EditAt(a)'
    BY <1>k DEF EditAt
  <2>1. \A b \in Admins : pc'[b] = "updating" => pc[b] = "updating" /\ edit'[b] = edit[b]
    BY <1>k, Updating
  <2>2. edit[a].id \in born BY <2>1 DEF Stages
  <2> QED BY <1>k, <1>e, <2>1, <2>2 DEF EditAt
<1>1. CASE UNCHANGED <<profile, saved, raced>> /\ \A a \in Admins : ~Update(a)
  <2>1. Existing' = Existing BY <1>1 DEF Existing
  <2>2. \A a \in Admins : EditAt(a)' BY <1>1, <1>k, <2>1
  <2> QED BY <1>1, <1>a, <2>1, <2>2 DEF Edited, SavedStays
<1>2. ASSUME NEW a \in Admins, Create(a) PROVE Edited' /\ SavedStays'
  <2>1. PICK i \in Profiles \ born, n \in Names, u \in Urls :
           /\ profile' = [profile EXCEPT ![i] = [name |-> n, url |-> u, token |-> issued']]
           /\ saved' = [saved EXCEPT ![i] = [name |-> n, url |-> u]]
    BY <1>2 DEF Create
  <2>2. \A j \in Profiles : j # i => profile'[j] = profile[j] /\ saved'[j] = saved[j]
    BY <2>1, <1>t
  <2>3. /\ profile'[i] = [name |-> n, url |-> u, token |-> issued']
        /\ saved'[i] = [name |-> n, url |-> u] /\ saved'[i] # NULL
    <3>1. \A v \in Names, w \in Urls : [name |-> v, url |-> w] # NULL
      OBVIOUS
    <3> QED BY <2>1, <3>1, <1>t
  <2>4. \A b \in Admins : ~Update(b)
    BY <1>2, <1>t DEF Create, Update, Call, Goto
  <2>5. raced' = raced BY <1>2 DEF Create
  <2>6. \A j \in born : j \in Existing' => j \in Existing /\ profile'[j] = profile[j]
    BY <2>2 DEF Existing
  <2>7. \A b \in Admins : EditAt(b)' BY <1>k, <2>4, <2>5, <2>6
  <2>8. Existing' \subseteq Existing \cup {i} BY <2>2, <1>t DEF Existing
  <2>9. \A j \in Existing' : saved'[j] # NULL BY <2>2, <2>3, <2>8, <1>t DEF Edited
  <2> QED BY <1>a, <2>2, <2>3, <2>5, <2>7, <2>8, <2>9, <1>t DEF SavedStays
<1>3. ASSUME NEW a \in Admins, Delete(a) PROVE Edited' /\ SavedStays'
  <2>1. PICK i \in Existing : /\ profile' = [profile EXCEPT ![i] = NULL]
                              /\ saved' = [saved EXCEPT ![i] = NULL]
    BY <1>3 DEF Delete
  <2>2. /\ profile'[i] = NULL
        /\ \A j \in Profiles : j # i => profile'[j] = profile[j] /\ saved'[j] = saved[j]
    BY <2>1, <1>t
  <2>3. Existing' = Existing \ {i} BY <2>2 DEF Existing
  <2>4. UNCHANGED <<pc, edit, raced>> BY <1>3 DEF Delete, locals, edits
  <2>5. \A b \in Admins : EditAt(b)' BY <1>e, <2>2, <2>3, <2>4, <1>t DEF EditAt
  <2> QED BY <1>a, <2>2, <2>3, <2>4, <2>5, <1>t DEF Edited, SavedStays
<1>4. ASSUME NEW a \in Admins, ResetToken(a) PROVE Edited' /\ SavedStays'
  <2>1. PICK i \in Existing : profile' = [profile EXCEPT ![i].token = issued']
    BY <1>4 DEF ResetToken
  <2>2. UNCHANGED <<pc, edit, raced, saved>> BY <1>4 DEF ResetToken, locals, edits
  <2>3. \A j \in Existing : /\ profile'[j].name = profile[j].name
                            /\ profile'[j].url = profile[j].url
    BY <2>1, <1>t DEF Existing, Profile
  <2>4. Existing' \subseteq Existing BY <2>1, <1>t DEF Existing
  <2>5. \A b \in Admins : EditAt(b)' BY <1>e, <2>2, <2>3, <2>4 DEF EditAt
  <2> QED BY <1>a, <2>2, <2>3, <2>4, <2>5 DEF Edited, SavedStays
<1>5. ASSUME NEW a \in Admins, UpdateWrite(a) PROVE Edited' /\ SavedStays'
  <2> DEFINE i == edit[a].id
  <2>1. /\ pc[a] = "updating" /\ edit[a] \in Edit /\ i \in born /\ Leave(a)
        /\ raced' = raced
    BY <1>5, <1>t DEF UpdateWrite, Stages
  <2>2. \A b \in Admins \ {a} : pc'[b] = pc[b] /\ edit'[b] = edit[b]
    BY <1>5, AdminAlone, <1>t DEF Same
  <2>3. pc'[a] = "idle" BY <2>1, Left, <1>t
  <2>4. CASE ~UpdateApplies(a)
    <3>1. UNCHANGED <<profile, saved>> BY <1>5, <2>4 DEF UpdateWrite
    <3>2. \A b \in Admins : EditAt(b)'
      BY <1>e, <2>1, <2>2, <2>3, <3>1 DEF EditAt, Existing
    <3> QED BY <1>a, <2>1, <3>1, <3>2 DEF Edited, SavedStays, Existing
  <2>5. CASE UpdateApplies(a)
    <3>1. /\ i \in Existing
          /\ profile' = [profile EXCEPT ![i].name = edit[a].name, ![i].url = edit[a].url]
          /\ saved' = [saved EXCEPT
                ![i] = [name |-> IF "name" \in edit[a].given THEN edit[a].name ELSE @.name,
                        url |-> IF "url" \in edit[a].given THEN edit[a].url ELSE @.url]]
      BY <1>5, <2>5 DEF UpdateWrite, UpdateApplies
    <3>2. /\ profile[i] \in Profile /\ saved[i] \in [name : Names, url : Urls]
      BY <3>1, <1>t DEF Existing, Edited
    <3>3. /\ profile'[i].name = edit[a].name /\ profile'[i].url = edit[a].url
          /\ saved'[i] = [name |-> IF "name" \in edit[a].given THEN edit[a].name
                                   ELSE saved[i].name,
                          url |-> IF "url" \in edit[a].given THEN edit[a].url
                                  ELSE saved[i].url]
          /\ \A j \in Profiles : j # i => profile'[j] = profile[j] /\ saved'[j] = saved[j]
      BY <3>1, <3>2, <1>t DEF Profile
    <3>4. Existing' \subseteq Existing BY <3>1, <3>3, <1>t DEF Existing
    <3>5. \A j \in Existing' : saved'[j] # NULL
      <4>1. saved'[i] \in [name : Names, url : Urls] BY <2>1, <3>2, <3>3 DEF Edit
      <4>2. saved'[i] # NULL BY <4>1
      <4> QED BY <3>3, <3>4, <4>2, <1>t DEF Edited
    <3>6. ASSUME NEW b \in Admins PROVE EditAt(b)'
      <4>1. CASE b = a BY <2>3, <4>1 DEF EditAt
      <4>2. CASE b # a /\ pc[b] = "updating" /\ edit[b].id \notin raced
        <5>1. EditAt(b) BY <1>e
        <5>2. edit[b].id # i /\ edit[b].id \in born BY <5>1, <4>2, <2>1 DEF EditAt, Stages
        <5>3. edit[b].id \in Existing' =>
                 /\ edit[b].id \in Existing /\ profile'[edit[b].id] = profile[edit[b].id]
          BY <5>2, <3>3, <3>4, <1>t
        <5> QED BY <4>2, <5>1, <5>2, <5>3, <2>1, <2>2, <2>3 DEF EditAt
      <4>3. CASE b # a /\ ~(pc[b] = "updating" /\ edit[b].id \notin raced)
        BY <4>3, <2>1, <2>2 DEF EditAt
      <4> QED BY <4>1, <4>2, <4>3
    <3>7. SavedStays'
      <4> SUFFICES ASSUME NEW j \in Existing', j \notin raced
                   PROVE  profile'[j].name = saved'[j].name /\ profile'[j].url = saved'[j].url
        BY <2>1 DEF SavedStays
      <4>1. CASE j # i BY <4>1, <3>3, <3>4, <1>t DEF SavedStays
      <4>2. CASE j = i
        <5>1. profile[i].name = saved[i].name /\ profile[i].url = saved[i].url
          BY <4>2, <3>1 DEF SavedStays
        <5>2. /\ "name" \in edit[a].given \/ edit[a].name = profile[i].name
              /\ "url" \in edit[a].given \/ edit[a].url = profile[i].url
          BY <1>e, <2>1, <3>1, <4>2 DEF EditAt
        <5> QED BY <5>1, <5>2, <4>2, <3>3
      <4> QED BY <4>1, <4>2
    <3> QED BY <1>a, <3>5, <3>6, <3>7
  <2> QED BY <2>4, <2>5
<1>6. ASSUME NEW a \in Admins, Update(a) PROVE Edited' /\ SavedStays'
  <2>1. PICK i \in Existing, n \in Names \cup {NULL}, u \in Urls \cup {NULL} :
          /\ edit' = [edit EXCEPT ![a] =
                [id |-> i, name |-> Given(n, profile[i].name),
                 url |-> Given(u, profile[i].url),
                 given |-> (IF n = NULL THEN {} ELSE {"name"})
                           \cup (IF u = NULL THEN {} ELSE {"url"})]]
          /\ raced' = IF \E b \in Admins : pc[b] = "updating" /\ edit[b].id = i
                      THEN raced \cup {i} ELSE raced
    BY <1>6 DEF Update
  <2>2. /\ edit'[a].id = i
        /\ "name" \in edit'[a].given \/ edit'[a].name = profile[i].name
        /\ "url" \in edit'[a].given \/ edit'[a].url = profile[i].url
    BY <2>1, <1>t DEF Given
  <2>3. /\ pc[a] = "idle" /\ pc' = [pc EXCEPT ![a] = "updating"]
        /\ UNCHANGED <<profile, saved>>
    BY <1>6 DEF Update, Call, Goto, tables
  <2>4. \A b \in Admins \ {a} : pc'[b] = pc[b] /\ edit'[b] = edit[b] BY <2>1, <2>3, <1>t
  <2>5. raced \subseteq raced' BY <2>1
  <2>6. Existing' = Existing BY <2>3 DEF Existing
  <2>7. ASSUME NEW b \in Admins, pc'[b] = "updating", edit'[b].id \notin raced'
        PROVE  EditAt(b)'
    <3>1. CASE b = a
      <4>1. \A d \in Admins \ {a} : pc'[d] = "updating" => edit'[d].id # i
        BY <2>1, <2>2, <2>4, <2>7, <3>1
      <4> QED BY <3>1, <4>1, <2>2, <2>3, <2>6 DEF EditAt
    <3>2. CASE b # a
      <4>1. pc[b] = "updating" /\ edit'[b] = edit[b] /\ edit[b].id \notin raced
        BY <3>2, <2>4, <2>5, <2>7
      <4>2. edit[b].id # i BY <4>1, <2>1, <2>7
      <4>3. \A d \in Admins \ {b} : pc'[d] = "updating" => edit'[d].id # edit'[b].id
        <5>1. EditAt(b) BY <1>e
        <5> QED BY <5>1, <4>1, <4>2, <2>2, <2>4 DEF EditAt
      <4>4. EditAt(b) BY <1>e
      <4> QED BY <4>1, <4>3, <4>4, <2>3, <2>6 DEF EditAt
    <3> QED BY <3>1, <3>2
  <2>8. \A b \in Admins : EditAt(b)' BY <2>7 DEF EditAt
  <2> QED BY <1>a, <2>3, <2>5, <2>6, <2>8 DEF Edited, SavedStays
<1> QED BY <1>1, <1>2, <1>3, <1>4, <1>5, <1>6, EditWriters

-----------------------------------------------------------------------------
(***************************************************************************)
(* The theorems.                                                           *)
(***************************************************************************)
LEMMA NextInv == Inv /\ [Next]_vars => Inv'
<1> SUFFICES ASSUME Inv, [Next]_vars PROVE Inv' OBVIOUS
<1>1. TypeOK' BY TypeNext DEF Inv
<1>2. Tokened' BY TokenedNext DEF Inv
<1>3. Prefixed' BY PrefixedNext DEF Inv
<1>4. Buried' BY <1>1, BuriedNext DEF Inv
<1>5. Gated' /\ LetInWasLive' BY <1>1, GatedNext DEF Inv
<1>6. Stages' BY <1>1, StagesNext DEF Inv
<1>7. Edited' /\ SavedStays' BY EditedNext DEF Inv
<1>8. NoOrphanRow' BY NoOrphanRowNext DEF Inv
<1> QED BY <1>1, <1>2, <1>3, <1>4, <1>5, <1>6, <1>7, <1>8 DEF Inv

\* Types, tokens, prefixes, buried links, the locals of each await, edits and
\* rows are as Inv says in every reachable state.
THEOREM InvHolds == Spec => []Inv
<1>1. Init => Inv BY InitInv
<1>2. Inv /\ [Next]_vars => Inv' BY NextInv
<1> QED BY <1>1, <1>2, PTL DEF Spec

\* public_gate reads prefix and token at different moments, and still lets
\* only links in that were live when the request arrived.
THEOREM LetInWasLiveHolds == Spec => []LetInWasLive
<1>1. Inv => LetInWasLive BY DEF Inv
<1> QED BY <1>1, InvHolds, PTL

\* A link that stopped working stays dead, unless two resets of the public
\* path overlapped.
THEOREM RevokedStaysDeadHolds == Spec => []RevokedStaysDead
<1>1. Inv => RevokedStaysDead
  <2> SUFFICES ASSUME Inv, ~tangled, NEW l \in dead, l \in LiveLinks PROVE FALSE
    BY DEF RevokedStaysDead, Inv, TypeOK
  <2>1. l[1] = prefix /\ Owner(l[2]) # {} BY DEF LiveLinks, Live
  <2> QED BY <2>1 DEF Inv, Buried
<1> QED BY <1>1, InvHolds, PTL

\* What was saved for a field stays until another value is given for it,
\* unless two updates of the profile overlapped.
THEOREM SavedStaysHolds == Spec => []SavedStays
<1>1. Inv => SavedStays BY DEF Inv
<1> QED BY <1>1, InvHolds, PTL
=============================================================================
