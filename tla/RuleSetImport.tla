--------------------------- MODULE RuleSetImport ----------------------------
(***************************************************************************)
(* The rule-sets of one profile and the library they are imported from:    *)
(* import, create, update and delete of profile_rule_sets.rs, create,      *)
(* update and delete of rule_sets.rs, the validation of both (normalize in *)
(* rulelib.rs) and put_rules of profiles.rs.                               *)
(*                                                                         *)
(* No handler holds a transaction or a lock: import asks the database once *)
(* or more for every name, then reads the rules text, appends to it and    *)
(* writes it back.  A rules text is the sequence of the names its RULE-SET *)
(* lines refer to; a definition is its source and URL.  The resync that    *)
(* follows a write of the rules is SubscriptionCache's, the mirror of a    *)
(* definition RuleSetMirror's, and the display order of the library is not *)
(* told apart.                                                             *)
(*                                                                         *)
(* A fault is a handler dropped at an await or a database error there.     *)
(***************************************************************************)
EXTENDS Naturals, SequencesExt, Listing

CONSTANTS Admins,       \* handlers of the admin API
          Names,        \* names of rule-sets
          Urls,
          LibIds,       \* ids of library rows that may be drawn
          Requests,     \* the lists of names that are imported
          Texts,        \* rules texts that put_rules saves
          MaxEdits,     \* bound: admin calls other than imports
          MaxFaults,    \* bound: faults
          BLANK,        \* a name or URL that trims to nothing
          NULL

ASSUME ImportBoundsAssumption == MaxEdits \in Nat /\ MaxFaults \in Nat
ASSUME RequestsAssumption ==
    /\ BLANK \notin Names /\ BLANK \notin Urls
    /\ Requests \subseteq Seq(Names \cup {BLANK})
    /\ Texts \subseteq Seq(Names)

Manual == [source |-> "manual", url |-> NULL]
Remote(u) == [source |-> "remote", url |-> u]
Def == {Manual} \cup {Remote(u) : u \in Urls}
Body == [source : {"manual"}, url : {BLANK}]
        \cup [source : {"remote"}, url : Urls \cup {BLANK}]

LibRow == [name : Names, def : Def]
Edit == [id : LibIds, url : Urls \cup {NULL}]

ASSUME ImportNullAssumption == NULL \notin Names \cup Urls \cup Def \cup Edit

VARIABLES lib,      \* rule_sets: name and definition by id, or NULL
          own,      \* profile_rule_sets: definition by (unique) name, or NULL
          rules,    \* rulesets.content
          pc,
          names,    \* the normalised names of an import
          todo,     \* those it has not come to
          found,    \* the library definition it read
          text,     \* the rules it read
          edit,     \* update of the library: the row and the URL it read
          edits, faults,
          asked,    \* history: names of answered imports no one has removed
          excused   \* history: names referenced without a definition by right

tables == <<lib, own, rules>>
locals == <<names, todo, found, text, edit>>
bounds == <<edits, faults>>
history == <<asked, excused>>
vars == <<tables, pc, locals, bounds, history>>

TypeOK ==
    /\ lib \in [LibIds -> LibRow \cup {NULL}]
    /\ own \in [Names -> Def \cup {NULL}]
    /\ rules \in Seq(Names)
    /\ pc \in [Admins -> {"idle", "checking", "copying", "inserting",
                          "writing", "lib_updating"}]
    /\ names \in [Admins -> Seq(Names)] /\ todo \in [Admins -> Seq(Names)]
    /\ found \in [Admins -> Def \cup {NULL}]
    /\ text \in [Admins -> Seq(Names)]
    /\ edit \in [Admins -> Edit \cup {NULL}]
    /\ edits \in 0 .. MaxEdits /\ faults \in 0 .. MaxFaults
    /\ asked \in SUBSET Names /\ excused \in SUBSET Names

LibNameFree(l, n, i) == \A j \in LibIds \ {i} : l[j] # NULL => l[j].name # n

\* Some library, and a profile that has just been created.
Init ==
    /\ lib \in [LibIds -> LibRow \cup {NULL}]
    /\ \A i \in LibIds : lib[i] # NULL => LibNameFree(lib, lib[i].name, i)
    /\ own = [n \in Names |-> NULL] /\ rules = <<>>
    /\ pc = [a \in Admins |-> "idle"]
    /\ names = [a \in Admins |-> <<>>] /\ todo = [a \in Admins |-> <<>>]
    /\ found = [a \in Admins |-> NULL] /\ text = [a \in Admins |-> <<>>]
    /\ edit = [a \in Admins |-> NULL]
    /\ edits = 0 /\ faults = 0
    /\ asked = {} /\ excused = {}

-----------------------------------------------------------------------------
\* Mutant: names are not told apart from what was seen.
NormalizeNoDedup(s) == Pick(s, {i \in DOMAIN s : s[i] # BLANK})

\* normalize_names: blanks are dropped, the first of equal names stays.
NormalizeNames(s) ==
    Pick(s, {i \in DOMAIN s : s[i] # BLANK /\ \A j \in 1 .. i - 1 : s[j] # s[i]})

\* Mutant: a remote without a URL is accepted.
AcceptsAny(body, stored) == TRUE

\* normalize: a remote needs a URL, its own or the one that is stored.
Accepts(body, stored) ==
    body.source = "manual" \/ body.url # BLANK \/ stored # NULL

Normalize(body, stored) ==
    IF body.source = "manual" THEN Manual
    ELSE Remote(IF body.url # BLANK THEN body.url ELSE stored)

\* Mutant: lines only for names without a definition.
MissingUndefined(asks, t) == Pick(asks, {i \in DOMAIN asks : own[asks[i]] = NULL})

\* The names of an import that the text does not refer to.
Missing(asks, t) == Pick(asks, {i \in DOMAIN asks : asks[i] \notin ToSet(t)})

Goto(a, l) == pc' = [pc EXCEPT ![a] = l]

Leave(a) == /\ Goto(a, "idle")
            /\ names' = [names EXCEPT ![a] = <<>>]
            /\ todo' = [todo EXCEPT ![a] = <<>>]
            /\ found' = [found EXCEPT ![a] = NULL]
            /\ text' = [text EXCEPT ![a] = <<>>]
            /\ edit' = [edit EXCEPT ![a] = NULL]

-----------------------------------------------------------------------------
(***************************************************************************)
(* import                                                                  *)
(***************************************************************************)
Import(a) ==
    /\ pc[a] = "idle"
    /\ \E r \in Requests :
          /\ names' = [names EXCEPT ![a] = NormalizeNames(r)]
          /\ todo' = [todo EXCEPT ![a] = NormalizeNames(r)]
    /\ Goto(a, "checking")
    /\ UNCHANGED <<tables, found, text, edit, bounds, history>>

NextName(a) == todo' = [todo EXCEPT ![a] = Tail(@)]

\* Mutant: an existing definition ends the loop.
CheckOwnStops(a) ==
    /\ pc[a] = "checking" /\ todo[a] # <<>>
    /\ IF own[Head(todo[a])] # NULL
       THEN todo' = [todo EXCEPT ![a] = <<>>] /\ UNCHANGED pc
       ELSE Goto(a, "copying") /\ UNCHANGED todo
    /\ UNCHANGED <<tables, names, found, text, edit, bounds, history>>

\* A name the profile defines already is skipped.
CheckOwn(a) ==
    /\ pc[a] = "checking" /\ todo[a] # <<>>
    /\ IF own[Head(todo[a])] # NULL
       THEN NextName(a) /\ UNCHANGED pc
       ELSE Goto(a, "copying") /\ UNCHANGED todo
    /\ UNCHANGED <<tables, names, found, text, edit, bounds, history>>

Holders(n) == {i \in LibIds : lib[i] # NULL /\ lib[i].name = n}

\* Mutant: a name the library does not have ends the loop.
ReadLibraryStops(a) ==
    LET n == Head(todo[a])
    IN /\ pc[a] = "copying"
       /\ IF Holders(n) = {}
          THEN /\ todo' = [todo EXCEPT ![a] = <<>>] /\ Goto(a, "checking")
               /\ excused' = excused \cup {n}
               /\ UNCHANGED found
          ELSE /\ \E i \in Holders(n) : found' = [found EXCEPT ![a] = lib[i].def]
               /\ Goto(a, "inserting")
               /\ UNCHANGED <<todo, excused>>
       /\ UNCHANGED <<tables, names, text, edit, bounds, asked>>

\* So is one the library does not have.
ReadLibrary(a) ==
    LET n == Head(todo[a])
    IN /\ pc[a] = "copying"
       /\ IF Holders(n) = {}
          THEN /\ NextName(a) /\ Goto(a, "checking")
               /\ excused' = excused \cup {n}
               /\ UNCHANGED found
          ELSE /\ \E i \in Holders(n) : found' = [found EXCEPT ![a] = lib[i].def]
               /\ Goto(a, "inserting")
               /\ UNCHANGED <<todo, excused>>
       /\ UNCHANGED <<tables, names, text, edit, bounds, asked>>

\* Mutant: the copy replaces what it finds.
InsertOrReplace(a) ==
    /\ pc[a] = "inserting"
    /\ own' = [own EXCEPT ![Head(todo[a])] = found[a]]
    /\ NextName(a) /\ Goto(a, "checking")
    /\ UNCHANGED <<lib, rules, names, found, text, edit, bounds, history>>

\* The copy; a name that is taken by now ends the import with a conflict.
Insert(a) ==
    /\ pc[a] = "inserting"
    /\ IF own[Head(todo[a])] = NULL
       THEN /\ own' = [own EXCEPT ![Head(todo[a])] = found[a]]
            /\ NextName(a) /\ Goto(a, "checking")
            /\ UNCHANGED <<names, found, text, edit>>
       ELSE Leave(a) /\ UNCHANGED own
    /\ UNCHANGED <<lib, rules, bounds, history>>

\* With all names done the rules are read; nothing is written when they refer
\* to every name.
ReadRules(a) ==
    /\ pc[a] = "checking" /\ todo[a] = <<>>
    /\ IF Missing(names[a], rules) = <<>>
       THEN Leave(a) /\ asked' = asked \cup ToSet(names[a])
       ELSE /\ text' = [text EXCEPT ![a] = rules]
            /\ Goto(a, "writing")
            /\ UNCHANGED <<names, todo, found, edit, asked>>
    /\ UNCHANGED <<tables, bounds, excused>>

\* The whole text is written back with a line for each name it lacked.
WriteRules(a) ==
    /\ pc[a] = "writing"
    /\ rules' = text[a] \o Missing(names[a], text[a])
    /\ asked' = (IF text[a] = rules THEN asked ELSE {}) \cup ToSet(names[a])
    /\ Leave(a)
    /\ UNCHANGED <<lib, own, bounds, excused>>

-----------------------------------------------------------------------------
(***************************************************************************)
(* The other calls of the admin.                                           *)
(***************************************************************************)
Call(a) == /\ pc[a] = "idle"
           /\ edits < MaxEdits /\ edits' = edits + 1
           /\ UNCHANGED faults

PutRules(a) ==
    /\ Call(a)
    /\ rules' \in Texts
    /\ asked' = {}
    /\ excused' = excused \cup ToSet(rules')
    /\ UNCHANGED <<lib, own, pc, locals>>

\* create in the profile, or 409.
OwnCreate(a) ==
    /\ Call(a)
    /\ \E n \in Names, b \in Body :
          /\ own[n] = NULL /\ Accepts(b, NULL)
          /\ own' = [own EXCEPT ![n] = Normalize(b, NULL)]
    /\ UNCHANGED <<lib, rules, pc, locals, history>>

\* update in the profile, which may rename; the URL it keeps is read and
\* written in one step here.
OwnUpdate(a) ==
    /\ Call(a)
    /\ \E n, m \in Names, b \in Body :
          /\ own[n] # NULL /\ (m = n \/ own[m] = NULL)
          /\ Accepts(b, own[n].url)
          /\ own' = [own EXCEPT ![n] = NULL, ![m] = Normalize(b, own[n].url)]
          /\ excused' = IF m = n THEN excused ELSE excused \cup {n}
    /\ UNCHANGED <<lib, rules, pc, locals, asked>>

OwnDelete(a) ==
    /\ Call(a)
    /\ \E n \in Names : /\ own[n] # NULL
                        /\ own' = [own EXCEPT ![n] = NULL]
                        /\ excused' = excused \cup {n}
    /\ UNCHANGED <<lib, rules, pc, locals, asked>>

\* create in the library; an id is not drawn again while anyone refers to it.
ReferredIds == {edit[a].id : a \in {b \in Admins : edit[b] # NULL}}

LibCreate(a) ==
    /\ Call(a)
    /\ \E i \in LibIds, n \in Names, b \in Body :
          /\ lib[i] = NULL /\ i \notin ReferredIds
          /\ LibNameFree(lib, n, i) /\ Accepts(b, NULL)
          /\ lib' = [lib EXCEPT ![i] = [name |-> n, def |-> Normalize(b, NULL)]]
    /\ UNCHANGED <<own, rules, pc, locals, history>>

\* update in the library reads the row for its URL ...
LibUpdate(a) ==
    /\ Call(a)
    /\ \E i \in LibIds :
          /\ lib[i] # NULL
          /\ edit' = [edit EXCEPT ![a] = [id |-> i, url |-> lib[i].def.url]]
    /\ Goto(a, "lib_updating")
    /\ UNCHANGED <<tables, names, todo, found, text, history>>

\* ... and writes all of it, unless the body is refused, the row is gone or
\* the new name is taken.
LibUpdateWrite(a) ==
    /\ pc[a] = "lib_updating"
    /\ LET e == edit[a]
       IN \/ lib' = lib
          \/ \E n \in Names, b \in Body :
                /\ lib[e.id] # NULL /\ LibNameFree(lib, n, e.id) /\ Accepts(b, e.url)
                /\ lib' = [lib EXCEPT ![e.id] =
                              [name |-> n, def |-> Normalize(b, e.url)]]
    /\ Leave(a)
    /\ UNCHANGED <<own, rules, bounds, history>>

LibDelete(a) ==
    /\ Call(a)
    /\ \E i \in LibIds : lib[i] # NULL /\ lib' = [lib EXCEPT ![i] = NULL]
    /\ UNCHANGED <<own, rules, pc, locals, history>>

\* The handler is dropped, or a statement fails: what it has done stays.
Abort(a) ==
    /\ pc[a] # "idle"
    /\ faults < MaxFaults /\ faults' = faults + 1
    /\ Leave(a)
    /\ UNCHANGED <<tables, edits, history>>

ImportStep(a) == \/ CheckOwn(a) \/ ReadLibrary(a) \/ Insert(a)
                 \/ ReadRules(a) \/ WriteRules(a)

Next == \E a \in Admins :
    \/ Import(a) \/ ImportStep(a)
    \/ PutRules(a) \/ OwnCreate(a) \/ OwnUpdate(a) \/ OwnDelete(a)
    \/ LibCreate(a) \/ LibUpdate(a) \/ LibUpdateWrite(a) \/ LibDelete(a)
    \/ Abort(a)

Retry(a, r) == Import(a) /\ names'[a] = NormalizeNames(r)

\* Handlers that are not dropped go on; who wants a list keeps asking for it.
Fairness ==
    /\ \A a \in Admins : WF_vars(ImportStep(a) \/ LibUpdateWrite(a))
    /\ \A r \in Requests : SF_vars(\E a \in Admins : Retry(a, r))

Spec == Init /\ [][Next]_vars /\ Fairness

-----------------------------------------------------------------------------
(***************************************************************************)
(* Properties.                                                             *)
(***************************************************************************)

\* However often and however overlapped names are imported, what imports add
\* to the text that an admin saved refers to no name that the text or an
\* addition has already.
AddedOnce(s) ==
    \E t \in Texts \cup {<<>>} :
        /\ IsPrefix(t, s)
        /\ \A j \in Len(t) + 1 .. Len(s), i \in 1 .. Len(s) : i < j => s[i] # s[j]
ReferredOnce == AddedOnce(rules)

\* The names of an answered import stay referred to until an admin saves
\* other rules, or an import that read the rules before writes over them.
AskedStaysReferenced == asked \subseteq ToSet(rules)

\* A RULE-SET line has its definition in the profile, although the two are
\* written in different steps: the exceptions are names the library did not
\* have, names put_rules wrote, and definitions removed since.
ReferredIsDefined ==
    \A n \in ToSet(rules) : own[n] # NULL \/ n \in excused

\* No stored definition is a remote without a URL, which convert would have
\* to refuse, in the library, in the profile, or on its way between them.
RemoteHasUrl ==
    \A d \in {own[n] : n \in Names} \cup {found[a] : a \in Admins}
             \cup {lib[i].def : i \in {j \in LibIds : lib[j] # NULL}} :
        d # NULL /\ d.source = "remote" => d.url # NULL

Inv == TypeOK /\ ReferredOnce /\ RemoteHasUrl

\* An import never replaces a definition of the profile, also not one that
\* was created after it looked.
OwnKept ==
    [][\A a \in Admins : pc[a] \in {"checking", "copying", "inserting"} /\ pc'[a] # pc[a]
          => \A n \in Names : own[n] # NULL => own'[n] = own[n]]_vars

\* An import that was cut off half-way, or stopped by a conflict, can be sent
\* again: once edits and faults are over, every name that is asked for is
\* referred to, and defined if the library has it.
RetryCompletes ==
    <>[](\A r \in Requests : \A n \in ToSet(NormalizeNames(r)) :
            Contains(rules, n) /\ (own[n] # NULL \/ Holders(n) = {}))
=============================================================================
