--------------------------- MODULE ProfileOutput ----------------------------
(***************************************************************************)
(* What stands in the output of one profile, and in which order: the       *)
(* global nodes (global_nodes.rs), the profile's groups, rules and orders  *)
(* (profiles.rs), the generation that reads them one query after the other *)
(* (convert in generate.rs) and hands them to Converter, and resync_cache, *)
(* which takes the stored output apart and puts it together again.         *)
(*                                                                         *)
(* A database call is one step.  One generation runs at a time: how        *)
(* downloads wait for each other, freshness and failures of the record are *)
(* SubscriptionCache's.  Group ids are left out: a group is found by its   *)
(* name, which is unique in the profile.                                   *)
(*                                                                         *)
(* A fault is a handler dropped at an await, or a query or fetch that      *)
(* fails; what it wrote before stays.                                      *)
(***************************************************************************)
EXTENDS Converter, FiniteSets

CONSTANTS Admins,       \* handlers of the admin API
          NodeIds,
          NodeBodies,   \* [name, shown, on] of global nodes
          GroupBodies,  \* [name, shown, members, on] of custom groups
          Feeds,        \* documents of the provider: [proxies, groups]
          Alphabet,     \* all names, sorted
          RulesTexts,
          NodeOrders, GroupOrders,  \* lists of names that are dragged
          MaxEdits,     \* bound: admin calls
          MaxUpsets,    \* bound: faults and changes of the provider's document
          GEN,          \* the task that generates
          NULL

ASSUME OutputBoundsAssumption ==
    /\ MaxEdits \in Nat /\ MaxUpsets \in Nat
    /\ GEN \notin Admins
    /\ IsFiniteSet(NodeIds)

Tasks == Admins \cup {GEN}
Names == ToSet(Alphabet)
Sections == {"provider", "custom"}

\* Rows of the tables.
NodeRow == [name : Names, shown : Names, on : BOOLEAN, pos : Nat]
GroupRow == [name : Names, shown : Names, on : BOOLEAN,
             members : SUBSET (Names \cup BuiltinPolicies)]
Line == Names \cup BuiltinPolicies \cup {OPAQUE, COMMENT}

\* What Converter makes of them.
ProxyEntry == [name : Names, from : Names \cup {"provider"}]
GroupEntry == [name : Names, from : Names,
               members : SUBSET (Names \cup BuiltinPolicies)]
Output == [proxies : Seq(ProxyEntry), groups : Seq(GroupEntry), rules : Seq(Line)]

ASSUME BodiesAssumption ==
    /\ Alphabet \in Seq(Names) /\ "provider" \notin Names
    /\ NodeBodies \subseteq [name : Names, shown : Names, on : BOOLEAN]
    /\ GroupBodies \subseteq GroupRow
    /\ RulesTexts \subseteq Seq(Line)
    /\ NodeOrders \subseteq Seq(Names) /\ GroupOrders \subseteq Seq(Names)
ASSUME FeedsAssumption ==
    \A f \in Feeds : /\ f.proxies \in Seq(Names)
                     /\ f.groups \in Seq(GroupBodies \cup {NULL})
ASSUME OutputNullAssumption ==
    NULL \notin NodeRow /\ NULL \notin GroupRow /\ NULL \notin Output

VARIABLES node,      \* global_nodes: body and pos by id, or NULL
          groups,    \* custom_groups, by created_at
          rules,     \* rulesets.content
          section,   \* profiles.node_section_order: the block that is first
          order,     \* profiles.group_order
          row,       \* generated_cache.output_yaml, or NULL
          feed,      \* the provider's document
          pc, local, \* where a handler is, and what it has read
          edits, upsets,
          strayed    \* history: a node was renamed or deleted, or has a name
                     \* that a proxy of the provider has

tables == <<node, groups, rules, section, order, row>>
bounds == <<edits, upsets>>
vars == <<tables, feed, pc, local, bounds, strayed>>

Row(b, p) == [name |-> b.name, shown |-> b.shown, on |-> b.on, pos |-> p]

\* What a handler may have read; Blank is none of it.
Blank == [provider |-> <<>>, nodes |-> <<>>, groups |-> <<>>, rules |-> <<>>,
          section |-> "provider", order |-> <<>>, names |-> {}, todo |-> <<>>,
          pos |-> 0, out |-> NULL]

\* todo holds names of nodes, or groups of the provider's document.
Local == [provider : Seq(Names), nodes : Seq(NodeRow), groups : Seq(GroupRow),
          rules : Seq(Line), section : Sections, order : Seq(Names),
          names : SUBSET Names, todo : Seq(Names \cup GroupRow \cup {NULL}),
          pos : Nat, out : Output \cup {NULL}]

Lbl == {"idle",
        "rules", "nodes", "groups", "orders", "persisting", "snapshot",
        "load", "node_order", "section", "names", "group_order",
        "resync_rules", "write",
        "inserting", "reordering", "taken", "importing"}

TypeOK ==
    /\ node \in [NodeIds -> NodeRow \cup {NULL}]
    /\ groups \in Seq(GroupRow) /\ rules \in Seq(Line)
    /\ section \in Sections /\ order \in Seq(Names)
    /\ row \in Output \cup {NULL}
    /\ feed \in Feeds
    /\ pc \in [Tasks -> Lbl] /\ local \in [Tasks -> Local]
    /\ edits \in 0 .. MaxEdits /\ upsets \in 0 .. MaxUpsets
    /\ strayed \in BOOLEAN

-----------------------------------------------------------------------------
Nodes == {i \in NodeIds : node[i] # NULL}

\* ORDER BY position, name
Letter(n) == CHOOSE k \in DOMAIN Alphabet : Alphabet[k] = n

NodeList(ids) ==
    LET Before(i, j) == \/ node[i].pos < node[j].pos
                        \/ /\ node[i].pos = node[j].pos
                           /\ Letter(node[i].name) < Letter(node[j].name)
    IN Arrange(node, ids, Before)

NodeNames == {node[i].name : i \in Nodes}
NameOf(items) == [k \in DOMAIN items |-> items[k].name]

\* UNIQUE (name) of the nodes, UNIQUE (profile_id, name) of the groups
NodeNameFree(n, i) == \A j \in Nodes \ {i} : node[j].name # n
GroupNameFree(n, k) == \A j \in DOMAIN groups \ {k} : groups[j].name # n

\* Someone else's name: of a proxy of the provider, or not that of the row.
Alias(b) == b.shown # b.name \/ \E f \in Feeds : Contains(f.proxies, b.name)

Goto(t, l) == pc' = [pc EXCEPT ![t] = l]
Leave(t) == Goto(t, "idle") /\ local' = [local EXCEPT ![t] = Blank]

\* Some pool of nodes, and a profile that has just been created.
Init ==
    /\ node \in [NodeIds -> {Row(b, p) : b \in NodeBodies, p \in 0 .. Cardinality(NodeIds)}
                          \cup {NULL}]
    /\ \A i \in Nodes : NodeNameFree(node[i].name, i) /\ ~Alias(node[i])
    /\ groups = <<>> /\ rules = <<>> /\ section = "provider" /\ order = <<>>
    /\ row = NULL
    /\ feed \in Feeds
    /\ pc = [t \in Tasks |-> "idle"] /\ local = [t \in Tasks |-> Blank]
    /\ edits = 0 /\ upsets = 0
    /\ strayed = FALSE

-----------------------------------------------------------------------------
(***************************************************************************)
(* Generation: the fetch, the queries of convert, the output and its       *)
(* snapshot.                                                               *)
(***************************************************************************)
Fetch ==
    /\ pc[GEN] = "idle"
    /\ local' = [local EXCEPT ![GEN].provider = feed.proxies]
    /\ Goto(GEN, "rules")
    /\ UNCHANGED <<tables, feed, bounds, strayed>>

ReadRules ==
    /\ pc[GEN] = "rules"
    /\ local' = [local EXCEPT ![GEN].rules = rules]
    /\ Goto(GEN, "nodes")
    /\ UNCHANGED <<tables, feed, bounds, strayed>>

\* Mutant: ordered by name only.
EnabledNodesByName ==
    LET Before(i, j) == Letter(node[i].name) < Letter(node[j].name)
    IN Arrange(node, {i \in Nodes : node[i].on}, Before)

EnabledNodes == NodeList({i \in Nodes : node[i].on})

ReadNodes ==
    /\ pc[GEN] = "nodes"
    /\ Goto(GEN, "groups")
    /\ local' = [local EXCEPT ![GEN].nodes = EnabledNodes]
    /\ UNCHANGED <<tables, feed, bounds, strayed>>

EnabledGroups == Pick(groups, {k \in DOMAIN groups : groups[k].on})

ReadGroups ==
    /\ pc[GEN] = "groups"
    /\ local' = [local EXCEPT ![GEN].groups = EnabledGroups]
    /\ Goto(GEN, "orders")
    /\ UNCHANGED <<tables, feed, bounds, strayed>>

\* Both orders come in one query; then the output is built or refused.
BuildOutput ==
    /\ pc[GEN] = "orders"
    /\ LET in == [local[GEN] EXCEPT !.section = section, !.order = order]
       IN IF Accepted(in)
          THEN /\ Goto(GEN, "persisting")
               /\ local' = [local EXCEPT ![GEN] = [Blank EXCEPT !.out = Convert(in)]]
          ELSE Leave(GEN)
    /\ UNCHANGED <<tables, feed, bounds, strayed>>

Persist ==
    /\ pc[GEN] = "persisting"
    /\ row' = local[GEN].out
    /\ Goto(GEN, "snapshot")
    /\ UNCHANGED <<node, groups, rules, section, order, feed, local, bounds, strayed>>

\* The order of the groups in the output is kept for the next one.
Snapshot ==
    /\ pc[GEN] = "snapshot"
    /\ order' = NameOf(local[GEN].out.groups)
    /\ Leave(GEN)
    /\ UNCHANGED <<node, groups, rules, section, row, feed, bounds, strayed>>

Generation == \/ Fetch \/ ReadRules \/ ReadNodes \/ ReadGroups \/ BuildOutput
              \/ Persist \/ Snapshot

FeedChanges ==
    /\ upsets < MaxUpsets /\ upsets' = upsets + 1
    /\ feed' \in Feeds \ {feed}
    /\ UNCHANGED <<tables, pc, local, edits, strayed>>

-----------------------------------------------------------------------------
(***************************************************************************)
(* resync_cache: one query after the other, then the whole output.         *)
(***************************************************************************)
ResyncLoad(a) ==
    /\ pc[a] = "load"
    /\ IF row = NULL THEN Leave(a)
       ELSE /\ local' = [local EXCEPT ![a] = [Blank EXCEPT !.out = row]]
            /\ Goto(a, "node_order")
    /\ UNCHANGED <<tables, feed, bounds, strayed>>

ResyncNodeOrder(a) ==
    /\ pc[a] = "node_order"
    /\ Goto(a, "section")
    /\ local' = [local EXCEPT ![a].todo = NameOf(NodeList(Nodes))]
    /\ UNCHANGED <<tables, feed, bounds, strayed>>

ResyncSection(a) ==
    /\ pc[a] = "section"
    /\ local' = [local EXCEPT ![a].section = section]
    /\ Goto(a, "names")
    /\ UNCHANGED <<tables, feed, bounds, strayed>>

\* Mutant: only nodes that are on.
GlobalNodeNamesOn == {node[i].name : i \in {j \in Nodes : node[j].on}}

GlobalNodeNames == NodeNames

ResyncNames(a) ==
    /\ pc[a] = "names"
    /\ local' = [local EXCEPT ![a].names = GlobalNodeNames]
    /\ Goto(a, "group_order")
    /\ UNCHANGED <<tables, feed, bounds, strayed>>

ResyncGroupOrder(a) ==
    /\ pc[a] = "group_order"
    /\ local' = [local EXCEPT ![a].order = order]
    /\ Goto(a, "resync_rules")
    /\ UNCHANGED <<tables, feed, bounds, strayed>>

ResyncRules(a) ==
    /\ pc[a] = "resync_rules"
    /\ local' = [local EXCEPT ![a].rules = rules]
    /\ Goto(a, "write")
    /\ UNCHANGED <<tables, feed, bounds, strayed>>

\* Mutant: the custom block is made from the list of nodes.
ResyncedListed(l) ==
    LET ps == l.out.proxies
        custom == {k \in DOMAIN ps : Contains(l.todo, ps[k].name)}
        provider == {k \in DOMAIN ps : ps[k].from = "provider"}
    IN [proxies |-> ConcatSections(Pick(ps, provider),
                                   ReorderPicked(ps, custom, l.todo), l.section),
        groups |-> ReorderByName(l.out.groups, l.order),
        rules |-> RuleLines(l.rules)]

\* The proxies are told apart by the names of the nodes there are now.
Resynced(l) ==
    LET ps == l.out.proxies
        custom == {k \in DOMAIN ps : ps[k].name \in l.names}
    IN [proxies |-> ConcatSections(Pick(ps, (DOMAIN ps) \ custom),
                                   ReorderPicked(ps, custom, l.todo), l.section),
        groups |-> ReorderByName(l.out.groups, l.order),
        rules |-> RuleLines(l.rules)]

\* Written by profile, whatever the row is by now; not written when equal to
\* what was read.
ResyncWrite(a) ==
    /\ pc[a] = "write"
    /\ Leave(a)
    /\ \E out \in {Resynced(local[a])} : row' = IF out = local[a].out THEN row ELSE out
    /\ UNCHANGED <<node, groups, rules, section, order, feed, bounds, strayed>>

Resync(a) ==
    \/ ResyncLoad(a) \/ ResyncNodeOrder(a) \/ ResyncSection(a) \/ ResyncNames(a)
    \/ ResyncGroupOrder(a) \/ ResyncRules(a) \/ ResyncWrite(a)

-----------------------------------------------------------------------------
(***************************************************************************)
(* The admin API.                                                          *)
(***************************************************************************)
Call(a) == /\ pc[a] = "idle"
           /\ edits < MaxEdits /\ edits' = edits + 1
           /\ UNCHANGED upsets

PutRules(a) ==
    /\ Call(a)
    /\ rules' \in RulesTexts
    /\ Goto(a, "load")
    /\ UNCHANGED <<node, groups, section, order, row, feed, local, strayed>>

SetGroupOrder(a) ==
    /\ Call(a)
    /\ order' \in GroupOrders
    /\ Goto(a, "load")
    /\ UNCHANGED <<node, groups, rules, section, row, feed, local, strayed>>

SetNodeSectionOrder(a) ==
    /\ Call(a)
    /\ section' \in Sections
    /\ Goto(a, "load")
    /\ UNCHANGED <<node, groups, rules, order, row, feed, local, strayed>>

\* Nothing is resynced after an edit of the groups.
CreateGroup(a) ==
    /\ Call(a)
    /\ \E g \in GroupBodies : GroupNameFree(g.name, 0) /\ groups' = Append(groups, g)
    /\ UNCHANGED <<node, rules, section, order, row, feed, pc, local, strayed>>

UpdateGroup(a) ==
    /\ Call(a)
    /\ \E k \in DOMAIN groups, g \in GroupBodies :
          GroupNameFree(g.name, k) /\ groups' = [groups EXCEPT ![k] = g]
    /\ UNCHANGED <<node, rules, section, order, row, feed, pc, local, strayed>>

DeleteGroup(a) ==
    /\ Call(a)
    /\ \E k \in DOMAIN groups : groups' = RemoveAt(groups, k)
    /\ UNCHANGED <<node, rules, section, order, row, feed, pc, local, strayed>>

\* import_provider_groups fetches, reads the names that are taken, and
\* inserts what is new, one group per statement.
ImportGroups(a) ==
    /\ Call(a)
    /\ local' = [local EXCEPT ![a].todo = feed.groups]
    /\ Goto(a, "taken")
    /\ UNCHANGED <<tables, feed, strayed>>

\* Groups of a type that is not supported, and names that are taken, by the
\* profile or earlier in the document, are skipped.
ToImport(list, taken) ==
    LET Fresh(k) == list[k] # NULL /\ list[k].name \notin taken
    IN Pick(list, {k \in DOMAIN list : /\ Fresh(k)
                                       /\ \A j \in 1 .. k - 1 :
                                             Fresh(j) => list[j].name # list[k].name})

ReadTaken(a) ==
    /\ pc[a] = "taken"
    /\ local' = [local EXCEPT ![a].todo = ToImport(@, NamesIn(groups))]
    /\ Goto(a, "importing")
    /\ UNCHANGED <<tables, feed, bounds, strayed>>

\* A name that is taken by now ends the import with a conflict.
InsertGroup(a) ==
    /\ pc[a] = "importing"
    /\ LET todo == local[a].todo
       IN IF todo # <<>> /\ GroupNameFree(Head(todo).name, 0)
          THEN /\ groups' = Append(groups, Head(todo))
               /\ local' = [local EXCEPT ![a].todo = Tail(todo)]
               /\ UNCHANGED pc
          ELSE Leave(a) /\ UNCHANGED groups
    /\ UNCHANGED <<node, rules, section, order, row, feed, bounds, strayed>>

-----------------------------------------------------------------------------
\* create reads the next position ...
CreateNode(a) ==
    /\ Call(a)
    /\ local' = [local EXCEPT
          ![a].pos = IF Nodes = {} THEN 0 ELSE Max({node[i].pos : i \in Nodes}) + 1]
    /\ Goto(a, "inserting")
    /\ UNCHANGED <<tables, feed, strayed>>

\* ... and inserts the node there, unless the name is taken.
InsertNode(a) ==
    /\ pc[a] = "inserting"
    /\ \E i \in NodeIds \ Nodes, b \in NodeBodies :
          IF NodeNameFree(b.name, i)
          THEN /\ node' = [node EXCEPT ![i] = Row(b, local[a].pos)]
               /\ strayed' = (strayed \/ Alias(b))
          ELSE UNCHANGED <<node, strayed>>
    /\ Leave(a)
    /\ UNCHANGED <<groups, rules, section, order, row, feed, bounds>>

\* update leaves the position alone.
UpdateNode(a) ==
    /\ Call(a)
    /\ \E i \in Nodes, b \in NodeBodies :
          /\ NodeNameFree(b.name, i)
          /\ node' = [node EXCEPT ![i] = Row(b, node[i].pos)]
          /\ strayed' = (strayed \/ b.name # node[i].name \/ Alias(b))
    /\ UNCHANGED <<groups, rules, section, order, row, feed, pc, local>>

DeleteNode(a) ==
    /\ Call(a)
    /\ \E i \in Nodes : node' = [node EXCEPT ![i] = NULL]
    /\ strayed' = TRUE
    /\ UNCHANGED <<groups, rules, section, order, row, feed, pc, local>>

\* set_order reads the names, listed ones first ...
SetNodeOrder(a) ==
    /\ Call(a)
    /\ \E o \in NodeOrders :
          local' = [local EXCEPT ![a].todo =
                       NameOf(ReorderByName(NodeList(Nodes), o))]
    /\ Goto(a, "reordering")
    /\ UNCHANGED <<tables, feed, strayed>>

\* ... and gives them their positions in one transaction, by name; every
\* profile is resynced.
WritePositions(a) ==
    /\ pc[a] = "reordering"
    /\ LET todo == local[a].todo
       IN node' = [i \in NodeIds |->
             IF i \in Nodes /\ Contains(todo, node[i].name)
             THEN [node[i] EXCEPT !.pos =
                      (CHOOSE k \in DOMAIN todo : todo[k] = node[i].name) - 1]
             ELSE node[i]]
    /\ local' = [local EXCEPT ![a] = Blank]
    /\ Goto(a, "load")
    /\ UNCHANGED <<groups, rules, section, order, row, feed, bounds, strayed>>

-----------------------------------------------------------------------------
Abort(t) ==
    /\ pc[t] # "idle"
    /\ upsets < MaxUpsets /\ upsets' = upsets + 1
    /\ Leave(t)
    /\ UNCHANGED <<tables, feed, edits, strayed>>

Edit(a) ==
    \/ PutRules(a) \/ SetGroupOrder(a) \/ SetNodeSectionOrder(a)
    \/ CreateGroup(a) \/ UpdateGroup(a) \/ DeleteGroup(a)
    \/ ImportGroups(a)
    \/ CreateNode(a) \/ UpdateNode(a) \/ DeleteNode(a) \/ SetNodeOrder(a)

Next ==
    \/ Generation \/ FeedChanges
    \/ \E a \in Admins : \/ Edit(a) \/ Resync(a) \/ ReadTaken(a) \/ InsertGroup(a)
                         \/ InsertNode(a) \/ WritePositions(a)
    \/ \E t \in Tasks : Abort(t)

\* Subscribers keep downloading; every step of a generation moves pc.  Nothing
\* is asked of the handlers: one that never goes on writes nothing more.
Fairness == WF_pc(Generation)

Spec == Init /\ [][Next]_vars /\ Fairness

-----------------------------------------------------------------------------
(***************************************************************************)
(* Properties.                                                             *)
(***************************************************************************)
ProviderPart ==
    Pick(row.proxies, {k \in DOMAIN row.proxies : row.proxies[k].from = "provider"})
CustomPart ==
    Pick(row.proxies, {k \in DOMAIN row.proxies : row.proxies[k].from # "provider"})

\* What a reference in the stored output can resolve to.
Resolvable == NamesIn(row.proxies) \cup NamesIn(row.groups) \cup BuiltinPolicies

\* No entry of the output has another name than its row.
Unaliased == /\ \A k \in DOMAIN row.proxies :
                   row.proxies[k].from \in {"provider", row.proxies[k].name}
             /\ \A k \in DOMAIN row.groups : row.groups[k].name = row.groups[k].from

\* The members of the groups in the output are in the output, although nodes,
\* groups and orders are read at different times and the output is taken
\* apart and put together by resyncs; aliases excepted (convert checks the
\* names of the rows).
GroupsClosed ==
    row # NULL /\ Unaliased =>
        \A k \in DOMAIN row.groups : row.groups[k].members \subseteq Resolvable

\* The provider's proxies stand together and in the provider's order, before
\* or after all nodes, in what generation stores and in what any resync
\* makes of it, until a node is renamed, deleted or named like a proxy of the
\* provider: then a resync takes one for the other.
BlocksKept ==
    row # NULL /\ ~strayed =>
        /\ \E f \in Feeds : NameOf(ProviderPart) = f.proxies
        /\ row.proxies \in {ProviderPart \o CustomPart, CustomPart \o ProviderPart}

NamesUnique ==
    /\ \A i \in Nodes : NodeNameFree(node[i].name, i)
    /\ \A k \in DOMAIN groups : GroupNameFree(groups[k].name, k)

Inv == TypeOK /\ NamesUnique /\ GroupsClosed

SameEntries(s, t) ==
    \A e \in ToSet(s) \cup ToSet(t) :
        Cardinality({k \in DOMAIN s : s[k] = e}) = Cardinality({k \in DOMAIN t : t[k] = e})

\* A resync adds and loses no proxy and no group, whatever has become of the
\* nodes and groups since the output was generated.
ResyncKeepsEntries ==
    [][\A a \in Admins : pc[a] = "write" /\ pc'[a] # "write" /\ row' # row =>
          /\ SameEntries(local[a].out.proxies, row'.proxies)
          /\ SameEntries(local[a].out.groups, row'.groups)]_vars

\* What generation would read now.
Wanted == [Blank EXCEPT !.provider = feed.proxies, !.nodes = EnabledNodes,
                        !.groups = EnabledGroups, !.rules = rules,
                        !.section = section, !.order = order]

\* The output agrees with the tables, said without the operations that make
\* it: the provider's block in its order, the nodes that are on by position,
\* the saved block first, the groups that are on, the rules.
Settled ==
    /\ row # NULL
    /\ {row.groups[k].from : k \in DOMAIN row.groups}
          = {groups[k].name : k \in {j \in DOMAIN groups : groups[j].on}}
    /\ \A k \in DOMAIN rules : rules[k] # COMMENT => Contains(row.rules, rules[k])
    /\ NameOf(ProviderPart) = feed.proxies
    /\ LET custom == CustomPart
       IN /\ {custom[k].from : k \in DOMAIN custom}
                = {node[i].name : i \in {j \in Nodes : node[j].on}}
          /\ \A j, k \in DOMAIN custom : j < k =>
                \E x, y \in Nodes : /\ node[x].name = custom[j].from
                                    /\ node[y].name = custom[k].from
                                    /\ node[x].pos <= node[y].pos
    /\ row.proxies = IF section = "custom" THEN CustomPart \o ProviderPart
                     ELSE ProviderPart \o CustomPart

\* Whatever edits, resyncs, drops and changes of the provider have made of
\* the output, once they are over it comes to agree with the tables and
\* stays so, if the tables can be converted at all.
OutputHeals == <>[](Settled \/ ~Accepted(Wanted))
=============================================================================
