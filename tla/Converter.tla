----------------------------- MODULE Converter ------------------------------
(***************************************************************************)
(* converter.rs: the provider's document, the global nodes and a profile's *)
(* groups, rules and orders become one configuration, or are refused.      *)
(*                                                                         *)
(* A proxy or group of the output is its name and the row it came from     *)
(* ("provider", or the row's name).  The two can differ: the output takes  *)
(* a node's name from its content and lets the options of a group replace  *)
(* its name, while references are checked against the rows.  A line of     *)
(* rules is the policy it sends to, OPAQUE when the target of the line is  *)
(* not parsed, or COMMENT.  Rule-providers are SubscriptionCache's and     *)
(* RuleSetImport's.                                                        *)
(***************************************************************************)
EXTENDS Naturals, SequencesExt, Listing

CONSTANTS BuiltinPolicies, OPAQUE, COMMENT

NamesIn(items) == {items[i].name : i \in DOMAIN items}

-----------------------------------------------------------------------------
\* The place of a name; of a name listed twice the last.  Names that are not
\* listed come after all that are.
Rank(order, n) ==
    IF Contains(order, n) THEN Max({k \in DOMAIN order : order[k] = n})
    ELSE Len(order) + 1

\* reorder_by_name, of the items at the places K: a stable sort by rank.
ReorderPicked(items, K, order) ==
    LET Before(j, k) ==
            LET r == Rank(order, items[j].name)
                q == Rank(order, items[k].name)
            IN r < q \/ (r = q /\ j < k)
    IN Arrange(items, K, Before)
ReorderByName(items, order) == ReorderPicked(items, DOMAIN items, order)

\* concat_sections
ConcatSections(provider, custom, section) ==
    IF section = "custom" THEN custom \o provider ELSE provider \o custom

\* rule_lines
RuleLines(text) == Pick(text, {k \in DOMAIN text : text[k] # COMMENT})

\* rule_target of every line that has one
RuleTargets(text) == ToSet(RuleLines(text)) \ {OPAQUE}

-----------------------------------------------------------------------------
\* What groups and rules may refer to.
Known(in) == ToSet(in.provider) \cup NamesIn(in.nodes) \cup NamesIn(in.groups)
             \cup BuiltinPolicies

\* Mutant: members are not checked.
AcceptedRules(in) ==
    /\ NamesIn(in.nodes) \cap ToSet(in.provider) = {}
    /\ RuleTargets(in.rules) \subseteq Known(in)

\* validate: no custom node with the name of a provider's proxy, no member
\* and no policy that is not known.
Accepted(in) ==
    /\ NamesIn(in.nodes) \cap ToSet(in.provider) = {}
    /\ \A i \in DOMAIN in.groups : in.groups[i].members \subseteq Known(in)
    /\ RuleTargets(in.rules) \subseteq Known(in)

ProviderBlock(names) ==
    [i \in DOMAIN names |-> [name |-> names[i], from |-> "provider"]]
CustomBlock(nodes) ==
    [i \in DOMAIN nodes |-> [name |-> nodes[i].shown, from |-> nodes[i].name]]

\* build_group
BuildGroup(g) == [name |-> g.shown, from |-> g.name, members |-> g.members]

\* convert, of an input that is accepted.  The nodes come in their order.
Convert(in) ==
    [proxies |-> ConcatSections(ProviderBlock(in.provider),
                                CustomBlock(in.nodes), in.section),
     groups  |-> ReorderByName([i \in DOMAIN in.groups |-> BuildGroup(in.groups[i])],
                               in.order),
     rules   |-> RuleLines(in.rules)]
=============================================================================
