-------------------------- MODULE MCRuleSetImport ---------------------------
(***************************************************************************)
(* A small instance of RuleSetImport for TLC.                              *)
(***************************************************************************)
EXTENDS RuleSetImport
CONSTANTS n1, n2, l1, l2, u1

MCNames == {n1, n2}
\* A list with a blank and a repeated name.
MCRequests == {<<n1, BLANK, n2, n1>>}
\* A rules text that sends two kinds of traffic by one rule-set.
MCTexts == {<<n1, n1>>}

\* The library holds both names, as remotes, or only the first.
MCInit == /\ Init
          /\ lib[l1] = [name |-> n1, def |-> Remote(u1)]
          /\ lib[l2] \in {NULL, [name |-> n2, def |-> Remote(u1)]}
MCSpec == MCInit /\ [][Next]_vars /\ Fairness
=============================================================================
