-------------------------- MODULE MCProfileOutput ---------------------------
(***************************************************************************)
(* A small instance of ProfileOutput for TLC.                              *)
(***************************************************************************)
EXTENDS ProfileOutput
CONSTANTS p1, p2, n1, n2, g1, g2, x, y

MCAlphabet == <<g1, g2, n1, n2, p1, p2>>
B(n, s, on) == [name |-> n, shown |-> s, on |-> on]
\* On, off, another name, and the name of a proxy of the provider.
MCNodeBodies == {B(n1, n1, TRUE), B(n1, n1, FALSE), B(n2, n2, TRUE), B(p1, p1, TRUE)}
MCGroup(n, s, ms) == [name |-> n, shown |-> s, members |-> ms, on |-> TRUE]
\* The last one has another name in its options.
MCGroupBodies == {MCGroup(g1, g1, {n1}), MCGroup(g2, g2, {p1}), MCGroup(g2, n2, {p2, g1})}
\* The second document dropped a proxy.
MCFeeds == {[proxies |-> <<p2, p1>>, groups |-> <<NULL, MCGroup(g2, g2, {p1})>>],
            [proxies |-> <<p1>>, groups |-> <<MCGroup(g2, g2, {p1})>>]}
MCRulesTexts == {<<>>, <<COMMENT, g1>>}
MCOrders == {<<n2, n1>>}
MCGroupOrders == {<<>>, <<g2, g1>>}

MCInit == /\ Init
          /\ node[x] = [name |-> n1, shown |-> n1, on |-> TRUE, pos |-> 0]
          /\ node[y] = [name |-> n2, shown |-> n2, on |-> TRUE, pos |-> 1]
          /\ feed.proxies = <<p2, p1>>
MCSpec == MCInit /\ [][Next]_vars /\ Fairness
=============================================================================
