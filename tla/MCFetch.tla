------------------------------ MODULE MCFetch -------------------------------
(***************************************************************************)
(* A small instance of Fetch for TLC.                                      *)
(***************************************************************************)
EXTENDS Fetch
CONSTANTS v4, inner, v6, mapped, d1, d2

MCEmbedded == [a \in {mapped} |-> inner]
U(h) == [scheme |-> "http", credentials |-> FALSE, host |-> h]
MCUrls == {U(h) : h \in {v4, inner, d1, d2, LOCALHOST, NULL}}
          \cup {[U(d1) EXCEPT !.scheme = "other"], [U(d1) EXCEPT !.credentials = TRUE]}
MCAnswers == {<<>>, <<inner>>, <<mapped, v4>>, <<v6, inner>>}
=============================================================================
