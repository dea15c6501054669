------------------------ MODULE MCSubscriptionCache -------------------------
(***************************************************************************)
(* Small instances of SubscriptionCache for TLC.                           *)
(***************************************************************************)
EXTENDS SubscriptionCache

\* No fetch, conversion or write fails and no client goes away.
CalmSpec == Init /\ [][CalmNext]_vars

=============================================================================
