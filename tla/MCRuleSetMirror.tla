-------------------------- MODULE MCRuleSetMirror ---------------------------
(***************************************************************************)
(* TLC instances of RuleSetMirror.  CalmSpec leaves out failing fetches    *)
(* and writes and dropped handlers: what it violates needs none of them.   *)
(***************************************************************************)
EXTENDS RuleSetMirror

CalmSpec == Init /\ [][CalmNext]_vars
=============================================================================
