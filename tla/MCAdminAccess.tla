--------------------------- MODULE MCAdminAccess ----------------------------
(***************************************************************************)
(* TLC instance of AdminAccess: a purge from the second bucket on, windows *)
(* and sessions that end within the bounded time.                          *)
(***************************************************************************)
EXTENDS AdminAccess
=============================================================================
