---------------------------- MODULE MCKeyedLock -----------------------------
(* A small instance of KeyedLock for TLC. *)
EXTENDS KeyedLock
=============================================================================
