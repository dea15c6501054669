--------------------------- MODULE MCPublicLinks ----------------------------
(* PublicLinks on a small instance.                                        *)
EXTENDS PublicLinks
=============================================================================
