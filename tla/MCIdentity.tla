----------------------------- MODULE MCIdentity -----------------------------
(* Small instances of Identity.                                             *)
EXTENDS Identity
=============================================================================
