---------------------------- MODULE MCDeadLetter ----------------------------
(* Small instances of DeadLetter.                                           *)
EXTENDS DeadLetter
=============================================================================
