---------------------------- MODULE MCSpoolFiles ----------------------------
(* Small instances of SpoolFiles.                                           *)
EXTENDS SpoolFiles
=============================================================================
