----------------------------- MODULE MCRunLoop ------------------------------
(* Small instances of RunLoop; the constants are given in the cfg file.     *)
EXTENDS RunLoop
=============================================================================
