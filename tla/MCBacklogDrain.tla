--------------------------- MODULE MCBacklogDrain ---------------------------
(* Small instances of BacklogDrain.                                         *)
EXTENDS BacklogDrain
=============================================================================
