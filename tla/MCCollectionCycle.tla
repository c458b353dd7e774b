------------------------- MODULE MCCollectionCycle --------------------------
(* Small instances of CollectionCycle; the constants are given in the cfg.  *)
EXTENDS CollectionCycle
=============================================================================
