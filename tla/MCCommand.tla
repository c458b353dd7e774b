------------------------------ MODULE MCCommand -----------------------------
(* A small instance of Command: two audited directories, and toggles off,   *)
(* by default, one by one and all together, each with or without the notice *)
(* and with at most one wrong value.  An audit that the notice allows runs  *)
(* with all the other collectors only: alone it takes the same steps.       *)
EXTENDS Command

MCTargets == <<{1, 2}, {}>>

MCToggles ==
  {on \in SUBSET Toggles : Cardinality(on) \in {0, 1, Cardinality(Toggles)}}
    \cup {{"network", "software"}}

MCEnvironment ==
  {e \in Environments :
     /\ e.on \in MCToggles /\ Cardinality(e.wrong) <= 1
     /\ e.on = {"file_audit"} => ~e.notice}
=============================================================================
