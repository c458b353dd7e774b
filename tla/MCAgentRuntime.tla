--------------------------- MODULE MCAgentRuntime ---------------------------
(* Small instances of AgentRuntime.                                         *)
EXTENDS AgentRuntime, TLC

\* Sizes 1, 2, 1, 2, ...: one or two records fill a spool of 2 bytes, and the
\* record that overflows it may be the small or the large one.
MixedSizes == [e \in Events |-> IF e % 2 = 1 THEN 1 ELSE 2]

TrueClock == [t \in 0 .. MaxTime |-> t]

\* The wall clock is set back after every second tick: 0, 1, 0, 1, ...
SetBackClock == [t \in 0 .. MaxTime |-> t % 2]

AgentSymmetry == Permutations(Agents)
=============================================================================
