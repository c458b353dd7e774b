---------------------------- MODULE MCTransport -----------------------------
(* Small instances of Transport.                                            *)
EXTENDS Transport

\* A date in the past, and delays below and above the cap.
AskedDelays == {-4, 3, 121}
=============================================================================
