------------------------------ MODULE MCSwiftTX ------------------------------
(* Two requests that spend a common input, and a quorum of two masternodes. *)
EXTENDS SwiftTX, TLC

CONSTANTS A, B, i, j, m1, m2, m3

\* A and B conflict on i; j is spent by B alone.
MCInputs == [t \in Tx |-> IF t = A THEN {i} ELSE Input]

\* The masternodes this node does not run are interchangeable.
MasternodeSymmetry == Permutations(Masternode \ {Self})
=============================================================================
