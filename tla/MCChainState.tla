---------------------------- MODULE MCChainState ----------------------------
(* Small trees for ChainState. *)
EXTENDS ChainState

CONSTANTS g, a1, a2, a3, b1, b2

(***************************************************************************)
(*   g - a1 - a2 - a3                                                      *)
(*    \- b1 - b2                                                           *)
(***************************************************************************)
ParentOf(b) == CASE b = a2 -> a1 [] b = a3 -> a2 [] b = b2 -> b1 [] OTHER -> g
MCParent == [b \in Block |-> ParentOf(b)]
Line[b \in Block] == IF b = Genesis THEN {b} ELSE {b} \cup Line[Parent[b]]
MCAncestors == [b \in Block |-> Line[b]]
MCHeight == [b \in Block |-> Cardinality(Line[b]) - 1]
=============================================================================
