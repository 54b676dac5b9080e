----------------------------- MODULE MCBlockTree -----------------------------
(* Small trees for BlockTree. *)
EXTENDS BlockTree

CONSTANTS g, a1, a2, a3, b1, b2, b3

(***************************************************************************)
(*   g - a1 - a2 - a3                                                      *)
(*    \    \- b2          b2 has as much work as a2 but forks from a1      *)
(*     \- b1 - b3                                                          *)
(***************************************************************************)
ParentOf(b) == IF b \in {a2, b2} THEN a1 ELSE IF b = a3 THEN a2 ELSE IF b = b3 THEN b1 ELSE g
MCParent == [b \in Block |-> ParentOf(b)]

MCHeight[b \in Block] == IF b = g THEN 0 ELSE MCHeight[ParentOf(b)] + 1

\* The same work for every block; b3 is as good as two.
MCProof == [b \in Block |-> IF b = b3 THEN 2 ELSE 1]
MCWork[b \in Block] == IF b = g THEN MCProof[b] ELSE MCWork[ParentOf(b)] + MCProof[b]
=============================================================================
