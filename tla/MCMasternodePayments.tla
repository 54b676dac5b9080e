------------------------ MODULE MCMasternodePayments ------------------------
(* Two masternodes, whose votes are both needed for the first height; one  *)
(* of them stops and starts, and votes for the second height too.          *)
EXTENDS MasternodePayments, TLC

CONSTANTS m1, m2, a, b

MCVoters == [h \in Height |-> CASE h = 1 -> {m1, m2} [] h = 2 -> {m1} [] OTHER -> {}]
PayeeSymmetry == Permutations(Payee)
=============================================================================
