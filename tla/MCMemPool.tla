----------------------------- MODULE MCMemPool -----------------------------
(* A small world of transactions for MemPool. *)
EXTENDS MemPool

CONSTANTS g1, m1, n1, s1, t1, u1, v1, w1, x1, y1,   \* transactions
          ga, gb, gc, mo, so, to, uo, vo, xo        \* outputs

(***************************************************************************)
(* g1, m1, n1: coinbases; s1: a coinstake that spends gb.                  *)
(* t1 spends ga, and u1 spends ga and gb; v1 spends the output of t1 and   *)
(* that of m1, w1 that of v1, and x1 that of t1.  y1 spends gc and that of *)
(* s1.                                                                     *)
(***************************************************************************)
MCOf == ga :> g1 @@ gb :> g1 @@ gc :> g1 @@ mo :> m1 @@ so :> s1 @@ to :> t1 @@ uo :> u1
        @@ vo :> v1 @@ xo :> x1
MCInputs == g1 :> {} @@ m1 :> {} @@ n1 :> {} @@ s1 :> {gb} @@ t1 :> {ga} @@ u1 :> {ga, gb}
            @@ v1 :> {to, mo} @@ w1 :> {vo} @@ x1 :> {to} @@ y1 :> {gc, so}
MCTxOrder == <<g1, m1, n1, s1, t1, u1, v1, w1, x1, y1>>
MCHashOrder == <<w1, y1, v1, x1, u1, t1, s1, n1, m1, g1>>
=============================================================================
