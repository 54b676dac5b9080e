------------------------------- MODULE CoinsAbs -------------------------------
(***************************************************************************)
(* What the stack of coins views promises its users: three plain maps from *)
(* transactions to their unspent outputs, one on disk, one of the active   *)
(* chain and one a block is being applied to, with no trace of caching.    *)
(* Writing the chain to disk may happen at any time between two blocks, and*)
(* a crash goes back to what was last written, map and best block together.*)
(***************************************************************************)
CONSTANTS
    Txid, Block,
    Content,       \* what a transaction may have left to spend
    NoBlock        \* the null hash: nothing was ever written

VARIABLES disk, diskBest, chain, chainBest, work, applying

vars == <<disk, diskBest, chain, chainBest, work, applying>>

Init ==
    /\ disk \in [Txid -> Content] /\ chain = disk /\ work = disk
    /\ diskBest \in Block \cup {NoBlock} /\ chainBest = diskBest
    /\ applying = FALSE

Begin ==
    /\ ~applying /\ applying' = TRUE
    /\ UNCHANGED <<disk, diskBest, chain, chainBest, work>>

Change(t, c) ==
    /\ applying
    /\ work' = [work EXCEPT ![t] = c]
    /\ UNCHANGED <<disk, diskBest, chain, chainBest, applying>>

Commit(b) ==
    /\ applying /\ applying' = FALSE
    /\ chain' = work /\ chainBest' = b
    /\ UNCHANGED <<disk, diskBest, work>>

Forget ==
    /\ applying /\ applying' = FALSE
    /\ work' = chain
    /\ UNCHANGED <<disk, diskBest, chain, chainBest>>

Persist ==
    /\ ~applying
    /\ disk' = chain /\ diskBest' = chainBest
    /\ UNCHANGED <<chain, chainBest, work, applying>>

Crash ==
    /\ chain' = disk /\ work' = disk /\ chainBest' = diskBest
    /\ applying' = FALSE
    /\ UNCHANGED <<disk, diskBest>>

Next ==
    \/ Begin \/ Forget \/ Persist \/ Crash
    \/ \E t \in Txid, c \in Content : Change(t, c)
    \/ \E b \in Block : Commit(b)

Spec == Init /\ [][Next]_vars
=============================================================================
