------------------------------ MODULE MemPool ------------------------------
(***************************************************************************)
(* The memory pool (src/src/txmempool.cpp) with the steps of main.cpp that *)
(* fill and empty it, and the transactions that wait for a parent          *)
(* (mapOrphanTransactions).                                                *)
(*                                                                         *)
(* Every step holds cs_main from end to end; what is hard is that a long   *)
(* series of them - messages, wallets, blocks connected and disconnected   *)
(* in any order - has to keep four maps in agreement with each other and   *)
(* with the coins of the active chain.                                     *)
(*                                                                         *)
(* A transaction is a model value with a fixed set of inputs; an output is *)
(* one too.  Whether a transaction is refused for another reason than its  *)
(* inputs (not standard, fee, priority, transaction lock, script) is       *)
(* chosen whenever the code asks, since fees, sporks and locks change.     *)
(* Zerocoin spends, which have no inputs of their own, and the size and    *)
(* fee accounts are left out.                                              *)
(***************************************************************************)
EXTENDS Integers, FiniteSets, Sequences, SequencesExt

CONSTANTS
    Tx,
    Output,
    Of,          \* the transaction an output belongs to
    Inputs,      \* the outputs a transaction spends
    Minted,      \* coinbases and coinstakes: one in each block
    TxOrder,     \* all transactions, parents first
    HashOrder,   \* all transactions, by their hashes
    Base,        \* the coinbase of the first block
    Maturity,    \* COINBASE_MATURITY
    Peer,
    MaxOrphans,  \* -maxorphantx
    MaxHeight    \* bound: the length of the chain

Parents(t) == {Of[o] : o \in Inputs[t]}
Outputs(t) == {o \in Output : Of[o] = t}

ASSUME MemPoolAssumption ==
    /\ IsFiniteSet(Tx)
    /\ Of \in [Output -> Tx] /\ Inputs \in [Tx -> SUBSET Output]
    /\ Minted \subseteq Tx /\ Base \in Minted /\ Inputs[Base] = {}
    /\ \A t \in Tx \ Minted : Inputs[t] # {}
    /\ TxOrder \in [1 .. Cardinality(Tx) -> Tx] /\ ToSet(TxOrder) = Tx
    /\ HashOrder \in [1 .. Cardinality(Tx) -> Tx] /\ ToSet(HashOrder) = Tx
    /\ \A i, j \in DOMAIN TxOrder : TxOrder[i] \in Parents(TxOrder[j]) => i < j
    /\ Maturity \in Nat /\ MaxOrphans \in Nat /\ MaxHeight \in Nat \ {0}

VARIABLES
    chain,    \* the transactions of each block of the active chain
    pool,     \* mapTx
    next,     \* mapNextTx: who spends an output
    orphans,  \* mapOrphanTransactions, with the peer each came from
    byPrev    \* mapOrphanTransactionsByPrev: who waits for a transaction

vars == <<chain, pool, next, orphans, byPrev>>

Init ==
    /\ chain = <<{Base}>>
    /\ pool = {} /\ next = <<>>
    /\ orphans = <<>> /\ byPrev = <<>>

-----------------------------------------------------------------------------
(* The coins of the chain c. *)

Mined(c) == UNION {c[h] : h \in DOMAIN c}
Unspent(c) == {o \in Output : Of[o] \in Mined(c)} \ UNION {Inputs[t] : t \in Mined(c)}
HeightOf(c, t) == CHOOSE h \in DOMAIN c : t \in c[h]

\* The block after the chain may spend o, which lies in it.
IsMature(c, o) == Of[o] \in Minted => Len(c) + 1 - HeightOf(c, Of[o]) >= Maturity
Spendable(c, o) == o \in Unspent(c) /\ IsMature(c, o)

-----------------------------------------------------------------------------
(* CTxMemPool.  s is the pool as a record of mapTx and mapNextTx. *)

Pool == [mapTx |-> pool, mapNextTx |-> next]
Unchecked(s, t) ==
    [mapTx |-> s.mapTx \cup {t},
     mapNextTx |-> [o \in DOMAIN s.mapNextTx \cup Inputs[t] |->
                        IF o \in Inputs[t] THEN t ELSE s.mapNextTx[o]]]

\* Those of S and whatever spends from them, down to the last descendant: chains
\* are no longer than there are transactions.
Spenders(s, T) == {s.mapNextTx[o] : o \in {q \in DOMAIN s.mapNextTx : Of[q] \in T}}
WithSpenders(s, S) == FoldLeft(LAMBDA T, t : T \cup Spenders(s, T), S, TxOrder)

Removed(s, S) ==
    LET freed == UNION {Inputs[t] : t \in S \cap s.mapTx}
    IN  [mapTx |-> s.mapTx \ S,
         mapNextTx |-> [o \in DOMAIN s.mapNextTx \ freed |-> s.mapNextTx[o]]]

\* remove(..., fRecursive), for a transaction in the pool or not.
RemovedRecursively(s, S) == Removed(s, WithSpenders(s, S))

\* Mutant: maturity is counted from the block that is taken away.
RemoveCoinbaseSpends_OldHeight(s, c) ==
    RemovedRecursively(s, {t \in s.mapTx :
        \E o \in Inputs[t] : /\ Of[o] \notin s.mapTx
                             /\ Outputs(Of[o]) \cap Unspent(c) = {} \/ ~IsMature(c \o <<{}>>, o)})

\* What spends a coin that is not there or not mature in the block after c.
RemoveCoinbaseSpends(s, c) ==
    RemovedRecursively(s, {t \in s.mapTx :
        \E o \in Inputs[t] : /\ Of[o] \notin s.mapTx
                             /\ \/ Outputs(Of[o]) \cap Unspent(c) = {}
                                \/ ~IsMature(c, o)})

Conflicts(s, S) == {s.mapNextTx[o] : o \in DOMAIN s.mapNextTx \cap UNION {Inputs[t] : t \in S}} \ S

\* Mutant: what spends from the block goes with it.
RemoveForBlock_Recursive(s, block) ==
    LET left == RemovedRecursively(s, block)
    IN  RemovedRecursively(left, Conflicts(left, block))

\* No transaction of a block descends from a rival of another, so that the order
\* of the block does not matter.
RemoveForBlock(s, block) ==
    LET left == Removed(s, block)
    IN  RemovedRecursively(left, Conflicts(left, block))

-----------------------------------------------------------------------------
(* AcceptToMemoryPool. *)

\* A transaction that is not new: it, its rival or its unspent outputs are known.
Known(s, c, t) ==
    \/ t \in s.mapTx
    \/ Inputs[t] \cap DOMAIN s.mapNextTx # {}
    \/ Outputs(t) \cap Unspent(c) # {}

MissingInputs(s, c, t) ==
    /\ ~Known(s, c, t)
    /\ \E p \in Parents(t) : p \notin s.mapTx /\ Outputs(p) \cap Unspent(c) = {}

InputsFit(s, c, t) ==
    /\ ~Known(s, c, t)
    /\ \A o \in Inputs[t] : Of[o] \in s.mapTx \/ Spendable(c, o)

\* What the checks of the transaction itself come to: before the inputs are
\* looked up (lock conflicts, not standard), after that (fees), or by a script
\* that fails, for which the sender is punished.
Verdict == {"good", "refused", "dear", "invalid"}

Accepted(s, c, t, v) == v = "good" /\ t \notin Minted /\ InputsFit(s, c, t)
Orphaned(s, c, t, v) == v # "refused" /\ t \notin Minted /\ MissingInputs(s, c, t)
Punished(s, c, t, v) == v = "invalid" /\ t \notin Minted /\ InputsFit(s, c, t)

SetPool(s) == pool' = s.mapTx /\ next' = s.mapNextTx

\* A wallet, an RPC or a lock request hands in a transaction.
AcceptToMemoryPool(t) ==
    /\ Accepted(Pool, chain, t, "good")
    /\ SetPool(Unchecked(Pool, t))
    /\ UNCHANGED <<chain, orphans, byPrev>>

-----------------------------------------------------------------------------
(* Transactions that wait for a parent. *)

\* AddOrphanTx.
AddOrphanTx(t, p) ==
    [orphans |-> [o \in DOMAIN orphans \cup {t} |-> IF o = t THEN p ELSE orphans[o]],
     byPrev |-> [q \in DOMAIN byPrev \cup Parents(t) |->
                    (IF q \in DOMAIN byPrev THEN byPrev[q] ELSE {})
                        \cup (IF q \in Parents(t) THEN {t} ELSE {})]]

\* Mutant: a parent nobody waits for any more keeps its entry, the erased one in it.
EraseOrphanTx_FirstParent(w, S) ==
    LET parent(t) == CHOOSE q \in Parents(t) : TRUE
        left(q) == {t \in w.byPrev[q] : t \notin S \/ q # parent(t)}
    IN  [orphans |-> [t \in DOMAIN w.orphans \ S |-> w.orphans[t]],
         byPrev |-> [q \in {r \in DOMAIN w.byPrev : left(r) # {}} |-> left(q)]]

\* EraseOrphanTx, for each of S.
EraseOrphanTx(w, S) ==
    LET left(q) == w.byPrev[q] \ S
    IN  [orphans |-> [t \in DOMAIN w.orphans \ S |-> w.orphans[t]],
         byPrev |-> [q \in {r \in DOMAIN w.byPrev : left(r) # {}} |-> left(q)]]

Waiting == [orphans |-> orphans, byPrev |-> byPrev]
SetWaiting(w) == orphans' = w.orphans /\ byPrev' = w.byPrev

\* Mutant: one too many is kept.
LimitOrphanTxSize_OneMore(S) ==
    {E \in SUBSET S : Cardinality(E) = IF Cardinality(S) > MaxOrphans + 1
                                       THEN Cardinality(S) - MaxOrphans ELSE 0}

\* LimitOrphanTxSize evicts any of them: what it may erase.
LimitOrphanTxSize(S) ==
    {E \in SUBSET S : Cardinality(E) = IF Cardinality(S) > MaxOrphans
                                       THEN Cardinality(S) - MaxOrphans ELSE 0}

\* One orphan of the loop in the handler of "tx"; the orphans of a peer that has
\* sent a bad one are passed over.
TryOrphan(s, t, verdict) ==
    LET v == verdict[t]
    IN  IF orphans[t] \in s.misbehaving THEN s
        ELSE IF Accepted(s.pool, chain, t, v)
        THEN [s EXCEPT !.pool = Unchecked(@, t), !.work = Append(@, t), !.erase = @ \cup {t}]
        ELSE IF Orphaned(s.pool, chain, t, v) THEN s
        ELSE [s EXCEPT !.erase = @ \cup {t},
                       !.misbehaving = @ \cup (IF Punished(s.pool, chain, t, v)
                                               THEN {orphans[t]} ELSE {})]

\* Those that wait for the i-th transaction of vWorkQueue, one after another.
TryWaiting(s, i, verdict) ==
    IF i > Len(s.work) \/ s.work[i] \notin DOMAIN byPrev THEN s
    ELSE FoldLeft(LAMBDA r, t : IF t \in byPrev[s.work[i]] THEN TryOrphan(r, t, verdict) ELSE r,
                  s, HashOrder)

\* vWorkQueue: every transaction accepted gives those that waited for it a try.
WorkOff(t, verdict) ==
    FoldLeft(LAMBDA s, i : TryWaiting(s, i, verdict),
             [pool |-> Unchecked(Pool, t), work |-> <<t>>, erase |-> {}, misbehaving |-> {}],
             [i \in 1 .. Cardinality(Tx) |-> i])

\* The message "tx" of peer p.
ReceiveTx(p, t) ==
    /\ UNCHANGED chain
    /\ \/ /\ Accepted(Pool, chain, t, "good")
          /\ \E verdict \in [DOMAIN orphans -> Verdict] :
                LET done == WorkOff(t, verdict)
                IN  /\ SetPool(done.pool)
                    /\ SetWaiting(EraseOrphanTx(Waiting, done.erase))
       \/ /\ Orphaned(Pool, chain, t, "good")
          /\ LET kept == IF t \in DOMAIN orphans THEN Waiting ELSE AddOrphanTx(t, p)
             IN  \E S \in LimitOrphanTxSize(DOMAIN kept.orphans) :
                    SetWaiting(EraseOrphanTx(kept, S))
          /\ UNCHANGED <<pool, next>>

\* EraseOrphansFor, when a peer has gone.
PeerGone(p) ==
    /\ SetWaiting(EraseOrphanTx(Waiting, {t \in DOMAIN orphans : orphans[t] = p}))
    /\ UNCHANGED <<chain, pool, next>>

-----------------------------------------------------------------------------
(* Blocks. *)

\* A block is valid if each of its transactions spends coins of the chain or of
\* the others, and no two spend the same; its coinbase or coinstake those of the
\* chain only.
ValidBlock(mint, txs) ==
    LET coins == {o \in Unspent(chain) : IsMature(chain, o)}
    IN  /\ Inputs[mint] \subseteq coins
        /\ \A t \in txs : \A o \in Inputs[t] : o \in coins \/ Of[o] \in txs
        /\ \A t, r \in txs \cup {mint} : t # r => Inputs[t] \cap Inputs[r] = {}

ConnectTip(mint, txs) ==
    /\ Len(chain) < MaxHeight
    /\ ValidBlock(mint, txs)
    /\ chain' = Append(chain, {mint} \cup txs)
    /\ SetPool(RemoveForBlock(Pool, {mint} \cup txs))
    /\ UNCHANGED <<orphans, byPrev>>

\* A transaction of a block goes back to the pool where it is accepted.
Resurrect(s, c, t, refused) ==
    IF Accepted(s, c, t, IF t \in refused THEN "refused" ELSE "good")
    THEN Unchecked(s, t) ELSE RemovedRecursively(s, {t})

Refilled(s, c, block, refused) ==
    FoldLeft(LAMBDA r, t : IF t \in block THEN Resurrect(r, c, t, refused) ELSE r, s, TxOrder)

DisconnectTip ==
    /\ Len(chain) > 1
    /\ \E refused \in SUBSET (Last(chain) \ Minted) :
          LET rest == Front(chain)
          IN  /\ chain' = rest
              /\ SetPool(RemoveCoinbaseSpends(Refilled(Pool, rest, Last(chain), refused), rest))
    /\ UNCHANGED <<orphans, byPrev>>

\* The miner's block was not valid: it suspects the pool.
Clear ==
    /\ pool # {}
    /\ pool' = {} /\ next' = <<>>
    /\ UNCHANGED <<chain, orphans, byPrev>>

Next ==
    \/ \E t \in Tx : AcceptToMemoryPool(t)
    \/ \E p \in Peer, t \in Tx : ReceiveTx(p, t)
    \/ \E p \in Peer : PeerGone(p)
    \/ \E mint \in Minted \ Mined(chain), txs \in SUBSET (Tx \ (Minted \cup Mined(chain))) :
          ConnectTip(mint, txs)
    \/ DisconnectTip
    \/ Clear

Spec == Init /\ [][Next]_vars

-----------------------------------------------------------------------------
(* Properties. *)

\* The maps have the types of their declarations, and the limit on orphans holds.
TypeOK ==
    /\ chain \in Seq(SUBSET Tx) /\ Len(chain) \in 1 .. MaxHeight
    /\ pool \in SUBSET (Tx \ Minted)
    /\ DOMAIN next \subseteq Output /\ \A o \in DOMAIN next : next[o] \in Tx
    /\ DOMAIN orphans \subseteq Tx \ Minted /\ \A t \in DOMAIN orphans : orphans[t] \in Peer
    /\ Cardinality(DOMAIN orphans) <= MaxOrphans

\* The assertions of CTxMemPool::check, with those of CheckInputs it calls: each
\* transaction of the pool spends an output of the pool or an unspent, mature coin
\* of the chain, and mapNextTx says just who spends what - so no two of them spend
\* the same.
CheckPasses ==
    /\ \A t \in pool : \A o \in Inputs[t] :
          /\ Of[o] \in pool \/ Spendable(chain, o)
          /\ o \in DOMAIN next /\ next[o] = t
    /\ \A o \in DOMAIN next : next[o] \in pool /\ o \in Inputs[next[o]]

\* The two maps of orphans agree, with every parent of each and no empty sets: the
\* handler of "tx" reads mapOrphanTransactions[hash] for each entry it finds in the
\* other map, and would make an empty transaction of one that is not there.
OrphansIndexed ==
    /\ DOMAIN byPrev = UNION {Parents(t) : t \in DOMAIN orphans}
    /\ \A q \in DOMAIN byPrev : byPrev[q] = {t \in DOMAIN orphans : q \in Parents(t)}

\* But for the miner's Clear, a transaction leaves the pool only when it was mined
\* or an input of it is gone for good: spent by the block, or not there, or not
\* mature, on the chain that is left.  What spends from a mined transaction stays.
LeavesForCause ==
    [][\A t \in pool \ pool' :
          \/ pool' = {} /\ UNCHANGED chain
          \/ t \in Mined(chain')
          \/ \E o \in Inputs[t] : Of[o] \notin pool' /\ ~Spendable(chain', o)]_vars
=============================================================================
