-------------------------------- MODULE Coins --------------------------------
(***************************************************************************)
(* The stack of coins views (src/src/coins.cpp, txdb.cpp): the database,   *)
(* pcoinsTip, which caches it, and the view of the block that is being     *)
(* connected or disconnected, which caches pcoinsTip.  Reading fills every *)
(* cache on the way; a view is flushed into its base as a whole or dropped.*)
(*                                                                         *)
(* FRESH means that the base has nothing (or a pruned entry) for the       *)
(* transaction, so that an entry spent before it is flushed need not be    *)
(* written at all; DIRTY that the entry differs from the base.  The unspent*)
(* outputs of a transaction are one value, Spent when none is left.        *)
(*                                                                         *)
(* All of this runs under cs_main.  A CCoinsModifier lives for one update, *)
(* so ModifyCoins, the update and the modifier's destructor are one action.*)
(***************************************************************************)
EXTENDS Naturals

CONSTANTS
    Txid, Block,
    Coin,          \* unspent outputs a transaction may have
    Spent,         \* no unspent output, or no entry at all in the database
    Missing,       \* no entry in a cache
    NoBlock        \* uint256(0)

Content == Coin \cup {Spent}
Entry == [coins : Content, flags : SUBSET {"DIRTY", "FRESH"}]

Dirty(e) == "DIRTY" \in e.flags
Fresh(e) == "FRESH" \in e.flags

ASSUME CoinsAssumption == Spent \notin Coin /\ Missing \notin Entry /\ NoBlock \notin Block

VARIABLES
    db, dbBest,     \* CCoinsViewDB: the coins, and the record 'B'
    tip, tipBest,   \* pcoinsTip: cacheCoins and hashBlock
    view, open      \* the block's CCoinsViewCache, and whether there is one

vars == <<db, dbBest, tip, tipBest, view, open>>

Empty == [t \in Txid |-> Missing]

TypeOK ==
    /\ db \in [Txid -> Content] /\ dbBest \in Block \cup {NoBlock}
    /\ tip \in [Txid -> Entry \cup {Missing}] /\ tipBest \in Block \cup {NoBlock}
    /\ view \in [Txid -> Entry \cup {Missing}]
    /\ open \in BOOLEAN
    /\ ~open => view = Empty

Init ==
    /\ db \in [Txid -> Content] /\ dbBest \in Block \cup {NoBlock}
    /\ tip = Empty /\ tipBest = NoBlock
    /\ view = Empty /\ open = FALSE

-----------------------------------------------------------------------------
(* Reading. *)

\* The entry a cache makes of what its base returned.
FromBase(found) == [coins |-> found, flags |-> IF found = Spent THEN {"FRESH"} ELSE {}]

\* pcoinsTip's entry after FetchCoins; the database has no spent entries.
TipFetch(t) ==
    IF tip[t] # Missing THEN tip[t]
    ELSE IF db[t] = Spent THEN Missing ELSE FromBase(db[t])

TipFilled(t) == [tip EXCEPT ![t] = TipFetch(t)]

\* The view's entry after FetchCoins.
ViewFetch(t) ==
    IF view[t] # Missing THEN view[t]
    ELSE IF TipFetch(t) = Missing THEN Missing ELSE FromBase(TipFetch(t).coins)

\* GetCoins, AccessCoins and HaveCoins on pcoinsTip: mempool, wallet, RPC.
AccessTip(t) ==
    /\ tip' = TipFilled(t)
    /\ UNCHANGED <<db, dbBest, tipBest, view, open>>

\* The same on the block's view; the base is asked when the view has nothing.
AccessView(t) ==
    /\ open /\ view[t] = Missing
    /\ tip' = TipFilled(t)
    /\ view' = [view EXCEPT ![t] = ViewFetch(t)]
    /\ UNCHANGED <<db, dbBest, tipBest, open>>

\* GetBestBlock on pcoinsTip: the first call reads the database.
BestOfTip == IF tipBest = NoBlock THEN dbBest ELSE tipBest
GetBestBlock ==
    /\ tipBest' = BestOfTip
    /\ UNCHANGED <<db, dbBest, tip, view, open>>

-----------------------------------------------------------------------------
(* Changing. *)

OpenView ==
    /\ ~open /\ open' = TRUE
    /\ UNCHANGED <<db, dbBest, tip, tipBest, view>>

\* The entry ModifyCoins hands out: found, fetched, or new.
Modifiable(t) == IF ViewFetch(t) # Missing THEN ViewFetch(t) ELSE FromBase(Spent)

\* ModifyCoins, an update that leaves c, and ~CCoinsModifier.
ModifyCoins(t, c) ==
    /\ open
    /\ tip' = IF view[t] = Missing THEN TipFilled(t) ELSE tip
    /\ view' = [view EXCEPT ![t] =
                   IF Fresh(Modifiable(t)) /\ c = Spent THEN Missing
                   ELSE [coins |-> c, flags |-> Modifiable(t).flags \cup {"DIRTY"}]]
    /\ UNCHANGED <<db, dbBest, tipBest, open>>

\* Mutants: whatever is spent is erased; a changed entry does not become DIRTY.
Merged_EraseSpent(own, child) ==
    IF child = Missing THEN own
    ELSE IF ~Dirty(child) THEN own
    ELSE IF child.coins = Spent THEN Missing
    ELSE IF own = Missing THEN [coins |-> child.coins, flags |-> {"DIRTY", "FRESH"}]
    ELSE [coins |-> child.coins, flags |-> own.flags \cup {"DIRTY"}]
Merged_KeepClean(own, child) ==
    IF child = Missing THEN own
    ELSE IF ~Dirty(child) THEN own
    ELSE IF own = Missing
    THEN IF child.coins = Spent THEN Missing
         ELSE [coins |-> child.coins, flags |-> {"DIRTY", "FRESH"}]
    ELSE IF Fresh(own) /\ child.coins = Spent THEN Missing
    ELSE [coins |-> child.coins, flags |-> own.flags]

\* BatchWrite: pcoinsTip's entry after it has taken over the view's.
Merged(own, child) ==
    IF child = Missing THEN own
    ELSE IF ~Dirty(child) THEN own
    ELSE IF own = Missing
    THEN IF child.coins = Spent THEN Missing
         ELSE [coins |-> child.coins, flags |-> {"DIRTY", "FRESH"}]
    ELSE IF Fresh(own) /\ child.coins = Spent THEN Missing
    ELSE [coins |-> child.coins, flags |-> own.flags \cup {"DIRTY"}]

\* Mutant: Flush leaves the view's entries where they are.
Cleared_Not(cache) == cache
Cleared(cache) == Empty

\* ConnectBlock or DisconnectBlock ends with view.SetBestBlock(b), and the view is
\* flushed into pcoinsTip.
FlushView(b) ==
    /\ open /\ open' = FALSE
    /\ tip' = [t \in Txid |-> Merged(tip[t], view[t])]
    /\ tipBest' = b
    /\ view' = Cleared(view)
    /\ UNCHANGED <<db, dbBest>>

\* The block failed, or was only tried: the view goes out of scope unflushed.
DropView ==
    /\ open /\ open' = FALSE
    /\ view' = Empty
    /\ UNCHANGED <<db, dbBest, tip, tipBest>>

\* FlushStateToDisk writes pcoinsTip, in one batch; no view is open then.
FlushTip ==
    /\ ~open
    /\ db' = [t \in Txid |-> IF tip[t] = Missing THEN db[t]
                             ELSE IF Dirty(tip[t]) THEN tip[t].coins ELSE db[t]]
    /\ dbBest' = IF tipBest = NoBlock THEN dbBest ELSE tipBest
    /\ tip' = Cleared(tip)
    /\ UNCHANGED <<tipBest, view, open>>

\* The process dies and starts again.
Restart ==
    /\ tip' = Empty /\ tipBest' = NoBlock
    /\ view' = Empty /\ open' = FALSE
    /\ UNCHANGED <<db, dbBest>>

-----------------------------------------------------------------------------
Next ==
    \/ GetBestBlock \/ OpenView \/ DropView \/ FlushTip \/ Restart
    \/ \E t \in Txid : AccessTip(t) \/ AccessView(t)
    \/ \E t \in Txid, c \in Content : ModifyCoins(t, c)
    \/ \E b \in Block : FlushView(b)

Spec == Init /\ [][Next]_vars

-----------------------------------------------------------------------------
\* What a reader of pcoinsTip, or of the block's view, finds.
TipCoins(t) == IF tip[t] = Missing THEN db[t] ELSE tip[t].coins
ViewCoins(t) == IF view[t] = Missing THEN TipCoins(t) ELSE view[t].coins

\* An entry marked FRESH may vanish when it is spent: nothing below it has
\* unspent outputs of that transaction, so none come back to life.
FreshIsNew ==
    \A t \in Txid :
        /\ tip[t] # Missing => (Fresh(tip[t]) => db[t] = Spent)
        /\ view[t] # Missing => (Fresh(view[t]) => TipCoins(t) = Spent)

\* An entry that is not DIRTY is not written, and loses nothing by that.
CleanIsUnchanged ==
    \A t \in Txid :
        /\ tip[t] # Missing => (~Dirty(tip[t]) => tip[t].coins = db[t])
        /\ view[t] # Missing => (~Dirty(view[t]) => view[t].coins = TipCoins(t))

\* assert(it->second.flags & CCoinsCacheEntry::FRESH) in BatchWrite: an entry that
\* pcoinsTip does not have was new to the view.  Checked whenever a view is open,
\* since it may be flushed at any time.
BatchWriteAssert ==
    \A t \in Txid : view[t] # Missing /\ tip[t] = Missing => Fresh(view[t])

\* No flag of any layer says what is not true of the layer below: that is what
\* makes it safe to erase entries (FRESH), not to write them (not DIRTY), and to find no
\* entry below when a view is flushed.
FlagsHold == FreshIsNew /\ CleanIsUnchanged /\ BatchWriteAssert

\* Together with the caches' flags, nothing distinguishes the stack of views from
\* three plain maps: no coin is lost, spent twice or brought back by caching, by a
\* view that is dropped, or by a crash between two writes.
Plain == INSTANCE CoinsAbs WITH
    disk <- db, diskBest <- dbBest,
    chain <- [t \in Txid |-> TipCoins(t)], chainBest <- BestOfTip,
    work <- [t \in Txid |-> ViewCoins(t)], applying <- open
Implements == Plain!Spec
=============================================================================
