------------------------------ MODULE ChainState ------------------------------
(***************************************************************************)
(* What a node keeps on disk, and how it finds its way back: the block-tree*)
(* database (index entries, height of the block file, "shutdown" flag) and *)
(* the coins database, written by FlushStateToDisk in several writes, and  *)
(* read again by LoadBlockIndexDB (src/src/main.cpp, txdb.cpp, init.cpp).  *)
(*                                                                         *)
(* All of it runs under cs_main, so the steps of one flush follow each     *)
(* other with nothing in between but the death of the process (what was    *)
(* written stays) or of the machine (a tail of the block-tree database     *)
(* that was not synced, and the last batch of coins, may be lost).         *)
(*                                                                         *)
(* Which block is connected next is BlockTree's matter: here the tip moves *)
(* by any block that is there.  The coins are the set of blocks whose      *)
(* outputs were added; the genesis block adds none when it is connected.   *)
(***************************************************************************)
EXTENDS Integers, FiniteSets, SequencesExt

CONSTANTS
    Block, Genesis, Parent,
    Ancestors,   \* [Block -> SUBSET Block], each with the block itself
    Height,      \* [Block -> Nat]
    CheckBlocks, \* -checkblocks
    Faults       \* what may go wrong in this instance

ASSUME ChainStateAssumption ==
    /\ IsFiniteSet(Block) /\ Genesis \in Block
    /\ Parent \in [Block -> Block] /\ Ancestors \in [Block -> SUBSET Block]
    /\ Height \in [Block -> Nat] /\ Height[Genesis] = 0
    /\ Ancestors[Genesis] = {Genesis}
    /\ \A b \in Block \ {Genesis} :
          /\ Ancestors[b] = Ancestors[Parent[b]] \cup {b}
          /\ b \notin Ancestors[Parent[b]]
          /\ Height[b] = Height[Parent[b]] + 1
    /\ CheckBlocks \in Nat \ {0}
    /\ Faults \subseteq {"outOfDisk", "indexFails", "coinsFails", "powerFailure"}

VARIABLES
    up,
    index,      \* entries of mapBlockIndex with BLOCK_HAVE_DATA
    stubs,      \* entries made by InsertBlockIndex for a parent that was not on disk
    undo,       \* entries with undo data and BLOCK_VALID_SCRIPTS
    dirty,      \* setDirtyBlockIndex
    lastHeight, \* vinfoBlockFile[nLastBlockFile].nHeightLast
    tip,        \* chainActive.Tip()
    coins,      \* what pcoinsTip shows: its best block, and the blocks applied
    flush,      \* where FlushStateToDisk is, the tip afterwards, whether the node stops
    stopping,   \* AbortNode has called StartShutdown
    written,    \* the block-tree database
    synced,     \* what of it a power failure cannot take away
    disk,       \* the coins database
    older,      \* the same before the last batch
    replayed,   \* the blocks that restarts have applied to the coins, while none is astray
    astray      \* one of these restarts lost its way

memory == <<index, stubs, undo, dirty, lastHeight, tip, coins, flush, stopping>>
history == <<replayed, astray>>
durable == <<written, synced, disk, older, history>>
vars == <<up, memory, durable>>

\* The blocks below and at b that change the coins.
Chain(b) == Ancestors[b] \ {Genesis}

Coins == [best : Block, applied : SUBSET Block]
CoinsAt(b) == [best |-> b, applied |-> Chain(b)]

\* "shutdown" is the flag of that name; "garbage" an entry under a hash that is not
\* a block's.
Database == [index : SUBSET Block, undo : SUBSET Block, height : Nat,
             flags : SUBSET {"shutdown", "garbage"}]

NoFlush == [stage |-> "no", next |-> Genesis, caller |-> "node"]

TypeOK ==
    /\ up \in BOOLEAN /\ stopping \in BOOLEAN /\ astray \in BOOLEAN /\ replayed \subseteq Block
    /\ index \subseteq Block /\ stubs \subseteq Block /\ undo \subseteq index /\ dirty \subseteq index
    /\ lastHeight \in Nat /\ tip \in Block
    /\ coins \in Coins /\ disk \in Coins /\ older \in Coins
    /\ flush \in [stage : {"no", "space", "files", "index", "coins", "flag"},
                  next : Block, caller : {"node", "Shutdown"}]
    /\ written \in Database /\ synced \in Database

\* InitBlockIndex has written the genesis block and flushed.
Init ==
    /\ up = TRUE
    /\ index = {Genesis} /\ stubs = {} /\ undo = {} /\ dirty = {} /\ lastHeight = 0
    /\ tip = Genesis /\ coins = CoinsAt(Genesis)
    /\ flush = NoFlush /\ stopping = FALSE
    /\ written = [index |-> {Genesis}, undo |-> {}, height |-> 0, flags |-> {}]
    /\ synced = written
    /\ disk = CoinsAt(Genesis) /\ older = CoinsAt(Genesis)
    /\ replayed = {} /\ astray = FALSE

Running == up /\ flush.stage = "no"

\* The process is gone; nothing of its memory matters any more.
Die ==
    /\ up' = FALSE
    /\ index' = {} /\ stubs' = {} /\ undo' = {} /\ dirty' = {} /\ lastHeight' = 0
    /\ tip' = Genesis /\ coins' = CoinsAt(Genesis)
    /\ flush' = NoFlush /\ stopping' = FALSE

StartFlush(next, caller) == flush' = [stage |-> "space", next |-> next, caller |-> caller]

-----------------------------------------------------------------------------
(* The node at work. *)

\* A block is written to the block file and enters the index.  A stub counts as
\* known, and is filled in without a parent; a block on top of one is refused,
\* since the work it needs cannot be computed.
AcceptBlock(b) ==
    /\ Running
    /\ b \notin index /\ Parent[b] \in index \ stubs
    /\ index' = index \cup {b}
    /\ dirty' = dirty \cup {b}
    /\ lastHeight' = IF b \in stubs \/ Height[b] < lastHeight THEN lastHeight ELSE Height[b]
    /\ UNCHANGED <<up, stubs, undo, tip, coins, flush, stopping, durable>>

\* A block-tree database with an entry as memory has it.
WithEntry(b) == [written EXCEPT !.index = @ \cup {b},
                                !.undo = IF b \in undo THEN @ \cup {b} ELSE @]

\* ConnectBlock gets as far as writing the entry of the block, outside any flush.
\* It asserts that the coins are those of the tip, and refuses a block before if
\* inputs are missing or outputs are there.  A write that fails leaves all as it is.
Connecting(b) ==
    /\ b \in index \ stubs /\ b # Genesis /\ Parent[b] = tip
    /\ coins.best = tip /\ b \notin coins.applied /\ Chain(tip) \subseteq coins.applied
    /\ written' = WithEntry(b)
    /\ UNCHANGED <<up, index, stubs, lastHeight, stopping, synced, disk, older, history>>

\* Mutant: the new undo position does not make the entry dirty.
Touched_Not(b) == dirty

\* ConnectBlock writes the undo data of a block once.
Touched(b) == IF b \in undo THEN dirty ELSE dirty \cup {b}

\* The flush may be due (the cache is large, another block file) or not.
ConnectTip(b) ==
    /\ Running /\ Connecting(b)
    /\ coins' = [best |-> b, applied |-> coins.applied \cup {b}]
    /\ undo' = undo \cup {b}
    /\ dirty' = Touched(b)
    /\ \/ tip' = b /\ UNCHANGED flush
       \/ StartFlush(b, "node") /\ UNCHANGED tip

\* The block is found invalid after its entry was written: InvalidBlockFound.
RefuseBlock(b) ==
    /\ Running /\ Connecting(b)
    /\ dirty' = dirty \cup {b}
    /\ UNCHANGED <<undo, tip, coins, flush>>

\* The assertion of ConnectBlock, or of DisconnectBlock, fails.
AssertionFails ==
    /\ Running /\ coins.best # tip
    /\ tip # Genesis \/ \E b \in index \ stubs : b # Genesis /\ Parent[b] = tip
    /\ Die
    /\ UNCHANGED durable

\* DisconnectTip: always flushed, and only then is the tip moved.
DisconnectTip ==
    /\ Running
    /\ tip # Genesis /\ coins.best = tip
    /\ tip \in undo /\ tip \in coins.applied
    /\ coins' = [best |-> Parent[tip], applied |-> coins.applied \ {tip}]
    /\ StartFlush(Parent[tip], "node")
    /\ UNCHANGED <<up, index, stubs, undo, dirty, lastHeight, tip, stopping, durable>>

\* The periodic flush after an activation, and the one of gettxoutsetinfo.
FlushStateToDisk ==
    /\ Running
    /\ StartFlush(tip, "node")
    /\ UNCHANGED <<up, index, stubs, undo, dirty, lastHeight, tip, coins, stopping, durable>>

\* Shutdown, after the other threads have ended.
Shutdown ==
    /\ Running
    /\ StartFlush(tip, "Shutdown")
    /\ UNCHANGED <<up, index, stubs, undo, dirty, lastHeight, tip, coins, stopping, durable>>

-----------------------------------------------------------------------------
(* The steps of a flush. *)

At(stage) == up /\ flush.stage = stage
Goto(stage) == flush' = [flush EXCEPT !.stage = stage]

\* Where FlushStateToDisk returns: Shutdown does not look at the result.
Leave == flush' = IF flush.caller = "Shutdown" THEN [flush EXCEPT !.stage = "flag"] ELSE NoFlush

\* CheckDiskSpace, and FlushBlockFile.
CheckSpace ==
    /\ At("space") /\ Goto("files")
    /\ UNCHANGED <<up, index, stubs, undo, dirty, lastHeight, tip, coins, stopping, durable>>

\* WriteBlockFileInfo and WriteLastBlockFile.
WriteFileInfo ==
    /\ At("files") /\ Goto("index")
    /\ written' = [written EXCEPT !.height = lastHeight]
    /\ UNCHANGED <<up, index, stubs, undo, dirty, lastHeight, tip, coins, stopping,
                   synced, disk, older, history>>

\* The entries are written one by one, in the order of their addresses.  A stub
\* has none of the fields its hash is computed from.
WriteBlockIndex(b) ==
    /\ At("index") /\ b \in dirty
    /\ dirty' = dirty \ {b}
    /\ written' = IF b \in stubs THEN [written EXCEPT !.flags = @ \cup {"garbage"}]
                  ELSE WithEntry(b)
    /\ UNCHANGED <<up, index, stubs, undo, lastHeight, tip, coins, flush, stopping,
                   synced, disk, older, history>>

\* Mutants: the coins are written before the index; the index is not synced.
IndexDone_Never == TRUE
Synced_Not == synced

IndexDone == dirty = {}
Synced == written

Sync ==
    /\ At("index") /\ IndexDone /\ Goto("coins")
    /\ synced' = Synced
    /\ UNCHANGED <<up, index, stubs, undo, dirty, lastHeight, tip, coins, stopping,
                   written, disk, older, history>>

\* pcoinsTip->Flush, one batch; the caller then moves the tip.
WriteCoins ==
    /\ At("coins")
    /\ disk' = coins /\ older' = disk
    /\ tip' = flush.next
    /\ Leave
    /\ UNCHANGED <<up, index, stubs, undo, dirty, lastHeight, coins, stopping,
                   written, synced, history>>

\* Mutant: the error is only returned.
AbortNode_Not == stopping

\* StartShutdown.
AbortNode == TRUE

\* The flush stops where a write fails and asks the node to shut down; the caller
\* does not move the tip.  A failing batch of coins has emptied the cache already,
\* which keeps only its best block.
FlushFails ==
    /\ \/ At("space") /\ "outOfDisk" \in Faults /\ UNCHANGED coins
       \/ At("files") /\ "indexFails" \in Faults /\ UNCHANGED coins
       \/ At("index") /\ "indexFails" \in Faults /\ UNCHANGED coins
       \/ At("coins") /\ "coinsFails" \in Faults
          /\ coins' = [best |-> coins.best, applied |-> disk.applied]
    /\ stopping' = AbortNode
    /\ Leave
    /\ UNCHANGED <<up, index, stubs, undo, dirty, lastHeight, tip, durable>>

\* WriteFlag("shutdown", true), and the process ends.
WriteFlag ==
    /\ At("flag")
    /\ written' = [written EXCEPT !.flags = @ \cup {"shutdown"}]
    /\ Die
    /\ UNCHANGED <<synced, disk, older, history>>

-----------------------------------------------------------------------------
(* Death and return. *)

Crash == up /\ Die /\ UNCHANGED durable

\* What may be left of the block-tree database: a prefix of what was written after
\* the last sync.  The entries may come in any order, each first without and then
\* with its undo data, and the flag comes last.
Torn ==
    {synced, written} \cup
    {d \in [index : SUBSET written.index, undo : SUBSET written.undo,
            height : synced.height .. written.height,
            flags : {f \ {"shutdown"} : f \in {synced.flags, written.flags}}] :
        synced.index \subseteq d.index /\ synced.undo \subseteq d.undo /\ d.undo \subseteq d.index}

PowerFailure ==
    /\ "powerFailure" \in Faults
    /\ Die
    /\ written' \in Torn /\ synced' = written'
    /\ disk' \in {disk, older} /\ older' = disk'
    /\ UNCHANGED history

\* InsertBlockIndex makes an entry for a parent that was not read.
Orphaned(d) == {Parent[b] : b \in d.index \ {Genesis}} \ d.index

\* nHeight in the index: a stub has none.
NHeight(d, b) == IF b \in d.index THEN Height[b] ELSE 0

\* vSortedByHeight; entries of the same height are in the order of their addresses.
Sortings(d) ==
    {s \in SetToSeqs(d.index \cup Orphaned(d)) :
        \A i, j \in DOMAIN s : i < j => NHeight(d, s[i]) <= NHeight(d, s[j])}

\* More blocks than heights, and the coins are not those of the block at the
\* position that follows from the last height.
OutOfSync(d, c, s) == d.height + 2 <= Len(s) /\ c.best # s[d.height + 2]

\* The replay goes through the entries as they are sorted, on whatever branch they
\* are, from the first that is higher than the coins' best block to the first as
\* high as the one at that position.  When nothing is one higher than the best
\* block it takes the first entry of all.
Above(d, c, s) == {i \in DOMAIN s : NHeight(d, s[i]) > NHeight(d, c.best)}
Replayed(d, c, s) ==
    {i \in Above(d, c, s) :
        \A j \in Above(d, c, s) : j < i => NHeight(d, s[j]) < NHeight(d, s[d.height + 2])}

Replay(d, c, s) ==
    IF \E i \in DOMAIN s : NHeight(d, s[i]) = NHeight(d, c.best) + 1
    THEN [best |-> s[CHOOSE i \in Replayed(d, c, s) : \A j \in Replayed(d, c, s) : j <= i],
          applied |-> c.applied \cup {s[i] : i \in Replayed(d, c, s)}]
    ELSE [best |-> s[1], applied |-> c.applied \cup {s[1]}]

\* VerifyDB disconnects the last blocks of the chain that ends at c.best and connects
\* them again, which needs their outputs and their undo data.  It may notice other
\* blocks that are missing or too many, or not.
Checked(c) == {b \in Chain(c.best) : Height[b] >= Height[c.best] - CheckBlocks}
Verified(c) ==
    IF ~ Checked(c) \subseteq c.applied \cap written.undo THEN {FALSE}
    ELSE IF c.applied = Chain(c.best) THEN {TRUE}
    ELSE BOOLEAN

\* Mutant: an entry whose ancestors are not all there is left out.
Loaded_Rooted(d) == {b \in d.index : Ancestors[b] \subseteq d.index}
Loaded(d) == d.index

\* LoadBlockIndexDB and VerifyDB.  An entry with a wrong hash has no proof of work,
\* and ends the start; so does a failing check, or a replay that meets a block
\* without data or inputs that are spent.  Both databases, when they are opened, sync
\* what they find in their logs.  force is -forcestart.
Load(c) ==
    /\ up' \in Verified(c)
    /\ IF up'
       THEN /\ index' = Loaded(written) /\ stubs' = Orphaned(written) /\ undo' = written.undo
            /\ lastHeight' = written.height
            /\ tip' = c.best /\ coins' = c
       ELSE UNCHANGED <<index, stubs, undo, lastHeight, tip, coins>>
    /\ written' = [written EXCEPT !.flags = @ \ {"shutdown"}]
    /\ synced' = written
    /\ UNCHANGED <<dirty, flush, stopping>>

\* Without an entry for the best block, InitBlockIndex connects the genesis block
\* and meets the assertion of ConnectBlock.
Restart(force) ==
    /\ ~up /\ "garbage" \notin written.flags
    /\ disk.best \in written.index
    /\ \E s \in Sortings(written) :
         /\ "shutdown" \in written.flags \/ force \/ ~OutOfSync(written, disk, s)
         /\ Load(disk)
         /\ older' = disk
         /\ UNCHANGED <<disk, history>>

\* History: the list has one entry for every height, and one above the coins.
Straight(d, c) ==
    /\ \A a, b \in d.index \cup Orphaned(d) : NHeight(d, a) = NHeight(d, b) => a = b
    /\ \E b \in d.index : Height[b] = Height[c.best] + 1

RestartReplaying ==
    /\ ~up /\ written.flags = {}
    /\ disk.best \in written.index
    /\ astray' = (astray \/ ~ Straight(written, disk))
    /\ \E s \in Sortings(written) :
         /\ OutOfSync(written, disk, s)
         /\ LET c == Replay(written, disk, s)
            IN  /\ c.best \in written.index
                /\ disk' = c /\ older' = disk
                /\ Load(c)
                /\ replayed' = (IF astray' THEN {} ELSE replayed \cup (c.applied \ disk.applied))

-----------------------------------------------------------------------------
Next ==
    \/ \E b \in Block : AcceptBlock(b) \/ ConnectTip(b) \/ RefuseBlock(b) \/ WriteBlockIndex(b)
    \/ AssertionFails \/ DisconnectTip \/ FlushStateToDisk \/ Shutdown
    \/ CheckSpace \/ WriteFileInfo \/ Sync \/ WriteCoins \/ FlushFails \/ WriteFlag
    \/ Crash \/ PowerFailure
    \/ \E force \in BOOLEAN : Restart(force)
    \/ RestartReplaying

Spec == Init /\ [][Next]_vars

-----------------------------------------------------------------------------
\* Whatever dies, and whenever: the coins found on disk are those of one block,
\* and the synced index has that block's chain with the undo data to leave it, but
\* for the blocks that a replay has applied, of which it writes none.  A replay
\* that went through several branches is the exception.
Recoverable ==
    ~astray =>
        \A c \in {disk, older} :
            c = CoinsAt(c.best) /\ Chain(c.best) \ replayed \subseteq synced.undo

\* assert(hashPrevBlock == view.GetBestBlock()) in ConnectBlock, and the one in
\* DisconnectBlock: between two flushes the coins are those of the tip.
CoinsAreTips == Running /\ ~stopping => coins.best = tip

\* An orderly stop in which no write failed leaves nothing behind in memory.
CleanStop ==
    [][WriteFlag /\ ~stopping =>
          /\ ~astray => disk = CoinsAt(tip)
          /\ index \ stubs \subseteq written.index /\ undo \ stubs \subseteq written.undo]_vars

\* "Last block properly recorded: #height hash": after a replay the node runs, and
\* its tip is the block that is reported.
Recorded(s) == s[written.height + 2]
LastBlockRecorded ==
    [][RestartReplaying =>
          \E s \in Sortings(written) :
              OutOfSync(written, disk, s) /\ up' /\ tip' = Recorded(s)]_vars
=============================================================================
