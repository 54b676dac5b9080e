--------------------------- MODULE ChainStateProofs ---------------------------
(***************************************************************************)
(* Proofs about ChainState: whatever a crash or a power failure leaves on  *)
(* disk, the coins are those of one block whose chain is in the synced     *)
(* index with its undo data.  The one failure that is excluded is that of  *)
(* the coins batch itself.                                                 *)
(*                                                                         *)
(* The invariant follows the undo data of a block on its way: into memory  *)
(* when the block is connected, marked dirty, written, synced, and only    *)
(* then relied upon by the coins on disk.  A replay that meets one entry   *)
(* of every height applies a stretch of one chain, because such an index   *)
(* is one chain.                                                           *)
(***************************************************************************)
EXTENDS ChainState, FiniteSetTheorems, FunctionTheorems, NaturalsInduction, TLAPS

\* A best block, its coins and the undo data they need.
Sound(c, known) == c = CoinsAt(c.best) /\ Chain(c.best) \subseteq known \cup replayed

\* The undo data of memory is on disk or about to be written; a stub has none.
Tracked ==
    /\ written.undo \subseteq undo
    /\ undo \ written.undo \subseteq dirty
    /\ undo \cap stubs = {}
    /\ flush.stage = "coins" => undo \subseteq synced.undo

Ordered ==
    /\ synced.index \subseteq written.index /\ synced.undo \subseteq written.undo
    /\ written.undo \subseteq written.index /\ synced.undo \subseteq synced.index
    /\ Genesis \in synced.index

DiskSound == Sound(disk, synced.undo) /\ Sound(older, synced.undo)

\* The flush under way is that of the coins in memory.
FlushOfCoins ==
    up /\ ~stopping =>
        coins.best = IF flush.stage \in {"no", "flag"} THEN tip ELSE flush.next

IInv ==
    /\ TypeOK
    /\ Ordered
    /\ ~up => flush = NoFlush /\ dirty = {}
    /\ ~astray => DiskSound
    /\ up => Tracked
    /\ up /\ ~astray => Sound(coins, undo)
    /\ FlushOfCoins

NoCoinsFault == "coinsFails" \notin Faults

USE DEF Chain, CoinsAt, Coins

\* The initial state.
LEMMA InitInvariant == Init => IInv
<1>1. SUFFICES ASSUME Init PROVE IInv
  OBVIOUS
<1>2. TypeOK
  BY <1>1, ChainStateAssumption DEF Init, TypeOK, Database, NoFlush
<1>3. Ordered /\ DiskSound /\ Sound(coins, undo) /\ Tracked /\ FlushOfCoins
  BY <1>1, ChainStateAssumption
  DEF Init, Ordered, DiskSound, Sound, Tracked, FlushOfCoins, NoFlush
<1>4. QED
  BY <1>1, <1>2, <1>3 DEF IInv, Init

\* The death of the process leaves what is on disk.
LEMMA DieInvariant ==
  ASSUME IInv, Die, UNCHANGED durable
  PROVE  IInv'
<1>1. TypeOK'
  BY ChainStateAssumption DEF IInv, TypeOK, Die, NoFlush, durable, history
<1>2. Ordered' /\ (~astray' => DiskSound') /\ FlushOfCoins'
  BY DEF IInv, Ordered, DiskSound, Sound, FlushOfCoins, Die, durable, history
<1>3. QED
  BY <1>1, <1>2 DEF IInv, Die

\* Memory changes, with nothing written.
LEMMA MemoryStep ==
  ASSUME IInv, TypeOK', up, up', UNCHANGED durable,
         Tracked', ~astray => Sound(coins, undo)', FlushOfCoins'
  PROVE  IInv'
BY DEF IInv, Ordered, DiskSound, Sound, durable, history

LEMMA AcceptBlockStep ==
  ASSUME IInv, NEW b \in Block, AcceptBlock(b)
  PROVE  IInv'
<1>1. TypeOK'
  BY ChainStateAssumption DEF IInv, TypeOK, AcceptBlock, durable, history
<1>2. Tracked' /\ (~astray => Sound(coins, undo)') /\ FlushOfCoins'
  BY DEF IInv, AcceptBlock, Running, Sound, Tracked, FlushOfCoins, durable, history
<1>3. QED
  BY <1>1, <1>2, MemoryStep DEF AcceptBlock, Running

\* The database with one entry more.
LEMMA EntryWritten ==
  ASSUME TypeOK, Ordered, NEW b \in Block, written' = WithEntry(b)
  PROVE  /\ written' \in Database /\ written'.height = written.height
         /\ written'.index = written.index \cup {b}
         /\ written'.undo = written.undo \cup ({b} \cap undo)
         /\ written'.undo \subseteq written'.index
<1>1. written \in Database /\ undo \subseteq index /\ index \subseteq Block
  BY DEF TypeOK
<1>2. CASE b \in undo
  <2>1. written' = [written EXCEPT !.index = @ \cup {b}, !.undo = @ \cup {b}]
    BY <1>2 DEF WithEntry
  <2>2. QED
    BY <1>1, <1>2, <2>1 DEF Ordered, Database
<1>3. CASE b \notin undo
  <2>1. written' = [written EXCEPT !.index = @ \cup {b}]
    BY <1>1, <1>3 DEF WithEntry, Database
  <2>2. QED
    BY <1>1, <1>3, <2>1 DEF Ordered, Database
<1>4. QED
  BY <1>2, <1>3

\* ConnectBlock has written the entry: what is left to show is about memory.
LEMMA ConnectingStep ==
  ASSUME IInv, NEW b \in Block, Running, Connecting(b),
         undo' \in SUBSET index', dirty' \in SUBSET index', tip' \in Block, coins' \in Coins,
         flush' = flush \/ flush' = [stage |-> "space", next |-> b, caller |-> "node"],
         undo \subseteq undo', undo' \subseteq undo \cup {b},
         dirty \subseteq dirty', b \in undo' \ undo => b \in dirty',
         ~astray => Sound(coins, undo)', FlushOfCoins'
  PROVE  IInv'
<1>1. /\ written' = WithEntry(b) /\ up /\ up' /\ b \in index \ stubs
      /\ UNCHANGED <<up, index, stubs, lastHeight, stopping, synced, disk, older, replayed, astray>>
  BY DEF Running, Connecting, history
<1>2. /\ written' \in Database
      /\ written'.index = written.index \cup {b}
      /\ written'.undo = written.undo \cup ({b} \cap undo)
      /\ written'.undo \subseteq written'.index
  BY <1>1, EntryWritten DEF IInv
<1>3. TypeOK'
  BY <1>1, <1>2 DEF IInv, TypeOK
<1>4. Ordered' /\ (~astray' => DiskSound')
  BY <1>1, <1>2 DEF IInv, Ordered, DiskSound, Sound
<1>5. Tracked'
  BY <1>1, <1>2 DEF IInv, Tracked, Running
<1>6. QED
  BY <1>1, <1>3, <1>4, <1>5 DEF IInv

LEMMA ConnectTipStep ==
  ASSUME IInv, NEW b \in Block, ConnectTip(b)
  PROVE  IInv'
<1>1. /\ Running /\ Connecting(b) /\ up /\ flush.stage = "no"
      /\ UNCHANGED <<index, stubs, stopping, replayed, astray>>
      /\ b \in index \ stubs /\ b # Genesis /\ Parent[b] = tip /\ coins.best = tip
      /\ coins' = [best |-> b, applied |-> coins.applied \cup {b}]
      /\ undo' = undo \cup {b} /\ dirty' = Touched(b)
      /\ \/ tip' = b /\ flush' = flush
         \/ tip' = tip /\ flush' = [stage |-> "space", next |-> b, caller |-> "node"]
  BY DEF ConnectTip, Connecting, Running, StartFlush, history
<1>2. /\ undo' \in SUBSET index' /\ dirty' \in SUBSET index' /\ tip' \in Block
      /\ coins' \in Coins
      /\ undo \subseteq undo' /\ undo' \subseteq undo \cup {b}
      /\ dirty \subseteq dirty' /\ (b \in undo' \ undo => b \in dirty')
  BY <1>1 DEF IInv, TypeOK, Touched
<1>3. ASSUME ~astray PROVE Sound(coins, undo)'
  <2>1. Sound(coins, undo)
    BY <1>1, <1>3 DEF IInv
  <2>2. Ancestors[b] \ {Genesis} = (Ancestors[tip] \ {Genesis}) \cup {b}
    BY <1>1, ChainStateAssumption
  <2>3. QED
    BY <1>1, <2>1, <2>2 DEF Sound
<1>4. FlushOfCoins'
  BY <1>1 DEF FlushOfCoins
<1>5. QED
  BY <1>1, <1>2, <1>3, <1>4, ConnectingStep

LEMMA RefuseBlockStep ==
  ASSUME IInv, NEW b \in Block, RefuseBlock(b)
  PROVE  IInv'
<1>1. /\ Running /\ Connecting(b) /\ up /\ up' /\ flush.stage = "no" /\ b \in index
      /\ dirty' = dirty \cup {b}
      /\ UNCHANGED <<index, stubs, stopping, undo, tip, coins, flush, replayed, astray>>
  BY DEF RefuseBlock, Connecting, Running, history
<1>2. (~astray => Sound(coins, undo)') /\ FlushOfCoins'
  BY <1>1 DEF IInv, Sound, FlushOfCoins
<1>3. QED
  BY <1>1, <1>2, ConnectingStep DEF IInv, TypeOK

LEMMA DisconnectTipStep ==
  ASSUME IInv, DisconnectTip
  PROVE  IInv'
<1>1. /\ up /\ up' /\ UNCHANGED <<index, stubs, undo, dirty, lastHeight, tip, stopping, durable>>
      /\ coins.best = tip /\ tip # Genesis /\ tip \in Block /\ Parent[tip] \in Block
      /\ coins' = [best |-> Parent[tip], applied |-> coins.applied \ {tip}]
      /\ flush' = [stage |-> "space", next |-> Parent[tip], caller |-> "node"]
  BY ChainStateAssumption DEF DisconnectTip, Running, StartFlush, IInv, TypeOK
<1>2. TypeOK'
  BY <1>1 DEF IInv, TypeOK, durable, history
<1>3. ASSUME ~astray PROVE Sound(coins, undo)'
  <2>1. Sound(coins, undo)
    BY <1>1, <1>3 DEF IInv
  <2>2. /\ Ancestors[tip] = Ancestors[Parent[tip]] \cup {tip}
        /\ tip \notin Ancestors[Parent[tip]]
    BY <1>1, ChainStateAssumption
  <2>3. QED
    BY <1>1, <2>1, <2>2 DEF Sound, durable, history
<1>4. Tracked' /\ FlushOfCoins'
  BY <1>1 DEF IInv, Tracked, FlushOfCoins, durable
<1>5. QED
  BY <1>1, <1>2, <1>3, <1>4, MemoryStep

\* A flush begins, or goes from one of its first stages to the next.
LEMMA StageStep ==
  ASSUME IInv, FlushStateToDisk \/ Shutdown \/ CheckSpace
  PROVE  IInv'
<1>1. /\ up /\ up' /\ UNCHANGED <<index, stubs, undo, dirty, lastHeight, tip, coins, stopping, durable>>
      /\ \/ /\ flush.stage = "no"
            /\ \E caller \in {"node", "Shutdown"} :
                 flush' = [stage |-> "space", next |-> tip, caller |-> caller]
         \/ flush.stage = "space" /\ flush' = [flush EXCEPT !.stage = "files"]
  BY DEF FlushStateToDisk, Shutdown, CheckSpace, Running, StartFlush, At, Goto
<1>2. TypeOK'
  BY <1>1 DEF IInv, TypeOK, durable, history
<1>3. flush'.stage # "coins" /\ FlushOfCoins'
  BY <1>1 DEF IInv, TypeOK, FlushOfCoins
<1>4. QED
  BY <1>1, <1>2, <1>3, MemoryStep DEF IInv, Sound, Tracked, durable, history

LEMMA WriteFileInfoStep ==
  ASSUME IInv, WriteFileInfo
  PROVE  IInv'
<1>1. /\ up /\ up' /\ flush.stage = "files" /\ flush' = [flush EXCEPT !.stage = "index"]
      /\ written' = [written EXCEPT !.height = lastHeight]
      /\ UNCHANGED <<index, stubs, undo, dirty, lastHeight, tip, coins, stopping,
                     synced, disk, older, history>>
  BY DEF WriteFileInfo, At, Goto
<1>2. TypeOK'
  BY <1>1 DEF IInv, TypeOK, Database, history
<1>3. written'.index = written.index /\ written'.undo = written.undo
  BY <1>1 DEF IInv, TypeOK, Database
<1>4. FlushOfCoins'
  BY <1>1 DEF IInv, TypeOK, FlushOfCoins
<1>5. QED
  BY <1>1, <1>2, <1>3, <1>4 DEF IInv, TypeOK, Ordered, DiskSound, Sound, Tracked, history

LEMMA WriteBlockIndexStep ==
  ASSUME IInv, NEW b \in Block, WriteBlockIndex(b)
  PROVE  IInv'
<1>1. /\ up /\ up' /\ flush.stage = "index" /\ b \in dirty /\ dirty' = dirty \ {b}
      /\ UNCHANGED <<index, stubs, undo, lastHeight, tip, coins, flush, stopping,
                     synced, disk, older, replayed, astray>>
  BY DEF WriteBlockIndex, At, history
<1>2. /\ written' \in Database
      /\ written'.index = IF b \in stubs THEN written.index ELSE written.index \cup {b}
      /\ written'.undo = IF b \in undo \ stubs THEN written.undo \cup {b} ELSE written.undo
  BY DEF WriteBlockIndex, WithEntry, IInv, TypeOK, Database
<1>3. TypeOK'
  BY <1>1, <1>2 DEF IInv, TypeOK
<1>4. Ordered' /\ FlushOfCoins'
  BY <1>1, <1>2 DEF IInv, Ordered, FlushOfCoins
<1>5. Tracked'
  BY <1>1, <1>2 DEF IInv, Tracked
<1>6. ASSUME ~astray PROVE DiskSound' /\ Sound(coins, undo)'
  BY <1>1, <1>6 DEF IInv, DiskSound, Sound
<1>7. QED
  BY <1>1, <1>3, <1>4, <1>5, <1>6 DEF IInv

LEMMA SyncStep ==
  ASSUME IInv, Sync
  PROVE  IInv'
<1>1. /\ up /\ up' /\ dirty = {} /\ flush.stage = "index"
      /\ flush' = [flush EXCEPT !.stage = "coins"] /\ synced' = written
      /\ UNCHANGED <<index, stubs, undo, dirty, lastHeight, tip, coins, stopping,
                     written, disk, older, replayed, astray>>
  BY DEF Sync, At, Goto, IndexDone, Synced, history
<1>2. TypeOK'
  BY <1>1 DEF IInv, TypeOK
<1>3. Ordered' /\ FlushOfCoins'
  BY <1>1 DEF IInv, TypeOK, Ordered, FlushOfCoins
<1>4. Tracked'
  BY <1>1 DEF IInv, Tracked
<1>5. ASSUME ~astray PROVE DiskSound' /\ Sound(coins, undo)'
  BY <1>1, <1>5 DEF IInv, DiskSound, Sound, Ordered
<1>6. QED
  BY <1>1, <1>2, <1>3, <1>4, <1>5 DEF IInv

\* Where the flush is left, the stage is "no" or "flag".
LEMMA LeaveStage ==
  ASSUME TypeOK, Leave
  PROVE  /\ flush' \in [stage : {"no", "flag"}, next : Block, caller : {"node", "Shutdown"}]
BY ChainStateAssumption DEF TypeOK, Leave, NoFlush

LEMMA WriteCoinsStep ==
  ASSUME IInv, WriteCoins
  PROVE  IInv'
<1>1. /\ up /\ up' /\ flush.stage = "coins" /\ disk' = coins /\ older' = disk
      /\ tip' = flush.next
      /\ flush' \in [stage : {"no", "flag"}, next : Block, caller : {"node", "Shutdown"}]
      /\ UNCHANGED <<index, stubs, undo, dirty, lastHeight, coins, stopping,
                     written, synced, replayed, astray>>
  BY LeaveStage DEF WriteCoins, At, IInv, history
<1>2. TypeOK'
  BY <1>1 DEF IInv, TypeOK
<1>3. Ordered' /\ FlushOfCoins'
  BY <1>1 DEF IInv, Ordered, FlushOfCoins
<1>4. Tracked'
  BY <1>1 DEF IInv, Tracked
<1>5. ASSUME ~astray PROVE DiskSound' /\ Sound(coins, undo)'
  <2>1. DiskSound /\ Sound(coins, undo) /\ Tracked
    BY <1>1, <1>5 DEF IInv
  <2>2. QED
    BY <1>1, <2>1 DEF DiskSound, Sound, Tracked
<1>6. QED
  BY <1>1, <1>2, <1>3, <1>4, <1>5 DEF IInv

LEMMA FlushFailsStep ==
  ASSUME IInv, NoCoinsFault, FlushFails
  PROVE  IInv'
<1>1. /\ up /\ up' /\ stopping' = TRUE
      /\ flush' \in [stage : {"no", "flag"}, next : Block, caller : {"node", "Shutdown"}]
      /\ UNCHANGED <<index, stubs, undo, dirty, lastHeight, tip, coins, durable>>
  BY LeaveStage DEF FlushFails, At, IInv, NoCoinsFault, AbortNode
<1>2. TypeOK'
  BY <1>1 DEF IInv, TypeOK, durable, history
<1>3. Tracked' /\ (~astray => Sound(coins, undo)') /\ FlushOfCoins'
  BY <1>1 DEF IInv, Sound, Tracked, FlushOfCoins, durable, history
<1>4. QED
  BY <1>1, <1>2, <1>3, MemoryStep

LEMMA WriteFlagStep ==
  ASSUME IInv, WriteFlag
  PROVE  IInv'
<1>1. /\ Die /\ UNCHANGED <<synced, disk, older, replayed, astray>>
      /\ written' = [written EXCEPT !.flags = @ \cup {"shutdown"}]
  BY DEF WriteFlag, history
<1>2. written' \in Database /\ written'.index = written.index /\ written'.undo = written.undo
  BY <1>1 DEF IInv, TypeOK, Database
<1>3. TypeOK'
  BY <1>1, <1>2, ChainStateAssumption DEF IInv, TypeOK, Die, NoFlush
<1>4. Ordered' /\ (~astray' => DiskSound') /\ FlushOfCoins'
  BY <1>1, <1>2 DEF IInv, Ordered, DiskSound, Sound, FlushOfCoins, Die
<1>5. QED
  BY <1>1, <1>3, <1>4 DEF IInv, Die

\* Every torn database holds at least what was synced.
LEMMA TornHolds ==
  ASSUME IInv, NEW d \in Torn
  PROVE  /\ d \in Database /\ synced.undo \subseteq d.undo /\ d.undo \subseteq d.index
         /\ Genesis \in d.index
<1>1. /\ synced \in Database /\ written \in Database
      /\ synced.index \subseteq written.index /\ synced.undo \subseteq written.undo
      /\ written.undo \subseteq written.index /\ synced.undo \subseteq synced.index
      /\ Genesis \in synced.index
  BY DEF IInv, TypeOK, Ordered
<1>2. CASE d = written
  BY <1>1, <1>2
<1>3. CASE d = synced
  BY <1>1, <1>3
<1>4. ASSUME d \in [index : SUBSET written.index, undo : SUBSET written.undo,
                    height : synced.height .. written.height,
                    flags : {f \ {"shutdown"} : f \in {synced.flags, written.flags}}],
             synced.index \subseteq d.index, synced.undo \subseteq d.undo, d.undo \subseteq d.index
      PROVE  d \in Database /\ Genesis \in d.index
  <2>1. /\ d.index \in SUBSET Block /\ d.undo \in SUBSET Block
        /\ d.height \in synced.height .. written.height
        /\ d.flags \in {f \ {"shutdown"} : f \in {synced.flags, written.flags}}
    BY <1>1, <1>4 DEF Database
  <2>2. d.height \in Nat /\ d.flags \in SUBSET {"shutdown", "garbage"}
    BY <1>1, <2>1 DEF Database
  <2>3. d = [index |-> d.index, undo |-> d.undo, height |-> d.height, flags |-> d.flags]
    BY <1>4
  <2>4. QED
    BY <1>1, <1>4, <2>1, <2>2, <2>3 DEF Database
<1>5. QED
  BY <1>2, <1>3, <1>4 DEF Torn

LEMMA PowerFailureStep ==
  ASSUME IInv, PowerFailure
  PROVE  IInv'
<1>1. /\ Die /\ written' \in Torn /\ synced' = written' /\ UNCHANGED <<replayed, astray>>
      /\ disk' \in {disk, older} /\ older' = disk'
  BY DEF PowerFailure, history
<1>2. /\ written' \in Database /\ synced.undo \subseteq written'.undo
      /\ written'.undo \subseteq written'.index /\ Genesis \in written'.index
  BY <1>1, TornHolds
<1>3. TypeOK'
  BY <1>1, <1>2, ChainStateAssumption DEF IInv, TypeOK, Die, NoFlush
<1>4. Ordered' /\ (~astray' => DiskSound') /\ FlushOfCoins'
  BY <1>1, <1>2 DEF IInv, Ordered, DiskSound, Sound, FlushOfCoins, Die
<1>5. QED
  BY <1>1, <1>3, <1>4 DEF IInv, Die

-----------------------------------------------------------------------------
(* The replay of an index with one entry of every height.                  *)

\* The least-number principle for sets: the one induction these proofs need.
LEMMA LeastNatural ==
  ASSUME NEW S \in SUBSET Nat, S # {}
  PROVE  \E m \in S : \A k \in S : m <= k
<1> DEFINE R == OpToRel(<, Nat)
<1>1. \A k, m \in Nat : <<k, m>> \in R <=> k < m
  BY DEF OpToRel
<1>2. IsWellFoundedOn(R, Nat)
  BY NatLessThanWellFounded
<1>3. S \subseteq Nat
  OBVIOUS
<1> HIDE DEF R
<1>4. PICK m \in S : \A k \in S : ~(<<k, m>> \in R)
  BY <1>2, <1>3, WFMin, Zenon
<1>5. \A k \in S : ~(k < m)
  BY <1>1, <1>3, <1>4
<1> QED
  BY <1>3, <1>5

\* Entries that differ in height and include each other's parents are one chain.
LEMMA OneChain ==
  ASSUME NEW D \in SUBSET Block, Genesis \in D,
         \A b \in D \ {Genesis} : Parent[b] \in D,
         \A a, b \in D : Height[a] = Height[b] => a = b
  PROVE  \A b \in D : Ancestors[b] = {x \in D : Height[x] <= Height[b]}
<1> DEFINE Bad == {b \in D : Ancestors[b] # {x \in D : Height[x] <= Height[b]}}
           H == {Height[b] : b \in Bad}
<1>1. SUFFICES ASSUME Bad # {} PROVE FALSE
  OBVIOUS
<1>2. H \in SUBSET Nat /\ H # {}
  BY <1>1, ChainStateAssumption
<1>3. PICK m \in H : \A k \in H : m <= k
  BY <1>2, LeastNatural
<1>4. PICK b \in Bad : Height[b] = m
  BY <1>3
<1>5. b # Genesis
  <2>1. \A x \in D : Height[x] <= 0 => x = Genesis
    BY ChainStateAssumption
  <2>2. QED
    BY <1>4, <2>1, ChainStateAssumption
<1> DEFINE p == Parent[b]
<1>6. /\ p \in D /\ Height[b] = Height[p] + 1 /\ Ancestors[b] = Ancestors[p] \cup {b}
      /\ Height[p] \in Nat
  BY <1>4, <1>5, ChainStateAssumption
<1>7. p \notin Bad
  <2>1. SUFFICES ASSUME p \in Bad PROVE FALSE
    OBVIOUS
  <2>2. Height[p] \in H
    BY <2>1
  <2>3. m <= Height[p]
    BY <1>3, <2>2
  <2>4. QED
    BY <1>4, <1>6, <2>3
<1>8. Ancestors[p] = {x \in D : Height[x] <= Height[p]}
  BY <1>6, <1>7
<1>9. \A x \in D : Height[x] <= Height[b] <=> Height[x] <= Height[p] \/ x = b
  BY <1>4, <1>6, ChainStateAssumption
<1>10. Ancestors[b] = {x \in D : Height[x] <= Height[b]}
  BY <1>4, <1>6, <1>8, <1>9
<1>11. QED
  BY <1>4, <1>10

\* A sorting holds every entry once.
LEMMA SortingsHold ==
  ASSUME NEW d \in Database, NEW s \in Sortings(d), Orphaned(d) = {}
  PROVE  \E n \in Nat :
           /\ s \in [1 .. n -> d.index] /\ DOMAIN s = 1 .. n
           /\ \A i, j \in 1 .. n : i # j => s[i] # s[j]
           /\ \A b \in d.index : \E i \in 1 .. n : s[i] = b
           /\ \A i, j \in 1 .. n : i < j => NHeight(d, s[i]) <= NHeight(d, s[j])
<1> DEFINE n == Cardinality(d.index)
<1>1. IsFiniteSet(d.index)
  <2>1. d.index \in SUBSET Block
    BY DEF Database
  <2>2. QED
    BY <2>1, FS_Subset, ChainStateAssumption
<1>2. n \in Nat
  BY <1>1, FS_CardinalityType
<1>3. d.index \cup Orphaned(d) = d.index
  OBVIOUS
<1>4. /\ s \in [1 .. n -> d.index]
      /\ \A i, j \in 1 .. n : i # j => s[i] # s[j]
      /\ \A i, j \in DOMAIN s : i < j => NHeight(d, s[i]) <= NHeight(d, s[j])
  BY <1>3 DEF Sortings, SetToSeqs
<1>5. IsFiniteSet(1 .. n) /\ Cardinality(1 .. n) = n
  BY <1>2, FS_Interval
<1>6. s \in Injection(1 .. n, d.index)
  BY <1>4, Zenon DEF Injection, IsInjective
<1>7. s \in Surjection(1 .. n, d.index)
  BY <1>1, <1>5, <1>6, FS_Injection
<1>8. \A b \in d.index : \E i \in 1 .. n : s[i] = b
  BY <1>7 DEF Surjection
<1>9. QED
  BY <1>2, <1>4, <1>8

\* Such a replay ends with the coins of one block.
LEMMA ReplayIsSound ==
  ASSUME NEW d \in Database, NEW c, NEW s \in Sortings(d), Genesis \in d.index,
         c = CoinsAt(c.best), c.best \in d.index, Straight(d, c)
  PROVE  LET r == Replay(d, c, s) IN r = CoinsAt(r.best) /\ r.best \in Block
<1> DEFINE D == d.index
<1>1. D \in SUBSET Block /\ Height \in [Block -> Nat] /\ c.best \in Block
  BY ChainStateAssumption DEF Database
<1>2. Orphaned(d) = {}
  <2>1. SUFFICES ASSUME NEW x \in Orphaned(d) PROVE FALSE
    OBVIOUS
  <2>2. x \notin D
    BY <2>1 DEF Orphaned
  <2>3. NHeight(d, x) = 0 /\ NHeight(d, Genesis) = 0
    BY <2>2, ChainStateAssumption DEF NHeight
  <2>4. QED
    BY <2>2, <2>3 DEF Straight
<1>3. \A b \in D \ {Genesis} : Parent[b] \in D
  BY <1>2 DEF Orphaned
<1>4. \A b \in D : NHeight(d, b) = Height[b] /\ Height[b] \in Nat
  BY <1>1 DEF NHeight
<1>5. \A a, b \in D : Height[a] = Height[b] => a = b
  BY <1>4 DEF Straight
<1>6. \A b \in D : Ancestors[b] = {x \in D : Height[x] <= Height[b]}
  BY <1>1, <1>3, <1>5, OneChain
<1>7. PICK n \in Nat :
           /\ s \in [1 .. n -> D] /\ DOMAIN s = 1 .. n
           /\ \A i, j \in 1 .. n : i # j => s[i] # s[j]
           /\ \A b \in D : \E i \in 1 .. n : s[i] = b
           /\ \A i, j \in 1 .. n : i < j => NHeight(d, s[i]) <= NHeight(d, s[j])
  BY <1>2, SortingsHold
<1> DEFINE h == Height[c.best]
           t == NHeight(d, s[d.height + 2])
           A == Above(d, c, s)
           R == Replayed(d, c, s)
<1>8. \A i, j \in 1 .. n : i < j <=> Height[s[i]] < Height[s[j]]
  <2>1. \A i, j \in 1 .. n : i < j => Height[s[i]] < Height[s[j]]
    BY <1>4, <1>5, <1>7
  <2>2. QED
    BY <1>4, <1>7, <2>1
<1>9. A = {i \in 1 .. n : Height[s[i]] > h}
  BY <1>4, <1>7 DEF Above
<1>10. R = {i \in A : \A j \in A : j < i => Height[s[j]] < t}
  BY <1>4, <1>7, <1>9 DEF Replayed, Above
<1>11. PICK i0 \in 1 .. n : Height[s[i0]] = h + 1
  BY <1>7 DEF Straight
<1>12. i0 \in R
  <2>1. i0 \in A
    BY <1>1, <1>9, <1>11
  <2>2. \A j \in A : ~(j < i0)
    BY <1>1, <1>4, <1>7, <1>8, <1>9, <1>11
  <2>3. QED
    BY <1>10, <2>1, <2>2
<1>13. PICK m \in R : \A j \in R : j <= m
  <2> DEFINE S == {n - j : j \in R}
  <2>1. S \in SUBSET Nat /\ S # {}
    BY <1>9, <1>10, <1>12
  <2>2. PICK k \in S : \A l \in S : k <= l
    BY <2>1, LeastNatural
  <2>3. PICK m \in R : k = n - m
    BY <2>2
  <2>4. \A j \in R : n - m <= n - j
    BY <2>2, <2>3
  <2>5. \A j \in R : j <= m
    BY <1>9, <1>10, <2>3, <2>4
  <2>6. QED
    BY <2>5
<1>14. \E i \in DOMAIN s : NHeight(d, s[i]) = NHeight(d, c.best) + 1
  BY <1>4, <1>7, <1>11
<1> DEFINE top == CHOOSE i \in R : \A j \in R : j <= i
<1>15. top \in R /\ \A j \in R : j <= top
  BY <1>13
<1>16. Replay(d, c, s) = [best |-> s[top], applied |-> c.applied \cup {s[i] : i \in R}]
  BY <1>14 DEF Replay
<1>17. top \in 1 .. n /\ s[top] \in D /\ Height[s[top]] > h
  BY <1>7, <1>9, <1>10, <1>15
<1>18. \A i \in 1 .. n : i \in R <=> h < Height[s[i]] /\ Height[s[i]] <= Height[s[top]]
  <2>1. ASSUME NEW i \in R PROVE i \in 1 .. n /\ h < Height[s[i]] /\ Height[s[i]] <= Height[s[top]]
    <3>1. i \in 1 .. n /\ h < Height[s[i]] /\ i <= top
      BY <1>9, <1>10, <1>15, <2>1
    <3>2. ~(top < i)
      BY <1>17, <3>1
    <3>3. QED
      BY <1>4, <1>7, <1>8, <1>17, <3>1, <3>2
  <2>2. ASSUME NEW i \in 1 .. n, h < Height[s[i]], Height[s[i]] <= Height[s[top]] PROVE i \in R
    <3>1. i <= top
      BY <1>4, <1>7, <1>8, <1>17, <2>2
    <3>2. i \in A /\ A \subseteq 1 .. n
      BY <1>9, <2>2
    <3>3. \A j \in A : j < i => Height[s[j]] < t
      BY <1>10, <1>15, <1>17, <3>1, <3>2
    <3>4. QED
      BY <1>10, <3>2, <3>3
  <2>3. QED
    BY <2>1, <2>2
<1>19. h \in Nat /\ Height[Genesis] = 0
  BY <1>1, ChainStateAssumption
<1>20. Ancestors[c.best] = {x \in D : Height[x] <= h}
  BY <1>6
<1>21. R \subseteq 1 .. n
  BY <1>9, <1>10
<1> HIDE DEF A, R, t, h, top
<1>22. {s[i] : i \in R} = {x \in D : h < Height[x] /\ Height[x] <= Height[s[top]]}
  <2>1. ASSUME NEW i \in R PROVE s[i] \in D /\ h < Height[s[i]] /\ Height[s[i]] <= Height[s[top]]
    BY <1>7, <1>18, <1>21
  <2>2. ASSUME NEW x \in D, h < Height[x], Height[x] <= Height[s[top]] PROVE \E i \in R : s[i] = x
    BY <1>7, <1>18, <2>2
  <2>3. QED
    BY <2>1, <2>2
<1>23. Ancestors[s[top]] = Ancestors[c.best] \cup {s[i] : i \in R}
  <2>1. \A x \in D : Height[x] <= Height[s[top]] <=>
           Height[x] <= h \/ (h < Height[x] /\ Height[x] <= Height[s[top]])
    BY <1>19, <1>4, <1>17
  <2>2. Ancestors[s[top]] = {x \in D : Height[x] <= Height[s[top]]}
    BY <1>6, <1>17
  <2>3. QED
    BY <1>22, <1>20, <2>1, <2>2
<1>24. Genesis \notin {s[i] : i \in R}
  BY <1>19, <1>22
<1>25. c.applied = Ancestors[c.best] \ {Genesis}
  OBVIOUS
<1>26. c.applied \cup {s[i] : i \in R} = Ancestors[s[top]] \ {Genesis}
  BY <1>23, <1>24, <1>25
<1>27. Replay(d, c, s) = CoinsAt(s[top]) /\ s[top] \in Block
  BY <1>1, <1>16, <1>17, <1>26
<1>28. QED
  BY <1>27
-----------------------------------------------------------------------------
(* The steps of a start. *)

\* Loading the databases, with the coins that Load was given on disk.
LEMMA LoadStep ==
  ASSUME IInv, ~up, NEW c \in Coins, Load(c), disk' = c, older' = disk,
         replayed' \subseteq Block, astray' \in BOOLEAN,
         ~astray' => /\ ~astray /\ replayed \subseteq replayed'
                     /\ c = CoinsAt(c.best) /\ c.applied \subseteq disk.applied \cup replayed'
  PROVE  IInv'
<1>1. /\ synced' = written /\ flush' = NoFlush /\ dirty' = {} /\ stopping' = stopping
      /\ written' = [written EXCEPT !.flags = @ \ {"shutdown"}]
      /\ up' \in BOOLEAN
      /\ up' => /\ index' = written.index /\ stubs' = Orphaned(written)
                /\ undo' = written.undo /\ lastHeight' = written.height
                /\ tip' = c.best /\ coins' = c
      /\ ~up' => UNCHANGED <<index, stubs, undo, lastHeight, tip, coins>>
  BY DEF Load, Verified, Loaded, IInv
<1>2. written' \in Database /\ written'.index = written.index /\ written'.undo = written.undo
  BY <1>1 DEF IInv, TypeOK, Database
<1>3. /\ Orphaned(written) \subseteq Block /\ Orphaned(written) \cap written.undo = {}
      /\ written.undo \subseteq written.index
  BY ChainStateAssumption DEF Orphaned, IInv, TypeOK, Database, Ordered
<1>4. TypeOK'
  <2>1. CASE up'
    BY <1>1, <1>2, <1>3, <2>1, ChainStateAssumption DEF IInv, TypeOK, Database, NoFlush
  <2>2. CASE ~up'
    BY <1>1, <1>2, <2>2, ChainStateAssumption DEF IInv, TypeOK, NoFlush
  <2>3. QED
    BY <2>1, <2>2
<1>5. Ordered' /\ FlushOfCoins' /\ (up' => Tracked')
  BY <1>1, <1>2, <1>3 DEF IInv, Ordered, FlushOfCoins, Tracked, NoFlush
<1>6. ASSUME ~astray' PROVE DiskSound' /\ (up' => Sound(coins, undo)')
  <2>1. DiskSound /\ Ordered /\ replayed \subseteq replayed'
        /\ c = CoinsAt(c.best) /\ c.applied \subseteq disk.applied \cup replayed'
    BY <1>6 DEF IInv
  <2>2. /\ Chain(disk.best) \subseteq written.undo \cup replayed'
        /\ disk = CoinsAt(disk.best) /\ disk.applied = Chain(disk.best)
        /\ c.applied = Chain(c.best)
    BY <2>1 DEF DiskSound, Sound, Ordered
  <2>3. Chain(c.best) \subseteq written.undo \cup replayed'
    BY <2>1, <2>2
  <2>4. QED
    BY <1>1, <2>1, <2>2, <2>3 DEF DiskSound, Sound
<1>7. QED
  BY <1>1, <1>4, <1>5, <1>6 DEF IInv

LEMMA RestartStep ==
  ASSUME IInv, NEW force \in BOOLEAN, Restart(force)
  PROVE  IInv'
<1>1. ~up /\ Load(disk) /\ older' = disk /\ UNCHANGED <<disk, replayed, astray>>
  BY DEF Restart, history
<1>2. disk \in Coins /\ replayed \subseteq Block /\ astray \in BOOLEAN
  BY DEF IInv, TypeOK
<1>3. ~astray => disk = CoinsAt(disk.best)
  BY DEF IInv, DiskSound, Sound
<1>4. QED
  BY <1>1, <1>2, <1>3, LoadStep

\* The positions of a sorting hold blocks.
LEMMA SortingsType ==
  ASSUME NEW d \in Database, NEW s \in Sortings(d), NEW i \in DOMAIN s
  PROVE  s[i] \in Block
BY ChainStateAssumption DEF Sortings, SetToSeqs, Orphaned, Database

LEMMA RestartReplayingStep ==
  ASSUME IInv, RestartReplaying
  PROVE  IInv'
<1>1. PICK s \in Sortings(written) :
         /\ OutOfSync(written, disk, s)
         /\ LET c == Replay(written, disk, s)
            IN  /\ c.best \in written.index /\ disk' = c /\ older' = disk /\ Load(c)
                /\ replayed' = IF astray' THEN {} ELSE replayed \cup (c.applied \ disk.applied)
  BY DEF RestartReplaying
<1> DEFINE c == Replay(written, disk, s)
<1>2. /\ ~up /\ disk' = c /\ older' = disk /\ Load(c) /\ c.best \in written.index
      /\ replayed' = IF astray' THEN {} ELSE replayed \cup (c.applied \ disk.applied)
      /\ disk.best \in written.index
      /\ astray' = (astray \/ ~ Straight(written, disk))
  BY <1>1 DEF RestartReplaying
<1>3. written \in Database /\ disk \in Coins /\ replayed \subseteq Block /\ Genesis \in written.index
  BY DEF IInv, TypeOK, Ordered
<1>4. c \in Coins
  <2>1. CASE \E i \in DOMAIN s : NHeight(written, s[i]) = NHeight(written, disk.best) + 1
    <3>1. {s[i] : i \in Replayed(written, disk, s)} \subseteq Block
      BY <1>3, SortingsType DEF Replayed, Above
    <3>2. QED
      BY <1>2, <1>3, <2>1, <3>1 DEF Replay, Database
  <2>2. CASE ~ \E i \in DOMAIN s : NHeight(written, s[i]) = NHeight(written, disk.best) + 1
    <3>1. c = [best |-> s[1], applied |-> disk.applied \cup {s[1]}]
      BY <2>2 DEF Replay
    <3>2. s[1] \in Block
      BY <1>2, <1>3, <3>1 DEF Database
    <3>3. QED
      BY <1>3, <3>1, <3>2
  <2>3. QED
    BY <2>1, <2>2
<1>5. ASSUME ~astray' PROVE ~astray /\ c = CoinsAt(c.best)
  <2>1. ~astray /\ Straight(written, disk)
    BY <1>2, <1>5
  <2>2. disk = CoinsAt(disk.best)
    BY <2>1 DEF IInv, DiskSound, Sound
  <2>3. QED
    BY <1>2, <1>3, <2>1, <2>2, ReplayIsSound
<1>6. /\ replayed' \subseteq Block /\ astray' \in BOOLEAN
      /\ ~astray' => replayed \subseteq replayed' /\ c.applied \subseteq disk.applied \cup replayed'
  BY <1>2, <1>3, <1>4
<1> HIDE DEF c
<1>7. QED
  BY <1>2, <1>4, <1>5, <1>6, LoadStep
-----------------------------------------------------------------------------
(* The theorems. *)

LEMMA StepInvariant ==
  ASSUME NoCoinsFault, IInv, [Next]_vars
  PROVE  IInv'
<1>1. ASSUME NEW b \in Block, AcceptBlock(b) PROVE IInv'
  BY <1>1, AcceptBlockStep
<1>2. ASSUME NEW b \in Block, ConnectTip(b) PROVE IInv'
  BY <1>2, ConnectTipStep
<1>3. ASSUME NEW b \in Block, RefuseBlock(b) PROVE IInv'
  BY <1>3, RefuseBlockStep
<1>4. CASE AssertionFails
  BY <1>4, DieInvariant DEF AssertionFails
<1>5. ASSUME NEW b \in Block, WriteBlockIndex(b) PROVE IInv'
  BY <1>5, WriteBlockIndexStep
<1>6. CASE DisconnectTip
  BY <1>6, DisconnectTipStep
<1>7. CASE FlushStateToDisk \/ Shutdown \/ CheckSpace
  BY <1>7, StageStep
<1>8. CASE WriteFileInfo
  BY <1>8, WriteFileInfoStep
<1>9. CASE Sync
  BY <1>9, SyncStep
<1>10. CASE WriteCoins
  BY <1>10, WriteCoinsStep
<1>11. CASE FlushFails
  BY <1>11, FlushFailsStep
<1>12. CASE WriteFlag
  BY <1>12, WriteFlagStep
<1>13. CASE Crash
  BY <1>13, DieInvariant DEF Crash
<1>14. CASE PowerFailure
  BY <1>14, PowerFailureStep
<1>15. ASSUME NEW force \in BOOLEAN, Restart(force) PROVE IInv'
  BY <1>15, RestartStep
<1>16. CASE RestartReplaying
  BY <1>16, RestartReplayingStep
<1>17. CASE UNCHANGED vars
  BY <1>17 DEF vars, memory, durable, history, IInv, TypeOK, Ordered, DiskSound, Sound, Tracked, FlushOfCoins
<1>18. QED
  BY <1>1, <1>2, <1>3, <1>4, <1>5, <1>6, <1>7, <1>8, <1>9, <1>10, <1>11, <1>12, <1>13,
     <1>14, <1>15, <1>16, <1>17 DEF Next

\* Type correctness, whatever fails but the batch of coins.
THEOREM TypeCorrect == NoCoinsFault => (Spec => []TypeOK)
<1>1. SUFFICES ASSUME NoCoinsFault PROVE Spec => []TypeOK
  OBVIOUS
<1>2. Init => IInv
  BY InitInvariant
<1>3. IInv /\ [Next]_vars => IInv'
  BY <1>1, StepInvariant
<1>4. IInv => TypeOK
  BY DEF IInv
<1>5. QED
  BY <1>2, <1>3, <1>4, PTL DEF Spec

\* A crash or a power failure at any point of a flush, also one that follows
\* another, leaves coins that belong to their best block, also if starts have
\* replayed blocks of an index without branches; and the chain can be undone from
\* the synced index, down from the blocks that were replayed.
THEOREM AlwaysRecoverable == NoCoinsFault => (Spec => []Recoverable)
<1>1. SUFFICES ASSUME NoCoinsFault PROVE Spec => []Recoverable
  OBVIOUS
<1>2. Init => IInv
  BY InitInvariant
<1>3. IInv /\ [Next]_vars => IInv'
  BY <1>1, StepInvariant
<1>4. IInv => Recoverable
  BY DEF IInv, DiskSound, Sound, Recoverable
<1>5. QED
  BY <1>2, <1>3, <1>4, PTL DEF Spec

\* The assertions at the start of ConnectBlock and DisconnectBlock hold as long as
\* no flush has failed.
THEOREM AssertionsHold == NoCoinsFault => (Spec => []CoinsAreTips)
<1>1. SUFFICES ASSUME NoCoinsFault PROVE Spec => []CoinsAreTips
  OBVIOUS
<1>2. Init => IInv
  BY InitInvariant
<1>3. IInv /\ [Next]_vars => IInv'
  BY <1>1, StepInvariant
<1>4. IInv => CoinsAreTips
  BY DEF IInv, FlushOfCoins, CoinsAreTips, Running
<1>5. QED
  BY <1>2, <1>3, <1>4, PTL DEF Spec
-----------------------------------------------------------------------------
(* An orderly stop loses nothing. *)

\* What is not in the block-tree database is marked dirty, and nothing is dirty
\* any more when the coins are written.  Where a flush of Shutdown ends without a
\* failure, the coins on disk are those of the tip.
CleanInv ==
    up =>
        /\ (index \ stubs) \ written.index \subseteq dirty
        /\ flush.stage = "coins" => dirty = {}
        /\ flush.stage = "flag" /\ ~stopping =>
              dirty = {} /\ (~astray => disk = CoinsAt(tip))

LEMMA InitClean == Init => CleanInv
BY DEF Init, CleanInv, NoFlush

LEMMA StepClean ==
  ASSUME NoCoinsFault, IInv, CleanInv, [Next]_vars
  PROVE  CleanInv'
<1>1. ASSUME NEW b \in Block, AcceptBlock(b) PROVE CleanInv'
  BY <1>1 DEF AcceptBlock, Running, CleanInv, durable
<1>2. ASSUME NEW b \in Block, ConnectTip(b) PROVE CleanInv'
  <2>1. /\ up /\ up' /\ flush.stage = "no" /\ flush'.stage \in {"no", "space"}
        /\ UNCHANGED <<index, stubs>> /\ dirty \subseteq dirty' /\ written' = WithEntry(b)
    BY <1>2 DEF ConnectTip, Connecting, Running, StartFlush, Touched
  <2>2. QED
    BY <2>1, EntryWritten DEF CleanInv, IInv
<1>3. ASSUME NEW b \in Block, RefuseBlock(b) PROVE CleanInv'
  <2>1. /\ up /\ up' /\ flush.stage = "no" /\ flush' = flush
        /\ UNCHANGED <<index, stubs>> /\ dirty \subseteq dirty' /\ written' = WithEntry(b)
    BY <1>3 DEF RefuseBlock, Connecting, Running
  <2>2. QED
    BY <2>1, EntryWritten DEF CleanInv, IInv
<1>4. ASSUME NEW b \in Block, WriteBlockIndex(b) PROVE CleanInv'
  BY <1>4 DEF WriteBlockIndex, WithEntry, At, CleanInv, IInv, TypeOK, Database
<1>5. CASE DisconnectTip
  <2>1. up' => up /\ flush'.stage = "space" /\ UNCHANGED <<index, stubs, dirty, written>>
    BY <1>5 DEF DisconnectTip, Running, StartFlush, durable
  <2>2. QED
    BY <2>1 DEF CleanInv
<1>6. CASE FlushStateToDisk \/ Shutdown \/ CheckSpace
  <2>1. flush'.stage \in {"space", "files"} /\ UNCHANGED <<up, index, stubs, dirty, written>>
    BY <1>6 DEF FlushStateToDisk, Shutdown, CheckSpace, Running, StartFlush, At, Goto,
                IInv, TypeOK, durable
  <2>2. QED
    BY <2>1 DEF CleanInv
<1>7. CASE WriteFileInfo
  BY <1>7 DEF WriteFileInfo, At, Goto, CleanInv, IInv, TypeOK, Database
<1>8. CASE Sync
  BY <1>8 DEF Sync, At, Goto, IndexDone, CleanInv, IInv, TypeOK
<1>9. CASE WriteCoins
  <2>1. /\ up /\ flush.stage = "coins" /\ disk' = coins /\ tip' = flush.next
        /\ flush'.stage \in {"no", "flag"}
        /\ UNCHANGED <<up, index, stubs, dirty, stopping, written, astray>>
    BY <1>9, LeaveStage DEF WriteCoins, At, IInv, history
  <2>2. ~stopping => coins.best = flush.next
    BY <2>1 DEF IInv, FlushOfCoins
  <2>3. ~astray => coins = CoinsAt(coins.best)
    BY <2>1 DEF IInv, Sound
  <2>4. QED
    BY <2>1, <2>2, <2>3 DEF CleanInv
<1>10. CASE FlushFails
  <2>1. /\ stopping' = TRUE /\ flush'.stage \in {"no", "flag"}
        /\ UNCHANGED <<up, index, stubs, dirty, written>>
    BY <1>10, LeaveStage DEF FlushFails, At, AbortNode, IInv, durable
  <2>2. QED
    BY <2>1 DEF CleanInv
<1>11. CASE WriteFlag \/ Crash \/ PowerFailure \/ AssertionFails
  BY <1>11 DEF WriteFlag, Crash, AssertionFails, PowerFailure, Die, CleanInv
<1>12. ASSUME NEW c, Load(c), ~up PROVE CleanInv'
  BY <1>12 DEF Load, Loaded, CleanInv, IInv, TypeOK, Database, NoFlush
<1>13. ASSUME NEW force \in BOOLEAN, Restart(force) PROVE CleanInv'
  BY <1>12, <1>13 DEF Restart
<1>14. CASE RestartReplaying
  BY <1>12, <1>14 DEF RestartReplaying
<1>15. CASE UNCHANGED vars
  BY <1>15 DEF vars, memory, durable, history, CleanInv
<1>16. QED
  BY <1>1, <1>2, <1>3, <1>4, <1>5, <1>6, <1>7, <1>8, <1>9, <1>10, <1>11, <1>13, <1>14,
     <1>15 DEF Next

\* When Shutdown writes the flag and no write has failed since the start, the coins
\* of the tip are on disk, and the block-tree database has every block and all the
\* undo data that memory had.
THEOREM StopsAreClean == NoCoinsFault => (Spec => CleanStop)
<1>1. SUFFICES ASSUME NoCoinsFault PROVE Spec => CleanStop
  OBVIOUS
<1>2. Init => IInv /\ CleanInv
  BY InitInvariant, InitClean
<1>3. IInv /\ CleanInv /\ [Next]_vars => (IInv /\ CleanInv)'
  BY <1>1, StepInvariant, StepClean
<1>4. ASSUME IInv, CleanInv
      PROVE  [WriteFlag /\ ~stopping =>
                 /\ ~astray => disk = CoinsAt(tip)
                 /\ index \ stubs \subseteq written.index /\ undo \ stubs \subseteq written.undo]_vars
  <2>1. SUFFICES ASSUME WriteFlag, ~stopping
                 PROVE  /\ ~astray => disk = CoinsAt(tip)
                        /\ index \ stubs \subseteq written.index
                        /\ undo \ stubs \subseteq written.undo
    OBVIOUS
  <2>2. up /\ flush.stage = "flag"
    BY <2>1 DEF WriteFlag, At
  <2>3. /\ dirty = {} /\ index \ stubs \subseteq written.index
        /\ ~astray => disk = CoinsAt(tip)
    BY <1>4, <2>1, <2>2 DEF CleanInv
  <2>4. undo \ written.undo \subseteq dirty
    BY <1>4, <2>1, <2>2 DEF IInv, Tracked
  <2>5. QED
    BY <2>3, <2>4
<1>5. QED
  BY <1>2, <1>3, <1>4, PTL DEF Spec, CleanStop
=============================================================================
