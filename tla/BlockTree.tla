------------------------------ MODULE BlockTree ------------------------------
(***************************************************************************)
(* The block index and the activation of the best chain (src/src/main.cpp  *)
(* with the status flags of chain.h): blocks arrive in any order, several  *)
(* threads (the message handler, the miner, RPC) hold cs_main in turn, and *)
(* ActivateBestChain gives the lock up between two steps of a              *)
(* reorganisation.  A region under cs_main is one atomic action.           *)
(*                                                                         *)
(* Blocks are model values of a fixed tree.  Whether a block passes the    *)
(* checks is a property of the block, except for the members of Contextual *)
(* whose CheckBlock, repeated by ConnectBlock, also looks at transaction   *)
(* locks and masternode votes and so may change its mind.                  *)
(* Headers never travel without their block: HeadersFirstSyncingActive is  *)
(* false on every network, so a header is in the index without data only   *)
(* after ContextualCheckBlock has refused its block or the disk write of   *)
(* the block has failed.                                                   *)
(***************************************************************************)
EXTENDS Integers, FiniteSets

CONSTANTS
    Block, Genesis,
    Parent,       \* [Block -> Block]; the genesis block is its own parent
    Proof,        \* [Block -> Nat \ {0}], GetBlockProof
    Height,       \* nHeight, counted from the parent's
    Work,         \* nChainWork, the sum of the proofs
    None,         \* the null pointer
    BadContext,   \* blocks refused by ContextualCheckBlock
    Invalid,      \* blocks refused by ConnectBlock
    Contextual,   \* blocks CheckBlock and ConnectBlock may refuse or not
    Checkpointed, \* blocks of the checkpoint table
    MaxReorg,     \* -maxreorg
    Thread,
    Operations,   \* the rare operations that may happen in this instance
    Budget        \* bound: how many of them

RareOperations == {"invalidate", "reconsider", "reconsiderAny", "reprocess", "writeFails",
                   "systemError"}

ASSUME BlockTreeAssumption ==
    /\ Genesis \in Block /\ None \notin Block
    /\ Parent \in [Block -> Block] /\ Parent[Genesis] = Genesis
    /\ Proof \in [Block -> Nat \ {0}]
    /\ Height \in [Block -> Nat] /\ Height[Genesis] = 0
    /\ Work \in [Block -> Nat] /\ Work[Genesis] = Proof[Genesis]
    /\ \A b \in Block \ {Genesis} : /\ Height[b] = Height[Parent[b]] + 1
                                   /\ Work[b] = Work[Parent[b]] + Proof[b]
    /\ BadContext \cup Invalid \cup Contextual \cup Checkpointed \subseteq Block \ {Genesis}
    /\ MaxReorg \in Nat /\ Budget \in Nat
    /\ Operations \subseteq RareOperations

VARIABLES
    index,            \* mapBlockIndex
    data,             \* blocks with BLOCK_HAVE_DATA (and nTx > 0)
    linked,           \* blocks with nChainTx > 0
    scripts,          \* blocks raised to BLOCK_VALID_SCRIPTS
    failedValid, failedChild,
    seq, nBlockSequenceId,
    candidates,       \* setBlockIndexCandidates
    unlinked,         \* the blocks b with <<b->pprev, b>> in mapBlocksUnlinked
    tip,              \* chainActive.Tip()
    bestInvalid, bestHeader,
    rejected,         \* mapRejectedBlocks
    pc, target,       \* where each thread is, and its pindexMostWork
    todo,             \* rejected blocks a ReprocessBlocks call still has to visit
    budget,
    cutShort          \* history: a system error ended an activation and no round was made since

received == <<index, data, linked, seq, nBlockSequenceId, unlinked, bestHeader>>
validity == <<scripts, failedValid, failedChild, bestInvalid>>
vars == <<received, validity, candidates, tip, rejected, pc, target, todo, budget, cutShort>>

Stages == {"idle", "accepted", "activate", "nested", "test", "check", "reprocess"}

TypeOK ==
    /\ Genesis \in linked /\ linked \subseteq data /\ data \subseteq index /\ index \subseteq Block
    /\ scripts \subseteq data /\ failedValid \cup failedChild \subseteq index
    /\ candidates \subseteq linked /\ unlinked \subseteq data /\ tip \in linked
    /\ seq \in [Block -> Nat] /\ nBlockSequenceId \in Nat
    /\ bestInvalid \in index \cup {None} /\ bestHeader \in index
    /\ rejected \subseteq Contextual
    /\ pc \in [Thread -> Stages] /\ target \in [Thread -> index \cup {None}]
    /\ todo \in [Thread -> SUBSET rejected]
    /\ budget \in 0..Budget /\ cutShort \in BOOLEAN

-----------------------------------------------------------------------------
(* The tree. *)

\* What the pprev pointers lead to: every set of blocks that holds b and the parents of
\* its members.
LeadsTo(b, a) == \A S \in SUBSET Block : b \in S /\ (\A x \in S : Parent[x] \in S) => a \in S
Ancestors == [b \in Block |-> {a \in Block : LeadsTo(b, a)}]

Failed == failedValid \cup failedChild
Chain  == Ancestors[tip]

\* CBlockIndexWorkComparator: TRUE when a sorts after b.
BetterBy(order, a, b) ==
    \/ Work[a] > Work[b]
    \/ Work[a] = Work[b] /\ order[a] < order[b]

Better(a, b) == BetterBy(seq, a, b)

Best(S) == CHOOSE b \in S : \A c \in S \ {b} : Better(b, c)
Highest(S) == CHOOSE b \in S : \A c \in S : Height[c] <= Height[b]
Lowest(S) == CHOOSE b \in S : \A c \in S : Height[c] >= Height[b]

InvalidChainFound(worst, b) ==
    IF worst = None THEN b ELSE IF Work[b] > Work[worst] THEN b ELSE worst

Init ==
    /\ index = {Genesis} /\ data = {Genesis} /\ linked = {Genesis} /\ scripts = {}
    /\ failedValid = {} /\ failedChild = {}
    /\ seq = [b \in Block |-> IF b = Genesis THEN 1 ELSE 0] /\ nBlockSequenceId = 2
    /\ candidates = {Genesis} /\ unlinked = {} /\ tip = Genesis
    /\ bestInvalid = None /\ bestHeader = Genesis /\ rejected = {}
    /\ pc = [t \in Thread |-> "idle"] /\ target = [t \in Thread |-> None]
    /\ todo = [t \in Thread |-> {}]
    /\ budget = Budget /\ cutShort = FALSE

\* A thread inside AcceptBlock's nested ActivateBestChain never lets go of cs_main.
HasLock(t) == \A u \in Thread \ {t} : pc[u] # "nested"

Goto(t, stage) == pc' = [pc EXCEPT ![t] = stage]

\* RPC, SwiftX, a full disk: a thread starts one of the rare operations.
Rare(t, op) ==
    /\ op \in Operations
    /\ pc[t] = "idle" /\ HasLock(t)
    /\ budget > 0 /\ budget' = budget - 1

-----------------------------------------------------------------------------
(* Receiving a block. *)

\* Mutants of Reached: blocks without data are linked, waiting ones are not.
Reached_NoDataToo(b) == {x \in index : b \in Ancestors[x]} \cup {b}
Reached_Alone(b) == {b}

\* The blocks that get their nChainTx when b does: b and what waited for it.
Reached(b) ==
    {b} \cup {x \in unlinked : b \in Ancestors[x] /\ Ancestors[x] \ Ancestors[b] \subseteq unlinked}

\* The queue hands out sequence numbers level by level.
LinkOrders(S) ==
    {f \in [S -> nBlockSequenceId .. nBlockSequenceId + Cardinality(S) - 1] :
        \A x, y \in S : /\ x # y => f[x] # f[y]
                        /\ Height[x] < Height[y] => f[x] < f[y]}

ReceivedBlockTransactions(b) ==
    /\ data' = data \cup {b}
    /\ IF Parent[b] \in linked
       THEN \E f \in LinkOrders(Reached(b)) :
              LET order == [x \in Block |-> IF x \in Reached(b) THEN f[x] ELSE seq[x]]
              IN  /\ seq' = order
                  /\ linked' = linked \cup Reached(b)
                  /\ nBlockSequenceId' = nBlockSequenceId + Cardinality(Reached(b))
                  /\ candidates' = candidates \cup {x \in Reached(b) : ~BetterBy(order, tip, x)}
                  /\ unlinked' = unlinked \ Reached(b)
       ELSE /\ unlinked' = IF Parent[b] \in Failed THEN unlinked ELSE unlinked \cup {b}
            /\ UNCHANGED <<seq, linked, nBlockSequenceId, candidates>>

ContextualCheckBlockHeader(b) ==
    /\ Height[tip] - Height[b] < MaxReorg
    /\ \A c \in Checkpointed : Height[c] = Height[b] => c = b
    /\ \A c \in Checkpointed \cap index : Height[b] >= Height[c]

\* AcceptBlockHeader, for a block whose parent is known and not failed.
HeaderAccepted(b) == IF b \in index THEN b \notin Failed ELSE ContextualCheckBlockHeader(b)

AddToBlockIndex(b) ==
    /\ index' = index \cup {b}
    /\ bestHeader' = IF b \notin index /\ Work[b] > Work[bestHeader] THEN b ELSE bestHeader

\* ProcessNewBlock up to the CheckBlockIndex that ends its critical section,
\* for a block that passed CheckBlock.
ProcessNewBlock(t, b) ==
    /\ pc[t] = "idle"
    /\ HasLock(t)
    /\ b # Genesis /\ Parent[b] \in index \ Failed /\ HeaderAccepted(b)
    /\ b \notin data
    /\ AddToBlockIndex(b)
    /\ IF b \in BadContext
       THEN /\ failedValid' = failedValid \cup {b}
            /\ UNCHANGED <<data, linked, seq, nBlockSequenceId, unlinked, candidates, pc>>
       ELSE /\ ReceivedBlockTransactions(b)
            /\ Goto(t, "accepted")
            /\ UNCHANGED failedValid
    /\ UNCHANGED <<scripts, failedChild, bestInvalid, tip, rejected, target, todo, budget, cutShort>>

\* CheckBlock, without cs_main, finds a conflict with a transaction lock or with
\* the masternode payment votes.
CheckBlockRefuses(t, b) ==
    /\ pc[t] = "idle"
    /\ b \in Contextual
    /\ rejected' = rejected \cup {b}
    /\ UNCHANGED <<received, validity, candidates, tip, pc, target, todo, budget, cutShort>>

\* The disk is full: AcceptBlock aborts when the header is in the index, and the
\* threads go on until the node has shut down.
WriteFails(t, b) ==
    /\ Rare(t, "writeFails")
    /\ b \notin data \cup BadContext
    /\ Parent[b] \in index \ Failed /\ HeaderAccepted(b)
    /\ AddToBlockIndex(b)
    /\ UNCHANGED <<data, linked, seq, nBlockSequenceId, unlinked, validity, candidates, tip,
                   rejected, pc, target, todo, cutShort>>

\* A block received again: only the activation is run.
ProcessKnownBlock(t, b) ==
    /\ pc[t] = "idle"
    /\ HasLock(t)
    /\ b \in data \ Failed /\ b # Genesis /\ Parent[b] \notin Failed
    /\ Goto(t, "accepted")
    /\ UNCHANGED <<received, validity, candidates, tip, rejected, target, todo, budget, cutShort>>

-----------------------------------------------------------------------------
(* Activation. *)

\* The ancestors of c FindMostWorkChain looks at, down to the active chain.
Walk(c) == Ancestors[c] \ Chain
\* Mutant: only the candidate itself is looked at.
Tainted_TopOnly(c) == c \in Failed
Tainted(c) == Walk(c) \cap Failed # {}
Culprit(c) == Highest(Walk(c) \cap Failed)
AboveCulprit(c) == {x \in Walk(c) : Height[x] > Height[Culprit(c)]}

\* The result of FindMostWorkChain's loop.  Tainted candidates are dropped from
\* the best downwards until one with a sound chain is met.
FindMostWorkChain ==
    LET sound == {c \in candidates : ~Tainted(c)}
        most == IF sound = {} THEN None ELSE Best(sound)
        dropped == {c \in candidates \ sound : most = None \/ Better(c, most)}
    IN  [most |-> most,
         marked |-> UNION {AboveCulprit(c) : c \in dropped},
         erased |-> UNION {AboveCulprit(c) \cup {Culprit(c)} : c \in dropped},
         worst |-> IF dropped = {} THEN bestInvalid
                   ELSE InvalidChainFound(bestInvalid, Best(dropped))]

\* Mutants: candidates as good as the tip are pruned too; nothing is pruned.
Pruned_EqualWorkToo(cand, b) == {c \in cand : Work[c] > Work[b] \/ c = b}
Pruned_Never(cand, b) == cand

\* PruneBlockIndexCandidates, with the tip at b.
Pruned(cand, b) == {c \in cand : ~Better(b, c)}

\* Mutant: the failure leaves no mark, as when state.CorruptionPossible().
InvalidBlockFound_NoMark(failing) == {}

\* The failed block is marked and is no candidate any more.
InvalidBlockFound(failing) == IF failing = {} THEN {} ELSE {Lowest(failing)}

\* The blocks to connect, and where a step stops: past the work of the old tip, or at most.
Path(most) == Ancestors[most] \ Chain
Stop(most) ==
    LET beats == {b \in Path(most) : Work[b] > Work[tip]}
    IN  IF beats = {} THEN most ELSE Lowest(beats)

\* The chain is rolled back to the fork and connected again block by block,
\* until a block fails, the tip beats the old one, or most is reached.  Not every
\* refusal that depends on masternode votes is noted in mapRejectedBlocks.
ActivateBestChainStep(most, cand, worst) ==
    \E refused \in SUBSET Contextual, noted \in SUBSET Contextual :
      LET failing == {b \in Path(most) \cap (Invalid \cup refused) : Height[b] <= Height[Stop(most)]}
          newTip == IF failing = {} THEN Stop(most) ELSE Parent[Lowest(failing)]
          connected == {b \in Path(most) : Height[b] <= Height[newTip]}
          bad == InvalidBlockFound(failing)
      IN  /\ tip' = newTip
          /\ scripts' = scripts \cup connected
          /\ failedValid' = failedValid \cup bad
          /\ rejected' = rejected \cup (bad \cap noted)
          /\ candidates' = (IF connected = {} THEN cand ELSE Pruned(cand, newTip)) \ bad
          /\ bestInvalid' = IF bad = {} THEN worst ELSE InvalidChainFound(worst, Lowest(failing))

\* One iteration of ActivateBestChain's outer loop.  A nested call (from
\* AcceptBlock) keeps the lock and returns to ProcessNewBlock's critical section.
ActivateBestChain(t) ==
    /\ pc[t] \in {"accepted", "activate", "nested"}
    /\ HasLock(t)
    /\ LET f == FindMostWorkChain
           cand == candidates \ f.erased
       IN  /\ failedChild' = failedChild \cup f.marked
           /\ target' = [target EXCEPT ![t] = f.most]
           /\ IF f.most \in {None, tip}
              THEN /\ candidates' = cand
                   /\ bestInvalid' = f.worst
                   /\ Goto(t, IF pc[t] = "nested" THEN "accepted" ELSE "idle")
                   /\ UNCHANGED <<tip, scripts, failedValid, rejected>>
              ELSE /\ ActivateBestChainStep(f.most, cand, f.worst)
                   /\ Goto(t, IF pc[t] # "nested" THEN "test"
                              ELSE IF tip' = f.most THEN "accepted" ELSE "nested")
    /\ cutShort' = FALSE
    /\ UNCHANGED <<received, todo, budget>>

\* The step ends without a verdict: a block cannot be read back, or the state cannot be
\* flushed.  DisconnectTip leaves the tip where it is, on the way down.
DisconnectTipFails(most, cand) ==
    /\ tip' \in Chain \ Ancestors[most]
    /\ candidates' = cand
    /\ UNCHANGED scripts

\* ConnectTip fails at some block of the way up, before or after ConnectBlock has raised it.
ConnectTipFails(most, cand) ==
    \E b \in Path(most) :
      LET connected == Ancestors[Parent[b]] \ Chain
      IN  /\ Height[b] <= Height[Stop(most)] /\ connected \cap Invalid = {}
          /\ tip' = Parent[b]
          /\ \E raised \in SUBSET ({b} \ Invalid) : scripts' = scripts \cup connected \cup raised
          /\ candidates' = IF connected = {} THEN cand ELSE Pruned(cand, Parent[b])

\* ActivateBestChain returns at once: without CheckBlockIndex, with the tip as far as it has
\* come.  AcceptBlock does not look at the result of its nested call; the other callers
\* are done.  AbortNode asks for a shutdown, until which the threads go on.
ActivationFails(t) ==
    /\ "systemError" \in Operations /\ budget > 0 /\ budget' = budget - 1
    /\ pc[t] \in {"accepted", "activate", "nested"}
    /\ HasLock(t)
    /\ LET f == FindMostWorkChain
           cand == candidates \ f.erased
       IN  /\ f.most \notin {None, tip}
           /\ DisconnectTipFails(f.most, cand) \/ ConnectTipFails(f.most, cand)
           /\ failedChild' = failedChild \cup f.marked
           /\ bestInvalid' = f.worst
           /\ target' = [target EXCEPT ![t] = f.most]
    /\ Goto(t, IF pc[t] = "nested" THEN "accepted" ELSE "idle")
    /\ cutShort' = TRUE
    /\ UNCHANGED <<received, failedValid, rejected, todo>>

\* Mutant: the loop ends after one step.
TestTip_Once(t) ==
    /\ pc[t] = "test"
    /\ Goto(t, "check")
    /\ UNCHANGED <<received, validity, candidates, tip, rejected, target, todo, budget, cutShort>>

\* while (pindexMostWork != chainActive.Tip()), read without the lock.
TestTip(t) ==
    /\ pc[t] = "test"
    /\ Goto(t, IF target[t] = tip THEN "check" ELSE "activate")
    /\ UNCHANGED <<received, validity, candidates, tip, rejected, target, todo, budget, cutShort>>

\* The closing CheckBlockIndex and periodic flush; nothing is left to do if that fails.
FinishActivation(t) ==
    /\ pc[t] = "check"
    /\ HasLock(t)
    /\ Goto(t, "idle")
    /\ UNCHANGED <<received, validity, candidates, tip, rejected, target, todo, budget, cutShort>>

-----------------------------------------------------------------------------
(* RPC and SwiftX: operations that take blocks back. *)

\* The blocks that become candidates when the tip goes back to b.
Revived(valid, b) == {x \in valid : ~Better(b, x)}

\* invalidateblock; invalidating the genesis block would leave no tip at all.
InvalidateBlock(t, b) ==
    /\ Rare(t, "invalidate")
    /\ b \in index \ {Genesis}
    /\ LET walked == IF b \in Chain THEN {x \in Chain : b \in Ancestors[x]} ELSE {}
           newTip == IF b \in Chain THEN Parent[b] ELSE tip
           valid == linked \ (Failed \cup {b} \cup walked)
       IN  /\ failedValid' = failedValid \cup {b}
           /\ failedChild' = failedChild \cup walked
           /\ tip' = newTip
           /\ candidates' = (candidates \ ({b} \cup walked)) \cup Revived(valid, newTip)
           /\ bestInvalid' = InvalidChainFound(bestInvalid, b)
    /\ Goto(t, "activate")
    /\ UNCHANGED <<received, scripts, rejected, target, todo, cutShort>>

\* Descendants of b that are failed (or have no data), and every ancestor of b,
\* lose both failure flags; only the descendants become candidates again.
ReconsiderBlock(b) ==
    LET below == {x \in index : b \in Ancestors[x] /\ (x \in Failed \/ x \notin data)}
        cleared == below \cup Ancestors[b]
    IN  /\ failedValid' = failedValid \ cleared
        /\ failedChild' = failedChild \ cleared
        /\ candidates' = candidates \cup {x \in below \cap linked : Better(x, tip)}
        /\ bestInvalid' = IF bestInvalid \in below THEN None ELSE bestInvalid

\* "reconsider" undoes a failure at its root; "reconsiderAny" is the RPC on any
\* block of the index.
ReconsiderRpc(t, b) ==
    /\ \/ Rare(t, "reconsiderAny")
       \/ Rare(t, "reconsider") /\ b \in Failed /\ Ancestors[Parent[b]] \cap Failed = {}
    /\ b \in index
    /\ ReconsiderBlock(b)
    /\ Goto(t, "activate")
    /\ UNCHANGED <<received, scripts, tip, rejected, target, todo, cutShort>>

\* AcceptBlock meets a failed parent that a checkpoint vouches for.
ReconsiderCheckpoint(t, b) ==
    /\ pc[t] = "idle"
    /\ HasLock(t)
    /\ b # Genesis /\ Parent[b] \in index \cap Failed \cap Checkpointed
    /\ ReconsiderBlock(Parent[b])
    /\ Goto(t, "nested")
    /\ UNCHANGED <<received, scripts, tip, rejected, target, todo, budget, cutShort>>

\* ReprocessBlocks: the rejected blocks that are not too old are reconsidered one
\* lock at a time, then the last blocks are disconnected and the chain is
\* activated again.
ReprocessBlocks(t) ==
    /\ Rare(t, "reprocess")
    /\ Goto(t, "reprocess")
    /\ \E recent \in SUBSET rejected : todo' = [todo EXCEPT ![t] = recent]
    /\ UNCHANGED <<received, validity, candidates, tip, rejected, target, cutShort>>

ReprocessOne(t) ==
    /\ pc[t] = "reprocess"
    /\ HasLock(t)
    /\ \E b \in todo[t] :
          /\ IF b \in index THEN ReconsiderBlock(b) ELSE UNCHANGED <<validity, candidates>>
          /\ todo' = [todo EXCEPT ![t] = @ \ {b}]
    /\ UNCHANGED <<received, scripts, tip, rejected, pc, target, budget, cutShort>>

\* The code disconnects nBlocks + 1 = 16 blocks.  A short tree disconnects any
\* number of them; the genesis block is never reached.
DisconnectBlocksAndReprocess(t) ==
    /\ pc[t] = "reprocess"
    /\ HasLock(t)
    /\ todo[t] = {}
    /\ tip' \in Chain
    /\ Goto(t, "activate")
    /\ UNCHANGED <<received, validity, candidates, rejected, target, todo, budget, cutShort>>

-----------------------------------------------------------------------------
Activation(t) ==
    ActivateBestChain(t) \/ TestTip(t) \/ FinishActivation(t)
    \/ ReprocessOne(t) \/ DisconnectBlocksAndReprocess(t)

Next ==
    \E t \in Thread :
      \/ Activation(t) \/ ActivationFails(t)
      \/ ReprocessBlocks(t)
      \/ \E b \in Block :
           \/ ProcessNewBlock(t, b) \/ ProcessKnownBlock(t, b) \/ ReconsiderCheckpoint(t, b)
           \/ CheckBlockRefuses(t, b) \/ WriteFails(t, b)
           \/ InvalidateBlock(t, b) \/ ReconsiderRpc(t, b)

\* A thread inside ActivateBestChain keeps running: the loop has no wait other
\* than for cs_main.  Nothing forces a block or an RPC to arrive.
Fairness == \A t \in Thread : WF_vars(Activation(t))

Spec == Init /\ [][Next]_vars
FairSpec == Spec /\ Fairness

-----------------------------------------------------------------------------
(* The assertions of CheckBlockIndex. *)

Blameless(b) == Ancestors[b] \cap failedValid = {}

LinkedExact == \A b \in index : b \in linked <=> Ancestors[b] \subseteq data
ScriptsNested == \A b \in scripts : Ancestors[b] \ {Genesis} \subseteq scripts
FailureRooted == \A b \in Failed : ~Blameless(b)
SequenceExact == \A b \in index \ linked : seq[b] = 0
CandidatesSound == \A b \in candidates : b \in linked /\ ~Better(tip, b)
CandidatesComplete ==
    \A b \in linked : ~Better(tip, b) /\ Blameless(b) => b \in candidates
UnlinkedExact ==
    /\ unlinked \subseteq data \ linked
    /\ \A b \in data \ linked : Blameless(b) => b \in unlinked

\* The last one holds unless a system error has left a reorganisation half done.
CheckBlockIndex ==
    /\ LinkedExact /\ ScriptsNested /\ FailureRooted /\ SequenceExact
    /\ CandidatesSound /\ UnlinkedExact
    /\ ~cutShort => CandidatesComplete

\* Every call of CheckBlockIndex passes: the one that ends ProcessNewBlock's
\* critical section and the one that ends ActivateBestChain.  Between a system error and
\* the next round of an activation, the completeness of the candidates may be missing.
Accepts(t) == pc[t] # "accepted" /\ pc'[t] = "accepted"
Finishes(t) == pc[t] = "check" /\ pc'[t] = "idle"
CheckBlockIndexPasses ==
    [][index' # index \/ (\E t \in Thread : Accepts(t) \/ Finishes(t)) => CheckBlockIndex']_vars

-----------------------------------------------------------------------------
\* The assertions of CheckBlockIndex that hold whenever cs_main is free, also
\* while a reorganisation is half done: nChainTx, mapBlocksUnlinked, sequence
\* numbers and candidates agree with the flags of the blocks and the tip.
IndexConsistent ==
    LinkedExact /\ ScriptsNested /\ SequenceExact /\ CandidatesSound /\ UnlinkedExact

\* No block of the active chain is marked failed, or is one that the checks
\* refuse: not between two steps of a reorganisation, nor after an RPC.
ChainIsValid == Chain \cap (Failed \cup Invalid \cup BadContext) = {}

\* Where the code keeps its promise: no verdict depends on votes or locks, only the root of
\* a failure is reconsidered, and no checkpoint lies on a block that is refused.
Steady ==
    /\ Contextual = {} /\ "reconsiderAny" \notin Operations
    /\ \/ Checkpointed = {}
       \/ /\ "invalidate" \notin Operations
          /\ \A c \in Checkpointed : Ancestors[c] \cap (Invalid \cup BadContext) = {}

\* "The result is either failure or an activated best chain": once no thread is
\* activating, every other block with a complete and blameless chain sorts
\* below the tip, by work and then by order of arrival.  A system error may leave the chain
\* short of it, and then the next activation that gets through a round makes up for it: no
\* candidate it needs is lost.  So it is where Steady holds; with a verdict that changes, a
\* failed reorganisation may not find its way back.
Quiet == \A t \in Thread : pc[t] = "idle"
IsBest == \A b \in linked \ {tip} : Blameless(b) => Better(tip, b)
TipIsBest == Quiet /\ ~cutShort => IsBest

\* A thread that entered ActivateBestChain leaves it, whatever the others do.
ActivationEnds == \A t \in Thread : pc[t] # "idle" ~> pc[t] = "idle"
=============================================================================
