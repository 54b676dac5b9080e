# TLA+ models of TesraSupernet

Specifications of the node software in `src/`, model-checked with TLC on small instances, and
theorems about them checked by TLAPS. `PROJECT.json` lists the components, runs, mutants,
theorems and hazards, and maps every definition that models code to the lines it models.

TesraSupernet is a Bitcoin-derived proof-of-stake node (PIVX lineage, with an EVM for
contracts). Its logic is in `src/src/`. The parts below were taken from the daemon's start-up
(`init.cpp`), the message dispatch (`main.cpp`, `ProcessMessage`) and the threads each part
starts.

## 1. Inventory

| Component | State | Operations | What is hard | What makes it correct |
|---|---|---|---|---|
| **Script check queue** (`checkqueue.h`) | vector of checks, `nIdle`, `nTotal`, `nTodo`, `fAllOk` under one mutex | workers' `Loop`, `Add`, the master's `Wait`, constructor and destructor of the control object | a pool of threads with two condition variables, early returns of `ConnectBlock`, interruption at shutdown | one right verdict per block; counters balanced; `Wait` returns |
| **Block index and best chain** (`main.cpp`, `chain.h`) | `mapBlockIndex` and status flags, `setBlockIndexCandidates`, `mapBlocksUnlinked`, `chainActive`, sequence numbers | `ProcessNewBlock`, `AcceptBlock`, `ActivateBestChain`, `InvalidateBlock`, `ReconsiderBlock`, `ReprocessBlocks` | `cs_main` is released between the steps of a reorganisation; blocks in any order; failure in mid-reorganisation; checks that change their mind | the active chain is sound and best; `CheckBlockIndex` holds; the loop ends |
| **SwiftX locks** (`swifttx.cpp`) | `mapTxLockReq`, `mapTxLockReqRejected`, `mapTxLockVote`, `mapTxLocks`, `mapLockedInputs` | messages `ix`, `txlvote`; local requests; the cleaning of the masternode thread | votes before, after and without their request; conflicting requests; expiry; maps without a lock | a lock needs a quorum; no conflicting locks; inputs are held and released with their lock |
| **Sporks** (`spork.cpp`, `sporkdb.cpp`) | `mapSporks`, `mapSporksActive`, a LevelDB copy | messages `spork`, `getsporks`; `UpdateSpork`, `LoadSporksFromDB`, `ReprocessBlocks` | gossip in any order, restarts, equal time stamps | every node ends with the newest value of each spork, after restarts too |
| **Masternode synchronisation** (`masternode-sync.cpp`) | stage, attempt, time of the last item, per-peer fulfilled requests | `Process` every five seconds, `ssc` messages, `Reset` | progress depends on peers that come and go and on time-outs | stages in order; synchronisation ends |
| **Restart and flushing** (`main.cpp`, `txdb.cpp`, `init.cpp`) | block index, coins and undo data on disk, the "shutdown" flag | `FlushStateToDisk`, `LoadBlockIndexDB`, `VerifyDB`, shutdown | the process or the machine dies between two writes; writes that fail | the coins on disk belong to one block that the index can undo |
| **Coins cache** (`coins.cpp`) | layers of coins with DIRTY and FRESH | `FetchCoins`, `ModifyCoins`, `BatchWrite`, `Flush` | flags that must agree with a layer below | all layers together are one map of coins |
| **Memory pool** (`txmempool.cpp`, `main.cpp`) | `mapTx`, `mapNextTx`, the two maps of orphans | accept, remove recursively, remove conflicts, blocks connected and disconnected, orphans kept, resolved and evicted | removal in the middle of a chain of transactions; coinbases that become immature again | `CTxMemPool::check` passes; orphans are indexed; nothing leaves without a cause |
| **Masternode list** (`masternode.cpp`, `masternodeman.cpp`, `activemasternode.cpp`) | `vMasternodes`, copies of broadcasts and pings, questions asked, `mncache.dat`; the masternode's own status | `mnb`, `mnp`, `dseg`, `CheckAndRemove`, `ManageStatus`, `Register` | entries expire by age while gossip, old copies and restarts bring them back; answers held back as known | a running masternode is in every list in the end, one that has gone in none |
| **Masternode payments** (`masternode-payments.cpp`) | votes per height | `mnw`, `mnget`, block checks, cleaning | the answer to "is this block payable" changes with the votes received | a block is refused only with enough votes against it |
| **Budget** (`masternode-budget.cpp`) | proposals, finalized budgets, votes, orphan votes | `mprop`, `mvote`, `fbs`, `fbvote`, `NewBlock` | orphans, immature collateral, votes that change | one vote per masternode; orphans are not lost |
| **Obfuscation pool** (`obfuscation.cpp`) | the pool's state, entries, queues | `dsa`, `dsi`, `dss`, `dsc`, time-outs | two parties, time-outs, half-signed transactions | nobody signs what it did not agree to |
| Network, address manager, alerts, wallet, mining and staking, scripts, zerocoin, contracts, RPC, start-up | | | | not modelled; reasons in `PROJECT.json` and section 9 |

How they interact:

- `ConnectBlock` (block index) opens a `CCheckQueueControl`, adds one check per input and calls
  `Wait` before it accepts the block. It holds `cs_main` all along, so a `Wait` that did not
  return would stop the node.
- `ConnectBlock` calls `CheckBlock` again, which asks SwiftX (`mapLockedInputs`) and the
  masternode payments whether the block may be accepted; it can answer differently at different
  times. Refused blocks go to `mapRejectedBlocks`.
- When a lock completes for a request that had been rejected, SwiftX calls `ReprocessBlocks`
  (`spork.cpp`), which reconsiders the rejected blocks, disconnects the last blocks and
  activates the best chain again.
- `CleanTransactionLocksList` and `MasternodeSync::Process` run in the thread
  `ThreadCheckObfuScationPool` (`obfuscation.cpp`), concurrently with the message thread.
- `AcceptToMemoryPool` refuses a transaction that conflicts with a lock; `GetIXConfirmations`
  adds the confirmations of a complete lock to those of the wallet.

## 2. Modules

| Module | Models | Role |
|---|---|---|
| `CheckQueueAbs` | what `ConnectBlock` relies on | abstract specification |
| `CheckQueue` | `CCheckQueue`, `CCheckQueueControl` | detailed specification; implements `CheckQueueAbs` |
| `CheckQueueProofs` | | theorems about `CheckQueue` |
| `BlockTree` | block index, activation, invalidation, reprocessing | one specification with any number of threads |
| `BlockTreeProofs` | | theorems about `BlockTree` |
| `CoinsAbs` | three maps of coins: on disk, of the chain, of the block at work | abstract specification |
| `Coins` | `CCoinsViewCache` over `CCoinsViewCache` over `CCoinsViewDB` | detailed specification; implements `CoinsAbs` |
| `CoinsProofs` | | theorems about `Coins`, refinement included |
| `ChainState` | `FlushStateToDisk` write by write, crash, restart | the disk under `BlockTree` and `Coins` |
| `ChainStateProofs` | | theorems about `ChainState` |
| `MemPool` | `CTxMemPool`, acceptance, orphan transactions | one node, all messages and blocks |
| `MemPoolProofs` | | theorems about `MemPool` |
| `SwiftTX` | the locks of one node | its environment sends anything |
| `SwiftTXProofs` | | theorems about `SwiftTX` |
| `Spork` | one switch in a network of nodes | nodes that gossip, stop and restart |
| `SporkProofs` | | theorems about `Spork` |
| `MasternodeNetwork` | the nodes | constants that `MasternodePayments` and `MasternodeList` share |
| `MasternodeSync` | `CMasternodeSync` | one node and the peers that come and go |
| `MasternodePayments` | `CMasternodePayments` in a network of nodes | voting, counting, cleaning, dumps |
| `MasternodeList` | one masternode in the lists of a network, and its own status | nodes that gossip, age, stop, sleep and come back |
| `MasternodeProofs` | | theorems about `MasternodePayments`, `MasternodeSync` and `MasternodeList` |
| `MCBlockTree`, `MCChainState`, `MCMasternodeList`, `MCMasternodePayments`, `MCMemPool`, `MCSpork`, `MCSwiftTX` | | the instances TLC checks; the other modules need none |

Operators whose name ends in a suffix like `_FullBatch` are variants of a definition with a
plausible mistake. They stand before the definition they change, are used nowhere, and show
that a property can fail (section 3).

### CheckQueue

A region guarded by the queue's mutex is one action; between two of them a thread touches only
its own batch (`Execute`). `LoopBody` is the body of `Loop` behind the first `if`: return
(master only), sleep, or take a batch. It is entered by a new thread (`Enter`), by a woken one
(`Wake`) and after a batch (`Report`), each of which first makes the changes of its own path.
`Add` notifies as the code does: one worker for one check, all for more. The order of the vector
of checks decides nothing, so `queue` is a set. `SpuriousWakeup` is the freedom of
`boost::condition_variable`.

`InterruptAll` is the shutdown: `cond.wait` throws past `nIdle--` and `nTotal--`
(`ThrowInterrupted`). In a worker the thread ends; in the master the exception unwinds
`ConnectBlock` and the destructor of the control object calls `Wait` again, which succeeds
because the request has been consumed. When it is the destructor's own `Wait` that is
interrupted - `ConnectBlock` had returned early - an exception leaves a destructor and the
process ends (`Terminate`); `WaitReturns` names this exception.

`verdict` and `added` are history variables: what the control object was given and what `Wait`
returned. "aborted" is a verdict nobody reads.

### BlockTree

Blocks are the model values of a fixed tree, with a proof each; `Height` and `Work` are constants
that obey the recurrences by which `AddToBlockIndex` computes them, and the ancestors of a block
are the closure of `pprev`. A region under `cs_main` is one action. A thread walks through `ProcessNewBlock` ("accepted" after its critical section), one
iteration of `ActivateBestChain`'s loop at a time ("activate"), the comparison `pindexMostWork
!= chainActive.Tip()` made without the lock ("test"), and the closing `CheckBlockIndex`
("check"). "nested" is the call of `ActivateBestChain` from inside `AcceptBlock`, where the
recursive mutex stays held.

`FindMostWorkChain`, `ActivateBestChainStep`, `PruneBlockIndexCandidates`,
`ReceivedBlockTransactions`, `InvalidateBlock` and `ReconsiderBlock` are operators or actions
with the names of the functions; loops over the tree are sets of ancestors or descendants. The
status bits of `chain.h` are sets of blocks (`data`, `scripts`, `failedValid`, `failedChild`),
and `linked` is `nChainTx > 0`.

Whether a block passes is a property of the block (`BadContext`: refused by
`ContextualCheckBlock`; `Invalid`: by `ConnectBlock`), except for `Contextual` blocks:
`CheckBlock` asks SwiftX and the payment votes, so each `ConnectBlock` chooses anew.

A step of the activation can also end without a verdict on a block: `DisconnectTip` or `ConnectTip`
returns false because a flush, a read or a write of undo data failed (`ActivationFails`, one of the
rare operations, "systemError"). The function returns with the tip where the failure left it, in the
middle of a reorganisation lower than before and with the better candidates pruned; `AcceptBlock`
ignores this, `ProcessNewBlock` gives up. The failing flush that closes a successful activation
changes nothing here. The node is then about to stop (`AbortNode`), and after a failed flush the next
step would meet the assertion of `ConnectBlock` (`CoinsAreTips` in `ChainState`); this model lets it go
on with its threads, blocks and RPCs. `cutShort` is the history of such an end, until an activation
makes a step again. A system error inside `InvalidateBlock` (`main.cpp:4590`) is not modelled.

Facts of the code the model relies on: `HeadersFirstSyncingActive` is false on all networks
(`chainparams.cpp`), so headers come only with blocks; without pruning a linked block never
loses its data, so the missing-data branch of `FindMostWorkChain` is not reached; nobody
invalidates the genesis block. `ConnectBlock` skips `CheckBlock` for a block that has just been
checked; the model lets it refuse there too.

The rare operations (`invalidateblock`, `reconsiderblock`, `ReprocessBlocks`, a failing disk
write) are taken from the constant `Operations`, at most `Budget` of them. "reconsider" is
`reconsiderblock` on the root of a failure (no ancestor failed), "reconsiderAny" on any block;
the difference decides whether failure flags stay behind without a cause (section 3).

### Coins

The three layers of the running node: the database, `pcoinsTip` and the view of one block.
What a transaction has left to spend is one value; an entry of a cache is such a value with its
DIRTY and FRESH flags. `FetchCoins` is split by layer (`TipFetch`, `ViewFetch`) and leaves its
copies behind (`TipFilled`, `ViewFilled`), since `BatchWrite` depends on them. `Merged` is the
body of `CCoinsViewCache::BatchWrite` for one entry. The reads of RPCs and of the memory pool
are `AccessTip`; they happen between any two steps of a block. `Restart` forgets both caches.

### ChainState

One `FlushStateToDisk` is the sequence `CheckSpace`, `WriteFileInfo`, `WriteBlockIndex` (one
entry at a time, in any order, as the code iterates over a set of addresses), `Sync`,
`WriteCoins`; it is called after a block is accepted, connected or disconnected and at shutdown,
and a failing step ends in `AbortNode`. Between any two of them the process may die (`Crash`:
what was written stays) or the machine (`PowerFailure`: the block-tree database loses a suffix
of what was written since the last sync - any set of entries, as their order is free - and the
coins may lose their last batch, which was not synced). LevelDB syncs what it finds in its log when a
database is opened (`RecoverLogFile`), so a power failure takes nothing of what a start has read.

`ConnectBlock` writes the entry of a block at once, outside any flush and unsynced, before the undo
data has a place, and does so too for a block it then refuses (`Connecting`, `ConnectTip`,
`RefuseBlock`). So after an unclean stop the index is usually ahead of `nHeightLast`, which only a
flush writes, and the replay is the ordinary path of the next start.

`Restart` and `RestartReplaying` are `LoadBlockIndexDB` to its end: entries whose parent is not
on disk get an empty parent (`stubs`); a block whose parent is a stub is filled in without a
parent when it comes; with the "shutdown" flag unset, the code compares the entry after the last
recorded height with the best block of the coins and may replay blocks. `VerifyDB` (level 4, the last
`-checkblocks` blocks) refuses a start when blocks are missing from the coins or have no undo data, and
may refuse one when there are too many. `replayed` and `astray` are history: the blocks replays have
applied (kept while no replay went astray), and whether one of them met two entries of one height or nothing above the coins. A restart is
one step; a crash in the middle of a replay is not modelled. `-reindex`, pruning and the contents of
block files are not modelled; which block is connected next is free, which includes all of
`BlockTree`'s choices. The fault "coinsFails" (a failing batch write of the coins) is there, but no run
uses it: `coins.h` calls the state after it undefined, and TLC confirms it breaks `Recoverable`.

### MemPool

`mapTx` is `pool`, `mapNextTx` the function `next`, the active chain a sequence of sets of
transactions. `Unchecked`, `RemovedRecursively`, `Conflicts`, `RemoveForBlock` and
`RemoveCoinbaseSpends` follow `txmempool.cpp`; `ReceiveTx` is the whole handler of "tx" with the
work queue of orphans that became complete, the punishment of the peer that sent a bad orphan,
and `LimitOrphanTxSize`. Orphans of one parent are tried in the order of the `std::set` of their
hashes (`HashOrder`). `ConnectTip` and `DisconnectTip` are those of `main.cpp`, with the
transactions of a disconnected block resurrected in order. `Clear` is what `CreateNewBlock`
does when its own block fails the test. Reasons to refuse a transaction that have nothing to do
with its inputs (fees, priority, standardness, locks, scripts) are chosen each time. Not
modelled: fees and sizes, the fee estimator, and zerocoin spends, whose inputs are no outputs
(`CTxMemPool::check` and `removeCoinbaseSpends` do not know them).

### SwiftTX

The state of one node: the five maps of `swifttx.cpp` by their keys, and the memory pool. Two
peculiarities of the code are kept because they decide about the properties: `operator[]` on
`mapTxLockReq` creates an empty transaction (`blank`), and a vote is stored under a hash without
its height and signature before it is checked (`seen`). A vote may be counted or refused
whenever it comes, since rank and key depend on what the node knows by then. The pool and the
blocks are an environment that obeys the code's own checks (`Acceptable`, `BlocksChange`).

Votes carry a height; the one this node computes is `Right`, another one stands for votes of
nodes that saw another age. The handlers are atomic. The real maps are not protected by a lock:
data races on them are outside the model (a hazard).

### Spork

Nodes and connections; a packet stands for the exchange of inventory, request and message, and
may be overtaken. The handler of "spork" has two steps with everything but the message thread of
the node itself in between: `Accept` takes what is newer by time stamp into memory and relays it,
`WriteSpork` puts it into the database. The put may fail (LevelDB's wrapper throws, and
`ProcessMessages` goes on with the next message), and since it is not synced, what the database
answers (`db`) and what a loss of power leaves of it (`disk`) are two variables. `UpdateSpork` is
the RPC at the signer, which does not write its own update; it relays before it stores, which is one
step here. `Connect` is the handshake, in which a node without an entry in its database asks for
sporks - the code looks for three identifiers and asks again only if it has none of the three -
and the answer of the accepting node, whose question is dropped because its own version has not
been sent yet; `SyncAsks` is the stage of `MasternodeSync` that asks three peers. `Crash` loses
memory and connections, and with the power also what is not on disk; `Restart` is
`LoadSporksFromDB`. So a node can come back with an older switch than it acted on and told others
of. `NeverOlder` says how far back, and `NothingMissed` that the first peer it asks brings it up
to date.

### MasternodeSync

`Process` is called once a second and acts every fifth time; each such call is one action,
split by where it returns: `ProcessIdle`, `ProcessWaits`, `ProcessAsks`, `ProcessAfterSleep`.
Time is counted in these calls, with the constants of the code scaled down but in their order
(a quiet period is shorter than the patience with a silent network). `AskSporks`, `AskItems`,
`AskBudget` and `AskRegtest` are the branches of the loop over `vNodes`, which returns at the
first peer it has something to do with. Items, connections, the `mnsync reset` RPC, a machine
that slept for an hour and the locks that `TRY_LOCK` does not get are the environment, and so is
the enforcement spork: `SporkChanges` switches it at any time and as often as it likes, and the
call that gives a stage up reads what it is then (`masternode-sync.cpp:311`, `342`). `waived` (the
stages of this sync that such a call left with nothing heard, because it found the spork off),
`own` (the flags this sync has set) and `twice` are history variables.

### MasternodePayments

All nodes and their votes. `ProcessBlock` and `MayVote` decide whom a masternode votes for, and
at which height; the payee is its own choice. `AddWinningMasternode` and `AddPayee` count;
`CleanPaymentList` forgets old heights; a node that stops loses `nLastBlockHeight`,
`mapMasternodesLastVote` and perhaps the last blocks of its chain (`Rewind`), keeps its dump if
it was whole, and may find a torn one (`Damaged`). A signed vote stays on the network for ever
and reaches a node at any time or never, which includes "mnget" answers. `Required` payees of a
height are what `IsTransactionValid` demands. One assumption: the nodes agree on the ranks of
a height (`Voters`). Any masternode may stop, and one that comes back may vote again for a height
it voted for before, since `nLastBlockHeight` is not saved. `PayeesAgree` is a claim about one height
at a time: it holds as long as fewer masternodes vote for that height again after a stop
(`Repeaters`, from the history `forgot`) than two of its quorums share. With the code's 6 of 10 they
share two, so a height can stand one such masternode and no more; with two in the run TLC finds two
nodes that demand different payees.

### MasternodeList

One masternode in the lists of all nodes: `man[n]` is what the `CMasternodeMan` of node `n` knows
of it (the entry, the copies of its broadcasts with their last pings, the pings seen, when the
question for the entry may be asked again), `disk[n]` its `mncache.dat`, `known` the set
`setInventoryKnown` of every connection. A unit of time is five minutes: ages grow with `Tick`,
which waits until messages have arrived and the threads that run every five minutes or every
minute have done their work (`ManageStatus`, `Sweep`). An inventory, the request for it and the
answer are one message, so a message is empty when its sender has dropped the item by then, as
`ProcessGetData` would find (`Ignored`), and carries the sender's copy of the last ping.

`Register`, `SendMasternodePing`, `ManageStatus` and `EnableHotColdMasterNode` are those of
`activemasternode.cpp`; the owner is the masternode itself or another node
(`StartMasternode`). `ReceiveBroadcast`, `ReceivePing` and `ReceiveDseg` are the branches of
`CMasternodeMan::ProcessMessage`, with `CheckInputsAndAdd` in `TakeBroadcast` and its
`TRY_LOCK` that may fail. `Stop` is a shutdown with its dump or a crash without, `RestartNode` reads
and cleans the file, `Sleep` keeps the memory and lets the ages grow; both come back behind the
chain and ask some peers for the list (`CatchUp`). A ping may be refused once because its block
is not known. The older messages `dsee` and `dseep`, spent collaterals and changed ports or keys
are not modelled.

## 3. Runs

| Run | Question | Instance | Distinct states |
|---|---|---|---|
| `checkqueue` | Are counters, batches and verdicts right through early returns, spurious wakeups and shutdown; does `Wait` return; is the queue a sequential object to its user? | 2 workers, 4 checks of which 1 fails, batch 2, fair | 291,711 |
| `blocktree_one` | With one thread, does the best chain win, and do all `CheckBlockIndex` calls pass? | 7 blocks, 3 branches, an invalid block, 3 RPCs, failed writes or system errors | 132,520 |
| `blocktree_live` | What holds when two threads interleave in mid-reorganisation and every rare operation may happen, and does `ActivateBestChain` end? | 6 blocks with every kind of flaw, a checkpoint, `-maxreorg=1`, 1 rare operation, fair | 23,495 |
| `coins` | Do the flags tell the truth, does the assertion of `BatchWrite` hold, and are the layers three plain maps? | 2 transactions with 2 states of outputs, 2 blocks | 18,618 |
| `chainstate` | Do the coins on disk always belong to a block the index can undo? | 4 blocks on 2 branches, crashes, power failures, full disks, failing index writes | 1,290,423 |
| `chainstate_replay` | Does a node start again after a replay? | the same without faults but crashes | violated |
| `mempool` | Does `CTxMemPool::check` pass, are orphans indexed, does anything leave without a cause? | 10 transactions, 9 outputs, 2 peers, 2 orphans, 4 blocks | 4,851 |
| `swifttx_safety` | Do locks need a quorum, remember their votes and keep their inputs? | 2 conflicting requests, 3 masternodes, quorum 2 | 1,162,080 |
| `spork` | Does every node end with the newest switch, and none fall back? | 3 nodes in a line, 2 updates, 2 faults, fair | 354,258 |
| `mnsync` | Is nobody asked twice, and does every sync end with what it needs? | 3 peers at a time, 4 in all, 2 items, 1 reset, a spork that switches at will, fair | 463,514 |
| `mnlist` | Does a running masternode come back into every list, and does one that has gone leave them for good? | 3 nodes in a line, owner anywhere, 3 broadcasts, 1 fault, fair | 218,408 |
| `payments` | Do counts match votes, and can two nodes demand different payees? | 2 nodes with a masternode each, quorum 2 of 2, heights to 4, 2 faults | 1,011,511 |

The properties are stated with comments in each module. In short:

- `CheckQueue`: `CountersExact` (the unsigned `nTodo` is exact, so never wraps, and
  `nTotal - nIdle` counts the threads with a batch even after exceptions), `ConstructorAssert`, `VerdictRight`, `WaitReturns`, `Implements`.
- `BlockTree`: `IndexConsistent` (the assertions of `CheckBlockIndex` that hold whenever
  `cs_main` is free), `ChainIsValid`, `TipIsBest`, `CheckBlockIndexPasses` (all assertions, at
  the calls the code makes), `ActivationEnds`. `TipIsBest` is checked and proved where `Steady`
  holds: no verdict depends on votes or locks, only roots of failures are reconsidered, and
  checkpoints lie on good blocks or there are none. After a system error the tip may stay below the best
  candidate and candidates may be missing until the next activation has made a step: `cutShort` excludes
  this time from `TipIsBest` and from the candidates of `CheckBlockIndexPasses`; a `CheckBlockIndex` of
  another thread would assert there.
- `Coins`: `FlagsHold` (FRESH and DIRTY against the layer below, and the assertion of
  `BatchWrite`), `Implements`.
- `ChainState`: `Recoverable` (the coins on disk are those of one block whose chain, with undo
  data, is in the synced index; after a replay, but for the undo data of the blocks it applied, and
  unless it went astray), `CoinsAreTips` (the assertions of `ConnectBlock` and
  `DisconnectBlock`), `CleanStop` (an orderly stop in which no write failed leaves nothing
  behind in memory).
- `MemPool`: `CheckPasses`, `OrphansIndexed`, `LeavesForCause`.
- `SwiftTX`: `QuorumDistinct`, `LockNotStolen`.
- `Spork`: `NothingMissed`, `NeverOlder`, `UpdateReaches`.
- `MasternodeSync`: `HeardBeforeFinished`, `NobodyAskedTwice`, `SyncEnds`.
- `MasternodePayments`: `CountsBacked`, `PayeesAgree`.
- `MasternodeList`: `ComesBack`, `LeavesLists`.

Every property of a passing run has a variant of a definition under which it fails.

### Where the code departs from what it says

One run fails on purpose:

- `chainstate_replay`: a node that dies after it has connected a block and before the next flush does
  not start again. The entry of the block is on disk without a place for undo data (`main.cpp:3788`);
  `LoadBlockIndexDB` applies the block to the coins, drops the undo data it gathers on the way, and
  logs "Last block properly recorded"; then `VerifyDB` cannot disconnect the block, and the start
  ends with "Corrupted block database detected", this time and every time after. Only `-forcestart` at
  the first start avoids the replay.

Eight more were found with TLC and are described here without a run of their own; the models
still contain them:

- The same replay looks at positions in a list sorted by height as if there were one block per
  height. With two entries of one height, a consistent database can look out of sync, and the
  replay applies blocks of either branch: from the genesis block, with both a1 and b1 stored and
  flushed, it ends at the one that comes first while the other is reported. When the coins are already
  at the highest entry - after a start with `-forcestart`, which leaves `nHeightLast` behind - it
  applies the genesis block on top of them and makes it their best block. `astray` marks both
  (`ChainState`); with either left out of it, `Recoverable` fails.

- After a failed step of `ActivateBestChain` the lock is released while blocks better than the
  lowered tip are not candidates; with two threads `CheckBlockIndexPasses` fails, against the
  assertion at `main.cpp:6153`. The chain recovers when the activation goes on (`TipIsBest`,
  proved for any number of threads under `Steady`).
- A masternode whose owner is elsewhere, and whose own entry was removed while the machine
  slept, becomes "not capable" with its collateral still noted. The owner's next broadcast is
  then taken for its own and ignored (`masternode.cpp:563`), so it waits for an activation that
  cannot come until it is restarted (`MasternodeList` with `MaxRare` 2).
- A second broadcast within five minutes is kept as seen but not applied
  (`masternode.cpp:546`); pings renew the copy of the first only, and the copy of the second is
  served with an old ping (`MasternodeList`).
- `reconsiderblock` clears the failure of all ancestors but not of their other descendants,
  which stay failed with no failed ancestor, against the assertion at `main.cpp:6149`
  (`BlockTree`, "reconsiderAny", `FailureRooted`).
- `DisconnectBlocksAndReprocess` does not put back the candidates that were pruned, as
  `InvalidateBlock` does. Neither does a reorganisation that fails half way and then finds a
  block of the old chain refused: with a block that `CheckBlock` may refuse now and not before
  (`Contextual`), the activation can end on a chain that is not best, with one thread and
  without any RPC, against "the result is either failure or an activated best chain"
  (`main.cpp:4516`). TLC finds it on `blocktree_one`'s tree with `Contextual = {a2}`,
  `Invalid = {b3}` and no rare operation; the first, "reprocess" with a larger `Budget`, needs a
  change of verdict too. This is why `TipIsBest` is claimed under `Steady` only.
- Votes that come before their request complete the lock, but its inputs are not locked: the
  accepted branch of the request does not look whether the lock is complete already
  (`SwiftTX`, `RequestAccepted`).
- A request that was rejected is compared as an empty transaction, which `operator[]` makes, so
  two complete conflicting locks live side by side, against the comment at `swifttx.cpp:387`
  (`SwiftTX`, `blank`).

## 4. Bounds, and why they are enough

- `CheckQueue`: with two workers, one can sleep, work or have died while the other does anything
  else, and the master is a third thread in the same loop. Four checks with batches of two make
  batches of one and of two, and a check left in the queue.
- The trees of `MCBlockTree` have a fork at the genesis block and one above it, two chains of
  equal work, and one shorter chain with more work: every comparison of
  `CBlockIndexWorkComparator` decides somewhere. Failed blocks occur at the tip, in the middle
  of a branch and at its root. `Budget` 3 with one thread lets one RPC undo another that hit a
  chain the first had changed, or a system error strike between two. Sequence numbers grow only with blocks and need no bound.
  `MaxReorg` = 9 is more than any height; `blocktree_live` sets 1, so that headers are refused.
- `Coins`: transactions do not touch each other in any layer; a second one is there to be read
  or evicted while the first is changed. Two states of outputs tell an old value from a new one.
- `ChainState`: two blocks on one branch and one on the other let a flush meet an index with
  more entries than the chain, a parent that was not written, and a fork of equal height.
  Flushes, crashes and replays are unbounded. `CheckBlocks` is the default of `-checkblocks`, 100, and
  covers these trees.
- `MemPool`: the ten transactions contain a chain of three, two rivals, a transaction with
  two parents, spends of a coinbase, and coinstakes. Maturity 2 within four blocks lets a
  coinbase become mature and immature again. Two orphans reach the limit. The order of
  transactions in a block decides nothing and is fixed.
- `SwiftTX`: two requests conflict on one input, and one of them spends another input as well; a
  quorum of two among three masternodes, so that a lock can have more votes than it needs. Votes
  of one masternode are told apart by `copy`, which stays small since `seen` holds repeats back
  until an expiry.
- `Spork`: three nodes in a line have one without a connection to the signer. Two updates of
  the same second or of different ones, two faults: a crash between the announcement and the
  put is one, a put that is lost and the crash that shows it are two. After the last fault, an update
  of its own second must reach everybody. The identifiers of sporks do not touch each other.
- `MasternodeSync`: thresholds 1 instead of 2, so that three peers are the code's six; the ages
  saturate one above the largest limit they are compared with. Four connections in all let one
  peer replace another in mid-sync. A peer that is passed over when a stage is given up keeps its
  place among the three, as its flag is this sync's own: the sync that stays silent, fails under
  enforcement and is tried again for ever with the same three peers is within `SyncEnds` (checked by
  asking TLC for it).
- `MasternodePayments`: two masternodes whose votes are both needed, of which one stops and
  votes again, is the smallest network in which a second vote could make a second payee. With both
  in `Stopping` it passes as well, in 3,053,755 states and about five minutes; the theorem has no
  bound.
- `MasternodeList`: three nodes in a line, so that one gets everything at second hand; the owner
  is any of them. One fault is a crash, a stop, a sleep, a lock that is taken, a ping refused or
  a second start by the owner, at any time; two faults were checked on two nodes (429,118
  states). Ages keep the order of the code's: a ping is accepted after two units (9 minutes),
  not after three (60), an entry expires after four (120) and goes after five (130), a copy
  after six (260). Time is unbounded, as ages saturate; restarts and sleeps take any time.
- Deadlock is checked for `CheckQueue`, `Coins`, `MasternodeSync` and `MasternodeList`, which never stop (or end
  in a state that keeps stuttering explicitly). The others may stop: their messages, faults or
  heights are used up, and nothing forces the environment to go on.

## 5. Fairness

- `CheckQueue`: weak fairness of each thread's own steps, and of the termination once an
  exception has left the destructor. The operating system runs a thread that is not blocked; a
  thread in `cond.wait` is blocked until it is notified. Spurious wakeups, shutdown, new blocks
  and new checks are not fair. One exception: `Wait` (the call) is not fair, as `ConnectBlock`
  may take any time.
- `BlockTree`: weak fairness of each thread inside `ActivateBestChain` or `ReprocessBlocks`. The
  loops have no wait but for `cs_main`; where `TRY_LOCK` fails the code sleeps 50 ms and tries
  again (`main.cpp:4530`). Block arrival and RPCs are not fair.
- `MasternodeSync`: strong fairness of the call that gets its locks and finds the tip fresh. The
  thread calls `Process` for ever, other threads hold the locks for moments, and a node whose
  chain is never fresh is not meant to sync. Peers and items are not fair. `SyncEnds` asks for
  six peers whose flags are this sync's own: `ClearFulfilledRequest` does nothing when
  `cs_vNodes` is taken, and TLC shows that a sync which then finds all its peers marked stays
  in `SPORKS` for ever.
- `Spork`: weak fairness of the message threads (receiving, and the put that ends it), over
  connections that stay open. `UpdateReaches` speaks of an update made when nothing fails any more.
- `MasternodeList`: weak fairness of all that goes on by itself (`Work`: messages arrive, the
  thread of `ThreadCheckObfuScationPool` runs, time passes) and of the other nodes coming back;
  the masternode may stay away, stopped nodes are counted in `MaxRare`, so nodes are not stopped
  for ever. Strong fairness of `ForgetSome`: `setInventoryKnown` keeps the last thousand
  inventories, and other traffic pushes old ones out. Without it an answer to "dseg" can be held
  back for ever from a peer that has lost the entry it is thought to know.
- The other specifications claim no liveness and assume no fairness.

## 6. Proofs

Eight modules hold theorems, each for all values of the constants that its named assumption
allows and about `Spec` without fairness. They state every invariant and every action property
of the passing runs, the refinement of `CoinsAbs`, and the safety half of that of `CheckQueueAbs`.
The inductive invariants were checked with TLC on the instances of the runs before they were
proved.

| Module | Theorems | Inductive invariant |
|---|---|---|
| `CheckQueueProofs` | `TypeCorrect`, `CountersAreExact`, `NoCheckTwice`, `ConstructorAssertHolds`, `VerdictIsConjunction`, `Refinement`, `InvariantHolds`, `MasterIsAwaited`, `DrainOnlyShrinks` | the invariants of the run, `BatchOwned`, `BatchesDisjoint`, `IdleBound`, `IdleDrained`, `FlagSound`, `VerdictPending`; `WaiterServed` for `MasterIsAwaited` |
| `BlockTreeProofs` | `TypeCorrect`, `IndexIsConsistent`, `ChainIsSound`, `ActivationGoesForward`, `BestChainIsActive`, `EveryCheckPasses` | `TypeOK`, `IndexInv`, `ChainInv`; `SteadyInv` for the last two |
| `CoinsProofs` | `TypeCorrect`, `FlagsTrue`, `AssertionHolds`, `Refinement` | `TypeOK`, `FreshIsNew`, `CleanIsUnchanged`, `BatchWriteAssert` |
| `ChainStateProofs` | `TypeCorrect`, `AlwaysRecoverable`, `AssertionsHold`, `StopsAreClean` | `TypeOK`, `Ordered`, `DiskSound`, `Sound`, `Tracked`, `FlushOfCoins`; `CleanInv` for the last |
| `MemPoolProofs` | `TypeCorrect`, `CheckAlwaysPasses`, `OrphansAgree`, `NothingLeavesWithoutCause` | `TypeOK`, `ChainOK`, `Exact`, `Apart`, `Supplied`, `OrphansIndexed` |
| `SwiftTXProofs` | `TypeCorrect`, `QuorumIsDistinct`, `InputsStay` | `TypeOK`, `VotesRemembered`, `OneVoteEach` |
| `SporkProofs` | `TypeCorrect`, `NothingIsMissed`, `SwitchesNeverFallBack`, `UpdatesAreOnTheirWay`, `NodesCatchUp` | `TypeOK`, `LinksAreUp`, `AskedOverLinks`, `SentOverLinks`, `SendersAreAsNew`, `ClockIsLast`, `Stored`, `NothingMissed`; `Calmed` for the last two |
| `MasternodeProofs`, payments | `TypeCorrect`, `CountsAreBacked`, `PayeesAlwaysAgree` | `TypeOK`, `Held`, `Ranked`, `OncePerHeight`, `Remembered` |
| `MasternodeProofs`, synchronisation | `SyncTypeCorrect`, `NeverFinishedUnheard`, `PeersAreAskedOnce`, `NoCallIsLost` | `SyncTypeOK`, `GoodSync` (`RegtestCounts`), `GoodNodes` (`AskedIsMarked`); `Heard`; `Tallied` for the last |
| `MasternodeProofs`, list | `ListTypeCorrect`, `NothingIsRejuvenated` | `ListTypeOK`, `UpTo` of every dump |

**CheckQueue.** None of the properties is inductive alone. `ConstructorAssert` speaks of the
moment when the master is idle and needs to know that nothing is left then, so `TodoExact`, so
that batches are disjoint and owned by threads at work; the exceptions make `nIdle` and `nTotal`
drift, so only `nTotal - nIdle` is exact (`ActiveExact`), with `nIdle` an upper bound of the
sleepers (`IdleBound`), from which no subtraction goes below zero. `VerdictRight` needs that
`fAllOk` and the local `fOk` know exactly the failures merged (`FlagSound`). All threads run the
same `LoopBody` with counters changed on the way: `Between` says what holds with the new
counters in hand, `LoopBodyInv` proves `IInv'` from it once, and `EnterInv`, `WakeInv`,
`ReportInv` only establish `Between`. `LoopBodyRefines` does the same for the refinement, where
only the master's return, `Open`, `Add`, `Wait`, `Abandon` and `Terminate` are steps of `CheckQueueAbs`.
Two theorems are the safety half of `WaitReturns`. `MasterIsAwaited`: whenever the master sleeps in
`Wait`, a worker holds a batch, so no notification it needs was lost (`WaiterServed`: it sleeps with
the queue empty and results owed). `DrainOnlyShrinks`: outside `Add` no step adds to what is left,
and each report takes its whole, non-empty batch off it. Fairness of the threads does the rest.

**BlockTree.** First the tree: the blocks from one to the genesis block are a line on which height
and work grow, and `CBlockIndexWorkComparator` is a strict order, so a best candidate exists. `IInv`
adds to the properties that `linked` is exactly what has all its data below it (`LinkedExact`),
that sequence numbers are unique, and that candidates are linked and no worse than the tip. Two lemmas carry the loops: `FindMostHolds` (the walk of `FindMostWorkChain` marks
only descendants of failures and ends at a sound candidate) and `StepMoves` (what
`ActivateBestChainStep` leaves behind when it fails at any block). In mid-reorganisation the tip
may be worse than before and candidates forgotten, so `TipIsBest` needs more: under `Steady` there
is always an anchor, a sound candidate at least as good as the tip from which on no candidate is
missing, and the activation does not end before it has reached it, unless a system error ends it; that
keeps the anchor (`AnchorKept`), so the next activation that makes a step finds it. This holds for any number of
threads; `EveryCheckPasses` assumes a single one, and TLC refutes it for two (section 3).
`ActivationGoesForward` is the safety half of `ActivationEnds` and needs no `Steady`: a round of
`ActivateBestChain` either fails at a block that was not failed (`Tainted` excludes the others), or
moves to a better tip (past the old work, or to the candidate, which `CandidatesSound` puts above the
tip), or is the last. Blocks are finitely many; only `TakesBack` gives some back.

**Coins.** A FRESH entry has nothing in the layer below, an entry that is not DIRTY is equal to
it, and every changed entry of the view has a copy in `pcoinsTip` unless it is FRESH. The last
is the assertion of `BatchWrite`, and holds because every read of the view filled `pcoinsTip`
and nothing flushes `pcoinsTip` while a view is open. Under these the content of each layer
seen through its caches is a plain map, and every step maps to a step of `CoinsAbs` or a
stutter.

**ChainState.** `Sound` relates a coins database to an index: the applied blocks are the chain
of the best block, each with undo data. `Tracked` says what is not on disk is in
`setDirtyBlockIndex`; `Ordered` that the flush writes index, sync and coins in this order.
Together they make every prefix of the writes, with any unsynced suffix lost, sound again. A replay of
an index with one entry of every height keeps the coins those of one block (`ReplayIsSound`): such an
index is one chain (`OneChain`), a sorting lists it from the genesis block up (`SortingsHold`), and what is
applied is the stretch from the old best block to the new one. The theorems assume `NoCoinsFault` (no
failing batch write of the coins) by name, and make no claim for coins that a replay has led astray. For `StopsAreClean` a second invariant rides on
`IInv`: what the block-tree database lacks is dirty, nothing is dirty once the coins are written,
and a flush of `Shutdown` that arrives at the flag without a failure has put the tip's coins on disk.

**MemPool.** The pool's inputs come from the pool or from a mature, unspent coin (`Supplied`),
`mapNextTx` is exactly their spends (`Exact`), no transaction is both pooled and mined (`Apart`), and
what a block spends was mined in it or below (`ChainOK`). Each removal of `txmempool.cpp` is shown to
keep these: a removal takes descendants along, a block takes its transactions and their rivals,
a lower tip takes the spends of coinbases that became immature. The two loops, resurrection of a disconnected block and the work queue of
orphans, are folds; the proof takes a fold apart into the states between its steps (`IsFold`,
`Follows`) and carries `Refilling` and `Works` through them. `WithSpenders`, which the model computes
by repetition up to the number of transactions, is shown closed by counting: a round that adds
nothing ends it, and no more rounds add something than there are transactions.

**SwiftTX.** `OneVoteEach`: among the votes of a lock each masternode occurs once, because
`seen` remembers every vote that counts (`VotesRemembered`) until the lock expires with its
votes. `InputsStay` is an action property.

**Spork.** A connection that closes takes its packets and the memory of what was asked over it along
(`SentOverLinks`, `AskedOverLinks`). So a packet in flight always comes from a node at least as new as
its message (`SendersAreAsNew`), and a node is only behind a peer that it asked while something
newer is on the way to it (`NothingMissed`). `Stored` (except at the signer, memory is as new as the
database and the database as the disk, and what is about to be put is what memory holds) gives
`NeverOlder` wherever a node stops: a put that comes late, fails or is lost never
leaves anything older. `UpdatesAreOnTheirWay` and `NodesCatchUp` are the safety
half of `UpdateReaches`: after an update made when nothing fails any more, a node that lacks it has it
coming, or has a peer that lacks it too, has it coming, and will relay it (`Reaching`); each such
packet takes one node off `Behind`, which never grows. As in the run, each node is a peer of the
signer or of one of its peers (`Calm`).

**Payments.** `OncePerHeight`: a masternode that has not stopped after its vote for a height
(`forgot`) has signed one vote for it, as `nLastBlockHeight` only grows while it runs
(`Remembered`). Two payees of a height with `Required` votes each share at least
`2 * Required - Total` voters, so, where `Repeaters` of that height are fewer, one masternode that is
none of them would have signed both. No masternode is assumed to keep running.

**Synchronisation.** What was heard stays heard until the sync starts over, and a stage is left for
the next one only with it, or by a call that found the spork off (`Heard`, `CallLeaves`), however the
spork is switched before and after; on regtest, where the stages have
an attempt count of their own, it ends at the seventh (`RegtestCounts`), which bounds `attempt`. What
was asked over a connection is among its fulfilled requests as long as both exist (`AskedIsMarked`),
since the marks are cleared only together with a new sync. The loop over `vNodes` returns at the
first peer it has something for; the proof gives each branch an outcome (`GoodOutcome`).
`NoCallIsLost` is the safety half of `SyncEnds`: with six peers whose flags are this sync's own, a
call that gets to them asks one more, leaves the stage, or has heard something and waits for
silence. It counts the peers that a stage has flagged (`Tallied`): at most its attempts until all are
made, and, while nothing is heard, at most the calls since it began. It assumes `Patience < 3 * Threshold`, five calls
(`MASTERNODE_SYNC_TIMEOUT * 5`) and six peers in the code: `LIST` and `MNW` look at the time only when there
is a peer left to ask, so the time must be over first.

**List.** The type invariant is not inductive alone: a dump must hold only broadcasts that were
signed (`UpTo`), so that what a restarted node reads and sends was signed too.

`NothingIsRejuvenated` is the safety half of `LeavesLists`. `Gone(k)` says that no entry, copy,
recent ping, dump or message tells of a life less than `k` units ago. Every step but a new signature keeps it -
copies travel with the age their sender has, and an update takes the age of a ping that fits - and
`Tick` turns it into `Gone(k + 1)`, until the next `CheckAndRemove` of a running node must drop the
entry before `Tick` may pass again. No bound on the number of nodes, connections or restarts is needed.

The three parts of `MasternodeProofs` share no state; the operators of the last two are prefixed
(`SyncNext`, `ListNext`) so that one module can extend all three.

Induction over the naturals is done with sets: the set of counterexamples has a least member
(`LeastNatural`), as induction rules with an operator parameter cannot be instantiated.

Only model-checked: liveness (`WaitReturns`, `ActivationEnds`, `SyncEnds`, `UpdateReaches`,
`ComesBack`, `LeavesLists`, and the liveness half of `CheckQueue`'s `Implements`), as fairness and
`ENABLED` are out of the prover's reach. Of `WaitReturns`, `ActivationEnds`, `SyncEnds`,
`UpdateReaches` and `LeavesLists` the theorems above have the safety half: that no step goes back and that something
brings the end nearer. That it happens is left to TLC.

## 7. Plan

Done: `CheckQueue`, `BlockTree`, `SwiftTX`, `Coins`, `ChainState`, `MasternodeSync`, `Spork`,
`MasternodePayments`, `MemPool`, `MasternodeList`, and the proofs of section 6. What is left, in
this order:

1. Proofs: the safety half of `ComesBack`, and `Coins` and `ChainState` under one specification.
2. `Budget`: proposals, finalized budgets, orphan votes and their re-tries.
3. `SwiftTXNet`: several nodes of `SwiftTX`'s votes with ranked masternodes; theorem: two
   quorums meet, so two conflicting requests are never both locked while masternodes vote once
   and remember.
4. The obfuscation pool's phases between client and masternode.

## 8. Hazards without a property

`PROJECT.json` lists the hazards at their line, with the properties about them. Five have none:

- `swifttx.cpp:88`, `swifttx.cpp:350` and `masternode.cpp:563` are departures of section 3;
- `masternode-sync.cpp:222`: a sync that cannot clear its peers' flags, known to stay for ever;
- `obfuscation.cpp:2311`: `std::map`s shared by threads without a lock are outside the memory
  model of these specifications.

Others, not in the list: `reconsiderblock` (`main.cpp:4634`, section 3); a failing batch of
coins, which breaks `Recoverable` ("coinsFails", `txdb.cpp:72`); votes for locks that are
forgotten in a restart (`swifttx.cpp:22`) and ranks by stale block hashes (`masternode.cpp:27`),
which need the network of masternodes that is planned; an iterator read after it was advanced
past an erased copy (`masternodeman.cpp:322`).

Smaller ones, not in the list: a block that fails with `CorruptionPossible` is tried again at
once and for ever (`main.cpp:4486`); `-maxreorg` compares the height of a new header, not the
depth of a reorganisation (`main.cpp:5098`); `CheckBlock` inserts into `mapRejectedBlocks`
without a lock (`main.cpp:4959`); a good vote is ignored after a bad one of the same masternode
(`swifttx.cpp:136`); a dump of the payments that was cut short is never
overwritten, since `DumpMasternodePayments` reads it first and gives up
(`masternode-payments.cpp:166`); inputs held by rejected requests are never released (`swifttx.cpp:431`);
the signer does not write its own spork (`spork.cpp:226`), and two updates of one second leave
nodes with either (`spork.cpp:78`); orphans are not reconsidered when their parent comes in a
block. The models follow the code in each of these, except for the first and the third.

## 9. Not modelled

Sockets and buffers (`net.cpp`), the address manager, alerts, the wallet, RPC and REST front
ends, ZMQ and the GUI: pure I/O or bookkeeping under one lock. Scripts, signatures, proofs of
stake, zerocoin and contracts: computations on one transaction or block, which enter the models
as a verdict. LevelDB, Berkeley DB, secp256k1, libzerocoin, lz4, cryptopp and univalue are
vendored libraries. The budget and the obfuscation pool are planned.

Most of the repository is such code: hash functions, libraries, the EVM, genesis data and front
ends hold no protocol state of their own. The share of all lines that the map covers stays small
for that reason; what is modelled is the logic named in section 1.

## 10. Running

    tlc -workers 2 -config BlockTreeLive.cfg MCBlockTree.tla
    tlc -workers 2 -config ChainState.cfg MCChainState.tla
    tlapm CheckQueueProofs.tla
