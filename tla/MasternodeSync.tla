---------------------------- MODULE MasternodeSync ----------------------------
(***************************************************************************)
(* How a node gathers sporks, the masternode list, the payment votes and   *)
(* the budget from its peers, one after the other: CMasternodeSync         *)
(* (src/src/masternode-sync.cpp), driven once a second by                  *)
(* ThreadCheckObfuScationPool (src/src/obfuscation.cpp).                   *)
(*                                                                         *)
(* Time is counted in calls of Process that get past the tick counter, one *)
(* every five seconds; a time stamp is the number of such calls since, and *)
(* stops counting when no comparison of the code tells more.  What an item *)
(* says is the managers' matter: here it is one more "seen" for its kind.  *)
(***************************************************************************)
EXTENDS Integers, FiniteSets, FiniteSetsExt, SequencesExt

CONSTANTS
    Item,            \* what the peers have of each kind
    Threshold,       \* MASTERNODE_SYNC_THRESHOLD
    Quiet,           \* MASTERNODE_SYNC_TIMEOUT * 2, in calls of Process
    Patience,        \* MASTERNODE_SYNC_TIMEOUT * 5, in calls of Process
    RetryAfter,      \* the minute a failed sync waits, in calls of Process
    MaxPeers,        \* bound: connections at a time
    MaxConnections,  \* bound: connections in all
    MaxItems,        \* bound: items that arrive during one sync
    MaxResets        \* bound: resets that are not the retry of a failed sync

ASSUME MasternodeSyncAssumption ==
    /\ IsFiniteSet(Item)
    /\ {Threshold, Quiet, Patience, RetryAfter} \subseteq Nat \ {0}
    /\ {MaxPeers, MaxConnections, MaxItems, MaxResets} \subseteq Nat

Stage == {"INITIAL", "SPORKS", "LIST", "MNW", "BUDGET", "FAILED", "FINISHED"}
Kind == {"LIST", "MNW", "BUDGET"}
Request == {"getspork", "mnsync", "mnwsync", "busync"}
RequestOf == [SPORKS |-> "getspork", LIST |-> "mnsync", MNW |-> "mnwsync", BUDGET |-> "busync"]

VARIABLES
    chain,     \* REGTEST or another network; never changes
    enforced,  \* whether SPORK_8_MASTERNODE_PAYMENT_ENFORCEMENT is active
    sync,      \* the members of CMasternodeSync
    synced,    \* the static flag of IsBlockchainSynced
    vNodes,    \* the connections, oldest first
    opened,    \* number of connections made
    resets,    \* number of resets counted by MaxResets
    waived     \* not in the code: the stages of this sync that were left with nothing
               \* heard by a call that found the spork off

syncVars == <<chain, enforced, sync, synced, vNodes, opened, resets, waived>>

Never == -1
Until(limit) == 0 .. limit + 1

\* "own" and "twice" are not in the code: the flags this sync has set itself, and whether
\* it asked the peer for anything it had set the flag of.
CNode == [fulfilled : SUBSET Request, own : SUBSET Request, twice : BOOLEAN]

SyncTypeOK ==
    /\ chain \in {"main", "regtest"} /\ enforced \in BOOLEAN /\ synced \in BOOLEAN
    /\ sync \in [stage : Stage, attempt : 0 .. Max({7, 3 * Threshold}), started : Until(Patience),
                 failure : Until(RetryAfter), last : [Kind -> {Never} \cup Until(Quiet)],
                 seen : [Kind -> [Item -> 0 .. Threshold]]]
    /\ vNodes \in Seq(CNode) /\ Len(vNodes) <= MaxPeers
    /\ opened \in 0 .. MaxConnections /\ resets \in 0 .. MaxResets
    /\ waived \subseteq {"LIST", "MNW"}

-----------------------------------------------------------------------------
(* The members of CMasternodeSync, and what its functions make of them.    *)

\* CMasternodeSync::Reset
ResetState ==
    [stage |-> "INITIAL", attempt |-> 0, started |-> 0, failure |-> 0,
     last |-> [k \in Kind |-> Never], seen |-> [k \in Kind |-> [i \in Item |-> 0]]]

Older(age, limit) == IF age = Never THEN Never ELSE Min({age + 1, limit + 1})

\* Five seconds later.
Aged(s) ==
    [s EXCEPT !.started = Older(@, Patience),
              !.failure = IF s.stage = "FAILED" THEN Older(@, RetryAfter) ELSE 0,
              !.last = [k \in Kind |-> Older(@[k], Quiet)]]

StageAfter == [INITIAL |-> "SPORKS", FAILED |-> "SPORKS", SPORKS |-> "LIST",
               LIST |-> "MNW", MNW |-> "BUDGET", BUDGET |-> "FINISHED"]

\* CMasternodeSync::GetNextAsset
NextAsset(s) == [s EXCEPT !.stage = StageAfter[@], !.attempt = 0, !.started = 0]

\* For the mutants of the runs: the sync goes on without what it asked for.
Failed_GoesOn(s) == NextAsset(s)

\* The sync has failed and will be tried again later.
Failed(s) == [s EXCEPT !.stage = "FAILED", !.attempt = 0, !.failure = 0]

\* Nothing new of this kind for a while, and enough peers asked.
Settled(s, k) ==
    /\ s.last[k] # Never
    /\ s.last[k] > Quiet
    /\ s.attempt >= Threshold

\* For the mutants of the runs: no limit of time.
GivenUp_NeverLate(s, k) == s.last[k] = Never /\ s.attempt >= 3 * Threshold

\* Nothing at all of this kind, and enough peers asked or enough time gone.
GivenUp(s, k) ==
    /\ s.last[k] = Never
    /\ s.attempt >= 3 * Threshold \/ s.started > Patience

-----------------------------------------------------------------------------
(* The flags of the connections.                                           *)

\* What a failed TRY_LOCK of ClearFulfilledRequest leaves is left.
SyncBegins(node, cleared) ==
    [node EXCEPT !.fulfilled = IF cleared THEN {} ELSE @, !.own = {}]

Mark(node, r) == [node EXCEPT !.fulfilled = @ \cup {r}, !.own = @ \cup {r}]

\* For the mutants of the runs: the request is not remembered.
Ask_Forgets(node, r) == [node EXCEPT !.own = @ \cup {r}, !.twice = @ \/ r \in node.own]

Ask(node, r) == [node EXCEPT !.fulfilled = @ \cup {r}, !.own = @ \cup {r},
                             !.twice = @ \/ r \in node.own]

Unfulfilled(nodes, r) == {i \in DOMAIN nodes : r \notin nodes[i].fulfilled}

-----------------------------------------------------------------------------
(* The loop of Process over vNodes, which returns at the first peer it has *)
(* something to do with.                                                   *)

Outcome(s, nodes) == [sync |-> s, nodes |-> nodes]

AskSporks(s, nodes) ==
    LET free == Unfulfilled(nodes, "getspork")
        next == IF s.attempt >= 2 THEN NextAsset(s) ELSE s
    IN  IF free = {} THEN Outcome(s, nodes)
        ELSE Outcome([next EXCEPT !.attempt = @ + 1],
                     [nodes EXCEPT ![Min(free)] = Ask(@, "getspork")])

\* LIST and MNW; k is the stage.
AskItems(s, nodes, k) ==
    LET r == RequestOf[k]
        free == Unfulfilled(nodes, r)
        first == Min(free)
    IN  CASE nodes = <<>> -> Outcome(s, nodes)
          [] nodes # <<>> /\ Settled(s, k) -> Outcome(NextAsset(s), nodes)
          [] OTHER ->
             CASE free = {} -> Outcome(s, nodes)
               [] free # {} /\ GivenUp(s, k) ->
                  Outcome(IF enforced THEN Failed(s) ELSE NextAsset(s),
                          [nodes EXCEPT ![first] = Mark(@, r)])
               [] free # {} /\ ~GivenUp(s, k) /\ s.attempt >= 3 * Threshold ->
                  Outcome(s, [nodes EXCEPT ![first] = Mark(@, r)])
               [] OTHER ->
                  Outcome([s EXCEPT !.attempt = @ + 1], [nodes EXCEPT ![first] = Ask(@, r)])

AskBudget(s, nodes) ==
    LET free == Unfulfilled(nodes, "busync")
        first == Min(free)
    IN  CASE nodes = <<>> -> Outcome(s, nodes)
          [] nodes # <<>> /\ (Settled(s, "BUDGET") \/ GivenUp(s, "BUDGET")) ->
             Outcome(NextAsset(s), nodes)
          [] OTHER ->
             CASE free = {} -> Outcome(s, nodes)
               [] free # {} /\ s.attempt >= 3 * Threshold ->
                  Outcome(s, [nodes EXCEPT ![first] = Mark(@, "busync")])
               [] OTHER ->
                  Outcome([s EXCEPT !.attempt = @ + 1],
                          [nodes EXCEPT ![first] = Ask(@, "busync")])

\* For the mutants of the runs: the last attempt is never made.
AskRegtest_Endless(s, nodes) ==
    IF nodes = <<>> THEN Outcome(s, nodes) ELSE Outcome([s EXCEPT !.attempt = @ + 1], nodes)

\* A test network asks its first peer for everything, three times over.
AskRegtest(s, nodes) ==
    IF nodes = <<>> THEN Outcome(s, nodes)
    ELSE Outcome([s EXCEPT !.attempt = @ + 1,
                           !.stage = IF s.attempt >= 6 THEN "FINISHED" ELSE @], nodes)

AskPeers(s, nodes) ==
    CASE chain = "regtest" -> AskRegtest(s, nodes)
      [] chain # "regtest" /\ s.stage = "SPORKS" -> AskSporks(s, nodes)
      [] chain # "regtest" /\ s.stage \in {"LIST", "MNW"} -> AskItems(s, nodes, s.stage)
      [] OTHER -> AskBudget(s, nodes)

-----------------------------------------------------------------------------
(* CMasternodeSync::Process                                                *)

\* A finished sync starts over when no masternode is left, a failed one after a minute.
Woken(s, lost) ==
    IF (s.stage = "FINISHED" /\ lost) \/ (s.stage = "FAILED" /\ s.failure > RetryAfter)
    THEN ResetState ELSE s

\* Where the call goes on from, unless it returns at once.
AtWork(lost) == {s \in {Woken(Aged(sync), lost)} : s.stage \notin {"FINISHED", "FAILED"}}

CountReset(lost) ==
    IF lost THEN resets < MaxResets /\ resets' = resets + 1
            ELSE resets' = resets

\* What the environment decides during one call: "lost", CountEnabled() is 0; "cleared",
\* ClearFulfilledRequest gets cs_vNodes; "tipFresh", IsBlockchainSynced gets cs_main and
\* the tip is less than an hour old.  Each only where the code looks at it.
Answers(lost, cleared, tipFresh) ==
    /\ lost => sync.stage = "FINISHED"
    /\ ~cleared => Woken(Aged(sync), lost).stage = "INITIAL"
    /\ tipFresh => chain # "regtest"
    /\ synced => tipFresh

Begun(s) == IF s.stage = "INITIAL" THEN NextAsset(s) ELSE s
NodesBegun(s, cleared) ==
    IF s.stage = "INITIAL" THEN [i \in DOMAIN vNodes |-> SyncBegins(vNodes[i], cleared)]
                           ELSE vNodes

\* A new sync has waived nothing.
WaivedBefore(s) == IF s.stage = "INITIAL" THEN {} ELSE waived

\* A call that finds the spork off takes the sync from s to "to".
Waives(s, to) ==
    {k \in {"LIST", "MNW"} : ~enforced /\ s.stage = k /\ s.last[k] = Never
                            /\ to.stage = StageAfter[k]}

\* It is finished, or has failed less than a minute ago.
ProcessIdle ==
    /\ sync' = Aged(sync)
    /\ Woken(Aged(sync), FALSE).stage \in {"FINISHED", "FAILED"}
    /\ UNCHANGED <<chain, enforced, synced, vNodes, opened, resets, waived>>

\* The chain is behind and the sporks are there, or cs_vNodes is taken.
ProcessWaits(lost, cleared, tipFresh, locked) ==
    /\ Answers(lost, cleared, tipFresh)
    /\ synced' = tipFresh
    /\ \E s \in AtWork(lost) :
          /\ \/ chain # "regtest" /\ ~tipFresh /\ Begun(s).stage # "SPORKS"
             \/ ~locked
          /\ sync' = Begun(s)
          /\ vNodes' = NodesBegun(s, cleared)
          /\ waived' = WaivedBefore(s)
    /\ CountReset(lost)
    /\ UNCHANGED <<chain, enforced, opened>>

ProcessAsks(lost, cleared, tipFresh) ==
    /\ Answers(lost, cleared, tipFresh)
    /\ synced' = tipFresh
    /\ \E s \in AtWork(lost) :
       \E begun \in {Begun(s)} :
          /\ chain = "regtest" \/ tipFresh \/ begun.stage = "SPORKS"
          /\ \E outcome \in {AskPeers(begun, NodesBegun(s, cleared))} :
                /\ sync' = outcome.sync /\ vNodes' = outcome.nodes
                /\ waived' = WaivedBefore(s) \cup Waives(begun, outcome.sync)
    /\ CountReset(lost)
    /\ UNCHANGED <<chain, enforced, opened>>

\* IsBlockchainSynced, called here, finds that it was not called for an hour.
ProcessAfterSleep(lost, cleared, tipFresh) ==
    /\ chain # "regtest"
    /\ Answers(lost, cleared, TRUE)
    /\ resets < MaxResets
    /\ resets' = resets + 1
    /\ sync' = ResetState /\ waived' = {}
    /\ synced' = tipFresh
    /\ \E s \in AtWork(lost) : vNodes' = NodesBegun(s, cleared)
    /\ UNCHANGED <<chain, enforced, opened>>

-----------------------------------------------------------------------------
(* What happens between two calls of Process.                              *)

\* IsBlockchainSynced, called by the other threads.
IsBlockchainSynced ==
    /\ chain # "regtest"
    /\ ~synced /\ synced' = TRUE
    /\ UNCHANGED <<chain, enforced, sync, vNodes, opened, resets, waived>>

\* A "spork" message, the clock that reaches a spork's time, or the "spork" command: the
\* calls of Process ask IsSporkActive each time.
SporkChanges ==
    /\ enforced' = ~enforced
    /\ UNCHANGED <<chain, sync, synced, vNodes, opened, resets, waived>>

\* The same, called first after the machine has slept for an hour.
WakeUp(tipFresh) ==
    /\ chain # "regtest"
    /\ resets < MaxResets
    /\ resets' = resets + 1
    /\ sync' = ResetState /\ waived' = {}
    /\ synced' = tipFresh
    /\ UNCHANGED <<chain, enforced, vNodes, opened>>

\* "mnsync reset"
RpcReset ==
    /\ resets < MaxResets
    /\ resets' = resets + 1
    /\ sync' = ResetState /\ waived' = {}
    /\ UNCHANGED <<chain, enforced, synced, vNodes, opened>>

\* The stages whose time stamps are still to be read.
StillRead == [INITIAL |-> Kind, SPORKS |-> Kind, LIST |-> Kind, MNW |-> {"MNW", "BUDGET"},
          BUDGET |-> {"BUDGET"}, FAILED |-> {}, FINISHED |-> {}]

\* AddedMasternodeList, AddedMasternodeWinner, AddedBudgetItem, of an item the manager
\* has put in its map before the call.  Left out where nothing reads the stamp again.
AddedItem(k, i) ==
    /\ k \in StillRead[sync.stage] /\ chain # "regtest"
    /\ MapThenSumSet(LAMBDA n : sync.seen[n[1]][n[2]], Kind \X Item) < MaxItems
    /\ sync.seen[k][i] < Threshold
    /\ sync' = [sync EXCEPT !.last[k] = 0, !.seen[k][i] = @ + 1]
    /\ UNCHANGED <<chain, enforced, synced, vNodes, opened, resets, waived>>

\* A peer is ready once its "version" message has come; DisconnectOldProtocol turns down
\* those too old for the tests of nVersion in Process.
Connect ==
    /\ Len(vNodes) < MaxPeers /\ opened < MaxConnections
    /\ opened' = opened + 1
    /\ vNodes' = Append(vNodes, [fulfilled |-> {}, own |-> {}, twice |-> FALSE])
    /\ UNCHANGED <<chain, enforced, sync, synced, resets, waived>>

Disconnect(i) ==
    /\ vNodes' = RemoveAt(vNodes, i)
    /\ UNCHANGED <<chain, enforced, sync, synced, opened, resets, waived>>

-----------------------------------------------------------------------------
SyncInit ==
    /\ chain \in {"main", "regtest"} /\ enforced \in BOOLEAN
    /\ sync = ResetState
    /\ synced = FALSE
    /\ vNodes = <<>>
    /\ opened = 0 /\ resets = 0
    /\ waived = {}

SyncNext ==
    \/ ProcessIdle
    \/ \E lost, cleared, tipFresh, locked \in BOOLEAN :
          ProcessWaits(lost, cleared, tipFresh, locked)
    \/ \E lost, cleared, tipFresh \in BOOLEAN : ProcessAsks(lost, cleared, tipFresh)
    \/ \E lost, cleared, tipFresh \in BOOLEAN : ProcessAfterSleep(lost, cleared, tipFresh)
    \/ IsBlockchainSynced
    \/ SporkChanges
    \/ \E tipFresh \in BOOLEAN : WakeUp(tipFresh)
    \/ RpcReset
    \/ \E k \in Kind, i \in Item : AddedItem(k, i)
    \/ Connect
    \/ \E i \in DOMAIN vNodes : Disconnect(i)

SyncSpec == SyncInit /\ [][SyncNext]_syncVars

(***************************************************************************)
(* The thread calls Process for ever.  A lock that is taken is free again  *)
(* at some later call, and the chain is up to date at some later call.     *)
(***************************************************************************)
SyncFairSpec ==
    SyncSpec /\ SF_syncVars(ProcessAsks(FALSE, TRUE, chain # "regtest"))

-----------------------------------------------------------------------------
(* Whatever the enforcement spork does in the meantime, a node that says   *)
(* its masternode data are complete has heard of a masternode, and of a    *)
(* payment vote, since the sync began, unless the very call that gave that *)
(* stage up found payments not enforced: later switches make no difference.*)
HeardBeforeFinished ==
    chain = "main" =>
        /\ sync.stage \in {"MNW", "BUDGET", "FINISHED"} =>
              sync.last["LIST"] # Never \/ "LIST" \in waived
        /\ sync.stage \in {"BUDGET", "FINISHED"} =>
              sync.last["MNW"] # Never \/ "MNW" \in waived

(* However the stages, the resets, the failed locks and the peers that come*)
(* and go follow each other, one sync asks one connection for one thing    *)
(* once; asked again, the peer would count it as misbehaviour.             *)
NobodyAskedTwice ==
    \A i \in DOMAIN vNodes : ~vNodes[i].twice

Ended == sync.stage \in {"FINISHED", "FAILED"}

\* Peers whose flags this sync has set itself, by asking them or by passing them over.
Usable == {i \in DOMAIN vNodes : vNodes[i].fulfilled \subseteq vNodes[i].own}

(* With six peers whose flags are this sync's own, every sync comes to an  *)
(* end, however many of them stay silent and however often payments are    *)
(* enforced and not: it finishes, or it fails and is tried again.          *)
SyncEnds ==
    <>[](Cardinality(Usable) >= 3 * Threshold) => []<>Ended
=============================================================================
