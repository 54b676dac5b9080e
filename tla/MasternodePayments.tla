------------------------- MODULE MasternodePayments -------------------------
(***************************************************************************)
(* The masternodes' votes on who is paid in a block to come                *)
(* (src/src/masternode-payments.cpp): every node counts them, and once a   *)
(* payee has enough of them, no other is accepted.                         *)
(*                                                                         *)
(* The nodes of Node share a network that loses, repeats and reorders      *)
(* votes: a signed vote may reach a node at any time, or never.  Their     *)
(* chains grow, and roll back when a node stops before it has flushed.     *)
(* Masternodes follow the code, and the nodes agree on the ranks of a      *)
(* height (Voters); whom a masternode proposes is its own affair, since    *)
(* GetNextMasternodeInQueueForPayment looks at clocks and pings.  Each     *)
(* handler is a step: AddPayee, outside the lock of AddWinningMasternode,  *)
(* too.  When there is nobody to pay, a vote for height 0 and no payee is  *)
(* signed, which no peer accepts; it is left out.  Heights are above 100,  *)
(* so that the block whose hash ranks the masternodes is always there.     *)
(***************************************************************************)
EXTENDS MasternodeNetwork, Integers, FiniteSets

CONSTANTS
    Masternode,   \* the nodes that run one
    Payee,
    Damaged,
    MaxTip,       \* bound: the height of a chain
    Ahead,        \* the height voted for is so far above the tip: 10
    Past,         \* votes so far below the tip are taken: 1.25 times the masternodes
    Limit,        \* votes so far below the tip are kept: the same, or 1000
    Voters,       \* the masternodes ranked for a height, MNPAYMENTS_SIGNATURES_TOTAL at most
    Total,        \* MNPAYMENTS_SIGNATURES_TOTAL: 10
    Required,     \* MNPAYMENTS_SIGNATURES_REQUIRED: 6
    Stopping,     \* bound: nodes that stop at some time
    MaxFaults     \* bound: stops, rewinds and votes that fail the signature check

Tip == 0 .. MaxTip
Height == 1 .. MaxTip + 2 * Ahead

ASSUME PaymentsAssumption ==
    /\ IsFiniteSet(Node) /\ Masternode \subseteq Node
    /\ MaxTip \in Nat /\ Ahead \in Nat \ {0} /\ Past \in Nat /\ Limit \in Nat
    /\ Past <= Limit
    /\ Required \in Nat \ {0} /\ Total \in Nat
    /\ Voters \in [Height -> SUBSET Masternode]
    /\ \A h \in Height : Cardinality(Voters[h]) <= Total
    /\ Stopping \subseteq Node /\ MaxFaults \in Nat

Vote == [mn : Masternode, height : Height, payee : Payee]

VARIABLES
    tip,         \* height of the node's chain
    votes,       \* mapMasternodePayeeVotes
    blocks,      \* mapMasternodeBlocks: the votes counted for a payee
    lastVote,    \* mapMasternodesLastVote, 0 where it has no entry
    lastHeight,  \* nLastBlockHeight
    file,        \* mnpayments.dat: None, Damaged or what was dumped
    sent,        \* every vote signed so far
    forgot,      \* per node, the heights it had signed for when it stopped
    faults

vars == <<tip, votes, blocks, lastVote, lastHeight, file, sent, forgot, faults>>

Counts == [Height -> [Payee -> Nat]]
Empty == [h \in Height |-> [p \in Payee |-> 0]]
Dump == [votes : SUBSET Vote, blocks : Counts]

TypeOK ==
    /\ tip \in [Node -> Tip]
    /\ votes \in [Node -> SUBSET Vote] /\ blocks \in [Node -> Counts]
    /\ lastVote \in [Node -> [Masternode -> Height \cup {0}]]
    /\ lastHeight \in [Node -> Height \cup {0}]
    /\ file \in [Node -> Dump \cup {None, Damaged}]
    /\ sent \subseteq Vote /\ forgot \in [Node -> SUBSET Height] /\ faults \in 0 .. MaxFaults

Init ==
    /\ tip = [n \in Node |-> 0]
    /\ votes = [n \in Node |-> {}] /\ blocks = [n \in Node |-> Empty]
    /\ lastVote = [n \in Node |-> [m \in Masternode |-> 0]]
    /\ lastHeight = [n \in Node |-> 0]
    /\ file = [n \in Node |-> None]
    /\ sent = {} /\ forgot = [n \in Node |-> {}] /\ faults = 0

-----------------------------------------------------------------------------
(* Counting.                                                               *)

\* For the mutants of the runs: the increment has the wrong sign.
AddPayee_Minus(counts, v) == [counts EXCEPT ![v.height][v.payee] = @ - 1]

\* CMasternodeBlockPayees::AddPayee
AddPayee(counts, v) == [counts EXCEPT ![v.height][v.payee] = @ + 1]

\* For the mutants of the runs: a vote counts whenever it comes.
AddWinning_Again(n, v) ==
    /\ votes' = [votes EXCEPT ![n] = @ \cup {v}]
    /\ blocks' = [blocks EXCEPT ![n] = AddPayee(@, v)]

\* CMasternodePayments::AddWinningMasternode
AddWinning(n, v) ==
    /\ v \notin votes[n]
    /\ votes' = [votes EXCEPT ![n] = @ \cup {v}]
    /\ blocks' = [blocks EXCEPT ![n] = AddPayee(@, v)]

-----------------------------------------------------------------------------
(* The masternode's own vote, after every block that was processed.        *)

\* For the mutants of the runs: a block of the same height is voted for again.
MayVote_Again(n, h) == h >= lastHeight[n] /\ n \in Voters[h]

MayVote(n, h) == h > lastHeight[n] /\ n \in Voters[h]

\* CMasternodePayments::ProcessBlock.  A vote that is there already does not count as
\* the last one, and a vote for nobody does once.
ProcessBlock(n, h) ==
    \/ /\ n \in Masternode /\ MayVote(n, h)
       /\ \E p \in Payee :
            LET v == [mn |-> n, height |-> h, payee |-> p] IN
            /\ AddWinning(n, v)
            /\ sent' = sent \cup {v}
       /\ lastHeight' = [lastHeight EXCEPT ![n] = h]
    \/ /\ n \in Masternode /\ MayVote(n, h)
       /\ lastHeight' = [lastHeight EXCEPT ![n] = h]
       /\ UNCHANGED <<votes, blocks, sent>>
    \/ UNCHANGED <<votes, blocks, sent, lastHeight>>

\* ProcessNewBlock: the block extends the chain, or a side chain, or lets another
\* chain of about the same length win.
NewBlock(n) ==
    /\ \E t \in Tip :
         /\ t \in tip[n] .. tip[n] + 1
         /\ tip' = [tip EXCEPT ![n] = t]
         /\ ProcessBlock(n, t + Ahead)
    /\ UNCHANGED <<lastVote, file, forgot, faults>>

\* Blocks are disconnected and not replaced (InvalidateBlock, ReprocessBlocks).
Rewind(n) ==
    /\ faults < MaxFaults /\ faults' = faults + 1
    /\ \E t \in Tip : t < tip[n] /\ tip' = [tip EXCEPT ![n] = t]
    /\ UNCHANGED <<votes, blocks, lastVote, lastHeight, file, sent, forgot>>

-----------------------------------------------------------------------------
(* Votes of others.                                                        *)

InRange(n, v) == v.height >= tip[n] - Past /\ v.height <= tip[n] + 2 * Ahead

\* CMasternodePayments::CanVote: it remembers one height per masternode.
CanVote(n, v) == lastVote[n][v.mn] # v.height

\* "mnw".  Before CanVote a vote may be refused for many reasons, and come again.
\* After it the signature is checked, with the key this node knows by now.
ReceiveWinner(n, v) ==
    /\ v \in sent \ votes[n]
    /\ InRange(n, v) /\ v.mn \in Voters[v.height]
    /\ CanVote(n, v)
    /\ lastVote' = [lastVote EXCEPT ![n][v.mn] = v.height]
    /\ \/ AddWinning(n, v) /\ UNCHANGED faults
       \/ /\ faults < MaxFaults /\ faults' = faults + 1
          /\ UNCHANGED <<votes, blocks>>
    /\ UNCHANGED <<tip, lastHeight, file, sent, forgot>>

-----------------------------------------------------------------------------
(* Cleaning, stopping and starting.                                        *)

OldHeights(t) == {h \in Height : t - h > Limit}

\* For the mutants of the runs: the counts of what is erased stay.
Cleaned_Counts(d, t) ==
    [votes |-> {v \in d.votes : v.height \notin OldHeights(t)}, blocks |-> d.blocks]

\* CleanPaymentList: a height goes with the first of its votes.
Cleaned(d, t) ==
    LET gone == {v.height : v \in d.votes} \cap OldHeights(t) IN
    [votes |-> {v \in d.votes : v.height \notin gone},
     blocks |-> [h \in Height |-> IF h \in gone THEN Empty[h] ELSE d.blocks[h]]]

InMemory(n) == [votes |-> votes[n], blocks |-> blocks[n]]

Load(n, d) ==
    /\ votes' = [votes EXCEPT ![n] = d.votes]
    /\ blocks' = [blocks EXCEPT ![n] = d.blocks]

\* Once a minute, by the masternode thread.
CleanPaymentList(n) ==
    /\ Load(n, Cleaned(InMemory(n), tip[n]))
    /\ UNCHANGED <<tip, lastVote, lastHeight, file, sent, forgot, faults>>

\* DumpMasternodePayments reads the old file first and leaves a damaged one alone.
Dumped(n) == IF file[n] = Damaged THEN file[n] ELSE InMemory(n)

\* CMasternodePaymentDB::Read, which cleans.
Read(f, t) == IF f \in {None, Damaged} THEN [votes |-> {}, blocks |-> Empty] ELSE Cleaned(f, t)

\* What the file does not hold is lost.
Start(n, f, t) ==
    /\ n \in Stopping
    /\ faults < MaxFaults /\ faults' = faults + 1
    /\ file' = [file EXCEPT ![n] = f]
    /\ tip' = [tip EXCEPT ![n] = t]
    /\ Load(n, Read(f, t))
    /\ lastVote' = [lastVote EXCEPT ![n] = [m \in Masternode |-> 0]]
    /\ lastHeight' = [lastHeight EXCEPT ![n] = 0]
    /\ forgot' = [forgot EXCEPT ![n] = @ \cup {v.height : v \in {w \in sent : w.mn = n}}]
    /\ UNCHANGED sent

\* Shutdown, and the next start.
Restart(n) == Start(n, Dumped(n), tip[n])

\* A crash, after which the chain may be shorter; in the midst of the dump it
\* leaves the file damaged.
Crash(n) ==
    \E f \in {file[n], Damaged} : \E t \in 0 .. tip[n] : Start(n, f, t)

Next ==
    \E n \in Node :
      \/ NewBlock(n) \/ Rewind(n)
      \/ \E v \in sent : ReceiveWinner(n, v)
      \/ CleanPaymentList(n) \/ Restart(n) \/ Crash(n)

Spec == Init /\ [][Next]_vars

-----------------------------------------------------------------------------
VotesFor(S, h, p) == {v \in S : v.height = h /\ v.payee = p}

(* What a node counts is what it can show: the votes it holds, each once,  *)
(* after any number of cleanings, dumps, stops and starts.                 *)
CountsBacked ==
    \A n \in Node, h \in Height, p \in Payee :
        blocks[n][h][p] = Cardinality(VotesFor(votes[n], h, p))

\* CMasternodeBlockPayees::IsTransactionValid: with one of these in its way, a block
\* that does not pay one of them is rejected.
RequiredPayees(n, h) == {p \in Payee : blocks[n][h][p] >= Required}

\* The masternodes that signed different votes for h and had stopped after one of them.
Repeaters(h) ==
    {m \in Masternode :
        /\ h \in forgot[m]
        /\ \E v, w \in sent : v # w /\ {v.mn, w.mn} = {m} /\ {v.height, w.height} = {h}}

(* As long as a height has fewer masternodes that stop and then vote for   *)
(* it again than two quorums share (2 of the ten, so there may be one), no *)
(* two nodes ever ask for different payees in its blocks, and none rejects *)
(* a block for its payee that another one made.  How many stop at all, and *)
(* what they do at other heights, does not matter.                         *)
PayeesAgree ==
    \A h \in Height : Total + Cardinality(Repeaters(h)) < 2 * Required =>
        \A m, n \in Node :
            \A p \in RequiredPayees(m, h), q \in RequiredPayees(n, h) : p = q
=============================================================================
