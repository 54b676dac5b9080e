--------------------------- MODULE MasternodeProofs ---------------------------
(***************************************************************************)
(* Proofs about the masternodes, in three parts that share no state.       *)
(*                                                                         *)
(* Payments (MasternodePayments): no two nodes ask for different           *)
(* payees in a block of one height, in any network and with any number of  *)
(* masternodes that stop, unless as many of those that vote for the height *)
(* vote for it again after a stop as two quorums share.  With fewer, the   *)
(* quorums share one that has signed a single vote for the height, because *)
(* it remembers the last height it voted for.  What a node counts is       *)
(* backed by votes that were signed.                                       *)
(*                                                                         *)
(* Synchronisation (MasternodeSync): no sync ends unheard while payments   *)
(* are enforced and no peer is asked twice, for any number of peers and    *)
(* items; and with six peers to ask none is stuck for want of answers,     *)
(* because the requests of a stage are counted twice, by its attempts and  *)
(* by the time it has taken.                                               *)
(*                                                                         *)
(* The list (MasternodeList): what the nodes keep and send is well formed  *)
(* of broadcasts that were signed, for any network, and none of it says    *)
(* that the masternode was alive later than it was.                        *)
(***************************************************************************)
EXTENDS MasternodePayments, MasternodeSync, MasternodeList,
        FiniteSetTheorems, SequenceTheorems, WellFoundedInduction, TLAPS

-----------------------------------------------------------------------------
(* Payments.                                                               *)

\* The counts of d are those of its votes.
Backed(d) == \A h \in Height, p \in Payee : d.blocks[h][p] = Cardinality(VotesFor(d.votes, h, p))

\* A dump holds signed votes, and counts that they back.
Honest(d) == d.votes \subseteq sent /\ Backed(d)

Held == \A n \in Node : Honest(InMemory(n)) /\ (file[n] \notin {None, Damaged} => Honest(file[n]))

Ranked == \A v \in sent : v.mn \in Voters[v.height]

OncePerHeight ==
    \A v, w \in sent :
        v.height \notin forgot[v.mn] /\ v.mn = w.mn /\ v.height = w.height => v = w

Remembered == \A v \in sent : v.height \notin forgot[v.mn] => v.height <= lastHeight[v.mn]

IInv == TypeOK /\ Held /\ Ranked /\ OncePerHeight /\ Remembered

-----------------------------------------------------------------------------
LEMMA MasternodesFinite ==
  /\ IsFiniteSet(Masternode)
  /\ \A h \in Height : IsFiniteSet(Voters[h])
  /\ \A h \in Height : IsFiniteSet(Repeaters(h))
<1>1. IsFiniteSet(Masternode)
  BY FS_Subset, PaymentsAssumption DEF PaymentsAssumption
<1>2. \A h \in Height : Voters[h] \in SUBSET Masternode
  BY PaymentsAssumption DEF PaymentsAssumption
<1>3. \A h \in Height : Repeaters(h) \in SUBSET Masternode
  BY DEF Repeaters
<1>4. QED
  BY <1>1, <1>2, <1>3, FS_Subset

\* The votes for a payee at a height are as many as the masternodes that cast them.
LEMMA OneVoteEach ==
  ASSUME NEW S \in SUBSET Vote, NEW h \in Height, NEW p \in Payee
  PROVE  LET V == VotesFor(S, h, p)
             M == {v.mn : v \in V}
         IN  /\ IsFiniteSet(V) /\ IsFiniteSet(M)
             /\ Cardinality(V) = Cardinality(M)
<1> DEFINE V == VotesFor(S, h, p)
           M == {v.mn : v \in V}
           f == [v \in V |-> v.mn]
<1>1. M \in SUBSET Masternode
  BY DEF VotesFor, Vote
<1>2. IsFiniteSet(M)
  BY <1>1, MasternodesFinite, FS_Subset
<1>3. \A v, w \in V : v.mn = w.mn => v = w
  BY DEF VotesFor, Vote
<1>4. f \in Injection(V, M)
  BY <1>3 DEF Injection, IsInjective
<1>5. f \in Surjection(V, M)
  BY DEF Surjection
<1>6. QED
  BY <1>2, <1>4, <1>5, FS_Injection

\* A vote more is counted once.
LEMMA AddPayeeBacked ==
  ASSUME NEW d \in Dump, Backed(d), NEW v \in Vote \ d.votes
  PROVE  LET e == [votes |-> d.votes \cup {v}, blocks |-> AddPayee(d.blocks, v)]
         IN  e \in Dump /\ Backed(e)
<1> DEFINE e == [votes |-> d.votes \cup {v}, blocks |-> AddPayee(d.blocks, v)]
<1>1. v.height \in Height /\ v.payee \in Payee
  BY DEF Vote
<1>2. e \in Dump
  BY <1>1 DEF Dump, Counts, AddPayee
<1>3. ASSUME NEW h \in Height, NEW p \in Payee
      PROVE  e.blocks[h][p] = Cardinality(VotesFor(e.votes, h, p))
  <2>1. d.votes \in SUBSET Vote /\ d.blocks \in Counts
    BY DEF Dump
  <2>2. IsFiniteSet(VotesFor(d.votes, h, p))
    BY <2>1, OneVoteEach
  <2>3. d.blocks[h][p] = Cardinality(VotesFor(d.votes, h, p))
    BY DEF Backed
  <2>4. CASE v.height = h /\ v.payee = p
    <3>1. VotesFor(e.votes, h, p) = VotesFor(d.votes, h, p) \cup {v}
          /\ v \notin VotesFor(d.votes, h, p)
      BY <2>4 DEF VotesFor
    <3>2. Cardinality(VotesFor(e.votes, h, p)) = Cardinality(VotesFor(d.votes, h, p)) + 1
      BY <3>1, <2>2, FS_AddElement
    <3>3. e.blocks[h][p] = d.blocks[h][p] + 1
      BY <2>4, <2>1, <1>1 DEF AddPayee, Counts
    <3>4. QED
      BY <3>2, <3>3, <2>3
  <2>5. CASE ~(v.height = h /\ v.payee = p)
    <3>1. VotesFor(e.votes, h, p) = VotesFor(d.votes, h, p)
      BY <2>5 DEF VotesFor
    <3>2. e.blocks[h][p] = d.blocks[h][p]
      BY <2>5, <2>1, <1>1 DEF AddPayee, Counts
    <3>3. QED
      BY <3>1, <3>2, <2>3
  <2>6. QED
    BY <2>4, <2>5
<1>4. QED
  BY <1>2, <1>3 DEF Backed

\* A height is forgotten as a whole.
LEMMA CleanedBacked ==
  ASSUME NEW d \in Dump, Backed(d), NEW t \in Tip
  PROVE  Cleaned(d, t) \in Dump /\ Backed(Cleaned(d, t)) /\ Cleaned(d, t).votes \subseteq d.votes
<1> DEFINE gone == {v.height : v \in d.votes} \cap OldHeights(t)
           e == Cleaned(d, t)
<1>1. e = [votes |-> {v \in d.votes : v.height \notin gone},
           blocks |-> [h \in Height |-> IF h \in gone THEN Empty[h] ELSE d.blocks[h]]]
  BY DEF Cleaned
<1>2. d.votes \in SUBSET Vote /\ d.blocks \in Counts /\ Empty \in Counts
  BY DEF Dump, Counts, Empty
<1> HIDE DEF gone, e
<1>3. e.blocks \in Counts /\ e.votes \in SUBSET Vote /\ e.votes \subseteq d.votes
  BY <1>1, <1>2 DEF Counts
<1>4. ASSUME NEW h \in Height, NEW p \in Payee
      PROVE  e.blocks[h][p] = Cardinality(VotesFor(e.votes, h, p))
  <2>1. CASE h \in gone
    <3>1. VotesFor(e.votes, h, p) = {}
      BY <1>1, <2>1 DEF VotesFor
    <3>2. e.blocks[h][p] = 0
      BY <1>1, <2>1 DEF Empty
    <3>3. QED
      BY <3>1, <3>2, FS_EmptySet
  <2>2. CASE h \notin gone
    <3>1. VotesFor(e.votes, h, p) = VotesFor(d.votes, h, p)
      BY <1>1, <2>2 DEF VotesFor
    <3>2. e.blocks[h][p] = d.blocks[h][p]
      BY <1>1, <2>2
    <3>3. QED
      BY <3>1, <3>2 DEF Backed
  <2>3. QED
    BY <2>1, <2>2
<1>5. QED
  BY <1>1, <1>3, <1>4 DEF Backed, Dump, e

-----------------------------------------------------------------------------
LEMMA InMemoryDump == ASSUME TypeOK, NEW n \in Node PROVE InMemory(n) \in Dump
  BY DEF TypeOK, InMemory, Dump

LEMMA InitInvariant == Init => IInv
<1>1. SUFFICES ASSUME Init PROVE IInv
  OBVIOUS
<1>2. TypeOK
  BY <1>1, PaymentsAssumption DEF Init, TypeOK, Counts, Empty, Tip, PaymentsAssumption
<1>3. ASSUME NEW h \in Height, NEW p \in Payee
      PROVE  Empty[h][p] = Cardinality(VotesFor({}, h, p))
  <2>1. VotesFor({}, h, p) = {}
    BY DEF VotesFor
  <2>2. QED
    BY <2>1, FS_EmptySet DEF Empty
<1>4. Held
  BY <1>1, <1>3 DEF Init, Held, Honest, Backed, InMemory
<1>5. Ranked /\ OncePerHeight /\ Remembered
  BY <1>1 DEF Init, Ranked, OncePerHeight, Remembered
<1>6. QED
  BY <1>2, <1>4, <1>5 DEF IInv

\* What was signed stays signed.
LEMMA StillHonest ==
  ASSUME sent \subseteq sent', NEW d, Honest(d)
  PROVE  Honest(d)'
  BY DEF Honest, Backed

\* A node that counts a signed vote.
LEMMA AddWinningHeld ==
  ASSUME TypeOK, Held, NEW n \in Node, NEW v \in Vote, v \in sent', sent \subseteq sent',
         AddWinning(n, v), UNCHANGED file
  PROVE  Held' /\ votes' \in [Node -> SUBSET Vote] /\ blocks' \in [Node -> Counts]
<1> DEFINE d == InMemory(n)
           e == [votes |-> d.votes \cup {v}, blocks |-> AddPayee(d.blocks, v)]
<1>1. d \in Dump /\ Backed(d) /\ d.votes \subseteq sent /\ v \notin d.votes
  BY InMemoryDump DEF Held, Honest, AddWinning, InMemory
<1>2. e \in Dump /\ Backed(e)
  <2> HIDE DEF d
  <2>1. QED
    BY <1>1, AddPayeeBacked
<1>3. /\ votes' = [votes EXCEPT ![n] = e.votes]
      /\ blocks' = [blocks EXCEPT ![n] = e.blocks]
  BY DEF AddWinning, InMemory
<1>4. InMemory(n)' = e
  BY <1>3 DEF InMemory, TypeOK
<1>5. e.votes \subseteq sent'
  BY <1>1
<1>6. ASSUME NEW m \in Node PROVE Honest(InMemory(m))'
  <2>1. CASE m = n
    <3> HIDE DEF e
    <3>1. QED
      BY <2>1, <1>2, <1>4, <1>5 DEF Honest, Backed
  <2>2. CASE m # n
    <3>1. InMemory(m)' = InMemory(m)
      BY <2>2, <1>3 DEF InMemory, TypeOK
    <3>2. Honest(InMemory(m))
      BY DEF Held
    <3>3. Backed(InMemory(m)) /\ InMemory(m).votes \subseteq sent'
      BY <3>2 DEF Honest
    <3>4. QED
      BY <3>1, <3>3 DEF Honest, Backed
  <2>3. QED
    BY <2>1, <2>2
<1>7. ASSUME NEW m \in Node, file'[m] \notin {None, Damaged} PROVE Honest(file[m])'
  BY <1>7, StillHonest DEF Held, Honest, Backed
<1>8. votes' \in [Node -> SUBSET Vote] /\ blocks' \in [Node -> Counts]
  BY <1>2, <1>3 DEF TypeOK, Dump
<1>9. QED
  BY <1>6, <1>7, <1>8 DEF Held

\* A node that loads what it may, or cleans what it has.
LEMMA LoadHeld ==
  ASSUME TypeOK, Held, NEW n \in Node, NEW d \in Dump, Honest(d), Load(n, d),
         UNCHANGED sent, NEW f, file' = [file EXCEPT ![n] = f],
         f \notin {None, Damaged} => Honest(f)
  PROVE  Held' /\ votes' \in [Node -> SUBSET Vote] /\ blocks' \in [Node -> Counts]
<1>1. /\ votes' = [votes EXCEPT ![n] = d.votes]
      /\ blocks' = [blocks EXCEPT ![n] = d.blocks]
  BY DEF Load
<1>2. ASSUME NEW m \in Node PROVE Honest(InMemory(m))'
  <2>1. CASE m = n
    <3>1. InMemory(m)' = d
      BY <2>1, <1>1 DEF InMemory, TypeOK, Dump
    <3>2. QED
      BY <3>1 DEF Honest, Backed
  <2>2. CASE m # n
    <3>1. InMemory(m)' = InMemory(m)
      BY <2>2, <1>1 DEF InMemory, TypeOK
    <3>2. Honest(InMemory(m))
      BY DEF Held
    <3>3. QED
      BY <3>1, <3>2 DEF Honest, Backed
  <2>3. QED
    BY <2>1, <2>2
<1>3. ASSUME NEW m \in Node, file'[m] \notin {None, Damaged} PROVE Honest(file[m])'
  <2>1. CASE m = n
    <3>1. file'[m] = f
      BY <2>1 DEF TypeOK
    <3>2. QED
      BY <3>1, <1>3 DEF Honest, Backed
  <2>2. CASE m # n
    <3>1. file'[m] = file[m]
      BY <2>2 DEF TypeOK
    <3>2. Honest(file[m])
      BY <3>1, <1>3 DEF Held
    <3>3. QED
      BY <3>1, <3>2 DEF Honest, Backed
  <2>3. QED
    BY <2>1, <2>2
<1>4. QED
  BY <1>1, <1>2, <1>3 DEF Held, TypeOK, Dump

-----------------------------------------------------------------------------
(* The actions.                                                            *)

\* A masternode signs for a height above its last one.
LEMMA OwnVoteInvariant ==
  ASSUME IInv, NEW n \in Masternode, NEW h \in Height, NEW p \in Payee, NEW v,
         v = [mn |-> n, height |-> h, payee |-> p],
         MayVote(n, h), AddWinning(n, v), sent' = sent \cup {v},
         lastHeight' = [lastHeight EXCEPT ![n] = h],
         tip' \in [Node -> Tip], UNCHANGED <<lastVote, file, forgot, faults>>
  PROVE  IInv'
<1>1. n \in Node /\ v \in Vote /\ v \in sent' /\ sent \subseteq sent'
  BY PaymentsAssumption DEF Vote, PaymentsAssumption
<1>2. Held' /\ votes' \in [Node -> SUBSET Vote] /\ blocks' \in [Node -> Counts]
  BY <1>1, AddWinningHeld DEF IInv
<1>3. TypeOK'
  BY <1>1, <1>2 DEF IInv, TypeOK
<1>4. Ranked'
  BY DEF IInv, Ranked, MayVote
<1>5. \A w \in sent : w.height \notin forgot[w.mn] /\ w.mn = n => w.height <= lastHeight[n]
  BY DEF IInv, Remembered
<1>6. /\ lastHeight[n] \in Int /\ h \in Int /\ h > lastHeight[n]
      /\ \A w \in sent : w.mn \in Node /\ w.height \in Int /\ lastHeight[w.mn] \in Int
  BY <1>1, PaymentsAssumption DEF IInv, TypeOK, MayVote, Height, Vote, PaymentsAssumption
<1>7. OncePerHeight'
  <2>1. ASSUME NEW a \in sent, a.height \notin forgot[a.mn], a.mn = v.mn PROVE a.height # v.height
    BY <2>1, <1>5, <1>6
  <2>2. QED
    BY <2>1 DEF IInv, OncePerHeight
<1>8. Remembered'
  <2>1. ASSUME NEW a \in sent, a.height \notin forgot[a.mn] PROVE a.height <= lastHeight'[a.mn]
    <3>1. CASE a.mn = n
      BY <3>1, <2>1, <1>1, <1>5, <1>6 DEF IInv, TypeOK
    <3>2. CASE a.mn # n
      BY <3>2, <2>1, <1>6 DEF IInv, TypeOK, Remembered
    <3>3. QED
      BY <3>1, <3>2
  <2>2. v.height <= lastHeight'[v.mn]
    BY <1>1, <1>6 DEF IInv, TypeOK
  <2>3. QED
    BY <2>1, <2>2 DEF Remembered
<1>9. QED
  BY <1>2, <1>3, <1>4, <1>7, <1>8 DEF IInv

\* Nothing but a tip or a remembered height moves.
LEMMA QuietInvariant ==
  ASSUME IInv, UNCHANGED <<votes, blocks, sent, forgot, file>>,
         tip' \in [Node -> Tip], lastVote' \in [Node -> [Masternode -> Height \cup {0}]],
         lastHeight' \in [Node -> Height \cup {0}], faults' \in 0 .. MaxFaults,
         \A n \in Masternode : lastHeight'[n] >= lastHeight[n]
  PROVE  IInv'
<1>1. TypeOK'
  BY DEF IInv, TypeOK
<1>2. Held'
  BY DEF IInv, Held, Honest, Backed, InMemory
<1>3. Ranked' /\ OncePerHeight'
  BY DEF IInv, Ranked, OncePerHeight
<1>4. Remembered'
  <2>1. ASSUME NEW v \in sent, v.height \notin forgot[v.mn] PROVE v.height <= lastHeight'[v.mn]
    <3>1. /\ v.mn \in Masternode /\ v.height \in Int
          /\ lastHeight[v.mn] \in Int /\ lastHeight'[v.mn] \in Int
      BY PaymentsAssumption DEF IInv, TypeOK, Vote, Height, PaymentsAssumption
    <3>2. v.height <= lastHeight[v.mn] /\ lastHeight'[v.mn] >= lastHeight[v.mn]
      BY <3>1, <2>1 DEF IInv, Remembered
    <3>3. QED
      BY <3>1, <3>2
  <2>2. QED
    BY <2>1 DEF Remembered
<1>5. QED
  BY <1>1, <1>2, <1>3, <1>4 DEF IInv

LEMMA NewBlockInvariant == ASSUME IInv, NEW n \in Node, NewBlock(n) PROVE IInv'
<1>1. PICK t \in Tip : tip' = [tip EXCEPT ![n] = t] /\ ProcessBlock(n, t + Ahead)
  BY DEF NewBlock
<1>2. tip' \in [Node -> Tip] /\ UNCHANGED <<lastVote, file, forgot, faults>>
  BY <1>1 DEF NewBlock, IInv, TypeOK
<1>3. t + Ahead \in Height
  BY PaymentsAssumption DEF Tip, Height, PaymentsAssumption
<1>4. \A m \in Node : lastHeight[m] \in Int
  BY PaymentsAssumption DEF IInv, TypeOK, Height, PaymentsAssumption
<1>5. CASE n \in Masternode /\ MayVote(n, t + Ahead)
           /\ (\E p \in Payee :
                 LET v == [mn |-> n, height |-> t + Ahead, payee |-> p]
                 IN  AddWinning(n, v) /\ sent' = sent \cup {v})
           /\ lastHeight' = [lastHeight EXCEPT ![n] = t + Ahead]
  <2>1. PICK p \in Payee :
          LET v == [mn |-> n, height |-> t + Ahead, payee |-> p]
          IN  AddWinning(n, v) /\ sent' = sent \cup {v}
    BY <1>5
  <2>2. QED
    BY <2>1, <1>2, <1>3, <1>5, OwnVoteInvariant
<1>6. CASE n \in Masternode /\ MayVote(n, t + Ahead)
           /\ lastHeight' = [lastHeight EXCEPT ![n] = t + Ahead]
           /\ UNCHANGED <<votes, blocks, sent>>
  <2>1. \A m \in Node : lastHeight'[m] >= lastHeight[m]
    BY <1>3, <1>4, <1>6 DEF IInv, TypeOK, MayVote, Height
  <2>2. lastHeight' \in [Node -> Height \cup {0}]
    BY <1>3, <1>6 DEF IInv, TypeOK
  <2>3. QED
    BY <2>1, <2>2, <1>2, <1>6, PaymentsAssumption, QuietInvariant
    DEF IInv, TypeOK, PaymentsAssumption
<1>7. CASE UNCHANGED <<votes, blocks, sent, lastHeight>>
  BY <1>2, <1>4, <1>7, PaymentsAssumption, QuietInvariant DEF IInv, TypeOK, PaymentsAssumption
<1>8. QED
  BY <1>1, <1>5, <1>6, <1>7 DEF ProcessBlock

LEMMA RewindInvariant == ASSUME IInv, NEW n \in Node, Rewind(n) PROVE IInv'
<1>1. tip' \in [Node -> Tip] /\ faults' \in 0 .. MaxFaults
  BY PaymentsAssumption DEF Rewind, IInv, TypeOK, PaymentsAssumption
<1>2. \A m \in Masternode : lastHeight'[m] >= lastHeight[m]
  BY PaymentsAssumption DEF Rewind, IInv, TypeOK, Height, PaymentsAssumption
<1>3. QED
  BY <1>1, <1>2, QuietInvariant DEF Rewind, IInv, TypeOK

LEMMA ReceiveInvariant ==
  ASSUME IInv, NEW n \in Node, NEW v \in sent, ReceiveWinner(n, v) PROVE IInv'
<1>1. v \in Vote /\ faults' \in 0 .. MaxFaults
  BY PaymentsAssumption DEF IInv, TypeOK, ReceiveWinner, PaymentsAssumption
<1>2. lastVote' \in [Node -> [Masternode -> Height \cup {0}]]
  BY <1>1 DEF ReceiveWinner, IInv, TypeOK, Vote
<1>3. CASE AddWinning(n, v)
  <2>1. Held' /\ votes' \in [Node -> SUBSET Vote] /\ blocks' \in [Node -> Counts]
    BY <1>1, <1>3, AddWinningHeld DEF IInv, ReceiveWinner
  <2>2. TypeOK'
    BY <2>1, <1>1, <1>2 DEF IInv, TypeOK, ReceiveWinner
  <2>3. Ranked' /\ OncePerHeight' /\ Remembered'
    BY DEF IInv, Ranked, OncePerHeight, Remembered, ReceiveWinner
  <2>4. QED
    BY <2>1, <2>2, <2>3 DEF IInv
<1>4. CASE UNCHANGED <<votes, blocks>>
  <2>1. \A m \in Masternode : lastHeight'[m] >= lastHeight[m]
    BY PaymentsAssumption DEF ReceiveWinner, IInv, TypeOK, Height, PaymentsAssumption
  <2>2. QED
    BY <2>1, <1>1, <1>2, <1>4, QuietInvariant DEF ReceiveWinner, IInv, TypeOK
<1>5. QED
  BY <1>3, <1>4 DEF ReceiveWinner

LEMMA CleanInvariant == ASSUME IInv, NEW n \in Node, CleanPaymentList(n) PROVE IInv'
<1> DEFINE c == Cleaned(InMemory(n), tip[n])
<1>1. /\ InMemory(n) \in Dump /\ Honest(InMemory(n)) /\ tip[n] \in Tip
      /\ file[n] \notin {None, Damaged} => Honest(file[n])
  BY InMemoryDump DEF IInv, Held, TypeOK
<1>2. c \in Dump /\ Honest(c)
  BY <1>1, CleanedBacked DEF Honest
<1>3. Load(n, c) /\ UNCHANGED <<tip, lastVote, lastHeight, file, sent, forgot, faults>>
  BY DEF CleanPaymentList
<1>4. file' = [file EXCEPT ![n] = file[n]]
  BY <1>3 DEF IInv, TypeOK
<1>5. Held' /\ votes' \in [Node -> SUBSET Vote] /\ blocks' \in [Node -> Counts]
  <2> HIDE DEF c
  <2>1. QED
    BY <1>1, <1>2, <1>3, <1>4, LoadHeld DEF IInv
<1>6. TypeOK' /\ Ranked' /\ OncePerHeight' /\ Remembered'
  BY <1>3, <1>5 DEF IInv, TypeOK, Ranked, OncePerHeight, Remembered
<1>7. QED
  BY <1>5, <1>6 DEF IInv

\* A start loads nothing, or what a dump holds.
LEMMA StartInvariant ==
  ASSUME IInv, NEW n \in Node, NEW f, NEW t \in Tip, Start(n, f, t),
         f \in {None, Damaged} \/ (f \in Dump /\ Honest(f))
  PROVE  IInv'
<1> DEFINE d == Read(f, t)
<1>1. d \in Dump /\ Honest(d)
  <2>1. CASE f \in {None, Damaged}
    <3>1. d = [votes |-> {}, blocks |-> Empty]
      BY <2>1 DEF Read
    <3>2. \A h \in Height, p \in Payee : VotesFor({}, h, p) = {} /\ Empty[h][p] = 0
      BY DEF VotesFor, Empty
    <3>3. d.votes = {} /\ d.blocks = Empty /\ Empty \in Counts
      BY <3>1 DEF Empty, Counts
    <3>4. d \in Dump
      BY <3>1, <3>3 DEF Dump
    <3>5. Backed(d)
      <4> HIDE DEF d
      <4>1. QED
        BY <3>2, <3>3, FS_EmptySet DEF Backed
    <3>6. QED
      BY <3>3, <3>4, <3>5 DEF Honest
  <2>2. CASE f \notin {None, Damaged}
    <3>1. d = Cleaned(f, t) /\ f \in Dump /\ Honest(f)
      BY <2>2 DEF Read
    <3>2. QED
      BY <3>1, CleanedBacked DEF Honest
  <2>3. QED
    BY <2>1, <2>2
<1>2. /\ file' = [file EXCEPT ![n] = f] /\ tip' = [tip EXCEPT ![n] = t]
      /\ Load(n, d) /\ UNCHANGED sent
      /\ lastVote' = [lastVote EXCEPT ![n] = [m \in Masternode |-> 0]]
      /\ lastHeight' = [lastHeight EXCEPT ![n] = 0]
      /\ forgot' = [forgot EXCEPT ![n] = @ \cup {v.height : v \in {w \in sent : w.mn = n}}]
      /\ faults' \in 0 .. MaxFaults
  BY PaymentsAssumption DEF Start, IInv, TypeOK, PaymentsAssumption
<1>3. Held' /\ votes' \in [Node -> SUBSET Vote] /\ blocks' \in [Node -> Counts]
  <2> HIDE DEF d
  <2>1. QED
    BY <1>1, <1>2, LoadHeld DEF IInv
<1>4. TypeOK'
  <2>1. {v.height : v \in {w \in sent : w.mn = n}} \subseteq Height
    BY DEF IInv, TypeOK, Vote
  <2> QED
    BY <2>1, <1>2, <1>3 DEF IInv, TypeOK
\* Of the heights n had signed for, none counts as remembered any more.
<1>5. \A v \in sent : v.height \notin forgot'[v.mn] =>
         v.mn # n /\ v.height \notin forgot[v.mn] /\ lastHeight'[v.mn] = lastHeight[v.mn]
  <2> SUFFICES ASSUME NEW v \in sent, v.height \notin forgot'[v.mn]
               PROVE  v.mn # n /\ v.height \notin forgot[v.mn] /\ lastHeight'[v.mn] = lastHeight[v.mn]
    OBVIOUS
  <2>1. v.mn \in Node
    BY PaymentsAssumption DEF IInv, TypeOK, Vote, PaymentsAssumption
  <2>2. v.mn # n
    BY <2>1, <1>2 DEF IInv, TypeOK
  <2> QED
    BY <2>1, <2>2, <1>2 DEF IInv, TypeOK
<1>6. Ranked' /\ OncePerHeight' /\ Remembered'
  BY <1>2, <1>5 DEF IInv, Ranked, OncePerHeight, Remembered
<1>7. QED
  BY <1>3, <1>4, <1>5, <1>6 DEF IInv

LEMMA NextInvariant == ASSUME IInv, [Next]_vars PROVE IInv'
<1>1. ASSUME NEW n \in Node, NewBlock(n) PROVE IInv'
  BY <1>1, NewBlockInvariant
<1>2. ASSUME NEW n \in Node, Rewind(n) PROVE IInv'
  BY <1>2, RewindInvariant
<1>3. ASSUME NEW n \in Node, NEW v \in sent, ReceiveWinner(n, v) PROVE IInv'
  BY <1>3, ReceiveInvariant
<1>4. ASSUME NEW n \in Node, CleanPaymentList(n) PROVE IInv'
  BY <1>4, CleanInvariant
<1>5. ASSUME NEW n \in Node
      PROVE  /\ InMemory(n) \in Dump /\ Honest(InMemory(n)) /\ tip[n] \in Tip
             /\ file[n] \in {None, Damaged} \/ (file[n] \in Dump /\ Honest(file[n]))
  BY InMemoryDump DEF IInv, Held, TypeOK
<1>6. ASSUME NEW n \in Node, Restart(n) PROVE IInv'
  <2>1. Dumped(n) \in {None, Damaged} \/ (Dumped(n) \in Dump /\ Honest(Dumped(n)))
    BY <1>5 DEF Dumped
  <2> HIDE DEF Dumped
  <2>2. QED
    BY <2>1, <1>5, <1>6, StartInvariant DEF Restart
<1>7. ASSUME NEW n \in Node, Crash(n) PROVE IInv'
  <2>1. PICK f \in {file[n], Damaged} : \E t \in 0 .. tip[n] : Start(n, f, t)
    BY <1>7 DEF Crash
  <2>2. PICK t \in 0 .. tip[n] : Start(n, f, t)
    BY <2>1
  <2>3. t \in Tip
    BY <1>5, PaymentsAssumption DEF Tip, PaymentsAssumption
  <2>4. QED
    BY <2>1, <2>2, <2>3, <1>5, StartInvariant
<1>8. CASE UNCHANGED vars
  <2>1. \A n \in Masternode : lastHeight'[n] >= lastHeight[n]
    BY <1>8, PaymentsAssumption DEF vars, IInv, TypeOK, Height, PaymentsAssumption
  <2>2. QED
    BY <2>1, <1>8, QuietInvariant DEF vars, IInv, TypeOK
<1>9. QED
  BY <1>1, <1>2, <1>3, <1>4, <1>6, <1>7, <1>8 DEF Next

\* Two quorums for one height are too large to differ.
LEMMA QuorumsAgree == IInv => PayeesAgree
<1>1. SUFFICES ASSUME IInv, NEW h \in Height, NEW m \in Node, NEW n \in Node,
                      Total + Cardinality(Repeaters(h)) < 2 * Required,
                      NEW p \in RequiredPayees(m, h), NEW q \in RequiredPayees(n, h), p # q
               PROVE  FALSE
  BY DEF PayeesAgree
<1> DEFINE V == VotesFor(votes[m], h, p)
           W == VotesFor(votes[n], h, q)
           A == {v.mn : v \in V}
           B == {v.mn : v \in W}
<1>2. p \in Payee /\ q \in Payee
  BY DEF RequiredPayees
<1>3. votes[m] \in SUBSET Vote /\ votes[n] \in SUBSET Vote
  BY <1>1 DEF IInv, TypeOK
<1>4. votes[m] \subseteq sent /\ votes[n] \subseteq sent
      /\ Backed(InMemory(m)) /\ Backed(InMemory(n))
  BY <1>1 DEF IInv, Held, Honest, InMemory
<1>5. Cardinality(V) >= Required /\ Cardinality(W) >= Required
  BY <1>2, <1>4 DEF Backed, InMemory, RequiredPayees
<1>6. /\ IsFiniteSet(A) /\ IsFiniteSet(B)
      /\ Cardinality(V) = Cardinality(A) /\ Cardinality(W) = Cardinality(B)
  BY <1>2, <1>3, OneVoteEach
<1>7. A \subseteq Voters[h] /\ B \subseteq Voters[h]
  BY <1>1, <1>4 DEF VotesFor, IInv, Ranked
<1>8. A \cap B \subseteq Repeaters(h)
  <2>1. SUFFICES ASSUME NEW v \in V, NEW w \in W, v.mn = w.mn
                 PROVE  v.mn \in Repeaters(h)
    OBVIOUS
  <2>2. v \in sent /\ w \in sent /\ v.height = h /\ w.height = h /\ v.payee = p /\ w.payee = q
    BY <1>4 DEF VotesFor
  <2>3. v # w /\ v.mn \in Masternode
    BY <1>1, <1>3, <2>2 DEF VotesFor, Vote
  <2>4. h \in forgot[v.mn]
    BY <1>1, <2>1, <2>2, <2>3 DEF IInv, OncePerHeight
  <2>5. QED
    BY <2>1, <2>2, <2>3, <2>4 DEF Repeaters
<1> HIDE DEF V, W, A, B
<1>9. /\ IsFiniteSet(A \cup B)
      /\ Cardinality(A \cup B) = Cardinality(A) + Cardinality(B) - Cardinality(A \cap B)
  BY <1>6, FS_Union
<1>10. Cardinality(A \cup B) <= Cardinality(Voters[h]) /\ Cardinality(Voters[h]) <= Total
  BY <1>1, <1>7, MasternodesFinite, FS_Subset, PaymentsAssumption DEF PaymentsAssumption
<1>11. Cardinality(A \cap B) <= Cardinality(Repeaters(h))
  BY <1>8, MasternodesFinite, FS_Subset
<1>12. /\ Cardinality(A) \in Nat /\ Cardinality(B) \in Nat /\ Cardinality(A \cup B) \in Nat
       /\ Cardinality(A \cap B) \in Nat /\ Cardinality(Repeaters(h)) \in Nat
       /\ Cardinality(Voters[h]) \in Nat
  <2>1. IsFiniteSet(A \cap B)
    BY <1>6, FS_Intersection
  <2>2. QED
    BY <2>1, <1>1, <1>6, <1>9, MasternodesFinite, FS_CardinalityType
<1>13. Required \in Nat /\ Total \in Nat
  BY PaymentsAssumption DEF PaymentsAssumption
<1>14. QED
  BY <1>1, <1>5, <1>6, <1>9, <1>10, <1>11, <1>12, <1>13

-----------------------------------------------------------------------------
\* IInv holds throughout.
LEMMA Invariance == Spec => []IInv
  BY InitInvariant, NextInvariant, PTL DEF Spec

(* Type correctness of the votes, counts, dumps and heights of every node. *)
THEOREM TypeCorrect == Spec => []TypeOK
<1>1. IInv => TypeOK
  BY DEF IInv
<1>2. QED
  BY <1>1, Invariance, PTL

(* A node counts exactly the votes it holds, through cleaning, dumps, torn *)
(* dumps, stops and starts (AddWinningMasternode, CleanPaymentList and     *)
(* CMasternodePaymentDB keep the two maps together).                       *)
THEOREM CountsAreBacked == Spec => []CountsBacked
<1>1. IInv => CountsBacked
  BY DEF IInv, Held, Honest, Backed, InMemory, CountsBacked
<1>2. QED
  BY <1>1, Invariance, PTL

(* No two nodes ask for different payees in a block of one height          *)
(* (IsTransactionValid), for any number of nodes, however votes are lost,  *)
(* repeated and reordered, chains roll back and masternodes stop, as long  *)
(* as fewer of them vote for that height again than two quorums share.     *)
THEOREM PayeesAlwaysAgree == Spec => []PayeesAgree
  BY QuorumsAgree, Invariance, PTL

-----------------------------------------------------------------------------
(* Synchronisation: every change keeps the three parts of SyncInv.  What   *)
(* was heard stays heard until the sync starts over, and a stage that      *)
(* depends on it is only left with it; what was asked for is marked on the *)
(* connection as long as the connection is there, and Process asks only    *)
(* for what is not marked.                                                 *)

LEMMA LeastNatural ==
  ASSUME NEW S \in SUBSET Nat, S # {}
  PROVE  \E m \in S : \A k \in S : m <= k
<1> DEFINE R == OpToRel(<, Nat)
<1>1. \A k, m \in Nat : <<k, m>> \in R <=> k < m
  BY DEF OpToRel
<1>2. IsWellFoundedOn(R, Nat)
  BY NatLessThanWellFounded
<1>3. S \subseteq Nat
  OBVIOUS
<1> HIDE DEF R
<1>4. PICK m \in S : \A k \in S : ~(<<k, m>> \in R)
  BY <1>2, <1>3, WFMin, Zenon
<1>5. \A k \in S : ~(k < m)
  BY <1>1, <1>3, <1>4
<1> QED
  BY <1>3, <1>5


Syncs == [stage : Stage, attempt : 0 .. Max({7, 3 * Threshold}),
          started : Until(Patience), failure : Until(RetryAfter),
          last : [Kind -> {Never} \cup Until(Quiet)],
          seen : [Kind -> [Item -> 0 .. Threshold]]]

\* HeardBeforeFinished, of any state of the sync and any stages waived.
Heard(s, w) ==
    chain = "main" =>
        /\ s.stage \in {"MNW", "BUDGET", "FINISHED"} => s.last["LIST"] # Never \/ "LIST" \in w
        /\ s.stage \in {"BUDGET", "FINISHED"} => s.last["MNW"] # Never \/ "MNW" \in w

\* A test network has not made its seventh attempt yet.
RegtestCounts(s) ==
    chain = "regtest" /\ s.stage \notin {"FINISHED", "FAILED"} => s.attempt <= 6

GoodSync(s) == s \in Syncs /\ RegtestCounts(s)

\* What was asked is remembered, and nothing was asked twice.
AskedIsMarked(node) == node.own \subseteq node.fulfilled /\ ~node.twice

GoodNodes(nodes) ==
    /\ nodes \in Seq(CNode) /\ Len(nodes) <= MaxPeers
    /\ \A i \in DOMAIN nodes : AskedIsMarked(nodes[i])

SyncInv == SyncTypeOK /\ GoodSync(sync) /\ GoodNodes(vNodes)

-----------------------------------------------------------------------------
(* The numbers. *)

LEMMA NumbersHold ==
  /\ Threshold \in Nat \ {0} /\ Quiet \in Nat \ {0} /\ Patience \in Nat \ {0}
  /\ RetryAfter \in Nat \ {0} /\ MaxPeers \in Nat /\ MaxConnections \in Nat
  /\ MaxResets \in Nat
  /\ Max({7, 3 * Threshold}) \in Nat /\ 7 <= Max({7, 3 * Threshold})
  /\ 3 * Threshold <= Max({7, 3 * Threshold}) /\ 3 * Threshold \in Nat
<1>1. /\ Threshold \in Nat \ {0} /\ Quiet \in Nat \ {0} /\ Patience \in Nat \ {0}
      /\ RetryAfter \in Nat \ {0} /\ MaxPeers \in Nat /\ MaxConnections \in Nat
      /\ MaxResets \in Nat
  BY MasternodeSyncAssumption
<1> DEFINE n == 3 * Threshold
           S == {7, n}
<1>2. n \in Nat
  BY <1>1
<1>3. \E x \in S : \A y \in S : x >= y
  <2> HIDE DEF n
  <2> QED BY <1>2
<1>4. Max(S) \in S /\ \A y \in S : Max(S) >= y
  BY <1>3 DEF Max
<1> HIDE DEF n
<1>5. Max(S) \in Nat /\ 7 <= Max(S) /\ n <= Max(S)
  BY <1>2, <1>4
<1> QED
  BY <1>1, <1>2, <1>5 DEF n

LEMMA OlderHolds ==
  ASSUME NEW limit \in Nat
  PROVE  /\ \A age \in Until(limit) : Older(age, limit) \in Until(limit)
         /\ Older(Never, limit) = Never
         /\ \A age \in {Never} \cup Until(limit) :
               /\ Older(age, limit) \in {Never} \cup Until(limit)
               /\ Older(age, limit) = Never => age = Never
<1>1. ASSUME NEW age \in Until(limit)  PROVE Older(age, limit) \in Until(limit)
  <2> DEFINE a == age + 1
             b == limit + 1
             S == {a, b}
  <2>1. a \in Nat /\ b \in Nat /\ a > 0 /\ b > 0 /\ age # Never
    BY DEF Until, Never
  <2> HIDE DEF a, b
  <2>2. \E x \in S : \A y \in S : x =< y
    BY <2>1
  <2>3. Min(S) \in S /\ \A y \in S : Min(S) =< y
    BY <2>2 DEF Min
  <2>4. Min(S) \in Nat /\ Min(S) <= b
    BY <2>1, <2>3
  <2>5. Older(age, limit) = Min(S)
    BY <2>1 DEF Older, a, b
  <2> QED BY <2>4, <2>5 DEF Until, b
<1>2. Older(Never, limit) = Never
  BY DEF Older
<1>3. Never \notin Until(limit)
  BY DEF Never, Until
<1> QED
  BY <1>1, <1>2, <1>3

LEMMA MinIs ==
  ASSUME NEW S \in SUBSET Nat, S # {}
  PROVE  Min(S) \in S
<1>1. \E x \in S : \A y \in S : x =< y
  BY LeastNatural
<1> QED
  BY <1>1 DEF Min

-----------------------------------------------------------------------------
(* The members of CMasternodeSync. *)

LEMMA ResetHolds ==
  GoodSync(ResetState)
<1>1. /\ [k \in Kind |-> Never] \in [Kind -> {Never} \cup Until(Quiet)]
      /\ [k \in Kind |-> [i \in Item |-> 0]] \in [Kind -> [Item -> 0 .. Threshold]]
  BY NumbersHold
<1>2. 0 \in 0 .. Max({7, 3 * Threshold}) /\ 0 \in Until(Patience)
      /\ 0 \in Until(RetryAfter)
  BY NumbersHold DEF Until
<1>3. ResetState \in Syncs
  BY <1>1, <1>2 DEF ResetState, Syncs, Stage
<1> QED
  BY <1>3 DEF GoodSync, RegtestCounts, ResetState

LEMMA SyncAgedHolds ==
  ASSUME NEW s, GoodSync(s)
  PROVE  /\ GoodSync(Aged(s)) /\ Aged(s).stage = s.stage
         /\ \A k \in Kind : Aged(s).last[k] = Never => s.last[k] = Never
<1> DEFINE a == Older(s.started, Patience)
           f == IF s.stage = "FAILED" THEN Older(s.failure, RetryAfter) ELSE 0
           l == [k \in Kind |-> Older(s.last[k], Quiet)]
<1>1. s \in Syncs /\ RegtestCounts(s)
  BY DEF GoodSync
<1>2. a \in Until(Patience)
  BY <1>1, NumbersHold, OlderHolds DEF Syncs
<1>3. f \in Until(RetryAfter)
  <2>1. 0 \in Until(RetryAfter)
    BY NumbersHold DEF Until
  <2>2. Older(s.failure, RetryAfter) \in Until(RetryAfter)
    BY <1>1, NumbersHold, OlderHolds DEF Syncs
  <2> QED BY <2>1, <2>2
<1>4. /\ l \in [Kind -> {Never} \cup Until(Quiet)]
      /\ \A k \in Kind : l[k] = Never => s.last[k] = Never
  <2>1. \A k \in Kind : s.last[k] \in {Never} \cup Until(Quiet)
    BY <1>1 DEF Syncs
  <2> QED BY <2>1, NumbersHold, OlderHolds
<1>5. Aged(s) = [s EXCEPT !.started = a, !.failure = f, !.last = l]
  BY DEF Aged
<1> HIDE DEF a, f, l
<1>6. Aged(s) \in Syncs /\ Aged(s).stage = s.stage /\ Aged(s).attempt = s.attempt
      /\ Aged(s).last = l
  BY <1>1, <1>2, <1>3, <1>4, <1>5 DEF Syncs
<1>7. RegtestCounts(Aged(s))
  BY <1>1, <1>6 DEF RegtestCounts
<1> QED
  BY <1>4, <1>6, <1>7 DEF GoodSync

\* The next stage begins with nothing asked.
LEMMA NextAssetHolds ==
  ASSUME NEW s, GoodSync(s), s.stage # "FINISHED"
  PROVE  /\ GoodSync(NextAsset(s)) /\ NextAsset(s).attempt = 0
         /\ NextAsset(s).stage = StageAfter[s.stage]
<1>1. s \in Syncs /\ s.stage \in Stage \ {"FINISHED"}
  BY DEF GoodSync, Syncs
<1>2. StageAfter[s.stage] \in Stage
  BY <1>1 DEF StageAfter, Stage
<1>3. 0 \in 0 .. Max({7, 3 * Threshold}) /\ 0 \in Until(Patience)
  BY NumbersHold DEF Until
<1>4. /\ NextAsset(s) \in Syncs /\ NextAsset(s).attempt = 0
      /\ NextAsset(s).stage = StageAfter[s.stage] /\ NextAsset(s).last = s.last
  BY <1>1, <1>2, <1>3 DEF NextAsset, Syncs
<1> QED
  BY <1>4 DEF GoodSync, RegtestCounts

LEMMA FailedHolds ==
  ASSUME NEW s, GoodSync(s)
  PROVE  GoodSync(Failed(s))
<1>1. s \in Syncs
  BY DEF GoodSync
<1>2. 0 \in 0 .. Max({7, 3 * Threshold}) /\ 0 \in Until(RetryAfter)
      /\ "FAILED" \in Stage
  BY NumbersHold DEF Until, Stage
<1>3. Failed(s) \in Syncs /\ Failed(s).stage = "FAILED"
  BY <1>1, <1>2 DEF Failed, Syncs
<1> QED
  BY <1>3 DEF GoodSync, RegtestCounts

LEMMA AttemptHolds ==
  ASSUME NEW s, GoodSync(s), s.attempt + 1 <= Max({7, 3 * Threshold}),
         chain = "regtest" => s.attempt < 6
  PROVE  GoodSync([s EXCEPT !.attempt = @ + 1])
<1> DEFINE a == s.attempt + 1
           t == [s EXCEPT !.attempt = a]
<1>1. s \in Syncs /\ s.attempt \in Nat
  BY NumbersHold DEF GoodSync, Syncs
<1>2. a \in 0 .. Max({7, 3 * Threshold}) /\ (chain = "regtest" => a <= 6)
  BY <1>1, NumbersHold
<1> HIDE DEF a
<1>3. t \in Syncs /\ t.stage = s.stage /\ t.last = s.last /\ t.attempt = a
  BY <1>1, <1>2 DEF Syncs
<1>4. GoodSync(t)
  BY <1>1, <1>2, <1>3 DEF GoodSync, RegtestCounts
<1> QED
  BY <1>4 DEF a

-----------------------------------------------------------------------------
(* The flags of the connections. *)

LEMMA FlagsHold ==
  ASSUME NEW node \in CNode, AskedIsMarked(node), NEW r \in Request
  PROVE  /\ Mark(node, r) \in CNode /\ AskedIsMarked(Mark(node, r))
         /\ r \notin node.fulfilled =>
               Ask(node, r) \in CNode /\ AskedIsMarked(Ask(node, r))
         /\ \A cleared \in BOOLEAN :
               /\ SyncBegins(node, cleared) \in CNode
               /\ AskedIsMarked(SyncBegins(node, cleared))
<1>1. node.fulfilled \in SUBSET Request /\ node.own \in SUBSET Request /\ ~node.twice
      /\ node.own \subseteq node.fulfilled
  BY DEF CNode, AskedIsMarked
<1>2. /\ Mark(node, r) \in CNode /\ ~Mark(node, r).twice
      /\ Mark(node, r).fulfilled = node.fulfilled \cup {r}
      /\ Mark(node, r).own = node.own \cup {r}
  BY <1>1 DEF Mark, CNode
<1>3. ASSUME r \notin node.fulfilled
      PROVE  /\ Ask(node, r) \in CNode /\ ~Ask(node, r).twice
             /\ Ask(node, r).fulfilled = node.fulfilled \cup {r}
             /\ Ask(node, r).own = node.own \cup {r}
  <2>1. r \notin node.own
    BY <1>1, <1>3
  <2> DEFINE t == node.twice \/ r \in node.own
  <2>2. t \in BOOLEAN /\ ~t
    BY <1>1, <2>1
  <2> HIDE DEF t
  <2>3. Ask(node, r) = [node EXCEPT !.fulfilled = node.fulfilled \cup {r},
                                    !.own = node.own \cup {r}, !.twice = t]
    BY DEF Ask, t
  <2> QED BY <1>1, <2>2, <2>3 DEF CNode
<1>4. ASSUME NEW cleared \in BOOLEAN
      PROVE  /\ SyncBegins(node, cleared) \in CNode /\ ~SyncBegins(node, cleared).twice
             /\ SyncBegins(node, cleared).own = {}
  <2> DEFINE f == IF cleared THEN {} ELSE node.fulfilled
  <2>1. f \in SUBSET Request
    BY <1>1
  <2>2. SyncBegins(node, cleared) = [node EXCEPT !.fulfilled = f, !.own = {}]
    BY DEF SyncBegins
  <2> HIDE DEF f
  <2> QED BY <1>1, <2>1, <2>2 DEF CNode
<1>5. AskedIsMarked(Mark(node, r))
  BY <1>1, <1>2 DEF AskedIsMarked
<1>6. r \notin node.fulfilled => AskedIsMarked(Ask(node, r))
  BY <1>1, <1>3 DEF AskedIsMarked
<1>7. \A cleared \in BOOLEAN : AskedIsMarked(SyncBegins(node, cleared))
  BY <1>4 DEF AskedIsMarked
<1> QED
  BY <1>2, <1>3, <1>4, <1>5, <1>6, <1>7

LEMMA OneChanged ==
  ASSUME NEW nodes, GoodNodes(nodes), NEW i \in DOMAIN nodes,
         NEW node \in CNode, AskedIsMarked(node)
  PROVE  GoodNodes([nodes EXCEPT ![i] = node])
<1> DEFINE new == [nodes EXCEPT ![i] = node]
<1>1. nodes \in Seq(CNode) /\ i \in 1 .. Len(nodes) /\ DOMAIN nodes = 1 .. Len(nodes)
  BY LenProperties DEF GoodNodes
<1>2. new \in Seq(CNode) /\ Len(new) = Len(nodes)
  BY <1>1, ExceptSeq
<1>3. \A j \in 1 .. Len(nodes) : new[j] = IF j = i THEN node ELSE nodes[j]
  BY <1>1, ExceptSeq
<1>4. DOMAIN new = 1 .. Len(nodes)
  BY <1>1
<1> HIDE DEF new
<1> QED
  BY <1>1, <1>2, <1>3, <1>4 DEF GoodNodes

\* A peer is asked for what it has no flag for, or marked.
LEMMA PeerHolds ==
  ASSUME NEW nodes, GoodNodes(nodes), NEW r \in Request, Unfulfilled(nodes, r) # {}
  PROVE  LET first == Min(Unfulfilled(nodes, r))
         IN  /\ GoodNodes([nodes EXCEPT ![first] = Ask(@, r)])
             /\ GoodNodes([nodes EXCEPT ![first] = Mark(@, r)])
<1> DEFINE first == Min(Unfulfilled(nodes, r))
<1>1. nodes \in Seq(CNode) /\ DOMAIN nodes = 1 .. Len(nodes) /\ Len(nodes) \in Nat
  BY LenProperties DEF GoodNodes
<1>2. Unfulfilled(nodes, r) \in SUBSET Nat
  BY <1>1 DEF Unfulfilled
<1>3. first \in Unfulfilled(nodes, r)
  BY <1>2, MinIs
<1> HIDE DEF first
<1>4. first \in DOMAIN nodes /\ r \notin nodes[first].fulfilled
  BY <1>3 DEF Unfulfilled
<1>5. nodes[first] \in CNode /\ AskedIsMarked(nodes[first])
  BY <1>1, <1>4, ElementOfSeq DEF GoodNodes
<1>6. /\ Ask(nodes[first], r) \in CNode /\ AskedIsMarked(Ask(nodes[first], r))
      /\ Mark(nodes[first], r) \in CNode /\ AskedIsMarked(Mark(nodes[first], r))
  BY <1>4, <1>5, FlagsHold
<1>7. GoodNodes([nodes EXCEPT ![first] = Ask(nodes[first], r)])
  BY <1>4, <1>6, OneChanged
<1>8. GoodNodes([nodes EXCEPT ![first] = Mark(nodes[first], r)])
  BY <1>4, <1>6, OneChanged
<1> QED
  BY <1>7, <1>8 DEF first

LEMMA NodesBegunHolds ==
  ASSUME GoodNodes(vNodes), NEW s, NEW cleared \in BOOLEAN
  PROVE  GoodNodes(NodesBegun(s, cleared))
<1> DEFINE new == [i \in DOMAIN vNodes |-> SyncBegins(vNodes[i], cleared)]
<1>1. vNodes \in Seq(CNode) /\ DOMAIN vNodes = 1 .. Len(vNodes) /\ Len(vNodes) \in Nat
  BY LenProperties DEF GoodNodes
<1>2. \A i \in DOMAIN vNodes : vNodes[i] \in CNode /\ AskedIsMarked(vNodes[i])
  BY <1>1, ElementOfSeq DEF GoodNodes
<1>3. "mnsync" \in Request
  BY DEF Request
<1>4. \A i \in DOMAIN vNodes : new[i] \in CNode /\ AskedIsMarked(new[i])
  BY <1>2, <1>3, FlagsHold
<1>5. new \in [1 .. Len(vNodes) -> CNode] /\ DOMAIN new = 1 .. Len(vNodes)
  BY <1>1, <1>4
<1> HIDE DEF new
<1>6. new \in Seq(CNode)
  BY <1>1, <1>5, SeqDef
<1>7. Len(new) = Len(vNodes)
  BY <1>1, <1>5, <1>6
<1>8. GoodNodes(new)
  BY <1>1, <1>4, <1>5, <1>6, <1>7 DEF GoodNodes
<1> QED
  BY <1>8 DEF NodesBegun, new

-----------------------------------------------------------------------------
(* What one call of Process makes of a sync and of the connections. *)

AtWorkStage == {"SPORKS", "LIST", "MNW", "BUDGET"}

GoodOutcome(o) == GoodSync(o.sync) /\ GoodNodes(o.nodes)

LEMMA WorkHolds ==
  ASSUME GoodSync(sync), NEW lost \in BOOLEAN, NEW s \in AtWork(lost)
  PROVE  GoodSync(s) /\ GoodSync(Begun(s)) /\ Begun(s).stage \in AtWorkStage
<1>1. GoodSync(Aged(sync))
  BY SyncAgedHolds
<1>2. GoodSync(s) /\ s.stage \notin {"FINISHED", "FAILED"}
  BY <1>1, ResetHolds DEF AtWork, Woken
<1>3. s.stage \in {"INITIAL"} \cup AtWorkStage
  BY <1>2 DEF GoodSync, Syncs, Stage, AtWorkStage
<1>4. CASE s.stage = "INITIAL"
  <2>1. GoodSync(NextAsset(s)) /\ NextAsset(s).stage = "SPORKS"
    BY <1>2, <1>4, NextAssetHolds DEF StageAfter
  <2> QED BY <1>2, <1>4, <2>1 DEF Begun, AtWorkStage
<1>5. CASE s.stage # "INITIAL"
  BY <1>2, <1>3, <1>5 DEF Begun
<1> QED
  BY <1>4, <1>5

LEMMA OutcomeFields ==
  \A s, nodes : Outcome(s, nodes).sync = s /\ Outcome(s, nodes).nodes = nodes
  BY DEF Outcome

LEMMA AskSporksCases ==
  ASSUME NEW s, NEW nodes, NEW free, free = Unfulfilled(nodes, "getspork"),
         NEW asked, asked = [nodes EXCEPT ![Min(free)] = Ask(@, "getspork")]
  PROVE  \/ free = {} /\ AskSporks(s, nodes) = Outcome(s, nodes)
         \/ free # {} /\ s.attempt >= 2
            /\ AskSporks(s, nodes) = Outcome([NextAsset(s) EXCEPT !.attempt = @ + 1], asked)
         \/ free # {} /\ ~(s.attempt >= 2)
            /\ AskSporks(s, nodes) = Outcome([s EXCEPT !.attempt = @ + 1], asked)
  BY DEF AskSporks

LEMMA AskItemsCases ==
  ASSUME NEW s, NEW nodes
  PROVE  LET r == RequestOf[s.stage]
             free == Unfulfilled(nodes, r)
             asked == [nodes EXCEPT ![Min(free)] = Ask(@, r)]
             marked == [nodes EXCEPT ![Min(free)] = Mark(@, r)]
             result == AskItems(s, nodes, s.stage)
         IN  \/ nodes = <<>> /\ result = Outcome(s, nodes)
             \/ Settled(s, s.stage) /\ result = Outcome(NextAsset(s), nodes)
             \/ ~Settled(s, s.stage) /\ free = {} /\ result = Outcome(s, nodes)
             \/ /\ free # {} /\ GivenUp(s, s.stage)
                /\ result = Outcome(IF enforced THEN Failed(s) ELSE NextAsset(s), marked)
             \/ /\ ~Settled(s, s.stage) /\ free # {} /\ ~GivenUp(s, s.stage)
                /\ s.attempt >= 3 * Threshold /\ result = Outcome(s, marked)
             \/ /\ free # {} /\ ~GivenUp(s, s.stage) /\ ~(s.attempt >= 3 * Threshold)
                /\ result = Outcome([s EXCEPT !.attempt = @ + 1], asked)
<1> DEFINE r == RequestOf[s.stage]
           free == Unfulfilled(nodes, r)
           asked == [nodes EXCEPT ![Min(free)] = Ask(@, r)]
           marked == [nodes EXCEPT ![Min(free)] = Mark(@, r)]
           result == AskItems(s, nodes, s.stage)
           left == IF enforced THEN Failed(s) ELSE NextAsset(s)
           more == [s EXCEPT !.attempt = @ + 1]
<1> HIDE DEF asked, marked, more, left
<1>1. result = CASE nodes = <<>> -> Outcome(s, nodes)
                 [] nodes # <<>> /\ Settled(s, s.stage) -> Outcome(NextAsset(s), nodes)
                 [] OTHER ->
                    CASE free = {} -> Outcome(s, nodes)
                      [] free # {} /\ GivenUp(s, s.stage) -> Outcome(left, marked)
                      [] free # {} /\ ~GivenUp(s, s.stage) /\ s.attempt >= 3 * Threshold ->
                         Outcome(s, marked)
                      [] OTHER -> Outcome(more, asked)
  BY DEF AskItems, asked, marked, more, left
<1> HIDE DEF result, free
<1>2. CASE nodes = <<>>
  BY <1>1, <1>2 DEF left, more, asked, marked, result, free
<1>3. CASE nodes # <<>> /\ Settled(s, s.stage)
  BY <1>1, <1>3 DEF left, more, asked, marked, result, free
<1>4. CASE nodes # <<>> /\ ~Settled(s, s.stage)
  <2>1. result = CASE free = {} -> Outcome(s, nodes)
                   [] free # {} /\ GivenUp(s, s.stage) -> Outcome(left, marked)
                   [] free # {} /\ ~GivenUp(s, s.stage) /\ s.attempt >= 3 * Threshold ->
                      Outcome(s, marked)
                   [] OTHER -> Outcome(more, asked)
    BY <1>1, <1>4
  <2>2. \/ free = {} /\ result = Outcome(s, nodes)
        \/ free # {} /\ GivenUp(s, s.stage) /\ result = Outcome(left, marked)
        \/ /\ free # {} /\ ~GivenUp(s, s.stage) /\ s.attempt >= 3 * Threshold
           /\ result = Outcome(s, marked)
        \/ /\ free # {} /\ ~GivenUp(s, s.stage) /\ ~(s.attempt >= 3 * Threshold)
           /\ result = Outcome(more, asked)
    BY <2>1
  <2> QED BY <1>4, <2>2 DEF left, more, asked, marked, result, free
<1> QED
  BY <1>2, <1>3, <1>4

LEMMA AskBudgetCases ==
  ASSUME NEW s, NEW nodes
  PROVE  LET free == Unfulfilled(nodes, "busync")
             asked == [nodes EXCEPT ![Min(free)] = Ask(@, "busync")]
             marked == [nodes EXCEPT ![Min(free)] = Mark(@, "busync")]
             ended == Settled(s, "BUDGET") \/ GivenUp(s, "BUDGET")
             result == AskBudget(s, nodes)
         IN  \/ nodes = <<>> /\ result = Outcome(s, nodes)
             \/ ended /\ result = Outcome(NextAsset(s), nodes)
             \/ ~ended /\ free = {} /\ result = Outcome(s, nodes)
             \/ ~ended /\ free # {} /\ s.attempt >= 3 * Threshold /\ result = Outcome(s, marked)
             \/ /\ free # {} /\ ~(s.attempt >= 3 * Threshold)
                /\ result = Outcome([s EXCEPT !.attempt = @ + 1], asked)
<1> DEFINE free == Unfulfilled(nodes, "busync")
           asked == [nodes EXCEPT ![Min(free)] = Ask(@, "busync")]
           marked == [nodes EXCEPT ![Min(free)] = Mark(@, "busync")]
           ended == Settled(s, "BUDGET") \/ GivenUp(s, "BUDGET")
           result == AskBudget(s, nodes)
           more == [s EXCEPT !.attempt = @ + 1]
<1> HIDE DEF asked, marked, more
<1>1. result = CASE nodes = <<>> -> Outcome(s, nodes)
                 [] nodes # <<>> /\ ended -> Outcome(NextAsset(s), nodes)
                 [] OTHER ->
                    CASE free = {} -> Outcome(s, nodes)
                      [] free # {} /\ s.attempt >= 3 * Threshold -> Outcome(s, marked)
                      [] OTHER -> Outcome(more, asked)
  BY DEF AskBudget, asked, marked, more
<1> HIDE DEF result, free, ended
<1>2. CASE nodes = <<>>
  BY <1>1, <1>2 DEF more, asked, marked, result, free, ended
<1>3. CASE nodes # <<>> /\ ended
  BY <1>1, <1>3 DEF more, asked, marked, result, free, ended
<1>4. CASE nodes # <<>> /\ ~ended
  <2>1. result = CASE free = {} -> Outcome(s, nodes)
                   [] free # {} /\ s.attempt >= 3 * Threshold -> Outcome(s, marked)
                   [] OTHER -> Outcome(more, asked)
    BY <1>1, <1>4
  <2>2. \/ free = {} /\ result = Outcome(s, nodes)
        \/ free # {} /\ s.attempt >= 3 * Threshold /\ result = Outcome(s, marked)
        \/ free # {} /\ ~(s.attempt >= 3 * Threshold) /\ result = Outcome(more, asked)
    BY <2>1
  <2> QED BY <1>4, <2>2 DEF more, asked, marked, result, free, ended
<1> QED
  BY <1>2, <1>3, <1>4

LEMMA AskSporksHolds ==
  ASSUME NEW s, GoodSync(s), NEW nodes, GoodNodes(nodes), s.stage = "SPORKS",
         chain # "regtest"
  PROVE  GoodOutcome(AskSporks(s, nodes))
<1> DEFINE r == "getspork"
           free == Unfulfilled(nodes, r)
           next == IF s.attempt >= 2 THEN NextAsset(s) ELSE s
           asked == [nodes EXCEPT ![Min(free)] = Ask(@, r)]
<1>1. r \in Request
  BY DEF Request
<1>2. CASE free = {}
  <2>1. AskSporks(s, nodes) = Outcome(s, nodes)
    BY <1>2 DEF AskSporks
  <2> QED BY <2>1, OutcomeFields DEF GoodOutcome
<1>3. CASE free # {}
  <2>1. GoodNodes(asked)
    BY <1>1, <1>3, PeerHolds
  <2>2. GoodSync(NextAsset(s)) /\ NextAsset(s).attempt = 0
    BY NextAssetHolds
  <2>3. s.attempt \in Nat
    BY DEF GoodSync, Syncs
  <2>4. GoodSync(next) /\ next.attempt \in 0 .. 1
    BY <2>2, <2>3
  <2>5. AskSporks(s, nodes) = Outcome([next EXCEPT !.attempt = @ + 1], asked)
    BY <1>3 DEF AskSporks
  <2> HIDE DEF next, asked
  <2>6. GoodSync([next EXCEPT !.attempt = @ + 1])
    <3>1. next.attempt + 1 <= Max({7, 3 * Threshold})
      BY <2>4, NumbersHold
    <3> QED BY <2>4, <3>1, AttemptHolds
  <2> QED BY <2>1, <2>5, <2>6, OutcomeFields DEF GoodOutcome
<1> QED
  BY <1>2, <1>3

LEMMA AskItemsHolds ==
  ASSUME NEW s, GoodSync(s), NEW nodes, GoodNodes(nodes),
         s.stage \in {"LIST", "MNW"},
         chain # "regtest"
  PROVE  GoodOutcome(AskItems(s, nodes, s.stage))
<1> DEFINE r == RequestOf[s.stage]
           free == Unfulfilled(nodes, r)
           asked == [nodes EXCEPT ![Min(free)] = Ask(@, r)]
           marked == [nodes EXCEPT ![Min(free)] = Mark(@, r)]
           more == [s EXCEPT !.attempt = @ + 1]
           result == AskItems(s, nodes, s.stage)
<1>1. r \in Request
  BY DEF Request, RequestOf
<1>2. free # {} => GoodNodes(asked) /\ GoodNodes(marked)
  <2> HIDE DEF r
  <2> QED BY <1>1, PeerHolds
<1>3. Settled(s, s.stage) => GoodSync(NextAsset(s))
  BY NextAssetHolds
<1>4. GoodSync(NextAsset(s))
  BY NextAssetHolds
<1>5. GoodSync(Failed(s))
  BY FailedHolds
<1>6. s.attempt < 3 * Threshold => GoodSync(more)
  <2>1. s.attempt \in Nat
    BY DEF GoodSync, Syncs
  <2>2. s.attempt < 3 * Threshold => s.attempt + 1 <= Max({7, 3 * Threshold})
    BY <2>1, NumbersHold
  <2> QED BY <2>2, AttemptHolds
<1>7. \/ result = Outcome(s, nodes)
      \/ Settled(s, s.stage) /\ result = Outcome(NextAsset(s), nodes)
      \/ /\ free # {}
         /\ result = Outcome(IF enforced THEN Failed(s) ELSE NextAsset(s), marked)
      \/ free # {} /\ result = Outcome(s, marked)
      \/ free # {} /\ ~(s.attempt >= 3 * Threshold) /\ result = Outcome(more, asked)
  BY AskItemsCases
<1>8. s.attempt \in Int /\ 3 * Threshold \in Int
  BY NumbersHold DEF GoodSync, Syncs
<1> HIDE DEF result, asked, marked, more, free
<1>9. GoodSync(result.sync) /\ GoodNodes(result.nodes)
  <2>1. CASE result = Outcome(s, nodes)
    BY <2>1, OutcomeFields
  <2>2. CASE Settled(s, s.stage) /\ result = Outcome(NextAsset(s), nodes)
    BY <1>3, <2>2, OutcomeFields
  <2>3. CASE /\ free # {}
             /\ result = Outcome(IF enforced THEN Failed(s) ELSE NextAsset(s), marked)
    <3>1. GoodSync(IF enforced THEN Failed(s) ELSE NextAsset(s))
      BY <1>4, <1>5
    <3> QED BY <1>2, <2>3, <3>1, OutcomeFields
  <2>4. CASE free # {} /\ result = Outcome(s, marked)
    BY <1>2, <2>4, OutcomeFields
  <2>5. CASE free # {} /\ ~(s.attempt >= 3 * Threshold) /\ result = Outcome(more, asked)
    BY <1>2, <1>6, <1>8, <2>5, OutcomeFields
  <2> QED BY <1>7, <2>1, <2>2, <2>3, <2>4, <2>5
<1> QED
  BY <1>9 DEF GoodOutcome, result

LEMMA AskBudgetHolds ==
  ASSUME NEW s, GoodSync(s), NEW nodes, GoodNodes(nodes), s.stage = "BUDGET",
         chain # "regtest"
  PROVE  GoodOutcome(AskBudget(s, nodes))
<1> DEFINE r == "busync"
           free == Unfulfilled(nodes, r)
           asked == [nodes EXCEPT ![Min(free)] = Ask(@, r)]
           marked == [nodes EXCEPT ![Min(free)] = Mark(@, r)]
           more == [s EXCEPT !.attempt = @ + 1]
           result == AskBudget(s, nodes)
<1>1. r \in Request
  BY DEF Request
<1>2. free # {} => GoodNodes(asked) /\ GoodNodes(marked)
  BY <1>1, PeerHolds
<1>3. GoodSync(NextAsset(s))
  BY NextAssetHolds
<1>4. s.attempt < 3 * Threshold => GoodSync(more)
  <2>1. s.attempt \in Nat
    BY DEF GoodSync, Syncs
  <2>2. s.attempt < 3 * Threshold => s.attempt + 1 <= Max({7, 3 * Threshold})
    BY <2>1, NumbersHold
  <2> QED BY <2>2, AttemptHolds
<1>5. \/ result = Outcome(s, nodes)
      \/ result = Outcome(NextAsset(s), nodes)
      \/ free # {} /\ result = Outcome(s, marked)
      \/ free # {} /\ ~(s.attempt >= 3 * Threshold) /\ result = Outcome(more, asked)
  BY AskBudgetCases
<1>6. s.attempt \in Int /\ 3 * Threshold \in Int
  BY NumbersHold DEF GoodSync, Syncs
<1> HIDE DEF result, asked, marked, more, free
<1>7. GoodSync(result.sync) /\ GoodNodes(result.nodes)
  <2>1. CASE result = Outcome(s, nodes)
    BY <2>1, OutcomeFields
  <2>2. CASE result = Outcome(NextAsset(s), nodes)
    BY <1>3, <2>2, OutcomeFields
  <2>3. CASE free # {} /\ result = Outcome(s, marked)
    BY <1>2, <2>3, OutcomeFields
  <2>4. CASE free # {} /\ ~(s.attempt >= 3 * Threshold) /\ result = Outcome(more, asked)
    BY <1>2, <1>4, <1>6, <2>4, OutcomeFields
  <2> QED BY <1>5, <2>1, <2>2, <2>3, <2>4
<1> QED
  BY <1>7 DEF GoodOutcome, result

LEMMA AskRegtestHolds ==
  ASSUME NEW s, GoodSync(s), NEW nodes, GoodNodes(nodes), s.stage \in AtWorkStage,
         chain = "regtest"
  PROVE  GoodOutcome(AskRegtest(s, nodes))
<1> DEFINE a == s.attempt + 1
           stage == IF s.attempt >= 6 THEN "FINISHED" ELSE s.stage
           new == [s EXCEPT !.attempt = a, !.stage = stage]
<1>1. s \in Syncs /\ s.attempt \in Nat /\ s.attempt <= 6
  BY DEF GoodSync, Syncs, RegtestCounts, AtWorkStage
<1>2. a \in 0 .. Max({7, 3 * Threshold})
  BY <1>1, NumbersHold
<1>3. stage \in Stage /\ (stage = "FINISHED" \/ a <= 6)
  BY <1>1 DEF Stage, AtWorkStage
<1> HIDE DEF a, stage
<1>4. new \in Syncs /\ new.attempt = a /\ new.stage = stage
  BY <1>1, <1>2, <1>3 DEF Syncs
<1>5. GoodSync(new)
  BY <1>3, <1>4 DEF GoodSync, RegtestCounts
<1>6. AskRegtest(s, nodes) =
          IF nodes = <<>> THEN Outcome(s, nodes) ELSE Outcome(new, nodes)
  BY DEF AskRegtest, a, stage
<1> HIDE DEF new
<1> QED
  BY <1>5, <1>6, OutcomeFields DEF GoodOutcome

LEMMA AskPeersHolds ==
  ASSUME NEW s, GoodSync(s), NEW nodes, GoodNodes(nodes), s.stage \in AtWorkStage
  PROVE  GoodOutcome(AskPeers(s, nodes))
<1>1. CASE chain = "regtest"
  BY <1>1, AskRegtestHolds DEF AskPeers
<1>2. CASE chain # "regtest" /\ s.stage = "SPORKS"
  <2>1. AskPeers(s, nodes) = AskSporks(s, nodes)
    BY <1>2 DEF AskPeers
  <2> QED BY <1>2, <2>1, AskSporksHolds
<1>3. CASE chain # "regtest" /\ s.stage \in {"LIST", "MNW"}
  <2>1. AskPeers(s, nodes) = AskItems(s, nodes, s.stage)
    BY <1>3 DEF AskPeers
  <2> QED BY <1>3, <2>1, AskItemsHolds
<1>4. CASE chain # "regtest" /\ s.stage = "BUDGET"
  <2>1. AskPeers(s, nodes) = AskBudget(s, nodes)
    BY <1>4 DEF AskPeers
  <2> QED BY <1>4, <2>1, AskBudgetHolds
<1> QED
  BY <1>1, <1>2, <1>3, <1>4 DEF AtWorkStage

-----------------------------------------------------------------------------
(* Every step. *)

Counters ==
    /\ chain \in {"main", "regtest"} /\ enforced \in BOOLEAN /\ synced \in BOOLEAN
    /\ opened \in 0 .. MaxConnections /\ resets \in 0 .. MaxResets
    /\ waived \subseteq {"LIST", "MNW"}

LEMMA SyncParts == SyncInv <=> Counters /\ GoodSync(sync) /\ GoodNodes(vNodes)
  BY DEF SyncInv, SyncTypeOK, Counters, GoodSync, GoodNodes, Syncs

\* No step changes the chain.
LEMMA Carried ==
  ASSUME chain' = chain, Counters', GoodSync(sync'), GoodNodes(vNodes')
  PROVE  SyncInv'
<1>1. GoodSync(sync)'
  BY DEF GoodSync, RegtestCounts
<1>2. GoodNodes(vNodes)'
  BY DEF GoodNodes
<1> QED
  BY <1>1, <1>2 DEF SyncInv, SyncTypeOK, Counters, GoodSync, GoodNodes, Syncs

LEMMA ResetsCounted ==
  ASSUME resets \in 0 .. MaxResets, resets < MaxResets, resets' = resets + 1
  PROVE  resets' \in 0 .. MaxResets
  BY NumbersHold

LEMMA IdleHolds ==
  ASSUME SyncInv, ProcessIdle
  PROVE  SyncInv'
<1>1. Counters /\ GoodSync(sync) /\ GoodNodes(vNodes)
  BY SyncParts
<1>2. GoodSync(Aged(sync))
  BY <1>1, SyncAgedHolds
<1> QED
  BY <1>1, <1>2, Carried DEF ProcessIdle, Counters

LEMMA CountHolds ==
  ASSUME resets \in 0 .. MaxResets, NEW lost \in BOOLEAN, CountReset(lost)
  PROVE  resets' \in 0 .. MaxResets
  BY ResetsCounted DEF CountReset

LEMMA WaitsHolds ==
  ASSUME SyncInv, NEW lost \in BOOLEAN, NEW cleared \in BOOLEAN,
         NEW tipFresh \in BOOLEAN,
         NEW locked \in BOOLEAN, ProcessWaits(lost, cleared, tipFresh, locked)
  PROVE  SyncInv'
<1>1. Counters /\ GoodSync(sync) /\ GoodNodes(vNodes)
  BY SyncParts
<1>2. PICK s \in AtWork(lost) : sync' = Begun(s) /\ vNodes' = NodesBegun(s, cleared)
  BY DEF ProcessWaits
<1>3. GoodSync(sync') /\ GoodNodes(vNodes')
  BY <1>1, <1>2, WorkHolds, NodesBegunHolds
<1>4. resets' \in 0 .. MaxResets
  BY <1>1, CountHolds DEF ProcessWaits, Counters
<1>5. waived' \subseteq {"LIST", "MNW"}
  BY <1>1 DEF ProcessWaits, WaivedBefore, Counters
<1> QED
  BY <1>1, <1>3, <1>4, <1>5, Carried DEF ProcessWaits, Counters

LEMMA AsksHolds ==
  ASSUME SyncInv, NEW lost \in BOOLEAN, NEW cleared \in BOOLEAN,
         NEW tipFresh \in BOOLEAN,
         ProcessAsks(lost, cleared, tipFresh)
  PROVE  SyncInv'
<1>1. Counters /\ GoodSync(sync) /\ GoodNodes(vNodes)
  BY SyncParts
<1>2. PICK s \in AtWork(lost) :
         /\ sync' = AskPeers(Begun(s), NodesBegun(s, cleared)).sync
         /\ vNodes' = AskPeers(Begun(s), NodesBegun(s, cleared)).nodes
  BY DEF ProcessAsks
<1>3. GoodSync(Begun(s)) /\ Begun(s).stage \in AtWorkStage
      /\ GoodNodes(NodesBegun(s, cleared))
  BY <1>1, WorkHolds, NodesBegunHolds
<1>4. GoodOutcome(AskPeers(Begun(s), NodesBegun(s, cleared)))
  BY <1>3, AskPeersHolds
<1>5. GoodSync(sync') /\ GoodNodes(vNodes')
  BY <1>2, <1>4 DEF GoodOutcome
<1>6. resets' \in 0 .. MaxResets
  BY <1>1, CountHolds DEF ProcessAsks, Counters
<1>7. waived' \subseteq {"LIST", "MNW"}
  BY <1>1 DEF ProcessAsks, WaivedBefore, Waives, Counters
<1> QED
  BY <1>1, <1>5, <1>6, <1>7, Carried DEF ProcessAsks, Counters

LEMMA AfterSleepHolds ==
  ASSUME SyncInv, NEW lost \in BOOLEAN, NEW cleared \in BOOLEAN,
         NEW tipFresh \in BOOLEAN,
         ProcessAfterSleep(lost, cleared, tipFresh)
  PROVE  SyncInv'
<1>1. Counters /\ GoodSync(sync) /\ GoodNodes(vNodes)
  BY SyncParts
<1>2. GoodNodes(vNodes')
  BY <1>1, NodesBegunHolds DEF ProcessAfterSleep
<1>3. GoodSync(sync')
  BY ResetHolds DEF ProcessAfterSleep
<1>4. resets' \in 0 .. MaxResets
  BY <1>1, ResetsCounted DEF ProcessAfterSleep, Counters
<1> QED
  BY <1>1, <1>2, <1>3, <1>4, Carried DEF ProcessAfterSleep, Counters

\* The resets between two calls of Process, IsBlockchainSynced without one, and the spork.
LEMMA ResetStepsHold ==
  ASSUME SyncInv,
         IsBlockchainSynced \/ RpcReset \/ SporkChanges
            \/ (\E tipFresh \in BOOLEAN : WakeUp(tipFresh))
  PROVE  SyncInv'
<1>1. Counters /\ GoodSync(sync) /\ GoodNodes(vNodes)
  BY SyncParts
<1>2. CASE IsBlockchainSynced \/ SporkChanges
  BY <1>1, <1>2, Carried DEF IsBlockchainSynced, SporkChanges, Counters
<1>3. CASE (\E tipFresh \in BOOLEAN : WakeUp(tipFresh)) \/ RpcReset
  <2>1. /\ sync' = ResetState /\ vNodes' = vNodes /\ opened' = opened
        /\ chain' = chain /\ enforced' = enforced /\ waived' = {}
        /\ resets < MaxResets /\ resets' = resets + 1 /\ (synced' = synced \/ synced' \in BOOLEAN)
    BY <1>3 DEF WakeUp, RpcReset
  <2>2. resets' \in 0 .. MaxResets
    BY <1>1, <2>1, ResetsCounted DEF Counters
  <2> QED BY <1>1, <2>1, <2>2, ResetHolds, Carried DEF Counters
<1> QED
  BY <1>2, <1>3

LEMMA AddedItemHolds ==
  ASSUME SyncInv, NEW k \in Kind, NEW i \in Item, AddedItem(k, i)
  PROVE  SyncInv'
<1>1. Counters /\ GoodSync(sync) /\ GoodNodes(vNodes)
  BY SyncParts
<1> DEFINE n == sync.seen[k][i] + 1
           l == [sync.last EXCEPT ![k] = 0]
           e == [sync.seen EXCEPT ![k][i] = n]
<1>2. sync \in Syncs /\ sync.seen[k][i] \in 0 .. Threshold
  BY <1>1 DEF GoodSync, Syncs
<1>3. n \in 0 .. Threshold
  BY <1>2, NumbersHold DEF AddedItem
<1>4. 0 \in Until(Quiet)
  BY NumbersHold DEF Until
<1>5. l \in [Kind -> {Never} \cup Until(Quiet)]
  BY <1>2, <1>4 DEF Syncs
<1>6. sync' = [sync EXCEPT !.last = l, !.seen = e]
  BY DEF AddedItem
<1> HIDE DEF n, l
<1>7. e \in [Kind -> [Item -> 0 .. Threshold]]
  BY <1>2, <1>3 DEF Syncs
<1> HIDE DEF e
<1>8. sync' \in Syncs /\ sync'.last = l /\ sync'.stage = sync.stage
  BY <1>2, <1>5, <1>6, <1>7 DEF Syncs
<1>9. RegtestCounts(sync')
  BY <1>1, <1>8 DEF GoodSync, RegtestCounts, AddedItem
<1> QED
  BY <1>1, <1>8, <1>9, Carried DEF AddedItem, GoodSync, Counters

LEMMA ConnectHolds ==
  ASSUME SyncInv, Connect
  PROVE  SyncInv'
<1>1. Counters /\ GoodSync(sync) /\ GoodNodes(vNodes)
  BY SyncParts
<1> DEFINE node == [fulfilled |-> {}, own |-> {}, twice |-> FALSE]
<1>2. node \in CNode /\ AskedIsMarked(node)
  BY DEF CNode, AskedIsMarked
<1> HIDE DEF node
<1>3. vNodes' = Append(vNodes, node) /\ Len(vNodes) < MaxPeers
  BY DEF Connect, node
<1>4. vNodes \in Seq(CNode) /\ Len(vNodes) \in Nat
  BY <1>1 DEF GoodNodes
<1>5. vNodes' \in Seq(CNode) /\ Len(vNodes') = Len(vNodes) + 1
      /\ DOMAIN vNodes' = 1 .. Len(vNodes) + 1
  BY <1>2, <1>3, <1>4
<1>6. \A j \in 1 .. Len(vNodes) + 1 : vNodes'[j] = IF j <= Len(vNodes) THEN vNodes[j] ELSE node
  BY <1>2, <1>3, <1>4
<1>7. GoodNodes(vNodes')
  BY <1>1, <1>2, <1>3, <1>4, <1>5, <1>6, NumbersHold DEF GoodNodes
<1>8. opened' \in 0 .. MaxConnections
  BY <1>1, NumbersHold DEF Connect, Counters
<1> QED
  BY <1>1, <1>7, <1>8, Carried DEF Connect, Counters

\* The connections behind the one that is closed move up.
LEMMA Removed ==
  ASSUME NEW nodes, GoodNodes(nodes), NEW i \in DOMAIN nodes
  PROVE  LET new == RemoveAt(nodes, i)
         IN  /\ GoodNodes(new) /\ DOMAIN new = 1 .. Len(nodes) - 1
             /\ DOMAIN nodes = 1 .. Len(nodes) /\ Len(nodes) \in Nat
             /\ \A j \in 1 .. Len(nodes) - 1 : new[j] = nodes[IF j < i THEN j ELSE j + 1]
<1> DEFINE before == SubSeq(nodes, 1, i - 1)
           after == SubSeq(nodes, i + 1, Len(nodes))
           new == RemoveAt(nodes, i)
<1>1. nodes \in Seq(CNode) /\ Len(nodes) \in Nat /\ DOMAIN nodes = 1 .. Len(nodes)
  BY LenProperties DEF GoodNodes
<1>2. i \in 1 .. Len(nodes)
  BY <1>1
<1>3. \A j \in 1 .. Len(nodes) : nodes[j] \in CNode
  BY <1>1, ElementOfSeq
<1>4. /\ before \in Seq(CNode) /\ Len(before) = i - 1
      /\ \A j \in 1 .. i - 1 : before[j] = nodes[j]
  <2>1. \A j \in 1 .. i - 1 : nodes[j] \in CNode
    BY <1>2, <1>3
  <2>2. 1 \in Int /\ i - 1 \in Int
    BY <1>2
  <2>3. /\ before \in Seq(CNode)
        /\ Len(before) = IF 1 <= i - 1 THEN (i - 1) - 1 + 1 ELSE 0
        /\ \A j \in 1 .. (i - 1) - 1 + 1 : before[j] = nodes[1 + j - 1]
    BY <2>1, <2>2, SubSeqProperties
  <2> QED BY <1>2, <2>3
<1>5. /\ after \in Seq(CNode) /\ Len(after) = Len(nodes) - i
      /\ \A j \in 1 .. Len(nodes) - i : after[j] = nodes[i + j]
  <2>1. \A j \in i + 1 .. Len(nodes) : nodes[j] \in CNode
    BY <1>2, <1>3
  <2>2. i + 1 \in Int /\ Len(nodes) \in Int
    BY <1>1, <1>2
  <2>3. /\ after \in Seq(CNode)
        /\ Len(after) = IF i + 1 <= Len(nodes) THEN Len(nodes) - (i + 1) + 1 ELSE 0
        /\ \A j \in 1 .. Len(nodes) - (i + 1) + 1 : after[j] = nodes[(i + 1) + j - 1]
    BY <2>1, <2>2, SubSeqProperties
  <2> QED BY <1>1, <1>2, <2>3
<1>6. new = before \o after
  BY DEF RemoveAt
<1> HIDE DEF before, after, new
<1>7. /\ new \in Seq(CNode) /\ Len(new) = Len(before) + Len(after)
      /\ \A j \in 1 .. Len(before) + Len(after) :
            new[j] = IF j <= Len(before) THEN before[j] ELSE after[j - Len(before)]
  BY <1>4, <1>5, <1>6, ConcatProperties
<1>8. DOMAIN new = 1 .. Len(nodes) - 1 /\ Len(new) = Len(nodes) - 1
  BY <1>1, <1>2, <1>4, <1>5, <1>7, LenProperties
<1>9. ASSUME NEW j \in 1 .. Len(nodes) - 1
      PROVE  new[j] = nodes[IF j < i THEN j ELSE j + 1]
  <2>1. CASE j < i
    BY <1>1, <1>2, <1>4, <1>5, <1>7, <2>1
  <2>2. CASE ~(j < i)
    <3>1. j - (i - 1) \in 1 .. Len(nodes) - i /\ i + (j - (i - 1)) = j + 1
      BY <1>1, <1>2, <2>2
    <3>2. j \in 1 .. Len(before) + Len(after) /\ ~(j <= Len(before)) /\ Len(before) = i - 1
      BY <1>1, <1>2, <1>4, <1>5, <2>2
    <3>3. new[j] = after[j - (i - 1)]
      BY <1>7, <3>2, Zenon
    <3> QED BY <1>5, <2>2, <3>1, <3>3
  <2> QED BY <2>1, <2>2
<1>10. \A j \in 1 .. Len(nodes) - 1 : (IF j < i THEN j ELSE j + 1) \in 1 .. Len(nodes)
  BY <1>1, <1>2
<1>11. GoodNodes(new)
  <2>1. \A j \in 1 .. Len(nodes) : AskedIsMarked(nodes[j])
    BY <1>1 DEF GoodNodes
  <2>2. \A j \in DOMAIN new : AskedIsMarked(new[j])
    BY <1>8, <1>9, <1>10, <2>1, Zenon
  <2>3. Len(new) <= MaxPeers
    BY <1>1, <1>8, NumbersHold DEF GoodNodes
  <2> QED BY <1>7, <2>2, <2>3 DEF GoodNodes
<1> QED
  BY <1>1, <1>8, <1>9, <1>11 DEF new

LEMMA DisconnectHolds ==
  ASSUME SyncInv, NEW i \in DOMAIN vNodes, Disconnect(i)
  PROVE  SyncInv'
<1>1. Counters /\ GoodSync(sync) /\ GoodNodes(vNodes)
  BY SyncParts
<1>2. GoodNodes(vNodes')
  BY <1>1, Removed DEF Disconnect
<1> QED
  BY <1>1, <1>2, Carried DEF Disconnect, Counters

LEMMA SyncInitHolds ==
  ASSUME SyncInit
  PROVE  SyncInv
<1>1. Counters
  <2>1. opened \in 0 .. MaxConnections /\ resets \in 0 .. MaxResets
    BY NumbersHold DEF SyncInit
  <2>2. synced \in BOOLEAN
    BY DEF SyncInit
  <2>3. chain \in {"main", "regtest"} /\ enforced \in BOOLEAN /\ waived = {}
    BY DEF SyncInit
  <2> QED BY <2>1, <2>2, <2>3 DEF Counters
<1>2. GoodSync(sync)
  BY ResetHolds DEF SyncInit
<1>3. GoodNodes(vNodes)
  BY NumbersHold DEF SyncInit, GoodNodes
<1> QED
  BY <1>1, <1>2, <1>3, SyncParts

LEMMA SyncStepHolds ==
  ASSUME SyncInv, [SyncNext]_syncVars
  PROVE  SyncInv'
<1>1. CASE ProcessIdle
  BY <1>1, IdleHolds
<1>2. CASE \E lost, cleared, tipFresh, locked \in BOOLEAN :
              ProcessWaits(lost, cleared, tipFresh, locked)
  BY <1>2, WaitsHolds
<1>3. CASE \E lost, cleared, tipFresh \in BOOLEAN : ProcessAsks(lost, cleared, tipFresh)
  BY <1>3, AsksHolds
<1>4. CASE \E lost, cleared, tipFresh \in BOOLEAN : ProcessAfterSleep(lost, cleared, tipFresh)
  BY <1>4, AfterSleepHolds
<1>5. CASE IsBlockchainSynced \/ RpcReset \/ SporkChanges
            \/ (\E tipFresh \in BOOLEAN : WakeUp(tipFresh))
  BY <1>5, ResetStepsHold
<1>6. CASE \E k \in Kind, i \in Item : AddedItem(k, i)
  BY <1>6, AddedItemHolds
<1>7. CASE Connect
  BY <1>7, ConnectHolds
<1>8. CASE \E i \in DOMAIN vNodes : Disconnect(i)
  BY <1>8, DisconnectHolds
<1>9. CASE UNCHANGED syncVars
  <2>1. GoodSync(sync') /\ GoodNodes(vNodes') /\ Counters'
    BY <1>9, SyncParts DEF syncVars, Counters
  <2> QED BY <1>9, <2>1, Carried DEF syncVars
<1> QED
  BY <1>1, <1>2, <1>3, <1>4, <1>5, <1>6, <1>7, <1>8, <1>9 DEF SyncNext

LEMMA SyncInvHolds ==
  SyncSpec => []SyncInv
  BY SyncInitHolds, SyncStepHolds, PTL DEF SyncSpec

(* Type correctness of the stage, the attempts, the time stamps and the    *)
(* connections; in particular no sync makes more attempts than its limits. *)
THEOREM SyncTypeCorrect ==
  SyncSpec => []SyncTypeOK
<1>1. SyncInv => SyncTypeOK
  BY DEF SyncInv
<1> QED
  BY <1>1, SyncInvHolds, PTL

\* A call hears nothing by itself, and leaves a stage for the next one unless it is unheard
\* and payments are enforced.
LEMMA ItemsLeft ==
  ASSUME NEW s, GoodSync(s), NEW nodes, s.stage \in {"LIST", "MNW"}
  PROVE  LET to == AskItems(s, nodes, s.stage).sync
         IN  /\ to.last = s.last
             /\ \/ to.stage = s.stage \/ to.stage = "FAILED"
                \/ /\ to.stage = StageAfter[s.stage]
                   /\ s.last[s.stage] # Never \/ ~enforced
<1> DEFINE r == RequestOf[s.stage]
           free == Unfulfilled(nodes, r)
           asked == [nodes EXCEPT ![Min(free)] = Ask(@, r)]
           marked == [nodes EXCEPT ![Min(free)] = Mark(@, r)]
           left == IF enforced THEN Failed(s) ELSE NextAsset(s)
           more == [s EXCEPT !.attempt = @ + 1]
           result == AskItems(s, nodes, s.stage)
<1>1. \/ result = Outcome(s, nodes) \/ result = Outcome(s, marked)
      \/ Settled(s, s.stage) /\ result = Outcome(NextAsset(s), nodes)
      \/ result = Outcome(left, marked)
      \/ result = Outcome(more, asked)
  BY AskItemsCases
<1>2. s \in Syncs
  BY DEF GoodSync
<1>3. /\ more.stage = s.stage /\ more.last = s.last
      /\ Failed(s).stage = "FAILED" /\ Failed(s).last = s.last
      /\ NextAsset(s).stage = StageAfter[s.stage] /\ NextAsset(s).last = s.last
  BY <1>2 DEF Failed, NextAsset, Syncs
<1>4. IF enforced THEN left = Failed(s) ELSE left = NextAsset(s)
  OBVIOUS
<1>5. Settled(s, s.stage) => s.last[s.stage] # Never
  BY DEF Settled
<1> HIDE DEF left, more, asked, marked, result
<1>6. \/ result.sync = s \/ result.sync = more \/ result.sync = left
      \/ Settled(s, s.stage) /\ result.sync = NextAsset(s)
  BY <1>1, OutcomeFields
<1> QED
  BY <1>3, <1>4, <1>5, <1>6 DEF result

LEMMA CallLeaves ==
  ASSUME NEW s, GoodSync(s), NEW nodes, s.stage \in AtWorkStage, chain = "main"
  PROVE  LET to == AskPeers(s, nodes).sync
         IN  /\ to.last = s.last
             /\ \/ to.stage = s.stage \/ to.stage = "FAILED"
                \/ /\ to.stage = StageAfter[s.stage]
                   /\ s.stage \in {"LIST", "MNW"} => s.last[s.stage] # Never \/ ~enforced
<1>1. s \in Syncs
  BY DEF GoodSync
<1> DEFINE more == [s EXCEPT !.attempt = @ + 1]
           further == [NextAsset(s) EXCEPT !.attempt = @ + 1]
<1>2. /\ more.stage = s.stage /\ more.last = s.last
      /\ NextAsset(s).stage = StageAfter[s.stage] /\ NextAsset(s).last = s.last
      /\ further.stage = StageAfter[s.stage] /\ further.last = s.last
  BY <1>1 DEF NextAsset, Syncs
<1> HIDE DEF more, further
<1>3. CASE s.stage = "SPORKS"
  <2>1. AskPeers(s, nodes) = AskSporks(s, nodes)
    BY <1>3 DEF AskPeers
  <2> DEFINE asked == [nodes EXCEPT ![Min(Unfulfilled(nodes, "getspork"))] = Ask(@, "getspork")]
             result == AskSporks(s, nodes)
  <2>2. result \in {Outcome(s, nodes), Outcome(more, asked), Outcome(further, asked)}
    BY AskSporksCases DEF more, further
  <2> HIDE DEF asked, result
  <2>3. result.sync \in {s, more, further}
    BY <2>2, OutcomeFields
  <2> QED BY <1>2, <1>3, <2>1, <2>3 DEF result
<1>4. CASE s.stage \in {"LIST", "MNW"}
  <2>1. AskPeers(s, nodes) = AskItems(s, nodes, s.stage)
    BY <1>4 DEF AskPeers
  <2> QED BY <1>4, <2>1, ItemsLeft
<1>5. CASE s.stage = "BUDGET"
  <2>1. AskPeers(s, nodes) = AskBudget(s, nodes)
    BY <1>5 DEF AskPeers
  <2> DEFINE first == Min(Unfulfilled(nodes, "busync"))
             asked == [nodes EXCEPT ![first] = Ask(@, "busync")]
             marked == [nodes EXCEPT ![first] = Mark(@, "busync")]
             result == AskBudget(s, nodes)
  <2>2. result \in {Outcome(s, nodes), Outcome(NextAsset(s), nodes), Outcome(s, marked),
                    Outcome(more, asked)}
    BY AskBudgetCases DEF more
  <2> HIDE DEF asked, marked, result
  <2>3. result.sync \in {s, more, NextAsset(s)}
    BY <2>2, OutcomeFields
  <2> QED BY <1>2, <1>5, <2>1, <2>3 DEF result
<1> QED
  BY <1>3, <1>4, <1>5 DEF AtWorkStage

\* What a call of Process begins with: an aged sync, or a new one that has waived nothing.
LEMMA HeardAtWork ==
  ASSUME SyncInv, Heard(sync, waived), NEW lost \in BOOLEAN, NEW s \in AtWork(lost)
  PROVE  Heard(Begun(s), WaivedBefore(s))
<1>1. GoodSync(sync) /\ GoodSync(s)
  BY SyncParts, WorkHolds
<1>2. CASE s.stage = "INITIAL"
  <2>1. Begun(s).stage = "SPORKS"
    BY <1>1, <1>2, NextAssetHolds DEF Begun, StageAfter
  <2> QED BY <2>1 DEF Heard
<1>3. CASE s.stage # "INITIAL"
  <2>1. s = Aged(sync) /\ Begun(s) = s /\ WaivedBefore(s) = waived
    BY <1>3 DEF AtWork, Woken, ResetState, Begun, WaivedBefore
  <2> QED BY <1>1, <2>1, SyncAgedHolds DEF Heard, Kind
<1> QED
  BY <1>2, <1>3

LEMMA HeardStep ==
  ASSUME SyncInv, Heard(sync, waived), [SyncNext]_syncVars
  PROVE  Heard(sync, waived)'
<1>1. GoodSync(sync) /\ chain' = chain
  BY SyncParts DEF SyncNext, syncVars, ProcessIdle, ProcessWaits, ProcessAsks, ProcessAfterSleep,
                   IsBlockchainSynced, SporkChanges, WakeUp, RpcReset, AddedItem, Connect,
                   Disconnect
<1> SUFFICES ASSUME chain = "main"  PROVE Heard(sync', waived')
  BY <1>1 DEF Heard
<1>2. CASE ProcessIdle
  <2>1. sync' = Aged(sync) /\ waived' = waived
    BY <1>2 DEF ProcessIdle
  <2> QED BY <1>1, <2>1, SyncAgedHolds DEF Heard, Kind
<1>3. ASSUME NEW lost \in BOOLEAN, NEW cleared \in BOOLEAN, NEW tipFresh \in BOOLEAN,
             NEW locked \in BOOLEAN, ProcessWaits(lost, cleared, tipFresh, locked)
      PROVE  Heard(sync', waived')
  BY <1>3, HeardAtWork DEF ProcessWaits
<1>4. ASSUME NEW lost \in BOOLEAN, NEW cleared \in BOOLEAN, NEW tipFresh \in BOOLEAN,
             ProcessAsks(lost, cleared, tipFresh)
      PROVE  Heard(sync', waived')
  <2>1. PICK s \in AtWork(lost) :
           /\ sync' = AskPeers(Begun(s), NodesBegun(s, cleared)).sync
           /\ waived' = WaivedBefore(s) \cup Waives(Begun(s), sync')
    BY <1>4 DEF ProcessAsks
  <2> DEFINE b == Begun(s)
             w == WaivedBefore(s)
  <2>2. GoodSync(b) /\ b.stage \in AtWorkStage /\ Heard(b, w)
    BY <1>1, WorkHolds, HeardAtWork
  <2> HIDE DEF b, w
  <2>3. /\ sync'.last = b.last
        /\ \/ sync'.stage = b.stage \/ sync'.stage = "FAILED"
           \/ /\ sync'.stage = StageAfter[b.stage]
              /\ b.stage \in {"LIST", "MNW"} => b.last[b.stage] # Never \/ ~enforced
    BY <2>1, <2>2, CallLeaves DEF b
  <2>4. waived' = w \cup Waives(b, sync')
    BY <2>1 DEF b, w
  <2>5. CASE sync'.stage = b.stage \/ sync'.stage = "FAILED"
    BY <2>2, <2>3, <2>4, <2>5 DEF Heard
  <2>6. CASE /\ sync'.stage = StageAfter[b.stage]
             /\ b.stage \in {"LIST", "MNW"} => b.last[b.stage] # Never \/ ~enforced
    <3>1. b.stage \in {"LIST", "MNW"} => b.last[b.stage] # Never \/ b.stage \in waived'
      BY <2>4, <2>6 DEF Waives
    <3> QED BY <2>2, <2>3, <2>4, <2>6, <3>1 DEF Heard, StageAfter, AtWorkStage
  <2> QED BY <2>3, <2>5, <2>6
<1>5. CASE (\E lost, cleared, tipFresh \in BOOLEAN : ProcessAfterSleep(lost, cleared, tipFresh))
           \/ (\E tipFresh \in BOOLEAN : WakeUp(tipFresh)) \/ RpcReset
  <2>1. sync' = ResetState
    BY <1>5 DEF ProcessAfterSleep, WakeUp, RpcReset
  <2>2. ResetState.stage = "INITIAL"
    BY DEF ResetState
  <2> QED BY <2>1, <2>2 DEF Heard
<1>6. ASSUME NEW k \in Kind, NEW i \in Item, AddedItem(k, i)  PROVE Heard(sync', waived')
  <2>1. /\ sync'.stage = sync.stage /\ waived' = waived
        /\ \A kind \in Kind : sync'.last[kind] = Never => sync.last[kind] = Never
    BY <1>1, <1>6 DEF AddedItem, GoodSync, Syncs, Never
  <2> QED BY <2>1 DEF Heard, Kind
<1>7. CASE IsBlockchainSynced \/ SporkChanges \/ Connect
           \/ (\E i \in DOMAIN vNodes : Disconnect(i)) \/ UNCHANGED syncVars
  BY <1>7 DEF IsBlockchainSynced, SporkChanges, Connect, Disconnect, syncVars
<1> QED
  BY <1>2, <1>3, <1>4, <1>5, <1>6, <1>7 DEF SyncNext

(* Whatever the enforcement spork does in the meantime, no node says its   *)
(* masternode data are complete without a masternode and a payment vote    *)
(* heard since the sync began, unless the very call that gave the stage up *)
(* found payments not enforced (Process leaves LIST and MNW only that way, *)
(* or fails and starts over).                                              *)
THEOREM NeverFinishedUnheard ==
  SyncSpec => []HeardBeforeFinished
<1>1. SyncInit => Heard(sync, waived)
  BY DEF SyncInit, ResetState, Heard
<1>2. Heard(sync, waived) => HeardBeforeFinished
  BY DEF Heard, HeardBeforeFinished
<1> QED
  BY <1>1, <1>2, HeardStep, SyncInvHolds, PTL DEF SyncSpec

(* One sync asks one connection for one thing once, whatever resets, taken *)
(* locks and lost connections come between (HasFulfilledRequest and        *)
(* ClearFulfilledRequest): a peer never counts it as misbehaviour.         *)
THEOREM PeersAreAskedOnce ==
  SyncSpec => []NobodyAskedTwice
<1>1. SyncInv => NobodyAskedTwice
  BY DEF SyncInv, GoodNodes, AskedIsMarked, NobodyAskedTwice
<1> QED
  BY <1>1, SyncInvHolds, PTL

-----------------------------------------------------------------------------
(* The synchronisation, counted: why six silent peers are enough.  A stage *)
(* passes a peer over only when it ends or has made all its attempts, so   *)
(* that before that every flag of its own is a peer asked.                 *)

FlaggedFor(nodes, r) == {i \in DOMAIN nodes : r \in nodes[i].own}

\* What may have been asked for by then.
Early == [SPORKS |-> {"getspork"}, LIST |-> {"getspork", "mnsync"},
          MNW |-> {"getspork", "mnsync", "mnwsync"}, BUDGET |-> Request]

\* A flag for every attempt at most until all are made, and as long as nothing is heard one
\* for every call.
Tally(s, nodes) ==
    s.stage \in AtWorkStage =>
        LET asked == Cardinality(FlaggedFor(nodes, RequestOf[s.stage])) IN
        /\ \A i \in DOMAIN nodes : nodes[i].own \subseteq Early[s.stage]
        /\ asked <= s.attempt \/ s.attempt >= 3 * Threshold
        /\ s.stage = "SPORKS" => s.attempt <= 2
        /\ s.stage \in {"LIST", "MNW"} /\ s.last[s.stage] = Never =>
              asked <= s.started /\ asked <= Patience

\* The same after the time of one more call, which has not asked yet.
Ready(s, nodes) ==
    /\ Tally(s, nodes)
    /\ s.stage \in {"LIST", "MNW"} /\ s.last[s.stage] = Never =>
          Cardinality(FlaggedFor(nodes, RequestOf[s.stage])) < s.started

Tallied == chain = "main" => Tally(sync, vNodes)

(* With six peers that have no flag of an earlier sync, no call of Process *)
(* that gets to the peers is lost: it asks one more of them, or leaves the *)
(* stage, or has heard something and waits for silence.  For want of       *)
(* answers alone the sync never stops.                                     *)
EveryCallCounts ==
    /\ chain = "main" /\ sync.stage \in AtWorkStage
    /\ Cardinality(Usable) >= 3 * Threshold
    /\ \E lost, cleared, tipFresh \in BOOLEAN : ProcessAsks(lost, cleared, tipFresh)
    => \/ sync'.stage # sync.stage
       \/ sync'.attempt = sync.attempt + 1
       \/ /\ sync.stage \in Kind /\ sync.attempt >= Threshold
          /\ sync.last[sync.stage] \in 0 .. Quiet - 1

LEMMA OlderIs ==
  ASSUME NEW limit \in Nat, NEW age \in Until(limit)
  PROVE  Older(age, limit) = IF age <= limit THEN age + 1 ELSE limit + 1
<1> DEFINE a == age + 1
           b == limit + 1
           S == {a, b}
<1>1. age \in Nat /\ age <= limit + 1 /\ a \in Nat /\ b \in Nat /\ a = age + 1 /\ b = limit + 1
      /\ age # Never
  BY DEF Until, Never
<1> HIDE DEF a, b
<1>2. \E x \in S : \A y \in S : x =< y
  BY <1>1
<1>3. Min(S) \in S /\ \A y \in S : Min(S) =< y
  BY <1>2 DEF Min
<1>4. Min(S) = IF age <= limit THEN a ELSE b
  BY <1>1, <1>3
<1> QED
  BY <1>1, <1>4 DEF Older, a, b

LEMMA AskedIsFinite ==
  ASSUME NEW nodes, GoodNodes(nodes), NEW r
  PROVE  /\ DOMAIN nodes = 1 .. Len(nodes) /\ Len(nodes) \in Nat /\ IsFiniteSet(DOMAIN nodes)
         /\ FlaggedFor(nodes, r) \subseteq DOMAIN nodes
         /\ IsFiniteSet(FlaggedFor(nodes, r)) /\ Cardinality(FlaggedFor(nodes, r)) \in Nat
<1>1. DOMAIN nodes = 1 .. Len(nodes) /\ Len(nodes) \in Nat
  BY LenProperties DEF GoodNodes
<1>2. IsFiniteSet(DOMAIN nodes)
  BY <1>1, FS_Interval
<1>3. FlaggedFor(nodes, r) \subseteq DOMAIN nodes
  BY DEF FlaggedFor
<1> QED
  BY <1>1, <1>2, <1>3, FS_Subset, FS_CardinalityType

\* A peer that is asked or passed over gets a flag it did not have.
LEMMA OneMoreFlag ==
  ASSUME NEW nodes, GoodNodes(nodes), NEW r \in Request, Unfulfilled(nodes, r) # {}
  PROVE  LET first == Min(Unfulfilled(nodes, r))
             asked == [nodes EXCEPT ![first] = Ask(@, r)]
             marked == [nodes EXCEPT ![first] = Mark(@, r)]
         IN  /\ DOMAIN asked = DOMAIN nodes /\ DOMAIN marked = DOMAIN nodes
             /\ \A i \in DOMAIN nodes : /\ asked[i].own \subseteq nodes[i].own \cup {r}
                                        /\ marked[i].own \subseteq nodes[i].own \cup {r}
             /\ Cardinality(FlaggedFor(asked, r)) = Cardinality(FlaggedFor(nodes, r)) + 1
<1> DEFINE first == Min(Unfulfilled(nodes, r))
           a == Ask(nodes[first], r)
           m == Mark(nodes[first], r)
<1>1. nodes \in Seq(CNode) /\ DOMAIN nodes = 1 .. Len(nodes) /\ Len(nodes) \in Nat
  BY LenProperties DEF GoodNodes
<1>2. first \in Unfulfilled(nodes, r)
  <2>1. Unfulfilled(nodes, r) \in SUBSET Nat
    BY <1>1 DEF Unfulfilled
  <2> QED BY <2>1, MinIs
<1> HIDE DEF first
<1>3. first \in DOMAIN nodes /\ r \notin nodes[first].fulfilled /\ nodes[first] \in CNode
      /\ nodes[first].own \subseteq nodes[first].fulfilled
  BY <1>1, <1>2, ElementOfSeq DEF Unfulfilled, GoodNodes, AskedIsMarked
<1>4. a.own = nodes[first].own \cup {r} /\ m.own = nodes[first].own \cup {r}
  BY <1>3 DEF Ask, Mark, CNode
<1> HIDE DEF a, m
<1>5. ASSUME NEW node, node.own = nodes[first].own \cup {r},
             NEW new, new = [nodes EXCEPT ![first] = node]
      PROVE  /\ DOMAIN new = DOMAIN nodes
             /\ \A i \in DOMAIN nodes : new[i].own \subseteq nodes[i].own \cup {r}
             /\ Cardinality(FlaggedFor(new, r)) = Cardinality(FlaggedFor(nodes, r)) + 1
  <2>1. /\ DOMAIN new = DOMAIN nodes
        /\ \A i \in DOMAIN nodes : new[i] = IF i = first THEN node ELSE nodes[i]
    BY <1>3, <1>5
  <2>2. first \notin FlaggedFor(nodes, r)
    BY <1>3 DEF FlaggedFor
  <2>3. FlaggedFor(new, r) = FlaggedFor(nodes, r) \cup {first}
    BY <1>3, <1>5, <2>1 DEF FlaggedFor
  <2>4. Cardinality(FlaggedFor(new, r)) = Cardinality(FlaggedFor(nodes, r)) + 1
    BY <2>2, <2>3, AskedIsFinite, FS_AddElement
  <2> QED BY <1>5, <2>1, <2>4
<1> DEFINE asked == [nodes EXCEPT ![first] = a]
           marked == [nodes EXCEPT ![first] = m]
<1>6. /\ DOMAIN asked = DOMAIN nodes
      /\ \A i \in DOMAIN nodes : asked[i].own \subseteq nodes[i].own \cup {r}
      /\ Cardinality(FlaggedFor(asked, r)) = Cardinality(FlaggedFor(nodes, r)) + 1
  <2> HIDE DEF asked
  <2>1. asked = [nodes EXCEPT ![first] = a]
    BY DEF asked
  <2> QED BY <1>4, <1>5, <2>1
<1>7. /\ DOMAIN marked = DOMAIN nodes
      /\ \A i \in DOMAIN nodes : marked[i].own \subseteq nodes[i].own \cup {r}
  <2> HIDE DEF marked
  <2>1. marked = [nodes EXCEPT ![first] = m]
    BY DEF marked
  <2> QED BY <1>4, <1>5, <2>1
<1> HIDE DEF asked, marked
<1> QED
  BY <1>6, <1>7 DEF asked, marked, a, m, first

LEMMA AgedFields ==
  ASSUME NEW s, GoodSync(s)
  PROVE  /\ Aged(s).stage = s.stage /\ Aged(s).attempt = s.attempt
         /\ Aged(s).started = Older(s.started, Patience)
         /\ \A k \in Kind : Aged(s).last[k] = Older(s.last[k], Quiet)
<1>1. s \in Syncs
  BY DEF GoodSync
<1> QED
  BY <1>1 DEF Aged, Syncs

LEMMA AgedTally ==
  ASSUME NEW s, GoodSync(s), NEW nodes, GoodNodes(nodes), Tally(s, nodes)
  PROVE  Ready(Aged(s), nodes)
<1> DEFINE t == Aged(s)
           asked == Cardinality(FlaggedFor(nodes, RequestOf[s.stage]))
<1>1. /\ t.stage = s.stage /\ t.attempt = s.attempt
      /\ t.started = Older(s.started, Patience)
      /\ \A k \in Kind : t.last[k] = Older(s.last[k], Quiet)
  BY AgedFields
<1>2. s.started \in Until(Patience) /\ (\A k \in Kind : s.last[k] \in {Never} \cup Until(Quiet))
      /\ asked \in Nat /\ Patience \in Nat /\ Quiet \in Nat
  BY AskedIsFinite, NumbersHold DEF GoodSync, Syncs
<1> HIDE DEF t, asked
<1>3. t.started = IF s.started <= Patience THEN s.started + 1 ELSE Patience + 1
  BY <1>1, <1>2, OlderIs
<1>4. \A k \in Kind : t.last[k] = Never => s.last[k] = Never
  BY <1>1, <1>2, OlderHolds
<1>5. s.stage \in {"LIST", "MNW"} /\ t.last[s.stage] = Never =>
         asked < t.started /\ asked <= t.started /\ asked <= Patience
  <2> SUFFICES ASSUME s.stage \in {"LIST", "MNW"}, t.last[s.stage] = Never
               PROVE  asked < t.started /\ asked <= t.started /\ asked <= Patience
    OBVIOUS
  <2>1. s.last[s.stage] = Never
    BY <1>4 DEF Kind
  <2>2. asked <= s.started /\ asked <= Patience
    BY <2>1 DEF Tally, AtWorkStage, asked
  <2>3. s.started \in Nat /\ t.started \in Nat
    BY <1>2, <1>3 DEF Until
  <2> QED BY <1>2, <1>3, <2>2, <2>3
<1> QED
  BY <1>1, <1>5 DEF Ready, Tally, asked, t

\* A new sync has asked nobody.
LEMMA BegunTally ==
  ASSUME NEW s, s.stage = "INITIAL", GoodSync(s), GoodNodes(vNodes), NEW cleared \in BOOLEAN
  PROVE  Ready(Begun(s), NodesBegun(s, cleared))
<1> DEFINE new == [i \in DOMAIN vNodes |-> SyncBegins(vNodes[i], cleared)]
<1>1. Begun(s) = NextAsset(s) /\ NodesBegun(s, cleared) = new
  BY DEF Begun, NodesBegun
<1>2. NextAsset(s).stage = "SPORKS" /\ NextAsset(s).attempt = 0
  BY NextAssetHolds DEF StageAfter
<1>3. \A i \in DOMAIN vNodes : vNodes[i] \in CNode
  BY LenProperties, ElementOfSeq DEF GoodNodes
<1>4. \A i \in DOMAIN new : new[i].own = {}
  BY <1>3 DEF SyncBegins, CNode
<1> HIDE DEF new
<1>5. FlaggedFor(new, "getspork") = {}
  BY <1>4 DEF FlaggedFor
<1>6. Cardinality(FlaggedFor(new, "getspork")) = 0
  BY <1>5, FS_EmptySet
<1> QED
  BY <1>1, <1>2, <1>4, <1>6 DEF Ready, Tally, RequestOf

\* What is asked for in the next stage was asked of nobody yet.
LEMMA NextTally ==
  ASSUME NEW s, GoodSync(s), s.stage \in AtWorkStage, NEW nodes, GoodNodes(nodes),
         \A i \in DOMAIN nodes : nodes[i].own \subseteq Early[s.stage],
         NEW t, t.stage = StageAfter[s.stage], t.attempt \in 0 .. 1, t.started = 0
  PROVE  Tally(t, nodes)
<1> SUFFICES ASSUME t.stage \in AtWorkStage  PROVE Tally(t, nodes)
  BY DEF Tally
<1> DEFINE r == RequestOf[t.stage]
<1>1. /\ t.stage \in {"LIST", "MNW", "BUDGET"} /\ Early[s.stage] \subseteq Early[t.stage]
      /\ r \notin Early[s.stage]
  BY DEF StageAfter, AtWorkStage, Early, RequestOf, Request
<1> HIDE DEF r
<1>2. FlaggedFor(nodes, r) = {}
  BY <1>1 DEF FlaggedFor
<1>3. Cardinality(FlaggedFor(nodes, r)) = 0
  BY <1>2, FS_EmptySet
<1> QED
  BY <1>1, <1>3, NumbersHold DEF Tally, r

\* One attempt more, and one peer more that was asked.
LEMMA MoreTally ==
  ASSUME NEW s, GoodSync(s), s.stage \in AtWorkStage, NEW nodes, GoodNodes(nodes), Ready(s, nodes),
         NEW r, r = RequestOf[s.stage], Unfulfilled(nodes, r) # {},
         s.stage = "SPORKS" => s.attempt < 2,
         ~(s.attempt >= 3 * Threshold),
         s.stage \in {"LIST", "MNW"} /\ s.last[s.stage] = Never => s.started <= Patience
  PROVE  Tally([s EXCEPT !.attempt = @ + 1], [nodes EXCEPT ![Min(Unfulfilled(nodes, r))] = Ask(@, r)])
<1> DEFINE a == s.attempt + 1
           more == [s EXCEPT !.attempt = a]
           new == [nodes EXCEPT ![Min(Unfulfilled(nodes, r))] = Ask(@, r)]
           asked == Cardinality(FlaggedFor(nodes, r))
<1>1. s \in Syncs /\ s.attempt \in Nat /\ s.started \in Nat /\ asked \in Nat /\ r \in Request
      /\ r \in Early[s.stage] /\ Patience \in Nat
  BY AskedIsFinite, NumbersHold DEF GoodSync, Syncs, Until, RequestOf, Request, AtWorkStage, Early
<1>2. more.stage = s.stage /\ more.attempt = a /\ more.last = s.last /\ more.started = s.started
  BY <1>1 DEF Syncs
<1>3. /\ DOMAIN new = DOMAIN nodes
      /\ \A i \in DOMAIN nodes : new[i].own \subseteq nodes[i].own \cup {r}
      /\ Cardinality(FlaggedFor(new, r)) = asked + 1
  BY <1>1, OneMoreFlag
<1>4. /\ \A i \in DOMAIN nodes : nodes[i].own \subseteq Early[s.stage]
      /\ asked <= s.attempt
      /\ s.stage \in {"LIST", "MNW"} /\ s.last[s.stage] = Never =>
            asked < s.started /\ asked <= Patience
  BY DEF Ready, Tally
<1> HIDE DEF new, asked
<1>5. \A i \in DOMAIN new : new[i].own \subseteq Early[s.stage]
  BY <1>1, <1>3, <1>4
<1>6. asked + 1 <= a /\ (s.stage = "SPORKS" => a <= 2)
  BY <1>1, <1>4
<1>7. s.stage \in {"LIST", "MNW"} /\ s.last[s.stage] = Never =>
         asked + 1 <= s.started /\ asked + 1 <= Patience
  BY <1>1, <1>4
<1> HIDE DEF a, more
<1>8. Tally(more, new)
  BY <1>2, <1>3, <1>5, <1>6, <1>7 DEF Tally
<1> QED
  BY <1>8 DEF more, new, a

\* When all attempts are made, a peer passed over changes nothing.
LEMMA MarkedTally ==
  ASSUME NEW s, NEW nodes, GoodNodes(nodes), Tally(s, nodes), s.stage \in AtWorkStage,
         s.attempt >= 3 * Threshold,
         s.stage \in {"LIST", "MNW"} => s.last[s.stage] # Never,
         NEW r, r = RequestOf[s.stage], Unfulfilled(nodes, r) # {}
  PROVE  Tally(s, [nodes EXCEPT ![Min(Unfulfilled(nodes, r))] = Mark(@, r)])
<1> DEFINE new == [nodes EXCEPT ![Min(Unfulfilled(nodes, r))] = Mark(@, r)]
<1>1. r \in Request /\ r \in Early[s.stage]
  BY DEF RequestOf, Request, AtWorkStage, Early
<1>2. /\ DOMAIN new = DOMAIN nodes
      /\ \A i \in DOMAIN nodes : new[i].own \subseteq nodes[i].own \cup {r}
  BY <1>1, OneMoreFlag
<1> HIDE DEF new
<1>3. \A i \in DOMAIN new : new[i].own \subseteq Early[s.stage]
  BY <1>1, <1>2 DEF Tally
<1>4. Tally(s, new)
  BY <1>3 DEF Tally
<1> QED
  BY <1>4 DEF new

LEMMA NextFields ==
  ASSUME NEW s, GoodSync(s)
  PROVE  /\ NextAsset(s).stage = StageAfter[s.stage]
         /\ NextAsset(s).attempt = 0 /\ NextAsset(s).started = 0
         /\ [NextAsset(s) EXCEPT !.attempt = @ + 1].stage = StageAfter[s.stage]
         /\ [NextAsset(s) EXCEPT !.attempt = @ + 1].attempt = 1
         /\ [NextAsset(s) EXCEPT !.attempt = @ + 1].started = 0
  BY DEF NextAsset, GoodSync, Syncs

LEMMA AskSporksTally ==
  ASSUME NEW s, GoodSync(s), NEW nodes, GoodNodes(nodes), s.stage = "SPORKS", Ready(s, nodes)
  PROVE  LET o == AskSporks(s, nodes) IN Tally(o.sync, o.nodes)
<1> DEFINE r == "getspork"
           free == Unfulfilled(nodes, r)
           asked == [nodes EXCEPT ![Min(free)] = Ask(@, r)]
           further == [NextAsset(s) EXCEPT !.attempt = @ + 1]
           more == [s EXCEPT !.attempt = @ + 1]
           o == AskSporks(s, nodes)
<1>1. r \in Request /\ r = RequestOf[s.stage] /\ s.stage \in AtWorkStage /\ s.attempt \in Nat
  BY DEF Request, RequestOf, AtWorkStage, GoodSync, Syncs
<1>2. \/ free = {} /\ o = Outcome(s, nodes)
      \/ free # {} /\ s.attempt >= 2 /\ o = Outcome(further, asked)
      \/ free # {} /\ ~(s.attempt >= 2) /\ o = Outcome(more, asked)
  BY AskSporksCases
<1>3. Tally(s, nodes)
  BY DEF Ready
<1>4. ASSUME free # {}  PROVE Tally(further, asked)
  <2>1. GoodNodes(asked)
    BY <1>1, <1>4, PeerHolds
  <2>2. /\ DOMAIN asked = DOMAIN nodes
        /\ \A i \in DOMAIN nodes : asked[i].own \subseteq nodes[i].own \cup {r}
    BY <1>1, <1>4, OneMoreFlag
  <2>3. \A i \in DOMAIN nodes : nodes[i].own \subseteq Early[s.stage]
    BY <1>1, <1>3 DEF Tally
  <2> HIDE DEF asked
  <2>4. \A i \in DOMAIN asked : asked[i].own \subseteq Early[s.stage]
    BY <2>2, <2>3 DEF Early
  <2>5. further.stage = StageAfter[s.stage] /\ further.attempt \in 0 .. 1 /\ further.started = 0
    BY NextFields
  <2> HIDE DEF further
  <2> QED BY <1>1, <2>1, <2>4, <2>5, NextTally
<1>5. ASSUME free # {}, ~(s.attempt >= 2)  PROVE Tally(more, asked)
  <2>1. s.attempt < 2 /\ ~(s.attempt >= 3 * Threshold)
    BY <1>1, <1>5, NumbersHold
  <2> HIDE DEF more, asked, r
  <2>2. r = RequestOf[s.stage] /\ ~(s.stage \in {"LIST", "MNW"})
    BY <1>1
  <2> QED BY <1>1, <1>5, <2>1, <2>2, MoreTally DEF more, asked
<1> HIDE DEF o, further, more, asked
<1> QED
  BY <1>2, <1>3, <1>4, <1>5, OutcomeFields DEF o

LEMMA AskItemsTally ==
  ASSUME NEW s, GoodSync(s), NEW nodes, GoodNodes(nodes), s.stage \in {"LIST", "MNW"},
         Ready(s, nodes)
  PROVE  LET o == AskItems(s, nodes, s.stage) IN Tally(o.sync, o.nodes)
<1> DEFINE r == RequestOf[s.stage]
           free == Unfulfilled(nodes, r)
           asked == [nodes EXCEPT ![Min(free)] = Ask(@, r)]
           marked == [nodes EXCEPT ![Min(free)] = Mark(@, r)]
           more == [s EXCEPT !.attempt = @ + 1]
           left == IF enforced THEN Failed(s) ELSE NextAsset(s)
           o == AskItems(s, nodes, s.stage)
<1>1. r \in Request /\ s.stage \in AtWorkStage /\ s.attempt \in Int /\ 3 * Threshold \in Int
  BY NumbersHold DEF Request, RequestOf, AtWorkStage, GoodSync, Syncs
<1>2. \/ o = Outcome(s, nodes)
      \/ o = Outcome(NextAsset(s), nodes)
      \/ free # {} /\ o = Outcome(left, marked)
      \/ /\ free # {} /\ ~GivenUp(s, s.stage) /\ s.attempt >= 3 * Threshold
         /\ o = Outcome(s, marked)
      \/ /\ free # {} /\ ~GivenUp(s, s.stage) /\ ~(s.attempt >= 3 * Threshold)
         /\ o = Outcome(more, asked)
  BY AskItemsCases
<1>3. Tally(s, nodes) /\ \A i \in DOMAIN nodes : nodes[i].own \subseteq Early[s.stage]
  BY <1>1 DEF Ready, Tally
<1>4. Tally(NextAsset(s), nodes)
  BY <1>1, <1>3, NextFields, NextTally
<1>5. ASSUME free # {}  PROVE Tally(left, marked)
  <2>1. /\ GoodNodes(marked) /\ DOMAIN marked = DOMAIN nodes
        /\ \A i \in DOMAIN nodes : marked[i].own \subseteq nodes[i].own \cup {r}
    BY <1>1, <1>5, PeerHolds, OneMoreFlag
  <2>2. r \in Early[s.stage]
    BY DEF RequestOf, Request, Early
  <2> HIDE DEF marked, r
  <2>3. \A i \in DOMAIN marked : marked[i].own \subseteq Early[s.stage]
    BY <1>3, <2>1, <2>2
  <2>4. Tally(NextAsset(s), marked)
    BY <1>1, <2>1, <2>3, NextFields, NextTally
  <2>5. Tally(Failed(s), marked)
    BY DEF Failed, Tally, AtWorkStage, GoodSync, Syncs
  <2> QED BY <2>4, <2>5
<1>6. ASSUME free # {}, ~GivenUp(s, s.stage), s.attempt >= 3 * Threshold  PROVE Tally(s, marked)
  <2>1. s.last[s.stage] # Never
    BY <1>6 DEF GivenUp
  <2> QED BY <1>1, <1>3, <1>6, <2>1, MarkedTally
<1>7. ASSUME free # {}, ~GivenUp(s, s.stage), ~(s.attempt >= 3 * Threshold)
      PROVE  Tally(more, asked)
  <2>1. s.last[s.stage] = Never => s.started <= Patience
    BY <1>7, NumbersHold DEF GivenUp, GoodSync, Syncs, Until
  <2> QED BY <1>1, <1>7, <2>1, MoreTally
<1> HIDE DEF o, left, more, asked, marked
<1> QED
  BY <1>2, <1>3, <1>4, <1>5, <1>6, <1>7, OutcomeFields DEF o

LEMMA AskBudgetTally ==
  ASSUME NEW s, GoodSync(s), NEW nodes, GoodNodes(nodes), s.stage = "BUDGET", Ready(s, nodes)
  PROVE  LET o == AskBudget(s, nodes) IN Tally(o.sync, o.nodes)
<1> DEFINE r == "busync"
           free == Unfulfilled(nodes, r)
           asked == [nodes EXCEPT ![Min(free)] = Ask(@, r)]
           marked == [nodes EXCEPT ![Min(free)] = Mark(@, r)]
           more == [s EXCEPT !.attempt = @ + 1]
           o == AskBudget(s, nodes)
<1>1. r \in Request /\ r = RequestOf[s.stage] /\ s.stage \in AtWorkStage
  BY DEF Request, RequestOf, AtWorkStage
<1>2. \/ o = Outcome(s, nodes)
      \/ o = Outcome(NextAsset(s), nodes)
      \/ free # {} /\ s.attempt >= 3 * Threshold /\ o = Outcome(s, marked)
      \/ free # {} /\ ~(s.attempt >= 3 * Threshold) /\ o = Outcome(more, asked)
  BY AskBudgetCases
<1>3. Tally(s, nodes)
  BY DEF Ready
<1>4. Tally(NextAsset(s), nodes)
  BY NextFields DEF Tally, StageAfter, AtWorkStage
<1>5. free # {} /\ s.attempt >= 3 * Threshold => Tally(s, marked)
  BY <1>1, <1>3, MarkedTally
<1>6. free # {} /\ ~(s.attempt >= 3 * Threshold) => Tally(more, asked)
  BY <1>1, MoreTally
<1> HIDE DEF o, more, asked, marked
<1> QED
  BY <1>2, <1>3, <1>4, <1>5, <1>6, OutcomeFields DEF o

\* A connection that is lost takes no request from another.
LEMMA RemovedTally ==
  ASSUME NEW s, NEW nodes, GoodNodes(nodes), Tally(s, nodes), GoodSync(s), NEW i \in DOMAIN nodes
  PROVE  Tally(s, RemoveAt(nodes, i))
<1> SUFFICES ASSUME s.stage \in AtWorkStage  PROVE Tally(s, RemoveAt(nodes, i))
  BY DEF Tally
<1> DEFINE new == RemoveAt(nodes, i)
           r == RequestOf[s.stage]
           now == FlaggedFor(new, r)
           before == FlaggedFor(nodes, r)
           from == [j \in now |-> IF j < i THEN j ELSE j + 1]
<1>1. /\ GoodNodes(new) /\ DOMAIN new = 1 .. Len(nodes) - 1
      /\ DOMAIN nodes = 1 .. Len(nodes) /\ Len(nodes) \in Nat
      /\ \A j \in 1 .. Len(nodes) - 1 : new[j] = nodes[IF j < i THEN j ELSE j + 1]
  BY Removed
<1> HIDE DEF new
<1>2. i \in Nat /\ \A j \in now : j \in 1 .. Len(nodes) - 1
  BY <1>1 DEF FlaggedFor
<1>3. \A j \in now : (IF j < i THEN j ELSE j + 1) \in before
  BY <1>1, <1>2 DEF FlaggedFor
<1>4. from \in Injection(now, before)
  <2>1. \A j, k \in now : from[j] = from[k] => j = k
    BY <1>2
  <2>2. from \in [now -> before]
    BY <1>3
  <2> HIDE DEF from
  <2> QED BY <2>1, <2>2 DEF Injection, IsInjective
<1> HIDE DEF from
<1>5. Cardinality(now) <= Cardinality(before)
  BY <1>4, FS_Injection, AskedIsFinite
<1>6. Cardinality(now) \in Nat /\ Cardinality(before) \in Nat
  BY <1>1, AskedIsFinite
<1>7. \A j \in DOMAIN new : new[j].own \subseteq Early[s.stage]
  <2>1. \A j \in DOMAIN nodes : nodes[j].own \subseteq Early[s.stage]
    BY DEF Tally
  <2>2. \A j \in DOMAIN new : (IF j < i THEN j ELSE j + 1) \in DOMAIN nodes
    BY <1>1, <1>2
  <2> QED BY <1>1, <2>1, <2>2
<1> DEFINE b == Cardinality(before)
           n == Cardinality(now)
<1>8. /\ b <= s.attempt \/ s.attempt >= 3 * Threshold
      /\ (s.stage = "SPORKS" => s.attempt <= 2)
      /\ s.stage \in {"LIST", "MNW"} /\ s.last[s.stage] = Never =>
            b <= s.started /\ b <= Patience
  BY DEF Tally
<1>9. s.attempt \in Nat /\ s.started \in Nat /\ Patience \in Nat
  BY NumbersHold DEF GoodSync, Syncs, Until
<1>10. n <= b /\ n \in Nat /\ b \in Nat
  BY <1>5, <1>6
<1> HIDE DEF b
<1>11. /\ n <= s.attempt \/ s.attempt >= 3 * Threshold
       /\ (s.stage \in {"LIST", "MNW"} /\ s.last[s.stage] = Never =>
            n <= s.started /\ n <= Patience)
  BY <1>8, <1>9, <1>10
<1>12. Tally(s, new)
  BY <1>7, <1>8, <1>11 DEF Tally
<1> QED
  BY <1>12 DEF new

\* A new connection was asked for nothing.
LEMMA AppendedTally ==
  ASSUME NEW s, NEW nodes, GoodNodes(nodes), Tally(s, nodes),
         NEW node \in CNode, node.own = {}
  PROVE  Tally(s, Append(nodes, node))
<1> DEFINE new == Append(nodes, node)
<1>1. nodes \in Seq(CNode) /\ DOMAIN nodes = 1 .. Len(nodes) /\ Len(nodes) \in Nat
  BY LenProperties DEF GoodNodes
<1>2. /\ DOMAIN new = 1 .. Len(nodes) + 1
      /\ \A j \in 1 .. Len(nodes) + 1 : new[j] = IF j <= Len(nodes) THEN nodes[j] ELSE node
  BY <1>1
<1> HIDE DEF new
<1>3. \A r : FlaggedFor(new, r) = FlaggedFor(nodes, r)
  BY <1>1, <1>2 DEF FlaggedFor
<1>4. s.stage \in AtWorkStage => \A j \in DOMAIN new : new[j].own \subseteq Early[s.stage]
  BY <1>1, <1>2 DEF Tally
<1>5. Tally(s, new)
  BY <1>3, <1>4 DEF Tally
<1> QED
  BY <1>5 DEF new

\* A call goes on from a new sync, or from what the last one left, five seconds later.
LEMMA WorkTally ==
  ASSUME SyncInv, Tally(sync, vNodes), NEW lost \in BOOLEAN, NEW s \in AtWork(lost),
         NEW cleared \in BOOLEAN
  PROVE  Ready(Begun(s), NodesBegun(s, cleared))
<1>1. GoodSync(sync) /\ GoodNodes(vNodes)
  BY SyncParts
<1>2. GoodSync(s)
  BY <1>1, WorkHolds
<1>3. CASE s.stage = "INITIAL"
  BY <1>1, <1>2, <1>3, BegunTally
<1>4. CASE s.stage # "INITIAL"
  <2>1. s = Aged(sync)
    BY <1>4 DEF AtWork, Woken, ResetState
  <2>2. Begun(s) = s /\ NodesBegun(s, cleared) = vNodes
    BY <1>4 DEF Begun, NodesBegun
  <2> QED BY <1>1, <2>1, <2>2, AgedTally
<1> QED
  BY <1>3, <1>4

LEMMA AskPeersTally ==
  ASSUME NEW s, GoodSync(s), NEW nodes, GoodNodes(nodes), s.stage \in AtWorkStage,
         Ready(s, nodes), chain = "main"
  PROVE  LET o == AskPeers(s, nodes) IN Tally(o.sync, o.nodes)
<1>1. CASE s.stage = "SPORKS"
  <2>1. AskPeers(s, nodes) = AskSporks(s, nodes)
    BY <1>1 DEF AskPeers
  <2> QED BY <1>1, <2>1, AskSporksTally
<1>2. CASE s.stage \in {"LIST", "MNW"}
  <2>1. AskPeers(s, nodes) = AskItems(s, nodes, s.stage)
    BY <1>2 DEF AskPeers
  <2> QED BY <1>2, <2>1, AskItemsTally
<1>3. CASE s.stage = "BUDGET"
  <2>1. AskPeers(s, nodes) = AskBudget(s, nodes)
    BY <1>3 DEF AskPeers
  <2> QED BY <1>3, <2>1, AskBudgetTally
<1> QED
  BY <1>1, <1>2, <1>3 DEF AtWorkStage

LEMMA TalliedStep ==
  ASSUME SyncInv, Tallied, [SyncNext]_syncVars
  PROVE  Tallied'
<1>1. GoodSync(sync) /\ GoodNodes(vNodes) /\ chain' = chain
  BY SyncParts DEF SyncNext, syncVars, ProcessIdle, ProcessWaits, ProcessAsks, ProcessAfterSleep,
                   IsBlockchainSynced, SporkChanges, WakeUp, RpcReset, AddedItem, Connect,
                   Disconnect
<1> SUFFICES ASSUME chain = "main"  PROVE Tally(sync', vNodes')
  BY <1>1 DEF Tallied, Tally, FlaggedFor
<1>2. Tally(sync, vNodes)
  BY DEF Tallied
<1>3. CASE ProcessIdle
  <2>1. sync' = Aged(sync) /\ vNodes' = vNodes
    BY <1>3 DEF ProcessIdle
  <2> QED BY <1>1, <1>2, <2>1, AgedTally DEF Ready
<1>4. ASSUME NEW lost \in BOOLEAN, NEW cleared \in BOOLEAN, NEW tipFresh \in BOOLEAN,
             NEW locked \in BOOLEAN, ProcessWaits(lost, cleared, tipFresh, locked)
      PROVE  Tally(sync', vNodes')
  <2>1. PICK s \in AtWork(lost) : sync' = Begun(s) /\ vNodes' = NodesBegun(s, cleared)
    BY <1>4 DEF ProcessWaits
  <2> QED BY <1>2, <2>1, WorkTally DEF Ready
<1>5. ASSUME NEW lost \in BOOLEAN, NEW cleared \in BOOLEAN, NEW tipFresh \in BOOLEAN,
             ProcessAsks(lost, cleared, tipFresh)
      PROVE  Tally(sync', vNodes')
  <2>1. PICK s \in AtWork(lost) :
           /\ sync' = AskPeers(Begun(s), NodesBegun(s, cleared)).sync
           /\ vNodes' = AskPeers(Begun(s), NodesBegun(s, cleared)).nodes
    BY <1>5 DEF ProcessAsks
  <2>2. GoodSync(Begun(s)) /\ Begun(s).stage \in AtWorkStage
        /\ GoodNodes(NodesBegun(s, cleared)) /\ Ready(Begun(s), NodesBegun(s, cleared))
    BY <1>1, <1>2, WorkHolds, NodesBegunHolds, WorkTally
  <2> QED BY <2>1, <2>2, AskPeersTally
<1>6. CASE (\E lost, cleared, tipFresh \in BOOLEAN : ProcessAfterSleep(lost, cleared, tipFresh))
           \/ (\E tipFresh \in BOOLEAN : WakeUp(tipFresh)) \/ RpcReset
  <2>1. sync' = ResetState
    BY <1>6 DEF ProcessAfterSleep, WakeUp, RpcReset
  <2>2. ResetState.stage = "INITIAL"
    BY DEF ResetState
  <2> QED BY <2>1, <2>2 DEF Tally, AtWorkStage
<1>7. CASE IsBlockchainSynced \/ SporkChanges \/ UNCHANGED syncVars
  BY <1>2, <1>7 DEF IsBlockchainSynced, SporkChanges, syncVars
<1>8. ASSUME NEW k \in Kind, NEW i \in Item, AddedItem(k, i)  PROVE Tally(sync', vNodes')
  <2>1. /\ sync'.stage = sync.stage /\ sync'.attempt = sync.attempt
        /\ sync'.started = sync.started /\ vNodes' = vNodes
        /\ \A kind \in Kind : sync'.last[kind] = Never => sync.last[kind] = Never
    BY <1>1, <1>8 DEF AddedItem, GoodSync, Syncs, Never
  <2> QED BY <1>2, <2>1 DEF Tally, Kind
<1>9. CASE Connect
  <2> DEFINE node == [fulfilled |-> {}, own |-> {}, twice |-> FALSE]
  <2>1. sync' = sync /\ vNodes' = Append(vNodes, node)
    BY <1>9 DEF Connect
  <2>2. node \in CNode /\ node.own = {}
    BY DEF CNode
  <2> HIDE DEF node
  <2> QED BY <1>1, <1>2, <2>1, <2>2, AppendedTally
<1>10. ASSUME NEW i \in DOMAIN vNodes, Disconnect(i)  PROVE Tally(sync', vNodes')
  BY <1>1, <1>2, <1>10, RemovedTally DEF Disconnect
<1> QED
  BY <1>3, <1>4, <1>5, <1>6, <1>7, <1>8, <1>9, <1>10 DEF SyncNext

\* Six peers without flags of an earlier sync, none of them left to ask: all six were asked.
LEMMA AllWereAsked ==
  ASSUME GoodNodes(vNodes), Cardinality(Usable) >= 3 * Threshold,
         NEW r, Unfulfilled(vNodes, r) = {}
  PROVE  Cardinality(FlaggedFor(vNodes, r)) >= 3 * Threshold
<1>1. Usable \subseteq FlaggedFor(vNodes, r)
  BY DEF Usable, Unfulfilled, FlaggedFor
<1>2. Cardinality(Usable) <= Cardinality(FlaggedFor(vNodes, r)) /\ IsFiniteSet(Usable)
  BY <1>1, AskedIsFinite, FS_Subset
<1>3. Cardinality(Usable) \in Nat /\ Cardinality(FlaggedFor(vNodes, r)) \in Nat
  BY <1>2, AskedIsFinite, FS_CardinalityType
<1> QED
  BY <1>2, <1>3, NumbersHold

\* A time stamp that is not past the limit after five seconds was not before.
LEMMA NotOldYet ==
  ASSUME GoodSync(sync), NEW k \in Kind, Aged(sync).last[k] # Never, ~(Aged(sync).last[k] > Quiet)
  PROVE  sync.last[k] \in 0 .. Quiet - 1
<1>1. Aged(sync).last[k] = Older(sync.last[k], Quiet) /\ Quiet \in Nat
      /\ sync.last[k] \in {Never} \cup Until(Quiet)
  BY AgedFields, NumbersHold DEF GoodSync, Syncs
<1>2. sync.last[k] \in Until(Quiet)
  BY <1>1, OlderHolds
<1>3. Older(sync.last[k], Quiet) = IF sync.last[k] <= Quiet THEN sync.last[k] + 1 ELSE Quiet + 1
  BY <1>1, <1>2, OlderIs
<1> QED
  BY <1>1, <1>2, <1>3 DEF Until

\* What a call makes of the sync, by the stage it finds.
LEMMA SporksCall ==
  ASSUME NEW s, NEW nodes, Unfulfilled(nodes, "getspork") # {}
  PROVE  LET to == AskSporks(s, nodes).sync
         IN  to = [NextAsset(s) EXCEPT !.attempt = @ + 1] \/ to = [s EXCEPT !.attempt = @ + 1]
<1> DEFINE asked == [nodes EXCEPT ![Min(Unfulfilled(nodes, "getspork"))] = Ask(@, "getspork")]
           further == [NextAsset(s) EXCEPT !.attempt = @ + 1]
           more == [s EXCEPT !.attempt = @ + 1]
           result == AskSporks(s, nodes)
<1>1. result = Outcome(further, asked) \/ result = Outcome(more, asked)
  BY AskSporksCases
<1> HIDE DEF asked, further, more, result
<1>2. result.sync = further \/ result.sync = more
  BY <1>1, OutcomeFields
<1> QED
  BY <1>2 DEF further, more, result

LEMMA ItemsCall ==
  ASSUME NEW s, NEW nodes, nodes # <<>>
  PROVE  LET to == AskItems(s, nodes, s.stage).sync
         IN  \/ to = NextAsset(s) \/ to = Failed(s) \/ to = [s EXCEPT !.attempt = @ + 1]
             \/ ~Settled(s, s.stage) /\ Unfulfilled(nodes, RequestOf[s.stage]) = {}
             \/ ~Settled(s, s.stage) /\ ~GivenUp(s, s.stage) /\ s.attempt >= 3 * Threshold
<1> DEFINE r == RequestOf[s.stage]
           free == Unfulfilled(nodes, r)
           asked == [nodes EXCEPT ![Min(free)] = Ask(@, r)]
           marked == [nodes EXCEPT ![Min(free)] = Mark(@, r)]
           left == IF enforced THEN Failed(s) ELSE NextAsset(s)
           more == [s EXCEPT !.attempt = @ + 1]
           result == AskItems(s, nodes, s.stage)
<1>1. \/ result = Outcome(NextAsset(s), nodes) \/ result = Outcome(left, marked)
      \/ result = Outcome(more, asked)
      \/ ~Settled(s, s.stage) /\ free = {}
      \/ ~Settled(s, s.stage) /\ ~GivenUp(s, s.stage) /\ s.attempt >= 3 * Threshold
  BY AskItemsCases
<1>2. left = Failed(s) \/ left = NextAsset(s)
  OBVIOUS
<1> HIDE DEF asked, marked, left, more, result, free
<1>3. \/ result.sync = NextAsset(s) \/ result.sync = Failed(s) \/ result.sync = more
      \/ ~Settled(s, s.stage) /\ free = {}
      \/ ~Settled(s, s.stage) /\ ~GivenUp(s, s.stage) /\ s.attempt >= 3 * Threshold
  BY <1>1, <1>2, OutcomeFields
<1> QED
  BY <1>3 DEF more, result, free

LEMMA BudgetCall ==
  ASSUME NEW s, NEW nodes, nodes # <<>>
  PROVE  LET to == AskBudget(s, nodes).sync
         IN  \/ to = NextAsset(s) \/ to = [s EXCEPT !.attempt = @ + 1]
             \/ /\ ~Settled(s, "BUDGET") /\ ~GivenUp(s, "BUDGET")
                /\ Unfulfilled(nodes, "busync") = {} \/ s.attempt >= 3 * Threshold
<1> DEFINE free == Unfulfilled(nodes, "busync")
           asked == [nodes EXCEPT ![Min(free)] = Ask(@, "busync")]
           more == [s EXCEPT !.attempt = @ + 1]
           result == AskBudget(s, nodes)
<1>1. \/ result = Outcome(NextAsset(s), nodes) \/ result = Outcome(more, asked)
      \/ /\ ~Settled(s, "BUDGET") /\ ~GivenUp(s, "BUDGET")
         /\ free = {} \/ s.attempt >= 3 * Threshold
  BY AskBudgetCases
<1> HIDE DEF asked, more, result, free
<1>2. \/ result.sync = NextAsset(s) \/ result.sync = more
      \/ /\ ~Settled(s, "BUDGET") /\ ~GivenUp(s, "BUDGET")
         /\ free = {} \/ s.attempt >= 3 * Threshold
  BY <1>1, OutcomeFields
<1> QED
  BY <1>2 DEF more, result, free

LEMMA CallCounts ==
  ASSUME Patience < 3 * Threshold, SyncInv, Tallied, [SyncNext]_syncVars
  PROVE  EveryCallCounts
<1> DEFINE s == Aged(sync)
           T == 3 * Threshold
           Goes == \/ sync'.stage # sync.stage
                   \/ sync'.attempt = sync.attempt + 1
                   \/ /\ sync.stage \in Kind /\ sync.attempt >= Threshold
                      /\ sync.last[sync.stage] \in 0 .. Quiet - 1
<1> SUFFICES ASSUME chain = "main", sync.stage \in AtWorkStage, Cardinality(Usable) >= T,
                    NEW lost \in BOOLEAN, NEW cleared \in BOOLEAN, NEW tipFresh \in BOOLEAN,
                    ProcessAsks(lost, cleared, tipFresh)
             PROVE  Goes
  BY DEF EveryCallCounts
<1>1. GoodSync(sync) /\ GoodNodes(vNodes) /\ Tally(sync, vNodes) /\ sync.attempt \in Nat
      /\ T \in Nat /\ Threshold \in Nat \ {0} /\ Patience \in Nat
  BY SyncParts, NumbersHold DEF Tallied, GoodSync, Syncs
<1>2. /\ GoodSync(s) /\ s.stage = sync.stage /\ s.attempt = sync.attempt
      /\ StageAfter[s.stage] # s.stage
  BY <1>1, SyncAgedHolds, AgedFields DEF StageAfter, AtWorkStage
<1>3. sync' = AskPeers(s, vNodes).sync
  <2>1. \A work \in AtWork(lost) : work = s /\ Begun(work) = s
                                   /\ NodesBegun(work, cleared) = vNodes
    BY <1>2 DEF AtWork, Woken, AtWorkStage, Begun, NodesBegun
  <2> QED BY <2>1 DEF ProcessAsks
<1> DEFINE r == RequestOf[s.stage]
           free == Unfulfilled(vNodes, r)
           count == Cardinality(FlaggedFor(vNodes, r))
           more == [s EXCEPT !.attempt = @ + 1]
<1>4. more.attempt = sync.attempt + 1
  BY <1>2 DEF GoodSync, Syncs
<1>5. NextAsset(s).stage # sync.stage /\ [NextAsset(s) EXCEPT !.attempt = @ + 1].stage # sync.stage
      /\ Failed(s).stage # sync.stage
  BY <1>2, NextFields DEF Failed, AtWorkStage, GoodSync, Syncs
<1>6. free = {} => count >= T
  BY <1>1, AllWereAsked
<1>7. count \in Nat /\ (count <= sync.attempt \/ sync.attempt >= T)
      /\ (s.stage = "SPORKS" => sync.attempt <= 2)
      /\ (s.stage \in {"LIST", "MNW"} /\ sync.last[s.stage] = Never => count <= Patience)
  BY <1>1, <1>2, AskedIsFinite DEF Tally
<1>8. vNodes # <<>>
  <2>1. vNodes = <<>> => Usable = {}
    BY DEF Usable
  <2>2. Cardinality({}) = 0
    BY FS_EmptySet
  <2>3. T > 0 /\ T \in Int
    BY <1>1
  <2> HIDE DEF T
  <2>4. Cardinality(Usable) # 0
    BY <2>3
  <2> QED BY <2>1, <2>2, <2>4
<1>9. ASSUME sync.stage \in Kind, s.last[s.stage] # Never, ~Settled(s, s.stage),
             sync.attempt >= T
      PROVE  Goes
  <2>1. sync.attempt >= Threshold
    BY <1>1, <1>9
  <2>2. ~(s.last[s.stage] > Quiet)
    BY <1>2, <1>9, <2>1 DEF Settled
  <2> QED BY <1>1, <1>2, <1>9, <2>1, <2>2, NotOldYet
<1> HIDE DEF more, count, free, T
<1>10. ASSUME s.stage \in {"LIST", "MNW"}, s.last[s.stage] = Never  PROVE sync.last[s.stage] = Never
  <2>1. s.stage \in Kind /\ s.last[s.stage] = Older(sync.last[s.stage], Quiet)
    BY <1>1, <1>10, AgedFields DEF Kind
  <2>2. sync.last[s.stage] \in {Never} \cup Until(Quiet) /\ Quiet \in Nat
    BY <1>1, <2>1, NumbersHold DEF GoodSync, Syncs
  <2> QED BY <1>10, <2>1, <2>2, OlderHolds
<1>11. CASE s.stage = "SPORKS"
  <2>1. AskPeers(s, vNodes) = AskSporks(s, vNodes)
    BY <1>11 DEF AskPeers
  <2>2. free # {}
    BY <1>1, <1>6, <1>7, <1>11 DEF T
  <2>3. sync' = [NextAsset(s) EXCEPT !.attempt = @ + 1] \/ sync' = more
    BY <1>3, <1>11, <2>1, <2>2, SporksCall DEF free, more, RequestOf
  <2> QED BY <1>4, <1>5, <2>3
<1>12. CASE s.stage \in {"LIST", "MNW"}
  <2>1. AskPeers(s, vNodes) = AskItems(s, vNodes, s.stage)
    BY <1>12 DEF AskPeers
  <2>2. \/ sync' = NextAsset(s) \/ sync' = Failed(s) \/ sync' = more
        \/ ~Settled(s, s.stage) /\ free = {}
        \/ ~Settled(s, s.stage) /\ ~GivenUp(s, s.stage) /\ s.attempt >= T
    BY <1>3, <1>8, <2>1, ItemsCall DEF free, more, T
  <2>3. CASE ~Settled(s, s.stage) /\ free = {}
    <3>1. sync.attempt >= T
      BY <1>1, <1>6, <1>7, <2>3
    <3>2. s.last[s.stage] # Never
      BY <1>1, <1>6, <1>7, <1>10, <1>12, <2>3 DEF T
    <3> QED BY <1>2, <1>9, <1>12, <2>3, <3>1, <3>2 DEF Kind
  <2>4. CASE ~Settled(s, s.stage) /\ ~GivenUp(s, s.stage) /\ s.attempt >= T
    <3>1. s.last[s.stage] # Never
      BY <2>4 DEF GivenUp, T
    <3> QED BY <1>2, <1>9, <1>12, <2>4, <3>1 DEF Kind
  <2> QED BY <1>4, <1>5, <2>2, <2>3, <2>4
<1>13. CASE s.stage = "BUDGET"
  <2>1. AskPeers(s, vNodes) = AskBudget(s, vNodes)
    BY <1>13 DEF AskPeers
  <2>2. \/ sync' = NextAsset(s) \/ sync' = more
        \/ /\ ~Settled(s, s.stage) /\ ~GivenUp(s, s.stage)
           /\ free = {} \/ s.attempt >= T
    BY <1>3, <1>8, <1>13, <2>1, BudgetCall DEF free, more, T, RequestOf
  <2>3. CASE /\ ~Settled(s, s.stage) /\ ~GivenUp(s, s.stage)
             /\ free = {} \/ s.attempt >= T
    <3>1. sync.attempt >= T
      BY <1>1, <1>2, <1>6, <1>7, <2>3
    <3>2. s.last[s.stage] # Never
      BY <1>2, <2>3, <3>1 DEF GivenUp, T
    <3> QED BY <1>2, <1>9, <1>13, <2>3, <3>1, <3>2 DEF Kind
  <2> QED BY <1>4, <1>5, <2>2, <2>3
<1> QED
  BY <1>2, <1>11, <1>12, <1>13 DEF AtWorkStage

(* What SyncEnds rests on: with peers enough, no call that gets to them is *)
(* lost.  The five calls a stage waits for its first answer are fewer than *)
(* the six peers, so that the time is over before the peers are: Process   *)
(* tests the time only when it has a peer left to ask.                     *)
THEOREM NoCallIsLost ==
  Patience < 3 * Threshold /\ SyncSpec => [][EveryCallCounts]_syncVars
<1>1. SyncInit => Tallied
  BY DEF SyncInit, ResetState, Tallied, Tally, AtWorkStage
<1>2. SyncSpec => []Tallied
  BY <1>1, TalliedStep, SyncInvHolds, PTL DEF SyncSpec
<1>3. CASE Patience < 3 * Threshold
  <2>1. SyncInv /\ Tallied /\ [SyncNext]_syncVars => [EveryCallCounts]_syncVars
    BY <1>3, CallCounts
  <2> QED BY <1>2, <2>1, SyncInvHolds, PTL DEF SyncSpec
<1>4. CASE ~(Patience < 3 * Threshold)
  BY <1>4, PTL
<1> QED
  BY <1>3, <1>4

-----------------------------------------------------------------------------
(* The list: each operator keeps a list well formed and within the         *)
(* broadcasts signed so far, in memory and in the dump it is read from.    *)


\* What a node holds is of broadcasts 1 .. k.
UpTo(m, k) ==
    /\ \A b \in Broadcast : m.seen[b] # None => b <= k
    /\ m.entry # None => m.entry.b <= k

GoodMan(m, k) == m \in ManType /\ UpTo(m, k)

\* The same, with an entry.
Filled(m, k) == GoodMan(m, k) /\ m.entry \in EntryType /\ m.entry.b <= k

\* What a dump holds was signed as well.
ListInv == ListTypeOK /\ \A n \in Node : UpTo(disk[n], made)

-----------------------------------------------------------------------------
(* Lists and entries. *)

LEMMA AgesHold ==
  /\ Self \in Node /\ Gap \in Nat /\ Window \in Nat /\ Expiration \in Nat /\ Removal \in Nat
  /\ 0 < Gap /\ Gap <= Window /\ Window < Expiration /\ Expiration < Removal
  /\ Forgotten \in Nat /\ Removal < Forgotten /\ AskAgain \in Nat \ {0}
  /\ MaxBroadcasts \in Nat /\ MaxRare \in Nat
  BY MasternodeListAssumption

LEMMA EmptyHolds ==
  \A k \in Nat : GoodMan(EmptyMan, k)
<1>1. [b \in Broadcast |-> None] \in [Broadcast -> (0 .. Forgotten + 1) \cup {None}]
  OBVIOUS
<1>2. 0 \in 0 .. AskAgain
  BY AgesHold
<1>3. /\ EmptyMan \in ManType /\ EmptyMan.entry = None
      /\ \A b \in Broadcast : EmptyMan.seen[b] = None
  BY <1>1, <1>2 DEF EmptyMan, ManType
<1> QED
  BY <1>3 DEF GoodMan, UpTo

LEMMA LaterHolds ==
  ASSUME NEW m, NEW k \in Nat, NEW l \in Nat, k <= l, GoodMan(m, k)
  PROVE  GoodMan(m, l)
<1>1. m \in ManType /\ UpTo(m, k)
  BY DEF GoodMan
<1>2. m.entry # None => m.entry.b \in Broadcast
  BY <1>1 DEF ManType, EntryType
<1>3. Broadcast \subseteq Nat
  BY AgesHold DEF Broadcast
<1>4. \A b \in Nat : b <= k => b <= l
  OBVIOUS
<1>5. ASSUME NEW b \in Broadcast, m.seen[b] # None  PROVE b <= l
  BY <1>1, <1>3, <1>4, <1>5 DEF UpTo
<1>6. ASSUME m.entry # None  PROVE m.entry.b <= l
  BY <1>1, <1>2, <1>3, <1>4, <1>6 DEF UpTo
<1>7. UpTo(m, l)
  BY <1>5, <1>6 DEF UpTo
<1> QED
  BY <1>1, <1>7 DEF GoodMan

LEMMA EntriesHold ==
  /\ \A e \in EntryType : Check(e) \in EntryType /\ Check(e).b = e.b
  /\ \A b \in Broadcast, age \in 0 .. Forgotten + 1 :
        NewEntry(b, age) \in EntryType /\ NewEntry(b, age).b = b
<1>1. ASSUME NEW e \in EntryType
      PROVE  Check(e) \in EntryType /\ Check(e).b = e.b
  BY DEF EntryType, Check
<1>2. ASSUME NEW b \in Broadcast, NEW age \in 0 .. Forgotten + 1
      PROVE  NewEntry(b, age) \in EntryType /\ NewEntry(b, age).b = b
  BY AgesHold DEF EntryType, NewEntry
<1> QED
  BY <1>1, <1>2

LEMMA WithEntry ==
  ASSUME NEW m, NEW k, GoodMan(m, k), NEW e \in EntryType, e.b <= k
  PROVE  Filled([m EXCEPT !.entry = e], k)
<1> DEFINE new == [m EXCEPT !.entry = e]
<1>1. new \in ManType /\ new.entry = e /\ new.seen = m.seen
  BY DEF GoodMan, ManType
<1> HIDE DEF new
<1>2. Filled(new, k)
  BY <1>1 DEF GoodMan, Filled, UpTo
<1> QED
  BY <1>2 DEF new

LEMMA WithoutEntry ==
  ASSUME NEW m, NEW k, GoodMan(m, k)
  PROVE  GoodMan([m EXCEPT !.entry = None], k)
<1> DEFINE new == [m EXCEPT !.entry = None]
<1>1. new \in ManType /\ new.entry = None /\ new.seen = m.seen
  BY DEF GoodMan, ManType
<1> HIDE DEF new
<1>2. GoodMan(new, k)
  BY <1>1 DEF GoodMan, UpTo
<1> QED
  BY <1>2 DEF new

LEMMA WithSeen ==
  ASSUME NEW m, NEW k, GoodMan(m, k), NEW b \in Broadcast,
         NEW age \in (0 .. Forgotten + 1) \cup {None},
         age # None => b <= k
  PROVE  /\ GoodMan([m EXCEPT !.seen[b] = age], k)
         /\ [m EXCEPT !.seen[b] = age].entry = m.entry
         /\ [m EXCEPT !.seen[b] = age].pings = m.pings
<1> DEFINE s == [m.seen EXCEPT ![b] = age]
           new == [m EXCEPT !.seen = s]
<1>1. s \in [Broadcast -> (0 .. Forgotten + 1) \cup {None}]
  BY DEF GoodMan, ManType
<1>2. \A c \in Broadcast : s[c] # None => c <= k
  BY DEF GoodMan, ManType, UpTo
<1> HIDE DEF s
<1>3. new \in ManType /\ new.entry = m.entry /\ new.seen = s /\ new.pings = m.pings
  BY <1>1 DEF GoodMan, ManType
<1>4. [m EXCEPT !.seen[b] = age] = new
  BY DEF s
<1> HIDE DEF new
<1>5. GoodMan(new, k)
  BY <1>2, <1>3 DEF GoodMan, UpTo
<1> QED
  BY <1>3, <1>4, <1>5

LEMMA WithPing ==
  ASSUME NEW m, NEW k, GoodMan(m, k), NEW age \in 0 .. Window - 1
  PROVE  /\ GoodMan([m EXCEPT !.pings = @ \cup {age}], k)
         /\ [m EXCEPT !.pings = @ \cup {age}].entry = m.entry
<1> DEFINE p == m.pings \cup {age}
           new == [m EXCEPT !.pings = p]
<1>1. p \in SUBSET (0 .. Window - 1)
  BY DEF GoodMan, ManType
<1> HIDE DEF p
<1>2. new \in ManType /\ new.entry = m.entry /\ new.seen = m.seen
  BY <1>1 DEF GoodMan, ManType
<1> HIDE DEF new
<1>3. GoodMan(new, k)
  BY <1>2 DEF GoodMan, UpTo
<1> QED
  BY <1>2, <1>3 DEF new, p

LEMMA WithWait ==
  ASSUME NEW m, NEW k, GoodMan(m, k)
  PROVE  GoodMan([m EXCEPT !.wait = AskAgain], k)
<1> DEFINE new == [m EXCEPT !.wait = AskAgain]
<1>0. AskAgain \in 0 .. AskAgain
  BY AgesHold
<1>1. new \in ManType /\ new.entry = m.entry /\ new.seen = m.seen
  BY <1>0 DEF GoodMan, ManType
<1> HIDE DEF new
<1>2. GoodMan(new, k)
  BY <1>1 DEF GoodMan, UpTo
<1> QED
  BY <1>2 DEF new

LEMMA IsFilled ==
  ASSUME NEW m, NEW k, GoodMan(m, k), m.entry # None
  PROVE  Filled(m, k)
<1>1. m.entry \in EntryType
  BY DEF GoodMan, ManType
<1> QED
  BY <1>1 DEF GoodMan, Filled, UpTo

LEMMA CheckedHolds ==
  ASSUME NEW m, NEW k, Filled(m, k)
  PROVE  Filled([m EXCEPT !.entry = Check(@)], k)
<1>1. GoodMan(m, k) /\ Check(m.entry) \in EntryType /\ Check(m.entry).b <= k
  BY EntriesHold DEF Filled
<1> QED
  BY <1>1, WithEntry

LEMMA PingedHolds ==
  ASSUME NEW m, NEW k, Filled(m, k), NEW age \in 0 .. Window - 1
  PROVE  Filled(Pinged(m, age), k)
<1> DEFINE e == [m.entry EXCEPT !.age = age]
           b == m.entry.b
           a == IF m.seen[b] = None THEN None ELSE age
           s == [m EXCEPT !.seen[b] = a]
<1>1. GoodMan(m, k) /\ m.entry \in EntryType /\ b <= k
  BY DEF Filled
<1>2. b \in Broadcast
  BY <1>1 DEF EntryType
<1>3. age \in 0 .. Removal /\ age \in 0 .. Forgotten + 1
  BY AgesHold
<1>4. e \in EntryType /\ e.b = b
  BY <1>1, <1>3 DEF EntryType
<1>5. a \in (0 .. Forgotten + 1) \cup {None}
  BY <1>3
<1>6. Pinged(m, age) = [s EXCEPT !.entry = e]
  BY <1>1 DEF Pinged, GoodMan, ManType
<1> HIDE DEF e, a
<1>7. GoodMan(s, k)
  <2> HIDE DEF b
  <2> QED BY <1>1, <1>2, <1>5, WithSeen
<1> HIDE DEF s
<1>8. Filled([s EXCEPT !.entry = e], k)
  BY <1>1, <1>4, <1>7, WithEntry
<1> QED
  BY <1>6, <1>8

LEMMA FitsHolds ==
  ASSUME NEW entry, NEW age \in Nat, PingFits(entry, age)
  PROVE  age \in 0 .. Window - 1
  BY AgesHold DEF PingFits

LEMMA UpdateHolds ==
  ASSUME NEW m, NEW k, Filled(m, k), NEW b \in Broadcast, b <= k,
         NEW age \in 0 .. Forgotten + 1
  PROVE  Filled(UpdateFromNewBroadcast(m, b, age), k)
<1> DEFINE e == [m.entry EXCEPT !.b = b]
           renewed == [m EXCEPT !.entry.b = b]
           checked == [Pinged(renewed, age) EXCEPT !.entry = Check(@)]
<1>1. GoodMan(m, k) /\ m.entry \in EntryType
  BY DEF Filled
<1>2. e \in EntryType /\ e.b = b
  BY <1>1 DEF EntryType
<1>3. renewed = [m EXCEPT !.entry = e]
  OBVIOUS
<1> HIDE DEF e, renewed
<1>4. Filled(renewed, k)
  BY <1>1, <1>2, <1>3, WithEntry
<1>5. CASE PingFits(m.entry, age)
  <2>1. age \in 0 .. Window - 1
    BY <1>5, AgesHold, FitsHolds
  <2>2. Filled(Pinged(renewed, age), k)
    BY <1>4, <2>1, PingedHolds
  <2>3. Filled(checked, k)
    BY <2>2, CheckedHolds
  <2> HIDE DEF checked
  <2>4. GoodMan(checked, k)
    BY <2>3 DEF Filled
  <2>5. Filled([checked EXCEPT !.pings = @ \cup {age}], k)
    BY <2>1, <2>3, <2>4, WithPing DEF Filled
  <2>6. UpdateFromNewBroadcast(m, b, age) = [checked EXCEPT !.pings = @ \cup {age}]
    BY <1>5 DEF UpdateFromNewBroadcast, checked, renewed
  <2> QED BY <2>5, <2>6
<1>6. CASE ~PingFits(m.entry, age)
  BY <1>4, <1>6 DEF UpdateFromNewBroadcast, renewed
<1> QED
  BY <1>5, <1>6

LEMMA RemovalHolds ==
  ASSUME NEW m, NEW k \in Nat, GoodMan(m, k), NEW force \in BOOLEAN
  PROVE  GoodMan(CheckAndRemove(m, force), k)
<1> DEFINE entry == IF m.entry = None THEN None ELSE Check(m.entry)
           kept == [b \in Broadcast |-> IF m.seen[b] # None /\ m.seen[b] > Forgotten
                                        THEN None ELSE m.seen[b]]
           new == [m EXCEPT !.entry = entry, !.seen = kept]
           emptied == [EmptyMan EXCEPT !.pings = m.pings]
<1>1. CheckAndRemove(m, force) \in {emptied, new}
  BY DEF CheckAndRemove
<1>2. m \in ManType /\ UpTo(m, k)
  BY DEF GoodMan
<1>3. GoodMan(emptied, k)
  <2>1. GoodMan(EmptyMan, k)
    BY EmptyHolds
  <2>2. m.pings \in SUBSET (0 .. Window - 1)
    BY <1>2 DEF ManType
  <2>3. emptied \in ManType /\ emptied.entry = EmptyMan.entry
        /\ emptied.seen = EmptyMan.seen
    BY <2>1, <2>2 DEF GoodMan, ManType
  <2> HIDE DEF emptied
  <2> QED BY <2>1, <2>3 DEF GoodMan, UpTo
<1>4. entry \in EntryType \cup {None} /\ (entry # None => entry.b <= k)
  BY <1>2, EntriesHold DEF ManType, UpTo
<1>5. /\ kept \in [Broadcast -> (0 .. Forgotten + 1) \cup {None}]
      /\ \A b \in Broadcast : kept[b] # None => b <= k
  BY <1>2 DEF ManType, UpTo
<1>6. GoodMan(new, k)
  <2> HIDE DEF entry, kept
  <2>1. new \in ManType /\ new.entry = entry /\ new.seen = kept
    BY <1>2, <1>4, <1>5 DEF ManType
  <2> HIDE DEF new
  <2> QED BY <1>4, <1>5, <2>1 DEF GoodMan, UpTo
<1> QED
  BY <1>1, <1>3, <1>6

LEMMA ListAgedHolds ==
  ASSUME NEW m, NEW k, GoodMan(m, k)
  PROVE  GoodMan(AgedMan(m), k)
<1> DEFINE entry == IF m.entry = None THEN None ELSE [m.entry EXCEPT !.age = OneOlder(@, Removal)]
           seen == [b \in Broadcast |->
                       IF m.seen[b] = None THEN None ELSE OneOlder(m.seen[b], Forgotten + 1)]
           pings == {age + 1 : age \in m.pings} \cap 0 .. Window - 1
           wait == IF m.wait = 0 THEN 0 ELSE m.wait - 1
<1>1. m \in ManType /\ UpTo(m, k)
  BY DEF GoodMan
<1>2. \A limit \in Nat : \A age \in 0 .. limit : OneOlder(age, limit) \in 0 .. limit
  BY DEF OneOlder
<1>3. entry \in EntryType \cup {None} /\ (entry # None => entry.b <= k)
  <2>1. CASE m.entry = None
    BY <2>1
  <2>2. CASE m.entry # None
    <3>1. m.entry \in EntryType /\ m.entry.b <= k
      BY <1>1, <2>2 DEF ManType, UpTo
    <3>2. OneOlder(m.entry.age, Removal) \in 0 .. Removal
      BY <1>2, <3>1, AgesHold DEF EntryType
    <3> DEFINE a == OneOlder(m.entry.age, Removal)
               e == [m.entry EXCEPT !.age = a]
    <3>3. entry = e
      BY <2>2
    <3> HIDE DEF a
    <3>4. e \in EntryType /\ e.b = m.entry.b
      BY <3>1, <3>2 DEF EntryType, a
    <3> QED BY <3>1, <3>3, <3>4
  <2> QED BY <2>1, <2>2
<1>4. /\ seen \in [Broadcast -> (0 .. Forgotten + 1) \cup {None}]
      /\ \A b \in Broadcast : seen[b] # None => b <= k
  <2>1. Forgotten + 1 \in Nat
    BY AgesHold
  <2>2. \A b \in Broadcast : m.seen[b] \in (0 .. Forgotten + 1) \cup {None}
    BY <1>1 DEF ManType
  <2>3. \A b \in Broadcast : seen[b] \in (0 .. Forgotten + 1) \cup {None}
    BY <1>2, <2>1, <2>2
  <2> QED BY <1>1, <2>3 DEF UpTo
<1>5. pings \in SUBSET (0 .. Window - 1)
  OBVIOUS
<1>6. wait \in 0 .. AskAgain
  BY <1>1, AgesHold DEF ManType
<1>7. AgedMan(m) = [entry |-> entry, seen |-> seen, pings |-> pings, wait |-> wait]
  BY DEF AgedMan
<1> HIDE DEF entry, seen, pings, wait
<1>8. AgedMan(m) \in ManType /\ AgedMan(m).entry = entry /\ AgedMan(m).seen = seen
  BY <1>3, <1>4, <1>5, <1>6, <1>7 DEF ManType
<1> QED
  BY <1>3, <1>4, <1>8 DEF GoodMan, UpTo

-----------------------------------------------------------------------------
(* Messages and the handlers' common end. *)

GoodLists(lists, k) == lists \in [Node -> ManType] /\ \A n \in Node : UpTo(lists[n], k)

Links == known \in [Node -> [Node -> SUBSET Broadcast]] /\ wire \subseteq MessageType

HandledWell(n, k) ==
    \E m : \E in \in SUBSET wire, out \in SUBSET MessageType :
        GoodMan(m, k) /\ Handled(n, m, in, out)

LEMMA MessagesHold ==
  ASSUME NEW n \in Node
  PROVE  /\ \A b \in Broadcast : \A to : Announce(n, b, to) \in SUBSET MessageType
         /\ \A age \in 0 .. Window - 1 : \A except :
               RelayPing(n, age, except) \in SUBSET MessageType
         /\ \A p \in Node : Message("dseg", n, p, 0) \in MessageType
<1>1. Peers(n) \subseteq Node
  BY DEF Peers
<1>2. \A b \in Broadcast, p \in Node : Message("mnb", n, p, b) \in MessageType
  BY DEF Message, MessageType
<1>3. \A age \in 0 .. Window - 1, p \in Node : Message("mnp", n, p, age) \in MessageType
  BY DEF Message, MessageType
<1>4. \A p \in Node : Message("dseg", n, p, 0) \in MessageType
  BY DEF Message, MessageType
<1>5. \A b \in Broadcast : \A to : Announce(n, b, to) \in SUBSET MessageType
  BY <1>1, <1>2 DEF Announce
<1>6. \A age \in 0 .. Window - 1 : \A except :
         RelayPing(n, age, except) \in SUBSET MessageType
  BY <1>1, <1>3 DEF RelayPing
<1> QED
  BY <1>4, <1>5, <1>6

LEMMA UpdateRelaysHold ==
  ASSUME NEW n \in Node, NEW m, NEW age \in Nat
  PROVE  UpdateRelays(n, m, age) \in SUBSET MessageType
<1>1. CASE PingFits(m.entry, age)
  BY <1>1, FitsHolds, MessagesHold DEF UpdateRelays
<1>2. CASE ~PingFits(m.entry, age)
  BY <1>2 DEF UpdateRelays
<1> QED
  BY <1>1, <1>2

LEMMA WhatIsKnown ==
  ASSUME NEW x \in MessageType
  PROVE  /\ x.from \in Node /\ x.to \in Node
         /\ x.kind = "mnb" => x.what \in Broadcast
         /\ x.kind = "mnp" => x.what \in 0 .. Window - 1
  BY DEF MessageType

LEMMA HandledHolds ==
  ASSUME NEW n \in Node, NEW k \in Nat, made \in Nat, made <= k,
         GoodLists(man, made), Links, HandledWell(n, k)
  PROVE  /\ GoodLists(man', k) /\ Links'
         /\ \A p \in Node \ {n} : man'[p] = man[p]
<1>0. PICK m : \E in \in SUBSET wire, out \in SUBSET MessageType :
                   GoodMan(m, k) /\ Handled(n, m, in, out)
  BY DEF HandledWell
<1>1. PICK in \in SUBSET wire, out \in SUBSET MessageType :
         GoodMan(m, k) /\ Handled(n, m, in, out)
  BY <1>0
<1>2. man \in [Node -> ManType] /\ m \in ManType /\ man' = [man EXCEPT ![n] = m]
  BY <1>1 DEF GoodLists, GoodMan, Handled
<1>3. man' \in [Node -> ManType] /\ man'[n] = m /\ \A p \in Node \ {n} : man'[p] = man[p]
  BY <1>2
<1>4. \A p \in Node \ {n} : UpTo(man'[p], k)
  <2> SUFFICES ASSUME NEW p \in Node \ {n}  PROVE UpTo(man[p], k)
    BY <1>3
  <2>1. GoodMan(man[p], made)
    BY DEF GoodLists, GoodMan
  <2> QED BY <2>1, LaterHolds DEF GoodMan
<1>5. GoodLists(man', k)
  BY <1>1, <1>3, <1>4 DEF GoodLists, GoodMan
<1>6. wire' \subseteq MessageType
  BY <1>1 DEF Handled, Links
<1> DEFINE heard(p) == {x.what : x \in {y \in in : y.kind = "mnb" /\ y.from = p}
                                        \cup {y \in out : y.kind = "mnb" /\ y.to = p}}
           now == [p \in Node |-> known[n][p] \cup heard(p)]
<1>7. \A p : heard(p) \in SUBSET Broadcast
  <2>1. \A x \in in \cup out : x.kind = "mnb" => x.what \in Broadcast
    BY <1>1, WhatIsKnown DEF Links
  <2> QED BY <2>1
<1>8. known' = [known EXCEPT ![n] = now]
  BY <1>1 DEF Handled
<1>9. now \in [Node -> SUBSET Broadcast]
  <2> HIDE DEF heard
  <2> QED BY <1>7 DEF Links
<1>10. known' \in [Node -> [Node -> SUBSET Broadcast]]
  <2> HIDE DEF now
  <2> QED BY <1>8, <1>9 DEF Links
<1> QED
  BY <1>3, <1>5, <1>6, <1>10 DEF Links

-----------------------------------------------------------------------------
(* What the handlers make of a list. *)

LEMMA SendHolds ==
  ASSUME NEW m, NEW k, GoodMan(m, k), SendMasternodePing(m)
  PROVE  HandledWell(Self, k) /\ status' \in {"NOT_CAPABLE", "STARTED"}
<1>1. {} \in SUBSET wire /\ {} \in SUBSET MessageType /\ 0 \in 0 .. Window - 1
      /\ Self \in Node
  BY AgesHold
<1>2. CASE Handled(Self, m, {}, {}) /\ status' \in {"NOT_CAPABLE", "STARTED"}
  BY <1>1, <1>2 DEF HandledWell
<1>3. CASE /\ m.entry # None /\ status' = "STARTED"
           /\ Handled(Self, [Pinged(m, 0) EXCEPT !.pings = @ \cup {0}], {},
                           RelayPing(Self, 0, {}))
  <2>1. Filled(Pinged(m, 0), k)
    BY <1>1, <1>3, IsFilled, PingedHolds
  <2>2. GoodMan([Pinged(m, 0) EXCEPT !.pings = @ \cup {0}], k)
    BY <1>1, <2>1, WithPing DEF Filled
  <2>3. RelayPing(Self, 0, {}) \in SUBSET MessageType
    BY <1>1, MessagesHold
  <2> QED BY <1>1, <1>3, <2>2, <2>3 DEF HandledWell
<1> QED
  BY <1>2, <1>3 DEF SendMasternodePing

LEMMA RegisterHolds ==
  ASSUME NEW n \in Node, NEW m, made \in Nat, GoodMan(m, made), Register(n, m)
  PROVE  made' = made + 1 /\ made' \in 0 .. MaxBroadcasts /\ HandledWell(n, made + 1)
<1> DEFINE b == made + 1
           seen == [m EXCEPT !.seen[b] = 0]
           copied == [m EXCEPT !.seen[b] = 0, !.pings = @ \cup {0}]
<1>1. b \in Broadcast /\ b \in Nat /\ b \in 0 .. MaxBroadcasts /\ made <= b /\ made' = b
      /\ b <= b
  BY AgesHold DEF Register, Broadcast
<1>2. 0 \in 0 .. Window - 1 /\ 0 \in 0 .. Forgotten + 1 /\ 0 \in Nat
  BY AgesHold
<1> HIDE DEF b
<1>3. GoodMan(m, b)
  BY <1>1, LaterHolds
<1>4. GoodMan(seen, b) /\ seen.entry = m.entry
  <2> HIDE DEF copied
  <2>1. 0 \in (0 .. Forgotten + 1) \cup {None} /\ (0 # None => b <= b)
    BY <1>1, <1>2
  <2> QED BY <1>1, <1>3, <2>1, WithSeen
<1>5. copied = [seen EXCEPT !.pings = @ \cup {0}]
  BY <1>3 DEF GoodMan, ManType
<1> HIDE DEF seen
<1>6. GoodMan(copied, b) /\ copied.entry = m.entry
  BY <1>2, <1>4, <1>5, WithPing
<1> HIDE DEF copied
<1>7. CASE m.entry = None
  <2>1. NewEntry(b, 0) \in EntryType /\ NewEntry(b, 0).b <= b
    BY <1>1, <1>2, EntriesHold
  <2>2. GoodMan([copied EXCEPT !.entry = NewEntry(b, 0)], b)
    BY <1>6, <2>1, WithEntry DEF Filled
  <2>3. Handled(n, [copied EXCEPT !.entry = NewEntry(b, 0)], {}, Announce(n, b, Node))
    BY <1>7 DEF Register, copied, b
  <2>4. Announce(n, b, Node) \in SUBSET MessageType
    BY <1>1, MessagesHold
  <2>5. HandledWell(n, b)
    BY <2>2, <2>3, <2>4 DEF HandledWell
  <2> QED BY <1>1, <2>5 DEF b
<1>8. CASE m.entry # None
  <2>1. Filled(copied, b)
    BY <1>6, <1>8, IsFilled
  <2>2. GoodMan(UpdateFromNewBroadcast(copied, b, 0), b)
    BY <1>1, <1>2, <2>1, UpdateHolds DEF Filled
  <2>3. Handled(n, UpdateFromNewBroadcast(copied, b, 0), {},
                UpdateRelays(n, m, 0) \cup Announce(n, b, Node))
    BY <1>8 DEF Register, copied, b
  <2>4. UpdateRelays(n, m, 0) \cup Announce(n, b, Node) \in SUBSET MessageType
    BY <1>1, <1>2, MessagesHold, UpdateRelaysHold
  <2>5. HandledWell(n, b)
    BY <2>2, <2>3, <2>4 DEF HandledWell
  <2> QED BY <1>1, <2>5 DEF b
<1> QED
  BY <1>7, <1>8

LEMMA TakeBroadcastHolds ==
  ASSUME made \in Nat, GoodLists(man, made), wire \subseteq MessageType,
         NEW x \in wire, x.kind = "mnb", man[x.from].seen[x.what] # None,
         NEW mainTaken \in BOOLEAN, TakeBroadcast(x, mainTaken)
  PROVE  /\ HandledWell(x.to, made)
         /\ UNCHANGED <<status, vinSet>> \/ (status' = "STARTED" /\ vinSet' = TRUE)
<1> DEFINE n == x.to
           b == x.what
           age == man[x.from].seen[b]
           copied == [man[n] EXCEPT !.seen[b] = age]
           m == IF Updates(man[n], b)
                THEN [UpdateFromNewBroadcast(copied, b, age) EXCEPT !.entry = Check(@)]
                ELSE copied
           relayed == IF ~Updates(man[n], b) THEN {}
                      ELSE UpdateRelays(n, man[n], age)
                           \cup IF Enabled(m) THEN Announce(n, b, Node \ {x.from}) ELSE {}
           own == n = Self /\ vinSet
<1>1. n \in Node /\ x.from \in Node /\ b \in Broadcast /\ {x} \in SUBSET wire
  BY WhatIsKnown
<1>2. GoodMan(man[n], made) /\ GoodMan(man[x.from], made)
  BY <1>1 DEF GoodLists, GoodMan
<1>3. age \in 0 .. Forgotten + 1 /\ age \in Nat /\ b <= made
  BY <1>1, <1>2, AgesHold DEF GoodMan, ManType, UpTo
<1> HIDE DEF n, b, age
<1>4. GoodMan(copied, made) /\ copied.entry = man[n].entry
  BY <1>1, <1>2, <1>3, WithSeen
<1> HIDE DEF copied
<1>5. GoodMan(m, made)
  <2>1. CASE Updates(man[n], b)
    <3>1. Filled(copied, made)
      BY <1>4, <2>1, IsFilled DEF Updates, Enabled
    <3>2. Filled(UpdateFromNewBroadcast(copied, b, age), made)
      BY <1>1, <1>3, <3>1, UpdateHolds
    <3>3. GoodMan([UpdateFromNewBroadcast(copied, b, age) EXCEPT !.entry = Check(@)], made)
      BY <3>2, CheckedHolds DEF Filled
    <3> QED BY <2>1, <3>3
  <2>2. CASE ~Updates(man[n], b)
    BY <1>4, <2>2
  <2> QED BY <2>1, <2>2
<1> HIDE DEF m
<1> DEFINE told == Announce(n, b, Node \ {x.from})
<1>6. told \in SUBSET MessageType
  BY <1>1, MessagesHold
<1>7. relayed \in SUBSET MessageType
  <2>1. UpdateRelays(n, man[n], age) \in SUBSET MessageType
    BY <1>1, <1>3, UpdateRelaysHold
  <2> HIDE DEF told
  <2> QED BY <1>6, <2>1 DEF told
<1>8. \/ /\ Handled(n, m, {x}, relayed)
         /\ UNCHANGED <<status, vinSet>>
      \/ /\ Handled(n, [m EXCEPT !.entry = None, !.seen[b] = None], {x}, relayed)
         /\ UNCHANGED <<status, vinSet>>
      \/ /\ Handled(n, [m EXCEPT !.entry = NewEntry(b, age)], {x}, relayed \cup told)
         /\ IF n = Self THEN EnableHotColdMasterNode ELSE UNCHANGED <<status, vinSet>>
  BY DEF TakeBroadcast, n, b, age, copied, m
<1> HIDE DEF relayed, told
<1>9. CASE Handled(n, m, {x}, relayed) /\ UNCHANGED <<status, vinSet>>
  <2>1. HandledWell(n, made)
    BY <1>1, <1>5, <1>7, <1>9 DEF HandledWell
  <2> QED BY <1>9, <2>1 DEF n
<1>10. CASE /\ Handled(n, [m EXCEPT !.entry = None, !.seen[b] = None], {x}, relayed)
            /\ UNCHANGED <<status, vinSet>>
  <2> DEFINE e == [m EXCEPT !.entry = None]
             f == [e EXCEPT !.seen[b] = None]
  <2>1. GoodMan(e, made)
    BY <1>5, WithoutEntry
  <2>2. f = [m EXCEPT !.entry = None, !.seen[b] = None]
    BY <1>5 DEF GoodMan, ManType
  <2> HIDE DEF e
  <2>3. GoodMan(f, made)
    BY <1>1, <2>1, WithSeen
  <2> HIDE DEF f
  <2>4. HandledWell(n, made)
    BY <1>1, <1>7, <1>10, <2>2, <2>3 DEF HandledWell
  <2> QED BY <1>10, <2>4 DEF n
<1>11. CASE /\ Handled(n, [m EXCEPT !.entry = NewEntry(b, age)], {x}, relayed \cup told)
            /\ IF n = Self THEN EnableHotColdMasterNode ELSE UNCHANGED <<status, vinSet>>
  <2>1. NewEntry(b, age) \in EntryType /\ NewEntry(b, age).b <= made
    BY <1>1, <1>3, EntriesHold
  <2>2. GoodMan([m EXCEPT !.entry = NewEntry(b, age)], made)
    BY <1>5, <2>1, WithEntry DEF Filled
  <2>3. relayed \cup told \in SUBSET MessageType
    BY <1>6, <1>7
  <2>4. HandledWell(n, made)
    BY <1>1, <1>11, <2>2, <2>3 DEF HandledWell
  <2> QED BY <1>11, <2>4 DEF n, EnableHotColdMasterNode
<1> QED
  BY <1>8, <1>9, <1>10, <1>11

-----------------------------------------------------------------------------
(* Every step. *)

Own ==
    /\ status \in {"INITIAL", "NOT_CAPABLE", "STARTED"}
    /\ vinSet \in BOOLEAN /\ managed \in BOOLEAN
    /\ status = "STARTED" => vinSet

Nodes ==
    /\ owner \in Node /\ mode \in [Node -> {"up", "asleep", "down", "behind"}]
    /\ rare \in 0 .. MaxRare

Signing == made \in 0 .. MaxBroadcasts /\ old \in 0 .. made

DownIsEmpty == \A n \in Node : mode[n] = "down" => man[n] = EmptyMan

LEMMA ListParts ==
  ListInv <=> /\ Nodes /\ Own /\ Signing /\ Links /\ DownIsEmpty
           /\ GoodLists(man, made) /\ GoodLists(disk, made)
  BY DEF ListInv, ListTypeOK, Nodes, Own, Signing, Links, DownIsEmpty, GoodLists, UpTo

LEMMA ListPartsNext ==
  ASSUME Nodes', Own', Signing', Links', DownIsEmpty', GoodLists(man', made'),
         GoodLists(disk', made')
  PROVE  ListInv'
<1>1. GoodLists(man, made)' /\ GoodLists(disk, made)'
  BY DEF GoodLists, UpTo
<1> QED
  BY <1>1 DEF ListInv, ListTypeOK, Nodes, Own, Signing, Links, DownIsEmpty, GoodLists, UpTo

LEMMA OneMore ==
  ASSUME rare \in 0 .. MaxRare, rare' = rare \/ (rare < MaxRare /\ rare' = rare + 1)
  PROVE  rare' \in 0 .. MaxRare
  BY AgesHold

\* A handler of one node, which is not down or keeps its list.
LEMMA AfterHandler ==
  ASSUME ListInv, NEW n \in Node, made' \in Nat, made <= made',
         HandledWell(n, made'),
         mode[n] # "down" \/ man'[n] = man[n],
         owner' = owner, mode' = mode, disk' = disk,
         Own', Signing', rare' \in 0 .. MaxRare
  PROVE  ListInv'
<1>1. /\ Nodes /\ Links /\ DownIsEmpty /\ made \in Nat
      /\ GoodLists(man, made) /\ GoodLists(disk, made)
  BY ListParts DEF Signing
<1>2. GoodLists(man', made') /\ Links' /\ \A p \in Node \ {n} : man'[p] = man[p]
  BY <1>1, HandledHolds
<1>3. DownIsEmpty'
  BY <1>1, <1>2 DEF DownIsEmpty
<1>4. GoodLists(disk', made')
  <2> SUFFICES ASSUME NEW p \in Node  PROVE UpTo(disk[p], made')
    BY <1>1 DEF GoodLists
  <2>1. GoodMan(disk[p], made)
    BY <1>1 DEF GoodLists, GoodMan
  <2> QED BY <1>1, <2>1, LaterHolds DEF GoodMan
<1>5. Nodes'
  BY <1>1 DEF Nodes
<1> QED
  BY <1>2, <1>3, <1>4, <1>5, ListPartsNext

LEMMA OwnKept ==
  ASSUME Own, managed' = managed,
         UNCHANGED <<status, vinSet>> \/ (status' = "STARTED" /\ vinSet' = TRUE)
  PROVE  Own'
<1>1. CASE UNCHANGED <<status, vinSet>>
  BY <1>1 DEF Own
<1>2. CASE status' = "STARTED" /\ vinSet' = TRUE
  <2>1. vinSet' \in BOOLEAN /\ vinSet'
    BY <1>2
  <2> QED BY <1>2, <2>1 DEF Own
<1> QED
  BY <1>1, <1>2

LEMMA ManageHolds ==
  ASSUME ListInv, ManageStatus
  PROVE  ListInv'
<1> DEFINE looks == status = "INITIAL" /\ man[Self].entry # None
           m == IF looks THEN [man[Self] EXCEPT !.entry = Check(@)] ELSE man[Self]
           started == status = "STARTED" \/ (looks /\ Enabled(m))
<1>1. /\ Nodes /\ Own /\ Signing /\ GoodLists(man, made) /\ Self \in Node /\ made \in Nat
      /\ mode[Self] # "down" /\ managed' = TRUE
      /\ owner' = owner /\ mode' = mode /\ disk' = disk /\ old' = old /\ rare' = rare
  BY ListParts, AgesHold DEF ManageStatus, Signing
<1>2. managed' \in BOOLEAN
  BY <1>1
<1>3. rare' \in 0 .. MaxRare
  BY <1>1 DEF Nodes
<1>4. GoodMan(m, made)
  <2>1. GoodMan(man[Self], made)
    BY <1>1 DEF GoodLists, GoodMan
  <2>2. looks => Filled(man[Self], made)
    BY <2>1, IsFilled
  <2> QED BY <2>1, <2>2, CheckedHolds DEF Filled
<1> HIDE DEF m
<1>5. \/ vinSet' = TRUE /\ SendMasternodePing(m) /\ UNCHANGED made
      \/ owner = Self /\ status' = "STARTED" /\ vinSet' = TRUE /\ Register(Self, m)
      \/ status' = "NOT_CAPABLE" /\ Handled(Self, m, {}, {}) /\ UNCHANGED <<vinSet, made>>
  BY DEF ManageStatus, m
<1>6. CASE vinSet' = TRUE /\ SendMasternodePing(m) /\ UNCHANGED made
  <2>1. HandledWell(Self, made) /\ status' \in {"NOT_CAPABLE", "STARTED"}
    BY <1>4, <1>6, SendHolds
  <2>2. vinSet' \in BOOLEAN /\ vinSet'
    BY <1>6
  <2>3. Own'
    BY <1>2, <2>1, <2>2 DEF Own
  <2>4. Signing' /\ made' = made /\ made <= made'
    BY <1>1, <1>6 DEF Signing
  <2> QED BY <1>1, <1>3, <2>1, <2>3, <2>4, AfterHandler
<1>7. CASE owner = Self /\ status' = "STARTED" /\ vinSet' = TRUE /\ Register(Self, m)
  <2>1. made' = made + 1 /\ made' \in 0 .. MaxBroadcasts /\ HandledWell(Self, made + 1)
    BY <1>1, <1>4, <1>7, RegisterHolds
  <2>2. vinSet' \in BOOLEAN /\ vinSet'
    BY <1>7
  <2>3. Own'
    BY <1>2, <1>7, <2>2 DEF Own
  <2>4. Signing' /\ made <= made' /\ made' \in Nat
    BY <1>1, <2>1 DEF Signing
  <2> QED BY <1>1, <1>3, <2>1, <2>3, <2>4, AfterHandler
<1>8. CASE status' = "NOT_CAPABLE" /\ Handled(Self, m, {}, {}) /\ UNCHANGED <<vinSet, made>>
  <2>1. HandledWell(Self, made)
    BY <1>4, <1>8 DEF HandledWell
  <2>2. Own'
    BY <1>1, <1>2, <1>8 DEF Own
  <2>3. Signing' /\ made' = made /\ made <= made'
    BY <1>1, <1>8 DEF Signing
  <2> QED BY <1>1, <1>3, <2>1, <2>2, <2>3, AfterHandler
<1> QED
  BY <1>5, <1>6, <1>7, <1>8

LEMMA StartHolds ==
  ASSUME ListInv, StartMasternode
  PROVE  ListInv'
<1>1. Nodes /\ Own /\ Signing /\ GoodLists(man, made) /\ made \in Nat
  BY ListParts DEF Signing
<1>2. /\ mode[owner] # "down" /\ Register(owner, man[owner])
      /\ owner' = owner /\ mode' = mode /\ disk' = disk /\ active' = active
      /\ old' = old
      /\ rare' = rare \/ (rare < MaxRare /\ rare' = rare + 1)
  BY <1>1, AgesHold DEF StartMasternode, Signing
<1>3. owner \in Node
  BY <1>1 DEF Nodes
<1>4. GoodMan(man[owner], made)
  BY <1>1, <1>3 DEF GoodLists, GoodMan
<1>5. made' = made + 1 /\ made' \in 0 .. MaxBroadcasts /\ HandledWell(owner, made + 1)
  BY <1>1, <1>2, <1>3, <1>4, RegisterHolds
<1>6. Signing' /\ made <= made' /\ made' \in Nat
  BY <1>1, <1>2, <1>5 DEF Signing
<1>7. Own'
  BY <1>1, <1>2 DEF Own, active
<1>8. rare' \in 0 .. MaxRare
  BY <1>1, <1>2, OneMore DEF Nodes
<1> QED
  BY <1>2, <1>3, <1>5, <1>6, <1>7, <1>8, AfterHandler

\* What the four handlers of a message have in common.
LEMMA AfterMessage ==
  ASSUME ListInv, NEW x \in wire, HandledWell(x.to, made),
         mode[x.to] # "down" \/ man'[x.to] = man[x.to],
         owner' = owner, mode' = mode, disk' = disk, signed' = signed,
         managed' = managed, UNCHANGED <<status,
         vinSet>> \/ (status' = "STARTED" /\ vinSet' = TRUE),
         rare' = rare \/ (rare < MaxRare /\ rare' = rare + 1)
  PROVE  ListInv'
<1>1. Nodes /\ Own /\ Signing /\ Links /\ made \in Nat
  BY ListParts DEF Signing
<1>2. x.to \in Node
  BY <1>1, WhatIsKnown DEF Links
<1>3. Signing' /\ made' = made /\ made <= made'
  BY <1>1 DEF Signing, signed
<1>4. Own'
  BY <1>1, OwnKept
<1>5. rare' \in 0 .. MaxRare
  BY <1>1, OneMore DEF Nodes
<1> QED
  BY <1>1, <1>2, <1>3, <1>4, <1>5, AfterHandler

LEMMA ReceiveHolds ==
  ASSUME ListInv, NEW x \in wire, Receive(x)
  PROVE  ListInv'
<1> DEFINE n == x.to
<1>1. /\ Nodes /\ Signing /\ Links /\ GoodLists(man, made) /\ made \in Nat
      /\ {x} \in SUBSET wire /\ {} \in SUBSET MessageType
  BY ListParts DEF Signing
<1>2. x \in MessageType /\ n \in Node /\ x.from \in Node /\ wire \subseteq MessageType
  BY <1>1, WhatIsKnown DEF Links
<1>3. GoodMan(man[n], made) /\ GoodMan(man[x.from], made) /\ man \in [Node -> ManType]
  BY <1>1, <1>2 DEF GoodLists, GoodMan
<1>4. CASE Ignored(x)
  <2>1. /\ Handled(n, man[n], {x}, {})
        /\ owner' = owner /\ mode' = mode /\ disk' = disk /\ active' = active
        /\ signed' = signed
        /\ rare' = rare
    BY <1>4 DEF Ignored
  <2>2. HandledWell(n, made)
    BY <1>1, <1>3, <2>1 DEF HandledWell
  <2>3. man'[n] = man[n]
    BY <1>2, <1>3, <2>1 DEF Handled
  <2> QED BY <2>1, <2>2, <2>3, AfterMessage DEF active
<1>5. CASE ReceiveBroadcast(x)
  <2> DEFINE age == man[x.from].seen[x.what]
             stale == [man[n] EXCEPT !.seen[x.what] = age]
  <2>1. /\ x.kind = "mnb" /\ mode[n] = "up" /\ age # None
        /\ owner' = owner /\ mode' = mode /\ disk' = disk /\ managed' = managed
        /\ signed' = signed
        /\ \/ Handled(n, stale, {x}, {}) /\ UNCHANGED <<status, vinSet, rare>>
           \/ \E mainTaken \in BOOLEAN : TakeBroadcast(x, mainTaken)
        /\ rare' = rare \/ (rare < MaxRare /\ rare' = rare + 1)
    BY <1>5 DEF ReceiveBroadcast
  <2>2. CASE Handled(n, stale, {x}, {}) /\ UNCHANGED <<status, vinSet, rare>>
    <3>1. x.what \in Broadcast
      BY <1>2, <2>1, WhatIsKnown
    <3>2. age \in (0 .. Forgotten + 1) \cup {None} /\ (age # None => x.what <= made)
      BY <1>3, <3>1 DEF GoodMan, ManType, UpTo
    <3>3. GoodMan(stale, made)
      <4> HIDE DEF n, age
      <4> QED BY <1>3, <3>1, <3>2, WithSeen
    <3> HIDE DEF stale
    <3>4. HandledWell(n, made)
      BY <1>1, <2>2, <3>3 DEF HandledWell
    <3> QED BY <2>1, <2>2, <3>4, AfterMessage
  <2>3. CASE \E mainTaken \in BOOLEAN : TakeBroadcast(x, mainTaken)
    <3>1. /\ HandledWell(n, made)
          /\ UNCHANGED <<status, vinSet>> \/ (status' = "STARTED" /\ vinSet' = TRUE)
      BY <1>1, <1>2, <2>1, <2>3, TakeBroadcastHolds
    <3> QED BY <2>1, <3>1, AfterMessage
  <2> QED BY <2>1, <2>2, <2>3
<1>6. CASE ReceivePing(x)
  <2> DEFINE heard == [man[n] EXCEPT !.pings = @ \cup {x.what}]
             pinged == [Pinged(heard, x.what) EXCEPT !.entry = Check(@)]
             asking == [heard EXCEPT !.wait = AskAgain]
             ask == {Message("dseg", n, p, 0) : p \in Peers(n) \cap {x.from}}
  <2>1. /\ x.kind = "mnp" /\ mode[n] = "up"
        /\ owner' = owner /\ mode' = mode /\ disk' = disk /\ active' = active
        /\ signed' = signed
        /\ rare' = rare \/ (rare < MaxRare /\ rare' = rare + 1)
        /\ \/ heard.entry # None /\ Handled(n, pinged, {x}, RelayPing(n, x.what, {x.from}))
           \/ Handled(n, heard, {x}, {})
           \/ Handled(n, asking, {x}, ask)
    BY <1>6 DEF ReceivePing, Enabled
  <2>2. x.what \in 0 .. Window - 1
    BY <1>2, <2>1, WhatIsKnown
  <2>3. GoodMan(heard, made)
    <3> HIDE DEF n
    <3> QED BY <1>3, <2>2, WithPing
  <2> HIDE DEF heard
  <2>4. heard.entry # None => GoodMan(pinged, made)
    <3> SUFFICES ASSUME heard.entry # None  PROVE GoodMan(pinged, made)
      OBVIOUS
    <3>1. Filled(Pinged(heard, x.what), made)
      BY <2>2, <2>3, IsFilled, PingedHolds
    <3> QED BY <3>1, CheckedHolds DEF Filled
  <2>5. GoodMan(asking, made)
    BY <2>3, WithWait
  <2>6. RelayPing(n, x.what, {x.from}) \in SUBSET MessageType
    <3> HIDE DEF n
    <3> QED BY <1>2, <2>2, MessagesHold
  <2>7. ask \in SUBSET MessageType
    <3> HIDE DEF n
    <3> QED BY <1>2, MessagesHold
  <2> HIDE DEF pinged, asking, ask
  <2>8. HandledWell(n, made)
    BY <1>1, <2>1, <2>3, <2>4, <2>5, <2>6, <2>7 DEF HandledWell
  <2> QED BY <2>1, <2>8, AfterMessage DEF active
<1>7. CASE ReceiveDseg(x)
  <2> DEFINE m == man[n]
             b == m.entry.b
             age == IF m.seen[b] = None THEN m.entry.age ELSE m.seen[b]
             listed == [m EXCEPT !.seen[b] = age]
  <2>1. /\ mode[n] = "up"
        /\ owner' = owner /\ mode' = mode /\ disk' = disk /\ active' = active
        /\ signed' = signed
        /\ rare' = rare
        /\ \/ Enabled(m) /\ Handled(n, listed, {x}, Announce(n, b, {x.from}))
           \/ Handled(n, m, {x}, {})
    BY <1>7 DEF ReceiveDseg
  <2>2. CASE Enabled(m) /\ Handled(n, listed, {x}, Announce(n, b, {x.from}))
    <3>1. Filled(m, made)
      BY <1>3, <2>2, IsFilled DEF Enabled
    <3>2. b \in Broadcast /\ b <= made /\ m.entry.age \in 0 .. Removal
      BY <3>1 DEF Filled, EntryType
    <3>3. age \in (0 .. Forgotten + 1) \cup {None}
      BY <1>3, <3>2, AgesHold DEF GoodMan, ManType
    <3>4. GoodMan(listed, made)
      <4> HIDE DEF m, b, age
      <4> QED BY <1>3, <3>2, <3>3, WithSeen DEF m
    <3>5. Announce(n, b, {x.from}) \in SUBSET MessageType
      <4> HIDE DEF n, b
      <4> QED BY <1>2, <3>2, MessagesHold
    <3> HIDE DEF listed
    <3>6. HandledWell(n, made)
      BY <1>1, <2>2, <3>4, <3>5 DEF HandledWell
    <3> QED BY <2>1, <3>6, AfterMessage DEF active
  <2>3. CASE Handled(n, m, {x}, {})
    <3>1. HandledWell(n, made)
      BY <1>1, <1>3, <2>3 DEF HandledWell
    <3> QED BY <2>1, <3>1, AfterMessage DEF active
  <2> QED BY <2>1, <2>2, <2>3
<1> QED
  BY <1>4, <1>5, <1>6, <1>7 DEF Receive

LEMMA SweepHolds ==
  ASSUME ListInv, NEW n \in Node, Sweep(n)
  PROVE  ListInv'
<1>1. /\ Nodes /\ Own /\ Signing /\ Links /\ DownIsEmpty /\ made \in Nat
      /\ GoodLists(man, made) /\ GoodLists(disk, made)
  BY ListParts DEF Signing
<1> DEFINE m == CheckAndRemove(man[n], FALSE)
<1>2. /\ mode[n] = "up" /\ man' = [man EXCEPT ![n] = m]
      /\ owner' = owner /\ mode' = mode /\ disk' = disk /\ known' = known /\ wire' = wire
      /\ active' = active /\ signed' = signed /\ rare' = rare
  BY DEF Sweep
<1>3. GoodMan(m, made)
  <2>1. GoodMan(man[n], made)
    BY <1>1 DEF GoodLists, GoodMan
  <2> QED BY <1>1, <2>1, RemovalHolds
<1> HIDE DEF m
<1>4. GoodLists(man', made) /\ \A p \in Node \ {n} : man'[p] = man[p]
  BY <1>1, <1>2, <1>3 DEF GoodLists, GoodMan
<1>5. DownIsEmpty'
  BY <1>1, <1>2, <1>4 DEF DownIsEmpty
<1>6. Nodes' /\ Own' /\ Signing' /\ Links' /\ made' = made
  BY <1>1, <1>2 DEF Nodes, Own, Signing, Links, active, signed
<1> QED
  BY <1>1, <1>2, <1>4, <1>5, <1>6, ListPartsNext

LEMMA TickHolds ==
  ASSUME ListInv, Tick
  PROVE  ListInv'
<1>1. /\ Nodes /\ Own /\ Signing /\ Links /\ DownIsEmpty /\ made \in Nat
      /\ GoodLists(man, made) /\ GoodLists(disk, made)
  BY ListParts DEF Signing
<1>2. /\ man' = [n \in Node |-> AgedMan(man[n])] /\ disk' = [n \in Node |-> AgedMan(disk[n])]
      /\ managed' = FALSE /\ old' = made /\ owner' = owner /\ mode' = mode /\ known' = known
      /\ wire' = wire /\ status' = status /\ vinSet' = vinSet /\ made' = made /\ rare' = rare
  BY DEF Tick
<1>3. \A lists : GoodLists(lists, made) => GoodLists([n \in Node |-> AgedMan(lists[n])], made)
  <2> SUFFICES ASSUME NEW lists, GoodLists(lists, made), NEW n \in Node
               PROVE  GoodMan(AgedMan(lists[n]), made)
    BY DEF GoodLists, GoodMan
  <2>1. GoodMan(lists[n], made)
    BY DEF GoodLists, GoodMan
  <2> QED BY <2>1, ListAgedHolds
<1>4. GoodLists(man', made) /\ GoodLists(disk', made)
  BY <1>1, <1>2, <1>3
<1>5. AgedMan(EmptyMan) = EmptyMan
  <2>1. {age + 1 : age \in {}} \cap 0 .. Window - 1 = {}
    OBVIOUS
  <2>2. EmptyMan.entry = None /\ EmptyMan.pings = {} /\ EmptyMan.wait = 0
    BY DEF EmptyMan
  <2>3. [b \in Broadcast |-> IF EmptyMan.seen[b] = None THEN None
                             ELSE OneOlder(EmptyMan.seen[b], Forgotten + 1)]
            = [b \in Broadcast |-> None]
    BY DEF EmptyMan
  <2>4. AgedMan(EmptyMan) =
            [entry |-> None, seen |-> [b \in Broadcast |-> None], pings |-> {}, wait |-> 0]
    BY <2>1, <2>2, <2>3 DEF AgedMan
  <2> QED BY <2>4 DEF EmptyMan
<1>6. DownIsEmpty'
  BY <1>1, <1>2, <1>5 DEF DownIsEmpty
<1>7. Own'
  <2>1. managed' \in BOOLEAN
    BY <1>2
  <2> QED BY <1>1, <1>2, <2>1 DEF Own
<1>8. Nodes' /\ Signing' /\ Links'
  BY <1>1, <1>2 DEF Nodes, Signing, Links
<1> QED
  BY <1>2, <1>4, <1>6, <1>7, <1>8, ListPartsNext

LEMMA ForgetHolds ==
  ASSUME ListInv, NEW n \in Node, NEW p \in Node, Forget(n, p)
  PROVE  ListInv'
<1>1. /\ Nodes /\ Own /\ Signing /\ Links /\ DownIsEmpty
      /\ GoodLists(man, made) /\ GoodLists(disk, made)
  BY ListParts
<1>2. /\ known' = [known EXCEPT ![n][p] = {}]
      /\ owner' = owner /\ mode' = mode /\ man' = man /\ disk' = disk /\ wire' = wire
      /\ active' = active /\ signed' = signed /\ rare' = rare
  BY DEF Forget
<1>3. Links'
  BY <1>1, <1>2 DEF Links
<1>4. Nodes' /\ Own' /\ Signing' /\ DownIsEmpty' /\ made' = made
  BY <1>1, <1>2 DEF Nodes, Own, Signing, DownIsEmpty, active, signed
<1> QED
  BY <1>1, <1>2, <1>3, <1>4, ListPartsNext

LEMMA DisconnectedHolds ==
  ASSUME Links, NEW n \in Node, Disconnected(n)
  PROVE  Links'
  BY DEF Links, Disconnected

LEMMA StopHolds ==
  ASSUME ListInv, NEW n \in Node, NEW dumped \in BOOLEAN, Stop(n, dumped)
  PROVE  ListInv'
<1>1. /\ Nodes /\ Own /\ Signing /\ Links /\ DownIsEmpty /\ made \in Nat
      /\ GoodLists(man, made) /\ GoodLists(disk, made)
  BY ListParts DEF Signing
<1>2. /\ mode' = [mode EXCEPT ![n] = "down"] /\ man' = [man EXCEPT ![n] = EmptyMan]
      /\ disk' = IF dumped THEN [disk EXCEPT ![n] = man[n]] ELSE disk
      /\ Disconnected(n) /\ rare < MaxRare /\ rare' = rare + 1 /\ owner' = owner
      /\ signed' = signed
  BY DEF Stop
<1>3. GoodMan(EmptyMan, made)
  BY <1>1, EmptyHolds
<1>4. GoodLists(man', made)
  BY <1>1, <1>2, <1>3 DEF GoodLists, GoodMan
<1>5. GoodLists(disk', made)
  <2>1. CASE dumped
    BY <1>1, <1>2, <2>1 DEF GoodLists
  <2>2. CASE ~dumped
    BY <1>1, <1>2, <2>2
  <2> QED BY <2>1, <2>2
<1>6. DownIsEmpty'
  BY <1>1, <1>2 DEF DownIsEmpty, Nodes, GoodLists
<1>7. Own'
  <2> DEFINE v == vinSet /\ n # Self
             g == managed /\ n # Self
  <2>1. vinSet' = v /\ managed' = g /\ status' = IF n = Self THEN "INITIAL" ELSE status
    BY DEF Stop
  <2>2. v \in BOOLEAN /\ g \in BOOLEAN /\ (n # Self /\ vinSet => v)
    OBVIOUS
  <2> HIDE DEF v, g
  <2>3. vinSet' \in BOOLEAN /\ managed' \in BOOLEAN /\ (n # Self /\ vinSet => vinSet')
    BY <2>1, <2>2
  <2> QED BY <1>1, <2>1, <2>3 DEF Own
<1>8. Links'
  BY <1>1, <1>2, DisconnectedHolds
<1>9. Nodes'
  <2>1. rare' \in 0 .. MaxRare
    BY <1>1, <1>2, OneMore DEF Nodes
  <2> QED BY <1>1, <1>2, <2>1 DEF Nodes
<1>10. Signing' /\ made' = made
  BY <1>1, <1>2 DEF Signing, signed
<1> QED
  BY <1>4, <1>5, <1>6, <1>7, <1>8, <1>9, <1>10, ListPartsNext

LEMMA RestartHolds ==
  ASSUME ListInv, NEW n \in Node, RestartNode(n)
  PROVE  ListInv'
<1>1. /\ Nodes /\ Own /\ Signing /\ Links /\ DownIsEmpty /\ made \in Nat
      /\ GoodLists(man, made) /\ GoodLists(disk, made)
  BY ListParts DEF Signing
<1> DEFINE m == CheckAndRemove(disk[n], TRUE)
<1>2. /\ mode' = [mode EXCEPT ![n] = "behind"] /\ man' = [man EXCEPT ![n] = m]
      /\ owner' = owner /\ disk' = disk /\ known' = known /\ wire' = wire
      /\ active' = active /\ signed' = signed /\ rare' = rare
  BY DEF RestartNode
<1>3. GoodMan(m, made)
  <2>1. GoodMan(disk[n], made)
    BY <1>1 DEF GoodLists, GoodMan
  <2> QED BY <1>1, <2>1, RemovalHolds
<1> HIDE DEF m
<1>4. GoodLists(man', made)
  BY <1>1, <1>2, <1>3 DEF GoodLists, GoodMan
<1>5. DownIsEmpty'
  BY <1>1, <1>2 DEF DownIsEmpty, Nodes, GoodLists
<1>6. Nodes' /\ Own' /\ Signing' /\ Links' /\ made' = made
  BY <1>1, <1>2 DEF Nodes, Own, Signing, Links, active, signed
<1> QED
  BY <1>1, <1>2, <1>4, <1>5, <1>6, ListPartsNext

LEMMA ModeHolds ==
  ASSUME ListInv, NEW n \in Node, Wake(n) \/ CatchUp(n) \/ Sleep(n)
  PROVE  ListInv'
<1>1. /\ Nodes /\ Own /\ Signing /\ Links /\ DownIsEmpty
      /\ GoodLists(man, made) /\ GoodLists(disk, made)
  BY ListParts
<1>2. /\ mode' \in {[mode EXCEPT ![n] = "behind"], [mode EXCEPT ![n] = "up"],
                    [mode EXCEPT ![n] = "asleep"]}
      /\ owner' = owner /\ man' = man /\ disk' = disk /\ active' = active
      /\ signed' = signed
      /\ rare' = rare \/ (rare < MaxRare /\ rare' = rare + 1)
  BY DEF Wake, CatchUp, Sleep
<1>3. Links'
  <2>1. CASE Wake(n)
    BY <1>1, <2>1 DEF Links, Wake
  <2>2. CASE CatchUp(n)
    <3>1. PICK asked \in SUBSET Peers(n) :
             wire' = wire \cup {Message("dseg", n, p, 0) : p \in asked}
      BY <2>2 DEF CatchUp
    <3>2. \A p \in asked : Message("dseg", n, p, 0) \in MessageType
      BY MessagesHold DEF Peers
    <3>3. known' = known
      BY <2>2 DEF CatchUp
    <3> QED BY <1>1, <3>1, <3>2, <3>3 DEF Links
  <2>3. CASE Sleep(n)
    BY <1>1, <2>3, DisconnectedHolds DEF Sleep
  <2> QED BY <2>1, <2>2, <2>3
<1>4. rare' \in 0 .. MaxRare
  BY <1>1, <1>2, OneMore DEF Nodes
<1>5. Nodes' /\ DownIsEmpty'
  BY <1>1, <1>2, <1>4 DEF Nodes, DownIsEmpty
<1>6. Own' /\ Signing' /\ made' = made
  BY <1>1, <1>2 DEF Own, Signing, active, signed
<1> QED
  BY <1>1, <1>2, <1>3, <1>5, <1>6, ListPartsNext

LEMMA ListInitHolds ==
  ASSUME ListInit
  PROVE  ListInv
<1>1. GoodMan(EmptyMan, 0) /\ made = 0
  BY EmptyHolds DEF ListInit
<1>2. GoodLists(man, made) /\ GoodLists(disk, made)
  BY <1>1 DEF ListInit, GoodLists, GoodMan
<1>3. Own
  <2>1. vinSet \in BOOLEAN /\ managed \in BOOLEAN /\ status = "INITIAL"
    BY DEF ListInit
  <2> QED BY <2>1 DEF Own
<1>4. Nodes /\ Signing /\ Links /\ DownIsEmpty
  BY AgesHold DEF ListInit, Nodes, Signing, Links, DownIsEmpty
<1> QED
  BY <1>2, <1>3, <1>4, ListParts

LEMMA ListStepHolds ==
  ASSUME ListInv, [ListNext]_listVars
  PROVE  ListInv'
<1>1. CASE Work
  BY <1>1, ManageHolds, ReceiveHolds, SweepHolds, TickHolds DEF Work
<1>2. CASE ForgetSome
  BY <1>2, ForgetHolds DEF ForgetSome
<1>3. CASE StartMasternode
  BY <1>3, StartHolds
<1>4. CASE \E n \in Node : ComeBack(n) \/ Sleep(n)
  BY <1>4, RestartHolds, ModeHolds DEF ComeBack
<1>5. CASE \E n \in Node : \E dumped \in BOOLEAN : Stop(n, dumped)
  BY <1>5, StopHolds
<1>6. CASE UNCHANGED listVars
  BY <1>6 DEF listVars, ListInv, ListTypeOK, UpTo
<1> QED
  BY <1>1, <1>2, <1>3, <1>4, <1>5, <1>6 DEF ListNext

LEMMA ListInvHolds ==
  ListSpec => []ListInv
  BY ListInitHolds, ListStepHolds, PTL DEF ListSpec

(* Every node's list, its dump and the messages are well formed, no node   *)
(* has a broadcast that nobody signed, a node that stopped keeps nothing   *)
(* in memory, and a masternode that takes itself for started knows its     *)
(* collateral (ManageStatus and EnableHotColdMasterNode set both).         *)
THEOREM ListTypeCorrect ==
  ListSpec => []ListTypeOK
<1>1. ListInv => ListTypeOK
  BY DEF ListInv
<1> QED
  BY <1>1, ListInvHolds, PTL

-----------------------------------------------------------------------------
(* The list grows old: an age in a list, a dump or a ping under way never  *)
(* becomes less unless the masternode or its owner signs something.        *)

OldMan(m, k) ==
    /\ m.entry # None => m.entry.age >= k
    /\ \A b \in Broadcast : m.seen[b] # None => m.seen[b] >= k
    /\ \A age \in m.pings : age >= k

OldPings(messages, k) == \A x \in messages : x.kind = "mnp" => x.what >= k

\* Nothing in the network says that the masternode has been alive for k units of time.
Gone(k) ==
    /\ \A n \in Node : OldMan(man[n], k) /\ OldMan(disk[n], k)
    /\ OldPings(wire, k)

\* A list with an entry of that age.
OldFilled(m, j, k) == Filled(m, j) /\ OldMan(m, k) /\ m.entry.age >= k

\* Register counts what it signs; ManageStatus, which may sign a ping, is done then.
NobodySigns == made' = made /\ (managed' => managed)

(* What the nodes tell each other - copies of broadcasts, answers, pings,  *)
(* dumps read again - is never younger than what there was; with time all  *)
(* of it ages; and once it is as old as the removal age, no running node   *)
(* lists the masternode when the next unit of time begins.                 *)
AgesOnly ==
    \A k \in 0 .. Removal :
        /\ Gone(k) /\ NobodySigns => Gone(k)'
        /\ Gone(k) /\ Tick /\ k < Removal => Gone(k + 1)'
        /\ Gone(k) /\ Tick /\ k = Removal =>
              \A n \in Node : mode'[n] = "up" => man'[n].entry = None

LEMMA OldWithEntry ==
  ASSUME NEW m \in ManType, NEW k \in Nat, OldMan(m, k), NEW e, e # None => e.age >= k
  PROVE  OldMan([m EXCEPT !.entry = e], k)
<1> DEFINE new == [m EXCEPT !.entry = e]
<1>1. new.entry = e /\ new.seen = m.seen /\ new.pings = m.pings
  BY DEF ManType
<1> HIDE DEF new
<1>2. OldMan(new, k)
  BY <1>1 DEF OldMan
<1> QED
  BY <1>2 DEF new

LEMMA OldWithSeen ==
  ASSUME NEW m \in ManType, NEW k \in Nat, OldMan(m, k), NEW b \in Broadcast, NEW age,
         age # None => age >= k
  PROVE  OldMan([m EXCEPT !.seen[b] = age], k)
<1> DEFINE s == [m.seen EXCEPT ![b] = age]
           new == [m EXCEPT !.seen = s]
<1>1. new.entry = m.entry /\ new.seen = s /\ new.pings = m.pings
  BY DEF ManType
<1>2. \A c \in Broadcast : s[c] = IF c = b THEN age ELSE m.seen[c]
  BY DEF ManType
<1> HIDE DEF s, new
<1>3. OldMan(new, k)
  BY <1>1, <1>2 DEF OldMan
<1> QED
  BY <1>3 DEF new, s

LEMMA OldWithPing ==
  ASSUME NEW m \in ManType, NEW k \in Nat, OldMan(m, k), NEW age, age >= k
  PROVE  OldMan([m EXCEPT !.pings = @ \cup {age}], k)
<1> DEFINE p == m.pings \cup {age}
           new == [m EXCEPT !.pings = p]
<1>1. new.entry = m.entry /\ new.seen = m.seen /\ new.pings = p
  BY DEF ManType
<1>2. \A a \in p : a >= k
  BY DEF OldMan
<1> HIDE DEF p, new
<1>3. OldMan(new, k)
  BY <1>1, <1>2 DEF OldMan
<1> QED
  BY <1>3 DEF new, p

LEMMA OldEmpty == \A k : OldMan(EmptyMan, k)
  BY DEF EmptyMan, OldMan

LEMMA OldChecked ==
  ASSUME NEW m, NEW j, NEW k \in Nat, OldFilled(m, j, k)
  PROVE  OldFilled([m EXCEPT !.entry = Check(@)], j, k)
<1> DEFINE new == [m EXCEPT !.entry = Check(@)]
<1>1. m \in ManType /\ m.entry \in EntryType /\ m.entry.age >= k /\ OldMan(m, k)
  BY DEF OldFilled, Filled, GoodMan
<1>2. Check(m.entry).age >= k
  BY <1>1 DEF Check, EntryType
<1>3. OldMan(new, k)
  BY <1>1, <1>2, OldWithEntry
<1>4. Filled(new, j)
  BY CheckedHolds DEF OldFilled
<1>5. new.entry.age >= k
  BY <1>1, <1>2 DEF ManType
<1> QED
  BY <1>3, <1>4, <1>5 DEF OldFilled

LEMMA OldPinged ==
  ASSUME NEW m, NEW j, NEW k \in Nat, OldFilled(m, j, k), NEW age \in 0 .. Window - 1, age >= k
  PROVE  OldFilled(Pinged(m, age), j, k)
<1> DEFINE e == [m.entry EXCEPT !.age = age]
           b == m.entry.b
           a == IF m.seen[b] = None THEN None ELSE age
           s == [m EXCEPT !.seen[b] = a]
<1>1. /\ m \in ManType /\ m.entry \in EntryType /\ b \in Broadcast /\ OldMan(m, k)
      /\ e.age = age
  BY DEF OldFilled, Filled, GoodMan, EntryType
<1>2. Pinged(m, age) = [s EXCEPT !.entry = e]
  BY <1>1 DEF Pinged, ManType
<1>3. a # None => a >= k
  OBVIOUS
<1>4. a \in (0 .. Forgotten + 1) \cup {None}
  BY AgesHold
<1>5. s \in ManType
  <2> DEFINE t == [m.seen EXCEPT ![b] = a]
  <2> HIDE DEF a, b
  <2>1. t \in [Broadcast -> (0 .. Forgotten + 1) \cup {None}]
    BY <1>1, <1>4 DEF ManType
  <2>2. s = [m EXCEPT !.seen = t]
    OBVIOUS
  <2> HIDE DEF t
  <2> QED BY <1>1, <2>1, <2>2 DEF ManType
<1>6. OldMan(s, k)
  <2> HIDE DEF a, b
  <2> QED BY <1>1, <1>3, OldWithSeen
<1> HIDE DEF e, s
<1>7. OldMan([s EXCEPT !.entry = e], k) /\ [s EXCEPT !.entry = e].entry.age >= k
  BY <1>1, <1>5, <1>6, OldWithEntry DEF ManType
<1>8. Filled(Pinged(m, age), j)
  BY PingedHolds DEF OldFilled
<1> QED
  BY <1>2, <1>7, <1>8 DEF OldFilled

LEMMA OldUpdate ==
  ASSUME NEW m, NEW j, NEW k \in Nat, OldFilled(m, j, k), NEW b \in Broadcast, b <= j,
         NEW age \in 0 .. Forgotten + 1, age >= k
  PROVE  OldFilled(UpdateFromNewBroadcast(m, b, age), j, k)
<1> DEFINE e == [m.entry EXCEPT !.b = b]
           renewed == [m EXCEPT !.entry.b = b]
           checked == [Pinged(renewed, age) EXCEPT !.entry = Check(@)]
           new == [checked EXCEPT !.pings = @ \cup {age}]
<1>1. m \in ManType /\ m.entry \in EntryType /\ OldMan(m, k) /\ m.entry.age >= k /\ GoodMan(m, j)
  BY DEF OldFilled, Filled, GoodMan
<1>2. e \in EntryType /\ e.b = b /\ e.age >= k
  BY <1>1 DEF EntryType
<1>3. renewed = [m EXCEPT !.entry = e]
  OBVIOUS
<1> HIDE DEF e, renewed
<1>4. OldFilled(renewed, j, k)
  <2>1. Filled(renewed, j)
    BY <1>1, <1>2, <1>3, WithEntry
  <2>2. OldMan(renewed, k)
    BY <1>1, <1>2, <1>3, OldWithEntry
  <2>3. renewed.entry = e
    BY <1>1, <1>3 DEF ManType
  <2> QED BY <1>2, <2>1, <2>2, <2>3 DEF OldFilled
<1>5. CASE PingFits(m.entry, age)
  <2>1. age \in 0 .. Window - 1
    BY <1>5, AgesHold, FitsHolds
  <2>2. OldFilled(Pinged(renewed, age), j, k)
    BY <1>4, <2>1, OldPinged
  <2>3. OldFilled(checked, j, k)
    BY <2>2, OldChecked
  <2> HIDE DEF checked
  <2>4. checked \in ManType /\ GoodMan(checked, j)
    BY <2>3 DEF OldFilled, Filled, GoodMan
  <2>5. OldMan(new, k)
    BY <2>3, <2>4, OldWithPing DEF OldFilled
  <2>6. new.entry = checked.entry /\ GoodMan(new, j)
    BY <2>1, <2>4, WithPing
  <2>7. OldFilled(new, j, k)
    <3> HIDE DEF new
    <3> QED BY <2>3, <2>5, <2>6 DEF OldFilled, Filled
  <2>8. UpdateFromNewBroadcast(m, b, age) = new
    BY <1>5 DEF UpdateFromNewBroadcast, checked, renewed
  <2> QED BY <2>7, <2>8
<1>6. CASE ~PingFits(m.entry, age)
  BY <1>4, <1>6 DEF UpdateFromNewBroadcast, renewed
<1> QED
  BY <1>5, <1>6

LEMMA OldRemoval ==
  ASSUME NEW m, NEW j, GoodMan(m, j), NEW k \in Nat, OldMan(m, k), NEW force \in BOOLEAN
  PROVE  OldMan(CheckAndRemove(m, force), k)
<1> DEFINE entry == IF m.entry = None THEN None ELSE Check(m.entry)
           kept == [b \in Broadcast |-> IF m.seen[b] # None /\ m.seen[b] > Forgotten
                                        THEN None ELSE m.seen[b]]
           new == [m EXCEPT !.entry = entry, !.seen = kept]
           emptied == [EmptyMan EXCEPT !.pings = m.pings]
<1>1. CheckAndRemove(m, force) \in {emptied, new}
  BY DEF CheckAndRemove
<1>2. m \in ManType
  BY DEF GoodMan
<1>3. OldMan(emptied, k)
  <2>1. /\ emptied.entry = None /\ emptied.pings = m.pings
        /\ \A b \in Broadcast : emptied.seen[b] = None
    BY DEF EmptyMan
  <2> HIDE DEF emptied
  <2> QED BY <2>1 DEF OldMan
<1>4. entry # None => entry.age >= k
  <2>1. m.entry # None => m.entry \in EntryType /\ m.entry.age >= k
    BY <1>2 DEF ManType, OldMan
  <2> QED BY <2>1 DEF Check, EntryType
<1>5. \A b \in Broadcast : kept[b] # None => kept[b] >= k
  BY DEF OldMan
<1>6. new.entry = entry /\ new.seen = kept /\ new.pings = m.pings
  BY <1>2 DEF ManType
<1> HIDE DEF entry, kept, new
<1>7. OldMan(new, k)
  BY <1>4, <1>5, <1>6 DEF OldMan
<1> QED
  BY <1>1, <1>3, <1>7

LEMMA OldAged ==
  ASSUME NEW m, NEW j, GoodMan(m, j), NEW k \in Nat, OldMan(m, k)
  PROVE  /\ k <= Removal => OldMan(AgedMan(m), k)
         /\ k < Removal => OldMan(AgedMan(m), k + 1)
<1>1. m \in ManType
  BY DEF GoodMan
<1>2. ASSUME NEW l \in Nat, l <= Removal, l = k \/ l = k + 1  PROVE OldMan(AgedMan(m), l)
  <2>1. \A limit \in Nat : \A age \in 0 .. limit :
           age >= k /\ limit >= l => OneOlder(age, limit) >= l
    BY <1>2 DEF OneOlder
  <2>2. AgedMan(m).entry # None => AgedMan(m).entry.age >= l
    <3> SUFFICES ASSUME AgedMan(m).entry # None  PROVE AgedMan(m).entry.age >= l
      OBVIOUS
    <3>1. m.entry # None
      BY DEF AgedMan
    <3>2. m.entry \in EntryType /\ m.entry.age \in 0 .. Removal /\ m.entry.age >= k
      BY <1>1, <3>1 DEF ManType, EntryType, OldMan
    <3>3. AgedMan(m).entry = [m.entry EXCEPT !.age = OneOlder(@, Removal)]
      BY <3>1 DEF AgedMan
    <3>4. AgedMan(m).entry.age = OneOlder(m.entry.age, Removal)
      BY <3>2, <3>3 DEF EntryType
    <3>5. OneOlder(m.entry.age, Removal) >= l
      BY <1>2, <2>1, <3>2, AgesHold
    <3> QED BY <3>4, <3>5
  <2>3. ASSUME NEW b \in Broadcast, AgedMan(m).seen[b] # None  PROVE AgedMan(m).seen[b] >= l
    <3>1. AgedMan(m).seen[b] = IF m.seen[b] = None THEN None ELSE OneOlder(m.seen[b], Forgotten + 1)
      BY DEF AgedMan
    <3>2. m.seen[b] # None
      BY <2>3, <3>1
    <3>3. m.seen[b] \in 0 .. Forgotten + 1 /\ m.seen[b] >= k
      BY <1>1, <3>2 DEF ManType, OldMan
    <3>4. Forgotten + 1 \in Nat /\ Forgotten + 1 >= l
      BY <1>2, AgesHold
    <3>5. OneOlder(m.seen[b], Forgotten + 1) >= l
      BY <2>1, <3>3, <3>4
    <3> QED BY <3>1, <3>2, <3>5
  <2>4. \A age \in AgedMan(m).pings : age >= l
    <3>1. AgedMan(m).pings = {age + 1 : age \in m.pings} \cap 0 .. Window - 1
      BY DEF AgedMan
    <3>2. \A age \in m.pings : age \in Nat /\ age >= k
      BY <1>1, AgesHold DEF ManType, OldMan
    <3>3. \A age \in m.pings : age + 1 >= l
      BY <1>2, <3>2
    <3> QED BY <3>1, <3>3
  <2> QED BY <2>2, <2>3, <2>4 DEF OldMan
<1> QED
  BY <1>2, AgesHold

\* A node that ends up with an old list and sends old pings leaves the network as old.
LEMMA OldHandled ==
  ASSUME ListInv, NEW k \in Nat, Gone(k), NEW n \in Node, NEW m, OldMan(m, k),
         NEW in, NEW out, OldPings(out, k), Handled(n, m, in, out), disk' = disk
  PROVE  Gone(k)'
<1>1. man \in [Node -> ManType] /\ man' = [man EXCEPT ![n] = m] /\ wire' = (wire \ in) \cup out
  BY DEF ListInv, ListTypeOK, Handled
<1>2. \A p \in Node : man'[p] = IF p = n THEN m ELSE man[p]
  BY <1>1
<1>3. \A p \in Node : OldMan(man'[p], k) /\ OldMan(disk'[p], k)
  BY <1>2 DEF Gone
<1>4. OldPings(wire', k)
  BY <1>1 DEF Gone, OldPings
<1> QED
  BY <1>3, <1>4 DEF Gone, OldMan, OldPings

LEMMA OldMessages ==
  ASSUME NEW n, NEW k \in Nat
  PROVE  /\ \A b, to : OldPings(Announce(n, b, to), k)
         /\ \A age, except : age >= k => OldPings(RelayPing(n, age, except), k)
         /\ \A m, age : age >= k => OldPings(UpdateRelays(n, m, age), k)
<1>1. \A b, to : OldPings(Announce(n, b, to), k)
  BY DEF OldPings, Announce, Message
<1>2. \A age, except : age >= k => OldPings(RelayPing(n, age, except), k)
  BY DEF OldPings, RelayPing, Message
<1> QED
  BY <1>1, <1>2 DEF UpdateRelays, OldPings

LEMMA OldTake ==
  ASSUME ListInv, NEW k \in 0 .. Removal, Gone(k), NEW x \in wire, x.kind = "mnb",
         man[x.from].seen[x.what] # None, NEW mainTaken \in BOOLEAN,
         TakeBroadcast(x, mainTaken), disk' = disk
  PROVE  Gone(k)'
<1> DEFINE n == x.to
           b == x.what
           age == man[x.from].seen[b]
           copied == [man[n] EXCEPT !.seen[b] = age]
           m == IF Updates(man[n], b)
                THEN [UpdateFromNewBroadcast(copied, b, age) EXCEPT !.entry = Check(@)]
                ELSE copied
           relayed == IF ~Updates(man[n], b) THEN {}
                      ELSE UpdateRelays(n, man[n], age)
                           \cup IF Enabled(m) THEN Announce(n, b, Node \ {x.from}) ELSE {}
<1>0. k \in Nat /\ k <= Removal /\ made \in Nat /\ GoodLists(man, made) /\ wire \subseteq MessageType
  BY ListParts, AgesHold DEF Signing, Links
<1>1. n \in Node /\ x.from \in Node /\ b \in Broadcast
  BY <1>0, WhatIsKnown
<1>2. GoodMan(man[n], made) /\ GoodMan(man[x.from], made)
  BY <1>0, <1>1 DEF GoodLists, GoodMan
<1>3. age \in 0 .. Forgotten + 1 /\ age \in Nat /\ b <= made
  BY <1>1, <1>2, AgesHold DEF GoodMan, ManType, UpTo
<1>4. OldMan(man[n], k) /\ age >= k
  BY <1>1 DEF Gone, OldMan
<1> HIDE DEF n, b, age
<1>5. GoodMan(copied, made) /\ copied.entry = man[n].entry
  BY <1>1, <1>2, <1>3, WithSeen
<1>6. OldMan(copied, k)
  BY <1>0, <1>1, <1>2, <1>4, OldWithSeen DEF GoodMan
<1> HIDE DEF copied
<1>7. OldMan(m, k) /\ GoodMan(m, made)
  <2>1. CASE Updates(man[n], b)
    <3>1. copied.entry # None
      BY <1>5, <2>1 DEF Updates, Enabled
    <3>2. OldFilled(copied, made, k)
      BY <1>5, <1>6, <3>1, IsFilled DEF OldFilled, OldMan
    <3>3. OldFilled(UpdateFromNewBroadcast(copied, b, age), made, k)
      BY <1>0, <1>1, <1>3, <1>4, <3>2, OldUpdate
    <3>4. OldFilled([UpdateFromNewBroadcast(copied, b, age) EXCEPT !.entry = Check(@)], made, k)
      BY <1>0, <3>3, OldChecked
    <3> QED BY <2>1, <3>4 DEF OldFilled, Filled
  <2>2. CASE ~Updates(man[n], b)
    BY <1>5, <1>6, <2>2
  <2> QED BY <2>1, <2>2
<1> HIDE DEF m
<1> DEFINE told == Announce(n, b, Node \ {x.from})
<1>8. OldPings(told, k) /\ OldPings({}, k)
  BY <1>0, OldMessages DEF OldPings
<1>9. OldPings(relayed, k)
  <2>1. OldPings(UpdateRelays(n, man[n], age), k)
    BY <1>0, <1>4, OldMessages
  <2> HIDE DEF told
  <2> QED BY <1>8, <2>1 DEF OldPings, told
<1>10. \/ Handled(n, m, {x}, relayed)
       \/ Handled(n, [m EXCEPT !.entry = None, !.seen[b] = None], {x}, relayed)
       \/ Handled(n, [m EXCEPT !.entry = NewEntry(b, age)], {x}, relayed \cup told)
  <2>1. \/ /\ Handled(n, m, {x}, relayed)
           /\ UNCHANGED <<status, vinSet>>
        \/ /\ Handled(n, [m EXCEPT !.entry = None, !.seen[b] = None], {x}, relayed)
           /\ UNCHANGED <<status, vinSet>>
        \/ /\ Handled(n, [m EXCEPT !.entry = NewEntry(b, age)], {x}, relayed \cup told)
           /\ IF n = Self THEN EnableHotColdMasterNode ELSE UNCHANGED <<status, vinSet>>
    BY DEF TakeBroadcast, n, b, age, copied, m
  <2> QED BY <2>1
<1> HIDE DEF relayed, told
<1>11. CASE Handled(n, m, {x}, relayed)
  BY <1>0, <1>1, <1>7, <1>9, <1>11, OldHandled
<1>12. CASE Handled(n, [m EXCEPT !.entry = None, !.seen[b] = None], {x}, relayed)
  <2> DEFINE e == [m EXCEPT !.entry = None]
             f == [e EXCEPT !.seen[b] = None]
  <2>1. e \in ManType /\ OldMan(e, k)
    BY <1>0, <1>7, WithoutEntry, OldWithEntry DEF GoodMan
  <2>2. f = [m EXCEPT !.entry = None, !.seen[b] = None]
    BY <1>7 DEF GoodMan, ManType
  <2> HIDE DEF e
  <2>3. OldMan(f, k)
    BY <1>0, <1>1, <2>1, OldWithSeen
  <2> HIDE DEF f
  <2> QED BY <1>0, <1>1, <1>9, <1>12, <2>2, <2>3, OldHandled
<1>13. CASE Handled(n, [m EXCEPT !.entry = NewEntry(b, age)], {x}, relayed \cup told)
  <2>1. NewEntry(b, age).age >= k
    BY <1>0, <1>3, <1>4, AgesHold DEF NewEntry
  <2>2. OldMan([m EXCEPT !.entry = NewEntry(b, age)], k)
    BY <1>0, <1>7, <2>1, OldWithEntry DEF GoodMan
  <2>3. OldPings(relayed \cup told, k)
    BY <1>8, <1>9 DEF OldPings
  <2> QED BY <1>0, <1>1, <1>13, <2>2, <2>3, OldHandled
<1> QED
  BY <1>10, <1>11, <1>12, <1>13

LEMMA OldReceive ==
  ASSUME ListInv, NEW k \in 0 .. Removal, Gone(k), NEW x \in wire, Receive(x)
  PROVE  Gone(k)'
<1> DEFINE n == x.to
<1>1. /\ k \in Nat /\ made \in Nat /\ GoodLists(man, made) /\ wire \subseteq MessageType
      /\ OldPings({}, k)
  BY ListParts, AgesHold DEF Signing, Links, OldPings
<1>2. n \in Node /\ x.from \in Node
  BY <1>1, WhatIsKnown
<1>3. GoodMan(man[n], made) /\ man[n] \in ManType /\ OldMan(man[n], k) /\ GoodMan(man[x.from], made)
  BY <1>1, <1>2 DEF GoodLists, GoodMan, Gone
<1>4. CASE Ignored(x)
  <2>1. Handled(n, man[n], {x}, {}) /\ disk' = disk
    BY <1>4 DEF Ignored
  <2> QED BY <1>1, <1>2, <1>3, <2>1, OldHandled
<1>5. CASE ReceiveBroadcast(x)
  <2> DEFINE age == man[x.from].seen[x.what]
             stale == [man[n] EXCEPT !.seen[x.what] = age]
  <2>1. /\ x.kind = "mnb" /\ age # None /\ disk' = disk
        /\ \/ Handled(n, stale, {x}, {})
           \/ \E mainTaken \in BOOLEAN : TakeBroadcast(x, mainTaken)
    BY <1>5 DEF ReceiveBroadcast
  <2>2. CASE Handled(n, stale, {x}, {})
    <3>1. x.what \in Broadcast
      BY <1>1, <2>1, WhatIsKnown
    <3>2. age >= k
      BY <1>2, <2>1, <3>1 DEF Gone, OldMan
    <3>3. OldMan(stale, k)
      <4> HIDE DEF n, age
      <4> QED BY <1>1, <1>3, <3>1, <3>2, OldWithSeen
    <3> HIDE DEF stale, n
    <3> QED BY <1>1, <1>2, <2>1, <2>2, <3>3, OldHandled
  <2>3. CASE \E mainTaken \in BOOLEAN : TakeBroadcast(x, mainTaken)
    BY <2>1, <2>3, OldTake
  <2> QED BY <2>1, <2>2, <2>3
<1>6. CASE ReceivePing(x)
  <2> DEFINE heard == [man[n] EXCEPT !.pings = @ \cup {x.what}]
             pinged == [Pinged(heard, x.what) EXCEPT !.entry = Check(@)]
             asking == [heard EXCEPT !.wait = AskAgain]
             ask == {Message("dseg", n, p, 0) : p \in Peers(n) \cap {x.from}}
  <2>1. /\ x.kind = "mnp" /\ disk' = disk
        /\ \/ heard.entry # None /\ Handled(n, pinged, {x}, RelayPing(n, x.what, {x.from}))
           \/ Handled(n, heard, {x}, {})
           \/ Handled(n, asking, {x}, ask)
    BY <1>6 DEF ReceivePing, Enabled
  <2>2. x.what \in 0 .. Window - 1 /\ x.what >= k
    BY <1>1, <2>1, WhatIsKnown DEF Gone, OldPings
  <2>3. GoodMan(heard, made) /\ OldMan(heard, k)
    <3> HIDE DEF n
    <3> QED BY <1>1, <1>3, <2>2, WithPing, OldWithPing
  <2> HIDE DEF heard
  <2>4. heard.entry # None => OldMan(pinged, k)
    <3> SUFFICES ASSUME heard.entry # None  PROVE OldMan(pinged, k)
      OBVIOUS
    <3>1. OldFilled(heard, made, k)
      BY <2>3, IsFilled DEF OldFilled, OldMan
    <3>2. OldFilled(Pinged(heard, x.what), made, k)
      BY <1>1, <2>2, <3>1, OldPinged
    <3> QED BY <1>1, <3>2, OldChecked DEF OldFilled
  <2>5. OldMan(asking, k)
    <3>1. asking.entry = heard.entry /\ asking.seen = heard.seen /\ asking.pings = heard.pings
      BY <2>3 DEF GoodMan, ManType
    <3> HIDE DEF asking
    <3> QED BY <2>3, <3>1 DEF OldMan
  <2>6. OldPings(RelayPing(n, x.what, {x.from}), k) /\ OldPings(ask, k)
    <3>1. OldPings(ask, k)
      BY DEF OldPings, Message
    <3> HIDE DEF n, ask
    <3> QED BY <1>1, <2>2, <3>1, OldMessages
  <2> HIDE DEF pinged, asking, ask, n
  <2> QED BY <1>1, <1>2, <2>1, <2>3, <2>4, <2>5, <2>6, OldHandled
<1>7. CASE ReceiveDseg(x)
  <2> DEFINE m == man[n]
             b == m.entry.b
             age == IF m.seen[b] = None THEN m.entry.age ELSE m.seen[b]
             listed == [m EXCEPT !.seen[b] = age]
  <2>1. /\ disk' = disk
        /\ \/ Enabled(m) /\ Handled(n, listed, {x}, Announce(n, b, {x.from}))
           \/ Handled(n, m, {x}, {})
    BY <1>7 DEF ReceiveDseg
  <2>2. CASE Enabled(m) /\ Handled(n, listed, {x}, Announce(n, b, {x.from}))
    <3>1. m.entry # None /\ m.entry \in EntryType
      BY <1>3, <2>2 DEF Enabled, ManType
    <3>2. b \in Broadcast
      BY <3>1 DEF EntryType
    <3>3. age >= k
      BY <1>3, <3>1, <3>2 DEF OldMan
    <3>4. OldMan(listed, k)
      <4> HIDE DEF b, age
      <4> QED BY <1>1, <1>3, <3>2, <3>3, OldWithSeen
    <3>5. OldPings(Announce(n, b, {x.from}), k)
      BY <1>1, OldMessages
    <3> HIDE DEF listed, n, b
    <3> QED BY <1>1, <1>2, <2>1, <2>2, <3>4, <3>5, OldHandled
  <2>3. CASE Handled(n, m, {x}, {})
    BY <1>1, <1>2, <1>3, <2>1, <2>3, OldHandled
  <2> QED BY <2>1, <2>2, <2>3
<1> QED
  BY <1>4, <1>5, <1>6, <1>7 DEF Receive

LEMMA OldTick ==
  ASSUME ListInv, NEW k \in 0 .. Removal, Gone(k), Tick
  PROVE  /\ Gone(k)'
         /\ k < Removal => Gone(k + 1)'
         /\ k = Removal => \A n \in Node : mode'[n] = "up" => man'[n].entry = None
<1>1. k \in Nat /\ k + 1 \in Nat /\ k <= Removal /\ GoodLists(man, made) /\ GoodLists(disk, made)
  BY ListParts, AgesHold
<1>2. /\ man' = [n \in Node |-> AgedMan(man[n])] /\ disk' = [n \in Node |-> AgedMan(disk[n])]
      /\ wire' = {} /\ mode' = mode
      /\ \A n \in Node : mode[n] = "up" => CheckAndRemove(man[n], FALSE) = man[n]
  BY DEF Tick
<1>3. \A n \in Node : /\ GoodMan(man[n], made) /\ GoodMan(disk[n], made)
                      /\ OldMan(man[n], k) /\ OldMan(disk[n], k)
  <2>1. \A n \in Node : GoodMan(man[n], made)
    BY <1>1 DEF GoodLists, GoodMan
  <2>2. \A n \in Node : GoodMan(disk[n], made)
    BY <1>1 DEF GoodLists, GoodMan
  <2>3. \A n \in Node : OldMan(man[n], k) /\ OldMan(disk[n], k)
    BY DEF Gone
  <2> QED BY <2>1, <2>2, <2>3
<1>4. Gone(k)'
  <2>1. \A n \in Node : OldMan(man'[n], k) /\ OldMan(disk'[n], k)
    BY <1>1, <1>2, <1>3, OldAged
  <2> QED BY <1>2, <2>1 DEF Gone, OldMan, OldPings
<1>5. ASSUME k < Removal  PROVE Gone(k + 1)'
  <2>1. \A n \in Node : OldMan(man'[n], k + 1) /\ OldMan(disk'[n], k + 1)
    BY <1>1, <1>2, <1>3, <1>5, OldAged
  <2> QED BY <1>2, <2>1 DEF Gone, OldMan, OldPings
<1>6. ASSUME k = Removal, NEW n \in Node, mode'[n] = "up"  PROVE man'[n].entry = None
  <2>1. CheckAndRemove(man[n], FALSE) = man[n]
    BY <1>2, <1>6
  <2>2. man[n].entry = None
    <3> SUFFICES ASSUME man[n].entry # None  PROVE FALSE
      OBVIOUS
    <3>1. man[n].entry \in EntryType /\ man[n].entry.age >= Removal
      BY <1>3, <1>6 DEF GoodMan, ManType, OldMan
    <3>2. Check(man[n].entry).state = "REMOVE"
      BY <3>1 DEF Check, EntryType
    <3>3. CheckAndRemove(man[n], FALSE).entry = None \/ Check(man[n].entry) = None
      BY <3>2 DEF CheckAndRemove, EmptyMan
    <3>4. Check(man[n].entry) = None => CheckAndRemove(man[n], FALSE).entry = None
      BY <1>3 DEF CheckAndRemove, GoodMan, ManType
    <3> QED BY <2>1, <3>3, <3>4
  <2>3. man'[n] = AgedMan(man[n])
    BY <1>2
  <2> QED BY <2>2, <2>3 DEF AgedMan
<1> QED
  BY <1>4, <1>5, <1>6

LEMMA OldRest ==
  ASSUME ListInv, NEW k \in 0 .. Removal, Gone(k), NEW n \in Node,
         \/ Sweep(n) \/ ForgetSome \/ ComeBack(n) \/ Sleep(n)
         \/ \E dumped \in BOOLEAN : Stop(n, dumped)
  PROVE  Gone(k)'
<1>1. /\ k \in Nat /\ GoodLists(man, made) /\ GoodLists(disk, made)
      /\ man \in [Node -> ManType] /\ disk \in [Node -> ManType]
  BY ListParts, AgesHold DEF GoodLists
<1>2. \A p \in Node : /\ GoodMan(man[p], made) /\ GoodMan(disk[p], made)
                      /\ OldMan(man[p], k) /\ OldMan(disk[p], k)
  BY <1>1 DEF GoodLists, GoodMan, Gone
<1>3. /\ man' \in {man, [man EXCEPT ![n] = EmptyMan],
                   [man EXCEPT ![n] = CheckAndRemove(man[n], FALSE)],
                   [man EXCEPT ![n] = CheckAndRemove(disk[n], TRUE)]}
      /\ disk' \in {disk, [disk EXCEPT ![n] = man[n]]}
  BY DEF Sweep, ForgetSome, Forget, ComeBack, Wake, RestartNode, CatchUp, Sleep, Stop
<1>4. \A x \in wire' : x.kind = "mnp" => x \in wire
  <2>1. CASE CatchUp(n)
    BY <2>1 DEF CatchUp, Message
  <2>2. CASE ~CatchUp(n)
    BY <2>2 DEF Sweep, ForgetSome, Forget, ComeBack, Wake, RestartNode, Sleep, Stop, Disconnected
  <2> QED BY <2>1, <2>2
<1>5. \A p \in Node : OldMan(man'[p], k)
  <2>1. OldMan(EmptyMan, k) /\ OldMan(CheckAndRemove(man[n], FALSE), k)
        /\ OldMan(CheckAndRemove(disk[n], TRUE), k)
    BY <1>1, <1>2, OldEmpty, OldRemoval
  <2> QED BY <1>1, <1>2, <1>3, <2>1
<1>6. \A p \in Node : OldMan(disk'[p], k)
  BY <1>1, <1>2, <1>3
<1>7. OldPings(wire', k)
  BY <1>4 DEF Gone, OldPings
<1> QED
  BY <1>5, <1>6, <1>7 DEF Gone, OldMan, OldPings

\* A masternode that signs nothing any more is nowhere kept alive by what the nodes
\* remember and tell each other: what they have of it ages with time, through pings,
\* copies, questions, expiry, crashes and restarts, until no running node lists it
\* (CheckAndUpdate takes the age of a ping, CheckAndRemove the age of an entry).
THEOREM NothingIsRejuvenated == ListSpec => [][AgesOnly]_listVars
<1>1. ASSUME ListInv, [ListNext]_listVars  PROVE [AgesOnly]_listVars
  <2> SUFFICES ASSUME ListNext, NEW k \in 0 .. Removal, Gone(k)
               PROVE  /\ NobodySigns => Gone(k)'
                      /\ Tick /\ k < Removal => Gone(k + 1)'
                      /\ Tick /\ k = Removal =>
                            \A n \in Node : mode'[n] = "up" => man'[n].entry = None
    BY <1>1 DEF AgesOnly
  <2>1. ASSUME NobodySigns  PROVE Gone(k)'
    <3>1. CASE ManageStatus
      BY <2>1, <3>1 DEF ManageStatus, NobodySigns
    <3>2. CASE StartMasternode
      <4>1. made \in Nat /\ made' = made + 1
        BY <1>1, <3>2, ListParts, AgesHold DEF Signing, StartMasternode, Register
      <4> QED BY <2>1, <4>1 DEF NobodySigns
    <3>3. CASE \E x \in wire : Receive(x)
      BY <1>1, <3>3, OldReceive
    <3>4. CASE Tick
      BY <1>1, <3>4, OldTick
    <3>5. CASE ForgetSome
      <4>1. Self \in Node
        BY AgesHold
      <4> QED BY <1>1, <3>5, <4>1, OldRest
    <3>6. CASE \E n \in Node : Sweep(n) \/ ComeBack(n) \/ Sleep(n) \/ \E dumped \in BOOLEAN : Stop(n, dumped)
      BY <1>1, <3>6, OldRest
    <3> QED BY <3>1, <3>2, <3>3, <3>4, <3>5, <3>6 DEF ListNext, Work
  <2> QED BY <1>1, <2>1, OldTick
<1> QED
  BY <1>1, ListInvHolds, PTL DEF ListSpec
=============================================================================
