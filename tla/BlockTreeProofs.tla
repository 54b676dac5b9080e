--------------------------- MODULE BlockTreeProofs ---------------------------
(***************************************************************************)
(* Theorems about BlockTree, for every tree, threads and refusals.         *)
(*                                                                         *)
(* First the tree: the way from a block to the genesis block is a line, on *)
(* which height and work grow, and the comparator is a strict order.  Then *)
(* the invariant IInv of the index and of the chain, with one lemma per    *)
(* action that disturbs it.  FindMostHolds and StepMoves say what the two  *)
(* loops of the activation achieve; both invariants use them.  Then why no *)
(* round of the activation is idle, and at last SteadyInv, under which it  *)
(* ends at the best block.                                                 *)
(***************************************************************************)
EXTENDS BlockTree, FiniteSetTheorems, WellFoundedInduction, TLAPS

-----------------------------------------------------------------------------
(* The tree.                                                               *)

\* The least-number principle for sets: the one induction the proofs need.
LEMMA LeastNatural ==
  ASSUME NEW S \in SUBSET Nat, S # {}
  PROVE  \E m \in S : \A k \in S : m <= k
<1> DEFINE R == OpToRel(<, Nat)
<1>1. \A k, m \in Nat : <<k, m>> \in R <=> k < m
  BY DEF OpToRel
<1>2. IsWellFoundedOn(R, Nat)
  BY NatLessThanWellFounded
<1>3. S \subseteq Nat
  OBVIOUS
<1> HIDE DEF R
<1>4. PICK m \in S : \A k \in S : ~(<<k, m>> \in R)
  BY <1>2, <1>3, WFMin, Zenon
<1>5. \A k \in S : ~(k < m)
  BY <1>1, <1>3, <1>4
<1> QED
  BY <1>3, <1>5

LEMMA ParentHolds ==
  ASSUME NEW b \in Block
  PROVE  /\ Parent[b] \in Block /\ Height[b] \in Nat /\ Work[b] \in Nat
         /\ b # Genesis => /\ Height[b] = Height[Parent[b]] + 1
                           /\ Work[b] > Work[Parent[b]]
         /\ b = Genesis => Parent[b] = b
<1>1. Proof[b] \in Nat \ {0} /\ Parent[b] \in Block
  BY BlockTreeAssumption
<1> QED
  BY <1>1, BlockTreeAssumption

LEMMA AncestorsWithin ==
  ASSUME NEW b \in Block, NEW S \in SUBSET Block, b \in S, \A x \in S : Parent[x] \in S
  PROVE  Ancestors[b] \subseteq S
BY DEF Ancestors, LeadsTo

LEMMA AncestorsBasic ==
  ASSUME NEW b \in Block
  PROVE  /\ Ancestors[b] \subseteq Block /\ b \in Ancestors[b]
         /\ \A a \in Ancestors[b] : Parent[a] \in Ancestors[b]
<1>1. Ancestors[b] \subseteq Block /\ b \in Ancestors[b]
  BY DEF Ancestors, LeadsTo
<1>2. ASSUME NEW a \in Ancestors[b]  PROVE Parent[a] \in Ancestors[b]
  <2>1. a \in Block /\ LeadsTo(b, a)
    BY DEF Ancestors
  <2>2. Parent[a] \in Block
    BY <2>1, ParentHolds
  <2>3. LeadsTo(b, Parent[a])
    BY <2>1 DEF LeadsTo
  <2> QED
    BY <2>2, <2>3 DEF Ancestors
<1> QED
  BY <1>1, <1>2

LEMMA AncestorsTransitive ==
  ASSUME NEW c \in Block, NEW b \in Ancestors[c]
  PROVE  Ancestors[b] \subseteq Ancestors[c]
<1>1. b \in Block /\ Ancestors[c] \in SUBSET Block
  BY AncestorsBasic
<1> QED
  BY <1>1, AncestorsBasic, AncestorsWithin

\* One step back.
LEMMA AncestorsOfParent ==
  ASSUME NEW b \in Block
  PROVE  Ancestors[b] = {b} \cup Ancestors[Parent[b]]
<1> DEFINE S == {b} \cup Ancestors[Parent[b]]
<1>1. Parent[b] \in Block
  BY ParentHolds
<1>2. S \in SUBSET Block /\ b \in S
  BY <1>1, AncestorsBasic
<1>3. \A x \in S : Parent[x] \in S
  BY <1>1, AncestorsBasic
<1>4. Ancestors[b] \subseteq S
  BY <1>2, <1>3, AncestorsWithin
<1>5. Parent[b] \in Ancestors[b] /\ b \in Ancestors[b]
  BY AncestorsBasic
<1> QED
  BY <1>4, <1>5, AncestorsTransitive

\* The way to the genesis block goes down, in height and in work.
LEMMA AncestorsAreLower ==
  ASSUME NEW b \in Block, NEW a \in Ancestors[b], a # b
  PROVE  Height[a] < Height[b] /\ Work[a] < Work[b]
<1> DEFINE S == {x \in Block : x = b \/ (Height[x] < Height[b] /\ Work[x] < Work[b])}
<1>1. S \in SUBSET Block /\ b \in S
  OBVIOUS
<1>2. ASSUME NEW x \in S  PROVE Parent[x] \in S
  <2>1. Height[x] \in Nat /\ Work[x] \in Nat /\ Height[b] \in Nat /\ Work[b] \in Nat /\ x \in Block
    BY ParentHolds
  <2>2. CASE x = Genesis
    BY <2>2, ParentHolds
  <2>3. CASE x # Genesis
    <3>1. Parent[x] \in Block /\ Height[x] = Height[Parent[x]] + 1 /\ Work[x] > Work[Parent[x]]
      BY <2>1, <2>3, ParentHolds
    <3>2. Height[Parent[x]] \in Nat /\ Work[Parent[x]] \in Nat
      BY <3>1, ParentHolds
    <3>3. Height[Parent[x]] < Height[x] /\ Work[Parent[x]] < Work[x]
      BY <3>1, <3>2, <2>1
    <3>4. Height[x] <= Height[b] /\ Work[x] <= Work[b]
      BY <2>1
    <3> QED
      BY <3>1, <3>2, <3>3, <3>4, <2>1
  <2> QED
    BY <2>2, <2>3
<1>3. Ancestors[b] \subseteq S
  BY <1>1, <1>2, AncestorsWithin
<1> QED
  BY <1>3

LEMMA ParentIsBelow ==
  ASSUME NEW b \in Block, b # Genesis
  PROVE  b \notin Ancestors[Parent[b]]
<1> SUFFICES ASSUME b \in Ancestors[Parent[b]]  PROVE FALSE
  OBVIOUS
<1>1. Parent[b] \in Block /\ Height[b] = Height[Parent[b]] + 1
      /\ Height[b] \in Nat /\ Height[Parent[b]] \in Nat
  BY ParentHolds
<1>2. b # Parent[b]
  BY <1>1
<1>3. Height[b] < Height[Parent[b]]
  BY <1>1, <1>2, AncestorsAreLower
<1> QED
  BY <1>1, <1>3

LEMMA GenesisIsAncestor ==
  ASSUME NEW b \in Block
  PROVE  Genesis \in Ancestors[b]
<1> DEFINE H == {Height[a] : a \in Ancestors[b]}
<1>1. H \in SUBSET Nat /\ H # {}
  BY AncestorsBasic, ParentHolds
<1>2. PICK m \in H : \A k \in H : m <= k
  BY <1>1, LeastNatural
<1>3. PICK a \in Ancestors[b] : Height[a] = m
  BY <1>2
<1>4. Parent[a] \in Ancestors[b] /\ a \in Block
  BY AncestorsBasic
<1>5. Height[a] <= Height[Parent[a]]
  BY <1>2, <1>3, <1>4
<1>6. Height[a] \in Nat /\ Height[Parent[a]] \in Nat
  BY <1>4, ParentHolds
<1>7. a = Genesis
  BY <1>4, <1>5, <1>6, ParentHolds
<1> QED
  BY <1>7

\* No block lies beside the way from another to the genesis block.
LEMMA AncestorsAreLinear ==
  ASSUME NEW c \in Block, NEW a \in Ancestors[c], NEW b \in Ancestors[c]
  PROVE  a \in Ancestors[b] \/ b \in Ancestors[a]
<1> DEFINE S == {x \in Block : a \in Ancestors[x] \/ x \in Ancestors[a]}
<1>1. S \in SUBSET Block /\ c \in S
  OBVIOUS
<1>2. ASSUME NEW x \in S  PROVE Parent[x] \in S
  <2>1. a \in Block /\ x \in Block /\ Parent[x] \in Block
    BY AncestorsBasic, ParentHolds
  <2>2. CASE x \in Ancestors[a]
    BY <2>1, <2>2, AncestorsBasic
  <2>3. CASE x \notin Ancestors[a]
    <3>1. a # x /\ a \in Ancestors[x]
      BY <2>1, <2>3, AncestorsBasic
    <3>2. a \in Ancestors[Parent[x]]
      BY <3>1, <2>1, AncestorsOfParent
    <3> QED
      BY <2>1, <3>2
  <2> QED
    BY <2>2, <2>3
<1>3. Ancestors[c] \subseteq S
  BY <1>1, <1>2, AncestorsWithin
<1> QED
  BY <1>3

\* Of two blocks on one line the lower one comes first.
LEMMA LowerIsAncestor ==
  ASSUME NEW c \in Block, NEW a \in Ancestors[c], NEW b \in Ancestors[c], Height[a] <= Height[b]
  PROVE  a \in Ancestors[b]
<1>1. a \in Block /\ b \in Block /\ Height[a] \in Nat /\ Height[b] \in Nat
  BY AncestorsBasic, ParentHolds
<1>2. CASE a = b
  BY <1>1, <1>2, AncestorsBasic
<1>3. CASE a # b
  <2>1. b \notin Ancestors[a]
    <3> SUFFICES ASSUME b \in Ancestors[a]  PROVE FALSE
      OBVIOUS
    <3>1. Height[b] < Height[a]
      BY <1>1, <1>3, AncestorsAreLower
    <3> QED
      BY <3>1, <1>1
  <2> QED
    BY <2>1, AncestorsAreLinear
<1> QED
  BY <1>2, <1>3

-----------------------------------------------------------------------------
(* Lowest, highest and best blocks of a set.                               *)

LEMMA LowestIsLowest ==
  ASSUME NEW S \in SUBSET Block, S # {}
  PROVE  Lowest(S) \in S /\ \A c \in S : Height[c] >= Height[Lowest(S)]
<1> DEFINE H == {Height[a] : a \in S}
<1>1. H \in SUBSET Nat /\ H # {}
  BY ParentHolds
<1>2. PICK m \in H : \A k \in H : m <= k
  BY <1>1, LeastNatural
<1>3. PICK a \in S : Height[a] = m
  BY <1>2
<1>4. \A c \in S : Height[c] >= Height[a]
  BY <1>1, <1>2, <1>3
<1>5. \E x \in S : \A c \in S : Height[c] >= Height[x]
  BY <1>4
<1> QED
  BY <1>5 DEF Lowest

\* Among ancestors of one block there is a highest.
LEMMA HighestIsHighest ==
  ASSUME NEW b \in Block, NEW S \in SUBSET Ancestors[b], S # {}
  PROVE  Highest(S) \in S /\ \A c \in S : Height[c] <= Height[Highest(S)]
<1> DEFINE H == {Height[b] - Height[a] : a \in S}
<1>1. \A a \in S : a \in Block /\ Height[a] \in Nat /\ Height[a] <= Height[b]
  <2> SUFFICES ASSUME NEW a \in S
               PROVE  a \in Block /\ Height[a] \in Nat /\ Height[a] <= Height[b]
    OBVIOUS
  <2>1. a \in Block /\ Height[a] \in Nat /\ Height[b] \in Nat
    BY AncestorsBasic, ParentHolds
  <2>2. a # b => Height[a] < Height[b]
    BY AncestorsAreLower
  <2> QED
    BY <2>1, <2>2
<1>2. Height[b] \in Nat
  BY ParentHolds
<1>3. \A a \in S : Height[b] - Height[a] \in Nat
  BY <1>1, <1>2
<1>4. H \in SUBSET Nat /\ H # {}
  BY <1>3
<1>5. PICK m \in H : \A k \in H : m <= k
  BY <1>4, LeastNatural
<1>6. PICK a \in S : Height[b] - Height[a] = m
  BY <1>5
<1>7. ASSUME NEW c \in S  PROVE Height[c] <= Height[a]
  <2>1. Height[b] - Height[a] <= Height[b] - Height[c]
    BY <1>5, <1>6
  <2> QED
    BY <2>1, <1>1, <1>2
<1>8. \E x \in S : \A c \in S : Height[c] <= Height[x]
  BY <1>7
<1> QED
  BY <1>8 DEF Highest

\* The comparator is a strict order.
LEMMA BetterOrder ==
  ASSUME NEW order \in [Block -> Nat], NEW a \in Block, NEW b \in Block, NEW c \in Block
  PROVE  /\ ~BetterBy(order, a, a)
         /\ BetterBy(order, a, b) => ~BetterBy(order, b, a)
         /\ BetterBy(order, a, b) /\ BetterBy(order, b, c) => BetterBy(order, a, c)
         /\ ~BetterBy(order, a, b) /\ ~BetterBy(order, b, a) => order[a] = order[b]
         /\ ~BetterBy(order, a, b) /\ ~BetterBy(order, b, c) => ~BetterBy(order, a, c)
<1>1. /\ Work[a] \in Nat /\ Work[b] \in Nat /\ Work[c] \in Nat
      /\ order[a] \in Nat /\ order[b] \in Nat /\ order[c] \in Nat
  BY ParentHolds
<1> QED
  BY <1>1 DEF BetterBy

\* What lies above a block is better, whatever the order of arrival.
LEMMA DescendantIsBetter ==
  ASSUME NEW order \in [Block -> Nat], NEW b \in Block, NEW a \in Ancestors[b]
  PROVE  /\ a # b => BetterBy(order, b, a)
         /\ ~BetterBy(order, a, b)
<1>1. a \in Block
  BY AncestorsBasic
<1>2. a # b => Work[a] < Work[b]
  BY AncestorsAreLower
<1>3. Work[a] \in Nat /\ Work[b] \in Nat
  BY <1>1, ParentHolds
<1> QED
  BY <1>1, <1>2, <1>3, BetterOrder DEF BetterBy

LEMMA BestIsBest ==
  ASSUME NEW S \in SUBSET Block, S # {}, IsFiniteSet(S), seq \in [Block -> Nat],
         \A a, b \in S : seq[a] = seq[b] => a = b
  PROVE  Best(S) \in S /\ \A c \in S \ {Best(S)} : Better(Best(S), c)
<1> DEFINE Above(x) == {y \in S : Better(y, x)}
           N == {Cardinality(Above(x)) : x \in S}
<1>1. \A x \in S : IsFiniteSet(Above(x)) /\ Cardinality(Above(x)) \in Nat
  BY FS_Subset, FS_CardinalityType
<1> HIDE DEF Above
<1>2. N \in SUBSET Nat /\ N # {}
  BY <1>1
<1>3. PICK m \in N : \A k \in N : m <= k
  BY <1>2, LeastNatural
<1>4. PICK x \in S : \A y \in S : Cardinality(Above(x)) <= Cardinality(Above(y))
  BY <1>3
<1> USE DEF Above
<1>5. Above(x) = {}
  <2> SUFFICES ASSUME NEW y \in Above(x)  PROVE FALSE
    OBVIOUS
  <2>1. y \in S /\ Better(y, x) /\ x \in Block /\ y \in Block
    OBVIOUS
  <2>2. Above(y) \subseteq Above(x)
    <3> SUFFICES ASSUME NEW z \in S, Better(z, y)  PROVE Better(z, x)
      OBVIOUS
    <3> QED
      BY <2>1, BetterOrder DEF Better
  <2>3. y \notin Above(y)
    BY <2>1, BetterOrder DEF Better
  <2>4. /\ Cardinality(Above(y)) <= Cardinality(Above(x))
        /\ Cardinality(Above(x)) # Cardinality(Above(y))
    BY <1>1, <2>2, <2>3, FS_Subset
  <2>5. Cardinality(Above(x)) <= Cardinality(Above(y))
    BY <1>4, <2>1
  <2> QED
    BY <2>1, <2>4, <2>5, <1>1
<1>6. \A c \in S \ {x} : Better(x, c)
  <2> SUFFICES ASSUME NEW c \in S, c # x  PROVE Better(x, c)
    OBVIOUS
  <2>1. ~Better(c, x) /\ seq[c] # seq[x]
    BY <1>5
  <2> QED
    BY <2>1, BetterOrder DEF Better
<1> QED
  BY <1>6 DEF Best

-----------------------------------------------------------------------------
(* The inductive invariant.                                                *)

Numbered ==
    /\ \A b \in linked : seq[b] < nBlockSequenceId
    /\ \A a, b \in linked : seq[a] = seq[b] => a = b
    /\ \A b \in Block \ linked : seq[b] = 0

IndexInv ==
    /\ IsFiniteSet(index)
    /\ LinkedExact /\ Numbered
    /\ unlinked = data \ linked
    /\ data \cap BadContext = {}

ChainInv ==
    /\ ChainIsValid
    /\ ScriptsNested /\ Chain \ {Genesis} \subseteq scripts
    /\ CandidatesSound

IInv == TypeOK /\ IndexInv /\ ChainInv

LEMMA InitInv == Init => IInv
<1> SUFFICES ASSUME Init  PROVE IInv
  OBVIOUS
<1>1. Genesis \in Block /\ Ancestors[Genesis] = {Genesis}
  <2> DEFINE S == {Genesis}
  <2>1. Genesis \in Block /\ S \in SUBSET Block /\ Genesis \in S /\ \A x \in S : Parent[x] \in S
    BY BlockTreeAssumption
  <2> HIDE DEF S
  <2>2. Ancestors[Genesis] \subseteq S
    BY <2>1, AncestorsWithin
  <2> QED
    BY <2>1, <2>2, AncestorsBasic DEF S
<1>2. TypeOK
  <2>1. seq \in [Block -> Nat] /\ nBlockSequenceId \in Nat /\ budget \in 0 .. Budget
    BY BlockTreeAssumption DEF Init
  <2>2. /\ pc \in [Thread -> Stages] /\ target \in [Thread -> index \cup {None}]
        /\ todo \in [Thread -> SUBSET rejected]
    BY DEF Init, Stages
  <2> QED
    BY <1>1, <2>1, <2>2 DEF Init, TypeOK
<1>3. IndexInv
  <2>1. IsFiniteSet(index)
    BY FS_Singleton DEF Init
  <2>2. LinkedExact /\ unlinked = data \ linked
    BY <1>1 DEF Init, LinkedExact
  <2>3. Numbered
    BY <1>1 DEF Init, Numbered
  <2>4. data \cap BadContext = {}
    BY BlockTreeAssumption DEF Init
  <2> QED
    BY <2>1, <2>2, <2>3, <2>4 DEF IndexInv
<1>4. ~Better(Genesis, Genesis)
  BY <1>1, <1>2, BetterOrder DEF Better, TypeOK
<1>5. ChainInv
  BY <1>1, <1>4, BlockTreeAssumption
  DEF Init, ChainInv, ChainIsValid, ScriptsNested, CandidatesSound, Chain, Failed
<1> QED
  BY <1>2, <1>3, <1>5 DEF IInv

\* A linked block has its whole line linked.
LEMMA LinkedLine ==
  ASSUME TypeOK, LinkedExact, NEW b \in linked
  PROVE  b \in Block /\ Ancestors[b] \subseteq linked
<1>1. b \in Block /\ b \in index /\ Ancestors[b] \subseteq data
  BY DEF TypeOK, LinkedExact
<1>2. ASSUME NEW a \in Ancestors[b]  PROVE a \in linked
  <2>1. a \in data /\ a \in index /\ a \in Block
    BY <1>1 DEF TypeOK
  <2>2. Ancestors[a] \subseteq data
    BY <1>1, AncestorsTransitive
  <2> QED
    BY <2>1, <2>2 DEF LinkedExact
<1> QED
  BY <1>1, <1>2

\* What may be said of a tip that has gone back.
LEMMA TipGoesBack ==
  ASSUME IInv, NEW b \in Chain
  PROVE  /\ b \in linked /\ Ancestors[b] \subseteq Chain
         /\ \A o \in Block : ~Better(tip, o) => ~Better(b, o)
<1>1. tip \in linked /\ tip \in Block /\ seq \in [Block -> Nat] /\ LinkedExact
  BY DEF IInv, IndexInv, TypeOK
<1>2. b \in linked /\ b \in Block /\ Ancestors[b] \subseteq Chain
  BY <1>1, LinkedLine, AncestorsTransitive DEF Chain, IInv, TypeOK
<1>3. ~Better(b, tip)
  BY <1>1, DescendantIsBetter DEF Chain, Better
<1>4. \A o \in Block : ~Better(tip, o) => ~Better(b, o)
  BY <1>1, <1>2, <1>3, BetterOrder DEF Better
<1> QED
  BY <1>2, <1>4

-----------------------------------------------------------------------------
(* FindMostWorkChain.                                                      *)

LEMMA CandidatesFinite ==
  ASSUME IInv, NEW S \in SUBSET candidates
  PROVE  /\ S \in SUBSET Block /\ IsFiniteSet(S) /\ seq \in [Block -> Nat]
         /\ \A a, b \in S : seq[a] = seq[b] => a = b
<1>1. S \subseteq linked /\ S \subseteq index /\ S \subseteq Block
  BY DEF IInv, TypeOK
<1> QED
  BY <1>1, FS_Subset DEF IInv, IndexInv, TypeOK, Numbered

LEMMA CulpritHolds ==
  ASSUME IInv, NEW c \in candidates, Tainted(c)
  PROVE  /\ Culprit(c) \in Walk(c) \cap Failed
         /\ AboveCulprit(c) \subseteq index \ Chain
         /\ \A x \in AboveCulprit(c) : Culprit(c) \in Ancestors[x]
<1>1. c \in Block /\ Ancestors[c] \subseteq index
  BY LinkedLine DEF IInv, IndexInv, TypeOK
<1>2. Culprit(c) \in Walk(c) \cap Failed
  BY <1>1, HighestIsHighest DEF Tainted, Culprit, Walk
<1>3. \A x \in AboveCulprit(c) : Culprit(c) \in Ancestors[x]
  <2> SUFFICES ASSUME NEW x \in AboveCulprit(c)  PROVE Culprit(c) \in Ancestors[x]
    OBVIOUS
  <2>1. x \in Ancestors[c] /\ Culprit(c) \in Ancestors[c] /\ Height[x] > Height[Culprit(c)]
    BY <1>2 DEF AboveCulprit, Walk
  <2>2. Height[x] \in Nat /\ Height[Culprit(c)] \in Nat
    BY <1>1, <2>1, AncestorsBasic, ParentHolds
  <2>3. Height[Culprit(c)] <= Height[x]
    BY <2>1, <2>2
  <2> QED
    BY <1>1, <2>1, <2>3, LowerIsAncestor
<1> QED
  BY <1>1, <1>2, <1>3 DEF AboveCulprit, Walk

\* What the loop finds and what it leaves behind.
LEMMA FindMostHolds ==
  ASSUME IInv
  PROVE  LET f == FindMostWorkChain IN
         /\ f.most # None =>
               /\ f.most \in candidates /\ ~Tainted(f.most)
               /\ \A c \in candidates : ~Tainted(c) /\ c # f.most => Better(f.most, c)
         /\ f.most = None => \A c \in candidates : Tainted(c)
         /\ f.marked \subseteq index \ Chain
         /\ \A x \in f.marked : \E k \in Failed \ Chain : k \in Ancestors[x]
         /\ f.erased \subseteq f.marked \cup Failed
         /\ f.worst \in index \cup {None}
<1> DEFINE sound == {c \in candidates : ~Tainted(c)}
           most == IF sound = {} THEN None ELSE Best(sound)
           dropped == {c \in candidates \ sound : most = None \/ Better(c, most)}
           marked == UNION {AboveCulprit(c) : c \in dropped}
           erased == UNION {AboveCulprit(c) \cup {Culprit(c)} : c \in dropped}
           worst == IF dropped = {} THEN bestInvalid
                    ELSE InvalidChainFound(bestInvalid, Best(dropped))
           f == FindMostWorkChain
<1>1. f.most = most /\ f.marked = marked /\ f.erased = erased /\ f.worst = worst
  BY DEF FindMostWorkChain
<1>2. \A c \in dropped : c \in candidates /\ Tainted(c)
  OBVIOUS
<1>3. None \notin candidates
  BY BlockTreeAssumption DEF IInv, TypeOK
<1>4. sound # {} =>
         /\ most \in sound
         /\ \A c \in sound \ {most} : Better(most, c)
  <2> SUFFICES ASSUME sound # {}
               PROVE  Best(sound) \in sound /\ \A c \in sound \ {Best(sound)} : Better(Best(sound), c)
    OBVIOUS
  <2>1. sound \in SUBSET candidates
    OBVIOUS
  <2> HIDE DEF sound
  <2> QED
    BY <2>1, CandidatesFinite, BestIsBest
<1>5. marked \subseteq index \ Chain
  BY <1>2, CulpritHolds
<1>6. \A x \in marked : \E k \in Failed \ Chain : k \in Ancestors[x]
  BY <1>2, CulpritHolds DEF Walk
<1>7. erased \subseteq marked \cup Failed
  BY <1>2, CulpritHolds
<1>8. worst \in index \cup {None}
  <2>1. CASE dropped = {}
    BY <2>1 DEF IInv, TypeOK
  <2>2. CASE dropped # {}
    <3>1. dropped \in SUBSET candidates
      OBVIOUS
    <3> HIDE DEF dropped
    <3>2. Best(dropped) \in dropped
      BY <2>2, <3>1, CandidatesFinite, BestIsBest
    <3>3. Best(dropped) \in index
      BY <3>1, <3>2 DEF IInv, TypeOK
    <3> QED
      BY <2>2, <3>3 DEF InvalidChainFound, IInv, TypeOK
  <2> QED
    BY <2>1, <2>2
<1>9. /\ most # None => /\ most \in candidates /\ ~Tainted(most)
                        /\ \A c \in candidates : ~Tainted(c) /\ c # most => Better(most, c)
      /\ most = None => \A c \in candidates : Tainted(c)
  BY <1>3, <1>4
<1> HIDE DEF sound, most, dropped, marked, erased, worst, f
<1>10. /\ f.most # None =>
               /\ f.most \in candidates /\ ~Tainted(f.most)
               /\ \A c \in candidates : ~Tainted(c) /\ c # f.most => Better(f.most, c)
       /\ f.most = None => \A c \in candidates : Tainted(c)
       /\ f.marked \subseteq index \ Chain
       /\ \A x \in f.marked : \E k \in Failed \ Chain : k \in Ancestors[x]
       /\ f.erased \subseteq f.marked \cup Failed
       /\ f.worst \in index \cup {None}
  BY <1>1, <1>5, <1>6, <1>7, <1>8, <1>9
<1> QED
  BY <1>10 DEF f

-----------------------------------------------------------------------------
(* Receiving a block.                                                      *)

LEMMA ReachedHolds ==
  ASSUME IInv, NEW b \in Block, b # Genesis, b \notin data, Parent[b] \in linked
  PROVE  /\ b \in Reached(b) /\ Reached(b) \subseteq data \cup {b}
         /\ Reached(b) \cap linked = {}
         /\ IsFiniteSet(Reached(b))
         /\ \A x \in Reached(b) : Ancestors[x] \subseteq data \cup {b}
         /\ \A x \in index \cup {b} :
               x \notin linked /\ Ancestors[x] \subseteq data \cup {b} => x \in Reached(b)
<1>1. /\ unlinked = data \ linked /\ linked \subseteq data /\ data \subseteq index
      /\ index \subseteq Block /\ LinkedExact /\ IsFiniteSet(index)
  BY DEF IInv, IndexInv, TypeOK
<1>2. b \in Reached(b) /\ Reached(b) \subseteq data \cup {b} /\ Reached(b) \cap linked = {}
  BY <1>1 DEF Reached
<1>3. IsFiniteSet(Reached(b))
  <2>1. Reached(b) \in SUBSET (index \cup {b}) /\ IsFiniteSet(index \cup {b})
    BY <1>1, <1>2, FS_AddElement
  <2> HIDE DEF Reached
  <2> QED
    BY <2>1, FS_Subset
<1>4. Ancestors[b] \subseteq linked \cup {b}
  BY <1>1, LinkedLine, AncestorsOfParent DEF IInv
<1>5. ASSUME NEW x \in Reached(b)  PROVE Ancestors[x] \subseteq data \cup {b}
  <2>1. x = b \/ Ancestors[x] \ Ancestors[b] \subseteq unlinked
    BY DEF Reached
  <2> QED
    BY <2>1, <1>1, <1>4
<1>6. ASSUME NEW x \in index \cup {b}, x \notin linked, Ancestors[x] \subseteq data \cup {b}
      PROVE  x \in Reached(b)
  <2>1. x \in Block
    BY <1>1
  <2>2. CASE x = b
    BY <1>2, <2>2
  <2>3. CASE x # b
    <3>1. x \in index /\ ~(Ancestors[x] \subseteq data)
      BY <1>1, <1>6, <2>3 DEF LinkedExact
    <3>2. b \in Ancestors[x] /\ x \in data /\ x \in unlinked
      BY <3>1, <1>1, <1>6, <2>1, <2>3, AncestorsBasic
    <3>3. ASSUME NEW y \in Ancestors[x], y \notin Ancestors[b]  PROVE y \in unlinked
      <4>1. b \in Ancestors[y] /\ y \in Block
        BY <2>1, <3>2, <3>3, AncestorsAreLinear, AncestorsBasic
      <4>2. y # b
        BY <3>3, AncestorsBasic
      <4>3. y \in data /\ y \in index
        BY <1>1, <1>6, <4>2
      <4>4. ~(Ancestors[y] \subseteq data)
        BY <4>1
      <4> QED
        BY <4>3, <4>4, <1>1 DEF LinkedExact
    <3> QED
      BY <3>2, <3>3 DEF Reached
  <2> QED
    BY <2>2, <2>3
<1> QED
  BY <1>2, <1>3, <1>5, <1>6

\* The numbers given out are new.
LEMMA NumbersAreNew ==
  ASSUME NEW S, IsFiniteSet(S), nBlockSequenceId \in Nat, NEW f \in LinkOrders(S)
  PROVE  /\ Cardinality(S) \in Nat
         /\ \A x \in S : /\ f[x] \in Nat /\ f[x] >= nBlockSequenceId
                         /\ f[x] < nBlockSequenceId + Cardinality(S)
         /\ \A x, y \in S : f[x] = f[y] => x = y
<1>1. Cardinality(S) \in Nat
  BY FS_CardinalityType
<1>2. \A x \in S : f[x] \in nBlockSequenceId .. nBlockSequenceId + Cardinality(S) - 1
  BY DEF LinkOrders
<1>3. \A x, y \in S : f[x] = f[y] => x = y
  BY DEF LinkOrders
<1> QED
  BY <1>1, <1>2, <1>3

\* A block whose parent is linked.
LEMMA ReceiveLinkedInv ==
  ASSUME IInv, NEW t \in Thread, NEW b \in Block, ProcessNewBlock(t, b),
         b \notin BadContext, Parent[b] \in linked
  PROVE  IInv'
<1> DEFINE R == Reached(b)
<1>1. PICK f \in LinkOrders(R) :
         /\ seq' = [x \in Block |-> IF x \in R THEN f[x] ELSE seq[x]]
         /\ candidates' = candidates \cup
               {x \in R : ~BetterBy([y \in Block |-> IF y \in R THEN f[y] ELSE seq[y]], tip, x)}
  BY DEF ProcessNewBlock, ReceivedBlockTransactions
<1>2. /\ data' = data \cup {b} /\ linked' = linked \cup R /\ unlinked' = unlinked \ R
      /\ nBlockSequenceId' = nBlockSequenceId + Cardinality(R)
      /\ index' = index \cup {b} /\ bestHeader' \in {b, bestHeader}
      /\ UNCHANGED <<scripts, failedValid, failedChild, bestInvalid, tip, rejected, target, todo, budget,
                     cutShort>>
      /\ pc' = [pc EXCEPT ![t] = "accepted"]
      /\ b # Genesis /\ b \notin data
  BY DEF ProcessNewBlock, ReceivedBlockTransactions, AddToBlockIndex, Goto
<1>3. /\ b \in R /\ R \subseteq data \cup {b} /\ R \cap linked = {} /\ IsFiniteSet(R)
      /\ \A x \in R : Ancestors[x] \subseteq data \cup {b}
      /\ \A x \in index \cup {b} :
            x \notin linked /\ Ancestors[x] \subseteq data \cup {b} => x \in R
  BY <1>2, ReachedHolds
<1>4. /\ TypeOK /\ LinkedExact /\ Numbered /\ unlinked = data \ linked /\ data \cap BadContext = {}
      /\ IsFiniteSet(index) /\ ChainInv /\ nBlockSequenceId \in Nat
  BY DEF IInv, IndexInv, TypeOK
<1> HIDE DEF R
<1>5. /\ Cardinality(R) \in Nat
      /\ \A x \in R : /\ f[x] \in Nat /\ f[x] >= nBlockSequenceId
                      /\ f[x] < nBlockSequenceId + Cardinality(R)
      /\ \A x, y \in R : f[x] = f[y] => x = y
  BY <1>3, <1>4, NumbersAreNew
<1>6. seq' \in [Block -> Nat] /\ nBlockSequenceId' \in Nat
  BY <1>1, <1>2, <1>4, <1>5 DEF TypeOK
<1>7. TypeOK'
  <2>1. candidates' \subseteq linked' /\ linked' \subseteq data' /\ data' \subseteq index'
        /\ index' \subseteq Block /\ Genesis \in linked' /\ unlinked' \subseteq data'
    BY <1>1, <1>2, <1>3, <1>4 DEF TypeOK
  <2>2. pc' \in [Thread -> Stages] /\ target' \in [Thread -> index' \cup {None}]
    BY <1>2, <1>4 DEF TypeOK, Stages
  <2>3. bestInvalid' \in index' \cup {None} /\ bestHeader' \in index' /\ tip' \in linked'
        /\ scripts' \subseteq data' /\ failedValid' \cup failedChild' \subseteq index'
    BY <1>2, <1>4 DEF TypeOK
  <2>4. rejected' \subseteq Contextual /\ todo' \in [Thread -> SUBSET rejected']
        /\ budget' \in 0 .. Budget /\ cutShort' \in BOOLEAN
    BY <1>2, <1>4 DEF TypeOK
  <2> QED
    BY <1>6, <2>1, <2>2, <2>3, <2>4 DEF TypeOK
<1>8. IndexInv'
  <2>1. IsFiniteSet(index')
    BY <1>2, <1>4, FS_AddElement
  <2>2. LinkedExact'
    <3> SUFFICES ASSUME NEW x \in index'
                 PROVE  x \in linked' <=> Ancestors[x] \subseteq data'
      BY DEF LinkedExact
    <3>1. x \in linked => Ancestors[x] \subseteq data
      BY <1>4 DEF LinkedExact, TypeOK
    <3> QED
      BY <3>1, <1>2, <1>3
  <2>3. Numbered'
    <3>1. \A x \in linked : x \in Block /\ seq'[x] = seq[x] /\ seq[x] \in Nat /\ seq[x] < nBlockSequenceId
      BY <1>1, <1>3, <1>4 DEF Numbered, TypeOK
    <3>2. \A x \in R : x \in Block /\ seq'[x] = f[x]
      BY <1>1, <1>3, <1>4 DEF TypeOK
    <3>3. \A x \in linked' : seq'[x] < nBlockSequenceId'
      BY <1>2, <1>4, <1>5, <3>1, <3>2
    <3>4. \A x, y \in linked' : seq'[x] = seq'[y] => x = y
      <4> SUFFICES ASSUME NEW x \in linked \cup R, NEW y \in linked \cup R, seq'[x] = seq'[y]
                   PROVE  x = y
        BY <1>2
      <4>1. CASE x \in linked /\ y \in linked
        BY <4>1, <3>1, <1>4 DEF Numbered
      <4>2. CASE x \in R /\ y \in R
        BY <4>2, <3>2, <1>5
      <4>3. CASE x \in linked /\ y \in R
        BY <4>3, <3>1, <3>2, <1>4, <1>5
      <4>4. CASE x \in R /\ y \in linked
        BY <4>4, <3>1, <3>2, <1>4, <1>5
      <4> QED
        BY <4>1, <4>2, <4>3, <4>4
    <3>5. \A x \in Block \ linked' : seq'[x] = 0
      BY <1>1, <1>2, <1>4 DEF Numbered
    <3> QED
      BY <3>3, <3>4, <3>5 DEF Numbered
  <2>4. unlinked' = data' \ linked' /\ data' \cap BadContext = {}
    BY <1>2, <1>3, <1>4
  <2> QED
    BY <2>1, <2>2, <2>3, <2>4 DEF IndexInv
<1>9. ChainInv'
  <2>1. CandidatesSound'
    <3> SUFFICES ASSUME NEW x \in candidates'
                 PROVE  x \in linked' /\ ~BetterBy(seq', tip, x)
      BY <1>2 DEF CandidatesSound, Better
    <3>1. CASE x \in candidates
      <4>1. x \in linked /\ tip \in linked /\ ~BetterBy(seq, tip, x)
        BY <3>1, <1>4 DEF ChainInv, CandidatesSound, Better, TypeOK
      <4>2. seq'[x] = seq[x] /\ seq'[tip] = seq[tip]
        BY <4>1, <1>1, <1>3, <1>4 DEF TypeOK
      <4> QED
        BY <4>1, <4>2, <1>2 DEF BetterBy
    <3>2. CASE x \notin candidates
      BY <3>2, <1>1, <1>2
    <3> QED
      BY <3>1, <3>2
  <2>2. ChainIsValid' /\ ScriptsNested' /\ (Chain \ {Genesis} \subseteq scripts)'
    BY <1>2, <1>4 DEF ChainInv, ChainIsValid, ScriptsNested, Chain, Failed
  <2> QED
    BY <2>1, <2>2 DEF ChainInv
<1> QED
  BY <1>7, <1>8, <1>9 DEF IInv

\* A block whose parent is not linked waits.
LEMMA ReceiveWaitingInv ==
  ASSUME IInv, NEW t \in Thread, NEW b \in Block, ProcessNewBlock(t, b),
         b \notin BadContext, Parent[b] \notin linked
  PROVE  IInv'
<1>1. /\ data' = data \cup {b} /\ unlinked' = unlinked \cup {b} /\ index' = index \cup {b}
      /\ bestHeader' \in {b, bestHeader} /\ pc' = [pc EXCEPT ![t] = "accepted"]
      /\ UNCHANGED <<linked, seq, nBlockSequenceId, candidates, scripts, failedValid, failedChild,
                     bestInvalid, tip, rejected, target, todo, budget, cutShort>>
      /\ b # Genesis /\ b \notin data /\ Parent[b] \in index
  BY DEF ProcessNewBlock, ReceivedBlockTransactions, AddToBlockIndex, Goto
<1>2. TypeOK /\ IndexInv /\ ChainInv /\ LinkedExact /\ linked \subseteq data /\ data \subseteq index
  BY DEF IInv, IndexInv, TypeOK
<1>3. TypeOK'
  <2>1. pc' \in [Thread -> Stages] /\ target' \in [Thread -> index' \cup {None}]
    BY <1>1, <1>2 DEF TypeOK, Stages
  <2> QED
    BY <1>1, <1>2, <2>1 DEF TypeOK
<1>4. LinkedExact'
  <2> SUFFICES ASSUME NEW x \in index \cup {b}, x \notin linked, Ancestors[x] \subseteq data \cup {b}
               PROVE  FALSE
    BY <1>1, <1>2 DEF LinkedExact, TypeOK
  <2>1. x \in Block
    BY <1>2 DEF TypeOK
  <2>2. b \in Ancestors[x]
    BY <1>2, <2>1, AncestorsBasic DEF LinkedExact
  <2>3. Ancestors[Parent[b]] \subseteq Ancestors[x]
    BY <2>1, <2>2, AncestorsBasic, AncestorsTransitive
  <2>4. b \notin Ancestors[Parent[b]]
    BY <1>1, ParentIsBelow
  <2>5. Ancestors[Parent[b]] \subseteq data
    BY <2>3, <2>4
  <2> QED
    BY <1>1, <1>2, <2>5 DEF LinkedExact
<1>5. IndexInv'
  <2>1. IsFiniteSet(index') /\ b \notin linked
    BY <1>1, <1>2, FS_AddElement DEF IndexInv
  <2> QED
    BY <1>1, <1>2, <1>4, <2>1 DEF IndexInv, Numbered
<1>6. ChainInv'
  BY <1>1, <1>2 DEF ChainInv, ChainIsValid, ScriptsNested, CandidatesSound, Better, BetterBy, Chain, Failed
<1> QED
  BY <1>3, <1>5, <1>6 DEF IInv

\* Only the header gets into the index; the block may be marked failed.
LEMMA HeaderOnlyInv ==
  ASSUME IInv, NEW b \in Block, b \notin data,
         index' = index \cup {b}, bestHeader' \in {b, bestHeader},
         failedValid' \in {failedValid, failedValid \cup {b}},
         UNCHANGED <<data, linked, seq, nBlockSequenceId, unlinked, candidates, scripts, failedChild,
                     bestInvalid, tip, rejected, pc, target, todo>>,
         budget' \in 0 .. Budget, cutShort' \in BOOLEAN
  PROVE  IInv'
<1>1. TypeOK /\ IndexInv /\ ChainInv /\ LinkedExact /\ linked \subseteq data /\ data \subseteq index
  BY DEF IInv, IndexInv, TypeOK
<1>2. TypeOK'
  <2>1. target' \in [Thread -> index' \cup {None}]
    BY <1>1 DEF TypeOK
  <2> QED
    BY <1>1, <2>1 DEF TypeOK
<1>3. LinkedExact'
  BY <1>1, AncestorsBasic DEF LinkedExact
<1>4. IndexInv'
  <2>1. IsFiniteSet(index')
    BY <1>1, FS_AddElement DEF IndexInv
  <2> QED
    BY <1>1, <1>3, <2>1 DEF IndexInv, Numbered
<1>5. ChainInv'
  <2>1. b \notin Chain
    BY <1>1, LinkedLine DEF Chain, TypeOK
  <2> QED
    BY <1>1, <2>1
    DEF ChainInv, ChainIsValid, ScriptsNested, CandidatesSound, Better, BetterBy, Chain, Failed
<1> QED
  BY <1>2, <1>4, <1>5 DEF IInv

LEMMA ProcessNewBlockInv ==
  ASSUME IInv, NEW t \in Thread, NEW b \in Block, ProcessNewBlock(t, b)
  PROVE  IInv'
<1>1. CASE b \in BadContext
  <2>1. /\ b \notin data /\ index' = index \cup {b} /\ bestHeader' \in {b, bestHeader}
        /\ failedValid' = failedValid \cup {b}
        /\ UNCHANGED <<data, linked, seq, nBlockSequenceId, unlinked, candidates, scripts, failedChild,
                       bestInvalid, tip, rejected, pc, target, todo, budget, cutShort>>
    BY <1>1 DEF ProcessNewBlock, AddToBlockIndex
  <2>2. budget' \in 0 .. Budget /\ cutShort' \in BOOLEAN
    BY <2>1 DEF IInv, TypeOK
  <2> QED
    BY <2>1, <2>2, HeaderOnlyInv
<1> QED
  BY <1>1, ReceiveLinkedInv, ReceiveWaitingInv

LEMMA WriteFailsInv ==
  ASSUME IInv, NEW t \in Thread, NEW b \in Block, WriteFails(t, b)
  PROVE  IInv'
<1>1. /\ b \notin data /\ index' = index \cup {b} /\ bestHeader' \in {b, bestHeader}
      /\ UNCHANGED <<data, linked, seq, nBlockSequenceId, unlinked, candidates, scripts, failedChild,
                     failedValid, bestInvalid, tip, rejected, pc, target, todo, cutShort>>
  BY DEF WriteFails, AddToBlockIndex, validity
<1>2. budget' \in 0 .. Budget /\ cutShort' \in BOOLEAN
  BY <1>1, BlockTreeAssumption DEF WriteFails, Rare, IInv, TypeOK
<1> QED
  BY <1>1, <1>2, HeaderOnlyInv

-----------------------------------------------------------------------------
(* Activation.                                                             *)

\* What one step does with the chain: it connects blocks above the fork, perhaps none, and
\* finds one of them bad, or gets to the end or past the work of the old tip.
Moved(most, cand, worst, connected, bad) ==
    /\ tip' \in Ancestors[most]
    /\ Ancestors[tip'] \subseteq Chain \cup connected
    /\ connected \subseteq Ancestors[tip'] \ Chain
    /\ connected \cap Invalid = {}
    /\ bad \subseteq (Ancestors[most] \ Chain) \cap (Invalid \cup Contextual)
    /\ bad \cap Ancestors[tip'] = {}
    /\ scripts' = scripts \cup connected
    /\ failedValid' = failedValid \cup bad
    /\ rejected' \subseteq rejected \cup (bad \cap Contextual) /\ rejected \subseteq rejected'
    /\ candidates' = (IF connected = {} THEN cand ELSE Pruned(cand, tip')) \ bad
    /\ bestInvalid' \in {worst} \cup bad
    /\ bad = {} => tip' = most \/ Work[tip'] > Work[tip]

LEMMA StepMoves ==
  ASSUME IInv, NEW most \in candidates, most # tip, NEW cand, NEW worst,
         ActivateBestChainStep(most, cand, worst)
  PROVE  \E connected, bad \in SUBSET Block : Moved(most, cand, worst, connected, bad)
<1>1. PICK refused \in SUBSET Contextual, noted \in SUBSET Contextual :
        LET failing == {b \in Path(most) \cap (Invalid \cup refused) : Height[b] <= Height[Stop(most)]}
            newTip == IF failing = {} THEN Stop(most) ELSE Parent[Lowest(failing)]
            connected == {b \in Path(most) : Height[b] <= Height[newTip]}
            bad == InvalidBlockFound(failing)
        IN  /\ tip' = newTip
            /\ scripts' = scripts \cup connected
            /\ failedValid' = failedValid \cup bad
            /\ rejected' = rejected \cup (bad \cap noted)
            /\ candidates' = (IF connected = {} THEN cand ELSE Pruned(cand, newTip)) \ bad
            /\ bestInvalid' = IF bad = {} THEN worst ELSE InvalidChainFound(worst, Lowest(failing))
  BY Zenon DEF ActivateBestChainStep
<1> DEFINE path == Ancestors[most] \ Chain
           beats == {b \in path : Work[b] > Work[tip]}
           stop == IF beats = {} THEN most ELSE Lowest(beats)
           failing == {b \in path \cap (Invalid \cup refused) : Height[b] <= Height[stop]}
           newTip == IF failing = {} THEN stop ELSE Parent[Lowest(failing)]
           connected == {b \in path : Height[b] <= Height[newTip]}
           bad == InvalidBlockFound(failing)
<1>2. /\ tip' = newTip
      /\ scripts' = scripts \cup connected
      /\ failedValid' = failedValid \cup bad
      /\ rejected' = rejected \cup (bad \cap noted)
      /\ candidates' = (IF connected = {} THEN cand ELSE Pruned(cand, newTip)) \ bad
      /\ bestInvalid' = IF bad = {} THEN worst ELSE InvalidChainFound(worst, Lowest(failing))
  BY <1>1, Zenon DEF Path, Stop
<1>3. /\ most \in Block /\ most \in linked /\ tip \in Block /\ tip \in linked
      /\ seq \in [Block -> Nat] /\ Ancestors[most] \subseteq Block
  <2>1. most \in linked /\ linked \subseteq Block /\ tip \in linked /\ seq \in [Block -> Nat]
    BY DEF IInv, TypeOK
  <2> QED
    BY <2>1, AncestorsBasic
<1>4. most \in path
  <2>1. ~Better(tip, most)
    BY DEF IInv, ChainInv, CandidatesSound
  <2>2. most \notin Chain
    BY <2>1, <1>3, DescendantIsBetter DEF Chain, Better
  <2> QED
    BY <2>2, <1>3, AncestorsBasic
<1>5. stop \in path
  <2>1. beats \in SUBSET Block /\ beats \subseteq path
    BY <1>3
  <2> HIDE DEF beats, path
  <2> QED
    BY <2>1, <1>4, LowestIsLowest
<1>6. failing # {} => /\ Lowest(failing) \in failing
                      /\ \A c \in failing : Height[c] >= Height[Lowest(failing)]
  <2>1. failing \in SUBSET Block
    BY <1>3
  <2> HIDE DEF failing
  <2> QED
    BY <2>1, LowestIsLowest
<1>7. bad \subseteq failing /\ (failing # {} => bad = {Lowest(failing)}) /\ (failing = {} => bad = {})
  BY <1>6 DEF InvalidBlockFound
<1>8. Genesis \in Chain
  BY <1>3, GenesisIsAncestor DEF Chain
\* The new tip, and why no block that fails is below it.
<1>9. /\ newTip \in Ancestors[most]
      /\ Height[newTip] <= Height[stop]
      /\ \A c \in failing : Height[c] > Height[newTip]
  <2>1. CASE failing = {}
    <3>1. Height[stop] \in Nat
      BY <1>5, <1>3, ParentHolds
    <3> QED
      BY <2>1, <3>1, <1>5
  <2>2. CASE failing # {}
    <3> DEFINE low == Lowest(failing)
    <3>1. low \in path /\ low \in Block /\ low # Genesis /\ Height[low] <= Height[stop]
      BY <2>2, <1>3, <1>6, <1>8
    <3>2. /\ newTip = Parent[low] /\ newTip \in Ancestors[most] /\ newTip \in Block
          /\ Height[low] = Height[newTip] + 1
      BY <2>2, <3>1, <1>3, AncestorsBasic, ParentHolds
    <3>3. Height[newTip] \in Nat /\ Height[stop] \in Nat /\ \A c \in failing : Height[c] \in Nat
      BY <3>2, <1>3, <1>5, ParentHolds
    <3>4. \A c \in failing : Height[c] >= Height[low]
      BY <2>2, <1>6
    <3> HIDE DEF low, newTip, stop, failing
    <3> QED
      BY <3>1, <3>2, <3>3, <3>4
  <2> QED
    BY <2>1, <2>2
<1>10. newTip \in Block /\ Height[newTip] \in Nat /\ Height[stop] \in Nat
       /\ Ancestors[newTip] \subseteq Ancestors[most]
  BY <1>3, <1>5, <1>9, ParentHolds, AncestorsTransitive
<1>11. Ancestors[newTip] \subseteq Chain \cup connected
  <2> SUFFICES ASSUME NEW x \in Ancestors[newTip], x \notin Chain  PROVE x \in connected
    OBVIOUS
  <2>1. x \in path /\ x \in Block /\ Height[x] \in Nat
    BY <1>3, <1>10, ParentHolds
  <2>2. x # newTip => Height[x] < Height[newTip]
    BY <1>10, AncestorsAreLower
  <2>3. Height[x] <= Height[newTip]
    <3> HIDE DEF newTip, path, stop
    <3> QED
      BY <2>1, <2>2, <1>10
  <2> QED
    BY <2>1, <2>3
<1>12. connected \subseteq Ancestors[newTip] \ Chain
  <2> SUFFICES ASSUME NEW x \in path, Height[x] <= Height[newTip]  PROVE x \in Ancestors[newTip]
    OBVIOUS
  <2>1. x \in Ancestors[most]
    OBVIOUS
  <2> HIDE DEF newTip, path
  <2> QED
    BY <2>1, <1>3, <1>9, LowerIsAncestor
<1>13. connected \cap failing = {} /\ connected \cap Invalid = {}
  <2>1. ASSUME NEW x \in path, Height[x] <= Height[newTip]  PROVE x \notin failing
    <3>1. Height[x] \in Nat
      BY <1>3, ParentHolds
    <3> HIDE DEF failing, newTip, path, stop
    <3>2. ~(Height[x] > Height[newTip])
      BY <3>1, <2>1, <1>10
    <3> QED
      BY <3>2, <1>9
  <2>2. ASSUME NEW x \in path, Height[x] <= Height[newTip], x \in Invalid  PROVE FALSE
    <3>1. Height[x] \in Nat
      BY <1>3, ParentHolds
    <3>2. Height[x] <= Height[stop]
      <4> HIDE DEF newTip, path, stop
      <4> QED
        BY <3>1, <2>2, <1>9, <1>10
    <3>3. x \in failing
      <4> HIDE DEF stop
      <4> QED
        BY <3>2, <2>2
    <3> HIDE DEF failing, newTip, path, stop
    <3> QED
      BY <3>3, <2>1, <2>2
  <2> QED
    BY <2>1, <2>2
<1>14. bad \cap Ancestors[newTip] = {}
  BY <1>7, <1>11, <1>13
<1>15. Moved(most, cand, worst, connected, bad)
  <2>1. bad \subseteq path \cap (Invalid \cup Contextual)
    BY <1>7
  <2>2. bestInvalid' \in {worst} \cup bad
    BY <1>2, <1>7 DEF InvalidChainFound
  <2>3. rejected' \subseteq rejected \cup (bad \cap Contextual) /\ rejected \subseteq rejected'
    BY <1>2
  <2>4. bad = {} => newTip = most \/ Work[newTip] > Work[tip]
    <3>1. beats # {} => Lowest(beats) \in beats
      <4>1. beats \in SUBSET Block
        BY <1>3
      <4> HIDE DEF beats
      <4> QED
        BY <4>1, LowestIsLowest
    <3>2. stop = most \/ Work[stop] > Work[tip]
      BY <3>1
    <3>3. bad = {} => newTip = stop
      BY <1>7
    <3> HIDE DEF newTip, bad, stop
    <3> QED
      BY <3>2, <3>3
  <2> HIDE DEF newTip, connected, bad
  <2> QED
    BY <1>2, <1>9, <1>11, <1>12, <1>13, <1>14, <2>1, <2>2, <2>3, <2>4 DEF Moved
<1>16. connected \in SUBSET Block /\ bad \in SUBSET Block
  BY <1>3, <1>7
<1> HIDE DEF connected, bad
<1> QED
  BY <1>15, <1>16

LEMMA ActivateBestChainInv ==
  ASSUME IInv, NEW t \in Thread, ActivateBestChain(t)
  PROVE  IInv'
<1> DEFINE f == FindMostWorkChain
           cand == candidates \ f.erased
           going == f.most \notin {None, tip}
<1>1. /\ failedChild' = failedChild \cup f.marked
      /\ target' = [target EXCEPT ![t] = f.most]
      /\ cutShort' = FALSE
      /\ UNCHANGED <<received, todo, budget>>
      /\ ~going => /\ candidates' = cand /\ bestInvalid' = f.worst
                   /\ pc' = [pc EXCEPT ![t] = IF pc[t] = "nested" THEN "accepted" ELSE "idle"]
                   /\ UNCHANGED <<tip, scripts, failedValid, rejected>>
      /\ going => /\ ActivateBestChainStep(f.most, cand, f.worst)
                  /\ pc' = [pc EXCEPT ![t] = IF pc[t] # "nested" THEN "test"
                                             ELSE IF tip' = f.most THEN "accepted" ELSE "nested"]
  BY DEF ActivateBestChain, Goto
<1>2. /\ f.most # None => f.most \in candidates /\ ~Tainted(f.most)
      /\ f.marked \subseteq index \ Chain
      /\ \A x \in f.marked : \E k \in Failed \ Chain : k \in Ancestors[x]
      /\ f.worst \in index \cup {None}
  BY FindMostHolds
<1>3. /\ TypeOK /\ IndexInv /\ ChainInv /\ LinkedExact /\ candidates \subseteq linked
      /\ linked \subseteq data /\ data \subseteq index /\ index \subseteq Block
      /\ Chain \cap (Failed \cup Invalid \cup BadContext) = {}
      /\ Chain \ {Genesis} \subseteq scripts /\ ScriptsNested /\ CandidatesSound
      /\ seq \in [Block -> Nat] /\ tip \in linked
  BY DEF IInv, IndexInv, ChainInv, ChainIsValid, TypeOK
<1> HIDE DEF f
<1>4. cand \subseteq candidates /\ None \notin candidates
  BY <1>3, BlockTreeAssumption
<1> HIDE DEF cand, going
<1>5. pc' \in [Thread -> Stages] /\ target' \in [Thread -> index' \cup {None}]
  <2>1. f.most \in index \cup {None}
    BY <1>2, <1>3
  <2>2. pc' \in [Thread -> Stages]
    BY <1>1, <1>3 DEF TypeOK, Stages
  <2> QED
    BY <2>1, <2>2, <1>1, <1>3 DEF TypeOK, received
\* Nothing is connected or disconnected.
<1>6. CASE ~going
  <2>1. /\ candidates' \subseteq candidates /\ bestInvalid' = f.worst
        /\ UNCHANGED <<tip, scripts, failedValid, rejected, todo, budget, index, data, linked, seq,
                       nBlockSequenceId, unlinked, bestHeader>>
    BY <1>1, <1>4, <1>6 DEF received
  <2>2. TypeOK'
    BY <2>1, <1>1, <1>2, <1>3, <1>5 DEF TypeOK
  <2>3. IndexInv'
    BY <2>1, <1>3 DEF IndexInv, LinkedExact, Numbered
  <2>4. ChainInv'
    BY <2>1, <1>1, <1>2, <1>3
    DEF ChainInv, ChainIsValid, ScriptsNested, CandidatesSound, Better, BetterBy, Chain, Failed
  <2> QED
    BY <2>2, <2>3, <2>4 DEF IInv
<1>7. CASE going
  <2>1. /\ f.most \in candidates /\ f.most # tip /\ ~Tainted(f.most) /\ f.most \in linked
        /\ UNCHANGED <<todo, budget, index, data, linked, seq, nBlockSequenceId, unlinked, bestHeader>>
    BY <1>1, <1>2, <1>3, <1>7 DEF going, received
  <2>2. PICK connected \in SUBSET Block, bad \in SUBSET Block :
          Moved(f.most, cand, f.worst, connected, bad)
    BY <1>1, <1>7, <2>1, StepMoves
  <2>3. /\ tip' \in Ancestors[f.most] /\ Ancestors[tip'] \subseteq Chain \cup connected
        /\ connected \subseteq Ancestors[tip'] \ Chain /\ connected \cap Invalid = {}
        /\ bad \subseteq (Ancestors[f.most] \ Chain) \cap (Invalid \cup Contextual)
        /\ bad \cap Ancestors[tip'] = {}
        /\ scripts' = scripts \cup connected /\ failedValid' = failedValid \cup bad
        /\ rejected' \subseteq rejected \cup (bad \cap Contextual) /\ rejected \subseteq rejected'
        /\ candidates' = (IF connected = {} THEN cand ELSE Pruned(cand, tip')) \ bad
        /\ bestInvalid' \in {f.worst} \cup bad
    BY <2>2 DEF Moved
  <2>4. /\ Ancestors[f.most] \subseteq linked /\ f.most \in Block
        /\ tip' \in linked /\ tip' \in Block
        /\ Ancestors[tip'] \subseteq Ancestors[f.most] /\ tip' \in Ancestors[tip']
    BY <2>1, <2>3, <1>3, LinkedLine, AncestorsTransitive, AncestorsBasic
  <2>5. connected \cap Failed = {}
    BY <2>1, <2>3, <2>4 DEF Tainted, Walk
  <2>6. Ancestors[tip'] \cap f.marked = {}
    <3> SUFFICES ASSUME NEW x \in Ancestors[tip'], x \in f.marked  PROVE FALSE
      OBVIOUS
    <3>1. PICK k \in Failed \ Chain : k \in Ancestors[x]
      BY <1>2
    <3>2. k \in Ancestors[tip']
      BY <3>1, <2>4, AncestorsTransitive
    <3> QED
      BY <3>1, <3>2, <2>3, <2>5
  <2>7. TypeOK'
    <3>1. /\ scripts' \subseteq data' /\ failedValid' \subseteq index' /\ failedChild' \subseteq index'
          /\ candidates' \subseteq linked' /\ tip' \in linked' /\ bestInvalid' \in index' \cup {None}
      BY <2>1, <2>3, <2>4, <1>1, <1>2, <1>3, <1>4 DEF TypeOK, Pruned
    <3>2. rejected' \subseteq Contextual /\ todo' \in [Thread -> SUBSET rejected']
      BY <2>1, <2>3, <1>3 DEF TypeOK
    <3> QED
      BY <3>1, <3>2, <2>1, <1>1, <1>3, <1>5 DEF TypeOK
  <2>8. IndexInv'
    BY <2>1, <1>3 DEF IndexInv, LinkedExact, Numbered
  <2>9. ChainIsValid'
    <3>1. Ancestors[tip'] \cap BadContext = {}
      BY <2>4, <1>3 DEF IndexInv
    <3>2. Ancestors[tip'] \cap Failed = {} /\ Ancestors[tip'] \cap Invalid = {}
      BY <2>3, <2>5, <1>3
    <3> QED
      BY <3>1, <3>2, <2>3, <2>6, <1>1 DEF ChainIsValid, Chain, Failed
  <2>10. ScriptsNested' /\ (Chain \ {Genesis} \subseteq scripts)'
    <3>1. Ancestors[tip'] \ {Genesis} \subseteq scripts'
      BY <2>3, <1>3
    <3>2. \A b \in connected : Ancestors[b] \subseteq Ancestors[tip']
      BY <2>3, <2>4, AncestorsTransitive
    <3> QED
      BY <3>1, <3>2, <2>3, <1>3 DEF ScriptsNested, Chain
  <2>11. CandidatesSound'
    <3> SUFFICES ASSUME NEW b \in candidates'  PROVE b \in linked /\ ~BetterBy(seq, tip', b)
      BY <2>1 DEF CandidatesSound, Better
    <3>1. b \in candidates /\ b \in linked /\ ~Better(tip, b) /\ b \in Block
      BY <2>3, <1>3, <1>4 DEF CandidatesSound, Pruned
    <3>2. CASE connected = {}
      <4>1. tip' \in Chain
        BY <3>2, <2>3, <2>4
      <4> QED
        BY <4>1, <3>1, TipGoesBack DEF Better
    <3>3. CASE connected # {}
      BY <3>1, <3>3, <2>3 DEF Pruned, Better
    <3> QED
      BY <3>2, <3>3
  <2> QED
    BY <2>7, <2>8, <2>9, <2>10, <2>11 DEF IInv, ChainInv
<1> QED
  BY <1>6, <1>7

\* What is left of a step that ends in a system error: the tip at a block of the old chain,
\* or of the new one below which everything was connected; perhaps the next one was raised.
CutOff(most, cand, connected, raised) ==
    /\ tip' \in linked /\ Ancestors[tip'] \subseteq Chain \cup connected
    /\ connected \subseteq (Ancestors[tip'] \cap Ancestors[most]) \ Chain
    /\ connected \cap Invalid = {}
    /\ \A x \in raised : x \in linked /\ Ancestors[x] \subseteq Ancestors[tip'] \cup {x}
    /\ scripts' = scripts \cup connected \cup raised
    /\ candidates' = IF connected = {} THEN cand ELSE Pruned(cand, tip')

LEMMA FailingStepMoves ==
  ASSUME IInv, NEW most \in candidates, NEW cand,
         DisconnectTipFails(most, cand) \/ ConnectTipFails(most, cand)
  PROVE  \E connected, raised \in SUBSET Block : CutOff(most, cand, connected, raised)
<1>1. TypeOK /\ LinkedExact /\ most \in linked /\ most \in Block /\ tip \in linked /\ tip \in Block
  BY DEF IInv, IndexInv, TypeOK
<1>2. Ancestors[most] \subseteq linked /\ Chain \subseteq linked /\ linked \subseteq Block
  BY <1>1, LinkedLine DEF Chain, TypeOK
<1>3. CASE DisconnectTipFails(most, cand)
  <2>1. tip' \in Chain /\ candidates' = cand /\ scripts' = scripts
    BY <1>3 DEF DisconnectTipFails
  <2>2. Ancestors[tip'] \subseteq Chain
    BY <2>1, TipGoesBack
  <2>3. CutOff(most, cand, {}, {})
    BY <2>1, <2>2, <1>2 DEF CutOff
  <2> QED
    BY <2>3
<1>4. CASE ConnectTipFails(most, cand)
  <2>1. PICK b \in Path(most) :
          LET connected == Ancestors[Parent[b]] \ Chain
          IN  /\ connected \cap Invalid = {}
              /\ tip' = Parent[b]
              /\ \E raised \in SUBSET ({b} \ Invalid) : scripts' = scripts \cup connected \cup raised
              /\ candidates' = IF connected = {} THEN cand ELSE Pruned(cand, Parent[b])
    BY <1>4 DEF ConnectTipFails
  <2> DEFINE connected == Ancestors[Parent[b]] \ Chain
  <2>2. PICK raised \in SUBSET ({b} \ Invalid) : scripts' = scripts \cup connected \cup raised
    BY <2>1
  <2>3. b \in Ancestors[most] /\ b \in linked /\ b \in Block
    BY <1>2, <2>1 DEF Path
  <2>4. /\ Parent[b] \in Ancestors[most] /\ Ancestors[b] = {b} \cup Ancestors[Parent[b]]
    BY <2>3, <1>1, AncestorsBasic, AncestorsOfParent
  <2>5. Ancestors[Parent[b]] \subseteq Ancestors[most]
    BY <2>4, <1>1, AncestorsTransitive
  <2>6. CutOff(most, cand, connected, raised)
    BY <2>1, <2>2, <2>3, <2>4, <2>5, <1>2 DEF CutOff
  <2>7. connected \in SUBSET Block /\ raised \in SUBSET Block
    BY <2>3, <2>5, <1>2
  <2> QED
    BY <2>6, <2>7
<1> QED
  BY <1>3, <1>4

\* What the two kinds of failure have in common.
FailedRound(t, f, connected, raised) ==
    /\ f.most \notin {None, tip}
    /\ CutOff(f.most, candidates \ f.erased, connected, raised)
    /\ failedChild' = failedChild \cup f.marked
    /\ bestInvalid' = f.worst
    /\ target' = [target EXCEPT ![t] = f.most]
    /\ pc' = [pc EXCEPT ![t] = IF pc[t] = "nested" THEN "accepted" ELSE "idle"]
    /\ cutShort' = TRUE /\ budget' \in 0 .. Budget
    /\ UNCHANGED <<received, failedValid, rejected, todo>>

LEMMA FailedRoundHolds ==
  ASSUME IInv, NEW t \in Thread, ActivationFails(t)
  PROVE  \E connected, raised \in SUBSET Block :
           FailedRound(t, FindMostWorkChain, connected, raised)
<1> DEFINE f == FindMostWorkChain
<1>1. /\ f.most \notin {None, tip}
      /\ \/ DisconnectTipFails(f.most, candidates \ f.erased)
         \/ ConnectTipFails(f.most, candidates \ f.erased)
      /\ failedChild' = failedChild \cup f.marked
      /\ bestInvalid' = f.worst
      /\ target' = [target EXCEPT ![t] = f.most]
      /\ pc' = [pc EXCEPT ![t] = IF pc[t] = "nested" THEN "accepted" ELSE "idle"]
      /\ cutShort' = TRUE /\ budget > 0 /\ budget' = budget - 1
      /\ UNCHANGED <<received, failedValid, rejected, todo>>
  BY DEF ActivationFails, Goto
<1>2. f.most # None => f.most \in candidates
  BY FindMostHolds
<1> HIDE DEF f
<1>3. budget' \in 0 .. Budget
  BY <1>1, BlockTreeAssumption DEF IInv, TypeOK
<1>4. PICK connected \in SUBSET Block, raised \in SUBSET Block :
        CutOff(f.most, candidates \ f.erased, connected, raised)
  BY <1>1, <1>2, FailingStepMoves
<1>5. FailedRound(t, f, connected, raised)
  BY <1>1, <1>3, <1>4 DEF FailedRound
<1> QED
  BY <1>5 DEF f

LEMMA ActivationFailsInv ==
  ASSUME IInv, NEW t \in Thread, ActivationFails(t)
  PROVE  IInv'
<1> DEFINE f == FindMostWorkChain
<1>1. PICK connected \in SUBSET Block, raised \in SUBSET Block : FailedRound(t, f, connected, raised)
  BY FailedRoundHolds
<1>2. /\ f.most # None => f.most \in candidates /\ ~Tainted(f.most)
      /\ f.marked \subseteq index \ Chain
      /\ \A x \in f.marked : \E k \in Failed \ Chain : k \in Ancestors[x]
      /\ f.worst \in index \cup {None}
  BY FindMostHolds
<1> HIDE DEF f
<1>3. /\ TypeOK /\ IndexInv /\ ChainInv /\ LinkedExact /\ candidates \subseteq linked
      /\ linked \subseteq data /\ data \subseteq index /\ index \subseteq Block
      /\ Chain \cap (Failed \cup Invalid \cup BadContext) = {}
      /\ Chain \ {Genesis} \subseteq scripts /\ ScriptsNested /\ CandidatesSound
  BY DEF IInv, IndexInv, ChainInv, ChainIsValid, TypeOK
<1>4. /\ f.most \in candidates /\ ~Tainted(f.most) /\ f.most \in Block
      /\ UNCHANGED <<index, data, linked, seq, nBlockSequenceId, unlinked, bestHeader, failedValid,
                     rejected, todo>>
      /\ failedChild' = failedChild \cup f.marked /\ bestInvalid' = f.worst
      /\ target' = [target EXCEPT ![t] = f.most]
      /\ pc' = [pc EXCEPT ![t] = IF pc[t] = "nested" THEN "accepted" ELSE "idle"]
      /\ cutShort' = TRUE /\ budget' \in 0 .. Budget
  BY <1>1, <1>2, <1>3 DEF FailedRound, received
<1>5. /\ tip' \in linked /\ Ancestors[tip'] \subseteq Chain \cup connected
      /\ connected \subseteq (Ancestors[tip'] \cap Ancestors[f.most]) \ Chain
      /\ connected \cap Invalid = {}
      /\ \A x \in raised : x \in linked /\ Ancestors[x] \subseteq Ancestors[tip'] \cup {x}
      /\ scripts' = scripts \cup connected \cup raised
      /\ candidates' = IF connected = {} THEN candidates \ f.erased
                       ELSE Pruned(candidates \ f.erased, tip')
  BY <1>1 DEF FailedRound, CutOff
<1>6. tip' \in Block /\ tip' \in Ancestors[tip'] /\ Ancestors[tip'] \subseteq linked
  BY <1>3, <1>5, LinkedLine, AncestorsBasic
<1>7. connected \cap Failed = {}
  BY <1>4, <1>5 DEF Tainted, Walk
<1>8. Ancestors[tip'] \cap f.marked = {}
  <2> SUFFICES ASSUME NEW x \in Ancestors[tip'], x \in f.marked  PROVE FALSE
    OBVIOUS
  <2>1. PICK k \in Failed \ Chain : k \in Ancestors[x]
    BY <1>2
  <2>2. k \in Ancestors[tip']
    BY <2>1, <1>6, AncestorsTransitive
  <2> QED
    BY <2>1, <2>2, <1>5, <1>7
<1>9. TypeOK'
  <2>1. pc' \in [Thread -> Stages] /\ target' \in [Thread -> index' \cup {None}]
    BY <1>3, <1>4 DEF TypeOK, Stages
  <2>2. /\ scripts' \subseteq data' /\ failedValid' \cup failedChild' \subseteq index'
        /\ candidates' \subseteq linked' /\ tip' \in linked' /\ bestInvalid' \in index' \cup {None}
    BY <1>2, <1>3, <1>4, <1>5, <1>6 DEF TypeOK, Pruned
  <2> QED
    BY <2>1, <2>2, <1>3, <1>4 DEF TypeOK
<1>10. IndexInv'
  BY <1>3, <1>4 DEF IndexInv, LinkedExact, Numbered
<1>11. ChainIsValid'
  <2>1. Ancestors[tip'] \cap BadContext = {}
    BY <1>3, <1>6 DEF IndexInv
  <2>2. Ancestors[tip'] \cap Failed = {} /\ Ancestors[tip'] \cap Invalid = {}
    BY <1>3, <1>5, <1>7
  <2> QED
    BY <2>1, <2>2, <1>4, <1>8 DEF ChainIsValid, Chain, Failed
<1>12. ScriptsNested' /\ (Chain \ {Genesis} \subseteq scripts)'
  <2>1. Ancestors[tip'] \ {Genesis} \subseteq scripts'
    BY <1>3, <1>5
  <2>2. \A b \in connected : Ancestors[b] \subseteq Ancestors[tip']
    BY <1>5, <1>6, AncestorsTransitive
  <2> QED
    BY <2>1, <2>2, <1>3, <1>5 DEF ScriptsNested, Chain
<1>13. CandidatesSound'
  <2> SUFFICES ASSUME NEW b \in candidates'  PROVE b \in linked /\ ~BetterBy(seq, tip', b)
    BY <1>4 DEF CandidatesSound, Better
  <2>1. b \in candidates /\ b \in linked /\ ~Better(tip, b) /\ b \in Block
    BY <1>3, <1>5 DEF CandidatesSound, Pruned
  <2>2. CASE connected = {}
    <3>1. tip' \in Chain
      BY <2>2, <1>5, <1>6
    <3> QED
      BY <3>1, <2>1, TipGoesBack DEF Better
  <2>3. CASE connected # {}
    <3>1. b \in Pruned(candidates \ f.erased, tip')
      BY <2>3, <1>5
    <3> QED
      BY <3>1, <2>1 DEF Pruned, Better
  <2> QED
    BY <2>2, <2>3
<1> QED
  BY <1>9, <1>10, <1>11, <1>12, <1>13 DEF IInv, ChainInv

-----------------------------------------------------------------------------
(* Taking blocks back.                                                     *)

LEMMA InvalidateBlockInv ==
  ASSUME IInv, NEW t \in Thread, NEW b \in Block, InvalidateBlock(t, b)
  PROVE  IInv'
<1> DEFINE walked == IF b \in Chain THEN {x \in Chain : b \in Ancestors[x]} ELSE {}
           newTip == IF b \in Chain THEN Parent[b] ELSE tip
           valid == linked \ (Failed \cup {b} \cup walked)
<1>1. /\ b \in index /\ b # Genesis
      /\ failedValid' = failedValid \cup {b} /\ failedChild' = failedChild \cup walked
      /\ tip' = newTip
      /\ candidates' = (candidates \ ({b} \cup walked)) \cup Revived(valid, newTip)
      /\ bestInvalid' = InvalidChainFound(bestInvalid, b)
      /\ pc' = [pc EXCEPT ![t] = "activate"]
      /\ budget > 0 /\ budget' = budget - 1
      /\ UNCHANGED <<index, data, linked, seq, nBlockSequenceId, unlinked, bestHeader, scripts,
                     rejected, target, todo, cutShort>>
  BY DEF InvalidateBlock, Rare, Goto, received
<1>2. /\ TypeOK /\ IndexInv /\ ChainInv /\ LinkedExact /\ candidates \subseteq linked
      /\ linked \subseteq data /\ data \subseteq index /\ index \subseteq Block
      /\ Chain \cap (Failed \cup Invalid \cup BadContext) = {}
      /\ Chain \ {Genesis} \subseteq scripts /\ ScriptsNested /\ CandidatesSound
      /\ tip \in linked
  BY DEF IInv, IndexInv, ChainInv, ChainIsValid, TypeOK
<1>3. tip \in Block /\ tip \in Chain /\ Chain \subseteq linked
  BY <1>2, LinkedLine, AncestorsBasic DEF Chain
<1>4. newTip \in Chain
  BY <1>2, <1>3, AncestorsBasic DEF Chain
<1>5. newTip \in linked /\ Ancestors[newTip] \subseteq Chain
      /\ \A o \in Block : ~Better(tip, o) => ~Better(newTip, o)
  <2> HIDE DEF newTip
  <2> QED
    BY <1>4, TipGoesBack
<1>6. Ancestors[newTip] \cap ({b} \cup walked) = {}
  <2>1. CASE b \in Chain
    <3> SUFFICES ASSUME NEW x \in Ancestors[Parent[b]], b \in Ancestors[x]  PROVE FALSE
      BY <2>1, AncestorsBasic
    <3>1. b \in Ancestors[Parent[b]]
      BY ParentHolds, AncestorsTransitive
    <3> QED
      BY <3>1, <1>1, ParentIsBelow
  <2>2. CASE b \notin Chain
    BY <2>2 DEF Chain
  <2> QED
    BY <2>1, <2>2
<1>7. walked \subseteq Chain /\ valid \subseteq linked
  OBVIOUS
<1> HIDE DEF walked, newTip, valid
<1>8. TypeOK'
  <2>1. bestInvalid' \in index \cup {None}
    BY <1>1, <1>2 DEF TypeOK, InvalidChainFound
  <2>2. budget' \in 0 .. Budget
    BY <1>1, <1>2, BlockTreeAssumption DEF TypeOK
  <2>3. pc' \in [Thread -> Stages]
    BY <1>1, <1>2 DEF TypeOK, Stages
  <2>4. candidates' \subseteq linked
    BY <1>1, <1>2, <1>7 DEF Revived
  <2>5. failedValid' \cup failedChild' \subseteq index
    BY <1>1, <1>2, <1>3, <1>7 DEF TypeOK
  <2> QED
    BY <1>1, <1>2, <1>5, <2>1, <2>2, <2>3, <2>4, <2>5 DEF TypeOK
<1>9. IndexInv'
  BY <1>1, <1>2 DEF IndexInv, LinkedExact, Numbered
<1>10. ChainInv'
  <2>1. ChainIsValid' /\ ScriptsNested' /\ (Chain \ {Genesis} \subseteq scripts)'
    BY <1>1, <1>2, <1>5, <1>6 DEF ChainIsValid, ScriptsNested, Chain, Failed
  <2>2. \A x \in candidates' : x \in linked /\ ~Better(newTip, x)
    BY <1>1, <1>2, <1>5, <1>7 DEF CandidatesSound, Revived
  <2> QED
    BY <2>1, <2>2, <1>1 DEF ChainInv, CandidatesSound, Better, BetterBy
<1> QED
  BY <1>8, <1>9, <1>10 DEF IInv

LEMMA ReconsiderInv ==
  ASSUME IInv, NEW b \in index, ReconsiderBlock(b),
         UNCHANGED <<received, scripts, tip, rejected, target>>,
         pc' \in [Thread -> Stages], todo' \in [Thread -> SUBSET rejected'],
         budget' \in 0 .. Budget, cutShort' \in BOOLEAN
  PROVE  IInv'
<1> DEFINE below == {x \in index : b \in Ancestors[x] /\ (x \in Failed \/ x \notin data)}
           cleared == below \cup Ancestors[b]
<1>1. /\ failedValid' = failedValid \ cleared /\ failedChild' = failedChild \ cleared
      /\ candidates' = candidates \cup {x \in below \cap linked : Better(x, tip)}
      /\ bestInvalid' \in {bestInvalid, None}
      /\ UNCHANGED <<index, data, linked, seq, nBlockSequenceId, unlinked, bestHeader, scripts, tip,
                     rejected, target>>
  BY DEF ReconsiderBlock, received
<1>2. TypeOK /\ IndexInv /\ ChainInv /\ linked \subseteq Block /\ tip \in Block /\ seq \in [Block -> Nat]
  BY DEF IInv, TypeOK
<1>3. candidates' \subseteq candidates \cup {x \in linked : Better(x, tip)}
  BY <1>1
<1> HIDE DEF below, cleared
<1>4. TypeOK'
  BY <1>1, <1>2, <1>3 DEF TypeOK
<1>5. IndexInv'
  BY <1>1, <1>2 DEF IndexInv, LinkedExact, Numbered
<1>6. ChainInv'
  <2>1. \A x \in candidates' : x \in linked /\ ~Better(tip, x)
    BY <1>2, <1>3, BetterOrder DEF ChainInv, CandidatesSound, Better
  <2>2. CandidatesSound'
    BY <2>1, <1>1 DEF CandidatesSound, Better, BetterBy
  <2> QED
    BY <2>2, <1>1, <1>2 DEF ChainInv, ChainIsValid, ScriptsNested, Chain, Failed
<1> QED
  BY <1>4, <1>5, <1>6 DEF IInv

LEMMA ReconsiderRpcInv ==
  ASSUME IInv, NEW t \in Thread, NEW b \in Block, ReconsiderRpc(t, b)
  PROVE  IInv'
<1>1. b \in index /\ ReconsiderBlock(b) /\ pc' = [pc EXCEPT ![t] = "activate"]
      /\ UNCHANGED <<received, scripts, tip, rejected, target, todo, cutShort>>
      /\ budget > 0 /\ budget' = budget - 1
  BY DEF ReconsiderRpc, Rare, Goto
<1>2. /\ budget' \in 0 .. Budget /\ cutShort' \in BOOLEAN
      /\ pc' \in [Thread -> Stages] /\ todo' \in [Thread -> SUBSET rejected']
  BY <1>1, BlockTreeAssumption DEF IInv, TypeOK, Stages
<1> QED
  BY <1>1, <1>2, ReconsiderInv

LEMMA ReconsiderCheckpointInv ==
  ASSUME IInv, NEW t \in Thread, NEW b \in Block, ReconsiderCheckpoint(t, b)
  PROVE  IInv'
<1>1. Parent[b] \in index /\ ReconsiderBlock(Parent[b]) /\ pc' = [pc EXCEPT ![t] = "nested"]
      /\ UNCHANGED <<received, scripts, tip, rejected, target, todo, budget, cutShort>>
  BY DEF ReconsiderCheckpoint, Goto
<1>2. /\ budget' \in 0 .. Budget /\ cutShort' \in BOOLEAN
      /\ pc' \in [Thread -> Stages] /\ todo' \in [Thread -> SUBSET rejected']
  BY <1>1 DEF IInv, TypeOK, Stages
<1> QED
  BY <1>1, <1>2, ReconsiderInv

\* Steps that leave the index alone; the chain may get shorter.
LEMMA SameIndexInv ==
  ASSUME IInv, UNCHANGED <<received, validity, candidates, target>>, tip' \in Chain,
         rejected \subseteq rejected', rejected' \subseteq Contextual,
         pc' \in [Thread -> Stages], todo' \in [Thread -> SUBSET rejected'],
         budget' \in 0 .. Budget, cutShort' \in BOOLEAN
  PROVE  IInv'
<1>1. /\ UNCHANGED <<index, data, linked, seq, nBlockSequenceId, unlinked, bestHeader, scripts,
                     failedValid, failedChild, bestInvalid, candidates, target>>
      /\ TypeOK /\ IndexInv /\ ChainInv
  BY DEF received, validity, IInv
<1>2. tip' \in linked /\ Ancestors[tip'] \subseteq Chain
      /\ \A o \in Block : ~Better(tip, o) => ~Better(tip', o)
  BY TipGoesBack
<1>3. TypeOK'
  BY <1>1, <1>2 DEF TypeOK
<1>4. IndexInv'
  BY <1>1 DEF IndexInv, LinkedExact, Numbered
<1>5. CandidatesSound'
  <2>1. \A x \in candidates : x \in Block /\ x \in linked /\ ~Better(tip', x)
    BY <1>1, <1>2 DEF ChainInv, CandidatesSound, TypeOK
  <2> QED
    BY <2>1, <1>1 DEF CandidatesSound, Better, BetterBy
<1>6. ChainInv'
  BY <1>1, <1>2, <1>5 DEF ChainInv, ChainIsValid, ScriptsNested, Chain, Failed
<1> QED
  BY <1>3, <1>4, <1>6 DEF IInv

LEMMA ReprocessOneInv ==
  ASSUME IInv, NEW t \in Thread, ReprocessOne(t)
  PROVE  IInv'
<1>1. PICK b \in todo[t] :
        /\ IF b \in index THEN ReconsiderBlock(b) ELSE UNCHANGED <<validity, candidates>>
        /\ todo' = [todo EXCEPT ![t] = @ \ {b}]
  BY DEF ReprocessOne
<1>2. UNCHANGED <<received, scripts, tip, rejected, pc, target, budget, cutShort>>
  BY DEF ReprocessOne
<1>3. /\ budget' \in 0 .. Budget /\ cutShort' \in BOOLEAN /\ pc' \in [Thread -> Stages]
      /\ todo' \in [Thread -> SUBSET rejected'] /\ rejected' \subseteq Contextual
  BY <1>1, <1>2 DEF IInv, TypeOK
<1>4. tip \in Chain
  BY AncestorsBasic DEF Chain, IInv, TypeOK
<1> QED
  BY <1>1, <1>2, <1>3, <1>4, ReconsiderInv, SameIndexInv

-----------------------------------------------------------------------------
(* The specification.                                                      *)

\* One case per action.
LEMMA NextInv == IInv /\ [Next]_vars => IInv'
<1> SUFFICES ASSUME IInv, [Next]_vars  PROVE IInv'
  OBVIOUS
<1>1. tip \in Chain /\ TypeOK
  BY AncestorsBasic DEF Chain, IInv, TypeOK
<1>2. CASE UNCHANGED vars
  BY <1>1, <1>2, SameIndexInv DEF vars, TypeOK
<1>3. ASSUME NEW t \in Thread, Activation(t)  PROVE IInv'
  <2>1. CASE TestTip(t)
    BY <2>1, <1>1, SameIndexInv DEF TestTip, Goto, TypeOK, Stages
  <2>2. CASE FinishActivation(t)
    BY <2>2, <1>1, SameIndexInv DEF FinishActivation, Goto, TypeOK, Stages
  <2>3. CASE DisconnectBlocksAndReprocess(t)
    BY <2>3, <1>1, SameIndexInv DEF DisconnectBlocksAndReprocess, Goto, TypeOK, Stages
  <2> QED
    BY <1>3, <2>1, <2>2, <2>3, ActivateBestChainInv, ReprocessOneInv DEF Activation
<1>4. ASSUME NEW t \in Thread, ReprocessBlocks(t)  PROVE IInv'
  <2>1. PICK recent \in SUBSET rejected : todo' = [todo EXCEPT ![t] = recent]
    BY <1>4 DEF ReprocessBlocks
  <2>2. /\ UNCHANGED <<received, validity, candidates, tip, rejected, target>>
        /\ pc' = [pc EXCEPT ![t] = "reprocess"] /\ budget > 0 /\ budget' = budget - 1
        /\ cutShort' = cutShort
    BY <1>4 DEF ReprocessBlocks, Rare, Goto
  <2>3. /\ budget' \in 0 .. Budget /\ cutShort' \in BOOLEAN
        /\ pc' \in [Thread -> Stages] /\ todo' \in [Thread -> SUBSET rejected']
    BY <2>1, <2>2, <1>1, BlockTreeAssumption DEF TypeOK, Stages
  <2> QED
    BY <2>2, <2>3, <1>1, SameIndexInv DEF TypeOK
<1>5. ASSUME NEW t \in Thread, NEW b \in Block, ProcessKnownBlock(t, b)  PROVE IInv'
  BY <1>5, <1>1, SameIndexInv DEF ProcessKnownBlock, Goto, TypeOK, Stages
<1>6. ASSUME NEW t \in Thread, NEW b \in Block, CheckBlockRefuses(t, b)  PROVE IInv'
  BY <1>6, <1>1, SameIndexInv DEF CheckBlockRefuses, TypeOK
<1> QED
  BY <1>2, <1>3, <1>4, <1>5, <1>6, ProcessNewBlockInv, ReconsiderCheckpointInv, WriteFailsInv,
     InvalidateBlockInv, ReconsiderRpcInv, ActivationFailsInv DEF Next

LEMMA InvariantHolds == Spec => []IInv
BY InitInv, NextInv, PTL DEF Spec

\* Every set and pointer of the block index stays within its type.
THEOREM TypeCorrect == Spec => []TypeOK
<1>1. IInv => TypeOK
  BY DEF IInv
<1> QED
  BY <1>1, InvariantHolds, PTL

\* For every tree of blocks, every set of threads and every history of refusals, RPCs and
\* failed writes, the assertions of CheckBlockIndex about nChainTx, sequence numbers,
\* mapBlocksUnlinked, script validity and the soundness of the candidates hold whenever
\* cs_main is free, in the middle of a reorganisation too.
THEOREM IndexIsConsistent == Spec => []IndexConsistent
<1>1. IInv => IndexConsistent
  <2> SUFFICES ASSUME IInv  PROVE IndexConsistent
    OBVIOUS
  <2>1. LinkedExact /\ ScriptsNested /\ CandidatesSound /\ Numbered /\ unlinked = data \ linked
        /\ index \subseteq Block
    BY DEF IInv, IndexInv, ChainInv, TypeOK
  <2>2. SequenceExact /\ UnlinkedExact
    BY <2>1 DEF SequenceExact, UnlinkedExact, Numbered
  <2> QED
    BY <2>1, <2>2 DEF IndexConsistent
<1> QED
  BY <1>1, InvariantHolds, PTL

\* No block of the active chain is ever one that is marked failed or that the checks refuse,
\* in whatever order blocks arrive, reorganisations fail and RPCs take blocks back.
THEOREM ChainIsSound == Spec => []ChainIsValid
<1>1. IInv => ChainIsValid
  BY DEF IInv, ChainInv
<1> QED
  BY <1>1, InvariantHolds, PTL

-----------------------------------------------------------------------------
(* The activation goes forward, whatever the verdicts depend on.           *)

\* Marks are cleared, blocks taken off the chain to be looked at again, or left off it by a
\* system error.
TakesBack ==
    \E t \in Thread :
        \/ ActivationFails(t)
        \/ ReprocessOne(t) \/ DisconnectBlocksAndReprocess(t)
        \/ \E b \in Block : ReconsiderRpc(t, b) \/ ReconsiderCheckpoint(t, b)

(* Every round of ActivateBestChain marks a block as failed that was not,  *)
(* or moves to a better tip, or is the last.  In between no mark is lost   *)
(* and the tip falls back only with a new mark, so that the rounds of all  *)
(* the threads work off the same blocks.                                   *)
ActivationAdvances ==
    /\ \/ TakesBack
       \/ /\ Failed \subseteq Failed'
          /\ Failed' = Failed => tip' = tip \/ Better(tip', tip)
    /\ \A t \in Thread : ActivateBestChain(t) /\ Failed' = Failed /\ tip' = tip
                         => pc'[t] \in {"idle", "accepted"}

LEMMA RoundAdvances ==
  ASSUME IInv, NEW t \in Thread, ActivateBestChain(t)
  PROVE  /\ Failed \subseteq Failed'
         /\ Failed' = Failed => tip' = tip \/ Better(tip', tip)
         /\ Failed' = Failed /\ tip' = tip => pc'[t] \in {"idle", "accepted"}
<1> DEFINE f == FindMostWorkChain
           cand == candidates \ f.erased
           going == f.most \notin {None, tip}
<1>1. /\ failedChild' = failedChild \cup f.marked
      /\ ~going => /\ pc' = [pc EXCEPT ![t] = IF pc[t] = "nested" THEN "accepted" ELSE "idle"]
                   /\ UNCHANGED <<tip, failedValid>>
      /\ going => ActivateBestChainStep(f.most, cand, f.worst)
  BY DEF ActivateBestChain, Goto
<1>2. f.most # None => f.most \in candidates /\ ~Tainted(f.most)
  BY FindMostHolds
<1>3. /\ candidates \subseteq linked /\ linked \subseteq Block /\ tip \in linked
      /\ seq \in [Block -> Nat] /\ pc \in [Thread -> Stages] /\ Numbered /\ CandidatesSound
  BY DEF IInv, TypeOK, IndexInv, ChainInv
<1> HIDE DEF f, cand, going
<1>4. CASE ~going
  <2>1. pc'[t] \in {"idle", "accepted"}
    BY <1>1, <1>3, <1>4
  <2> QED
    BY <1>1, <1>4, <2>1 DEF Failed
<1>5. CASE going
  <2>1. f.most \in candidates /\ f.most # tip /\ ~Tainted(f.most) /\ f.most \in Block
        /\ f.most \in linked
    BY <1>2, <1>3, <1>5 DEF going
  <2>2. PICK connected \in SUBSET Block, bad \in SUBSET Block :
          Moved(f.most, cand, f.worst, connected, bad)
    BY <1>1, <1>5, <2>1, StepMoves
  <2>3. /\ failedValid' = failedValid \cup bad /\ bad \subseteq Walk(f.most)
        /\ tip' \in Ancestors[f.most]
        /\ bad = {} => tip' = f.most \/ Work[tip'] > Work[tip]
    BY <2>2 DEF Moved, Walk
  <2>4. bad \cap Failed = {} /\ Failed' = Failed \cup bad \cup f.marked
    BY <1>1, <2>1, <2>3 DEF Tainted, Failed
  <2>5. Better(f.most, tip)
    <3>1. ~Better(tip, f.most) /\ seq[tip] # seq[f.most]
      BY <1>3, <2>1 DEF CandidatesSound, Numbered
    <3> QED
      BY <1>3, <2>1, <3>1, BetterOrder DEF Better
  <2>6. Failed' = Failed => Better(tip', tip)
    BY <2>3, <2>4, <2>5 DEF Better, BetterBy
  <2>7. ~Better(tip, tip)
    BY <1>3, BetterOrder DEF Better
  <2> QED
    BY <2>4, <2>6, <2>7
<1> QED
  BY <1>4, <1>5

LEMMA StepAdvances ==
  ASSUME IInv, [Next]_vars
  PROVE  [ActivationAdvances]_vars
<1> SUFFICES ASSUME Next  PROVE ActivationAdvances
  OBVIOUS
<1>1. \A t \in Thread : ActivateBestChain(t) /\ Failed' = Failed /\ tip' = tip
                        => pc'[t] \in {"idle", "accepted"}
  BY RoundAdvances
<1>2. ASSUME ~TakesBack
      PROVE  Failed \subseteq Failed' /\ (Failed' = Failed => tip' = tip \/ Better(tip', tip))
  <2>1. ASSUME NEW t \in Thread, ActivateBestChain(t)
        PROVE  Failed \subseteq Failed' /\ (Failed' = Failed => tip' = tip \/ Better(tip', tip))
    BY <2>1, RoundAdvances
  <2>2. ASSUME NEW t \in Thread, TestTip(t) \/ FinishActivation(t) \/ ReprocessBlocks(t)
        PROVE  Failed' = Failed /\ tip' = tip
    BY <2>2 DEF TestTip, FinishActivation, ReprocessBlocks, validity, Failed
  <2>3. ASSUME NEW t \in Thread, NEW b \in Block, ProcessNewBlock(t, b)
        PROVE  Failed \subseteq Failed' /\ tip' = tip
    BY <2>3 DEF ProcessNewBlock, Failed
  <2>4. ASSUME NEW t \in Thread, NEW b \in Block,
               ProcessKnownBlock(t, b) \/ CheckBlockRefuses(t, b) \/ WriteFails(t, b)
        PROVE  Failed' = Failed /\ tip' = tip
    BY <2>4 DEF ProcessKnownBlock, CheckBlockRefuses, WriteFails, validity, Failed
  <2>5. ASSUME NEW t \in Thread, NEW b \in Block, InvalidateBlock(t, b)
        PROVE  Failed \subseteq Failed' /\ (Failed' = Failed => tip' = tip)
    <3>1. Failed \subseteq Failed' /\ b \in Failed' /\ (b \notin Chain => tip' = tip)
      BY <2>5 DEF InvalidateBlock, Failed
    <3>2. b \in Chain => b \notin Failed
      BY DEF IInv, ChainInv, ChainIsValid
    <3> QED
      BY <3>1, <3>2
  <2> QED
    BY <1>2, <2>1, <2>2, <2>3, <2>4, <2>5 DEF Next, Activation, TakesBack
<1> QED
  BY <1>1, <1>2 DEF ActivationAdvances

\* What ActivationEnds rests on, for any number of threads and whatever the refusals depend
\* on: no round of an activation is idle, and what the rounds have reached is undone only
\* where something is taken back.
THEOREM ActivationGoesForward == Spec => [][ActivationAdvances]_vars
<1> QED
  BY InvariantHolds, StepAdvances, PTL DEF Spec

-----------------------------------------------------------------------------
(* The best chain, where Steady holds.  In the middle of a reorganisation  *)
(* the tip may be worse than before and the candidates next to it          *)
(* forgotten.  What is kept is an anchor: a sound candidate, at least as   *)
(* good as the tip, from which on no block is missing among the            *)
(* candidates.  Activation does not end before it has reached it.          *)

CompleteAt(o) == \A b \in linked \ Failed : ~Better(o, b) => b \in candidates

Anchor(o) == o \in candidates /\ Ancestors[o] \cap (Failed \cup Invalid) = {} /\ CompleteAt(o)

Unfinished(t) ==
    pc[t] \in {"activate", "nested", "reprocess"} \/ (pc[t] = "test" /\ target[t] # tip)
Settled == ~cutShort /\ \A t \in Thread : ~Unfinished(t)

\* Without invalidateblock every failure has its cause in the blocks.
Blamed == "invalidate" \in Operations \/ failedValid \subseteq Invalid \cup BadContext

SteadyInv ==
    /\ FailureRooted /\ Blamed
    /\ \E o \in candidates : Anchor(o)
    /\ Settled => CompleteAt(tip)
    /\ Settled /\ (\A t \in Thread : pc[t] # "accepted") => IsBest

\* A blameless block has no failed ancestor.
LEMMA BlamelessIsSound ==
  ASSUME FailureRooted, NEW b \in Block, Blameless(b)
  PROVE  Ancestors[b] \cap Failed = {}
<1> SUFFICES ASSUME NEW k \in Ancestors[b], k \in Failed  PROVE FALSE
  OBVIOUS
<1>1. Ancestors[k] \subseteq Ancestors[b]
  BY AncestorsTransitive
<1> QED
  BY <1>1 DEF FailureRooted, Blameless

\* What the comparator gives for linked blocks.
LEMMA BetterHolds ==
  ASSUME IInv, NEW a \in linked, NEW b \in linked, NEW c \in linked
  PROVE  /\ a \in Block /\ ~Better(a, a)
         /\ a # b => Better(a, b) \/ Better(b, a)
         /\ Better(a, b) => ~Better(b, a)
         /\ ~Better(a, b) /\ ~Better(b, c) => ~Better(a, c)
<1>1. a \in Block /\ b \in Block /\ c \in Block /\ seq \in [Block -> Nat]
      /\ (seq[a] = seq[b] => a = b)
  BY DEF IInv, TypeOK, IndexInv, Numbered
<1> QED
  BY <1>1, BetterOrder DEF Better

LEMMA SteadyInit == Init => SteadyInv
<1> SUFFICES ASSUME Init  PROVE SteadyInv
  OBVIOUS
<1>1. IInv
  BY InitInv
<1>2. Genesis \in linked /\ tip = Genesis /\ linked = {Genesis} /\ candidates = {Genesis} /\ Failed = {}
      /\ failedValid = {}
  BY DEF Init, Failed
<1>3. CompleteAt(Genesis)
  BY <1>2 DEF CompleteAt
<1>4. Ancestors[Genesis] \cap (Failed \cup Invalid) = {}
  BY <1>1, <1>2 DEF IInv, ChainInv, ChainIsValid, Chain
<1> QED
  BY <1>2, <1>3, <1>4 DEF SteadyInv, FailureRooted, Blamed, Anchor, IsBest

\* Steps that change neither the tip nor the chains of the linked blocks: more blocks may be
\* marked that are not linked, more headers known.
LEMMA SteadyUnmoved ==
  ASSUME IInv, SteadyInv, UNCHANGED <<linked, seq, candidates, tip>>,
         Failed \subseteq Failed', failedValid \subseteq failedValid',
         \A b \in Failed' \ Failed : b \in Block /\ b \in failedValid',
         (Failed' \ Failed) \cap data = {}, (failedValid' \ failedValid) \cap data = {},
         Blamed', Settled' => Settled,
         Settled' /\ (\A t \in Thread : pc'[t] # "accepted") => \A t \in Thread : pc[t] # "accepted"
  PROVE  SteadyInv'
<1>1. TypeOK /\ LinkedExact /\ candidates \subseteq linked /\ linked \subseteq Block /\ tip \in linked
  BY DEF IInv, IndexInv, TypeOK
<1>2. \A b \in linked : Ancestors[b] \subseteq data /\ b \in Ancestors[b]
  BY <1>1, LinkedLine, AncestorsBasic DEF TypeOK
<1>3. FailureRooted'
  <2> SUFFICES ASSUME NEW b \in Failed'  PROVE Ancestors[b] \cap failedValid' # {}
    BY DEF FailureRooted, Blameless
  <2>1. CASE b \in Failed
    BY <2>1 DEF SteadyInv, FailureRooted, Blameless
  <2>2. CASE b \notin Failed
    BY <2>2, AncestorsBasic
  <2> QED
    BY <2>1, <2>2
<1>4. \A o \in linked : CompleteAt(o) => CompleteAt(o)'
  BY DEF CompleteAt, Better, BetterBy
<1>5. \E o \in candidates' : Anchor(o)'
  <2>1. PICK o \in candidates : Anchor(o)
    BY DEF SteadyInv
  <2>2. Ancestors[o] \cap Failed' = {}
    BY <2>1, <1>1, <1>2 DEF Anchor
  <2> QED
    BY <2>1, <2>2, <1>1, <1>4 DEF Anchor
<1>6. IsBest => IsBest'
  BY <1>2 DEF IsBest, Blameless, Better, BetterBy
<1> QED
  BY <1>1, <1>3, <1>4, <1>5, <1>6 DEF SteadyInv

\* What a round keeps, whether it goes well or ends in a system error: from an anchor it
\* goes on to the next one, and where the best chain was reached it is complete.
LEMMA AnchorKept ==
  ASSUME Steady, IInv, IInv', SteadyInv,
         NEW connected \in SUBSET Block, NEW bad \in SUBSET Block,
         LET f == FindMostWorkChain
             cand == candidates \ f.erased
         IN  /\ failedChild' = failedChild \cup f.marked
             /\ bad \subseteq Ancestors[f.most] \cap Invalid
             /\ candidates' = (IF connected = {} THEN cand ELSE Pruned(cand, tip')) \ bad,
         failedValid' = failedValid \cup bad,
         UNCHANGED <<index, data, linked, seq>>
  PROVE  /\ FindMostWorkChain.most # None
         /\ FailureRooted' /\ Blamed'
         /\ \E a \in candidates' : Anchor(a)'
         /\ tip' = FindMostWorkChain.most => CompleteAt(tip)' /\ IsBest'
<1> DEFINE f == FindMostWorkChain
           cand == candidates \ f.erased
<1>1. /\ failedChild' = failedChild \cup f.marked
      /\ bad \subseteq Ancestors[f.most] \cap Invalid
      /\ candidates' = (IF connected = {} THEN cand ELSE Pruned(cand, tip')) \ bad
      /\ UNCHANGED <<index, data, linked, seq>>
  OBVIOUS
<1>2. /\ f.most # None =>
            /\ f.most \in candidates /\ ~Tainted(f.most)
            /\ \A c \in candidates : ~Tainted(c) /\ c # f.most => Better(f.most, c)
      /\ f.most = None => \A c \in candidates : Tainted(c)
      /\ \A x \in f.marked : \E k \in Failed \ Chain : k \in Ancestors[x]
      /\ f.marked \subseteq index
      /\ f.erased \subseteq f.marked \cup Failed
  BY FindMostHolds
<1> HIDE DEF f
<1>3. /\ TypeOK /\ TypeOK' /\ candidates \subseteq linked /\ linked \subseteq Block /\ index \subseteq Block
      /\ tip \in linked /\ linked' = linked /\ tip' \in linked
      /\ CandidatesSound /\ Contextual = {} /\ FailureRooted /\ Blamed
      /\ Chain' \cap (Failed' \cup Invalid) = {}
  BY <1>1 DEF IInv, IndexInv, ChainInv, ChainIsValid, TypeOK, Steady, SteadyInv
<1>4. PICK o \in candidates : Anchor(o)
  BY DEF SteadyInv
<1>5. o \in linked /\ Ancestors[o] \cap (Failed \cup Invalid) = {} /\ CompleteAt(o)
      /\ o \in Ancestors[o]
  BY <1>3, <1>4, AncestorsBasic DEF Anchor
<1>6. f.most # None /\ (f.most = o \/ Better(f.most, o)) /\ f.most \in linked
  <2>1. ~Tainted(o)
    BY <1>5 DEF Tainted, Walk
  <2> QED
    BY <2>1, <1>2, <1>3
\* What is marked has a failed ancestor.
<1>7. \A b \in linked : Ancestors[b] \cap Failed = {} => Ancestors[b] \cap (f.marked \cup f.erased) = {}
  <2> SUFFICES ASSUME NEW b \in linked, Ancestors[b] \cap Failed = {},
                      NEW x \in Ancestors[b], x \in f.marked \cup f.erased
               PROVE  FALSE
    OBVIOUS
  <2>1. x \in f.marked
    BY <1>2
  <2>2. PICK k \in Failed : k \in Ancestors[x]
    BY <2>1, <1>2
  <2> QED
    BY <2>2, <1>3, AncestorsTransitive
\* The comparator, for the blocks at hand.
<1>8. /\ \A b \in linked : ~Better(f.most, b) => ~Better(o, b)
      /\ \A b \in linked : Better(tip', o) /\ ~Better(tip', b) => ~Better(o, b)
      /\ \A b \in linked : ~Better(tip', o) /\ ~Better(o, b) => ~Better(tip', b)
  BY <1>3, <1>5, <1>6, BetterHolds
<1>9. \A a, b : Better(a, b)' <=> Better(a, b)
  BY <1>1 DEF Better, BetterBy
<1>10. /\ bad \subseteq Ancestors[f.most] \cap Invalid
       /\ failedValid' = failedValid \cup bad
       /\ candidates' = (IF connected = {} THEN cand ELSE Pruned(cand, tip')) \ bad
       /\ Failed' = Failed \cup f.marked \cup bad
  BY <1>1 DEF Failed
<1>11. PICK n \in linked : n = tip'
  BY <1>3
\* No candidate is lost that is neither failed nor worse than the new tip.
<1>12. \A b \in candidates : b \notin Failed' /\ ~Better(tip', b) => b \in candidates'
  BY <1>10, <1>2 DEF Pruned
<1>13. ASSUME NEW a \in linked, \A b \in linked : ~Better(a, b) => ~Better(o, b) /\ ~Better(tip', b)
      PROVE  CompleteAt(a)'
  <2> SUFFICES ASSUME NEW b \in linked, b \notin Failed', ~Better(a, b)  PROVE b \in candidates'
    BY <1>3, <1>9 DEF CompleteAt
  <2>1. b \notin Failed /\ ~Better(o, b) /\ ~Better(tip', b)
    BY <1>10, <1>13
  <2> QED
    BY <2>1, <1>12, <1>5 DEF CompleteAt
<1>14. tip' \notin Failed' /\ ~Better(tip', tip') /\ Ancestors[tip'] \cap (Failed' \cup Invalid) = {}
  BY <1>3, BetterHolds, AncestorsBasic DEF Chain
<1>15. \E a \in candidates' : Anchor(a)'
  <2>1. CASE Better(tip', o)
    <3>1. CompleteAt(n)'
      BY <2>1, <1>11, <1>8, <1>13
    <3>2. n \in candidates'
      BY <3>1, <1>14, <1>11, <1>3, <1>9 DEF CompleteAt
    <3> QED
      BY <3>1, <3>2, <1>14, <1>11 DEF Anchor
  <2>2. CASE ~Better(tip', o)
    <3>1. CompleteAt(o)'
      BY <2>2, <1>5, <1>8, <1>13
    <3>2. Ancestors[o] \cap (Failed' \cup Invalid) = {}
      BY <1>10, <1>5, <1>7
    <3>3. o \in candidates'
      BY <2>2, <3>2, <1>4, <1>5, <1>12
    <3> QED
      BY <3>1, <3>2, <3>3 DEF Anchor
  <2> QED
    BY <2>1, <2>2
<1>16. FailureRooted' /\ Blamed'
  <2>1. \A x \in f.marked : Ancestors[x] \cap failedValid # {}
    <3> SUFFICES ASSUME NEW x \in f.marked  PROVE Ancestors[x] \cap failedValid # {}
      OBVIOUS
    <3>1. PICK k \in Failed : k \in Ancestors[x]
      BY <1>2
    <3> QED
      BY <3>1, <1>2, <1>3, BlamelessIsSound DEF Blameless
  <2>2. \A x \in bad : x \in Ancestors[x]
    BY AncestorsBasic
  <2>3. FailureRooted'
    BY <2>1, <2>2, <1>10, <1>3 DEF FailureRooted, Blameless
  <2> QED
    BY <2>3, <1>10, <1>3 DEF Blamed
<1>17. ASSUME tip' = f.most  PROVE CompleteAt(tip)' /\ IsBest'
  <2>1. CompleteAt(n)'
    BY <1>17, <1>11, <1>8, <1>13
  <2>2. CompleteAt(tip)'
    BY <2>1, <1>11, <1>3, <1>9 DEF CompleteAt
  <2>3. IsBest'
    <3> SUFFICES ASSUME NEW b \in linked, b # f.most, Ancestors[b] \cap failedValid' = {}
                 PROVE  Better(f.most, b)
      BY <1>17, <1>3, <1>9 DEF IsBest, Blameless
    <3>1. Ancestors[b] \cap Failed = {} /\ b \in Ancestors[b]
      BY <1>10, <1>3, BlamelessIsSound, AncestorsBasic DEF Blameless
    <3>2. b \in candidates => ~Tainted(b)
      BY <3>1 DEF Tainted, Walk
    <3>3. b \notin candidates => Better(f.most, b)
      BY <3>1, <1>5, <1>8 DEF CompleteAt
    <3> QED
      BY <3>2, <3>3, <1>2, <1>6
  <2> QED
    BY <2>2, <2>3
<1> QED
  BY <1>6, <1>15, <1>16, <1>17 DEF f

\* One round of the activation: it ends at the best block, or it leaves an anchor to reach.
LEMMA SteadyActivate ==
  ASSUME Steady, IInv, IInv', SteadyInv, NEW t \in Thread, ActivateBestChain(t)
  PROVE  SteadyInv'
<1> DEFINE f == FindMostWorkChain
           cand == candidates \ f.erased
<1>1. /\ failedChild' = failedChild \cup f.marked
      /\ target' = [target EXCEPT ![t] = f.most]
      /\ UNCHANGED <<index, data, linked, seq>>
      /\ f.most \in {None, tip} => candidates' = cand /\ UNCHANGED <<tip, failedValid>>
      /\ f.most \notin {None, tip} =>
            /\ ActivateBestChainStep(f.most, cand, f.worst)
            /\ pc' = [pc EXCEPT ![t] = IF pc[t] # "nested" THEN "test"
                                       ELSE IF tip' = f.most THEN "accepted" ELSE "nested"]
  BY DEF ActivateBestChain, Goto, received
<1>2. TypeOK /\ Contextual = {} /\ (f.most # None => f.most \in candidates)
  BY FindMostHolds DEF IInv, Steady
<1> HIDE DEF f
<1>3. CASE f.most \in {None, tip}
  <2>1. failedValid' = failedValid \cup {} /\ {} \subseteq Ancestors[f.most] \cap Invalid
        /\ candidates' = (IF {} = {} THEN cand ELSE Pruned(cand, tip')) \ {}
    BY <1>1, <1>3
  <2>2. {} \in SUBSET Block
    OBVIOUS
  <2>3. /\ FailureRooted' /\ Blamed' /\ f.most # None
        /\ \E a \in candidates' : Anchor(a)'
        /\ tip' = f.most => CompleteAt(tip)' /\ IsBest'
    BY <1>1, <2>1, <2>2, AnchorKept DEF f
  <2> QED
    BY <2>3, <1>1, <1>3 DEF SteadyInv
<1>4. CASE f.most \notin {None, tip}
  <2>1. PICK connected \in SUBSET Block, bad \in SUBSET Block :
          Moved(f.most, cand, f.worst, connected, bad)
    BY <1>1, <1>2, <1>4, StepMoves
  <2>2. /\ bad \subseteq Ancestors[f.most] \cap Invalid
        /\ failedValid' = failedValid \cup bad
        /\ candidates' = (IF connected = {} THEN cand ELSE Pruned(cand, tip')) \ bad
    BY <2>1, <1>2 DEF Moved
  <2>3. /\ FailureRooted' /\ Blamed'
        /\ \E a \in candidates' : Anchor(a)'
        /\ tip' = f.most => CompleteAt(tip)' /\ IsBest'
    BY <2>2, <1>1, AnchorKept DEF f
  \* The activation that stops short of its target goes on.
  <2>4. tip' # f.most => Unfinished(t)'
    BY <1>1, <1>2, <1>4 DEF Unfinished, TypeOK
  <2> QED
    BY <2>3, <2>4 DEF SteadyInv, Settled
<1> QED
  BY <1>3, <1>4

\* A system error leaves an anchor too.
LEMMA SteadyActivationFails ==
  ASSUME Steady, IInv, IInv', SteadyInv, NEW t \in Thread, ActivationFails(t)
  PROVE  SteadyInv'
<1> DEFINE f == FindMostWorkChain
           cand == candidates \ f.erased
<1>1. PICK connected \in SUBSET Block, raised \in SUBSET Block : FailedRound(t, f, connected, raised)
  BY FailedRoundHolds
<1>2. /\ failedChild' = failedChild \cup f.marked
      /\ candidates' = IF connected = {} THEN cand ELSE Pruned(cand, tip')
      /\ cutShort' = TRUE
      /\ UNCHANGED <<index, data, linked, seq, failedValid>>
  BY <1>1 DEF FailedRound, CutOff, received
<1>3. /\ FailureRooted' /\ Blamed'
      /\ \E a \in candidates' : Anchor(a)'
  <2>1. candidates' = (IF connected = {} THEN cand ELSE Pruned(cand, tip')) \ {}
    BY <1>2
  <2>2. failedValid' = failedValid \cup {}
    BY <1>2
  <2> HIDE DEF f
  <2>3. {} \in SUBSET Block /\ {} \subseteq Ancestors[f.most] \cap Invalid
    OBVIOUS
  <2> QED
    BY <1>2, <2>1, <2>2, <2>3, AnchorKept DEF f
<1>4. ~Settled'
  BY <1>2 DEF Settled
<1> QED
  BY <1>3, <1>4 DEF SteadyInv

\* A block is linked, with those that waited for it.
LEMMA SteadyReceive ==
  ASSUME IInv, IInv', SteadyInv, NEW t \in Thread, NEW b \in Block, ProcessNewBlock(t, b),
         b \notin BadContext, Parent[b] \in linked
  PROVE  SteadyInv'
<1> DEFINE R == Reached(b)
<1>1. PICK f \in LinkOrders(R) :
         /\ seq' = [x \in Block |-> IF x \in R THEN f[x] ELSE seq[x]]
         /\ candidates' = candidates \cup
               {x \in R : ~BetterBy([y \in Block |-> IF y \in R THEN f[y] ELSE seq[y]], tip, x)}
  BY DEF ProcessNewBlock, ReceivedBlockTransactions
<1>2. /\ linked' = linked \cup R
      /\ UNCHANGED <<failedValid, failedChild, tip, target, cutShort>>
      /\ pc[t] = "idle" /\ pc' = [pc EXCEPT ![t] = "accepted"]
      /\ b # Genesis /\ b \notin data
  BY DEF ProcessNewBlock, ReceivedBlockTransactions, Goto
<1>3. R \cap linked = {}
  BY <1>2, ReachedHolds
<1> HIDE DEF R
<1>4. /\ TypeOK /\ TypeOK' /\ candidates \subseteq linked /\ linked \subseteq Block
      /\ linked' \subseteq Block /\ tip \in linked /\ CandidatesSound
      /\ seq \in [Block -> Nat] /\ seq' \in [Block -> Nat]
  BY DEF IInv, ChainInv, TypeOK
<1>5. \A x, y \in linked : Better(x, y)' <=> Better(x, y)
  BY <1>1, <1>3, <1>4 DEF Better, BetterBy
<1>6. \A x \in R : ~Better(tip, x)' => x \in candidates'
  BY <1>1, <1>2 DEF Better
<1>7. ASSUME NEW o \in linked, CompleteAt(o), ~Better(tip, o)  PROVE CompleteAt(o)'
  <2> SUFFICES ASSUME NEW x \in linked', x \notin Failed, ~Better(o, x)'  PROVE x \in candidates'
    BY <1>2 DEF CompleteAt, Failed
  <2>1. CASE x \in linked
    BY <2>1, <1>1, <1>5, <1>7 DEF CompleteAt
  <2>2. CASE x \in R
    <3>1. ~BetterBy(seq', tip, o) /\ ~BetterBy(seq', o, x)
      BY <1>2, <1>4, <1>5, <1>7 DEF Better
    <3>2. ~BetterBy(seq', tip, x)
      BY <3>1, <1>4, BetterOrder
    <3> QED
      BY <3>2, <2>2, <1>2, <1>6 DEF Better
  <2> QED
    BY <2>1, <2>2, <1>2
<1>8. \E o \in candidates' : Anchor(o)'
  <2>1. PICK o \in candidates : Anchor(o)
    BY DEF SteadyInv
  <2>2. o \in linked /\ ~Better(tip, o)
    BY <2>1, <1>4 DEF CandidatesSound
  <2> QED
    BY <2>1, <2>2, <1>1, <1>2, <1>7 DEF Anchor, Failed
<1>9. Settled' => CompleteAt(tip)'
  <2>1. Settled' => Settled
    BY <1>2, <1>4 DEF Settled, Unfinished, TypeOK
  <2>2. ~Better(tip, tip)
    BY <1>4, BetterHolds
  <2>3. PICK n \in linked : n = tip /\ n = tip'
    BY <1>2, <1>4
  <2>4. CompleteAt(tip) => CompleteAt(n)'
    BY <2>2, <2>3, <1>7
  <2>5. CompleteAt(n)' => CompleteAt(tip)'
    BY <2>3 DEF CompleteAt, Better
  <2> QED
    BY <2>1, <2>4, <2>5 DEF SteadyInv
<1>10. pc'[t] = "accepted"
  BY <1>2, <1>4 DEF TypeOK
<1>11. FailureRooted' /\ Blamed'
  BY <1>2 DEF SteadyInv, FailureRooted, Blamed, Blameless, Failed
<1> QED
  BY <1>8, <1>9, <1>10, <1>11 DEF SteadyInv

LEMMA SteadyInvalidate ==
  ASSUME IInv, IInv', SteadyInv, NEW t \in Thread, NEW b \in Block, InvalidateBlock(t, b)
  PROVE  SteadyInv'
<1> DEFINE walked == IF b \in Chain THEN {x \in Chain : b \in Ancestors[x]} ELSE {}
           newTip == IF b \in Chain THEN Parent[b] ELSE tip
           valid == linked \ (Failed \cup {b} \cup walked)
<1>1. /\ failedValid' = failedValid \cup {b} /\ failedChild' = failedChild \cup walked
      /\ tip' = newTip
      /\ candidates' = (candidates \ ({b} \cup walked)) \cup Revived(valid, newTip)
      /\ pc' = [pc EXCEPT ![t] = "activate"] /\ "invalidate" \in Operations
      /\ UNCHANGED <<linked, seq>>
  BY DEF InvalidateBlock, Rare, Goto, received
<1>2. /\ tip' \in linked /\ Chain' \cap (Failed' \cup Invalid) = {} /\ TypeOK
      /\ candidates' \subseteq linked
  BY <1>1 DEF IInv, ChainInv, ChainIsValid, TypeOK
<1>3. \A x, y : Better(x, y)' <=> Better(x, y)
  BY <1>1 DEF Better, BetterBy
<1>4. Failed' = Failed \cup {b} \cup walked
  BY <1>1 DEF Failed
<1>5. \A x \in walked : b \in Ancestors[x]
  OBVIOUS
<1>6. valid = linked \ Failed'
  BY <1>4
<1> HIDE DEF walked, newTip, valid
<1>7. PICK n \in linked : n = tip'
  BY <1>2
<1>8. CompleteAt(n)'
  BY <1>1, <1>3, <1>6, <1>7 DEF CompleteAt, Revived
<1>9. Anchor(n)'
  <2>1. n \in Ancestors[n] /\ ~Better(n, n)
    BY <1>7, BetterHolds, AncestorsBasic
  <2>2. n \in candidates'
    BY <2>1, <1>8, <1>1, <1>2, <1>3, <1>7 DEF CompleteAt, Chain
  <2> QED
    BY <2>2, <1>8, <1>2, <1>7 DEF Anchor, Chain
<1>10. FailureRooted'
  <2> SUFFICES ASSUME NEW x \in Failed'  PROVE Ancestors[x] \cap failedValid' # {}
    BY DEF FailureRooted, Blameless
  <2>1. b \in Ancestors[b]
    BY AncestorsBasic
  <2>2. x \in Failed => Ancestors[x] \cap failedValid # {}
    BY DEF SteadyInv, FailureRooted, Blameless
  <2> QED
    BY <2>1, <2>2, <1>1, <1>4, <1>5
<1>11. ~Settled'
  BY <1>1, <1>2 DEF Settled, Unfinished, TypeOK
<1> QED
  BY <1>1, <1>9, <1>10, <1>11 DEF SteadyInv, Anchor, Blamed

\* The root of a failure is reconsidered: what it was to blame for comes back.
LEMMA SteadyReconsider ==
  ASSUME Steady, IInv, IInv', SteadyInv, NEW t \in Thread, NEW b \in Block, ReconsiderRpc(t, b)
  PROVE  SteadyInv'
<1> DEFINE below == {x \in index : b \in Ancestors[x] /\ (x \in Failed \/ x \notin data)}
           cleared == below \cup Ancestors[b]
<1>1. /\ b \in index /\ b \in Failed /\ Ancestors[Parent[b]] \cap Failed = {}
      /\ failedValid' = failedValid \ cleared /\ failedChild' = failedChild \ cleared
      /\ candidates' = candidates \cup {x \in below \cap linked : Better(x, tip)}
      /\ UNCHANGED <<linked, seq, tip>>
      /\ pc' = [pc EXCEPT ![t] = "activate"]
  BY DEF ReconsiderRpc, ReconsiderBlock, Rare, Goto, Steady, received
<1>2. /\ TypeOK /\ FailureRooted /\ Blamed /\ tip \in linked /\ candidates \subseteq linked
      /\ linked \subseteq Block /\ index \subseteq Block /\ CandidatesSound /\ Failed \subseteq index
      /\ Chain \cap Failed = {} /\ tip \in Chain
  BY AncestorsBasic
  DEF IInv, ChainInv, ChainIsValid, Chain, Failed, TypeOK, SteadyInv
<1>3. \A x, y : Better(x, y)' <=> Better(x, y)
  BY <1>1 DEF Better, BetterBy
<1>4. cleared \cap Failed = below \cap Failed
  BY <1>1, AncestorsOfParent, AncestorsBasic
<1>5. \A x \in Failed : x \in below <=> b \in Ancestors[x]
  BY <1>2
<1> HIDE DEF below, cleared
<1>6. Failed' = Failed \ below /\ failedValid' = failedValid \ below
  BY <1>1, <1>4 DEF Failed
<1>7. FailureRooted'
  <2> SUFFICES ASSUME NEW x \in Failed, x \notin below  PROVE Ancestors[x] \cap failedValid' # {}
    BY <1>6 DEF FailureRooted, Blameless
  <2>1. PICK k \in Ancestors[x] \cap failedValid : TRUE
    BY <1>2 DEF FailureRooted, Blameless
  <2>2. k \in Failed /\ Ancestors[k] \subseteq Ancestors[x]
    BY <2>1, <1>2, AncestorsTransitive DEF Failed
  <2>3. k \notin below
    BY <2>2, <1>5
  <2> QED
    BY <2>1, <2>3, <1>6
<1>8. PICK o \in candidates : Anchor(o)
  BY DEF SteadyInv
<1>9. o \in linked /\ ~Better(tip, o) /\ CompleteAt(o)
  BY <1>2, <1>8 DEF Anchor, CandidatesSound
<1>10. CompleteAt(o)'
  <2> SUFFICES ASSUME NEW x \in linked, x \notin Failed', ~Better(o, x)  PROVE x \in candidates'
    BY <1>1, <1>3 DEF CompleteAt
  <2>1. CASE x \notin Failed
    BY <2>1, <1>1, <1>9 DEF CompleteAt
  <2>2. CASE x \in Failed
    <3>1. x \in below /\ x # tip
      BY <2>2, <1>2, <1>6
    <3>2. ~Better(tip, x)
      BY <1>2, <1>9, BetterHolds
    <3>3. Better(x, tip)
      BY <3>1, <3>2, <1>2, BetterHolds
    <3> QED
      BY <3>1, <3>3, <1>1
  <2> QED
    BY <2>1, <2>2
<1>11. Anchor(o)' /\ o \in candidates'
  BY <1>1, <1>6, <1>8, <1>10 DEF Anchor
<1>12. ~Settled'
  BY <1>1, <1>2 DEF Settled, Unfinished, TypeOK
<1> QED
  BY <1>1, <1>2, <1>7, <1>11, <1>12 DEF SteadyInv, Blamed

\* Steps that only move the threads on.
LEMMA SteadyThreads ==
  ASSUME IInv, SteadyInv,
         UNCHANGED <<linked, seq, candidates, tip, failedValid, failedChild>>,
         Settled' => Settled,
         Settled' /\ (\A t \in Thread : pc'[t] # "accepted") => \A t \in Thread : pc[t] # "accepted"
  PROVE  SteadyInv'
<1>1. Failed' = Failed /\ Blamed'
  BY DEF Failed, Blamed, SteadyInv
<1> QED
  BY <1>1, SteadyUnmoved

\* One case per action, the index being sound before and after.
LEMMA SteadyNext == Steady /\ IInv /\ IInv' /\ SteadyInv /\ [Next]_vars => SteadyInv'
<1> SUFFICES ASSUME Steady, IInv, IInv', SteadyInv, [Next]_vars  PROVE SteadyInv'
  OBVIOUS
<1>1. TypeOK /\ TypeOK' /\ rejected = {} /\ Contextual = {} /\ Failed \subseteq index /\ index \subseteq Block
  BY DEF IInv, TypeOK, Steady, Failed
<1>2. CASE UNCHANGED vars
  BY <1>2, SteadyThreads DEF vars, received, validity, Settled, Unfinished
<1>3. ASSUME NEW t \in Thread, Activation(t)  PROVE SteadyInv'
  <2>1. CASE TestTip(t)
    <3>1. /\ pc[t] = "test" /\ UNCHANGED <<received, validity, candidates, tip, target, cutShort>>
          /\ pc' = [pc EXCEPT ![t] = IF target[t] = tip THEN "check" ELSE "activate"]
      BY <2>1 DEF TestTip, Goto
    <3>2. Settled' => Settled
      BY <3>1, <1>1 DEF Settled, Unfinished, TypeOK
    <3>3. (\A u \in Thread : pc'[u] # "accepted") => \A u \in Thread : pc[u] # "accepted"
      BY <3>1, <1>1 DEF TypeOK
    <3> QED
      BY <3>1, <3>2, <3>3, SteadyThreads DEF received, validity
  <2>2. CASE FinishActivation(t)
    <3>1. /\ pc[t] = "check" /\ UNCHANGED <<received, validity, candidates, tip, target, cutShort>>
          /\ pc' = [pc EXCEPT ![t] = "idle"]
      BY <2>2 DEF FinishActivation, Goto
    <3>2. Settled' => Settled
      BY <3>1, <1>1 DEF Settled, Unfinished, TypeOK
    <3>3. (\A u \in Thread : pc'[u] # "accepted") => \A u \in Thread : pc[u] # "accepted"
      BY <3>1, <1>1 DEF TypeOK
    <3> QED
      BY <3>1, <3>2, <3>3, SteadyThreads DEF received, validity
  <2>3. CASE DisconnectBlocksAndReprocess(t)
    <3>1. /\ pc' = [pc EXCEPT ![t] = "activate"]
          /\ UNCHANGED <<linked, seq, failedValid, failedChild, candidates>>
      BY <2>3 DEF DisconnectBlocksAndReprocess, Goto, received, validity
    <3>2. ~Settled'
      BY <3>1, <1>1 DEF Settled, Unfinished, TypeOK
    <3>3. \A o : Anchor(o) => Anchor(o)'
      BY <3>1 DEF Anchor, CompleteAt, Better, BetterBy, Failed
    <3>4. FailureRooted' /\ Blamed'
      BY <3>1 DEF SteadyInv, FailureRooted, Blamed, Blameless, Failed
    <3> QED
      BY <3>1, <3>2, <3>3, <3>4 DEF SteadyInv
  <2>4. CASE ReprocessOne(t)
    BY <2>4, <1>1 DEF ReprocessOne, TypeOK
  <2> QED
    BY <1>3, <2>1, <2>2, <2>3, <2>4, SteadyActivate DEF Activation
<1>4. ASSUME NEW t \in Thread, ReprocessBlocks(t)  PROVE SteadyInv'
  <2>1. /\ UNCHANGED <<received, validity, candidates, tip>>
        /\ pc' = [pc EXCEPT ![t] = "reprocess"]
    BY <1>4 DEF ReprocessBlocks, Goto
  <2>2. ~Settled'
    BY <2>1, <1>1 DEF Settled, Unfinished, TypeOK
  <2> QED
    BY <2>1, <2>2, SteadyThreads DEF received, validity
<1>5. ASSUME NEW t \in Thread, NEW b \in Block, ProcessNewBlock(t, b)  PROVE SteadyInv'
  <2>1. CASE b \in BadContext
    <3>1. /\ b \notin data /\ failedValid' = failedValid \cup {b}
          /\ UNCHANGED <<linked, seq, candidates, tip, failedChild, pc, target, cutShort>>
      BY <1>5, <2>1 DEF ProcessNewBlock
    <3>2. Failed' = Failed \cup {b}
      BY <3>1 DEF Failed
    <3>3. Blamed'
      BY <3>1, <2>1 DEF SteadyInv, Blamed
    <3>4. Settled' => Settled
      BY <3>1 DEF Settled, Unfinished
    <3>5. /\ \A x \in Failed' \ Failed : x \in Block /\ x \in failedValid'
          /\ (Failed' \ Failed) \cap data = {} /\ (failedValid' \ failedValid) \cap data = {}
          /\ Failed \subseteq Failed' /\ failedValid \subseteq failedValid'
      BY <3>1, <3>2
    <3> QED
      BY <3>1, <3>3, <3>4, <3>5, SteadyUnmoved
  <2>2. CASE b \notin BadContext /\ Parent[b] \notin linked
    <3>1. /\ UNCHANGED <<linked, seq, candidates, tip, failedValid, failedChild, target, cutShort>>
          /\ pc[t] = "idle" /\ pc' = [pc EXCEPT ![t] = "accepted"]
      BY <1>5, <2>2 DEF ProcessNewBlock, ReceivedBlockTransactions, Goto
    <3>2. (Settled' => Settled) /\ pc'[t] = "accepted"
      BY <3>1, <1>1 DEF Settled, Unfinished, TypeOK
    <3> QED
      BY <3>1, <3>2, SteadyThreads
  <2> QED
    BY <1>5, <2>1, <2>2, SteadyReceive
<1>6. ASSUME NEW t \in Thread, NEW b \in Block, ProcessKnownBlock(t, b)  PROVE SteadyInv'
  <2>1. /\ UNCHANGED <<received, validity, candidates, tip, target, cutShort>>
        /\ pc[t] = "idle" /\ pc' = [pc EXCEPT ![t] = "accepted"]
    BY <1>6 DEF ProcessKnownBlock, Goto
  <2>2. (Settled' => Settled) /\ pc'[t] = "accepted"
    BY <2>1, <1>1 DEF Settled, Unfinished, TypeOK
  <2> QED
    BY <2>1, <2>2, SteadyThreads DEF received, validity
<1>7. ASSUME NEW t \in Thread, NEW b \in Block, ReconsiderCheckpoint(t, b)  PROVE FALSE
  <2>1. Parent[b] \in Failed /\ Parent[b] \in Checkpointed
    BY <1>7 DEF ReconsiderCheckpoint
  <2>2. "invalidate" \notin Operations /\ Ancestors[Parent[b]] \cap (Invalid \cup BadContext) = {}
    BY <2>1 DEF Steady
  <2> QED
    BY <2>1, <2>2 DEF SteadyInv, Blamed, FailureRooted, Blameless
<1>8. ASSUME NEW t \in Thread, NEW b \in Block, CheckBlockRefuses(t, b)  PROVE FALSE
  BY <1>1, <1>8 DEF CheckBlockRefuses
<1>9. ASSUME NEW t \in Thread, NEW b \in Block, WriteFails(t, b)  PROVE SteadyInv'
  <2>1. UNCHANGED <<data, linked, seq, candidates, tip, failedValid, failedChild, pc, target,
                    cutShort>>
    BY <1>9 DEF WriteFails, validity
  <2> QED
    BY <2>1, SteadyThreads DEF Settled, Unfinished
<1> QED
  BY <1>2, <1>3, <1>4, <1>5, <1>6, <1>7, <1>8, <1>9, SteadyInvalidate, SteadyReconsider,
     SteadyActivationFails DEF Next

LEMMA SteadyHolds ==
  ASSUME Steady
  PROVE  Spec => []SteadyInv
<1>1. IInv /\ IInv' /\ SteadyInv /\ [Next]_vars => SteadyInv'
  BY SteadyNext
<1> QED
  BY <1>1, SteadyInit, InvariantHolds, PTL DEF Spec

\* For every tree and every number of threads taking turns at the reorganisation: where no
\* verdict changes, only roots of failures are reconsidered and checkpoints are on good
\* blocks, the chain is the best one whenever no thread is activating.
THEOREM BestChainIsActive ==
  ASSUME Steady
  PROVE  Spec => []TipIsBest
<1>1. SteadyInv => TipIsBest
  BY DEF SteadyInv, TipIsBest, Quiet, Settled, Unfinished
<1> QED
  BY <1>1, SteadyHolds, PTL

\* With one thread, no block index that CheckBlockIndex looks at fails any of its assertions,
\* whatever the tree: the candidates are complete again whenever it is called, but for the
\* calls between a system error and the next round.
THEOREM EveryCheckPasses ==
  ASSUME Steady, \A t, u \in Thread : t = u
  PROVE  Spec => CheckBlockIndexPasses
<1>1. ASSUME IInv, IInv', SteadyInv', [Next]_vars,
             index' # index \/ (\E t \in Thread : Accepts(t) \/ Finishes(t))
      PROVE  CheckBlockIndex'
  <2>1. PICK t \in Thread : pc'[t] \in {"idle", "accepted"}
    <3>1. ASSUME NEW t \in Thread, Accepts(t) \/ Finishes(t)  PROVE pc'[t] \in {"idle", "accepted"}
      BY <3>1 DEF Accepts, Finishes
    <3>2. ASSUME index' # index
          PROVE  \E t \in Thread : pc'[t] \in {"idle", "accepted"}
      <4>1. PICK t \in Thread, b \in Block : ProcessNewBlock(t, b) \/ WriteFails(t, b)
        BY <1>1, <3>2
        DEF Next, Activation, vars, received, ActivateBestChain, ActivationFails,
            TestTip, FinishActivation, ReprocessOne, DisconnectBlocksAndReprocess, ReprocessBlocks, ProcessKnownBlock,
            ReconsiderCheckpoint, CheckBlockRefuses, InvalidateBlock, ReconsiderRpc
      <4> QED
        BY <4>1, <1>1 DEF ProcessNewBlock, WriteFails, Rare, Goto, IInv, TypeOK
    <3> QED
      BY <3>1, <3>2, <1>1
  <2>2. ~cutShort' => Settled'
    BY <2>1 DEF Settled, Unfinished
  <2>3. ~cutShort' => CandidatesComplete'
    <3> SUFFICES ASSUME ~cutShort'  PROVE CandidatesComplete'
      OBVIOUS
    <3>1. CompleteAt(tip)' /\ FailureRooted' /\ (linked \subseteq Block)'
      BY <2>2, <1>1 DEF SteadyInv, IInv, TypeOK
    <3>2. (\A b \in linked : Blameless(b) => b \notin Failed)'
      BY <3>1 DEF FailureRooted
    <3> QED
      BY <3>1, <3>2 DEF CandidatesComplete, CompleteAt
  <2>4. (LinkedExact /\ ScriptsNested /\ SequenceExact /\ CandidatesSound /\ UnlinkedExact)'
    BY <1>1 DEF IInv, IndexInv, ChainInv, TypeOK, Numbered, SequenceExact, UnlinkedExact
  <2> QED
    BY <2>3, <2>4, <1>1 DEF CheckBlockIndex, SteadyInv
<1>2. IInv /\ IInv' /\ SteadyInv' /\ [Next]_vars
      => [index' # index \/ (\E t \in Thread : Accepts(t) \/ Finishes(t)) => CheckBlockIndex']_vars
  BY <1>1
<1> QED
  BY <1>2, SteadyHolds, InvariantHolds, PTL DEF Spec, CheckBlockIndexPasses
=============================================================================
