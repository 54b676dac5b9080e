--------------------------- MODULE MemPoolProofs ---------------------------
(***************************************************************************)
(* Theorems about MemPool, for any set of transactions, any chains and     *)
(* rivals among them and any number of peers, orphans and blocks.          *)
(*                                                                         *)
(* The invariant adds to the properties that no transaction is mined twice *)
(* and that what it spends was mined in its block or before (ChainOK), and *)
(* that the pool and the chain have nothing in common (Apart).  The loops  *)
(* of the code are folds: each is taken apart into its steps (IsFold,      *)
(* Follows), with what holds between two of them (Refilling for the        *)
(* transactions of a disconnected block, Works for the work queue).        *)
(***************************************************************************)
EXTENDS MemPool, FiniteSetTheorems, FunctionTheorems, WellFoundedInduction, TLAPS

-----------------------------------------------------------------------------
(* Loops.  A fold of the model runs through a sequence of known length; it *)
(* is taken apart into the states between its steps, and then followed by  *)
(* induction on their number.                                              *)

\* The least-number principle for sets: the one induction the proofs need.
LEMMA LeastNatural ==
  ASSUME NEW S \in SUBSET Nat, S # {}
  PROVE  \E m \in S : \A k \in S : m <= k
<1> DEFINE R == OpToRel(<, Nat)
<1>1. \A k, m \in Nat : <<k, m>> \in R <=> k < m
  BY DEF OpToRel
<1>2. IsWellFoundedOn(R, Nat)
  BY NatLessThanWellFounded
<1>3. S \subseteq Nat
  OBVIOUS
<1> HIDE DEF R
<1>4. PICK m \in S : \A k \in S : ~(<<k, m>> \in R)
  BY <1>2, <1>3, WFMin, Zenon
<1>5. \A k \in S : ~(k < m)
  BY <1>1, <1>3, <1>4
<1> QED
  BY <1>3, <1>5

LEMMA CountingUp ==
  ASSUME NEW n \in Nat, NEW D, 0 \in D, \A i \in 1 .. n : i - 1 \in D => i \in D
  PROVE  \A i \in 0 .. n : i \in D
<1> DEFINE B == {i \in 0 .. n : i \notin D}
<1> SUFFICES ASSUME B # {}  PROVE FALSE
  OBVIOUS
<1>1. B \in SUBSET Nat
  OBVIOUS
<1>2. PICK m \in B : \A k \in B : m <= k
  <2> HIDE DEF B
  <2> QED BY <1>1, LeastNatural
<1>3. m \in 1 .. n /\ m - 1 \in 0 .. n /\ ~(m <= m - 1)
  OBVIOUS
<1>4. m - 1 \notin B
  BY <1>2, <1>3
<1> QED
  BY <1>3, <1>4

LEMMA MaxIs ==
  ASSUME NEW n \in Nat, NEW s \in SUBSET (1 .. n), s # {}
  PROVE  Max(s) \in s /\ \A k \in s : k <= Max(s)
<1> DEFINE B == {n - k : k \in s}
<1>1. B \in SUBSET Nat /\ B # {}
  <2>1. \A k \in s : n - k \in Nat
    OBVIOUS
  <2>2. PICK k : k \in s
    OBVIOUS
  <2> QED BY <2>1, <2>2
<1>2. PICK m \in B : \A k \in B : m <= k
  <2> HIDE DEF B
  <2> QED BY <1>1, LeastNatural
<1>3. PICK x \in s : m = n - x
  BY <1>2
<1>4. \A k \in s : x >= k
  <2> TAKE k \in s
  <2>1. n - x <= n - k
    BY <1>2, <1>3
  <2> QED BY <2>1
<1>5. Max(s) \in s /\ \A k \in s : Max(s) >= k
  BY <1>4 DEF Max
<1> QED
  BY <1>5

LEMMA MaxOfInterval ==
  ASSUME NEW n \in Nat, NEW i \in 1 .. n
  PROVE  /\ Max(1 .. i) = i
         /\ (1 .. i) \ {i} = 1 .. (i - 1)
         /\ 1 .. i \subseteq 1 .. n
         /\ 1 .. i # {}
<1> DEFINE s == 1 .. i
<1>1. s \in SUBSET (1 .. n) /\ i \in s /\ s # {}
  OBVIOUS
<1>2. Max(s) \in s /\ \A k \in s : k <= Max(s)
  <2> HIDE DEF s
  <2> QED BY <1>1, MaxIs
<1>3. Max(s) \in 1 .. i /\ i <= Max(s)
  BY <1>1, <1>2
<1>4. Max(1 .. i) = i
  BY <1>3
<1> QED
  BY <1>1, <1>4

\* The function by which MapThenFoldSet is defined, with the step as a function.
IsFold(f, m, S, base, step) ==
    /\ f \in [SUBSET (1 .. m) -> S]
    /\ \A s \in SUBSET (1 .. m) :
          f[s] = IF s = {} THEN base ELSE step[<<f[s \ {Max(s)}], Max(s)>>]

\* There is one if each step stays in S.
LEMMA FoldExists ==
  ASSUME NEW n \in Nat, NEW S, NEW base \in S, NEW step \in [S \X (1 .. n) -> S]
  PROVE  \E f : IsFold(f, n, S, base, step)
<1> DEFINE Solves(f, m) == IsFold(f, m, S, base, step)
           D == {m \in 0 .. n : \E f : Solves(f, m)}
<1>1. 0 \in D
  <2>1. SUBSET (1 .. 0) = {{}}
    OBVIOUS
  <2>2. Solves([s \in SUBSET (1 .. 0) |-> base], 0)
    BY <2>1 DEF IsFold
  <2> HIDE DEF Solves
  <2> QED BY <2>2
<1>2. ASSUME NEW m \in 1 .. n, m - 1 \in D  PROVE m \in D
  <2>0. PICK f : Solves(f, m - 1)
    BY <1>2
  <2>1. /\ f \in [SUBSET (1 .. (m - 1)) -> S]
        /\ \A s \in SUBSET (1 .. (m - 1)) :
              f[s] = IF s = {} THEN base ELSE step[<<f[s \ {Max(s)}], Max(s)>>]
    BY <2>0 DEF IsFold
  <2> DEFINE g == [s \in SUBSET (1 .. m) |-> IF m \in s THEN step[<<f[s \ {m}], m>>] ELSE f[s]]
  <2>2. \A s \in SUBSET (1 .. m) :
          IF m \in s THEN s \ {m} \in SUBSET (1 .. (m - 1)) ELSE s \in SUBSET (1 .. (m - 1))
    OBVIOUS
  <2>3. g \in [SUBSET (1 .. m) -> S]
    <3> SUFFICES ASSUME NEW s \in SUBSET (1 .. m)
                 PROVE  (IF m \in s THEN step[<<f[s \ {m}], m>>] ELSE f[s]) \in S
      OBVIOUS
    <3>1. CASE m \in s
      <4>1. f[s \ {m}] \in S
        BY <2>1, <2>2, <3>1
      <4> QED BY <3>1, <4>1
    <3>2. CASE m \notin s
      BY <2>1, <2>2, <3>2
    <3> QED BY <3>1, <3>2
  <2>4. ASSUME NEW s \in SUBSET (1 .. m)
        PROVE  g[s] = IF s = {} THEN base ELSE step[<<g[s \ {Max(s)}], Max(s)>>]
    <3>1. CASE m \in s
      <4>1. Max(s) \in s /\ \A k \in s : k <= Max(s)
        BY <3>1, MaxIs, m \in Nat, s # {}
      <4>2. Max(s) = m
        BY <3>1, <4>1, Max(s) \in 1 .. m, m <= Max(s)
      <4>3. g[s] = step[<<f[s \ {m}], m>>] /\ g[s \ {m}] = f[s \ {m}]
        BY <3>1
      <4> HIDE DEF g
      <4> QED BY <3>1, <4>2, <4>3
    <3>2. CASE m \notin s
      <4>1. s \in SUBSET (1 .. (m - 1)) /\ g[s] = f[s] /\ g[s \ {Max(s)}] = f[s \ {Max(s)}]
        BY <2>2, <3>2
      <4>2. f[s] = IF s = {} THEN base ELSE step[<<f[s \ {Max(s)}], Max(s)>>]
        BY <2>1, <4>1
      <4> HIDE DEF g
      <4> QED BY <4>1, <4>2
    <3> QED BY <3>1, <3>2
  <2>5. Solves(g, m)
    <3> HIDE DEF g
    <3> QED BY <2>3, <2>4 DEF IsFold
  <2> HIDE DEF Solves
  <2> QED BY <2>5
<1>3. \A i \in 0 .. n : i \in D
  <2> HIDE DEF D
  <2> QED BY <1>1, <1>2, CountingUp
<1>4. PICK f : Solves(f, n)
  BY <1>3, n \in 0 .. n
<1> QED
  BY <1>4

-----------------------------------------------------------------------------
(* The transactions and their order. *)

N == Cardinality(Tx)

LEMMA OrderHolds ==
  /\ N \in Nat /\ IsFiniteSet(Tx)
  /\ TxOrder \in [1 .. N -> Tx] /\ DOMAIN TxOrder = 1 .. N
  /\ \A i, j \in 1 .. N : TxOrder[i] = TxOrder[j] => i = j
  /\ \A t \in Tx : \E i \in 1 .. N : TxOrder[i] = t
  /\ HashOrder \in [1 .. N -> Tx] /\ DOMAIN HashOrder = 1 .. N
<1>1. N \in Nat /\ IsFiniteSet(Tx)
  BY MemPoolAssumption, FS_CardinalityType DEF N
<1>2. TxOrder \in [1 .. N -> Tx] /\ DOMAIN TxOrder = 1 .. N
  BY MemPoolAssumption DEF N
<1>3. \A t \in Tx : \E i \in 1 .. N : TxOrder[i] = t
  BY <1>2, MemPoolAssumption DEF ToSet
<1>4. IsFiniteSet(1 .. N) /\ Cardinality(1 .. N) = N
  <2>1. Cardinality(1 .. N) = IF 1 > N THEN 0 ELSE N - 1 + 1
    BY <1>1, FS_Interval
  <2> QED BY <1>1, <2>1, FS_Interval
<1>5. TxOrder \in Surjection(1 .. N, Tx)
  BY <1>2, <1>3 DEF Surjection
<1>6. TxOrder \in Injection(1 .. N, Tx)
  BY <1>4, <1>5, FS_SurjSameCardinalityImpliesInj DEF N
<1>7. \A i, j \in 1 .. N : TxOrder[i] = TxOrder[j] => i = j
  BY <1>6 DEF Injection, IsInjective
<1>8. HashOrder \in [1 .. N -> Tx] /\ DOMAIN HashOrder = 1 .. N
  BY MemPoolAssumption DEF N
<1> QED
  BY <1>1, <1>2, <1>3, <1>7, <1>8

LEMMA InputsHold ==
  ASSUME NEW t \in Tx
  PROVE  /\ Inputs[t] \in SUBSET Output
         /\ \A o \in Inputs[t] : Of[o] \in Tx
         /\ t \notin Minted => Inputs[t] # {}
  BY MemPoolAssumption

-----------------------------------------------------------------------------
(* The inductive invariant. *)

PartialMaps == UNION {[D -> Tx] : D \in SUBSET Output}
Pools == [mapTx : SUBSET (Tx \ Minted), mapNextTx : PartialMaps]

\* No transaction is mined twice, and what it spends was made in its block or
\* before.
ChainOK(c) ==
    /\ c \in Seq(SUBSET Tx)
    /\ \A h, k \in DOMAIN c : h # k => c[h] \cap c[k] = {}
    /\ \A h \in DOMAIN c : \A t \in c[h] : \A o \in Inputs[t] : \E k \in 1 .. h : Of[o] \in c[k]

\* mapNextTx says who spends what, and nothing else.
Exact(s) ==
    /\ \A t \in s.mapTx : \A o \in Inputs[t] : o \in DOMAIN s.mapNextTx /\ s.mapNextTx[o] = t
    /\ \A o \in DOMAIN s.mapNextTx : s.mapNextTx[o] \in s.mapTx /\ o \in Inputs[s.mapNextTx[o]]

Apart(s, c) == s.mapTx \cap Mined(c) = {}

Supplied(s, c) == \A t \in s.mapTx : \A o \in Inputs[t] : Of[o] \in s.mapTx \/ Spendable(c, o)

GoodPool(s, c) == s \in Pools /\ Exact(s) /\ Apart(s, c) /\ Supplied(s, c)

IInv ==
    /\ TypeOK
    /\ ChainOK(chain)
    /\ GoodPool(Pool, chain)
    /\ OrphansIndexed

-----------------------------------------------------------------------------
(* Removal. *)

LEMMA SpendersType ==
  ASSUME NEW s \in Pools, NEW T
  PROVE  Spenders(s, T) \in SUBSET Tx
<1>1. \A o \in DOMAIN s.mapNextTx : s.mapNextTx[o] \in Tx
  BY DEF Pools, PartialMaps
<1> QED
  BY <1>1 DEF Spenders

\* The fold that makes WithSpenders, state by state.
LEMMA WithSpendersRun ==
  ASSUME NEW s \in Pools, NEW S \in SUBSET Tx
  PROVE  \E r : /\ r[0] = S
                /\ \A i \in 1 .. N : r[i] = r[i - 1] \cup Spenders(s, r[i - 1])
                /\ WithSpenders(s, S) = r[N]
<1> DEFINE P(g) == g = [x \in SUBSET DOMAIN TxOrder |->
                           IF x = {} THEN S
                           ELSE g[x \ {Max(x)}] \cup Spenders(s, g[x \ {Max(x)}])]
           G == CHOOSE g : P(g)
           step == [p \in (SUBSET Tx) \X (1 .. N) |-> p[1] \cup Spenders(s, p[1])]
<1>1. WithSpenders(s, S) = G[DOMAIN TxOrder]
  BY DEF WithSpenders, FoldLeft, MapThenFoldSet
<1>2. step \in [(SUBSET Tx) \X (1 .. N) -> SUBSET Tx]
  BY SpendersType
<1>3. PICK f : IsFold(f, N, SUBSET Tx, S, step)
  <2> HIDE DEF step
  <2> QED BY <1>2, FoldExists, OrderHolds
<1>4. P(f)
  <2>1. ASSUME NEW x \in SUBSET (1 .. N), x # {}
        PROVE  f[x] = f[x \ {Max(x)}] \cup Spenders(s, f[x \ {Max(x)}])
    <3>1. Max(x) \in 1 .. N /\ f[x \ {Max(x)}] \in SUBSET Tx
      BY <1>3, <2>1, MaxIs, OrderHolds DEF IsFold
    <3> QED BY <1>3, <2>1, <3>1 DEF IsFold
  <2> QED BY <1>3, <2>1, OrderHolds DEF IsFold
<1>5. P(G)
  <2> HIDE DEF P
  <2> QED BY <1>4
<1> DEFINE r == [i \in 0 .. N |-> G[1 .. i]]
<1>6. r[0] = S
  <2>1. 1 .. 0 = {} /\ 0 \in 0 .. N /\ {} \in SUBSET DOMAIN TxOrder
    BY OrderHolds
  <2>2. G[{}] = S
    <3> HIDE DEF G
    <3> QED BY <1>5, <2>1
  <2> HIDE DEF G
  <2> QED BY <2>1, <2>2
<1>7. ASSUME NEW i \in 1 .. N  PROVE r[i] = r[i - 1] \cup Spenders(s, r[i - 1])
  <2>1. /\ Max(1 .. i) = i /\ (1 .. i) \ {i} = 1 .. (i - 1)
        /\ 1 .. i \in SUBSET DOMAIN TxOrder /\ 1 .. i # {}
    BY MaxOfInterval, OrderHolds
  <2>2. r[i] = G[1 .. i] /\ r[i - 1] = G[1 .. (i - 1)]
    <3> HIDE DEF G
    <3> QED BY OrderHolds
  <2>3. G[1 .. i] = G[(1 .. i) \ {Max(1 .. i)}] \cup Spenders(s, G[(1 .. i) \ {Max(1 .. i)}])
    <3> HIDE DEF G
    <3> QED BY <1>5, <2>1
  <2> HIDE DEF r, G
  <2> QED BY <2>1, <2>2, <2>3
<1>8. r[N] = G[DOMAIN TxOrder]
  <2> HIDE DEF G
  <2> QED BY OrderHolds
<1> HIDE DEF r, G
<1> QED
  BY <1>1, <1>6, <1>7, <1>8

\* After as many steps as there are transactions nothing more is found: each step
\* that finds something makes the set larger.
LEMMA WithSpendersHolds ==
  ASSUME NEW s \in Pools, NEW S \in SUBSET Tx
  PROVE  /\ S \subseteq WithSpenders(s, S) /\ WithSpenders(s, S) \subseteq Tx
         /\ Spenders(s, WithSpenders(s, S)) \subseteq WithSpenders(s, S)
         /\ \A t \in WithSpenders(s, S) :
               t \in S \/ \E o \in DOMAIN s.mapNextTx :
                             t = s.mapNextTx[o] /\ Of[o] \in WithSpenders(s, S)
<1>1. PICK r : /\ r[0] = S
               /\ \A i \in 1 .. N : r[i] = r[i - 1] \cup Spenders(s, r[i - 1])
               /\ WithSpenders(s, S) = r[N]
  BY WithSpendersRun
<1> DEFINE Sound(T) == /\ S \subseteq T /\ T \subseteq Tx
                       /\ \A t \in T : t \in S \/ \E o \in DOMAIN s.mapNextTx :
                                                     t = s.mapNextTx[o] /\ Of[o] \in T
           Grown(i) == Spenders(s, r[i]) \subseteq r[i] \/ Cardinality(r[i]) >= i
           D == {i \in 0 .. N : Sound(r[i]) /\ Grown(i)}
<1>2. 0 \in D
  <2>1. IsFiniteSet(S) /\ Cardinality(S) \in Nat
    BY OrderHolds, FS_Subset, FS_CardinalityType
  <2> QED BY <1>1, <2>1, OrderHolds
<1>3. ASSUME NEW i \in 1 .. N, i - 1 \in D  PROVE i \in D
  <2> DEFINE T == r[i - 1]
  <2>1. r[i] = T \cup Spenders(s, T) /\ Sound(T) /\ Grown(i - 1)
    BY <1>1, <1>3
  <2>2. Sound(r[i])
    <3>1. Spenders(s, T) \subseteq Tx
      BY SpendersType
    <3>2. \A t \in Spenders(s, T) : \E o \in DOMAIN s.mapNextTx : t = s.mapNextTx[o] /\ Of[o] \in T
      BY DEF Spenders
    <3> HIDE DEF T
    <3> QED BY <2>1, <3>1, <3>2
  <2>3. Grown(i)
    <3>1. CASE Spenders(s, T) \subseteq T
      <4>1. r[i] = T
        BY <2>1, <3>1
      <4> QED BY <3>1, <4>1
    <3>2. CASE ~(Spenders(s, T) \subseteq T)
      <4>1. IsFiniteSet(r[i]) /\ T \in SUBSET r[i] /\ T # r[i]
        BY <2>1, <2>2, <3>2, OrderHolds, FS_Subset
      <4>2. IsFiniteSet(T) /\ Cardinality(T) <= Cardinality(r[i]) /\ Cardinality(T) # Cardinality(r[i])
        <5> HIDE DEF T
        <5> QED BY <4>1, FS_Subset
      <4>3. Cardinality(T) \in Nat /\ Cardinality(r[i]) \in Nat
        BY <4>1, <4>2, FS_CardinalityType
      <4>4. Cardinality(T) >= i - 1
        BY <2>1, <3>2
      <4> HIDE DEF T
      <4> QED BY <4>2, <4>3, <4>4
    <3> QED BY <3>1, <3>2
  <2> QED BY <2>2, <2>3
<1>4. N \in D
  <2>1. \A i \in 0 .. N : i \in D
    <3> HIDE DEF D
    <3> QED BY <1>2, <1>3, CountingUp, OrderHolds
  <2> QED BY <2>1, OrderHolds
<1>5. Spenders(s, r[N]) \subseteq r[N]
  <2>1. CASE Cardinality(r[N]) >= N
    <3>1. IsFiniteSet(r[N]) /\ r[N] \in SUBSET Tx
      BY <1>4, OrderHolds, FS_Subset
    <3>2. Cardinality(r[N]) = N
      <4>1. Cardinality(r[N]) <= N /\ Cardinality(r[N]) \in Nat
        BY <3>1, OrderHolds, FS_Subset, FS_CardinalityType DEF N
      <4> QED BY <2>1, <4>1, OrderHolds
    <3>3. r[N] = Tx
      BY <3>1, <3>2, OrderHolds, FS_Subset DEF N
    <3> QED BY <3>3, SpendersType
  <2> QED BY <1>4, <2>1
<1> QED
  BY <1>1, <1>4, <1>5

LEMMA RemovedHolds ==
  ASSUME NEW s \in Pools, Exact(s), NEW S
  PROVE  /\ Removed(s, S) \in Pools /\ Exact(Removed(s, S))
         /\ Removed(s, S).mapTx = s.mapTx \ S
<1> DEFINE freed == UNION {Inputs[t] : t \in S \cap s.mapTx}
           left == [o \in DOMAIN s.mapNextTx \ freed |-> s.mapNextTx[o]]
<1>1. Removed(s, S) = [mapTx |-> s.mapTx \ S, mapNextTx |-> left]
  BY DEF Removed
<1>2. left \in PartialMaps
  <2>1. DOMAIN s.mapNextTx \in SUBSET Output /\ \A o \in DOMAIN s.mapNextTx : s.mapNextTx[o] \in Tx
    BY DEF Pools, PartialMaps
  <2>2. left \in [DOMAIN s.mapNextTx \ freed -> Tx]
    BY <2>1
  <2> HIDE DEF left, freed
  <2> QED BY <2>1, <2>2 DEF PartialMaps
<1>3. Removed(s, S) \in Pools
  <2> HIDE DEF left, freed
  <2> QED BY <1>1, <1>2 DEF Pools
<1>4. ASSUME NEW t \in s.mapTx \ S, NEW o \in Inputs[t]
      PROVE  o \in DOMAIN left /\ left[o] = t
  <2>1. o \in DOMAIN s.mapNextTx /\ s.mapNextTx[o] = t
    BY <1>4 DEF Exact
  <2>2. o \notin freed
    BY <1>4, <2>1 DEF Exact
  <2> QED BY <2>1, <2>2
<1>5. ASSUME NEW o \in DOMAIN left
      PROVE  left[o] \in s.mapTx \ S /\ o \in Inputs[left[o]]
  BY <1>5 DEF Exact
<1>6. Exact(Removed(s, S))
  <2> HIDE DEF left, freed
  <2> QED BY <1>1, <1>4, <1>5 DEF Exact
<1> QED
  BY <1>1, <1>3, <1>6

\* What remove(..., true) leaves: the pool without S, closed under the outputs it
\* spends; and nothing went that has no input that is of S or went too.
LEMMA RemovedRecursivelyHolds ==
  ASSUME NEW s \in Pools, Exact(s), NEW S \in SUBSET Tx
  PROVE  LET left == RemovedRecursively(s, S)
         IN  /\ left \in Pools /\ Exact(left)
             /\ left.mapTx \subseteq s.mapTx \ S
             /\ \A t \in left.mapTx : \A o \in Inputs[t] :
                   Of[o] \notin S /\ (Of[o] \in s.mapTx => Of[o] \in left.mapTx)
             /\ \A t \in s.mapTx \ left.mapTx :
                   t \in S \/ \E o \in Inputs[t] :
                                 Of[o] \in (S \cup s.mapTx) \ left.mapTx
<1> DEFINE W == WithSpenders(s, S)
           left == RemovedRecursively(s, S)
<1>1. /\ S \subseteq W /\ Spenders(s, W) \subseteq W
      /\ \A t \in W : t \in S \/ \E o \in DOMAIN s.mapNextTx :
                                    t = s.mapNextTx[o] /\ Of[o] \in W
  BY WithSpendersHolds
<1>2. left \in Pools /\ Exact(left) /\ left.mapTx = s.mapTx \ W
  BY RemovedHolds DEF RemovedRecursively
<1> HIDE DEF W, left
<1>3. ASSUME NEW t \in left.mapTx, NEW o \in Inputs[t]  PROVE Of[o] \notin W
  <2>1. o \in DOMAIN s.mapNextTx /\ s.mapNextTx[o] = t /\ t \notin W
    BY <1>2 DEF Exact
  <2> QED BY <1>1, <2>1 DEF Spenders
<1>4. W \subseteq S \cup s.mapTx
  BY <1>1 DEF Exact
<1>5. ASSUME NEW t \in s.mapTx \ left.mapTx, t \notin S
      PROVE  \E o \in Inputs[t] : Of[o] \in (S \cup s.mapTx) \ left.mapTx
  <2>1. PICK o \in DOMAIN s.mapNextTx : t = s.mapNextTx[o] /\ Of[o] \in W
    BY <1>1, <1>2, <1>5
  <2> QED BY <1>2, <1>4, <2>1 DEF Exact
<1> QED
  BY <1>1, <1>2, <1>3, <1>5 DEF left

-----------------------------------------------------------------------------
(* The chain, and what a transaction spends from it. *)

LEMMA ChainHolds ==
  ASSUME NEW c, ChainOK(c)
  PROVE  /\ Len(c) \in Nat /\ DOMAIN c = 1 .. Len(c)
         /\ Mined(c) \subseteq Tx
         /\ \A h \in DOMAIN c : c[h] \subseteq Mined(c) /\ c[h] \subseteq Tx
         /\ \A h \in DOMAIN c : \A t \in c[h] : HeightOf(c, t) = h
         /\ \A t \in Mined(c) : \E h \in DOMAIN c : t \in c[h]
         /\ \A t \in Mined(c) : \A o \in Inputs[t] : Of[o] \in Mined(c)
<1>1. /\ c \in Seq(SUBSET Tx) /\ Len(c) \in Nat /\ DOMAIN c = 1 .. Len(c)
      /\ \A h \in DOMAIN c : c[h] \in SUBSET Tx
  BY DEF ChainOK
<1>2. \A h \in DOMAIN c : c[h] \subseteq Mined(c)
  BY DEF Mined
<1>3. \A t \in Mined(c) : \E h \in DOMAIN c : t \in c[h]
  BY DEF Mined
<1>4. ASSUME NEW h \in DOMAIN c, NEW t \in c[h]  PROVE HeightOf(c, t) = h
  <2>1. \A k \in DOMAIN c : t \in c[k] => k = h
    BY DEF ChainOK
  <2> QED BY <2>1 DEF HeightOf
<1>5. ASSUME NEW t \in Mined(c), NEW o \in Inputs[t]  PROVE Of[o] \in Mined(c)
  <2>1. PICK h \in DOMAIN c : t \in c[h]
    BY <1>3
  <2>2. PICK k \in 1 .. h : Of[o] \in c[k]
    BY <2>1 DEF ChainOK
  <2>3. k \in DOMAIN c
    BY <1>1, <2>1, <2>2
  <2> QED BY <1>2, <2>2, <2>3
<1> QED
  BY <1>1, <1>2, <1>3, <1>4, <1>5

LEMMA SpendableHolds ==
  ASSUME NEW c, NEW o, Spendable(c, o)
  PROVE  /\ o \in Output /\ Of[o] \in Mined(c)
         /\ \A r \in Mined(c) : o \notin Inputs[r]
         /\ IsMature(c, o)
  BY DEF Spendable, Unspent

\* A transaction that is accepted is new to the pool and to the chain - one that was
\* mined and is spent already is not Known - and takes nothing anyone has spent.
LEMMA AcceptedHolds ==
  ASSUME NEW c, ChainOK(c), NEW s \in Pools, Apart(s, c), NEW t \in Tx, NEW v, Accepted(s, c, t, v)
  PROVE  /\ t \notin Minted /\ t \notin s.mapTx /\ t \notin Mined(c)
         /\ Inputs[t] \cap DOMAIN s.mapNextTx = {}
         /\ \A o \in Inputs[t] : Of[o] \in s.mapTx \/ Spendable(c, o)
         /\ \A o \in Inputs[t] : \A r \in Mined(c) : o \notin Inputs[r]
<1>1. /\ t \notin Minted /\ t \notin s.mapTx /\ Inputs[t] \cap DOMAIN s.mapNextTx = {}
      /\ \A o \in Inputs[t] : Of[o] \in s.mapTx \/ Spendable(c, o)
  BY DEF Accepted, InputsFit, Known
<1>2. \A o \in Inputs[t] : \A r \in Mined(c) : o \notin Inputs[r]
  BY <1>1, ChainHolds, SpendableHolds DEF Apart
<1>3. t \notin Mined(c)
  BY <1>1, <1>2, InputsHold
<1> QED
  BY <1>1, <1>2, <1>3

LEMMA UncheckedHolds ==
  ASSUME NEW s \in Pools, Exact(s), NEW t \in Tx \ Minted, t \notin s.mapTx,
         Inputs[t] \cap DOMAIN s.mapNextTx = {}
  PROVE  /\ Unchecked(s, t) \in Pools /\ Exact(Unchecked(s, t))
         /\ Unchecked(s, t).mapTx = s.mapTx \cup {t}
<1> DEFINE more == [o \in DOMAIN s.mapNextTx \cup Inputs[t] |->
                       IF o \in Inputs[t] THEN t ELSE s.mapNextTx[o]]
<1>1. Unchecked(s, t) = [mapTx |-> s.mapTx \cup {t}, mapNextTx |-> more]
  BY DEF Unchecked
<1>2. DOMAIN s.mapNextTx \in SUBSET Output /\ \A o \in DOMAIN s.mapNextTx : s.mapNextTx[o] \in Tx
  BY DEF Pools, PartialMaps
<1>3. more \in [DOMAIN s.mapNextTx \cup Inputs[t] -> Tx]
  BY <1>2
<1>4. DOMAIN s.mapNextTx \cup Inputs[t] \in SUBSET Output
  BY <1>2, InputsHold
<1>5. Unchecked(s, t) \in Pools
  <2> HIDE DEF more
  <2> QED BY <1>1, <1>3, <1>4 DEF Pools, PartialMaps
<1>6. ASSUME NEW r \in s.mapTx \cup {t}, NEW o \in Inputs[r]
      PROVE  o \in DOMAIN more /\ more[o] = r
  BY DEF Exact
<1>7. ASSUME NEW o \in DOMAIN more
      PROVE  more[o] \in s.mapTx \cup {t} /\ o \in Inputs[more[o]]
  BY DEF Exact
<1>8. Exact(Unchecked(s, t))
  <2> HIDE DEF more
  <2> QED BY <1>1, <1>6, <1>7 DEF Exact
<1> QED
  BY <1>1, <1>5, <1>8

LEMMA AcceptKeeps ==
  ASSUME NEW c, ChainOK(c), NEW s, GoodPool(s, c), NEW t \in Tx, NEW v, Accepted(s, c, t, v)
  PROVE  /\ GoodPool(Unchecked(s, t), c)
         /\ Unchecked(s, t).mapTx = s.mapTx \cup {t}
<1>1. /\ s \in Pools /\ Exact(s) /\ Apart(s, c)
      /\ t \notin Minted /\ t \notin s.mapTx /\ t \notin Mined(c)
      /\ Inputs[t] \cap DOMAIN s.mapNextTx = {}
      /\ \A o \in Inputs[t] : Of[o] \in s.mapTx \/ Spendable(c, o)
  BY AcceptedHolds DEF GoodPool
<1>2. /\ Unchecked(s, t) \in Pools /\ Exact(Unchecked(s, t))
      /\ Unchecked(s, t).mapTx = s.mapTx \cup {t}
  BY <1>1, UncheckedHolds
<1>3. Apart(Unchecked(s, t), c)
  BY <1>1, <1>2 DEF Apart
<1>4. Supplied(Unchecked(s, t), c)
  BY <1>1, <1>2 DEF Supplied, GoodPool
<1> QED
  BY <1>2, <1>3, <1>4 DEF GoodPool

-----------------------------------------------------------------------------
(* DisconnectTip. *)

ExactPools == {s \in Pools : Exact(s)}

LEMMA ResurrectType ==
  ASSUME NEW s \in ExactPools, NEW c, NEW t \in Tx, NEW refused
  PROVE  Resurrect(s, c, t, refused) \in ExactPools
<1>1. s \in Pools /\ Exact(s)
  BY DEF ExactPools
<1> DEFINE v == IF t \in refused THEN "refused" ELSE "good"
<1>2. CASE Accepted(s, c, t, v)
  <2>1. t \in Tx \ Minted /\ t \notin s.mapTx /\ Inputs[t] \cap DOMAIN s.mapNextTx = {}
    BY <1>2 DEF Accepted, InputsFit, Known
  <2>2. Unchecked(s, t) \in Pools /\ Exact(Unchecked(s, t))
    BY <1>1, <2>1, UncheckedHolds
  <2> QED BY <1>2, <2>2 DEF Resurrect, ExactPools
<1>3. CASE ~Accepted(s, c, t, v)
  <2>1. {t} \in SUBSET Tx
    OBVIOUS
  <2>2. RemovedRecursively(s, {t}) \in Pools /\ Exact(RemovedRecursively(s, {t}))
    BY <1>1, <2>1, RemovedRecursivelyHolds
  <2> QED BY <1>3, <2>2 DEF Resurrect, ExactPools
<1> QED
  BY <1>2, <1>3

\* The fold that makes Refilled, state by state.
LEMMA RefilledRun ==
  ASSUME NEW s \in ExactPools, NEW c, NEW block, NEW refused
  PROVE  \E r : /\ r[0] = s
                /\ \A i \in 1 .. N :
                      r[i] = IF TxOrder[i] \in block
                             THEN Resurrect(r[i - 1], c, TxOrder[i], refused) ELSE r[i - 1]
                /\ Refilled(s, c, block, refused) = r[N]
<1> DEFINE Put(r, t) == IF t \in block THEN Resurrect(r, c, t, refused) ELSE r
           P(g) == g = [x \in SUBSET DOMAIN TxOrder |->
                           IF x = {} THEN s ELSE Put(g[x \ {Max(x)}], TxOrder[Max(x)])]
           G == CHOOSE g : P(g)
           step == [p \in ExactPools \X (1 .. N) |-> Put(p[1], TxOrder[p[2]])]
<1>1. Refilled(s, c, block, refused) = G[DOMAIN TxOrder]
  BY DEF Refilled, FoldLeft, MapThenFoldSet
<1>2. step \in [ExactPools \X (1 .. N) -> ExactPools]
  BY ResurrectType, OrderHolds
<1>3. PICK f : IsFold(f, N, ExactPools, s, step)
  <2> HIDE DEF step
  <2> QED BY <1>2, FoldExists, OrderHolds
<1>4. P(f)
  <2>1. ASSUME NEW x \in SUBSET (1 .. N), x # {}
        PROVE  f[x] = Put(f[x \ {Max(x)}], TxOrder[Max(x)])
    <3>1. Max(x) \in 1 .. N /\ f[x \ {Max(x)}] \in ExactPools
      BY <1>3, <2>1, MaxIs, OrderHolds DEF IsFold
    <3>2. f[x] = step[<<f[x \ {Max(x)}], Max(x)>>]
      BY <1>3, <2>1 DEF IsFold
    <3> HIDE DEF Put
    <3> QED BY <3>1, <3>2
  <2> HIDE DEF Put
  <2> QED BY <1>3, <2>1, OrderHolds DEF IsFold
<1>5. P(G)
  <2> HIDE DEF P
  <2> QED BY <1>4
<1> DEFINE r == [i \in 0 .. N |-> G[1 .. i]]
<1> HIDE DEF Put, G
<1>6. r[0] = s
  <2>1. 1 .. 0 = {} /\ 0 \in 0 .. N /\ {} \in SUBSET DOMAIN TxOrder
    BY OrderHolds
  <2> QED BY <1>5, <2>1
<1>7. ASSUME NEW i \in 1 .. N  PROVE r[i] = Put(r[i - 1], TxOrder[i])
  <2>1. /\ Max(1 .. i) = i /\ (1 .. i) \ {i} = 1 .. (i - 1)
        /\ 1 .. i \in SUBSET DOMAIN TxOrder /\ 1 .. i # {}
    BY MaxOfInterval, OrderHolds
  <2>2. r[i] = G[1 .. i] /\ r[i - 1] = G[1 .. (i - 1)]
    BY OrderHolds
  <2>3. G[1 .. i] = Put(G[(1 .. i) \ {Max(1 .. i)}], TxOrder[Max(1 .. i)])
    BY <1>5, <2>1
  <2> HIDE DEF r
  <2> QED BY <2>1, <2>2, <2>3
<1>8. r[N] = G[DOMAIN TxOrder]
  BY OrderHolds
<1> HIDE DEF r
<1> QED
  BY <1>1, <1>6, <1>7, <1>8 DEF Put

LEMMA FrontHolds ==
  ASSUME NEW c, ChainOK(c), Len(c) > 1
  PROVE  /\ ChainOK(Front(c)) /\ Len(Front(c)) = Len(c) - 1
         /\ Last(c) \subseteq Tx
         /\ Mined(c) = Mined(Front(c)) \cup Last(c)
         /\ Mined(Front(c)) \cap Last(c) = {}
<1> DEFINE n == Len(c)
           f == Front(c)
<1>1. /\ c \in Seq(SUBSET Tx) /\ n \in Nat /\ n > 1 /\ DOMAIN c = 1 .. n
      /\ f = SubSeq(c, 1, n - 1) /\ Last(c) = c[n]
  BY DEF ChainOK, Front, Last
<1>2. /\ f \in Seq(SUBSET Tx) /\ Len(f) = n - 1 /\ DOMAIN f = 1 .. (n - 1)
      /\ \A h \in 1 .. (n - 1) : f[h] = c[h]
  BY <1>1
<1> HIDE DEF n, f
<1>3. ChainOK(f)
  <2>1. \A h \in DOMAIN f : h \in DOMAIN c /\ f[h] = c[h] /\ 1 .. h \subseteq DOMAIN f
    BY <1>1, <1>2
  <2>2. \A h, k \in DOMAIN f : h # k => f[h] \cap f[k] = {}
    BY <2>1 DEF ChainOK
  <2>3. \A h \in DOMAIN f : \A t \in f[h] : \A o \in Inputs[t] : \E k \in 1 .. h : Of[o] \in f[k]
    BY <2>1 DEF ChainOK
  <2> QED BY <1>2, <2>2, <2>3 DEF ChainOK
<1>4. DOMAIN c = DOMAIN f \cup {n} /\ n \notin DOMAIN f /\ n \in DOMAIN c
  BY <1>1, <1>2
<1>5. Mined(c) = Mined(f) \cup Last(c)
  BY <1>1, <1>2, <1>4 DEF Mined
<1>6. Mined(f) \cap Last(c) = {}
  BY <1>1, <1>2, <1>4 DEF Mined, ChainOK
<1>7. Last(c) \subseteq Tx
  BY <1>1, <1>4
<1> QED
  BY <1>2, <1>3, <1>5, <1>6, <1>7 DEF n, f

\* The transactions of the block from which Refilled has still to go.
Ahead(i, block) == {t \in block : \E j \in (i + 1) .. N : t = TxOrder[j]}

\* What holds between the steps of Refilled: old is the pool before, c the chain
\* that is left.
Refilling(s, i, old, c, block) ==
    /\ s \in ExactPools
    /\ Apart(s, c)
    /\ \A t \in s.mapTx : \A o \in Inputs[t] : \A r \in Mined(c) : o \notin Inputs[r]
    /\ \A t \in s.mapTx : t \in old \/ t \in block \ Ahead(i, block)
    /\ \A t \in old \ s.mapTx : \E o \in Inputs[t] :
          Of[o] \notin s.mapTx \cup Mined(c) \cup Ahead(i, block)

LEMMA AheadHolds ==
  ASSUME NEW i \in 1 .. N, NEW block \in SUBSET Tx
  PROVE  /\ Ahead(i, block) \subseteq Ahead(i - 1, block)
         /\ TxOrder[i] \in Tx /\ TxOrder[i] \notin Ahead(i, block)
         /\ \A t \in Ahead(i - 1, block) : t = TxOrder[i] \/ t \in Ahead(i, block)
         /\ TxOrder[i] \in block => TxOrder[i] \in Ahead(i - 1, block)
<1>1. /\ N \in Nat /\ TxOrder[i] \in Tx
      /\ \A j \in (i + 1) .. N : TxOrder[j] # TxOrder[i]
  <2>1. \A j \in (i + 1) .. N : j \in 1 .. N /\ j # i
    BY OrderHolds
  <2> QED BY <2>1, OrderHolds
<1>2. \A j : j \in ((i - 1) + 1) .. N <=> j = i \/ j \in (i + 1) .. N
  BY <1>1
<1> QED
  BY <1>1, <1>2 DEF Ahead

LEMMA ResurrectKeeps ==
  ASSUME NEW c, ChainOK(c), NEW block \in SUBSET Tx, Mined(c) \cap block = {},
         NEW old, old \cap block = {}, old \cap Mined(c) = {}, NEW refused, NEW i \in 1 .. N,
         TxOrder[i] \in block, NEW s, Refilling(s, i - 1, old, c, block)
  PROVE  Refilling(Resurrect(s, c, TxOrder[i], refused), i, old, c, block)
<1> DEFINE t == TxOrder[i]
           new == Resurrect(s, c, t, refused)
           v == IF t \in refused THEN "refused" ELSE "good"
<1>1. /\ s \in ExactPools /\ s \in Pools /\ Exact(s) /\ Apart(s, c)
      /\ \A x \in s.mapTx : \A o \in Inputs[x] : \A r \in Mined(c) : o \notin Inputs[r]
      /\ \A x \in s.mapTx : x \in old \/ x \in block \ Ahead(i - 1, block)
      /\ \A x \in old \ s.mapTx : \E o \in Inputs[x] :
            Of[o] \notin s.mapTx \cup Mined(c) \cup Ahead(i - 1, block)
  BY DEF Refilling, ExactPools
<1>2. /\ Ahead(i, block) \subseteq Ahead(i - 1, block) /\ Ahead(i - 1, block) \subseteq block
      /\ t \in Tx /\ t \notin Ahead(i, block) /\ t \in Ahead(i - 1, block)
  BY AheadHolds DEF Ahead
<1>3. new \in ExactPools
  BY <1>1, <1>2, ResurrectType
<1>4. t \in block /\ t \notin old /\ t \notin Mined(c) /\ t \notin s.mapTx
  BY <1>1, <1>2
<1> HIDE DEF t
<1>5. CASE Accepted(s, c, t, v)
  <2>1. new = Unchecked(s, t)
    BY <1>5 DEF Resurrect
  <2>2. /\ t \in Tx \ Minted /\ t \notin s.mapTx /\ Inputs[t] \cap DOMAIN s.mapNextTx = {}
        /\ \A o \in Inputs[t] : \A r \in Mined(c) : o \notin Inputs[r]
    BY <1>1, <1>2, <1>5, AcceptedHolds
  <2>3. new.mapTx = s.mapTx \cup {t}
    BY <1>1, <2>1, <2>2, UncheckedHolds
  <2> HIDE DEF new
  <2>4. \A x \in new.mapTx : \A o \in Inputs[x] : \A r \in Mined(c) : o \notin Inputs[r]
    BY <1>1, <2>2, <2>3
  <2>5. Apart(new, c)
    BY <1>1, <1>4, <2>3 DEF Apart
  <2>6. \A x \in new.mapTx : x \in old \/ x \in block \ Ahead(i, block)
    BY <1>1, <1>2, <1>4, <2>3
  <2>7. ASSUME NEW x \in old \ new.mapTx
        PROVE  \E o \in Inputs[x] : Of[o] \notin new.mapTx \cup Mined(c) \cup Ahead(i, block)
    BY <1>1, <1>2, <2>3
  <2>8. Refilling(new, i, old, c, block)
    BY <1>3, <2>4, <2>5, <2>6, <2>7 DEF Refilling
  <2> QED BY <2>8 DEF new, t
<1>6. CASE ~Accepted(s, c, t, v)
  <2>1. new = RemovedRecursively(s, {t})
    BY <1>6 DEF Resurrect
  <2>2. /\ new.mapTx \subseteq s.mapTx
        /\ \A x \in s.mapTx \ new.mapTx :
              x = t \/ \E o \in Inputs[x] : Of[o] \in ({t} \cup s.mapTx) \ new.mapTx
    <3> DEFINE S == {t}
    <3>1. S \in SUBSET Tx
      BY <1>2
    <3> HIDE DEF S
    <3>2. LET left == RemovedRecursively(s, S)
          IN  /\ left.mapTx \subseteq s.mapTx
              /\ \A x \in s.mapTx \ left.mapTx :
                    x \in S \/ \E o \in Inputs[x] : Of[o] \in (S \cup s.mapTx) \ left.mapTx
      BY <1>1, <3>1, RemovedRecursivelyHolds
    <3> HIDE DEF new
    <3>3. new = RemovedRecursively(s, S)
      BY <2>1 DEF S
    <3> QED BY <3>2, <3>3 DEF S
  <2> HIDE DEF new
  <2>3. Apart(new, c)
    BY <1>1, <2>2 DEF Apart
  <2>4. \A x \in new.mapTx : x \in old \/ x \in block \ Ahead(i, block)
    BY <1>1, <1>2, <2>2
  <2>5. ASSUME NEW x \in old \ new.mapTx
        PROVE  \E o \in Inputs[x] : Of[o] \notin new.mapTx \cup Mined(c) \cup Ahead(i, block)
    <3>1. CASE x \notin s.mapTx
      BY <1>1, <1>2, <2>2, <3>1
    <3>2. CASE x \in s.mapTx
      <4>1. PICK o \in Inputs[x] : Of[o] \in ({t} \cup s.mapTx) \ new.mapTx
        BY <1>4, <2>2, <2>5, <3>2
      <4>2. Of[o] \notin Mined(c)
        BY <1>1, <1>4, <4>1 DEF Apart
      <4>3. Of[o] \notin Ahead(i, block)
        BY <1>1, <1>2, <4>1
      <4> QED BY <4>1, <4>2, <4>3
    <3> QED BY <3>1, <3>2
  <2>6. \A x \in new.mapTx : \A o \in Inputs[x] : \A r \in Mined(c) : o \notin Inputs[r]
    BY <1>1, <2>2
  <2>7. Refilling(new, i, old, c, block)
    BY <1>3, <2>3, <2>4, <2>5, <2>6 DEF Refilling
  <2> QED BY <2>7 DEF new, t
<1> QED
  BY <1>5, <1>6

LEMMA RefilledHolds ==
  ASSUME NEW c, ChainOK(c), Len(c) > 1, NEW s, GoodPool(s, c), NEW refused
  PROVE  Refilling(Refilled(s, Front(c), Last(c), refused), N, s.mapTx, Front(c), Last(c))
<1> DEFINE f == Front(c)
           block == Last(c)
<1>1. /\ ChainOK(f) /\ block \in SUBSET Tx /\ Mined(f) \cap block = {}
      /\ Mined(f) \subseteq Mined(c) /\ block \subseteq Mined(c)
  BY FrontHolds
<1>2. s \in ExactPools /\ Apart(s, c) /\ Supplied(s, c)
  BY DEF GoodPool, ExactPools
<1>3. s.mapTx \cap Mined(f) = {} /\ s.mapTx \cap block = {}
  BY <1>1, <1>2 DEF Apart
<1> HIDE DEF f, block
<1>4. PICK r : /\ r[0] = s
               /\ \A i \in 1 .. N :
                     r[i] = IF TxOrder[i] \in block
                            THEN Resurrect(r[i - 1], f, TxOrder[i], refused) ELSE r[i - 1]
               /\ Refilled(s, f, block, refused) = r[N]
  BY <1>2, RefilledRun
<1> DEFINE D == {i \in 0 .. N : Refilling(r[i], i, s.mapTx, f, block)}
<1>5. 0 \in D
  <2>1. Apart(s, f)
    BY <1>3 DEF Apart
  <2>2. ASSUME NEW t \in s.mapTx, NEW o \in Inputs[t], NEW m \in Mined(f)  PROVE o \notin Inputs[m]
    <3>1. CASE Of[o] \in s.mapTx
      BY <1>1, <1>3, <3>1, ChainHolds
    <3>2. CASE Spendable(c, o)
      BY <1>1, <3>2, SpendableHolds
    <3> QED BY <1>2, <3>1, <3>2 DEF Supplied
  <2>3. Refilling(s, 0, s.mapTx, f, block)
    BY <1>2, <2>1, <2>2 DEF Refilling
  <2> QED BY <1>4, <2>3, OrderHolds
<1>6. ASSUME NEW i \in 1 .. N, i - 1 \in D  PROVE i \in D
  <2> DEFINE old == s.mapTx
             p == r[i - 1]
  <2>1. Refilling(p, i - 1, old, f, block)
    BY <1>6
  <2> HIDE DEF old, p
  <2>2. CASE TxOrder[i] \in block
    <3>1. Refilling(Resurrect(p, f, TxOrder[i], refused), i, old, f, block)
      BY <1>1, <1>3, <2>1, <2>2, ResurrectKeeps DEF old
    <3> QED BY <1>4, <2>2, <3>1 DEF old, p
  <2>3. CASE TxOrder[i] \notin block
    <3>1. Ahead(i, block) = Ahead(i - 1, block)
      <4>1. \A t \in Ahead(i - 1, block) : t # TxOrder[i]
        BY <2>3 DEF Ahead
      <4>2. /\ Ahead(i, block) \subseteq Ahead(i - 1, block)
            /\ \A t \in Ahead(i - 1, block) : t = TxOrder[i] \/ t \in Ahead(i, block)
        BY <1>1, AheadHolds
      <4> QED BY <4>1, <4>2
    <3>2. Refilling(p, i, old, f, block)
      BY <2>1, <3>1 DEF Refilling
    <3> QED BY <1>4, <2>3, <3>2 DEF old, p
  <2> QED BY <2>2, <2>3
<1>7. N \in D
  <2>1. \A i \in 0 .. N : i \in D
    <3> HIDE DEF D
    <3> QED BY <1>5, <1>6, CountingUp, OrderHolds
  <2> QED BY <2>1, OrderHolds
<1> QED
  BY <1>4, <1>7 DEF f, block

\* What stays after removeCoinbaseSpends has its inputs on the chain that is left.
LEMMA RemoveCoinbaseSpendsHolds ==
  ASSUME NEW c, ChainOK(c), NEW block \in SUBSET Tx, NEW old, NEW s,
         Refilling(s, N, old, c, block)
  PROVE  LET left == RemoveCoinbaseSpends(s, c)
         IN  /\ GoodPool(left, c)
             /\ \A t \in old \ left.mapTx : \E o \in Inputs[t] :
                   Of[o] \notin left.mapTx /\ ~Spendable(c, o)
<1> DEFINE S == {t \in s.mapTx :
                    \E o \in Inputs[t] : /\ Of[o] \notin s.mapTx
                                         /\ \/ Outputs(Of[o]) \cap Unspent(c) = {}
                                            \/ ~IsMature(c, o)}
           left == RemoveCoinbaseSpends(s, c)
<1>1. /\ s \in Pools /\ Exact(s) /\ Apart(s, c) /\ s.mapTx \subseteq Tx
      /\ \A t \in s.mapTx : \A o \in Inputs[t] : \A r \in Mined(c) : o \notin Inputs[r]
      /\ \A t \in old \ s.mapTx : \E o \in Inputs[t] : Of[o] \notin s.mapTx \cup Mined(c)
  BY DEF Refilling, ExactPools, Pools
<1>2. left = RemovedRecursively(s, S) /\ S \in SUBSET Tx
  BY <1>1 DEF RemoveCoinbaseSpends
<1>3. ASSUME NEW t \in S
      PROVE  \E o \in Inputs[t] : Of[o] \notin s.mapTx /\ ~Spendable(c, o)
  <2>1. PICK o \in Inputs[t] : /\ Of[o] \notin s.mapTx
                               /\ \/ Outputs(Of[o]) \cap Unspent(c) = {}
                                  \/ ~IsMature(c, o)
    OBVIOUS
  <2>2. o \in Outputs(Of[o])
    BY <1>1, InputsHold DEF Outputs
  <2> QED BY <2>1, <2>2 DEF Spendable
<1>4. ASSUME NEW t \in s.mapTx \ S, NEW o \in Inputs[t], Of[o] \notin s.mapTx
      PROVE  Spendable(c, o)
  <2>1. PICK q \in Outputs(Of[o]) : q \in Unspent(c)
    BY <1>4
  <2>2. Of[o] \in Mined(c) /\ o \in Output
    BY <1>1, <2>1, InputsHold DEF Outputs, Unspent
  <2>3. o \in Unspent(c)
    BY <1>1, <2>2 DEF Unspent
  <2>4. IsMature(c, o)
    BY <1>4
  <2> QED BY <2>3, <2>4 DEF Spendable
<1> HIDE DEF S, left
<1>5. /\ left \in Pools /\ Exact(left)
      /\ left.mapTx \subseteq s.mapTx \ S
      /\ \A t \in left.mapTx : \A o \in Inputs[t] :
            Of[o] \notin S /\ (Of[o] \in s.mapTx => Of[o] \in left.mapTx)
      /\ \A t \in s.mapTx \ left.mapTx :
            t \in S \/ \E o \in Inputs[t] : Of[o] \in (S \cup s.mapTx) \ left.mapTx
  <2>1. LET l == RemovedRecursively(s, S)
        IN  /\ l \in Pools /\ Exact(l)
            /\ l.mapTx \subseteq s.mapTx \ S
            /\ \A t \in l.mapTx : \A o \in Inputs[t] :
                  Of[o] \notin S /\ (Of[o] \in s.mapTx => Of[o] \in l.mapTx)
            /\ \A t \in s.mapTx \ l.mapTx :
                  t \in S \/ \E o \in Inputs[t] : Of[o] \in (S \cup s.mapTx) \ l.mapTx
    BY <1>1, <1>2, RemovedRecursivelyHolds
  <2> QED BY <1>2, <2>1
<1>6. Apart(left, c)
  BY <1>1, <1>5 DEF Apart
<1>7. Supplied(left, c)
  BY <1>4, <1>5 DEF Supplied
<1>8. ASSUME NEW t \in old \ left.mapTx
      PROVE  \E o \in Inputs[t] : Of[o] \notin left.mapTx /\ ~Spendable(c, o)
  <2>1. CASE t \notin s.mapTx
    BY <1>1, <1>5, <2>1, SpendableHolds
  <2>2. CASE t \in S
    BY <1>3, <1>5, <2>2
  <2>3. CASE t \in s.mapTx /\ t \notin S
    <3>1. PICK o \in Inputs[t] : Of[o] \in (S \cup s.mapTx) \ left.mapTx
      BY <1>5, <1>8, <2>3
    <3>2. Of[o] \in s.mapTx
      BY <3>1 DEF S
    <3>3. Of[o] \notin Mined(c)
      BY <1>1, <3>2 DEF Apart
    <3> QED BY <3>1, <3>3, SpendableHolds
  <2> QED BY <2>1, <2>2, <2>3
<1> QED
  BY <1>5, <1>6, <1>7, <1>8 DEF GoodPool, left

-----------------------------------------------------------------------------
(* ConnectTip. *)

\* The chain with a block more: new transactions, and each spends what the chain or
\* the block has made and nobody else has spent.
LEMMA AppendHolds ==
  ASSUME NEW c, ChainOK(c), NEW block \in SUBSET Tx, Mined(c) \cap block = {},
         \A t \in block : \A o \in Inputs[t] : Of[o] \in Mined(c) \cup block
  PROVE  LET d == Append(c, block)
         IN  /\ ChainOK(d) /\ Len(d) = Len(c) + 1
             /\ Mined(d) = Mined(c) \cup block
             /\ \A t \in Mined(c) : HeightOf(d, t) = HeightOf(c, t)
<1> DEFINE d == Append(c, block)
           n == Len(c)
<1>1. /\ c \in Seq(SUBSET Tx) /\ n \in Nat /\ DOMAIN c = 1 .. n
      /\ d \in Seq(SUBSET Tx) /\ Len(d) = n + 1 /\ DOMAIN d = 1 .. (n + 1)
      /\ \A h \in 1 .. n : d[h] = c[h]
      /\ d[n + 1] = block
  BY DEF ChainOK
<1>2. /\ \A h \in DOMAIN d : h \in DOMAIN c \/ h = n + 1
      /\ \A h \in DOMAIN c : h \in DOMAIN d /\ h # n + 1 /\ d[h] = c[h]
      /\ n + 1 \in DOMAIN d
  BY <1>1
<1> HIDE DEF d, n
<1>3. Mined(d) = Mined(c) \cup block
  BY <1>1, <1>2 DEF Mined
<1>4. \A h \in DOMAIN c : c[h] \subseteq Mined(c)
  BY ChainHolds
<1>5. \A h, k \in DOMAIN d : h # k => d[h] \cap d[k] = {}
  BY <1>1, <1>2, <1>4 DEF ChainOK
<1>6. ASSUME NEW h \in DOMAIN d, NEW t \in d[h], NEW o \in Inputs[t]
      PROVE  \E k \in 1 .. h : Of[o] \in d[k]
  <2>1. CASE h \in DOMAIN c
    <3>1. PICK k \in 1 .. h : Of[o] \in c[k]
      BY <1>2, <2>1 DEF ChainOK
    <3>2. k \in DOMAIN c
      BY <1>1, <2>1
    <3> QED BY <1>2, <3>1, <3>2
  <2>2. CASE h = n + 1
    <3>1. Of[o] \in Mined(d)
      BY <1>1, <1>3, <2>2
    <3>2. PICK k \in DOMAIN d : Of[o] \in d[k]
      BY <3>1 DEF Mined
    <3> QED BY <1>1, <2>2, <3>2
  <2> QED BY <1>2, <2>1, <2>2
<1>7. ChainOK(d)
  BY <1>1, <1>5, <1>6 DEF ChainOK
<1>8. ASSUME NEW t \in Mined(c)  PROVE HeightOf(d, t) = HeightOf(c, t)
  <2>1. PICK h \in DOMAIN c : t \in c[h]
    BY DEF Mined
  <2>2. HeightOf(c, t) = h /\ HeightOf(d, t) = h
    BY <1>2, <1>7, <2>1, ChainHolds
  <2> QED BY <2>2
<1> QED
  BY <1>1, <1>3, <1>7, <1>8 DEF d, n

LEMMA SpendableLater ==
  ASSUME NEW c, ChainOK(c), NEW d, ChainOK(d), Len(d) = Len(c) + 1, Mined(c) \subseteq Mined(d),
         \A t \in Mined(c) : HeightOf(d, t) = HeightOf(c, t),
         NEW o, Spendable(c, o), \A r \in Mined(d) \ Mined(c) : o \notin Inputs[r]
  PROVE  Spendable(d, o)
<1>1. /\ o \in Output /\ Of[o] \in Mined(c) /\ IsMature(c, o)
      /\ \A r \in Mined(c) : o \notin Inputs[r]
  BY SpendableHolds
<1>2. o \in Unspent(d)
  BY <1>1 DEF Unspent
<1>3. IsMature(d, o)
  <2> SUFFICES ASSUME Of[o] \in Minted
               PROVE  Len(d) + 1 - HeightOf(d, Of[o]) >= Maturity
    BY DEF IsMature
  <2>1. Len(c) + 1 - HeightOf(c, Of[o]) >= Maturity /\ HeightOf(d, Of[o]) = HeightOf(c, Of[o])
    BY <1>1 DEF IsMature
  <2>2. PICK h \in DOMAIN c : HeightOf(c, Of[o]) = h
    BY <1>1, ChainHolds
  <2>3. h \in Nat /\ Len(c) \in Nat /\ Maturity \in Nat
    BY <2>2, ChainHolds, MemPoolAssumption
  <2> QED BY <2>1, <2>2, <2>3
<1> QED
  BY <1>2, <1>3 DEF Spendable

\* What a block leaves of the pool, and why the others went.
LEMMA RemoveForBlockHolds ==
  ASSUME NEW c, ChainOK(c), NEW s, GoodPool(s, c),
         NEW block \in SUBSET Tx, Mined(c) \cap block = {},
         \A t \in block : \A o \in Inputs[t] : Of[o] \in Mined(c) \cup block
  PROVE  LET left == RemoveForBlock(s, block)
             d == Append(c, block)
         IN  /\ GoodPool(left, d)
             /\ \A t \in s.mapTx \ left.mapTx :
                   t \in Mined(d) \/ \E o \in Inputs[t] :
                                        Of[o] \notin left.mapTx /\ ~Spendable(d, o)
<1> DEFINE d == Append(c, block)
           p == Removed(s, block)
           S == Conflicts(p, block)
           left == RemoveForBlock(s, block)
<1>1. /\ ChainOK(d) /\ Len(d) = Len(c) + 1 /\ Mined(d) = Mined(c) \cup block
      /\ \A t \in Mined(c) : HeightOf(d, t) = HeightOf(c, t)
  BY AppendHolds
<1>2. s \in Pools /\ Exact(s) /\ Apart(s, c) /\ Supplied(s, c) /\ s.mapTx \subseteq Tx \ Minted
  BY DEF GoodPool, Pools
<1>3. p \in Pools /\ Exact(p) /\ p.mapTx = s.mapTx \ block
  BY <1>2, RemovedHolds
<1>4. left = RemovedRecursively(p, S)
  BY DEF RemoveForBlock
<1> HIDE DEF d, p, left
<1>5. /\ S \in SUBSET Tx /\ S \subseteq p.mapTx
      /\ \A t \in S : \E o \in Inputs[t] : \E r \in block : o \in Inputs[r]
  <2>1. ASSUME NEW t \in S
        PROVE  t \in p.mapTx /\ \E o \in Inputs[t] : \E r \in block : o \in Inputs[r]
    <3>1. PICK o \in DOMAIN p.mapNextTx \cap UNION {Inputs[r] : r \in block} : t = p.mapNextTx[o]
      BY DEF Conflicts
    <3> HIDE DEF S
    <3> QED BY <1>3, <3>1 DEF Exact
  <2> HIDE DEF S
  <2> QED BY <1>2, <1>3, <2>1
<1>6. ASSUME NEW t \in p.mapTx \ S, NEW o \in Inputs[t], NEW r \in block
      PROVE  o \notin Inputs[r]
  <2>1. o \in DOMAIN p.mapNextTx /\ p.mapNextTx[o] = t /\ t \notin block
    BY <1>3 DEF Exact
  <2> QED BY <2>1 DEF Conflicts
<1> HIDE DEF S
<1>7. /\ left \in Pools /\ Exact(left)
      /\ left.mapTx \subseteq p.mapTx \ S
      /\ \A t \in left.mapTx : \A o \in Inputs[t] :
            Of[o] \notin S /\ (Of[o] \in p.mapTx => Of[o] \in left.mapTx)
      /\ \A t \in p.mapTx \ left.mapTx :
            t \in S \/ \E o \in Inputs[t] : Of[o] \in (S \cup p.mapTx) \ left.mapTx
  <2>1. LET l == RemovedRecursively(p, S)
        IN  /\ l \in Pools /\ Exact(l)
            /\ l.mapTx \subseteq p.mapTx \ S
            /\ \A t \in l.mapTx : \A o \in Inputs[t] :
                  Of[o] \notin S /\ (Of[o] \in p.mapTx => Of[o] \in l.mapTx)
            /\ \A t \in p.mapTx \ l.mapTx :
                  t \in S \/ \E o \in Inputs[t] : Of[o] \in (S \cup p.mapTx) \ l.mapTx
    BY <1>3, <1>5, RemovedRecursivelyHolds
  <2> QED BY <1>4, <2>1
<1>8. Apart(left, d)
  BY <1>1, <1>2, <1>3, <1>7 DEF Apart
<1>9. ASSUME NEW t \in left.mapTx, NEW o \in Inputs[t], Of[o] \notin left.mapTx
      PROVE  Spendable(d, o)
  <2>1. t \in s.mapTx /\ o \in Output /\ \A r \in block : o \notin Inputs[r]
    BY <1>2, <1>3, <1>6, <1>7, InputsHold
  <2>2. CASE Of[o] \in s.mapTx
    <3>1. Of[o] \in block /\ Of[o] \notin Minted /\ Of[o] \notin Mined(c)
      BY <1>2, <1>3, <1>7, <1>9, <2>2 DEF Apart
    <3>2. \A r \in Mined(c) : o \notin Inputs[r]
      BY <3>1, ChainHolds
    <3> QED BY <1>1, <2>1, <3>1, <3>2 DEF Spendable, Unspent, IsMature
  <2>3. CASE Spendable(c, o)
    <3>1. \A r \in Mined(d) \ Mined(c) : o \notin Inputs[r]
      BY <1>1, <2>1
    <3> QED BY <1>1, <2>3, <3>1, SpendableLater
  <2> QED BY <1>2, <2>1, <2>2, <2>3 DEF Supplied
<1>10. GoodPool(left, d)
  BY <1>7, <1>8, <1>9 DEF GoodPool, Supplied
<1>11. ASSUME NEW t \in s.mapTx \ left.mapTx
       PROVE  t \in Mined(d) \/ \E o \in Inputs[t] : Of[o] \notin left.mapTx /\ ~Spendable(d, o)
  <2>1. CASE t \in block
    BY <1>1, <2>1
  <2>2. CASE t \in S
    <3>1. PICK o \in Inputs[t] : \E r \in block : o \in Inputs[r]
      BY <1>5, <2>2
    <3>2. Of[o] \in Mined(d) /\ \E r \in Mined(d) : o \in Inputs[r]
      BY <1>1, <3>1
    <3> QED BY <1>8, <3>2, SpendableHolds DEF Apart
  <2>3. CASE t \notin block /\ t \notin S
    <3>1. PICK o \in Inputs[t] : Of[o] \in (S \cup p.mapTx) \ left.mapTx
      BY <1>3, <1>7, <1>11, <2>3
    <3>2. Of[o] \in s.mapTx /\ Of[o] \notin block
      BY <1>3, <1>5, <3>1
    <3>3. Of[o] \notin Mined(d)
      BY <1>1, <1>2, <3>2 DEF Apart
    <3> QED BY <3>1, <3>3, SpendableHolds
  <2> QED BY <2>1, <2>2, <2>3
<1> QED
  BY <1>10, <1>11 DEF d, left

-----------------------------------------------------------------------------
(* Orphans. *)

\* Both maps of a record of them agree.
Indexed(w) ==
    /\ DOMAIN w.byPrev = UNION {Parents(t) : t \in DOMAIN w.orphans}
    /\ \A q \in DOMAIN w.byPrev : w.byPrev[q] = {t \in DOMAIN w.orphans : q \in Parents(t)}

OrphansType(w) ==
    /\ DOMAIN w.orphans \subseteq Tx \ Minted
    /\ \A t \in DOMAIN w.orphans : w.orphans[t] \in Peer

LEMMA EraseHolds ==
  ASSUME NEW w, Indexed(w), NEW S
  PROVE  LET e == EraseOrphanTx(w, S)
         IN  /\ Indexed(e)
             /\ DOMAIN e.orphans = DOMAIN w.orphans \ S
             /\ OrphansType(w) => OrphansType(e)
<1> DEFINE left(q) == w.byPrev[q] \ S
           e == EraseOrphanTx(w, S)
           D == {r \in DOMAIN w.byPrev : left(r) # {}}
<1>1. e = [orphans |-> [t \in DOMAIN w.orphans \ S |-> w.orphans[t]],
           byPrev |-> [q \in D |-> left(q)]]
  BY DEF EraseOrphanTx
<1>2. /\ DOMAIN e.orphans = DOMAIN w.orphans \ S /\ DOMAIN e.byPrev = D
      /\ \A t \in DOMAIN e.orphans : e.orphans[t] = w.orphans[t]
      /\ \A q \in D : e.byPrev[q] = left(q)
  <2> HIDE DEF D, left
  <2> QED BY <1>1
<1> HIDE DEF e
<1>3. \A q \in DOMAIN w.byPrev : left(q) = {t \in DOMAIN w.orphans \ S : q \in Parents(t)}
  BY DEF Indexed
<1>4. D = UNION {Parents(t) : t \in DOMAIN w.orphans \ S}
  <2>1. ASSUME NEW q \in D  PROVE \E t \in DOMAIN w.orphans \ S : q \in Parents(t)
    BY <1>3
  <2>2. ASSUME NEW t \in DOMAIN w.orphans \ S, NEW q \in Parents(t)  PROVE q \in D
    <3>1. q \in DOMAIN w.byPrev
      BY DEF Indexed
    <3>2. t \in left(q)
      <4> HIDE DEF left
      <4> QED BY <1>3, <3>1
    <3> QED BY <3>1, <3>2
  <2> HIDE DEF D
  <2> QED BY <2>1, <2>2
<1>5. \A q \in D : q \in DOMAIN w.byPrev
  OBVIOUS
<1> HIDE DEF D, left
<1>6. Indexed(e)
  BY <1>2, <1>3, <1>4, <1>5 DEF Indexed
<1>7. OrphansType(w) => OrphansType(e)
  BY <1>2 DEF OrphansType
<1> QED
  BY <1>2, <1>6, <1>7 DEF e

LEMMA AddHolds ==
  ASSUME Indexed(Waiting), OrphansType(Waiting), NEW t \in Tx \ Minted, NEW p \in Peer,
         t \notin DOMAIN orphans
  PROVE  /\ Indexed(AddOrphanTx(t, p)) /\ OrphansType(AddOrphanTx(t, p))
<1> DEFINE more(q) == (IF q \in DOMAIN byPrev THEN byPrev[q] ELSE {})
                          \cup (IF q \in Parents(t) THEN {t} ELSE {})
           w == AddOrphanTx(t, p)
<1>1. w = [orphans |-> [o \in DOMAIN orphans \cup {t} |-> IF o = t THEN p ELSE orphans[o]],
           byPrev |-> [q \in DOMAIN byPrev \cup Parents(t) |-> more(q)]]
  BY DEF AddOrphanTx
<1>2. /\ DOMAIN w.orphans = DOMAIN orphans \cup {t}
      /\ DOMAIN w.byPrev = DOMAIN byPrev \cup Parents(t)
      /\ \A q \in DOMAIN w.byPrev : w.byPrev[q] = more(q)
      /\ \A o \in DOMAIN w.orphans : w.orphans[o] = IF o = t THEN p ELSE orphans[o]
  <2> HIDE DEF more
  <2> QED BY <1>1
<1> HIDE DEF w
<1>3. /\ DOMAIN byPrev = UNION {Parents(o) : o \in DOMAIN orphans}
      /\ \A q \in DOMAIN byPrev : byPrev[q] = {o \in DOMAIN orphans : q \in Parents(o)}
  BY DEF Indexed, Waiting
<1>4. ASSUME NEW q \in DOMAIN w.byPrev
      PROVE  w.byPrev[q] = {o \in DOMAIN w.orphans : q \in Parents(o)}
  <2>1. CASE q \in DOMAIN byPrev
    BY <1>2, <1>3, <2>1
  <2>2. CASE q \notin DOMAIN byPrev
    <3>1. \A o \in DOMAIN orphans : q \notin Parents(o)
      BY <1>3, <2>2
    <3> QED BY <1>2, <2>2, <3>1
  <2> QED BY <2>1, <2>2
<1>5. DOMAIN w.byPrev = UNION {Parents(o) : o \in DOMAIN w.orphans}
  <2>1. UNION {Parents(o) : o \in DOMAIN orphans \cup {t}}
          = (UNION {Parents(o) : o \in DOMAIN orphans}) \cup Parents(t)
    OBVIOUS
  <2> QED BY <1>2, <1>3, <2>1
<1>6. OrphansType(w)
  BY <1>2 DEF OrphansType, Waiting
<1> QED
  BY <1>4, <1>5, <1>6 DEF Indexed, w

LEMMA LimitHolds ==
  ASSUME NEW S \in SUBSET Tx, NEW E \in LimitOrphanTxSize(S)
  PROVE  Cardinality(S \ E) <= MaxOrphans
<1>1. /\ IsFiniteSet(S) /\ E \in SUBSET S
      /\ Cardinality(E) = IF Cardinality(S) > MaxOrphans THEN Cardinality(S) - MaxOrphans ELSE 0
  BY OrderHolds, FS_Subset DEF LimitOrphanTxSize
<1>2. IsFiniteSet(E) /\ Cardinality(S) \in Nat /\ Cardinality(E) \in Nat /\ MaxOrphans \in Nat
  BY <1>1, FS_Subset, FS_CardinalityType, MemPoolAssumption
<1>3. Cardinality(S \ E) = Cardinality(S) - Cardinality(S \cap E)
  BY <1>1, <1>2, FS_Difference
<1>4. S \cap E = E
  BY <1>1
<1>5. Cardinality(S \ E) = Cardinality(S) - Cardinality(E)
  BY <1>3, <1>4
<1> QED
  BY <1>1, <1>2, <1>5

-----------------------------------------------------------------------------
(* The work queue of the handler of "tx". *)

\* The states of the loops: a good pool with all that was there.
Works(old) ==
    [pool : {s \in Pools : GoodPool(s, chain) /\ old \subseteq s.mapTx},
     work : Seq(Tx), erase : SUBSET Tx, misbehaving : SUBSET Peer]

LEMMA TryOrphanHolds ==
  ASSUME ChainOK(chain), OrphansType(Waiting), NEW old, NEW verdict,
         NEW s \in Works(old), NEW t \in DOMAIN orphans
  PROVE  TryOrphan(s, t, verdict) \in Works(old)
<1>1. t \in Tx /\ orphans[t] \in Peer
  BY DEF OrphansType, Waiting
<1>2. /\ s = [pool |-> s.pool, work |-> s.work, erase |-> s.erase, misbehaving |-> s.misbehaving]
      /\ s.pool \in Pools /\ GoodPool(s.pool, chain) /\ old \subseteq s.pool.mapTx
      /\ s.work \in Seq(Tx) /\ s.erase \in SUBSET Tx /\ s.misbehaving \in SUBSET Peer
  BY DEF Works
<1> DEFINE v == verdict[t]
           bad == IF Punished(s.pool, chain, t, v) THEN {orphans[t]} ELSE {}
           taken == [s EXCEPT !.pool = Unchecked(@, t), !.work = Append(@, t), !.erase = @ \cup {t}]
           refused == [s EXCEPT !.erase = @ \cup {t}, !.misbehaving = @ \cup bad]
<1>3. ASSUME Accepted(s.pool, chain, t, v)  PROVE taken \in Works(old)
  <2>1. /\ GoodPool(Unchecked(s.pool, t), chain)
        /\ Unchecked(s.pool, t).mapTx = s.pool.mapTx \cup {t}
    BY <1>1, <1>2, <1>3, AcceptKeeps
  <2>2. Append(s.work, t) \in Seq(Tx)
    BY <1>1, <1>2
  <2> DEFINE p == Unchecked(s.pool, t)
             w == Append(s.work, t)
             e == s.erase \cup {t}
  <2>3. /\ p \in {q \in Pools : GoodPool(q, chain) /\ old \subseteq q.mapTx}
        /\ w \in Seq(Tx) /\ e \in SUBSET Tx
    BY <1>1, <1>2, <2>1, <2>2 DEF GoodPool
  <2>4. taken = [s EXCEPT !.pool = p, !.work = w, !.erase = e]
    OBVIOUS
  <2> HIDE DEF taken, p, w, e
  <2> QED BY <2>3, <2>4 DEF Works
<1>4. refused \in Works(old)
  <2> DEFINE e == s.erase \cup {t}
             m == s.misbehaving \cup bad
  <2>1. e \in SUBSET Tx /\ m \in SUBSET Peer
    BY <1>1, <1>2
  <2>2. refused = [s EXCEPT !.erase = e, !.misbehaving = m]
    OBVIOUS
  <2> HIDE DEF refused, e, m
  <2> QED BY <2>1, <2>2 DEF Works
<1>5. \/ TryOrphan(s, t, verdict) = s
      \/ TryOrphan(s, t, verdict) = taken /\ Accepted(s.pool, chain, t, v)
      \/ TryOrphan(s, t, verdict) = refused
  BY DEF TryOrphan
<1> HIDE DEF taken, refused
<1> QED
  BY <1>3, <1>4, <1>5

\* g takes that step wherever it is in S.
Follows(g, n, S, base, step) ==
    /\ g[{}] = base
    /\ \A i \in 1 .. n : g[1 .. (i - 1)] \in S => g[1 .. i] = step[<<g[1 .. (i - 1)], i>>]

\* A fold whose steps stay in S ends there.
LEMMA FoldStays ==
  ASSUME NEW n \in Nat, NEW S, NEW base \in S, NEW step \in [S \X (1 .. n) -> S], NEW g,
         Follows(g, n, S, base, step)
  PROVE  g[1 .. n] \in S
<1> DEFINE D == {i \in 0 .. n : g[1 .. i] \in S}
<1>1. 0 \in D
  <2>1. 1 .. 0 = {}
    OBVIOUS
  <2> QED BY <2>1 DEF Follows
<1>2. ASSUME NEW i \in 1 .. n, i - 1 \in D  PROVE i \in D
  <2>1. g[1 .. (i - 1)] \in S
    BY <1>2
  <2>2. g[1 .. i] = step[<<g[1 .. (i - 1)], i>>]
    BY <2>1 DEF Follows
  <2>3. g[1 .. i] \in S
    BY <2>1, <2>2
  <2> QED BY <2>3
<1>3. \A i \in 0 .. n : i \in D
  <2> HIDE DEF D
  <2> QED BY <1>1, <1>2, CountingUp
<1> QED
  BY <1>3, n \in 0 .. n

LEMMA TryWaitingHolds ==
  ASSUME ChainOK(chain), OrphansType(Waiting), Indexed(Waiting), NEW old, NEW verdict,
         NEW s \in Works(old), NEW i \in Nat \ {0}
  PROVE  TryWaiting(s, i, verdict) \in Works(old)
<1> DEFINE at == s.work[i]
           Put(r, t) == IF t \in byPrev[at] THEN TryOrphan(r, t, verdict) ELSE r
           P(g) == g = [x \in SUBSET DOMAIN HashOrder |->
                           IF x = {} THEN s ELSE Put(g[x \ {Max(x)}], HashOrder[Max(x)])]
           G == CHOOSE g : P(g)
           W == Works(old)
           step == [p \in W \X (1 .. N) |-> Put(p[1], HashOrder[p[2]])]
<1>1. CASE i > Len(s.work) \/ at \notin DOMAIN byPrev
  BY <1>1 DEF TryWaiting
<1>2. CASE ~(i > Len(s.work) \/ at \notin DOMAIN byPrev)
  <2>1. TryWaiting(s, i, verdict) = G[DOMAIN HashOrder]
    BY <1>2 DEF TryWaiting, FoldLeft, MapThenFoldSet
  <2>2. byPrev[at] \subseteq DOMAIN orphans
    BY <1>2 DEF Indexed, Waiting
  <2>3. \A r \in W, t \in Tx : Put(r, t) \in W
    BY <2>2, TryOrphanHolds
  <2> HIDE DEF Put
  <2>4. step \in [W \X (1 .. N) -> W]
    <3> HIDE DEF W
    <3> QED BY <2>3, OrderHolds
  <2> HIDE DEF W
  <2>5. PICK f : IsFold(f, N, W, s, step)
    <3> HIDE DEF step
    <3> QED BY <2>4, FoldExists, OrderHolds DEF W
  <2>6. P(f)
    <3>1. ASSUME NEW x \in SUBSET (1 .. N), x # {}
          PROVE  f[x] = Put(f[x \ {Max(x)}], HashOrder[Max(x)])
      <4>1. Max(x) \in 1 .. N /\ f[x \ {Max(x)}] \in W
        BY <2>5, <3>1, MaxIs, OrderHolds DEF IsFold
      <4>2. f[x] = step[<<f[x \ {Max(x)}], Max(x)>>]
        BY <2>5, <3>1 DEF IsFold
      <4> QED BY <4>1, <4>2
    <3> QED BY <2>5, <3>1, OrderHolds DEF IsFold
  <2>7. P(G)
    <3> HIDE DEF P
    <3> QED BY <2>6
  <2> HIDE DEF G
  <2>8. G[{}] = s
    <3>1. {} \in SUBSET DOMAIN HashOrder
      OBVIOUS
    <3> QED BY <2>7, <3>1
  <2>9. ASSUME NEW j \in 1 .. N, G[1 .. (j - 1)] \in W
        PROVE  G[1 .. j] = step[<<G[1 .. (j - 1)], j>>]
    <3>1. /\ Max(1 .. j) = j /\ (1 .. j) \ {j} = 1 .. (j - 1)
          /\ 1 .. j \in SUBSET DOMAIN HashOrder /\ 1 .. j # {}
      BY MaxOfInterval, OrderHolds
    <3>2. G[1 .. j] = Put(G[(1 .. j) \ {Max(1 .. j)}], HashOrder[Max(1 .. j)])
      BY <2>7, <3>1
    <3>3. G[1 .. j] = Put(G[1 .. (j - 1)], HashOrder[j])
      BY <3>1, <3>2
    <3> QED BY <2>9, <3>3
  <2>10. G[1 .. N] \in W
    <3> HIDE DEF step
    <3>1. Follows(G, N, W, s, step)
      BY <2>8, <2>9 DEF Follows
    <3>2. s \in W
      BY DEF W
    <3> QED BY <2>4, <3>1, <3>2, FoldStays, OrderHolds
  <2> QED BY <2>1, <2>10, OrderHolds DEF W
<1> QED
  BY <1>1, <1>2

LEMMA WorkOffHolds ==
  ASSUME ChainOK(chain), OrphansType(Waiting), Indexed(Waiting), GoodPool(Pool, chain),
         NEW t \in Tx, NEW v, Accepted(Pool, chain, t, v), NEW verdict
  PROVE  WorkOff(t, verdict) \in Works(pool)
<1> DEFINE seq == [i \in 1 .. Cardinality(Tx) |-> i]
           base == [pool |-> Unchecked(Pool, t), work |-> <<t>>, erase |-> {}, misbehaving |-> {}]
           P(g) == g = [x \in SUBSET DOMAIN seq |->
                           IF x = {} THEN base ELSE TryWaiting(g[x \ {Max(x)}], seq[Max(x)], verdict)]
           G == CHOOSE g : P(g)
           W == Works(pool)
           step == [p \in W \X (1 .. N) |-> TryWaiting(p[1], p[2], verdict)]
<1>1. WorkOff(t, verdict) = G[DOMAIN seq]
  BY DEF WorkOff, FoldLeft, MapThenFoldSet
<1>2. base \in W
  <2>1. GoodPool(Unchecked(Pool, t), chain) /\ Unchecked(Pool, t).mapTx = pool \cup {t}
    BY AcceptKeeps DEF Pool
  <2>2. Unchecked(Pool, t) \in Pools /\ <<t>> \in Seq(Tx)
    BY <2>1 DEF GoodPool
  <2> QED BY <2>1, <2>2 DEF Works
<1>3. DOMAIN seq = 1 .. N /\ \A i \in 1 .. N : seq[i] = i
  BY DEF N
<1> HIDE DEF seq, base
<1>4. step \in [W \X (1 .. N) -> W]
  BY TryWaitingHolds, OrderHolds
<1> HIDE DEF W
<1>5. PICK f : IsFold(f, N, W, base, step)
  <2> HIDE DEF step
  <2> QED BY <1>2, <1>4, FoldExists, OrderHolds
<1>6. P(f)
  <2>1. ASSUME NEW x \in SUBSET (1 .. N), x # {}
        PROVE  f[x] = TryWaiting(f[x \ {Max(x)}], seq[Max(x)], verdict)
    <3>1. Max(x) \in 1 .. N /\ f[x \ {Max(x)}] \in W
      BY <1>5, <2>1, MaxIs, OrderHolds DEF IsFold
    <3>2. f[x] = step[<<f[x \ {Max(x)}], Max(x)>>]
      BY <1>5, <2>1 DEF IsFold
    <3> QED BY <1>3, <3>1, <3>2
  <2> QED BY <1>3, <1>5, <2>1 DEF IsFold
<1>7. P(G)
  <2> HIDE DEF P
  <2> QED BY <1>6
<1> HIDE DEF G
<1>8. G[{}] = base
  <2>1. {} \in SUBSET DOMAIN seq
    OBVIOUS
  <2> QED BY <1>7, <2>1
<1>9. ASSUME NEW j \in 1 .. N, G[1 .. (j - 1)] \in W
      PROVE  G[1 .. j] = step[<<G[1 .. (j - 1)], j>>]
  <2>1. /\ Max(1 .. j) = j /\ (1 .. j) \ {j} = 1 .. (j - 1)
        /\ 1 .. j \in SUBSET DOMAIN seq /\ 1 .. j # {}
    BY <1>3, MaxOfInterval, OrderHolds
  <2>2. G[1 .. j] = TryWaiting(G[(1 .. j) \ {Max(1 .. j)}], seq[Max(1 .. j)], verdict)
    BY <1>7, <2>1
  <2>3. G[1 .. j] = TryWaiting(G[1 .. (j - 1)], j, verdict)
    BY <1>3, <2>1, <2>2
  <2> QED BY <1>9, <2>3
<1>10. G[1 .. N] \in W
  <2> HIDE DEF step
  <2>1. Follows(G, N, W, base, step)
    BY <1>8, <1>9 DEF Follows
  <2> QED BY <1>2, <1>4, <2>1, FoldStays, OrderHolds
<1> QED
  BY <1>1, <1>3, <1>10 DEF W

-----------------------------------------------------------------------------
(* The invariant is inductive. *)

\* The step of LeavesForCause.
Leaves ==
    \A t \in pool \ pool' :
        \/ pool' = {} /\ UNCHANGED chain
        \/ t \in Mined(chain')
        \/ \E o \in Inputs[t] : Of[o] \notin pool' /\ ~Spendable(chain', o)

LEMMA InvGives ==
  ASSUME IInv
  PROVE  /\ ChainOK(chain) /\ Len(chain) \in 1 .. MaxHeight /\ chain \in Seq(SUBSET Tx)
         /\ GoodPool(Pool, chain) /\ Pool.mapTx = pool
         /\ SetPool(Pool) <=> UNCHANGED <<pool, next>>
         /\ Indexed(Waiting) /\ OrphansType(Waiting)
         /\ SetWaiting(Waiting) <=> UNCHANGED <<orphans, byPrev>>
         /\ Cardinality(DOMAIN Waiting.orphans) <= MaxOrphans
         /\ DOMAIN Waiting.orphans = DOMAIN orphans
  BY DEF IInv, TypeOK, OrphansIndexed, Indexed, OrphansType, Waiting, Pool, SetPool, SetWaiting

\* The invariant after a step, from what the step puts into the variables.
LEMMA InvAfter ==
  ASSUME ChainOK(chain'), Len(chain') \in 1 .. MaxHeight,
         NEW s, GoodPool(s, chain'), SetPool(s),
         NEW w, OrphansType(w), Indexed(w), SetWaiting(w),
         Cardinality(DOMAIN w.orphans) <= MaxOrphans
  PROVE  IInv'
<1>1. pool' = s.mapTx /\ next' = s.mapNextTx /\ s \in Pools
  BY DEF SetPool, GoodPool
<1>2. s = [mapTx |-> pool', mapNextTx |-> next']
  BY <1>1 DEF Pools
<1>3. GoodPool(Pool, chain)'
  BY <1>2 DEF Pool
<1>4. orphans' = w.orphans /\ byPrev' = w.byPrev
  BY DEF SetWaiting
<1>5. OrphansIndexed'
  BY <1>4 DEF OrphansIndexed, Indexed
<1>6. TypeOK'
  <2>1. chain' \in Seq(SUBSET Tx)
    BY DEF ChainOK
  <2>2. pool' \in SUBSET (Tx \ Minted)
    BY <1>1 DEF Pools
  <2>3. DOMAIN next' \subseteq Output /\ \A o \in DOMAIN next' : next'[o] \in Tx
    BY <1>1 DEF Pools, PartialMaps
  <2>4. /\ DOMAIN orphans' \subseteq Tx \ Minted /\ \A t \in DOMAIN orphans' : orphans'[t] \in Peer
        /\ Cardinality(DOMAIN orphans') <= MaxOrphans
    BY <1>4 DEF OrphansType
  <2> QED BY <2>1, <2>2, <2>3, <2>4 DEF TypeOK
<1>7. ChainOK(chain)'
  OBVIOUS
<1> QED
  BY <1>3, <1>5, <1>6, <1>7 DEF IInv

LEMMA InitHolds == Init => IInv
<1> SUFFICES ASSUME Init  PROVE IInv
  OBVIOUS
<1>1. /\ chain = <<{Base}>> /\ Pool = [mapTx |-> {}, mapNextTx |-> <<>>]
      /\ orphans = <<>> /\ byPrev = <<>> /\ pool = {} /\ next = <<>>
  BY DEF Init, Pool
<1>2. DOMAIN <<>> = {} /\ <<>> \in [{} -> Tx]
  OBVIOUS
<1>3. Base \in Tx /\ Inputs[Base] = {} /\ MaxHeight \in Nat \ {0} /\ MaxOrphans \in Nat
  BY MemPoolAssumption
<1>4. chain \in Seq(SUBSET Tx) /\ Len(chain) = 1 /\ DOMAIN chain = {1} /\ chain[1] = {Base}
  BY <1>1, <1>3
<1>5. ChainOK(chain)
  BY <1>3, <1>4 DEF ChainOK
<1>6. GoodPool(Pool, chain)
  <2>1. Pool \in Pools
    <3>1. <<>> \in PartialMaps
      BY <1>2 DEF PartialMaps
    <3> QED BY <1>1, <3>1 DEF Pools
  <2>2. Pool.mapTx = {} /\ Pool.mapNextTx = <<>>
    BY <1>1
  <2> QED BY <1>2, <2>1, <2>2 DEF GoodPool, Exact, Apart, Supplied
<1>7. OrphansIndexed
  BY <1>1, <1>2 DEF OrphansIndexed
<1>8. TypeOK
  <2>1. Cardinality(DOMAIN orphans) = 0
    BY <1>1, <1>2, FS_EmptySet
  <2> QED BY <1>1, <1>2, <1>3, <1>4, <2>1 DEF TypeOK
<1> QED
  BY <1>5, <1>6, <1>7, <1>8 DEF IInv

LEMMA AcceptStep ==
  ASSUME IInv, NEW t \in Tx, AcceptToMemoryPool(t)
  PROVE  IInv' /\ Leaves
<1>1. /\ GoodPool(Unchecked(Pool, t), chain) /\ Unchecked(Pool, t).mapTx = pool \cup {t}
      /\ SetPool(Unchecked(Pool, t)) /\ chain' = chain /\ SetWaiting(Waiting)
  BY InvGives, AcceptKeeps DEF AcceptToMemoryPool
<1>2. IInv'
  BY <1>1, InvGives, InvAfter
<1>3. pool \subseteq pool'
  BY <1>1 DEF SetPool
<1> QED
  BY <1>2, <1>3 DEF Leaves

LEMMA ReceiveStep ==
  ASSUME IInv, NEW p \in Peer, NEW t \in Tx, ReceiveTx(p, t)
  PROVE  IInv' /\ Leaves
<1>1. CASE /\ Accepted(Pool, chain, t, "good")
           /\ \E verdict \in [DOMAIN orphans -> Verdict] :
                 LET done == WorkOff(t, verdict)
                 IN  /\ SetPool(done.pool)
                     /\ SetWaiting(EraseOrphanTx(Waiting, done.erase))
  <2>1. PICK verdict \in [DOMAIN orphans -> Verdict] :
           /\ SetPool(WorkOff(t, verdict).pool)
           /\ SetWaiting(EraseOrphanTx(Waiting, WorkOff(t, verdict).erase))
    BY <1>1
  <2> DEFINE done == WorkOff(t, verdict)
             w == EraseOrphanTx(Waiting, done.erase)
  <2>2. done \in Works(pool)
    BY <1>1, InvGives, WorkOffHolds
  <2>3. GoodPool(done.pool, chain) /\ pool \subseteq done.pool.mapTx /\ chain' = chain
    BY <2>2 DEF Works, ReceiveTx
  <2>4. /\ Indexed(w) /\ OrphansType(w) /\ DOMAIN w.orphans = DOMAIN orphans \ done.erase
    BY InvGives, EraseHolds
  <2>5. Cardinality(DOMAIN w.orphans) <= MaxOrphans
    <3>1. IsFiniteSet(DOMAIN orphans) /\ Cardinality(DOMAIN orphans) <= MaxOrphans
      BY OrderHolds, FS_Subset DEF IInv, TypeOK
    <3>2. DOMAIN w.orphans \in SUBSET DOMAIN orphans
      BY <2>4
    <3>3. Cardinality(DOMAIN w.orphans) <= Cardinality(DOMAIN orphans) /\ IsFiniteSet(DOMAIN w.orphans)
      <4> HIDE DEF w
      <4> QED BY <3>1, <3>2, FS_Subset
    <3>4. Cardinality(DOMAIN w.orphans) \in Nat /\ Cardinality(DOMAIN orphans) \in Nat /\ MaxOrphans \in Nat
      <4> HIDE DEF w
      <4> QED BY <3>1, <3>3, FS_CardinalityType, MemPoolAssumption
    <3> HIDE DEF w
    <3> QED BY <3>1, <3>3, <3>4
  <2>6. SetPool(done.pool) /\ SetWaiting(w)
    BY <2>1
  <2> HIDE DEF done, w
  <2>7. IInv'
    BY <2>3, <2>4, <2>5, <2>6, InvGives, InvAfter
  <2>8. pool \subseteq pool'
    BY <2>3, <2>6 DEF SetPool
  <2> QED BY <2>7, <2>8 DEF Leaves
<1>2. CASE /\ Orphaned(Pool, chain, t, "good")
           /\ LET kept == IF t \in DOMAIN orphans THEN Waiting ELSE AddOrphanTx(t, p)
              IN  \E S \in LimitOrphanTxSize(DOMAIN kept.orphans) :
                     SetWaiting(EraseOrphanTx(kept, S))
           /\ UNCHANGED <<pool, next>>
  <2> DEFINE kept == IF t \in DOMAIN orphans THEN Waiting ELSE AddOrphanTx(t, p)
  <2>1. PICK S \in LimitOrphanTxSize(DOMAIN kept.orphans) : SetWaiting(EraseOrphanTx(kept, S))
    BY <1>2
  <2>2. t \notin Minted /\ chain' = chain /\ SetPool(Pool)
    BY <1>2, InvGives DEF Orphaned, ReceiveTx
  <2>3. Indexed(kept) /\ OrphansType(kept)
    BY <2>2, InvGives, AddHolds
  <2> HIDE DEF kept
  <2> DEFINE w == EraseOrphanTx(kept, S)
             O == DOMAIN kept.orphans
  <2>4. /\ Indexed(w) /\ OrphansType(w) /\ DOMAIN w.orphans = O \ S
    BY <2>3, EraseHolds
  <2>5. Cardinality(DOMAIN w.orphans) <= MaxOrphans
    <3>1. O \in SUBSET Tx /\ S \in LimitOrphanTxSize(O)
      BY <2>1, <2>3 DEF OrphansType
    <3> HIDE DEF O, w
    <3>2. Cardinality(O \ S) <= MaxOrphans
      BY <3>1, LimitHolds
    <3> QED BY <2>4, <3>2
  <2>6. SetWaiting(w)
    BY <2>1
  <2> HIDE DEF w
  <2>7. IInv'
    BY <2>2, <2>4, <2>5, <2>6, InvGives, InvAfter
  <2>8. pool' = pool
    BY <1>2
  <2> QED BY <2>7, <2>8 DEF Leaves
<1> QED
  BY <1>1, <1>2 DEF ReceiveTx

LEMMA PeerGoneStep ==
  ASSUME IInv, NEW p \in Peer, PeerGone(p)
  PROVE  IInv' /\ Leaves
<1> DEFINE S == {t \in DOMAIN orphans : orphans[t] = p}
           w == EraseOrphanTx(Waiting, S)
<1>1. SetWaiting(w) /\ chain' = chain /\ pool' = pool /\ SetPool(Pool)
  BY InvGives DEF PeerGone
<1>2. Indexed(w) /\ OrphansType(w) /\ DOMAIN w.orphans = DOMAIN orphans \ S
  <2> HIDE DEF S
  <2> QED BY InvGives, EraseHolds
<1> HIDE DEF w, S
<1>3. Cardinality(DOMAIN w.orphans) <= MaxOrphans
  <2>1. IsFiniteSet(DOMAIN orphans) /\ Cardinality(DOMAIN orphans) <= MaxOrphans
    BY OrderHolds, FS_Subset DEF IInv, TypeOK
  <2>2. DOMAIN w.orphans \in SUBSET DOMAIN orphans
    BY <1>2
  <2>3. Cardinality(DOMAIN w.orphans) <= Cardinality(DOMAIN orphans) /\ IsFiniteSet(DOMAIN w.orphans)
    BY <2>1, <2>2, FS_Subset
  <2>4. Cardinality(DOMAIN w.orphans) \in Nat /\ Cardinality(DOMAIN orphans) \in Nat /\ MaxOrphans \in Nat
    BY <2>1, <2>3, FS_CardinalityType, MemPoolAssumption
  <2> QED BY <2>1, <2>3, <2>4
<1>4. IInv'
  BY <1>1, <1>2, <1>3, InvGives, InvAfter
<1> QED
  BY <1>1, <1>4 DEF Leaves

LEMMA ConnectStep ==
  ASSUME IInv, NEW mint \in Minted \ Mined(chain),
         NEW txs \in SUBSET (Tx \ (Minted \cup Mined(chain))), ConnectTip(mint, txs)
  PROVE  IInv' /\ Leaves
<1> DEFINE block == {mint} \cup txs
           left == RemoveForBlock(Pool, block)
<1>1. /\ Len(chain) < MaxHeight /\ ValidBlock(mint, txs) /\ chain' = Append(chain, block)
      /\ SetPool(left) /\ SetWaiting(Waiting)
  BY InvGives DEF ConnectTip
<1>2. block \in SUBSET Tx /\ Mined(chain) \cap block = {}
  BY MemPoolAssumption
<1>3. ASSUME NEW t \in block, NEW o \in Inputs[t]  PROVE Of[o] \in Mined(chain) \cup block
  <2>1. o \in Unspent(chain) \/ Of[o] \in txs
    BY <1>1 DEF ValidBlock
  <2> QED BY <2>1 DEF Unspent
<1> HIDE DEF block, left
<1>4. ChainOK(chain') /\ Len(chain') = Len(chain) + 1
  BY <1>1, <1>2, <1>3, InvGives, AppendHolds
<1>5. Len(chain') \in 1 .. MaxHeight
  BY <1>1, <1>4, InvGives, MemPoolAssumption
<1>6. /\ GoodPool(left, chain')
      /\ \A t \in pool \ left.mapTx :
            t \in Mined(chain') \/ \E o \in Inputs[t] :
                                      Of[o] \notin left.mapTx /\ ~Spendable(chain', o)
  <2>1. LET l == RemoveForBlock(Pool, block)
            d == Append(chain, block)
        IN  /\ GoodPool(l, d)
            /\ \A t \in Pool.mapTx \ l.mapTx :
                  t \in Mined(d) \/ \E o \in Inputs[t] : Of[o] \notin l.mapTx /\ ~Spendable(d, o)
    BY <1>2, <1>3, InvGives, RemoveForBlockHolds
  <2> QED BY <1>1, <2>1, InvGives DEF left
<1>7. IInv'
  BY <1>1, <1>4, <1>5, <1>6, InvGives, InvAfter
<1>8. pool' = left.mapTx
  BY <1>1 DEF SetPool
<1> QED
  BY <1>6, <1>7, <1>8 DEF Leaves

LEMMA DisconnectStep ==
  ASSUME IInv, DisconnectTip
  PROVE  IInv' /\ Leaves
<1> DEFINE f == Front(chain)
           block == Last(chain)
<1>1. PICK refused \in SUBSET (block \ Minted) :
         /\ chain' = f
         /\ SetPool(RemoveCoinbaseSpends(Refilled(Pool, f, block, refused), f))
  BY DEF DisconnectTip
<1>2. Len(chain) > 1 /\ SetWaiting(Waiting)
  BY InvGives DEF DisconnectTip
<1>3. /\ ChainOK(f) /\ Len(f) = Len(chain) - 1 /\ block \in SUBSET Tx
  BY <1>2, InvGives, FrontHolds
<1> DEFINE s == Refilled(Pool, f, block, refused)
           left == RemoveCoinbaseSpends(s, f)
<1>4. Refilling(s, N, Pool.mapTx, f, block)
  BY <1>2, InvGives, RefilledHolds
<1> HIDE DEF s, f, block
<1>5. /\ GoodPool(left, f)
      /\ \A t \in pool \ left.mapTx : \E o \in Inputs[t] :
            Of[o] \notin left.mapTx /\ ~Spendable(f, o)
  BY <1>3, <1>4, InvGives, RemoveCoinbaseSpendsHolds
<1>6. SetPool(left)
  BY <1>1 DEF s
<1> HIDE DEF left
<1>7. Len(chain') \in 1 .. MaxHeight
  BY <1>1, <1>2, <1>3, InvGives, MemPoolAssumption
<1>8. IInv'
  BY <1>1, <1>2, <1>3, <1>5, <1>6, <1>7, InvGives, InvAfter
<1>9. pool' = left.mapTx /\ chain' = f
  BY <1>1, <1>6 DEF SetPool
<1> QED
  BY <1>5, <1>8, <1>9 DEF Leaves

LEMMA ClearStep ==
  ASSUME IInv, Clear
  PROVE  IInv' /\ Leaves
<1> DEFINE s == [mapTx |-> {}, mapNextTx |-> <<>>]
<1>1. SetPool(s) /\ SetWaiting(Waiting) /\ chain' = chain /\ pool' = {}
  BY InvGives DEF Clear, SetPool
<1>2. DOMAIN <<>> = {} /\ <<>> \in [{} -> Tx]
  OBVIOUS
<1>3. GoodPool(s, chain)
  <2>1. s \in Pools
    <3>1. <<>> \in PartialMaps
      BY <1>2 DEF PartialMaps
    <3> QED BY <3>1 DEF Pools
  <2>2. s.mapTx = {} /\ s.mapNextTx = <<>>
    OBVIOUS
  <2> HIDE DEF s
  <2> QED BY <1>2, <2>1, <2>2 DEF GoodPool, Exact, Apart, Supplied
<1> HIDE DEF s
<1>4. IInv'
  BY <1>1, <1>3, InvGives, InvAfter
<1> QED
  BY <1>1, <1>4 DEF Leaves

LEMMA StepHolds == IInv /\ [Next]_vars => IInv' /\ [Leaves]_vars
<1> SUFFICES ASSUME IInv, [Next]_vars  PROVE IInv' /\ [Leaves]_vars
  OBVIOUS
<1>1. ASSUME NEW t \in Tx, AcceptToMemoryPool(t)  PROVE IInv' /\ Leaves
  BY <1>1, AcceptStep
<1>2. ASSUME NEW p \in Peer, NEW t \in Tx, ReceiveTx(p, t)  PROVE IInv' /\ Leaves
  BY <1>2, ReceiveStep
<1>3. ASSUME NEW p \in Peer, PeerGone(p)  PROVE IInv' /\ Leaves
  BY <1>3, PeerGoneStep
<1>4. ASSUME NEW mint \in Minted \ Mined(chain),
             NEW txs \in SUBSET (Tx \ (Minted \cup Mined(chain))), ConnectTip(mint, txs)
      PROVE  IInv' /\ Leaves
  BY <1>4, ConnectStep
<1>5. ASSUME DisconnectTip  PROVE IInv' /\ Leaves
  BY <1>5, DisconnectStep
<1>6. ASSUME Clear  PROVE IInv' /\ Leaves
  BY <1>6, ClearStep
<1>7. CASE UNCHANGED vars
  <2>1. /\ chain' = chain /\ SetPool(Pool) /\ SetWaiting(Waiting)
    BY <1>7, InvGives DEF vars
  <2>2. IInv'
    BY <2>1, InvGives, InvAfter
  <2> QED BY <1>7, <2>2
<1> QED
  BY <1>1, <1>2, <1>3, <1>4, <1>5, <1>6, <1>7 DEF Next

LEMMA Invariance == Spec => []IInv
<1>1. Init => IInv
  BY InitHolds
<1>2. IInv /\ [Next]_vars => IInv'
  BY StepHolds
<1> QED
  BY <1>1, <1>2, PTL DEF Spec

-----------------------------------------------------------------------------
(* What the invariant says of the code. *)

\* The maps of the pool and of the orphans have the types of their declarations,
\* the chain is not empty, and no more orphans wait than -maxorphantx allows, after
\* any series of messages, blocks and reorganisations.
THEOREM TypeCorrect == Spec => []TypeOK
<1>1. IInv => TypeOK
  BY DEF IInv
<1> QED
  BY <1>1, Invariance, PTL

\* The assertions of CTxMemPool::check hold whenever cs_main is free: each input of
\* a pooled transaction is an output of the pool or an unspent, mature coin of the
\* chain, and mapNextTx holds the spends of the pool and nothing else - however
\* many blocks come and go, for any set of transactions and any maturity.
THEOREM CheckAlwaysPasses == Spec => []CheckPasses
<1>1. IInv => CheckPasses
  BY DEF IInv, CheckPasses, GoodPool, Exact, Supplied, Pool
<1> QED
  BY <1>1, Invariance, PTL

\* mapOrphanTransactionsByPrev names the orphans, each under all its parents, and
\* nobody else: the handler of "tx" never reads an entry that is not there.
THEOREM OrphansAgree == Spec => []OrphansIndexed
<1>1. IInv => OrphansIndexed
  BY DEF IInv
<1> QED
  BY <1>1, Invariance, PTL

\* No step but the miner's clear takes a transaction out of the pool that was not
\* mined and whose inputs are all still to be had on the chain that is left.
THEOREM NothingLeavesWithoutCause == Spec => LeavesForCause
<1>1. IInv /\ [Next]_vars => [Leaves]_vars
  BY StepHolds
<1>2. IInv /\ [Next]_vars => IInv'
  BY StepHolds
<1>3. Init => IInv
  BY InitHolds
<1> QED
  BY <1>1, <1>2, <1>3, PTL DEF Spec, LeavesForCause, Leaves
=============================================================================
