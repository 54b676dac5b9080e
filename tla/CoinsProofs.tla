----------------------------- MODULE CoinsProofs -----------------------------
(***************************************************************************)
(* The coins views implement three plain maps, and BatchWrite's assertion  *)
(* never fails, for any set of transactions, coins and blocks.             *)
(*                                                                         *)
(* The flags of an entry are a claim about the cache below.  The invariant *)
(* says that every claim is true, and that an entry of the view that is not*)
(* FRESH has its counterpart in pcoinsTip.                                 *)
(***************************************************************************)
EXTENDS Coins, TLAPS

IInv == TypeOK /\ FreshIsNew /\ CleanIsUnchanged /\ BatchWriteAssert

-----------------------------------------------------------------------------
(* Filling pcoinsTip from the database. *)

\* FetchCoins returns an entry, or nothing when there is nothing.
LEMMA TipFetchType ==
  ASSUME TypeOK, NEW t \in Txid
  PROVE  TipFetch(t) \in Entry \cup {Missing}
BY DEF TypeOK, TipFetch, FromBase, Entry, Content

\* Filling a cache keeps its type, its readers and the truth of its flags, and never
\* loses an entry.
LEMMA TipFilledSafe ==
  ASSUME TypeOK, FreshIsNew, CleanIsUnchanged, NEW t \in Txid,
         tip' = TipFilled(t), db' = db
  PROVE  /\ tip' \in [Txid -> Entry \cup {Missing}]
         /\ tip'[t] = TipFetch(t)
         /\ \A u \in Txid :
              /\ tip[u] # Missing => tip'[u] # Missing
              /\ TipCoins(u)' = TipCoins(u)
              /\ tip'[u] # Missing => (Fresh(tip'[u]) => db'[u] = Spent)
              /\ tip'[u] # Missing => (~Dirty(tip'[u]) => tip'[u].coins = db'[u])
<1>1. TipFetch(t) \in Entry \cup {Missing}
  BY TipFetchType
<1>2. tip' = [tip EXCEPT ![t] = TipFetch(t)] /\ tip \in [Txid -> Entry \cup {Missing}]
  BY DEF TipFilled, TypeOK
<1>3. tip' \in [Txid -> Entry \cup {Missing}] /\ tip'[t] = TipFetch(t)
  BY <1>1, <1>2
<1>4. ASSUME NEW u \in Txid
      PROVE  /\ tip[u] # Missing => tip'[u] # Missing
             /\ TipCoins(u)' = TipCoins(u)
             /\ tip'[u] # Missing => (Fresh(tip'[u]) => db'[u] = Spent)
             /\ tip'[u] # Missing => (~Dirty(tip'[u]) => tip'[u].coins = db'[u])
  <2>1. CASE u # t
    BY <2>1, <1>2 DEF TipCoins, FreshIsNew, CleanIsUnchanged
  <2>2. CASE u = t /\ tip[t] # Missing
    BY <2>2, <1>3 DEF TipFetch, TipCoins, FreshIsNew, CleanIsUnchanged
  <2>3. CASE u = t /\ tip[t] = Missing
    BY <2>3, <1>3, CoinsAssumption DEF TipFetch, TipCoins, FromBase, TypeOK, Content, Entry, Dirty, Fresh
  <2>4. QED
    BY <2>1, <2>2, <2>3
<1>5. QED
  BY <1>3, <1>4

\* What the view finds in its base is what pcoinsTip's readers find.
LEMMA TipFetchReads ==
  ASSUME TypeOK, NEW t \in Txid
  PROVE  TipCoins(t) = IF TipFetch(t) = Missing THEN Spent ELSE TipFetch(t).coins
BY CoinsAssumption DEF TypeOK, TipCoins, TipFetch, FromBase, Entry, Content

-----------------------------------------------------------------------------
(* The entries of the view. *)

\* An entry the view may have: its flags are true of pcoinsTip, and it is FRESH
\* unless pcoinsTip has one too.
Claims(e, found, below) ==
    e # Missing => /\ Fresh(e) => found = Spent
                   /\ ~Dirty(e) => e.coins = found
                   /\ below = Missing => Fresh(e)

LEMMA ViewFetchClaims ==
  ASSUME IInv, NEW t \in Txid
  PROVE  /\ ViewFetch(t) \in Entry \cup {Missing}
         /\ Claims(ViewFetch(t), TipCoins(t), TipFetch(t))
         /\ ViewFetch(t) = Missing => TipCoins(t) = Spent
         /\ ViewFetch(t) # Missing => ViewFetch(t).coins = ViewCoins(t)
         /\ ViewFetch(t) = Missing => ViewCoins(t) = Spent
<1>1. TipFetch(t) \in Entry \cup {Missing}
  BY TipFetchType DEF IInv
<1>2. TipCoins(t) = IF TipFetch(t) = Missing THEN Spent ELSE TipFetch(t).coins
  BY TipFetchReads DEF IInv
<1>3. CASE view[t] # Missing
  <2>1. ViewFetch(t) = view[t] /\ view[t] \in Entry
    BY <1>3 DEF ViewFetch, IInv, TypeOK
  <2>2. TipFetch(t) = Missing => tip[t] = Missing
    BY DEF TipFetch
  <2>3. Claims(view[t], TipCoins(t), TipFetch(t))
    BY <2>2, <1>3 DEF Claims, IInv, FreshIsNew, CleanIsUnchanged, BatchWriteAssert
  <2>4. QED
    BY <2>1, <2>3, <1>3 DEF ViewCoins
<1>4. CASE view[t] = Missing /\ TipFetch(t) = Missing
  BY <1>4, <1>2 DEF ViewFetch, Claims, ViewCoins
<1>5. CASE view[t] = Missing /\ TipFetch(t) # Missing
  <2>1. ViewFetch(t) = FromBase(TipFetch(t).coins) /\ TipFetch(t) \in Entry
    BY <1>5, <1>1 DEF ViewFetch
  <2>2. ViewFetch(t) \in Entry /\ ViewFetch(t).coins = TipCoins(t) /\ ~Dirty(ViewFetch(t))
        /\ (Fresh(ViewFetch(t)) => TipCoins(t) = Spent)
    BY <2>1, <1>2, <1>5 DEF FromBase, Entry, Dirty, Fresh, Content
  <2>3. ViewFetch(t) # Missing
    BY <2>2, CoinsAssumption
  <2>4. QED
    BY <2>2, <2>3, <1>5 DEF Claims, ViewCoins
<1>6. QED
  BY <1>3, <1>4, <1>5

-----------------------------------------------------------------------------
(* The steps. *)

\* The view reads or changes one entry, and pcoinsTip may be filled for it.
LEMMA ViewStep ==
  ASSUME IInv, NEW t \in Txid, NEW e \in Entry \cup {Missing},
         open, open' = open, db' = db, dbBest' = dbBest, tipBest' = tipBest,
         tip' = tip \/ tip' = TipFilled(t),
         view' = [view EXCEPT ![t] = e],
         e # Missing => (Fresh(e) => TipCoins(t) = Spent),
         e # Missing => (~Dirty(e) => e.coins = TipCoins(t)),
         e # Missing => (tip'[t] = Missing => Fresh(e))
  PROVE  IInv' /\ \A u \in Txid : TipCoins(u)' = TipCoins(u)
<1>1. /\ tip' \in [Txid -> Entry \cup {Missing}]
      /\ \A u \in Txid :
           /\ tip[u] # Missing => tip'[u] # Missing
           /\ TipCoins(u)' = TipCoins(u)
           /\ tip'[u] # Missing => (Fresh(tip'[u]) => db'[u] = Spent)
           /\ tip'[u] # Missing => (~Dirty(tip'[u]) => tip'[u].coins = db'[u])
  <2>1. CASE tip' = tip
    BY <2>1 DEF IInv, TypeOK, TipCoins, FreshIsNew, CleanIsUnchanged
  <2>2. CASE tip' = TipFilled(t)
    BY <2>2, TipFilledSafe DEF IInv
  <2>3. QED
    BY <2>1, <2>2
<1>2. view \in [Txid -> Entry \cup {Missing}]
  BY DEF IInv, TypeOK
<1>3. view' \in [Txid -> Entry \cup {Missing}]
      /\ view'[t] = e /\ \A u \in Txid \ {t} : view'[u] = view[u]
  BY <1>2
<1>4. TypeOK'
  BY <1>1, <1>3 DEF IInv, TypeOK
<1>5. FreshIsNew'
  <2>1. ASSUME NEW u \in Txid, view'[u] # Missing, Fresh(view'[u])
        PROVE  TipCoins(u) = Spent
    BY <2>1, <1>3 DEF IInv, FreshIsNew
  <2>2. QED
    BY <2>1, <1>1 DEF FreshIsNew, Fresh
<1>6. CleanIsUnchanged'
  <2>1. ASSUME NEW u \in Txid, view'[u] # Missing, ~Dirty(view'[u])
        PROVE  view'[u].coins = TipCoins(u)
    BY <2>1, <1>3 DEF IInv, CleanIsUnchanged
  <2>2. QED
    BY <2>1, <1>1 DEF CleanIsUnchanged, Dirty
<1>7. BatchWriteAssert'
  <2>1. ASSUME NEW u \in Txid, view'[u] # Missing, tip'[u] = Missing
        PROVE  Fresh(view'[u])
    BY <2>1, <1>1, <1>3 DEF IInv, BatchWriteAssert
  <2>2. QED
    BY <2>1 DEF BatchWriteAssert, Fresh
<1>8. QED
  BY <1>1, <1>4, <1>5, <1>6, <1>7 DEF IInv

LEMMA AccessViewStep ==
  ASSUME IInv, NEW t \in Txid, AccessView(t)
  PROVE  /\ IInv'
         /\ \A u \in Txid : TipCoins(u)' = TipCoins(u) /\ ViewCoins(u)' = ViewCoins(u)
<1>1. tip'[t] = TipFetch(t)
  BY TipFilledSafe DEF IInv, AccessView
<1>2. IInv' /\ \A u \in Txid : TipCoins(u)' = TipCoins(u)
  BY <1>1, ViewFetchClaims, ViewStep DEF AccessView, Claims
<1>3. view' = [view EXCEPT ![t] = ViewFetch(t)] /\ view \in [Txid -> Entry \cup {Missing}]
  BY DEF AccessView, IInv, TypeOK
<1>4. ASSUME NEW u \in Txid PROVE ViewCoins(u)' = ViewCoins(u)
  <2>1. CASE u # t
    BY <2>1, <1>2, <1>3 DEF ViewCoins
  <2>2. CASE u = t
    <3>1. view'[t] = ViewFetch(t) /\ TipCoins(t)' = TipCoins(t)
      BY <1>2, <1>3
    <3>2. ViewCoins(t)' = IF ViewFetch(t) = Missing THEN TipCoins(t) ELSE ViewFetch(t).coins
      BY <3>1 DEF ViewCoins
    <3>3. QED
      BY <3>2, <2>2, ViewFetchClaims
  <2>3. QED
    BY <2>1, <2>2
<1>5. QED
  BY <1>2, <1>4

LEMMA ModifyCoinsStep ==
  ASSUME IInv, NEW t \in Txid, NEW c \in Content, ModifyCoins(t, c)
  PROVE  /\ IInv'
         /\ \A u \in Txid : TipCoins(u)' = TipCoins(u)
         /\ \A u \in Txid : ViewCoins(u)' = IF u = t THEN c ELSE ViewCoins(u)
<1> DEFINE m == Modifiable(t)
           e == IF Fresh(m) /\ c = Spent THEN Missing
                ELSE [coins |-> c, flags |-> m.flags \cup {"DIRTY"}]
<1>1. /\ open /\ open' = open /\ db' = db /\ dbBest' = dbBest /\ tipBest' = tipBest
      /\ view' = [view EXCEPT ![t] = e]
      /\ tip' = IF view[t] = Missing THEN TipFilled(t) ELSE tip
  BY DEF ModifyCoins
<1>2. ViewFetch(t) \in Entry \cup {Missing} /\ Claims(ViewFetch(t), TipCoins(t), TipFetch(t))
      /\ (ViewFetch(t) = Missing => TipCoins(t) = Spent)
  BY ViewFetchClaims
<1>3. m \in Entry /\ (Fresh(m) => TipCoins(t) = Spent) /\ (TipFetch(t) = Missing => Fresh(m))
  BY <1>2 DEF Modifiable, FromBase, Claims, Entry, Content, Fresh
<1>4. tip'[t] = Missing => Fresh(m)
  <2>1. CASE view[t] = Missing
    BY <2>1, <1>1, <1>3, TipFilledSafe DEF IInv
  <2>2. CASE view[t] # Missing
    BY <2>2, <1>1 DEF Modifiable, ViewFetch, IInv, BatchWriteAssert
  <2>3. QED
    BY <2>1, <2>2
<1>5. /\ e \in Entry \cup {Missing}
      /\ e # Missing => /\ Dirty(e) /\ (Fresh(e) <=> Fresh(m)) /\ e.coins = c
      /\ e = Missing => c = Spent /\ Fresh(m)
  <2>1. [coins |-> c, flags |-> m.flags \cup {"DIRTY"}] \in Entry
    BY <1>3 DEF Entry
  <2>2. QED
    BY <2>1, CoinsAssumption DEF Dirty, Fresh
<1>6. IInv' /\ \A u \in Txid : TipCoins(u)' = TipCoins(u)
  <2> HIDE DEF e
  <2>1. tip' = tip \/ tip' = TipFilled(t)
    BY <1>1
  <2>2. QED
    BY <1>1, <1>3, <1>4, <1>5, <2>1, ViewStep
<1>7. view \in [Txid -> Entry \cup {Missing}]
  BY DEF IInv, TypeOK
<1>8. ASSUME NEW u \in Txid PROVE ViewCoins(u)' = IF u = t THEN c ELSE ViewCoins(u)
  <2> HIDE DEF e, m
  <2>1. CASE u # t
    BY <2>1, <1>1, <1>6, <1>7 DEF ViewCoins
  <2>2. CASE u = t
    BY <2>2, <1>1, <1>3, <1>5, <1>6, <1>7 DEF ViewCoins
  <2>3. QED
    BY <2>1, <2>2
<1>9. QED
  BY <1>6, <1>8

LEMMA AccessTipStep ==
  ASSUME IInv, NEW t \in Txid, AccessTip(t)
  PROVE  /\ IInv'
         /\ \A u \in Txid : TipCoins(u)' = TipCoins(u) /\ ViewCoins(u)' = ViewCoins(u)
<1>1. /\ tip' = TipFilled(t) /\ db' = db /\ view' = view /\ open' = open
      /\ dbBest' = dbBest /\ tipBest' = tipBest
  BY DEF AccessTip
<1>2. /\ tip' \in [Txid -> Entry \cup {Missing}]
      /\ \A u \in Txid :
           /\ tip[u] # Missing => tip'[u] # Missing
           /\ TipCoins(u)' = TipCoins(u)
           /\ tip'[u] # Missing => (Fresh(tip'[u]) => db'[u] = Spent)
           /\ tip'[u] # Missing => (~Dirty(tip'[u]) => tip'[u].coins = db'[u])
  BY <1>1, TipFilledSafe DEF IInv
<1>3. TypeOK'
  BY <1>1, <1>2 DEF IInv, TypeOK, Empty
<1>4. FreshIsNew'
  BY <1>1, <1>2 DEF IInv, FreshIsNew, Fresh
<1>5. CleanIsUnchanged'
  BY <1>1, <1>2 DEF IInv, CleanIsUnchanged, Dirty
<1>6. BatchWriteAssert'
  BY <1>1, <1>2 DEF IInv, BatchWriteAssert, Fresh
<1>7. QED
  BY <1>1, <1>2, <1>3, <1>4, <1>5, <1>6 DEF IInv, ViewCoins

\* BatchWrite: one entry of pcoinsTip takes over the view's.
LEMMA MergedSafe ==
  ASSUME IInv, NEW t \in Txid
  PROVE  LET e == Merged(tip[t], view[t])
         IN  /\ e \in Entry \cup {Missing}
             /\ (IF e = Missing THEN db[t] ELSE e.coins) = ViewCoins(t)
             /\ e # Missing => (Fresh(e) => db[t] = Spent)
             /\ e # Missing => (~Dirty(e) => e.coins = db[t])
<1> DEFINE own == tip[t]
           child == view[t]
           e == Merged(own, child)
<1>1. own \in Entry \cup {Missing} /\ child \in Entry \cup {Missing}
  BY DEF IInv, TypeOK
<1>2. /\ own # Missing => (Fresh(own) => db[t] = Spent)
      /\ own # Missing => (~Dirty(own) => own.coins = db[t])
      /\ child # Missing => (Fresh(child) => TipCoins(t) = Spent)
      /\ child # Missing => (~Dirty(child) => child.coins = TipCoins(t))
      /\ child # Missing /\ own = Missing => Fresh(child)
  BY DEF IInv, FreshIsNew, CleanIsUnchanged, BatchWriteAssert
<1>3. CASE child = Missing \/ ~Dirty(child)
  <2>1. e = own
    BY <1>3 DEF Merged
  <2>2. ViewCoins(t) = TipCoins(t)
    BY <1>2, <1>3 DEF ViewCoins
  <2>3. QED
    BY <2>1, <2>2, <1>1, <1>2 DEF TipCoins
<1>4. CASE child # Missing /\ Dirty(child) /\ own = Missing
  <2>1. ViewCoins(t) = child.coins /\ child.coins \in Content /\ db[t] = Spent
    BY <1>1, <1>2, <1>4 DEF ViewCoins, TipCoins, Entry
  <2>2. CASE child.coins = Spent
    BY <2>1, <2>2, <1>4 DEF Merged
  <2>3. CASE child.coins # Spent
    <3>1. e = [coins |-> child.coins, flags |-> {"DIRTY", "FRESH"}]
      BY <2>3, <1>4 DEF Merged
    <3>2. e \in Entry /\ e.coins = child.coins /\ Dirty(e)
      BY <3>1, <2>1 DEF Entry, Dirty
    <3>3. e # Missing
      BY <3>2, CoinsAssumption
    <3>4. QED
      BY <3>2, <3>3, <2>1
  <2>4. QED
    BY <2>2, <2>3
<1>5. CASE child # Missing /\ Dirty(child) /\ own # Missing
  <2>1. ViewCoins(t) = child.coins /\ child.coins \in Content /\ own \in Entry
    BY <1>1, <1>5 DEF ViewCoins, Entry
  <2>2. CASE Fresh(own) /\ child.coins = Spent
    BY <2>1, <2>2, <1>2, <1>5 DEF Merged
  <2>3. CASE ~(Fresh(own) /\ child.coins = Spent)
    <3>1. e = [coins |-> child.coins, flags |-> own.flags \cup {"DIRTY"}]
      BY <2>3, <1>5 DEF Merged
    <3>2. e \in Entry /\ e.coins = child.coins /\ Dirty(e) /\ (Fresh(e) <=> Fresh(own))
      BY <3>1, <2>1 DEF Entry, Dirty, Fresh
    <3>3. e # Missing
      BY <3>2, CoinsAssumption
    <3>4. QED
      BY <3>2, <3>3, <2>1, <1>2, <1>5
  <2>4. QED
    BY <2>2, <2>3
<1>6. QED
  BY <1>3, <1>4, <1>5

LEMMA FlushViewStep ==
  ASSUME IInv, NEW b \in Block, FlushView(b)
  PROVE  IInv' /\ \A u \in Txid : TipCoins(u)' = ViewCoins(u) /\ ViewCoins(u)' = ViewCoins(u)
<1>1. /\ open' = FALSE /\ view' = Empty /\ db' = db /\ dbBest' = dbBest /\ tipBest' = b
      /\ tip' = [t \in Txid |-> Merged(tip[t], view[t])]
  BY DEF FlushView, Cleared
<1>2. ASSUME NEW u \in Txid
      PROVE  /\ tip'[u] \in Entry \cup {Missing} /\ view'[u] = Missing
             /\ TipCoins(u)' = ViewCoins(u)
             /\ tip'[u] # Missing => (Fresh(tip'[u]) => db'[u] = Spent)
             /\ tip'[u] # Missing => (~Dirty(tip'[u]) => tip'[u].coins = db'[u])
  <2>1. tip'[u] = Merged(tip[u], view[u]) /\ view'[u] = Missing
    BY <1>1 DEF Empty
  <2>2. QED
    BY <2>1, <1>1, MergedSafe DEF TipCoins
<1>3. tip' \in [Txid -> Entry \cup {Missing}]
  BY <1>1, <1>2
<1>4. TypeOK'
  BY <1>1, <1>2, <1>3 DEF IInv, TypeOK, Empty
<1>5. FreshIsNew' /\ CleanIsUnchanged' /\ BatchWriteAssert'
  BY <1>2 DEF FreshIsNew, CleanIsUnchanged, BatchWriteAssert, Fresh, Dirty
<1>6. \A u \in Txid : ViewCoins(u)' = ViewCoins(u)
  BY <1>2 DEF ViewCoins
<1>7. QED
  BY <1>2, <1>4, <1>5, <1>6 DEF IInv

\* Both caches empty: every flag is vacuously true and readers see the database.
LEMMA EmptyStep ==
  ASSUME TypeOK, db' \in [Txid -> Content], dbBest' \in Block \cup {NoBlock},
         tipBest' \in Block \cup {NoBlock}, tip' = Empty, view' = Empty, open' = FALSE
  PROVE  IInv' /\ \A u \in Txid : TipCoins(u)' = db'[u] /\ ViewCoins(u)' = db'[u]
<1>1. tip' \in [Txid -> Entry \cup {Missing}] /\ view' \in [Txid -> Entry \cup {Missing}]
  BY DEF Empty
<1>2. \A u \in Txid : tip'[u] = Missing /\ view'[u] = Missing
  BY DEF Empty
<1>3. TypeOK'
  BY <1>1 DEF TypeOK, Empty
<1>4. FreshIsNew' /\ CleanIsUnchanged' /\ BatchWriteAssert'
  BY <1>2 DEF FreshIsNew, CleanIsUnchanged, BatchWriteAssert
<1>5. QED
  BY <1>2, <1>3, <1>4 DEF IInv, TipCoins, ViewCoins

LEMMA FlushTipStep ==
  ASSUME IInv, FlushTip
  PROVE  IInv' /\ \A u \in Txid : /\ db'[u] = TipCoins(u)
                                  /\ TipCoins(u)' = TipCoins(u) /\ ViewCoins(u)' = ViewCoins(u)
<1>1. /\ ~open /\ open' = FALSE /\ view' = view /\ view = Empty
      /\ tip' = Empty /\ tipBest' = tipBest
      /\ db' = [t \in Txid |-> IF tip[t] = Missing THEN db[t]
                               ELSE IF Dirty(tip[t]) THEN tip[t].coins ELSE db[t]]
      /\ dbBest' = IF tipBest = NoBlock THEN dbBest ELSE tipBest
  BY DEF FlushTip, Cleared, IInv, TypeOK
<1>2. ASSUME NEW u \in Txid PROVE db'[u] = TipCoins(u) /\ db'[u] \in Content
  <2>1. tip[u] \in Entry \cup {Missing} /\ db[u] \in Content
    BY DEF IInv, TypeOK
  <2>2. QED
    BY <2>1, <1>1 DEF IInv, CleanIsUnchanged, TipCoins, Entry
<1>3. db' \in [Txid -> Content]
  BY <1>1, <1>2
<1>4. IInv' /\ \A u \in Txid : TipCoins(u)' = db'[u] /\ ViewCoins(u)' = db'[u]
  BY <1>1, <1>3, EmptyStep DEF IInv, TypeOK
<1>5. \A u \in Txid : ViewCoins(u) = TipCoins(u)
  BY <1>1 DEF ViewCoins, Empty
<1>6. QED
  BY <1>2, <1>4, <1>5

LEMMA RestartStep ==
  ASSUME IInv, Restart
  PROVE  IInv' /\ \A u \in Txid : TipCoins(u)' = db[u] /\ ViewCoins(u)' = db[u]
BY EmptyStep DEF Restart, IInv, TypeOK

\* The view is opened or forgotten.
LEMMA DropViewStep ==
  ASSUME IInv, DropView
  PROVE  IInv' /\ \A u \in Txid : TipCoins(u)' = TipCoins(u) /\ ViewCoins(u)' = TipCoins(u)
<1>1. /\ open' = FALSE /\ view' = Empty /\ db' = db /\ dbBest' = dbBest
      /\ tip' = tip /\ tipBest' = tipBest
  BY DEF DropView
<1>2. \A u \in Txid : view'[u] = Missing
  BY <1>1 DEF Empty
<1>3. TypeOK'
  BY <1>1 DEF IInv, TypeOK, Empty
<1>4. FreshIsNew' /\ CleanIsUnchanged' /\ BatchWriteAssert'
  BY <1>1, <1>2 DEF IInv, FreshIsNew, CleanIsUnchanged, BatchWriteAssert
<1>5. QED
  BY <1>1, <1>2, <1>3, <1>4 DEF IInv, TipCoins, ViewCoins

-----------------------------------------------------------------------------
(* The invariant. *)

LEMMA InitInvariant ==
  ASSUME Init PROVE IInv
<1>1. \A t \in Txid : tip[t] = Missing /\ view[t] = Missing
  BY DEF Init, Empty
<1>2. TypeOK
  BY DEF Init, TypeOK, Empty
<1>3. QED
  BY <1>1, <1>2 DEF IInv, FreshIsNew, CleanIsUnchanged, BatchWriteAssert

\* GetBestBlock, OpenView and stuttering leave the caches as they are.
LEMMA CachesUnchanged ==
  ASSUME IInv, UNCHANGED <<db, dbBest, tip, view>>, tipBest' \in Block \cup {NoBlock},
         open' \in BOOLEAN, ~open' => ~open
  PROVE  IInv' /\ \A u \in Txid : TipCoins(u)' = TipCoins(u) /\ ViewCoins(u)' = ViewCoins(u)
<1>1. TypeOK'
  BY DEF IInv, TypeOK, Empty
<1>2. FreshIsNew' /\ CleanIsUnchanged' /\ BatchWriteAssert'
  BY DEF IInv, FreshIsNew, CleanIsUnchanged, BatchWriteAssert, TipCoins, Fresh, Dirty
<1>3. QED
  BY <1>1, <1>2 DEF IInv, TipCoins, ViewCoins

LEMMA StepInvariant ==
  ASSUME IInv, [Next]_vars PROVE IInv'
<1>1. CASE GetBestBlock
  BY <1>1, CachesUnchanged DEF GetBestBlock, BestOfTip, IInv, TypeOK
<1>2. CASE OpenView
  BY <1>2, CachesUnchanged DEF OpenView, IInv, TypeOK
<1>3. CASE DropView
  BY <1>3, DropViewStep
<1>4. CASE FlushTip
  BY <1>4, FlushTipStep
<1>5. CASE Restart
  BY <1>5, RestartStep
<1>6. ASSUME NEW t \in Txid, AccessTip(t) PROVE IInv'
  BY <1>6, AccessTipStep
<1>7. ASSUME NEW t \in Txid, AccessView(t) PROVE IInv'
  BY <1>7, AccessViewStep
<1>8. ASSUME NEW t \in Txid, NEW c \in Content, ModifyCoins(t, c) PROVE IInv'
  BY <1>8, ModifyCoinsStep
<1>9. ASSUME NEW b \in Block, FlushView(b) PROVE IInv'
  BY <1>9, FlushViewStep
<1>10. CASE UNCHANGED vars
  BY <1>10, CachesUnchanged DEF vars, IInv, TypeOK
<1>11. QED
  BY <1>1, <1>2, <1>3, <1>4, <1>5, <1>6, <1>7, <1>8, <1>9, <1>10 DEF Next

\* Type correctness of every reachable state.
THEOREM TypeCorrect == Spec => []TypeOK
<1>1. Init => IInv
  BY InitInvariant
<1>2. IInv /\ [Next]_vars => IInv'
  BY StepInvariant
<1>3. IInv => TypeOK
  BY DEF IInv
<1>4. QED
  BY <1>1, <1>2, <1>3, PTL DEF Spec

\* The flags of every cache entry tell the truth about the cache below.
THEOREM FlagsTrue == Spec => []FlagsHold
<1>1. Init => IInv
  BY InitInvariant
<1>2. IInv /\ [Next]_vars => IInv'
  BY StepInvariant
<1>3. IInv => FlagsHold
  BY DEF IInv, FlagsHold
<1>4. QED
  BY <1>1, <1>2, <1>3, PTL DEF Spec

\* The assertion in BatchWrite never fails.
THEOREM AssertionHolds == Spec => []BatchWriteAssert
<1>1. Init => IInv
  BY InitInvariant
<1>2. IInv /\ [Next]_vars => IInv'
  BY StepInvariant
<1>3. IInv => BatchWriteAssert
  BY DEF IInv
<1>4. QED
  BY <1>1, <1>2, <1>3, PTL DEF Spec

-----------------------------------------------------------------------------
(* The refinement. *)

chainMap == [t \in Txid |-> TipCoins(t)]
workMap == [t \in Txid |-> ViewCoins(t)]

LEMMA InitRefines ==
  ASSUME Init PROVE Plain!Init
<1>1. db = [t \in Txid |-> db[t]]
  BY DEF Init
<1>2. \A t \in Txid : TipCoins(t) = db[t] /\ ViewCoins(t) = db[t]
  BY DEF Init, Empty, TipCoins, ViewCoins
<1>3. chainMap = db /\ workMap = db
  BY <1>1, <1>2 DEF chainMap, workMap
<1>4. QED
  BY <1>3 DEF Plain!Init, Init, chainMap, workMap, BestOfTip

LEMMA StepRefines ==
  ASSUME IInv, [Next]_vars PROVE [Plain!Next]_(Plain!vars)
<1> USE DEF chainMap, workMap
<1>1. CASE GetBestBlock
  <2>1. chainMap' = chainMap /\ workMap' = workMap /\ BestOfTip' = BestOfTip
    BY <1>1, CachesUnchanged DEF GetBestBlock, BestOfTip, IInv, TypeOK
  <2>2. QED
    BY <1>1, <2>1 DEF GetBestBlock, Plain!vars
<1>2. CASE OpenView
  <2>1. chainMap' = chainMap /\ workMap' = workMap
    BY <1>2, CachesUnchanged DEF OpenView, IInv, TypeOK
  <2>2. Plain!Begin
    BY <1>2, <2>1 DEF OpenView, Plain!Begin, BestOfTip
  <2>3. QED
    BY <2>2 DEF Plain!Next
<1>3. CASE DropView
  <2>1. chainMap' = chainMap /\ workMap' = chainMap
    BY <1>3, DropViewStep
  <2>2. Plain!Forget
    BY <1>3, <2>1 DEF DropView, Plain!Forget, BestOfTip
  <2>3. QED
    BY <2>2 DEF Plain!Next
<1>4. CASE FlushTip
  <2>1. chainMap' = chainMap /\ workMap' = workMap
    BY <1>4, FlushTipStep
  <2>2. db' = chainMap
    <3>1. db' = [t \in Txid |-> db'[t]]
      BY <1>4 DEF FlushTip
    <3>2. QED
      BY <3>1, <1>4, FlushTipStep
  <2>3. Plain!Persist
    BY <1>4, <2>1, <2>2 DEF FlushTip, Plain!Persist, BestOfTip
  <2>4. QED
    BY <2>3 DEF Plain!Next
<1>5. CASE Restart
  <2>1. chainMap' = db /\ workMap' = db
    <3>1. db = [t \in Txid |-> db[t]]
      BY DEF IInv, TypeOK
    <3>2. QED
      BY <3>1, <1>5, RestartStep
  <2>2. Plain!Crash
    BY <1>5, <2>1 DEF Restart, Plain!Crash, BestOfTip
  <2>3. QED
    BY <2>2 DEF Plain!Next
<1>6. ASSUME NEW t \in Txid, AccessTip(t) PROVE UNCHANGED Plain!vars
  <2>1. chainMap' = chainMap /\ workMap' = workMap
    BY <1>6, AccessTipStep
  <2>2. QED
    BY <1>6, <2>1 DEF AccessTip, Plain!vars, BestOfTip
<1>7. ASSUME NEW t \in Txid, AccessView(t) PROVE UNCHANGED Plain!vars
  <2>1. chainMap' = chainMap /\ workMap' = workMap
    BY <1>7, AccessViewStep
  <2>2. QED
    BY <1>7, <2>1 DEF AccessView, Plain!vars, BestOfTip
<1>8. ASSUME NEW t \in Txid, NEW c \in Content, ModifyCoins(t, c) PROVE Plain!Next
  <2>1. chainMap' = chainMap
    BY <1>8, ModifyCoinsStep
  <2>2. workMap' = [workMap EXCEPT ![t] = c]
    BY <1>8, ModifyCoinsStep
  <2>3. Plain!Change(t, c)
    BY <1>8, <2>1, <2>2 DEF ModifyCoins, Plain!Change, BestOfTip
  <2>4. QED
    BY <2>3 DEF Plain!Next
<1>9. ASSUME NEW b \in Block, FlushView(b) PROVE Plain!Next
  <2>1. chainMap' = workMap /\ workMap' = workMap
    BY <1>9, FlushViewStep
  <2>2. Plain!Commit(b)
    BY <1>9, <2>1, CoinsAssumption DEF FlushView, Plain!Commit, BestOfTip
  <2>3. QED
    BY <2>2 DEF Plain!Next
<1>10. CASE UNCHANGED vars
  BY <1>10 DEF vars, Plain!vars, BestOfTip, TipCoins, ViewCoins
<1>11. QED
  BY <1>1, <1>2, <1>3, <1>4, <1>5, <1>6, <1>7, <1>8, <1>9, <1>10 DEF Next

\* The stack of views implements three plain maps of coins with an atomic write to
\* disk: caching, flags and erased entries are invisible.
THEOREM Refinement == Spec => Implements
<1>1. Init => IInv /\ Plain!Init
  BY InitInvariant, InitRefines
<1>2. IInv /\ [Next]_vars => IInv' /\ [Plain!Next]_(Plain!vars)
  BY StepInvariant, StepRefines
<1>3. QED
  BY <1>1, <1>2, PTL DEF Spec, Implements, Plain!Spec
=============================================================================
