---------------------------- MODULE SwiftTXProofs ----------------------------
(***************************************************************************)
(* Theorems about SwiftTX, for any transactions, inputs and masternodes.   *)
(*                                                                         *)
(* That the votes of a complete lock come from different masternodes is    *)
(* not inductive: a vote that was counted and forgotten could be counted   *)
(* again.  IInv says with VotesRemembered that none is forgotten before    *)
(* its lock, and with OneVoteEach that none has been counted twice.        *)
(***************************************************************************)
EXTENDS SwiftTX, FiniteSetTheorems, TLAPS

OneVoteEach ==
    \A t \in Tx : locks[t] # None =>
        /\ IsFiniteSet(locks[t].votes)
        /\ \A v, w \in locks[t].votes : v.mn = w.mn => v = w

IInv == TypeOK /\ VotesRemembered /\ OneVoteEach

USE DEF Right, Heights

\* A new lock, or the height of an old one, leaves the votes as they are.
LEMMA NewLockTypes ==
  ASSUME TypeOK, NEW t \in Tx, NEW old \in BOOLEAN
  PROVE  /\ CreateNewLock(t, old) \in [Tx -> Lock \cup {None}]
         /\ \A u \in Tx : locks[u] # None =>
               /\ CreateNewLock(t, old)[u] # None
               /\ CreateNewLock(t, old)[u].votes = locks[u].votes
         /\ \A u \in Tx : locks[u] = None /\ CreateNewLock(t, old)[u] # None
               => CreateNewLock(t, old)[u].votes = {}
<1> DEFINE c == CreateNewLock(t, old)
<1>1. NewLock(Right) \in Lock /\ NewLock(Right).votes = {}
  BY DEF NewLock, Lock
<1>2. \A k \in Lock : [k EXCEPT !.height = Right] \in Lock /\ [k EXCEPT !.height = Right].votes = k.votes
  BY DEF Lock
<1>3. CASE ~old
  BY <1>3 DEF CreateNewLock, TypeOK
<1>4. CASE old
  <2>1. c = [locks EXCEPT ![t] = IF locks[t] = None THEN NewLock(Right)
                                 ELSE [locks[t] EXCEPT !.height = Right]]
    BY <1>4 DEF CreateNewLock
  <2>2. c[t] \in Lock
    BY <1>1, <1>2, <2>1 DEF TypeOK
  <2>3. \A u \in Tx : u # t => c[u] = locks[u]
    BY <2>1 DEF TypeOK
  <2>4. c \in [Tx -> Lock \cup {None}]
    BY <2>1, <2>2, <1>1, <1>2 DEF TypeOK
  <2>5. \A u \in Tx : locks[u] # None => c[u] # None /\ c[u].votes = locks[u].votes
    <3> SUFFICES ASSUME NEW u \in Tx, locks[u] # None
                 PROVE  c[u] # None /\ c[u].votes = locks[u].votes
      OBVIOUS
    <3>1. CASE u = t
      <4>1. locks[t] \in Lock /\ c[t] = [locks[t] EXCEPT !.height = Right]
        BY <3>1, <2>1 DEF TypeOK
      <4> QED
        BY <4>1, <3>1, <1>2, <2>2, NoneAssumption
    <3>2. CASE u # t
      BY <3>2, <2>3
    <3> QED
      BY <3>1, <3>2
  <2>6. \A u \in Tx : locks[u] = None /\ c[u] # None => c[u].votes = {}
    <3> SUFFICES ASSUME NEW u \in Tx, locks[u] = None, c[u] # None
                 PROVE  c[u].votes = {}
      OBVIOUS
    <3>1. u = t
      BY <2>3
    <3>2. c[t] = NewLock(Right)
      BY <3>1, <2>1 DEF TypeOK
    <3> QED
      BY <3>1, <3>2, <1>1
  <2> QED
    BY <2>4, <2>5, <2>6
<1> QED
  BY <1>3, <1>4

\* A step that gives no lock a new vote, forgets no vote of a lock that stays and
\* drops locks whole.
LEMMA VotesStay ==
  ASSUME IInv,
         \A u \in Tx : locks'[u] # None =>
            \/ locks[u] # None /\ locks'[u].votes = locks[u].votes
            \/ locks'[u].votes = {},
         \A u \in Tx : locks'[u] # None /\ locks[u] # None =>
            \A v \in locks[u].votes : <<v.mn, u>> \in seen'
  PROVE  VotesRemembered' /\ OneVoteEach'
<1>1. VotesRemembered'
  BY DEF VotesRemembered
<1>2. OneVoteEach'
  BY FS_EmptySet DEF IInv, OneVoteEach
<1> QED
  BY <1>1, <1>2

\* The steps that call CreateNewLock.
LEMMA CreateKeepsVotes ==
  ASSUME IInv, NEW t \in Tx, NEW old \in BOOLEAN, locks' = CreateNewLock(t, old), seen \subseteq seen'
  PROVE  VotesRemembered' /\ OneVoteEach'
<1>1. \A u \in Tx : locks[u] # None => locks'[u].votes = locks[u].votes
  BY NewLockTypes DEF IInv
<1>2. \A u \in Tx : locks[u] = None /\ locks'[u] # None => locks'[u].votes = {}
  BY NewLockTypes DEF IInv
<1>3. \A u \in Tx : locks[u] # None => \A v \in locks[u].votes : <<v.mn, u>> \in seen'
  BY DEF IInv, VotesRemembered
<1> QED
  BY <1>1, <1>2, <1>3, VotesStay

\* The steps that leave locks and seen alone.
LEMMA SameVotes ==
  ASSUME IInv, UNCHANGED locks, seen \subseteq seen'
  PROVE  VotesRemembered' /\ OneVoteEach'
<1>1. \A u \in Tx : locks[u] # None => \A v \in locks[u].votes : <<v.mn, u>> \in seen'
  BY DEF IInv, VotesRemembered
<1> QED
  BY <1>1, VotesStay

LEMMA LockInputsType ==
  ASSUME TypeOK, NEW t \in Tx
  PROVE  LockInputs(t) \in [Input -> Tx \cup {None}]
BY DEF LockInputs, TypeOK

\* Conflicting locks are cancelled where there are locks.
LEMMA CancelBothTypes ==
  ASSUME NEW t \in Tx, NEW inputs \in SUBSET Input, NEW held \in [Input -> Tx \cup {None}], NEW lk,
         cancelled \subseteq {u \in Tx : lk[u] # None}, CancelBoth(t, inputs, held, lk)
  PROVE  cancelled' \subseteq {u \in Tx : lk[u] # None}
BY DEF CancelBoth

LEMMA RequestAcceptedInv ==
  ASSUME IInv, NEW t \in Tx, RequestAccepted(t)
  PROVE  IInv'
<1> USE DEF RequestAccepted
<1>1. PICK old \in BOOLEAN : locks' = CreateNewLock(t, old)
  OBVIOUS
<1>2. seen \subseteq seen' /\ seen' \subseteq Masternode \X Tx
  <2>1. PICK mine \in SUBSET ({Self} \ {None}) : seen' = seen \cup (mine \X {t})
    OBVIOUS
  <2>2. mine \subseteq Masternode
    BY SwiftTXAssumption
  <2>3. mine \X {t} \subseteq Masternode \X Tx
    BY <2>2
  <2> QED
    BY <2>1, <2>3 DEF IInv, TypeOK
<1>3. TypeOK'
  <2>1. locks' \in [Tx -> Lock \cup {None}] /\ cancelled' \subseteq {u \in Tx : locks'[u] # None}
    BY <1>1, NewLockTypes DEF IInv, TypeOK
  <2> QED
    BY <2>1, <1>2 DEF IInv, TypeOK
<1> QED
  BY <1>1, <1>2, <1>3, CreateKeepsVotes DEF IInv

LEMMA RequestRejectedInv ==
  ASSUME IInv, NEW t \in Tx, RequestRejected(t)
  PROVE  IInv'
<1> USE DEF RequestRejected
<1>1. PICK old \in BOOLEAN : locks' = CreateNewLock(t, old)
  OBVIOUS
<1>2. locks' \in [Tx -> Lock \cup {None}] /\ cancelled \subseteq {u \in Tx : locks'[u] # None}
  BY <1>1, NewLockTypes DEF IInv, TypeOK
<1>3. lockedBy' \in [Input -> Tx \cup {None}] /\ Inputs[t] \in SUBSET Input
  BY LockInputsType, SwiftTXAssumption DEF IInv
<1>4. cancelled' \subseteq {u \in Tx : locks'[u] # None}
  <2>1. CASE CancelBoth(t, Inputs[t], lockedBy', locks')
    BY <2>1, <1>2, <1>3, CancelBothTypes
  <2>2. CASE UNCHANGED cancelled
    BY <2>2, <1>2
  <2> QED
    BY <2>1, <2>2
<1>5. req' \subseteq Tx /\ req \subseteq req' /\ mempool' \subseteq Tx /\ rejected' \subseteq Tx
  BY DEF IInv, TypeOK, BlocksChange
<1>6. TypeOK'
  BY <1>2, <1>3, <1>4, <1>5 DEF IInv, TypeOK
<1> QED
  BY <1>1, <1>6, CreateKeepsVotes DEF IInv

LEMMA LocalRequestInv ==
  ASSUME IInv, NEW t \in Tx, LocalRequest(t)
  PROVE  IInv'
<1> USE DEF LocalRequest
<1>1. PICK old \in BOOLEAN : locks' = CreateNewLock(t, old)
  OBVIOUS
<1>2. locks' \in [Tx -> Lock \cup {None}] /\ cancelled' \subseteq {u \in Tx : locks'[u] # None}
  BY <1>1, NewLockTypes DEF IInv, TypeOK
<1>3. TypeOK'
  BY <1>2 DEF IInv, TypeOK
<1> QED
  BY <1>1, <1>3, CreateKeepsVotes DEF IInv

\* What the completion of a lock does to the maps, whatever the lock.
LEMMA LockCompleteTypes ==
  ASSUME TypeOK, NEW t \in Tx, cancelled \subseteq {u \in Tx : locks'[u] # None}, LockComplete(t)
  PROVE  /\ req' \subseteq Tx /\ blank' \subseteq req' /\ mempool' \subseteq Tx
         /\ lockedBy' \in [Input -> Tx \cup {None}]
         /\ cancelled' \subseteq {u \in Tx : locks'[u] # None}
<1> DEFINE spends == IF t \in req \ blank THEN Inputs[t] ELSE {}
<1>1. spends \in SUBSET Input
  BY SwiftTXAssumption
<1>2. req' \subseteq Tx /\ blank' \subseteq req'
  BY DEF LockComplete, TypeOK
<1>3. CASE CheckForConflictingLocks(t, spends, lockedBy)
  <2>1. CancelBoth(t, spends, lockedBy, locks') /\ UNCHANGED <<lockedBy, mempool>>
    BY <1>3 DEF LockComplete
  <2> HIDE DEF spends
  <2> QED
    BY <2>1, <1>1, <1>2, CancelBothTypes DEF TypeOK
<1>4. CASE ~CheckForConflictingLocks(t, spends, lockedBy)
  <2>1. /\ lockedBy' = lockedBy \/ lockedBy' = LockInputs(t)
        /\ mempool' \subseteq Tx
        /\ UNCHANGED cancelled
    BY <1>4 DEF LockComplete, BlocksChange, TypeOK
  <2> QED
    BY <2>1, <1>2, LockInputsType DEF TypeOK
<1> QED
  BY <1>3, <1>4

\* A vote comes for the first time: none of its masternode has been counted.
LEMMA TxLockVoteInv ==
  ASSUME IInv, NEW t \in Tx, NEW mn \in Masternode, NEW h \in Heights, TxLockVote(t, mn, h)
  PROVE  IInv'
<1> USE DEF TxLockVote
<1>1. seen \subseteq seen' /\ seen' \subseteq Masternode \X Tx /\ <<mn, t>> \notin seen /\ <<mn, t>> \in seen'
  BY DEF IInv, TypeOK, FirstTime
<1>2. CASE UNCHANGED <<mempool, req, blank, locks, lockedBy, cancelled>>
  <2>1. TypeOK'
    BY <1>1, <1>2 DEF IInv, TypeOK
  <2> QED
    BY <2>1, <1>1, <1>2, SameVotes DEF IInv
<1>3. CASE ProcessConsensusVote(t, mn, h)
  <2> DEFINE lock == IF locks[t] = None THEN NewLock(0) ELSE locks[t]
             copy == Cardinality({v \in lock.votes : v.mn = mn})
             new == [mn |-> mn, height |-> h, copy |-> copy]
  <2>1. lock \in Lock /\ IsFiniteSet(lock.votes)
        /\ \A v, w \in lock.votes : v.mn = w.mn => v = w
    BY FS_EmptySet DEF NewLock, Lock, IInv, TypeOK, OneVoteEach
  <2>2. \A v \in lock.votes : v.mn # mn /\ <<v.mn, t>> \in seen
    BY <1>1 DEF NewLock, IInv, VotesRemembered
  <2>3. new \in Vote
    <3>1. IsFiniteSet({v \in lock.votes : v.mn = mn})
      BY <2>1, FS_Subset
    <3>2. copy \in Nat
      BY <3>1, FS_CardinalityType
    <3> QED
      BY <3>2 DEF Vote
  <2>4. AddSignature(t, mn, h) = [lock EXCEPT !.votes = lock.votes \cup {new}]
    BY DEF AddSignature
  <2> HIDE DEF lock, new
  <2>5. AddSignature(t, mn, h) \in Lock /\ AddSignature(t, mn, h).votes = lock.votes \cup {new}
    BY <2>1, <2>3, <2>4 DEF Lock
  <2>6. locks' = [locks EXCEPT ![t] = AddSignature(t, mn, h)]
    BY <1>3 DEF ProcessConsensusVote
  <2>7. /\ locks' \in [Tx -> Lock \cup {None}]
        /\ locks'[t] \in Lock /\ locks'[t].votes = lock.votes \cup {new}
        /\ \A u \in Tx : u # t => locks'[u] = locks[u]
    BY <2>5, <2>6 DEF IInv, TypeOK
  <2>8. cancelled \subseteq {u \in Tx : locks'[u] # None}
    BY <2>7, NoneAssumption DEF IInv, TypeOK
  <2>9. TypeOK'
    <3>1. CASE LockComplete(t)
      BY <3>1, <2>7, <2>8, <1>1, LockCompleteTypes DEF IInv, TypeOK
    <3>2. CASE UNCHANGED <<mempool, req, blank, lockedBy, cancelled>>
      BY <3>2, <2>7, <2>8, <1>1 DEF IInv, TypeOK
    <3> QED
      BY <3>1, <3>2, <1>3 DEF ProcessConsensusVote
  <2>10. new.mn = mn
    BY DEF new
  <2>11. VotesRemembered'
    <3> SUFFICES ASSUME NEW u \in Tx, locks'[u] # None, NEW v \in locks'[u].votes
                 PROVE  <<v.mn, u>> \in seen'
      BY DEF VotesRemembered
    <3>1. CASE u = t
      BY <3>1, <2>7, <2>2, <2>10, <1>1
    <3>2. CASE u # t
      BY <3>2, <2>7, <1>1 DEF IInv, VotesRemembered
    <3> QED
      BY <3>1, <3>2
  <2>12. OneVoteEach'
    <3> SUFFICES ASSUME NEW u \in Tx, locks'[u] # None
                 PROVE  /\ IsFiniteSet(locks'[u].votes)
                        /\ \A v, w \in locks'[u].votes : v.mn = w.mn => v = w
      BY DEF OneVoteEach
    <3>1. CASE u = t
      <4>1. IsFiniteSet(lock.votes \cup {new})
        BY <2>1, FS_AddElement
      <4> QED
        BY <4>1, <3>1, <2>7, <2>1, <2>2, <2>10
    <3>2. CASE u # t
      BY <3>2, <2>7 DEF IInv, OneVoteEach
    <3> QED
      BY <3>1, <3>2
  <2> QED
    BY <2>9, <2>11, <2>12 DEF IInv
<1> QED
  BY <1>2, <1>3

LEMMA CleanInv ==
  ASSUME IInv, CleanTransactionLocksList
  PROVE  IInv'
<1>1. PICK old \in SUBSET {t \in Tx : locks[t] # None} :
        LET known == old \cap req
            freed == UNION {Inputs[t] : t \in known \ blank}
        IN  /\ locks' = [t \in Tx |-> IF t \in old THEN None ELSE locks[t]]
            /\ lockedBy' = [i \in Input |-> IF i \in freed THEN None ELSE lockedBy[i]]
            /\ req' = req \ known /\ blank' = blank \ known /\ rejected' = rejected \ known
            /\ seen' = seen \ VotesOf(known)
            /\ cancelled' = {}
            /\ UNCHANGED mempool
  BY DEF CleanTransactionLocksList
<1> DEFINE known == old \cap req
<1>2. TypeOK'
  BY <1>1 DEF IInv, TypeOK
<1>3. \A u \in Tx : locks'[u] # None => locks[u] # None /\ locks'[u] = locks[u] /\ u \notin old
  BY <1>1
<1>4. \A u \in Tx : locks'[u] # None => \A v \in locks[u].votes : <<v.mn, u>> \in seen'
  <2> SUFFICES ASSUME NEW u \in Tx, locks'[u] # None, NEW v \in locks[u].votes
               PROVE  <<v.mn, u>> \in seen'
    OBVIOUS
  <2>1. <<v.mn, u>> \in seen /\ u \notin known
    BY <1>3 DEF IInv, VotesRemembered
  <2>2. \A e \in VotesOf(known) : e[2] \in known
    BY DEF VotesOf
  <2>3. <<v.mn, u>> \notin VotesOf(known)
    <3>1. <<v.mn, u>>[2] = u
      OBVIOUS
    <3> HIDE DEF known
    <3> QED
      BY <2>1, <2>2, <3>1
  <2> QED
    BY <1>1, <2>1, <2>3
<1>5. VotesRemembered' /\ OneVoteEach'
  BY <1>3, <1>4, VotesStay
<1> QED
  BY <1>2, <1>5 DEF IInv

\* Plain relay and blocks change the pool only.
LEMMA PoolInv ==
  ASSUME IInv, \/ \E t \in Tx : ReceiveTransaction(t)
               \/ ReceiveBlocks
               \/ UNCHANGED vars
  PROVE  IInv'
<1>1. mempool' \subseteq Tx /\ UNCHANGED <<req, blank, rejected, seen, locks, lockedBy, cancelled>>
  BY DEF ReceiveTransaction, ReceiveBlocks, BlocksChange, vars, IInv, TypeOK
<1>2. TypeOK'
  BY <1>1 DEF IInv, TypeOK
<1> QED
  BY <1>1, <1>2, SameVotes DEF IInv

LEMMA InitInvariant == Init => IInv
BY DEF Init, IInv, TypeOK, VotesRemembered, OneVoteEach

LEMMA StepInvariant == IInv /\ [Next]_vars => IInv'
<1> SUFFICES ASSUME IInv, [Next]_vars
             PROVE  IInv'
  OBVIOUS
<1>1. ASSUME NEW t \in Tx, Handler(t)
      PROVE  IInv'
  BY <1>1, RequestAcceptedInv, RequestRejectedInv, LocalRequestInv, TxLockVoteInv, PoolInv DEF Handler
<1>2. CASE CleanTransactionLocksList
  BY <1>2, CleanInv
<1>3. CASE ReceiveBlocks \/ UNCHANGED vars
  BY <1>3, PoolInv
<1> QED
  BY <1>1, <1>2, <1>3 DEF Next

\* Type correctness: a lock is never of a height that was not computed, and only
\* locks that exist are cancelled.
THEOREM TypeCorrect == Spec => []TypeOK
<1>1. IInv => TypeOK
  BY DEF IInv
<1> QED
  BY <1>1, InitInvariant, StepInvariant, PTL DEF Spec

\* The masternodes of a complete lock: as many as its votes.
LEMMA IInvQuorum == IInv => QuorumDistinct
<1> SUFFICES ASSUME IInv, NEW t \in Tx, Complete(locks[t])
             PROVE  Cardinality({v.mn : v \in locks[t].votes}) >= Required
  BY DEF QuorumDistinct
<1> DEFINE votes == locks[t].votes
           counted == {v \in votes : v.height = locks[t].height}
           mns == {v.mn : v \in votes}
<1>1. IsFiniteSet(votes) /\ \A v, w \in votes : v.mn = w.mn => v = w
  BY DEF IInv, OneVoteEach, Complete
<1>2. IsFiniteSet(mns)
  <2> DEFINE g == [v \in votes |-> v.mn]
  <2>1. g \in Surjection(votes, mns)
    BY DEF Surjection
  <2> HIDE DEF g, votes, mns
  <2> QED
    BY <1>1, <2>1, FS_Surjection
<1>3. Cardinality(counted) <= Cardinality(mns)
  <2> DEFINE f == [v \in counted |-> v.mn]
  <2>1. f \in Injection(counted, mns)
    BY <1>1 DEF Injection, IsInjective
  <2> HIDE DEF f, counted, mns
  <2> QED
    BY <2>1, <1>2, FS_Injection
<1>4. Cardinality(counted) >= Required
  <2>1. Required \in Nat \ {0}
    BY SwiftTXAssumption
  <2> QED
    BY <2>1 DEF Complete, CountSignatures
<1>5. Cardinality(counted) \in Nat /\ Cardinality(mns) \in Nat /\ Required \in Nat
  BY <1>1, <1>2, FS_Subset, FS_CardinalityType, SwiftTXAssumption
<1> HIDE DEF counted
<1> QED
  BY <1>3, <1>4, <1>5

\* However votes are repeated, and locks expire and come back, a lock counts as
\* complete only with the votes of Required different masternodes.
THEOREM QuorumIsDistinct == Spec => []QuorumDistinct
<1> QED
  BY InitInvariant, StepInvariant, IInvQuorum, PTL DEF Spec

\* Only the expiry of a lock that spends an input takes the input from its holder.
LEMMA StepKeepsInputs ==
  ASSUME TypeOK, [Next]_vars
  PROVE  \A i \in Input : lockedBy[i] = None \/ lockedBy'[i] = lockedBy[i]
           \/ /\ lockedBy'[i] = None
              /\ \E t \in Tx : i \in Inputs[t] /\ locks[t] # None /\ locks'[t] = None
<1> SUFFICES ASSUME NEW i \in Input, lockedBy[i] # None, lockedBy'[i] # lockedBy[i]
             PROVE  /\ lockedBy'[i] = None
                    /\ \E t \in Tx : i \in Inputs[t] /\ locks[t] # None /\ locks'[t] = None
  OBVIOUS
<1>1. \A t \in Tx : LockInputs(t)[i] = lockedBy[i]
  BY DEF LockInputs
<1>2. ASSUME NEW t \in Tx, Handler(t)
      PROVE  FALSE
  <2>1. lockedBy' = lockedBy \/ lockedBy' = LockInputs(t)
    BY <1>2 DEF Handler, RequestAccepted, RequestRejected, LocalRequest, ReceiveTransaction,
                TxLockVote, ProcessConsensusVote, LockComplete
  <2> QED
    BY <2>1, <1>1
<1>3. CASE CleanTransactionLocksList
  <2>1. PICK old \in SUBSET {t \in Tx : locks[t] # None} :
          /\ locks' = [t \in Tx |-> IF t \in old THEN None ELSE locks[t]]
          /\ lockedBy' = [j \in Input |-> IF j \in UNION {Inputs[t] : t \in (old \cap req) \ blank}
                                          THEN None ELSE lockedBy[j]]
    BY <1>3 DEF CleanTransactionLocksList
  <2>2. lockedBy'[i] = None /\ i \in UNION {Inputs[t] : t \in (old \cap req) \ blank}
    BY <2>1
  <2>3. PICK t \in (old \cap req) \ blank : i \in Inputs[t]
    BY <2>2
  <2>4. t \in Tx /\ locks[t] # None /\ locks'[t] = None
    BY <2>1, <2>3
  <2> QED
    BY <2>2, <2>3, <2>4
<1>4. CASE ReceiveBlocks \/ UNCHANGED vars
  BY <1>4 DEF ReceiveBlocks, vars
<1> QED
  BY <1>2, <1>3, <1>4 DEF Next

\* An input stays with its holder until a lock that spends it expires.
THEOREM InputsStay == Spec => LockNotStolen
<1>1. TypeOK /\ [Next]_vars => [\A i \in Input : lockedBy[i] = None \/ lockedBy'[i] = lockedBy[i]
         \/ /\ lockedBy'[i] = None
            /\ \E t \in Tx : i \in Inputs[t] /\ locks[t] # None /\ locks'[t] = None]_vars
  BY StepKeepsInputs
<1> QED
  BY <1>1, TypeCorrect, PTL DEF Spec, LockNotStolen
=============================================================================
