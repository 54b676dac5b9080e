------------------------------- MODULE SwiftTX -------------------------------
(***************************************************************************)
(* Transaction locks of one node (src/src/swifttx.cpp): lock requests,     *)
(* masternode votes in any order, conflicting requests, and the expiry of  *)
(* locks by the masternode thread.  Every handler runs to its end before   *)
(* the next one: the maps have no lock of their own, and their data races  *)
(* are outside this module.                                                *)
(*                                                                         *)
(* A transaction is a model value with a set of inputs.  A vote carries a  *)
(* height; the one CreateNewLock computes from the age of the inputs is    *)
(* Right, any other is a vote made by a node that saw another age.  Relays *)
(* and the limit on votes for unknown requests, which only decides about a *)
(* relay, are left out.                                                    *)
(***************************************************************************)
EXTENDS Integers, FiniteSets

CONSTANTS
    Tx, Input,
    Inputs,       \* [Tx -> SUBSET Input]
    Masternode,
    Self,         \* the masternode this node runs, or None
    Required,     \* SWIFTTX_SIGNATURES_REQUIRED
    None

Right == 1
Heights == {Right, 2}

ASSUME SwiftTXAssumption ==
    /\ Inputs \in [Tx -> SUBSET Input \ {{}}]
    /\ Required \in Nat \ {0}
    /\ None \notin Tx \cup Masternode
    /\ Self \in Masternode \cup {None}

VARIABLES
    mempool,      \* the transactions of Tx in the memory pool
    req,          \* the keys of mapTxLockReq
    blank,        \* those whose value is the empty transaction
    rejected,     \* the keys of mapTxLockReqRejected
    seen,         \* the keys of mapTxLockVote: pairs of masternode and transaction
    locks,        \* mapTxLocks: [Tx -> None or a lock]
    lockedBy,     \* mapLockedInputs: [Input -> None or a transaction]
    cancelled     \* transactions whose lock was expired by a conflict

vars == <<mempool, req, blank, rejected, seen, locks, lockedBy, cancelled>>

\* vecConsensusVotes; copy tells apart equal entries of the vector.
Vote == [mn : Masternode, height : Heights, copy : Nat]
Lock == [height : {0, Right}, votes : SUBSET Vote]

ASSUME NoneAssumption == None \notin Lock

TypeOK ==
    /\ mempool \subseteq Tx /\ req \subseteq Tx /\ blank \subseteq req /\ rejected \subseteq Tx
    /\ seen \subseteq Masternode \X Tx
    /\ locks \in [Tx -> Lock \cup {None}]
    /\ lockedBy \in [Input -> Tx \cup {None}]
    /\ cancelled \subseteq {t \in Tx : locks[t] # None}

Init ==
    /\ mempool = {} /\ req = {} /\ blank = {} /\ rejected = {} /\ seen = {} /\ cancelled = {}
    /\ locks = [t \in Tx |-> None] /\ lockedBy = [i \in Input |-> None]

-----------------------------------------------------------------------------
Conflicts(t) == {u \in Tx \ {t} : Inputs[t] \cap Inputs[u] # {}}

\* CountSignatures() >= SWIFTTX_SIGNATURES_REQUIRED.
CountSignatures(lock) ==
    IF lock.height = 0 THEN -1
    ELSE Cardinality({v \in lock.votes : v.height = lock.height})

Complete(lock) == lock # None /\ CountSignatures(lock) >= Required

\* What AcceptToMemoryPool asks of locks and pool; it may refuse for other reasons.
Acceptable(t) ==
    /\ t \notin mempool
    /\ \A i \in Inputs[t] : lockedBy[i] \in {None, t}
    /\ Conflicts(t) \cap mempool = {}

NewLock(height) == [height |-> height, votes |-> {}]

\* Mutant: the height is one too high.
CreateNewLock_OffByOne(t, old) == IF old THEN [locks EXCEPT ![t] = NewLock(Right + 1)] ELSE locks

\* The locks after CreateNewLock(t); it does nothing while an input of t is too new.
CreateNewLock(t, old) ==
    IF ~old THEN locks
    ELSE [locks EXCEPT ![t] = IF @ = None THEN NewLock(Right) ELSE [@ EXCEPT !.height = Right]]

\* Mutant: the newest claim on an input wins.
LockInputs_Overwrite(t) == [i \in Input |-> IF i \in Inputs[t] THEN t ELSE lockedBy[i]]

\* mapLockedInputs after t has taken the inputs that nobody holds.
LockInputs(t) ==
    [i \in Input |-> IF i \in Inputs[t] /\ lockedBy[i] = None THEN t ELSE lockedBy[i]]

\* CheckForConflictingLocks for a transaction t that spends the given inputs.
CheckForConflictingLocks(t, inputs, held) == \E i \in inputs : held[i] \notin {None, t}

\* Both locks expire; the rival is the holder of the first contested input.
CancelBoth(t, inputs, held, lk) ==
    \E i \in inputs :
      /\ held[i] \notin {None, t}
      /\ cancelled' = cancelled \cup {u \in {t, held[i]} : lk[u] # None}

\* The pool when blocks were connected or disconnected: transactions of blocks
\* leave it, those of disconnected blocks come back unless they conflict with a
\* lock or with the pool.
BlocksChange(held) ==
    /\ mempool' \in SUBSET Tx
    /\ \A t \in mempool' \ mempool : /\ \A i \in Inputs[t] : held[i] \in {None, t}
                                     /\ Conflicts(t) \cap mempool' = {}

-----------------------------------------------------------------------------
(* The handlers. *)

\* "ix", AcceptToMemoryPool accepts.  A masternode votes when it ranks among the
\* first ones; its own vote is stored, not counted.
RequestAccepted(t) ==
    /\ t \notin req \cup rejected
    /\ Acceptable(t)
    /\ \E old \in BOOLEAN : locks' = CreateNewLock(t, old)
    /\ \E mine \in SUBSET ({Self} \ {None}) : seen' = seen \cup (mine \X {t})
    /\ mempool' = mempool \cup {t}
    /\ req' = req \cup {t}
    /\ UNCHANGED <<blank, rejected, lockedBy, cancelled>>

\* "ix", AcceptToMemoryPool refuses.
RequestRejected(t) ==
    /\ t \notin req \cup rejected
    /\ rejected' = rejected \cup {t}
    /\ lockedBy' = LockInputs(t)
    /\ \E old \in BOOLEAN : locks' = CreateNewLock(t, old)
    /\ IF ~Complete(locks'[t]) THEN UNCHANGED <<req, mempool, cancelled>>
       ELSE IF CheckForConflictingLocks(t, Inputs[t], lockedBy')
       THEN /\ CancelBoth(t, Inputs[t], lockedBy', locks')
            /\ UNCHANGED <<req, mempool>>
       ELSE /\ BlocksChange(lockedBy')          \* ReprocessBlocks
            /\ req' = req \cup {t}
            /\ UNCHANGED cancelled
    /\ UNCHANGED <<blank, seen>>

\* sendrawtransaction with swiftx, and the wallet: the request is stored first.
LocalRequest(t) ==
    /\ t \notin mempool
    /\ req' = req \cup {t}
    /\ \E old \in BOOLEAN : locks' = CreateNewLock(t, old)
    /\ \/ Acceptable(t) /\ mempool' = mempool \cup {t}
       \/ UNCHANGED mempool
    /\ UNCHANGED <<blank, rejected, seen, lockedBy, cancelled>>

\* The lock of t with a vote more.
AddSignature(t, mn, height) ==
    LET lock == IF locks[t] = None THEN NewLock(0) ELSE locks[t]
        copy == Cardinality({v \in lock.votes : v.mn = mn})
    IN  [lock EXCEPT !.votes = @ \cup {[mn |-> mn, height |-> height, copy |-> copy]}]

\* The lock is complete: mapTxLockReq[hash] makes an empty transaction of a
\* request that is not in the map, and that one spends nothing.
LockComplete(t) ==
    LET spends == IF t \in req \ blank THEN Inputs[t] ELSE {}
    IN  /\ req' = req \cup {t}
        /\ blank' = blank \cup ({t} \ req)
        /\ IF CheckForConflictingLocks(t, spends, lockedBy)
           THEN /\ CancelBoth(t, spends, lockedBy, locks')
                /\ UNCHANGED <<lockedBy, mempool>>
           ELSE /\ lockedBy' = IF spends = {} THEN lockedBy ELSE LockInputs(t)
                /\ IF t \in rejected THEN BlocksChange(lockedBy') ELSE UNCHANGED mempool
                /\ UNCHANGED cancelled

\* ProcessConsensusVote for a vote whose rank and signature are good.
ProcessConsensusVote(t, mn, height) ==
    /\ locks' = [locks EXCEPT ![t] = AddSignature(t, mn, height)]
    /\ IF Complete(locks'[t]) THEN LockComplete(t)
       ELSE UNCHANGED <<mempool, req, blank, lockedBy, cancelled>>

\* Mutant: a vote is stored but not recognised when it comes again.
FirstTime_Always(t, mn) == TRUE
\* The hash of a vote leaves its height and signature out.
FirstTime(t, mn) == <<mn, t>> \notin seen

\* "txlvote".  The rank and the key of the masternode depend on what this node
\* knows of it by now: the vote may be refused, and stays stored all the same.
TxLockVote(t, mn, height) ==
    /\ FirstTime(t, mn)
    /\ seen' = seen \cup {<<mn, t>>}
    /\ \/ ProcessConsensusVote(t, mn, height)
       \/ UNCHANGED <<mempool, req, blank, locks, lockedBy, cancelled>>
    /\ UNCHANGED rejected

\* The hashes of the votes in the locks of S.
VotesOf(S) == UNION {{<<v.mn, t>> : v \in locks[t].votes} : t \in S}

\* CleanTransactionLocksList, once a minute: a cancelled lock has expired by the
\* next second, any other may be an hour old.  Only a lock whose request is in
\* mapTxLockReq takes its entries in the other maps along.
CleanTransactionLocksList ==
    \E old \in SUBSET {t \in Tx : locks[t] # None} :
      LET known == old \cap req
          freed == UNION {Inputs[t] : t \in known \ blank}
      IN  /\ old # {} /\ cancelled \subseteq old
          /\ locks' = [t \in Tx |-> IF t \in old THEN None ELSE locks[t]]
          /\ lockedBy' = [i \in Input |-> IF i \in freed THEN None ELSE lockedBy[i]]
          /\ req' = req \ known /\ blank' = blank \ known /\ rejected' = rejected \ known
          /\ seen' = seen \ VotesOf(known)
          /\ cancelled' = {}
          /\ UNCHANGED mempool

\* Plain relay and blocks change the pool too.
ReceiveTransaction(t) ==
    /\ Acceptable(t)
    /\ mempool' = mempool \cup {t}
    /\ UNCHANGED <<req, blank, rejected, seen, locks, lockedBy, cancelled>>

ReceiveBlocks ==
    /\ BlocksChange(lockedBy)
    /\ UNCHANGED <<req, blank, rejected, seen, locks, lockedBy, cancelled>>

Handler(t) ==
    \/ RequestAccepted(t) \/ RequestRejected(t) \/ LocalRequest(t) \/ ReceiveTransaction(t)
    \/ \E mn \in Masternode, h \in Heights : TxLockVote(t, mn, h)

Next == (\E t \in Tx : Handler(t)) \/ CleanTransactionLocksList \/ ReceiveBlocks

Spec == Init /\ [][Next]_vars

-----------------------------------------------------------------------------
\* Every vote counted in a lock is remembered in mapTxLockVote, where it can be
\* served to peers and recognised when it comes again.
VotesRemembered ==
    \A t \in Tx : locks[t] # None => \A v \in locks[t].votes : <<v.mn, t>> \in seen

\* A lock is complete only with the votes of Required different masternodes,
\* however often votes are repeated, and locks expire and come back.
QuorumDistinct ==
    \A t \in Tx : Complete(locks[t]) => Cardinality({v.mn : v \in locks[t].votes}) >= Required

\* An input stays with the transaction that holds it until the lock of a
\* transaction that spends it expires; no other request or vote takes it over.
LockNotStolen ==
    [][\A i \in Input : lockedBy[i] = None \/ lockedBy'[i] = lockedBy[i]
         \/ /\ lockedBy'[i] = None
            /\ \E t \in Tx : i \in Inputs[t] /\ locks[t] # None /\ locks'[t] = None]_vars
=============================================================================
