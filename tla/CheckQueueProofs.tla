-------------------------- MODULE CheckQueueProofs --------------------------
(***************************************************************************)
(* Proofs about CheckQueue for any number of workers, checks and any batch *)
(* size.  IInv is inductive.  The steps of a thread all run LoopBody after *)
(* they have computed new values for the shared counters; Between states   *)
(* what holds at that point, with the batch of the running thread already  *)
(* settled, so that LoopBody is examined once.                             *)
(***************************************************************************)
EXTENDS CheckQueue, FiniteSetTheorems, TLAPS

Busy   == {"work", "report"}
Asleep == {"wait", "woken"}

\* A thread owns checks exactly while it works on them.
BatchOwned == \A t \in Threads : batch[t] # {} <=> pc[t] \in Busy

\* Leaked increments only ever make nIdle larger than the number of sleepers.
IdleBound == nIdle >= Cardinality(Parked)

IdleDrained == pc[Master] = "idle" => nTodo = 0 /\ fAllOk

\* fAllOk and the threads' fOk know of every merged failure, and of no other.
FlagSound ==
    /\ Pending \subseteq added
    /\ pc[Master] # "idle" /\ fAllOk => (added \ Pending) \cap Fails = {}
    /\ ~fAllOk => added \cap Fails # {}
    /\ \A t \in Threads : pc[t] \in Busy /\ ~fOk[t] => added \cap Fails # {}
    /\ \A t \in Threads : pc[t] = "report" /\ fOk[t] => batch[t] \cap Fails = {}

VerdictPending == pc[Master] # "idle" => verdict = "none"

IInv ==
    /\ TypeOK
    /\ BatchOwned /\ BatchesDisjoint /\ TodoExact
    /\ ActiveExact /\ IdleBound
    /\ IdleDrained /\ FlagSound
    /\ VerdictPending /\ VerdictRight

-----------------------------------------------------------------------------
Others(t, p, Q) == {u \in Threads \ {t} : p[u] \in Q}
Rest(t) == queue \cup UNION {batch[u] : u \in Threads \ {t}}

Between(t, p, idle, total, ok, todo) ==
    /\ t \in Threads
    /\ p \in [Threads -> Stages]
    /\ idle \in Nat /\ total \in Nat /\ todo \in Nat /\ ok \in BOOLEAN
    /\ total - idle = Cardinality(Others(t, p, Busy)) + 1
    /\ idle >= Cardinality(Others(t, p, Asleep))
    /\ \A u \in Threads \ {t} : batch[u] # {} <=> p[u] \in Busy
    /\ BatchesDisjoint
    /\ todo = Cardinality(Rest(t))
    /\ Rest(t) \subseteq added
    /\ p[Master] # "idle" /\ ok => (added \ Rest(t)) \cap Fails = {}
    /\ ~ok => added \cap Fails # {}
    /\ \A u \in Threads \ {t} : p[u] \in Busy /\ ~fOk[u] => added \cap Fails # {}
    /\ \A u \in Threads \ {t} : p[u] = "report" /\ fOk[u] => batch[u] \cap Fails = {}
    /\ p[Master] = "idle" => todo = 0 /\ ok /\ t # Master
    /\ p[Master] # "idle" => verdict = "none"
    /\ VerdictRight

LEMMA ThreadsFinite == IsFiniteSet(Threads)
  <1>1. IsFiniteSet({Master})
    BY FS_Singleton
  <1> QED
    BY <1>1, FS_Union, CheckQueueAssumption DEF Threads

\* Cardinalities of a set of threads with or without one of them.
LEMMA ThreadCount ==
  ASSUME NEW A \in SUBSET Threads, NEW t \in Threads
  PROVE  /\ IsFiniteSet(A) /\ Cardinality(A) \in Nat
         /\ t \notin A => Cardinality(A \cup {t}) = Cardinality(A) + 1
         /\ t \in A => Cardinality(A) = Cardinality(A \ {t}) + 1
         /\ t \in A => Cardinality(A) >= 1
  <1>1. IsFiniteSet(A)
    BY ThreadsFinite, FS_Subset
  <1>2. Cardinality(A) \in Nat
    BY <1>1, FS_CardinalityType
  <1>3. IsFiniteSet(A \ {t}) /\ Cardinality(A \ {t}) \in Nat
    BY <1>1, FS_Subset, FS_CardinalityType
  <1>4. t \notin A => Cardinality(A \cup {t}) = Cardinality(A) + 1
    BY <1>1, FS_AddElement
  <1>5. ASSUME t \in A PROVE Cardinality(A) = Cardinality(A \ {t}) + 1
    <2>1. (A \ {t}) \cup {t} = A
      BY <1>5
    <2>2. t \notin A \ {t}
      OBVIOUS
    <2> QED
      BY <1>3, <2>1, <2>2, FS_AddElement
  <1> QED
    BY <1>1, <1>2, <1>3, <1>4, <1>5

LEMMA CheckSetsFinite ==
  ASSUME NEW S \in SUBSET Checks
  PROVE  IsFiniteSet(S) /\ Cardinality(S) \in Nat /\ (Cardinality(S) = 0 <=> S = {})
  BY CheckQueueAssumption, FS_Subset, FS_CardinalityType, FS_EmptySet

\* nNow is at least one and a batch of that size is not empty.
LEMMA BatchNotEmpty ==
  ASSUME NEW idle \in Nat, NEW total \in Nat, NEW S \in SUBSET Checks,
         Cardinality(S) = BatchCount(idle, total), queue \subseteq Checks
  PROVE  S # {}
  <1>1. Cardinality(queue) \in Nat
    BY CheckSetsFinite
  <1>2. BatchCount(idle, total) # 0
    BY <1>1, CheckQueueAssumption DEF BatchCount
  <1> QED
    BY <1>2, CheckSetsFinite

-----------------------------------------------------------------------------
LEMMA LoopBodyInv ==
  ASSUME TypeOK,
         NEW t, NEW p, NEW idle, NEW total, NEW ok, NEW todo,
         Between(t, p, idle, total, ok, todo),
         LoopBody(t, p, idle, total, ok, todo)
  PROVE  IInv'
  <1> DEFINE B == Others(t, p, Busy)
             A == Others(t, p, Asleep)
             R == Rest(t)
  <1> USE DEF Between
  <1>0. /\ B \in SUBSET Threads /\ A \in SUBSET Threads
        /\ t \notin B /\ t \notin A /\ t \in Threads
        /\ Cardinality(A) \in Nat /\ Cardinality(B) \in Nat
        /\ Cardinality(A \cup {t}) = Cardinality(A) + 1
        /\ Cardinality(B \cup {t}) = Cardinality(B) + 1
    <2>1. /\ B \in SUBSET Threads /\ A \in SUBSET Threads
          /\ t \notin B /\ t \notin A /\ t \in Threads
      BY DEF Others
    <2> QED
      BY <2>1, ThreadCount
  <1>00. /\ total \in Nat /\ idle \in Nat /\ todo \in Nat
         /\ total - idle = Cardinality(B) + 1 /\ idle >= Cardinality(A)
         /\ p \in [Threads -> Stages]
    OBVIOUS
  <1>1. CASE queue = {} /\ MayReturn(t, todo) /\ Return(t, p, idle, total, ok)
    <2> USE <1>1 DEF Return, MayReturn, FlagAfterReturn
    <2>1. pc' = [p EXCEPT ![t] = "idle"] /\ batch' = [batch EXCEPT ![t] = {}] /\ t = Master
      OBVIOUS
    <2>2. Active' = B /\ Parked' = A /\ Pending' = R
      <3>1. Active' = B /\ Parked' = A
        BY <2>1, <1>00 DEF Active, Parked, Others, Busy, Asleep
      <3>2. Pending' = R
        BY <2>1, <1>0 DEF Pending, Rest, TypeOK
      <3> QED BY <3>1, <3>2
    <2>3. R = {}
      BY CheckSetsFinite DEF TypeOK
    <2>4. TypeOK'
      <3>1. nTotal' \in Nat
        BY <1>0, <1>00
      <3> QED
        BY <3>1, <1>00 DEF LoopBody, TypeOK, Verdict, Stages, shutdown
    <2>5. BatchOwned'
      BY <2>1, <1>00 DEF BatchOwned, TypeOK, Busy
    <2>6. BatchesDisjoint'
      BY <2>1, <1>00 DEF BatchesDisjoint, TypeOK
    <2>7. TodoExact'
      BY <2>2 DEF TodoExact, LoopBody
    <2>8. ActiveExact' /\ IdleBound'
      BY <2>2, <1>0, <1>00 DEF ActiveExact, IdleBound
    <2>9. IdleDrained'
      BY DEF IdleDrained, LoopBody
    <2>10. FlagSound'
      <3>1. pc'[Master] = "idle" /\ fAllOk' /\ added' = added
        BY <2>1, <1>00 DEF LoopBody
      <3>2. \A u \in Threads : pc'[u] \in Busy => u # t /\ pc'[u] = p[u] /\ fOk'[u] = fOk[u] /\ batch'[u] = batch[u]
        BY <2>1, <1>00 DEF Busy, TypeOK
      <3> QED
        BY <2>2, <2>3, <3>1, <3>2 DEF FlagSound, Busy
    <2>11. VerdictPending' /\ VerdictRight'
      <3>1. pc'[Master] = "idle" /\ added' = added /\ verdict' = Verdict(ok)
        BY <2>1, <1>00 DEF LoopBody
      <3>2. ok => added \cap Fails = {}
        BY <2>3
      <3> QED
        BY <3>1, <3>2 DEF VerdictPending, VerdictRight, Verdict
    <2> QED
      BY <2>4, <2>5, <2>6, <2>7, <2>8, <2>9, <2>10, <2>11 DEF IInv
  <1>2. CASE queue = {} /\ ~MayReturn(t, todo) /\ Sleep(t, p, idle, total, ok)
    <2> USE <1>2 DEF Sleep
    <2>1. pc' = [p EXCEPT ![t] = "wait"] /\ batch' = [batch EXCEPT ![t] = {}]
      OBVIOUS
    <2>2. Active' = B /\ Parked' = A \cup {t} /\ Pending' = R
      <3>1. Active' = B /\ Parked' = A \cup {t}
        BY <2>1, <1>00, <1>0 DEF Active, Parked, Others, Busy, Asleep
      <3>2. Pending' = R
        BY <2>1, <1>0 DEF Pending, Rest, TypeOK
      <3> QED BY <3>1, <3>2
    <2>4. TypeOK'
      BY <1>00 DEF LoopBody, TypeOK, Stages, shutdown
    <2>5. BatchOwned'
      BY <2>1, <1>00 DEF BatchOwned, TypeOK, Busy
    <2>6. BatchesDisjoint'
      BY <2>1, <1>00 DEF BatchesDisjoint, TypeOK
    <2>7. TodoExact'
      BY <2>2 DEF TodoExact, LoopBody
    <2>8. ActiveExact' /\ IdleBound'
      BY <2>2, <1>0, <1>00 DEF ActiveExact, IdleBound
    <2>9. pc'[Master] = "idle" <=> p[Master] = "idle"
      BY <2>1, <1>00
    <2>10. IdleDrained' /\ VerdictPending' /\ VerdictRight'
      BY <2>9 DEF IdleDrained, VerdictPending, VerdictRight, LoopBody
    <2>11. FlagSound'
      <3>1. \A u \in Threads : pc'[u] \in Busy => u # t /\ pc'[u] = p[u] /\ fOk'[u] = fOk[u] /\ batch'[u] = batch[u]
        BY <2>1, <1>00 DEF Busy, TypeOK
      <3>2. added' = added /\ fAllOk' = ok
        BY DEF LoopBody
      <3> QED
        BY <2>2, <2>9, <3>1, <3>2 DEF FlagSound, Busy
    <2> QED
      BY <2>4, <2>5, <2>6, <2>7, <2>8, <2>10, <2>11 DEF IInv
  <1>3. CASE queue # {} /\ TakeBatch(t, p, idle, total, ok)
    <2> USE <1>3 DEF TakeBatch
    <2>1. PICK S \in SUBSET queue :
            /\ Cardinality(S) = BatchCount(idle, total)
            /\ queue' = queue \ S
            /\ batch' = [batch EXCEPT ![t] = S]
      OBVIOUS
    <2>2. S # {}
      BY <2>1, <1>00, BatchNotEmpty DEF TypeOK
    <2>3. pc' = [p EXCEPT ![t] = "work"] /\ fOk' = [fOk EXCEPT ![t] = ok]
      OBVIOUS
    <2>4. Active' = B \cup {t} /\ Parked' = A /\ Pending' = R
      <3>1. Active' = B \cup {t} /\ Parked' = A
        BY <2>3, <1>00, <1>0 DEF Active, Parked, Others, Busy, Asleep
      <3>2. \A u \in Threads : batch'[u] = IF u = t THEN S ELSE batch[u]
        BY <2>1 DEF TypeOK
      <3>3. Pending' = R
        BY <3>2, <2>1, <1>0 DEF Pending, Rest
      <3> QED BY <3>1, <3>3
    <2>5. TypeOK'
      BY <2>1, <1>00 DEF LoopBody, TypeOK, Stages, shutdown
    <2>6. BatchOwned'
      BY <2>1, <2>2, <2>3, <1>00 DEF BatchOwned, TypeOK, Busy
    <2>7. BatchesDisjoint'
      BY <2>1, <1>00 DEF BatchesDisjoint, TypeOK
    <2>8. TodoExact'
      BY <2>4 DEF TodoExact, LoopBody
    <2>9. ActiveExact' /\ IdleBound'
      BY <2>4, <1>0, <1>00 DEF ActiveExact, IdleBound
    <2>10. p[Master] # "idle"
      <3>1. R # {} /\ R \in SUBSET Checks
        BY <1>0, <2>1 DEF Rest, TypeOK
      <3>2. Cardinality(R) # 0
        BY <3>1, CheckSetsFinite
      <3> QED
        BY <3>2
    <2>11. pc'[Master] # "idle"
      BY <2>3, <2>10, <1>00
    <2>12. IdleDrained' /\ VerdictPending' /\ VerdictRight'
      BY <2>10, <2>11 DEF IdleDrained, VerdictPending, VerdictRight, LoopBody
    <2>13. FlagSound'
      <3>1. \A u \in Threads \ {t} : pc'[u] = p[u] /\ fOk'[u] = fOk[u] /\ batch'[u] = batch[u]
        BY <2>1, <2>3, <1>00 DEF TypeOK
      <3>2. pc'[t] = "work" /\ fOk'[t] = ok
        BY <2>3, <1>00, <1>0 DEF TypeOK
      <3>3. added' = added /\ fAllOk' = ok
        BY DEF LoopBody
      <3> QED
        BY <2>4, <2>10, <3>1, <3>2, <3>3 DEF FlagSound, Busy
    <2> QED
      BY <2>5, <2>6, <2>7, <2>8, <2>9, <2>12, <2>13 DEF IInv
  <1> QED
    BY <1>1, <1>2, <1>3 DEF LoopBody

-----------------------------------------------------------------------------
\* A thread that owns no batch reaches LoopBody from "start" or from cond.wait.
LEMMA FreshBetween ==
  ASSUME IInv, NEW t \in Threads, NEW idle \in Nat, NEW total \in Nat,
         \/ pc[t] = "start" /\ idle = nIdle /\ total = nTotal + 1
         \/ pc[t] = "woken" /\ idle = nIdle - 1 /\ total = nTotal
  PROVE  Between(t, pc, idle, total, fAllOk, nTodo)
  <1> USE DEF IInv
  <1>1. Others(t, pc, Busy) = Active
    BY DEF Others, Active, Busy
  <1>2. Others(t, pc, Asleep) = Parked \ {t} /\ (t \in Parked <=> pc[t] = "woken")
    BY DEF Others, Parked, Asleep
  <1>3. batch[t] = {}
    BY DEF BatchOwned, Busy
  <1>4. Rest(t) = Pending
    BY <1>3 DEF Rest, Pending
  <1>5. /\ Cardinality(Parked) \in Nat /\ Cardinality(Parked \ {t}) \in Nat
        /\ Cardinality(Active) \in Nat
        /\ t \in Parked => Cardinality(Parked) = Cardinality(Parked \ {t}) + 1
    <2>1. Parked \in SUBSET Threads /\ Parked \ {t} \in SUBSET Threads /\ Active \in SUBSET Threads
      BY DEF Parked, Active
    <2> QED
      BY <2>1, ThreadCount
  <1>6. total - idle = Cardinality(Active) + 1
    BY <1>5 DEF ActiveExact, TypeOK
  <1>7. idle >= Cardinality(Parked \ {t})
    <2>0. nIdle \in Nat /\ nIdle >= Cardinality(Parked)
      BY DEF IdleBound, TypeOK
    <2>1. CASE pc[t] = "start"
      <3>1. Parked \ {t} = Parked
        BY <2>1, <1>2
      <3>2. idle = nIdle
        BY <2>1
      <3> QED
        BY <2>0, <3>1, <3>2
    <2>2. CASE pc[t] = "woken"
      <3>1. idle = nIdle - 1
        BY <2>2
      <3>2. Cardinality(Parked) = Cardinality(Parked \ {t}) + 1
        BY <2>2, <1>2, <1>5
      <3> QED
        BY <2>0, <1>5, <3>1, <3>2
    <2> QED
      BY <2>1, <2>2
  <1>8. /\ pc \in [Threads -> Stages] /\ nTodo \in Nat /\ fAllOk \in BOOLEAN
        /\ nTodo = Cardinality(Rest(t)) /\ Rest(t) \subseteq added
        /\ pc[Master] = "idle" => nTodo = 0 /\ fAllOk /\ t # Master
        /\ \A u \in Threads \ {t} : batch[u] # {} <=> pc[u] \in Busy
    BY <1>4 DEF TypeOK, TodoExact, IdleDrained, BatchOwned, FlagSound
  <1>9. /\ pc[Master] # "idle" /\ fAllOk => (added \ Rest(t)) \cap Fails = {}
        /\ ~fAllOk => added \cap Fails # {}
        /\ \A u \in Threads \ {t} : pc[u] \in Busy /\ ~fOk[u] => added \cap Fails # {}
        /\ \A u \in Threads \ {t} : pc[u] = "report" /\ fOk[u] => batch[u] \cap Fails = {}
        /\ pc[Master] # "idle" => verdict = "none"
        /\ VerdictRight /\ BatchesDisjoint
    BY <1>4 DEF FlagSound, VerdictPending
  <1> QED
    BY <1>1, <1>2, <1>6, <1>7, <1>8, <1>9 DEF Between

LEMMA EnterInv ==
  ASSUME IInv, NEW t \in Threads, Enter(t)
  PROVE  IInv'
  <1>1. nIdle \in Nat /\ nTotal + 1 \in Nat /\ pc[t] = "start" /\ TypeOK
    BY DEF IInv, TypeOK, Enter
  <1>2. Between(t, pc, nIdle, nTotal + 1, fAllOk, nTodo)
    BY <1>1, FreshBetween
  <1> QED
    BY <1>1, <1>2, LoopBodyInv DEF Enter

LEMMA WakeInv ==
  ASSUME IInv, NEW t \in Threads, Wake(t)
  PROVE  IInv'
  <1>1. pc[t] = "woken" /\ TypeOK /\ nTotal \in Nat
    BY DEF IInv, TypeOK, Wake
  <1>2. nIdle - 1 \in Nat
    <2>1. Parked \in SUBSET Threads /\ t \in Parked
      BY <1>1 DEF Parked
    <2>2. Cardinality(Parked) \in Nat /\ Cardinality(Parked) >= 1
      BY <2>1, ThreadCount
    <2>3. nIdle \in Nat /\ nIdle >= Cardinality(Parked)
      BY DEF IInv, IdleBound, TypeOK
    <2> QED
      BY <2>2, <2>3
  <1>3. Between(t, pc, nIdle - 1, nTotal, fAllOk, nTodo)
    BY <1>1, <1>2, FreshBetween
  <1> QED
    BY <1>1, <1>3, LoopBodyInv DEF Wake

LEMMA ReportInv ==
  ASSUME IInv, NEW t \in Threads, Report(t)
  PROVE  IInv'
  <1> DEFINE todo == nTodo - Cardinality(batch[t])
             p == NotifyMaster(t, todo)
             ok == fAllOk /\ fOk[t]
  <1> USE DEF IInv
  <1>1. pc[t] = "report" /\ LoopBody(t, p, nIdle, nTotal, ok, todo)
    BY DEF Report
  <1>2. /\ p \in [Threads -> Stages]
        /\ \A u \in Threads : p[u] \in Busy <=> pc[u] \in Busy
        /\ \A u \in Threads : p[u] \in Asleep <=> pc[u] \in Asleep
        /\ \A u \in Threads : p[u] = "report" <=> pc[u] = "report"
        /\ p[Master] = "idle" <=> pc[Master] = "idle"
    BY DEF NotifyMaster, TypeOK, Stages, Busy, Asleep, Threads
  <1>3. Others(t, p, Busy) = Active \ {t} /\ t \in Active
    BY <1>1, <1>2 DEF Others, Active, Busy
  <1>4. Others(t, p, Asleep) = Parked
    BY <1>1, <1>2 DEF Others, Parked, Asleep
  <1>5. nTotal - nIdle = Cardinality(Others(t, p, Busy)) + 1
    <2>1. Active \in SUBSET Threads
      BY DEF Active
    <2>2. Cardinality(Active) = Cardinality(Active \ {t}) + 1
      BY <2>1, <1>3, ThreadCount
    <2> QED
      BY <2>2, <1>3 DEF ActiveExact
  <1>6. Rest(t) = Pending \ batch[t] /\ batch[t] \subseteq Pending /\ Pending \subseteq Checks
    BY DEF Rest, Pending, BatchesDisjoint, TypeOK
  <1>7. todo \in Nat /\ todo = Cardinality(Rest(t))
    <2>1. IsFiniteSet(Pending) /\ IsFiniteSet(batch[t]) /\ IsFiniteSet(Rest(t))
      BY <1>6, CheckSetsFinite DEF TypeOK
    <2>2. Pending \cap batch[t] = batch[t]
      BY <1>6
    <2>3. Cardinality(Rest(t)) = Cardinality(Pending) - Cardinality(batch[t])
      BY <2>1, <2>2, <1>6, FS_Difference
    <2>4. Cardinality(Rest(t)) \in Nat
      BY <2>1, FS_CardinalityType
    <2> QED
      BY <2>3, <2>4 DEF TodoExact
  <1>8. batch[t] # {}
    BY <1>1 DEF BatchOwned, Busy
  <1>9. pc[Master] # "idle"
    <2>1. nTodo # 0
      BY <1>6, <1>8, CheckSetsFinite DEF TodoExact
    <2> QED
      BY <2>1 DEF IdleDrained
  <1>10. ok \in BOOLEAN
    BY DEF TypeOK
  <1>11. /\ ok => (added \ Rest(t)) \cap Fails = {}
         /\ ~ok => added \cap Fails # {}
    BY <1>1, <1>6, <1>9 DEF FlagSound, Busy, TypeOK
  <1>12. /\ \A u \in Threads \ {t} : batch[u] # {} <=> p[u] \in Busy
         /\ \A u \in Threads \ {t} : p[u] \in Busy /\ ~fOk[u] => added \cap Fails # {}
         /\ \A u \in Threads \ {t} : p[u] = "report" /\ fOk[u] => batch[u] \cap Fails = {}
         /\ Rest(t) \subseteq added
    BY <1>2, <1>6 DEF BatchOwned, FlagSound
  <1>13. Between(t, p, nIdle, nTotal, ok, todo)
    <2> HIDE DEF p, ok, todo
    <2> QED
      BY <1>2, <1>4, <1>5, <1>7, <1>9, <1>10, <1>11, <1>12
      DEF Between, IdleBound, TypeOK, VerdictPending
  <1> QED
    BY <1>1, <1>13, LoopBodyInv

-----------------------------------------------------------------------------
LEMMA ExecuteInv ==
  ASSUME IInv, NEW t \in Threads, Execute(t)
  PROVE  IInv'
  <1> USE DEF IInv, Execute, counters, control, shutdown
  <1>1. TypeOK'
    BY DEF TypeOK, Stages
  <1>2. Active' = Active /\ Parked' = Parked /\ Pending' = Pending
    BY DEF Active, Parked, Pending, TypeOK
  <1>3. BatchOwned' /\ BatchesDisjoint' /\ TodoExact' /\ ActiveExact' /\ IdleBound'
    BY <1>2 DEF BatchOwned, BatchesDisjoint, TodoExact, ActiveExact, IdleBound, TypeOK, Busy
  <1>4. pc'[Master] = "idle" <=> pc[Master] = "idle"
    BY DEF TypeOK
  <1>5. IdleDrained' /\ VerdictPending' /\ VerdictRight'
    BY <1>4 DEF IdleDrained, VerdictPending, VerdictRight
  <1>6. FlagSound'
    <2>1. \A u \in Threads \ {t} : pc'[u] = pc[u] /\ fOk'[u] = fOk[u]
      BY DEF TypeOK
    <2>2. pc'[t] = "report" /\ fOk'[t] = (fOk[t] /\ batch[t] \cap Fails = {})
      BY DEF TypeOK
    <2>3. batch[t] \subseteq Pending
      BY DEF Pending
    <2> QED
      BY <1>2, <1>4, <2>1, <2>2, <2>3 DEF FlagSound, Busy, TypeOK
  <1> QED
    BY <1>1, <1>3, <1>5, <1>6

\* Steps that move threads between stages without touching the queue.
LEMMA StageInv ==
  ASSUME IInv, TypeOK',
         UNCHANGED <<queue, counters, batch, fOk, added, verdict>>,
         \A u \in Threads : pc'[u] \in Busy \/ pc[u] \in Busy => pc'[u] = pc[u],
         \A u \in Threads : pc'[u] \in Asleep => pc[u] \in Asleep,
         pc'[Master] = "idle" <=> pc[Master] = "idle"
  PROVE  IInv'
  <1> USE DEF IInv, counters
  <1>1. Active' = Active /\ Parked' \subseteq Parked /\ Pending' = Pending
    BY DEF Active, Parked, Pending, Busy, Asleep
  <1>2. Cardinality(Parked') <= Cardinality(Parked)
    <2>1. IsFiniteSet(Parked)
      BY ThreadsFinite, FS_Subset DEF Parked
    <2> QED
      BY <1>1, <2>1, FS_Subset
  <1>3. BatchOwned' /\ BatchesDisjoint' /\ TodoExact' /\ ActiveExact'
    BY <1>1 DEF BatchOwned, BatchesDisjoint, TodoExact, ActiveExact
  <1>4. IdleBound'
    <2>1. IsFiniteSet(Parked) /\ IsFiniteSet(Parked')
      BY <1>1, ThreadsFinite, FS_Subset DEF Parked
    <2>2. Cardinality(Parked) \in Nat /\ Cardinality(Parked') \in Nat
      BY <2>1, FS_CardinalityType
    <2> QED
      BY <1>2, <2>2 DEF IdleBound, TypeOK
  <1>5. IdleDrained' /\ VerdictPending' /\ VerdictRight'
    BY DEF IdleDrained, VerdictPending, VerdictRight
  <1>6. FlagSound'
    BY <1>1 DEF FlagSound, Busy
  <1> QED
    BY <1>3, <1>4, <1>5, <1>6

LEMMA TypeStep ==
  ASSUME IInv, Next
  PROVE  TypeOK' \/ \E t \in Threads : Enter(t) \/ Wake(t) \/ Report(t) \/ Execute(t)
  <1> USE DEF IInv, TypeOK, Stages, vars, counters, locals, control, shutdown, Threads
  <1>1. ASSUME NEW S \in SUBSET (Checks \ added), Add(S) PROVE TypeOK'
    <2>1. Cardinality(S) \in Nat
      BY CheckSetsFinite
    <2>2. nTodo' \in Nat
      BY <1>1, <2>1 DEF Add
    <2> QED
      BY <1>1, <2>2 DEF Add
  <1>2. ASSUME NEW t \in Threads, ThrowInterrupted(t) PROVE TypeOK'
    BY <1>2 DEF ThrowInterrupted, Throws
  <1>3. ASSUME NEW t \in Threads, SpuriousWakeup(t) PROVE TypeOK'
    BY <1>3 DEF SpuriousWakeup
  <1>4. CASE InterruptAll \/ Terminate
    BY <1>4 DEF InterruptAll, Terminate
  <1>5. CASE Open \/ Wait \/ Abandon
    BY <1>5 DEF Open, Wait, Abandon
  <1>6. CASE UNCHANGED vars
    BY <1>6
  <1> QED
    BY <1>1, <1>2, <1>3, <1>4, <1>5, <1>6 DEF Next, Step, Environment

LEMMA AddInv ==
  ASSUME IInv, NEW S \in SUBSET (Checks \ added), Add(S), TypeOK'
  PROVE  IInv'
  <1> USE DEF IInv, Add, shutdown
  <1>1. PICK W \in Notified(Cardinality(S)) :
          pc' = [t \in Threads |-> IF t \in W THEN "woken" ELSE pc[t]]
    OBVIOUS
  <1>2. W \subseteq Waiting
    BY DEF Notified
  <1>3. /\ \A u \in Threads : pc'[u] \in Busy \/ pc[u] \in Busy => pc'[u] = pc[u]
        /\ \A u \in Threads : pc'[u] \in Asleep <=> pc[u] \in Asleep
        /\ pc'[Master] = "open"
    BY <1>1, <1>2, CheckQueueAssumption DEF Waiting, Busy, Asleep, Threads
  <1>4. Active' = Active /\ Parked' = Parked /\ Pending' = Pending \cup S
    BY <1>3 DEF Active, Parked, Pending, Busy, Asleep
  <1>5. TodoExact'
    <2>1. Pending \subseteq Checks /\ Pending \cap S = {}
      BY DEF FlagSound, TypeOK
    <2>2. IsFiniteSet(Pending) /\ IsFiniteSet(S) /\ Cardinality(Pending) \in Nat /\ Cardinality(S) \in Nat
      BY <2>1, CheckSetsFinite
    <2>3. Cardinality(Pending \cap S) = 0
      BY <2>1, FS_EmptySet
    <2>4. Cardinality(Pending \cup S) = Cardinality(Pending) + Cardinality(S) - Cardinality(Pending \cap S)
      BY <2>2, FS_Union
    <2> QED
      BY <2>2, <2>3, <2>4, <1>4 DEF TodoExact
  <1>6. BatchOwned' /\ ActiveExact' /\ IdleBound' /\ IdleDrained'
    BY <1>3, <1>4 DEF BatchOwned, ActiveExact, IdleBound, IdleDrained
  <1>7. BatchesDisjoint'
    <2>1. \A t \in Threads : batch[t] \subseteq added
      BY DEF FlagSound, Pending
    <2> QED
      BY <2>1 DEF BatchesDisjoint
  <1>8. VerdictPending' /\ VerdictRight'
    BY DEF VerdictPending, VerdictRight
  <1>9. FlagSound'
    <2>1. added' \ Pending' \subseteq added \ Pending /\ added \subseteq added'
      BY <1>4
    <2> QED
      BY <1>3, <1>4, <2>1 DEF FlagSound, Busy
  <1> QED
    BY <1>5, <1>6, <1>7, <1>8, <1>9

LEMMA OpenInv ==
  ASSUME IInv, Open, TypeOK'
  PROVE  IInv'
  <1> USE DEF IInv, Open, counters
  <1>1. nTodo = 0 /\ fAllOk
    BY DEF IdleDrained
  <1>2. Pending = {}
    <2>1. Pending \subseteq Checks
      BY DEF Pending, TypeOK
    <2> QED
      BY <1>1, <2>1, CheckSetsFinite DEF TodoExact
  <1>3. /\ \A u \in Threads : u # Master => pc'[u] = pc[u]
        /\ pc'[Master] = "open"
    BY DEF TypeOK, Threads
  <1>4. Active' = Active /\ Parked' = Parked /\ Pending' = Pending
    BY <1>3 DEF Active, Parked, Pending
  <1>5. BatchOwned' /\ BatchesDisjoint' /\ TodoExact' /\ ActiveExact' /\ IdleBound'
    BY <1>3, <1>4 DEF BatchOwned, BatchesDisjoint, TodoExact, ActiveExact, IdleBound, Busy
  <1>6. IdleDrained' /\ VerdictPending' /\ VerdictRight'
    BY <1>3 DEF IdleDrained, VerdictPending, VerdictRight
  <1>7. FlagSound'
    <2>1. \A u \in Threads : batch[u] = {}
      BY <1>2 DEF Pending
    <2>2. \A u \in Threads : pc'[u] \notin Busy
      BY <2>1, <1>3 DEF BatchOwned, Busy
    <2> QED
      BY <1>1, <1>2, <1>4, <2>2 DEF FlagSound, Busy
  <1> QED
    BY <1>5, <1>6, <1>7

LEMMA InitInv == Init => IInv
  <1> SUFFICES ASSUME Init PROVE IInv
    OBVIOUS
  <1> USE DEF Init
  <1>1. TypeOK
    BY DEF TypeOK, Stages
  <1>2. Active = {} /\ Parked = {} /\ Pending = {}
    BY DEF Active, Parked, Pending
  <1>3. Cardinality({}) = 0
    BY FS_EmptySet
  <1>4. TodoExact /\ ActiveExact /\ IdleBound
    BY <1>2, <1>3 DEF TodoExact, ActiveExact, IdleBound
  <1>5. BatchOwned /\ BatchesDisjoint /\ IdleDrained
    BY DEF BatchOwned, BatchesDisjoint, IdleDrained, Busy
  <1>6. Master \in Threads /\ pc[Master] = "idle"
    BY DEF Threads
  <1>7. FlagSound /\ VerdictPending /\ VerdictRight
    BY <1>2, <1>6 DEF FlagSound, VerdictPending, VerdictRight, Busy
  <1> QED
    BY <1>1, <1>4, <1>5, <1>7 DEF IInv

LEMMA NextInv == IInv /\ [Next]_vars => IInv'
  <1> SUFFICES ASSUME IInv, [Next]_vars PROVE IInv'
    OBVIOUS
  <1>1. CASE UNCHANGED vars
    BY <1>1 DEF vars, counters, locals, control, shutdown, IInv, TypeOK, BatchOwned,
       BatchesDisjoint, TodoExact, ActiveExact, IdleBound, IdleDrained, FlagSound,
       VerdictPending, VerdictRight, Pending, Active, Parked
  <1>2. ASSUME NEW t \in Threads, Enter(t) \/ Wake(t) \/ Report(t) \/ Execute(t)
        PROVE  IInv'
    BY <1>2, EnterInv, WakeInv, ReportInv, ExecuteInv
  <1>3. ASSUME TypeOK', NEW t \in Threads, ThrowInterrupted(t) \/ SpuriousWakeup(t)
        PROVE  IInv'
    BY <1>3, StageInv DEF ThrowInterrupted, Throws, SpuriousWakeup, IInv, TypeOK,
       Busy, Asleep, counters, control, shutdown, Threads
  <1>4. ASSUME TypeOK', InterruptAll \/ Terminate PROVE IInv'
    BY <1>4, StageInv DEF InterruptAll, Terminate, counters, locals, control
  <1>5. ASSUME TypeOK', Wait \/ Abandon PROVE IInv'
    BY <1>5, StageInv DEF Wait, Abandon, IInv, TypeOK, Busy, Asleep, counters, control, Threads
  <1>6. CASE Next
    BY <1>1, <1>2, <1>3, <1>4, <1>5, <1>6, TypeStep, AddInv, OpenInv
    DEF Next, Step, Environment
  <1> QED
    BY <1>1, <1>6

-----------------------------------------------------------------------------
\* IInv holds in every reachable state of CheckQueue.
THEOREM InvariantHolds == Spec => []IInv
  BY InitInv, NextInv, PTL DEF Spec

\* The variables stay in their types: positions, batches and counters.
THEOREM TypeCorrect == Spec => []TypeOK
  <1>1. IInv => TypeOK
    BY DEF IInv
  <1> QED
    BY <1>1, InvariantHolds, PTL

\* The batches in progress and the queue never share a check, however threads come and go.
THEOREM NoCheckTwice == Spec => []BatchesDisjoint
  <1>1. IInv => BatchesDisjoint
    BY DEF IInv
  <1> QED
    BY <1>1, InvariantHolds, PTL

\* The unsigned nTodo never wraps and counts the unmerged checks exactly, and
\* nTotal - nIdle the threads that hold a batch, in every interleaving of any number of
\* workers with the master.
THEOREM CountersAreExact == Spec => []CountersExact
  <1>1. IInv => CountersExact
    BY DEF IInv, CountersExact
  <1> QED
    BY <1>1, InvariantHolds, PTL

\* assert(isIdle) in the constructor of CCheckQueueControl never fails.
THEOREM ConstructorAssertHolds == Spec => []ConstructorAssert
  <1>1. IInv => ConstructorAssert
    <2> SUFFICES ASSUME IInv, pc[Master] = "idle" PROVE IsIdle
      BY DEF ConstructorAssert
    <2>1. nTodo = 0 /\ fAllOk
      BY DEF IInv, IdleDrained
    <2>2. Pending = {}
      <3>1. Pending \subseteq Checks
        BY DEF Pending, IInv, TypeOK
      <3> QED
        BY <2>1, <3>1, CheckSetsFinite DEF IInv, TodoExact
    <2>3. Active = {}
      BY <2>2 DEF Pending, Active, IInv, BatchOwned, Busy
    <2>4. nTotal = nIdle
      BY <2>3, FS_EmptySet DEF IInv, ActiveExact, TypeOK
    <2> QED
      BY <2>1, <2>4 DEF IsIdle
  <1> QED
    BY <1>1, InvariantHolds, PTL

\* Wait's result is the conjunction of the checks added since the constructor.
THEOREM VerdictIsConjunction == Spec => []VerdictRight
  <1>1. IInv => VerdictRight
    BY DEF IInv
  <1> QED
    BY <1>1, InvariantHolds, PTL

-----------------------------------------------------------------------------
Phase == IF terminated THEN "terminated"
         ELSE IF pc[Master] \in {"idle", "open"} THEN pc[Master]
         ELSE "draining"

\* Everything a thread does between two calls of ConnectBlock is invisible,
\* except the master's return, which delivers the verdict.
LEMMA LoopBodyRefines ==
  ASSUME IInv, IInv', ~terminated,
         NEW t \in Threads, NEW p, NEW idle, NEW total, NEW ok, NEW todo,
         p \in [Threads -> Stages],
         t = Master => pc[Master] \notin {"idle", "open"},
         p[Master] \in {"idle", "open"} \/ pc[Master] \in {"idle", "open"} => p[Master] = pc[Master],
         LoopBody(t, p, idle, total, ok, todo)
  PROVE  [Abs!Next]_(Abs!vars)
  <1> USE DEF LoopBody, shutdown, Abs!Next, Abs!vars
  <1>0. Master \in Threads
    BY DEF Threads
  <1>1. CASE queue = {} /\ MayReturn(t, todo) /\ Return(t, p, idle, total, ok)
    <2>1. t = Master /\ pc'[Master] = "idle" /\ pc[Master] \notin {"idle", "open"}
      BY <1>0, <1>1 DEF MayReturn, Return
    <2>2. terminated' = terminated /\ added' = added /\ verdict' = Verdict(ok)
      BY <1>1 DEF Return
    <2>3. /\ verdict' = "valid" => added \cap Fails = {}
          /\ verdict' = "invalid" => added \cap Fails # {}
      BY <2>2 DEF IInv, VerdictRight
    <2>4. verdict' \in {"aborted", IF added \cap Fails = {} THEN "valid" ELSE "invalid"}
      BY <2>2, <2>3 DEF Verdict
    <2>5. Abs!Finish
      BY <2>1, <2>2, <2>4 DEF Abs!Finish
    <2> QED
      BY <2>5
  <1>2. CASE Sleep(t, p, idle, total, ok) \/ TakeBatch(t, p, idle, total, ok)
    <2>1. terminated' = terminated /\ added' = added /\ verdict' = verdict
      BY <1>2 DEF Sleep, TakeBatch
    <2>2. Phase' = Phase
      BY <1>0, <1>2, <2>1 DEF Phase, Sleep, TakeBatch
    <2> QED
      BY <2>1, <2>2 DEF Phase
  <1> QED
    BY <1>1, <1>2

LEMMA StepRefines ==
  ASSUME IInv, IInv', Next
  PROVE  [Abs!Next]_(Abs!vars)
  <1> USE DEF Abs!vars, counters, control, locals, shutdown, vars
  <1>0. Master \in Threads /\ pc \in [Threads -> Stages]
    BY DEF IInv, TypeOK, Threads
  <1>1. ASSUME NEW t \in Threads, ~terminated, Enter(t) \/ Wake(t) PROVE [Abs!Next]_(Abs!vars)
    <2>1. t = Master => pc[Master] \notin {"idle", "open"}
      BY <1>1 DEF Enter, Wake
    <2>2. PICK idle, total : LoopBody(t, pc, idle, total, fAllOk, nTodo)
      BY <1>1 DEF Enter, Wake
    <2> QED
      BY <1>0, <1>1, <2>1, <2>2, LoopBodyRefines
  <1>2. ASSUME NEW t \in Threads, ~terminated, Report(t) PROVE [Abs!Next]_(Abs!vars)
    <2> DEFINE todo == nTodo - Cardinality(batch[t])
               p == NotifyMaster(t, todo)
    <2>1. /\ p \in [Threads -> Stages]
          /\ p[Master] \in {"idle", "open"} \/ pc[Master] \in {"idle", "open"} => p[Master] = pc[Master]
      BY <1>0 DEF NotifyMaster, Stages
    <2>2. t = Master => pc[Master] \notin {"idle", "open"}
      BY <1>2 DEF Report
    <2>3. LoopBody(t, p, nIdle, nTotal, fAllOk /\ fOk[t], todo)
      BY <1>2 DEF Report
    <2> HIDE DEF p, todo
    <2> QED
      BY <1>2, <2>1, <2>2, <2>3, LoopBodyRefines
  <1>3. ASSUME NEW t \in Threads, ~terminated, Execute(t) \/ ThrowInterrupted(t) \/ SpuriousWakeup(t)
        PROVE  UNCHANGED Abs!vars
    <2>1. terminated' = terminated /\ added' = added /\ verdict' = verdict
      BY <1>3 DEF Execute, ThrowInterrupted, SpuriousWakeup
    <2>2. Phase' = Phase
      BY <1>0, <1>3, <2>1 DEF Phase, Execute, ThrowInterrupted, Throws, SpuriousWakeup
    <2> QED
      BY <2>1, <2>2 DEF Phase
  <1>4. ASSUME ~terminated, NEW S \in SUBSET (Checks \ added), Add(S) PROVE Abs!Add
    <2>1. pc'[Master] = pc[Master]
      <3>1. PICK W \in Notified(Cardinality(S)) :
              pc' = [t \in Threads |-> IF t \in W THEN "woken" ELSE pc[t]]
        BY <1>4 DEF Add
      <3>2. W \subseteq Waiting
        BY DEF Notified
      <3>3. Master \notin Waiting
        BY CheckQueueAssumption DEF Waiting
      <3> QED
        BY <1>0, <3>1, <3>2, <3>3
    <2> QED
      BY <1>4, <2>1 DEF Add, Abs!Add
  <1>5. ASSUME ~terminated, Open PROVE Abs!Open
    BY <1>0, <1>5 DEF Open, Abs!Open
  <1>6. ASSUME ~terminated, Wait \/ Abandon PROVE Abs!Close
    BY <1>0, <1>6 DEF Wait, Abandon, Abs!Close
  <1>7. ASSUME ~terminated, Terminate PROVE Abs!Terminate
    BY <1>7 DEF Terminate, Throws, Abs!Terminate
  <1>8. ASSUME ~terminated, InterruptAll PROVE UNCHANGED Abs!vars
    BY <1>8 DEF InterruptAll
  <1>9. CASE UNCHANGED vars
    BY <1>9
  <1> QED
    BY <1>1, <1>2, <1>3, <1>4, <1>5, <1>6, <1>7, <1>8, <1>9
    DEF Next, Step, Environment, Abs!Next

\* The queue implements the sequential object of CheckQueueAbs (its safety
\* part): ConnectBlock cannot tell how many threads ran its checks.
THEOREM Refinement == Spec => Abs!Spec
  <1>1. Init => Abs!Init
    BY DEF Init, Abs!Init, Threads
  <1>2. IInv /\ IInv' /\ [Next]_vars => [Abs!Next]_(Abs!vars)
    <2>1. CASE Next
      BY <2>1, StepRefines
    <2>2. CASE UNCHANGED vars
      BY <2>2 DEF vars, Abs!vars, locals, control, shutdown
    <2> QED
      BY <2>1, <2>2
  <1> QED
    BY <1>1, <1>2, InvariantHolds, PTL DEF Spec, Abs!Spec
-----------------------------------------------------------------------------
(***************************************************************************)
(* Why Wait returns (WaitReturns without its fairness): the master never   *)
(* sleeps with nobody at work, and until it returns the checks that are    *)
(* left only become fewer, by a whole batch with every report.             *)
(***************************************************************************)
SomebodyWorks ==
    pc[Master] = "wait" => queue = {} /\ \E w \in Workers : pc[w] \in Busy

\* The inductive form: a sleeping master left nothing in the queue and is owed results.
WaiterServed == pc[Master] = "wait" => queue = {} /\ nTodo # 0

\* A report takes its whole batch, which is not empty, off what is left to be
\* merged; no other step of a thread changes it, and nothing but Add adds to it.
DrainStep ==
    /\ pc[Master] # "open" => Pending' \subseteq Pending
    /\ \A t \in Threads : pc[t] = "report" /\ pc'[t] # "report" =>
          batch[t] # {} /\ batch[t] \subseteq Pending /\ Pending' = Pending \ batch[t]

\* The master falls asleep only in Sleep, with checks still owed.
LEMMA LoopBodyServed ==
  ASSUME IInv, NEW t \in Threads, NEW p, NEW idle, NEW total, NEW ok, NEW todo,
         p \in [Threads -> Stages],
         p[Master] = "wait" => t # Master /\ queue = {} /\ todo # 0,
         LoopBody(t, p, idle, total, ok, todo)
  PROVE  WaiterServed'
  <1>0. Master \in Threads
    BY DEF Threads
  <1>1. CASE queue = {} /\ MayReturn(t, todo) /\ Return(t, p, idle, total, ok)
    BY <1>0, <1>1 DEF MayReturn, Return, WaiterServed, LoopBody
  <1>2. CASE queue = {} /\ ~MayReturn(t, todo) /\ Sleep(t, p, idle, total, ok)
    BY <1>0, <1>2 DEF MayReturn, Sleep, WaiterServed, LoopBody
  <1>3. CASE queue # {} /\ TakeBatch(t, p, idle, total, ok)
    BY <1>0, <1>3 DEF TakeBatch, WaiterServed, LoopBody
  <1> QED
    BY <1>1, <1>2, <1>3 DEF LoopBody

LEMMA ServedStep == IInv /\ WaiterServed /\ [Next]_vars => WaiterServed'
  <1> SUFFICES ASSUME IInv, WaiterServed, [Next]_vars PROVE WaiterServed'
    OBVIOUS
  <1>0. Master \in Threads /\ Master \notin Workers /\ pc \in [Threads -> Stages]
    BY CheckQueueAssumption DEF Threads, IInv, TypeOK
  <1>1. CASE UNCHANGED vars
    BY <1>1 DEF vars, counters, locals, WaiterServed
  <1>2. ASSUME NEW t \in Threads, Enter(t) \/ Wake(t) PROVE WaiterServed'
    <2>1. PICK idle, total : LoopBody(t, pc, idle, total, fAllOk, nTodo)
      BY <1>2 DEF Enter, Wake
    <2>2. pc[t] # "wait"
      BY <1>2 DEF Enter, Wake
    <2> QED
      BY <1>0, <2>1, <2>2, LoopBodyServed DEF WaiterServed
  <1>3. ASSUME NEW t \in Threads, Report(t) PROVE WaiterServed'
    <2> DEFINE todo == nTodo - Cardinality(batch[t])
               p == NotifyMaster(t, todo)
    <2>1. p \in [Threads -> Stages]
      BY <1>0 DEF NotifyMaster, Stages
    <2>2. p[Master] = "wait" => pc[Master] = "wait" /\ t # Master /\ todo # 0
      BY <1>0, <1>3 DEF NotifyMaster, Report
    <2>3. LoopBody(t, p, nIdle, nTotal, fAllOk /\ fOk[t], todo)
      BY <1>3 DEF Report
    <2> HIDE DEF todo, p
    <2> QED
      BY <2>1, <2>2, <2>3, LoopBodyServed DEF WaiterServed
  <1>4. ASSUME NEW t \in Threads, Execute(t) \/ ThrowInterrupted(t) \/ SpuriousWakeup(t)
        PROVE  WaiterServed'
    BY <1>0, <1>4 DEF Execute, ThrowInterrupted, SpuriousWakeup, WaiterServed, counters
  <1>5. ASSUME NEW S \in SUBSET (Checks \ added), Add(S) PROVE WaiterServed'
    <2>1. PICK W \in Notified(Cardinality(S)) :
            pc' = [t \in Threads |-> IF t \in W THEN "woken" ELSE pc[t]]
      BY <1>5 DEF Add
    <2>2. pc'[Master] # "wait"
      BY <1>0, <1>5, <2>1 DEF Add
    <2> QED
      BY <2>2 DEF WaiterServed
  <1>6. CASE InterruptAll \/ Terminate \/ Open \/ Wait \/ Abandon
    BY <1>0, <1>6 DEF InterruptAll, Terminate, Open, Wait, Abandon, WaiterServed, counters, locals
  <1> QED
    BY <1>1, <1>2, <1>3, <1>4, <1>5, <1>6 DEF Next, Step, Environment

\* While the master sleeps in Wait some worker holds a batch: no notification
\* that it needs has been sent too early, to nobody, or by a thread that died, for any
\* number of workers, spurious wakeups and interruptions.
THEOREM MasterIsAwaited == Spec => []SomebodyWorks
  <1>1. Init => WaiterServed
    BY DEF Init, WaiterServed, Threads
  <1>2. IInv /\ WaiterServed => SomebodyWorks
    <2> SUFFICES ASSUME IInv, WaiterServed, pc[Master] = "wait" PROVE SomebodyWorks
      BY DEF SomebodyWorks
    <2>1. queue = {} /\ nTodo # 0
      BY DEF WaiterServed
    <2>2. Pending # {}
      BY <2>1, CheckSetsFinite, FS_EmptySet DEF IInv, TodoExact
    <2>3. PICK t \in Threads : batch[t] # {}
      BY <2>1, <2>2 DEF Pending
    <2>4. pc[t] \in Busy
      BY <2>3 DEF IInv, BatchOwned
    <2>5. t \in Workers
      BY <2>4 DEF Threads, Busy
    <2> QED
      BY <2>1, <2>4, <2>5 DEF SomebodyWorks
  <1> QED
    BY <1>1, <1>2, ServedStep, InvariantHolds, PTL DEF Spec

-----------------------------------------------------------------------------
\* LoopBody only moves checks from the queue to the batch of its thread.
LEMMA LoopBodyKeeps ==
  ASSUME IInv, NEW t \in Threads, NEW p, NEW idle, NEW total, NEW ok, NEW todo,
         p \in [Threads -> Stages],
         LoopBody(t, p, idle, total, ok, todo)
  PROVE  /\ Pending' = Rest(t)
         /\ \A u \in Threads \ {t} : pc'[u] = p[u]
  <1>0. batch \in [Threads -> SUBSET Checks]
    BY DEF IInv, TypeOK
  <1>1. CASE queue = {} /\ (Return(t, p, idle, total, ok) \/ Sleep(t, p, idle, total, ok))
    <2>1. batch' = [batch EXCEPT ![t] = {}] /\ queue' = queue
      BY <1>1 DEF Return, Sleep
    <2>2. Pending' = Rest(t)
      BY <1>0, <2>1 DEF Pending, Rest
    <2> QED
      BY <1>1, <2>2 DEF Return, Sleep
  <1>2. CASE TakeBatch(t, p, idle, total, ok)
    <2>1. PICK S \in SUBSET queue : queue' = queue \ S /\ batch' = [batch EXCEPT ![t] = S]
      BY <1>2 DEF TakeBatch
    <2>2. \A u \in Threads : batch'[u] = IF u = t THEN S ELSE batch[u]
      BY <1>0, <2>1
    <2>3. Pending' = Rest(t)
      BY <2>1, <2>2 DEF Pending, Rest
    <2> QED
      BY <1>2, <2>3 DEF TakeBatch
  <1> QED
    BY <1>1, <1>2 DEF LoopBody

\* Until Wait has returned nothing is added, and every report takes at least
\* one check off what is left: the unsigned nTodo can only fall to zero, and nobody else
\* than the thread that took a check ever reports it.
THEOREM DrainOnlyShrinks == Spec => [][DrainStep]_vars
  <1>1. ASSUME IInv, [Next]_vars PROVE [DrainStep]_vars
    <2>0. pc \in [Threads -> Stages] /\ \A t \in Threads : Rest(t) \subseteq Pending
      BY <1>1 DEF IInv, TypeOK, Rest, Pending
    <2>1. ASSUME NEW t \in Threads, Enter(t) \/ Wake(t) PROVE DrainStep
      <3>1. PICK idle, total : LoopBody(t, pc, idle, total, fAllOk, nTodo)
        BY <2>1 DEF Enter, Wake
      <3>2. Pending' = Rest(t) /\ \A u \in Threads \ {t} : pc'[u] = pc[u]
        BY <1>1, <2>0, <3>1, LoopBodyKeeps
      <3>3. pc[t] # "report"
        BY <2>1 DEF Enter, Wake
      <3> QED
        BY <2>0, <3>2, <3>3 DEF DrainStep
    <2>2. ASSUME NEW t \in Threads, Report(t) PROVE DrainStep
      <3> DEFINE todo == nTodo - Cardinality(batch[t])
                 p == NotifyMaster(t, todo)
      <3>1. p \in [Threads -> Stages] /\ \A u \in Threads : pc[u] = "report" => p[u] = "report"
        BY <2>0 DEF NotifyMaster, Stages, Threads
      <3>2. LoopBody(t, p, nIdle, nTotal, fAllOk /\ fOk[t], todo)
        BY <2>2 DEF Report
      <3>3. Pending' = Rest(t) /\ \A u \in Threads \ {t} : pc'[u] = p[u]
        <4> HIDE DEF p, todo
        <4> QED
          BY <1>1, <3>1, <3>2, LoopBodyKeeps
      <3>4. batch[t] # {} /\ batch[t] \subseteq Pending /\ Rest(t) = Pending \ batch[t]
        BY <1>1, <2>2 DEF Report, IInv, BatchOwned, Busy, BatchesDisjoint, Rest, Pending
      <3>5. \A u \in Threads : pc[u] = "report" /\ pc'[u] # "report" => u = t
        BY <3>1, <3>3
      <3> HIDE DEF p, todo
      <3> QED
        BY <2>0, <3>3, <3>4, <3>5 DEF DrainStep
    <2>3. ASSUME NEW t \in Threads, Execute(t) \/ ThrowInterrupted(t) \/ SpuriousWakeup(t)
          PROVE  DrainStep
      <3>1. Pending' = Pending
        BY <2>3 DEF Execute, ThrowInterrupted, SpuriousWakeup, Pending
      <3>2. \A u \in Threads : pc[u] = "report" => pc'[u] = "report"
        BY <2>0, <2>3 DEF Execute, ThrowInterrupted, Throws, SpuriousWakeup
      <3> QED
        BY <3>1, <3>2 DEF DrainStep
    <2>4. ASSUME NEW S \in SUBSET (Checks \ added), Add(S) PROVE DrainStep
      <3>1. PICK W \in Notified(Cardinality(S)) :
              pc' = [t \in Threads |-> IF t \in W THEN "woken" ELSE pc[t]]
        BY <2>4 DEF Add
      <3>2. W \subseteq Waiting
        BY DEF Notified
      <3>3. \A u \in Threads : pc[u] = "report" => pc'[u] = "report"
        BY <3>1, <3>2 DEF Waiting
      <3> QED
        BY <2>4, <3>3 DEF DrainStep, Add
    <2>5. CASE InterruptAll \/ Terminate \/ Open \/ Wait \/ Abandon
      <3>1. Pending' = Pending
        BY <2>5 DEF InterruptAll, Terminate, Open, Wait, Abandon, Pending, locals
      <3>2. \A u \in Threads : pc[u] = "report" => pc'[u] = "report"
        BY <2>0, <2>5 DEF InterruptAll, Terminate, Open, Wait, Abandon, locals
      <3> QED
        BY <3>1, <3>2 DEF DrainStep
    <2> QED
      BY <1>1, <2>1, <2>2, <2>3, <2>4, <2>5 DEF Next, Step, Environment
  <1> QED
    BY <1>1, InvariantHolds, PTL DEF Spec
=============================================================================
