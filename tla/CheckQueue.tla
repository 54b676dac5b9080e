----------------------------- MODULE CheckQueue -----------------------------
(***************************************************************************)
(* CCheckQueue and CCheckQueueControl (src/src/checkqueue.h): the queue    *)
(* that spreads the script checks of one block over the threads started in *)
(* init.cpp.  Every region the queue's mutex guards is one atomic action;  *)
(* the code between two such regions touches only the thread's own batch.  *)
(*                                                                         *)
(* A thread in Loop is at one of                                           *)
(*   "start"   about to lock the mutex for the first time (nNow = 0)       *)
(*   "wait"    inside cond.wait, counted in nIdle                          *)
(*   "woken"   notified (or spuriously awake), not yet holding the mutex   *)
(*   "work"    owns a batch, has not run it yet                            *)
(*   "report"  has run its batch, about to lock the mutex again            *)
(*   "dead"    left cond.wait through boost::thread_interrupted            *)
(* The master - whichever thread runs ConnectBlock under cs_main - is also *)
(* "idle" (no CCheckQueueControl alive) or "open" (adding checks).         *)
(* The order of the vector of checks decides nothing: it is a set here.    *)
(***************************************************************************)
EXTENDS Integers, FiniteSets

CONSTANTS
    Workers,    \* the nScriptCheckThreads - 1 ThreadScriptCheck threads
    Master,     \* the thread that runs ConnectBlock
    Checks,     \* the script checks one block may need
    Fails,      \* those whose operator() returns false
    BatchSize   \* nBatchSize

ASSUME CheckQueueAssumption ==
    /\ IsFiniteSet(Workers)
    /\ Master \notin Workers
    /\ IsFiniteSet(Checks)
    /\ Fails \subseteq Checks
    /\ BatchSize \in Nat \ {0}

VARIABLES
    queue,       \* checks nobody has taken
    nIdle, nTotal, nTodo, fAllOk,
    pc,          \* where each thread is
    batch,       \* vChecks/nNow: the checks a thread took and has not reported
    fOk,         \* the local fOk of each thread
    unwinding,   \* the running Wait was called by ~CCheckQueueControl
    added,       \* history: the checks given to the current control object
    verdict,     \* what the last control object ended with
    interrupted, \* threads with a pending boost interruption request
    stopping,    \* threadGroup.interrupt_all() has been called
    terminated   \* std::terminate() has been called

counters == <<nIdle, nTotal, nTodo, fAllOk>>
locals   == <<pc, batch, fOk>>
control  == <<unwinding, added, verdict>>
shutdown == <<interrupted, stopping, terminated>>
vars     == <<queue, counters, locals, control, shutdown>>

Threads == Workers \cup {Master}
Stages  == {"idle", "open", "start", "wait", "woken", "work", "report", "dead"}

TypeOK ==
    /\ queue \subseteq Checks
    /\ nIdle \in Nat /\ nTotal \in Nat /\ nTodo \in Nat
    /\ fAllOk \in BOOLEAN
    /\ pc \in [Threads -> Stages]
    /\ batch \in [Threads -> SUBSET Checks]
    /\ fOk \in [Threads -> BOOLEAN]
    /\ unwinding \in BOOLEAN
    /\ added \subseteq Checks
    /\ verdict \in {"none", "valid", "invalid", "aborted"}
    /\ interrupted \subseteq Threads
    /\ stopping \in BOOLEAN /\ terminated \in BOOLEAN

Init ==
    /\ queue = {} /\ added = {}
    /\ nIdle = 0 /\ nTotal = 0 /\ nTodo = 0 /\ fAllOk = TRUE
    /\ pc = [t \in Threads |-> IF t = Master THEN "idle" ELSE "start"]
    /\ batch = [t \in Threads |-> {}]
    /\ fOk = [t \in Threads |-> TRUE]
    /\ unwinding = FALSE /\ verdict = "none"
    /\ interrupted = {} /\ stopping = FALSE /\ terminated = FALSE

(***************************************************************************)
(* Loop.  LoopBody is lines 91-120, entered with the mutex held, after p,  *)
(* idle, total, ok and todo have replaced pc, nIdle, nTotal, fAllOk and    *)
(* nTodo.  fQuit is never set, so only the master can return.              *)
(***************************************************************************)
IsIdle == nTotal = nIdle /\ nTodo = 0 /\ fAllOk

\* Mutant: nobody asks whether the other threads are done.
MayReturn_NoTodo(t, todo) == t = Master
MayReturn(t, todo) == t = Master /\ todo = 0

Verdict(ok) == IF unwinding THEN "aborted" ELSE IF ok THEN "valid" ELSE "invalid"

\* Mutant: the flag is not re-armed.
FlagAfterReturn_Kept(ok) == ok

\* The master re-arms fAllOk before it leaves.
FlagAfterReturn(ok) == TRUE

Return(t, p, idle, total, ok) ==
    /\ nTotal' = total - 1
    /\ nIdle' = idle
    /\ fAllOk' = FlagAfterReturn(ok)
    /\ verdict' = Verdict(ok)
    /\ unwinding' = FALSE
    /\ pc' = [p EXCEPT ![t] = "idle"]
    /\ batch' = [batch EXCEPT ![t] = {}]
    /\ UNCHANGED <<queue, fOk>>

Sleep(t, p, idle, total, ok) ==
    /\ nTotal' = total
    /\ nIdle' = idle + 1
    /\ fAllOk' = ok
    /\ pc' = [p EXCEPT ![t] = "wait"]
    /\ batch' = [batch EXCEPT ![t] = {}]
    /\ UNCHANGED <<queue, fOk, unwinding, verdict>>

\* max(1, min(nBatchSize, queue.size() / (nTotal + nIdle + 1)))
BatchCount(idle, total) ==
    LET share == Cardinality(queue) \div (total + idle + 1)
        capped == IF BatchSize < share THEN BatchSize ELSE share
    IN  IF capped < 1 THEN 1 ELSE capped

\* Mutant: only one check of the batch leaves the queue.
TakeBatch_LeavesQueued(t, p, idle, total, ok) ==
    /\ nTotal' = total
    /\ nIdle' = idle
    /\ fAllOk' = ok
    /\ \E S \in SUBSET queue :
          /\ Cardinality(S) = BatchCount(idle, total)
          /\ \E c \in S : queue' = queue \ {c}
          /\ batch' = [batch EXCEPT ![t] = S]
    /\ fOk' = [fOk EXCEPT ![t] = ok]
    /\ pc' = [p EXCEPT ![t] = "work"]
    /\ UNCHANGED <<unwinding, verdict>>

TakeBatch(t, p, idle, total, ok) ==
    /\ nTotal' = total
    /\ nIdle' = idle
    /\ fAllOk' = ok
    /\ \E S \in SUBSET queue :
          /\ Cardinality(S) = BatchCount(idle, total)
          /\ queue' = queue \ S
          /\ batch' = [batch EXCEPT ![t] = S]
    /\ fOk' = [fOk EXCEPT ![t] = ok]
    /\ pc' = [p EXCEPT ![t] = "work"]
    /\ UNCHANGED <<unwinding, verdict>>

LoopBody(t, p, idle, total, ok, todo) ==
    /\ nTodo' = todo
    /\ UNCHANGED <<added, shutdown>>
    /\ \/ queue = {} /\ MayReturn(t, todo) /\ Return(t, p, idle, total, ok)
       \/ queue = {} /\ ~MayReturn(t, todo) /\ Sleep(t, p, idle, total, ok)
       \/ queue # {} /\ TakeBatch(t, p, idle, total, ok)

\* Lines 78-88 with nNow = 0.
Enter(t) ==
    /\ pc[t] = "start"
    /\ LoopBody(t, pc, nIdle, nTotal + 1, fAllOk, nTodo)

\* cond.wait returns, with the mutex held, to a thread nobody interrupted.
Wake(t) ==
    /\ pc[t] = "woken"
    /\ t \notin interrupted
    /\ LoopBody(t, pc, nIdle - 1, nTotal, fAllOk, nTodo)

\* Mutant: the last worker does not notify.
NotifyMaster_Never(t, todo) == pc

\* condMaster.notify_one(): nobody but the master ever waits there.
NotifyMaster(t, todo) ==
    IF todo = 0 /\ t # Master /\ pc[Master] = "wait"
    THEN [pc EXCEPT ![Master] = "woken"]
    ELSE pc

\* Mutants: the last result wins; a full batch is always subtracted.
Report_Overwrite(t) ==
    LET todo == nTodo - Cardinality(batch[t])
    IN  /\ pc[t] = "report"
        /\ LoopBody(t, NotifyMaster(t, todo), nIdle, nTotal, fOk[t], todo)

Report_FullBatch(t) ==
    LET todo == nTodo - BatchSize
    IN  /\ pc[t] = "report"
        /\ LoopBody(t, NotifyMaster(t, todo), nIdle, nTotal, fAllOk /\ fOk[t], todo)

\* Lines 78-85: the results of the batch are merged, then the loop goes on.
Report(t) ==
    LET todo == nTodo - Cardinality(batch[t])
    IN  /\ pc[t] = "report"
        /\ LoopBody(t, NotifyMaster(t, todo), nIdle, nTotal, fAllOk /\ fOk[t], todo)

\* Lines 122-125, outside the mutex.  Checks after the first failing one are
\* skipped, and all of them are when fAllOk was already false.
Execute(t) ==
    /\ pc[t] = "work"
    /\ fOk' = [fOk EXCEPT ![t] = @ /\ batch[t] \cap Fails = {}]
    /\ pc' = [pc EXCEPT ![t] = "report"]
    /\ UNCHANGED <<queue, counters, batch, control, shutdown>>

SpuriousWakeup(t) ==
    /\ pc[t] = "wait"
    /\ pc' = [pc EXCEPT ![t] = "woken"]
    /\ UNCHANGED <<queue, counters, batch, fOk, control, shutdown>>

(***************************************************************************)
(* Interruption at shutdown.  cond.wait is the only interruption point of  *)
(* the loop; it throws past nIdle-- and nTotal--.  A worker ends there.    *)
(* In the master the exception leaves Wait and unwinds ConnectBlock, whose *)
(* CCheckQueueControl calls Wait again because fDone is still false.  When *)
(* it is that destructor's own Wait that throws, the process terminates:   *)
(* destructors are noexcept.                                               *)
(***************************************************************************)
\* The master may be an RPC thread, which is not in the thread group.
InterruptAll ==
    /\ ~stopping
    /\ stopping' = TRUE
    /\ interrupted' \in {Workers, Threads}
    /\ UNCHANGED <<queue, counters, locals, control, terminated>>

Throws(t) == t \in interrupted /\ pc[t] \in {"wait", "woken"}

ThrowInterrupted(t) ==
    /\ Throws(t)
    /\ ~(t = Master /\ unwinding)
    /\ interrupted' = interrupted \ {t}
    /\ pc' = [pc EXCEPT ![t] = IF t = Master THEN "start" ELSE "dead"]
    /\ unwinding' = (unwinding \/ t = Master)
    /\ UNCHANGED <<queue, counters, batch, fOk, added, verdict, stopping, terminated>>

Terminate ==
    /\ Throws(Master)
    /\ unwinding
    /\ terminated' = TRUE
    /\ UNCHANGED <<queue, counters, locals, control, interrupted, stopping>>

(***************************************************************************)
(* The master: CCheckQueueControl in ConnectBlock.                         *)
(***************************************************************************)
\* The constructor.  The next block may be connected by another thread, one
\* without the pending request.
Open ==
    /\ pc[Master] = "idle"
    /\ pc' = [pc EXCEPT ![Master] = "open"]
    /\ added' = {}
    /\ verdict' = "none"
    /\ interrupted' \in {interrupted, interrupted \ {Master}}
    /\ UNCHANGED <<queue, counters, batch, fOk, unwinding, stopping, terminated>>

Waiting == {w \in Workers : pc[w] = "wait"}

\* The sets of workers condWorker.notify_one / notify_all may wake.
Notified(n) ==
    IF n = 1 /\ Waiting # {} THEN {{w} : w \in Waiting}
    ELSE IF n > 1 THEN {Waiting} ELSE {{}}

Add(S) ==
    /\ pc[Master] = "open"
    /\ queue' = queue \cup S
    /\ nTodo' = nTodo + Cardinality(S)
    /\ added' = added \cup S
    /\ \E W \in Notified(Cardinality(S)) :
          pc' = [t \in Threads |-> IF t \in W THEN "woken" ELSE pc[t]]
    /\ UNCHANGED <<nIdle, nTotal, fAllOk, batch, fOk, unwinding, verdict, shutdown>>

\* control.Wait() at the end of ConnectBlock ...
Wait ==
    /\ pc[Master] = "open"
    /\ pc' = [pc EXCEPT ![Master] = "start"]
    /\ UNCHANGED <<queue, counters, batch, fOk, control, shutdown>>

\* ... or the destructor, when ConnectBlock returns before that line.
Abandon ==
    /\ pc[Master] = "open"
    /\ pc' = [pc EXCEPT ![Master] = "start"]
    /\ unwinding' = TRUE
    /\ UNCHANGED <<queue, counters, batch, fOk, added, verdict, shutdown>>

Step(t) ==
    /\ ~terminated
    /\ Enter(t) \/ Wake(t) \/ Execute(t) \/ Report(t) \/ ThrowInterrupted(t)

Environment ==
    /\ ~terminated
    /\ \/ \E t \in Threads : SpuriousWakeup(t)
       \/ InterruptAll \/ Terminate
       \/ Open \/ Wait \/ Abandon
       \/ \E S \in SUBSET (Checks \ added) : Add(S)

Next ==
    \/ \E t \in Threads : Step(t)
    \/ Environment
    \/ terminated /\ UNCHANGED vars

\* The operating system runs every thread that is not blocked; nothing forces
\* a spurious wakeup, a shutdown, or a further block.
Fairness ==
    /\ \A t \in Threads : WF_vars(Step(t))
    /\ WF_vars(Terminate /\ ~terminated)

Spec == Init /\ [][Next]_vars
FairSpec == Spec /\ Fairness

-----------------------------------------------------------------------------
\* What ConnectBlock may rely on (see CheckQueueAbs), and the mapping to it.
Abs == INSTANCE CheckQueueAbs WITH
         phase <- IF terminated THEN "terminated"
                  ELSE IF pc[Master] \in {"idle", "open"} THEN pc[Master]
                  ELSE "draining"

Pending == queue \cup UNION {batch[t] : t \in Threads}
Active  == {t \in Threads : pc[t] \in {"work", "report"}}
Parked  == {t \in Threads : pc[t] \in {"wait", "woken"}}

\* nTodo, an unsigned counter that every thread decrements by its own batch
\* size, is exactly the number of checks queued or still in somebody's batch:
\* it never wraps, and it is zero exactly when every result has been merged.
TodoExact == nTodo = Cardinality(Pending)

\* Each check is in the queue or in one batch, never in two.
BatchesDisjoint ==
    /\ \A t \in Threads : batch[t] \cap queue = {}
    /\ \A t, u \in Threads : t # u => batch[t] \cap batch[u] = {}

\* nTotal - nIdle counts the threads that hold a batch, also after threads
\* have left cond.wait through an exception without decrementing either.
ActiveExact == nTotal - nIdle = Cardinality(Active)

\* Both together: what Wait, the workers and the next block's assertion go by is true of
\* the threads and their batches, in every interleaving and after any interruption.
CountersExact == TodoExact /\ ActiveExact

\* assert(isIdle) in CCheckQueueControl's constructor cannot fail: whatever
\* happened to the previous block (success, failure, early return, interrupted
\* Wait), the queue it left behind is drained, balanced and re-armed.
ConstructorAssert == pc[Master] = "idle" => IsIdle

\* A block is accepted only if every check it added passed, and refused only
\* if one of them failed; batches skipped after a failure change nothing.
VerdictRight ==
    /\ verdict = "valid" => added \cap Fails = {}
    /\ verdict = "invalid" => added \cap Fails # {}

\* ConnectBlock sees the sequential object of CheckQueueAbs: one verdict per
\* control object, computed from all of its checks, and always delivered.
Implements == Abs!FairSpec

\* Wait always returns: no lost notification, dead worker or spurious wakeup
\* leaves the master (which holds cs_main) asleep for ever, unless the
\* destructor's Wait is interrupted and takes the process down.
WaitReturns == pc[Master] = "start" ~> (pc[Master] = "idle" \/ terminated)
=============================================================================
