-------------------------- MODULE ExecutionProofs --------------------------
(* Proofs about what executes work and survives its death: BatchExecutor for  *)
(* every pool, work list, budget and policy, and Workflow for every list of   *)
(* steps and however often it dies and is resumed; and about what its agents  *)
(* are given of what went before: Contexts, for every strategy and team.      *)
EXTENDS BatchExecutor, Workflow, Contexts, FiniteSetTheorems, NaturalsInduction,
        SequenceTheorems, WellFoundedInduction, TLAPS

(* BatchExecutor                                                            *)

\* A worker that sleeps still has an attempt left, and a busy one has an item.
WorkerState ==
    /\ \A w \in Workers : pc[w] = "backoff" => attempt[w] < MaxAttempts
    /\ \A w \in Workers : Busy(w) => item[w] \in Items

TypeInv == TypeOK /\ WorkerState

LEMMA TypeInit == Init => TypeInv
<1> SUFFICES ASSUME Init PROVE TypeInv
  OBVIOUS
<1> USE ExecutorAssumption DEF Init
<1>1. TypeOK
  <2>1. cancelled \in BOOLEAN /\ killed \in BOOLEAN
    BY Zenon
  <2>2. attempt \in [Workers -> 1 .. MaxAttempts] /\ runs \in 0 .. MaxRuns
    OBVIOUS
  <2>3. QED BY <2>1, <2>2 DEF TypeOK, NoItem
<1>2. WorkerState
  BY DEF WorkerState, Busy
<1>3. QED BY <1>1, <1>2 DEF TypeInv

\* The failure of an attempt keeps the types, whatever queue and money do.
LEMMA AttemptFailedType ==
  ASSUME TypeInv, NEW w \in Workers, pc[w] \in {"call", "backoff"},
         AttemptFailed(w), UNCHANGED <<item, attempt>>
  PROVE  /\ dead' \subseteq Items
         /\ pc' \in [Workers -> {"free", "call", "backoff", "exit", "killed"}]
         /\ results' \in [Items -> {"none", "ok", "dead"}]
         /\ itemLedger' \in [Items -> {"none", "done", "failed"}]
         /\ WorkerState'
<1> USE ExecutorAssumption DEF TypeInv, TypeOK, WorkerState, Busy, CanRetry, DeadLetter
<1>1. item[w] \in Items
  OBVIOUS
<1>2. CASE CanRetry(w) /\ pc' = [pc EXCEPT ![w] = "backoff"]
           /\ UNCHANGED <<dead, itemLedger, results>>
  BY <1>2
<1>3. CASE ~CanRetry(w) /\ pc' = [pc EXCEPT ![w] = "free"] /\ DeadLetter(item[w])
  BY <1>1, <1>3
<1>4. QED BY <1>2, <1>3 DEF AttemptFailed

LEMMA TypeStep == TypeInv /\ [Next]_vars => TypeInv'
<1> SUFFICES ASSUME TypeInv, [Next]_vars PROVE TypeInv'
  OBVIOUS
<1> USE ExecutorAssumption
<1>1. ASSUME NEW only \in SUBSET Items, StartRun(only), dead' \subseteq Items
      PROVE  TypeInv'
  <2>1. killed' \in BOOLEAN /\ cancelled' \in BOOLEAN
    BY <1>1, Zenon DEF TypeInv, TypeOK, StartRun
  <2>2. spent' \in Nat /\ runs' \in 0 .. MaxRuns
    BY <1>1 DEF TypeInv, TypeOK, StartRun
  <2>3. TypeOK'
    BY <1>1, <2>1, <2>2 DEF TypeInv, TypeOK, StartRun
  <2>4. WorkerState'
    BY <1>1 DEF WorkerState, Busy, StartRun
  <2>5. QED BY <2>3, <2>4 DEF TypeInv
<1>2. CASE RunAll
  BY <1>1, <1>2 DEF RunAll, TypeInv, TypeOK
<1>3. CASE Resume
  BY <1>1, <1>3 DEF Resume, TypeInv, TypeOK
<1>4. CASE Replay
  BY <1>1, <1>4 DEF Replay, TypeInv, TypeOK
<1>5. ASSUME NEW w \in Workers, Take(w) PROVE TypeInv'
  <2>1. PICK i \in pending : Dequeue(i) /\ item' = [item EXCEPT ![w] = i]
          /\ attempt' = [attempt EXCEPT ![w] = 1]
          /\ \/ pc' = [pc EXCEPT ![w] = "call"]
                /\ UNCHANGED <<dead, itemLedger, results>>
             \/ DeadLetter(i) /\ UNCHANGED pc
    BY <1>5 DEF Take
  <2>2. /\ i \in Items /\ pc[w] = "free"
        /\ UNCHANGED <<spent, cancelled, killed, pipeline, phase, worklist, runs>>
    BY <1>5, <2>1 DEF Take, TypeInv, TypeOK
  <2>3. TypeOK'
    <3>1. /\ pending' \subseteq Items /\ dead' \subseteq Items
          /\ results' \in [Items -> {"none", "ok", "dead"}]
          /\ itemLedger' \in [Items -> {"none", "done", "failed"}]
      BY <2>1, <2>2 DEF TypeInv, TypeOK, Dequeue, DeadLetter
    <3>2. /\ pc' \in [Workers -> {"free", "call", "backoff", "exit", "killed"}]
          /\ item' \in [Workers -> Items \cup {NoItem}]
          /\ attempt' \in [Workers -> 1 .. MaxAttempts]
      BY <2>1, <2>2 DEF TypeInv, TypeOK
    <3>3. QED BY <2>2, <3>1, <3>2 DEF TypeInv, TypeOK
  <2>4. WorkerState'
    BY <2>1, <2>2 DEF TypeInv, TypeOK, WorkerState, Busy
  <2>5. QED BY <2>3, <2>4 DEF TypeInv
<1>6. ASSUME NEW w \in Workers, CallFails(w) PROVE TypeInv'
  BY <1>6, AttemptFailedType DEF CallFails, TypeInv, TypeOK
<1>7. ASSUME NEW w \in Workers, CallReturns(w) PROVE TypeInv'
  <2>1. PICK c \in 0 .. MaxCost :
          /\ spent' = spent + c
          /\ \/ /\ pc' = [pc EXCEPT ![w] = "free"]
                /\ itemLedger' = [itemLedger EXCEPT ![item[w]] = "done"]
                /\ results' = [results EXCEPT ![item[w]] = "ok"]
                /\ UNCHANGED <<pending, killed, dead>>
             \/ /\ AttemptFailed(w)
                /\ UNCHANGED <<pending, killed>>
             \/ HardKill(w)
    BY <1>7 DEF CallReturns
  <2>2. pc[w] = "call" /\ UNCHANGED <<item, attempt, cancelled, pipeline, phase, worklist, runs>>
    BY <1>7 DEF CallReturns
  <2>3. spent' \in Nat
    BY <2>1 DEF TypeInv, TypeOK
  <2>4. CASE pc' = [pc EXCEPT ![w] = "free"]
             /\ itemLedger' = [itemLedger EXCEPT ![item[w]] = "done"]
             /\ results' = [results EXCEPT ![item[w]] = "ok"]
             /\ UNCHANGED <<pending, killed, dead>>
    BY <2>2, <2>3, <2>4 DEF TypeInv, TypeOK, WorkerState, Busy
  <2>5. CASE AttemptFailed(w) /\ UNCHANGED <<pending, killed>>
    BY <2>2, <2>3, <2>5, AttemptFailedType DEF TypeInv, TypeOK
  <2>6. CASE HardKill(w)
    BY <2>2, <2>3, <2>6 DEF HardKill, TypeInv, TypeOK, WorkerState, Busy
  <2>7. QED BY <2>1, <2>4, <2>5, <2>6
<1>8. ASSUME NEW w \in Workers, Wake(w) PROVE TypeInv'
  <2>1. CASE pc' = [pc EXCEPT ![w] = "call"] /\ UNCHANGED <<dead, itemLedger, results>>
    BY <1>8, <2>1 DEF Wake, TypeInv, TypeOK, WorkerState, Busy
  <2>2. CASE pc' = [pc EXCEPT ![w] = "free"] /\ DeadLetter(item[w])
    <3>1. item[w] \in Items /\ attempt[w] < MaxAttempts
      BY <1>8 DEF Wake, TypeInv, WorkerState, Busy
    <3>2. attempt' \in [Workers -> 1 .. MaxAttempts]
      BY <1>8, <3>1 DEF Wake, TypeInv, TypeOK
    <3>3. TypeOK'
      BY <1>8, <2>2, <3>1, <3>2 DEF Wake, DeadLetter, TypeInv, TypeOK
    <3>4. WorkerState'
      BY <1>8, <2>2 DEF Wake, TypeInv, TypeOK, WorkerState, Busy
    <3>5. QED BY <3>3, <3>4 DEF TypeInv
  <2>3. QED BY <1>8, <2>1, <2>2 DEF Wake
<1>9. ASSUME NEW w \in Workers, Exit(w) PROVE TypeInv'
  BY <1>9 DEF Exit, TypeInv, TypeOK, WorkerState, Busy
<1>10. CASE Finish
  BY <1>10 DEF Finish, FinalStatus, TypeInv, TypeOK, WorkerState, Busy
<1>11. CASE Cancel
  BY <1>11 DEF Cancel, TypeInv, TypeOK, WorkerState, Busy
<1>12. CASE UNCHANGED vars
  BY <1>12 DEF vars, TypeInv, TypeOK, WorkerState, Busy
<1>13. QED
  BY <1>2, <1>3, <1>4, <1>5, <1>6, <1>7, <1>8, <1>9, <1>10, <1>11, <1>12
     DEF Next, Step

(* Every reachable state is well typed: the queue holds items of the batch, *)
(* no worker runs an attempt beyond RetryPolicy.max_attempts.               *)
THEOREM TypeCorrect == Spec => []TypeOK
<1>1. TypeInv => TypeOK
  BY DEF TypeInv
<1>2. QED BY <1>1, TypeInit, TypeStep, PTL DEF Spec
----------------------------------------------------------------------------
(* Safety: the inductive invariant.                                         *)

\* The queue only holds work nobody has touched; a worker stops only when it
\* is empty; outside a run every worker has stopped.
QueueInv ==
    /\ pending \subseteq worklist
    /\ \A i \in pending : results[i] = "none"
    /\ \A w \in Workers : pc[w] \in {"exit", "killed"} => pending = {}
    /\ phase = "idle" => PoolDone
    /\ pipeline = "running" <=> phase = "running"

\* Until the hard kill, an item without a result is queued or being processed.
NothingLost ==
    killed \/ \A i \in worklist :
        \/ results[i] # "none" \/ i \in pending
        \/ \E w \in Workers : Busy(w) /\ item[w] = i

SafeInv == TypeInv /\ QueueInv /\ InFlightExclusive /\ LedgerAgrees /\ NothingLost

LEMMA SafeInit == Init => SafeInv
<1> SUFFICES ASSUME Init PROVE SafeInv
  OBVIOUS
<1>1. TypeInv
  BY TypeInit
<1>2. QueueInv /\ InFlightExclusive /\ LedgerAgrees
  BY ExecutorAssumption DEF Init, QueueInv, PoolDone, InFlightExclusive, Busy, LedgerAgrees
<1>3. NothingLost
  BY DEF Init, NothingLost
<1>4. QED BY <1>1, <1>2, <1>3 DEF SafeInv

\* A step that settles item i of a worker, free before or busy with i, is safe.
LEMMA DeadLetterSafe ==
  ASSUME SafeInv, TypeInv', NEW w \in Workers, NEW i \in Items, DeadLetter(i),
         phase = "running", phase' = phase, pipeline' = pipeline,
         worklist' = worklist, killed' = killed, i \in worklist,
         \/ pc[w] = "free" /\ i \in pending /\ pending' = pending \ {i}
         \/ Busy(w) /\ item[w] = i /\ pending' = pending,
         pc' = [pc EXCEPT ![w] = "free"],
         \A v \in Workers \ {w} : item'[v] = item[v]
  PROVE  SafeInv'
<1> USE DEF SafeInv, TypeInv, TypeOK, DeadLetter
<1>1. QueueInv'
  BY DEF QueueInv, PoolDone, InFlightExclusive, Busy
<1>2. InFlightExclusive'
  BY DEF InFlightExclusive, Busy
<1>3. LedgerAgrees'
  BY DEF LedgerAgrees
<1>4. NothingLost'
  BY DEF NothingLost, Busy, InFlightExclusive
<1>5. QED BY <1>1, <1>2, <1>3, <1>4

LEMMA AttemptFailedSafe ==
  ASSUME SafeInv, TypeInv', NEW w \in Workers, Busy(w), AttemptFailed(w),
         UNCHANGED <<pending, item, killed, pipeline, phase, worklist>>
  PROVE  SafeInv'
<1>1. /\ phase = "running" /\ item[w] \in Items
      /\ item[w] \in worklist
  BY DEF SafeInv, QueueInv, InFlightExclusive, TypeInv, TypeOK, WorkerState, PoolDone, Busy
<1>2. CASE pc' = [pc EXCEPT ![w] = "free"] /\ DeadLetter(item[w])
  BY <1>1, <1>2, DeadLetterSafe
<1>3. CASE pc' = [pc EXCEPT ![w] = "backoff"] /\ UNCHANGED <<dead, itemLedger, results>>
  <2> USE <1>1, <1>3 DEF SafeInv, TypeInv, TypeOK
  <2>1. QueueInv' /\ LedgerAgrees'
    BY DEF QueueInv, PoolDone, LedgerAgrees, Busy
  <2>2. InFlightExclusive'
    BY DEF InFlightExclusive, Busy
  <2>3. NothingLost'
    BY DEF NothingLost, Busy
  <2>4. QED BY <2>1, <2>2, <2>3
<1>4. QED BY <1>2, <1>3 DEF AttemptFailed

LEMMA SafeStep == SafeInv /\ [Next]_vars => SafeInv'
<1> SUFFICES ASSUME SafeInv, [Next]_vars PROVE SafeInv'
  OBVIOUS
<1>0. TypeInv'
  BY TypeStep DEF SafeInv
<1>1. ASSUME NEW only \in SUBSET Items, StartRun(only) PROVE SafeInv'
  <2> USE <1>0, <1>1, ExecutorAssumption DEF SafeInv, StartRun, TypeInv, TypeOK
  <2>1. QueueInv' /\ InFlightExclusive'
    BY DEF QueueInv, PoolDone, InFlightExclusive, Busy
  <2>2. LedgerAgrees' /\ NothingLost'
    BY DEF LedgerAgrees, NothingLost
  <2>3. QED BY <2>1, <2>2
<1>2. CASE RunAll \/ Resume \/ Replay
  BY <1>1, <1>2 DEF RunAll, Resume, Replay, SafeInv, TypeInv, TypeOK
<1>3. ASSUME NEW w \in Workers, Take(w) PROVE SafeInv'
  <2>1. PICK i \in pending : pending' = pending \ {i} /\ item' = [item EXCEPT ![w] = i]
          /\ \/ pc' = [pc EXCEPT ![w] = "call"]
                /\ UNCHANGED <<dead, itemLedger, results>>
             \/ DeadLetter(i) /\ UNCHANGED pc
    BY <1>3 DEF Take, Dequeue
  <2>2. /\ i \in Items /\ i \in worklist /\ pc[w] = "free" /\ phase = "running"
        /\ UNCHANGED <<killed, pipeline, phase, worklist>>
    BY <1>3, <2>1 DEF Take, SafeInv, QueueInv, PoolDone, TypeInv, TypeOK
  <2>3. CASE DeadLetter(i) /\ UNCHANGED pc
    <3>1. /\ pc' = [pc EXCEPT ![w] = "free"]
          /\ \A v \in Workers \ {w} : item'[v] = item[v]
      BY <2>1, <2>2, <2>3 DEF SafeInv, TypeInv, TypeOK
    <3>2. QED BY <1>0, <2>1, <2>2, <2>3, <3>1, DeadLetterSafe
  <2>4. CASE pc' = [pc EXCEPT ![w] = "call"] /\ UNCHANGED <<dead, itemLedger, results>>
    <3> USE <1>0, <2>1, <2>2, <2>4 DEF SafeInv, TypeInv, TypeOK
    <3>1. QueueInv'
      BY DEF QueueInv, PoolDone
    <3>2. LedgerAgrees'
      BY DEF LedgerAgrees
    <3>3. InFlightExclusive'
      BY DEF InFlightExclusive, QueueInv, Busy
    <3>4. NothingLost'
      BY DEF NothingLost, Busy
    <3>5. QED BY <3>1, <3>2, <3>3, <3>4
  <2>5. QED BY <2>1, <2>3, <2>4
<1>4. ASSUME NEW w \in Workers, CallFails(w) PROVE SafeInv'
  BY <1>0, <1>4, AttemptFailedSafe DEF CallFails, Busy
<1>5. ASSUME NEW w \in Workers, CallReturns(w) PROVE SafeInv'
  <2>1. \/ /\ pc' = [pc EXCEPT ![w] = "free"]
           /\ itemLedger' = [itemLedger EXCEPT ![item[w]] = "done"]
           /\ results' = [results EXCEPT ![item[w]] = "ok"]
           /\ UNCHANGED <<pending, killed, dead>>
        \/ AttemptFailed(w) /\ UNCHANGED <<pending, killed>>
        \/ HardKill(w)
    BY <1>5 DEF CallReturns
  <2>2. /\ pc[w] = "call" /\ Busy(w)
        /\ UNCHANGED <<item, attempt, pipeline, phase, worklist>>
    BY <1>5 DEF CallReturns, Busy
  <2>3. item[w] \in Items /\ item[w] \in worklist /\ phase = "running"
    BY <2>2 DEF SafeInv, QueueInv, PoolDone, TypeInv, TypeOK, WorkerState, InFlightExclusive
  <2>4. CASE /\ pc' = [pc EXCEPT ![w] = "free"]
             /\ itemLedger' = [itemLedger EXCEPT ![item[w]] = "done"]
             /\ results' = [results EXCEPT ![item[w]] = "ok"]
             /\ UNCHANGED <<pending, killed, dead>>
    <3> USE <1>0, <2>2, <2>3, <2>4 DEF SafeInv, TypeInv, TypeOK
    <3>1. QueueInv'
      BY DEF QueueInv, PoolDone, InFlightExclusive
    <3>2. LedgerAgrees'
      BY DEF LedgerAgrees
    <3>3. InFlightExclusive'
      BY DEF InFlightExclusive, Busy
    <3>4. NothingLost'
      BY DEF NothingLost, Busy
    <3>5. QED BY <3>1, <3>2, <3>3, <3>4
  <2>5. CASE AttemptFailed(w) /\ UNCHANGED <<pending, killed>>
    BY <1>0, <2>2, <2>5, AttemptFailedSafe
  <2>6. CASE HardKill(w)
    <3> USE <1>0, <2>2, <2>3, <2>6 DEF SafeInv, TypeInv, TypeOK, HardKill
    <3>1. QueueInv'
      BY DEF QueueInv, PoolDone
    <3>2. LedgerAgrees' /\ NothingLost'
      BY DEF LedgerAgrees, NothingLost
    <3>3. InFlightExclusive'
      BY DEF InFlightExclusive, Busy
    <3>4. QED BY <3>1, <3>2, <3>3
  <2>7. QED BY <2>1, <2>4, <2>5, <2>6
<1>6. ASSUME NEW w \in Workers, Wake(w) PROVE SafeInv'
  <2>1. /\ pc[w] = "backoff" /\ Busy(w)
        /\ UNCHANGED <<pending, item, killed, pipeline, phase, worklist>>
    BY <1>6 DEF Wake, Busy
  <2>2. item[w] \in Items /\ item[w] \in worklist /\ phase = "running"
    BY <2>1 DEF SafeInv, QueueInv, PoolDone, TypeInv, TypeOK, WorkerState, InFlightExclusive
  <2>3. CASE pc' = [pc EXCEPT ![w] = "free"] /\ DeadLetter(item[w])
    BY <1>0, <2>1, <2>2, <2>3, DeadLetterSafe
  <2>4. CASE pc' = [pc EXCEPT ![w] = "call"] /\ UNCHANGED <<dead, itemLedger, results>>
    <3> USE <1>0, <2>1, <2>2, <2>4 DEF SafeInv, TypeInv, TypeOK
    <3>1. QueueInv' /\ LedgerAgrees'
      BY DEF QueueInv, PoolDone, LedgerAgrees
    <3>2. InFlightExclusive' /\ NothingLost'
      BY DEF InFlightExclusive, NothingLost, Busy
    <3>3. QED BY <3>1, <3>2
  <2>5. QED BY <1>6, <2>3, <2>4 DEF Wake
<1>7. ASSUME NEW w \in Workers, Exit(w) PROVE SafeInv'
  <2> USE <1>0, <1>7 DEF Exit, SafeInv, TypeInv, TypeOK
  <2>1. QueueInv' /\ LedgerAgrees'
    BY DEF QueueInv, PoolDone, LedgerAgrees
  <2>2. InFlightExclusive' /\ NothingLost'
    BY DEF InFlightExclusive, NothingLost, Busy
  <2>3. QED BY <2>1, <2>2
<1>8. CASE Finish
  BY <1>0, <1>8 DEF Finish, FinalStatus, SafeInv, QueueInv, PoolDone, LedgerAgrees,
     InFlightExclusive, NothingLost, Busy
<1>9. CASE Cancel
  BY <1>0, <1>9 DEF Cancel, SafeInv, QueueInv, PoolDone, LedgerAgrees,
     InFlightExclusive, NothingLost, Busy
<1>10. CASE UNCHANGED vars
  BY <1>0, <1>10 DEF vars, SafeInv, QueueInv, PoolDone, LedgerAgrees,
     InFlightExclusive, NothingLost, Busy
<1>11. QED
  BY <1>2, <1>3, <1>4, <1>5, <1>6, <1>7, <1>8, <1>9, <1>10 DEF Next, Step

(* No item is ever processed by two workers, or queued while it is processed, *)
(* and the results of a run, the item rows of the ledger and the dead letters *)
(* agree at every step, within a run and between runs.                        *)
THEOREM ItemsAreAccounted == Spec => []ItemsAccounted
<1>1. SafeInv => ItemsAccounted
  BY DEF SafeInv, ItemsAccounted
<1>2. QED BY <1>1, SafeInit, SafeStep, PTL DEF Spec

----------------------------------------------------------------------------
(* What a run leaves behind.                                                *)

\* Only the end of a run makes the promise due, and then every item it was asked for
\* has a result, of which the ledger and the dead letters already tell.
LEMMA ReplayableStep ==
  SafeInv /\ ReplayableUnlessKilled /\ [Next]_vars => ReplayableUnlessKilled'
<1> SUFFICES ASSUME SafeInv, ReplayableUnlessKilled, [Next]_vars PROVE ReplayableUnlessKilled'
  OBVIOUS
<1>1. CASE RunAll \/ Resume \/ Replay
  BY <1>1 DEF RunAll, Resume, Replay, StartRun, ReplayableUnlessKilled
<1>2. ASSUME NEW w \in Workers, Step(w) PROVE ReplayableUnlessKilled'
  <2>1. phase = "running"
    BY <1>2 DEF SafeInv, QueueInv, PoolDone, Step, Take, CallFails, CallReturns, Wake, Exit,
       TypeInv, TypeOK
  <2>2. phase' = phase
    BY <1>2 DEF Step, Take, CallFails, CallReturns, Wake, Exit
  <2>3. QED BY <2>1, <2>2 DEF ReplayableUnlessKilled
<1>3. CASE Finish
  <2>1. SUFFICES ASSUME ~killed, NEW i \in worklist, itemLedger[i] = "failed" PROVE i \in dead
    BY <1>3 DEF Finish, ReplayableUnlessKilled
  <2>2. \A w \in Workers : ~Busy(w) /\ pc[w] \in {"exit", "killed"}
    BY <1>3 DEF Finish, PoolDone, Busy
  <2>3. results[i] # "none"
    BY <2>1, <2>2, ExecutorAssumption DEF SafeInv, QueueInv, NothingLost
  <2>4. i \in Items /\ results[i] \in {"ok", "dead"}
    BY <2>1, <2>3 DEF SafeInv, TypeInv, TypeOK
  <2>5. QED BY <1>3, <2>1, <2>4 DEF Finish, SafeInv, LedgerAgrees
<1>4. CASE Cancel
  BY <1>4 DEF Cancel, ReplayableUnlessKilled
<1>5. CASE UNCHANGED vars
  BY <1>5 DEF vars, ReplayableUnlessKilled
<1>6. QED BY <1>1, <1>2, <1>3, <1>4, <1>5 DEF Next

(* When a run has returned and was not killed, every item it left FAILED is a   *)
(* dead letter, so that a replay can find it.                                   *)
THEOREM FailedStaysReplayable == Spec => []ReplayableUnlessKilled
<1>1. Init => ReplayableUnlessKilled
  BY DEF Init, ReplayableUnlessKilled
<1>2. QED BY <1>1, SafeInit, SafeStep, ReplayableStep, PTL DEF Spec

(* Once the token is cancelled no worker enters the model call: not for the     *)
(* next item, not for a retry after its sleep.                                  *)
THEOREM CancelIsFinal == Spec => CancelStopsCalls
<1>1. SafeInv /\ [Next]_vars
        => [cancelled /\ cancelled' =>
              \A w \in Workers : pc'[w] = "call" => pc[w] = "call"]_vars
  <2> SUFFICES ASSUME SafeInv, Next, cancelled, cancelled',
                      NEW w \in Workers, pc'[w] = "call"
               PROVE  pc[w] = "call"
    BY Zenon
  <2> USE DEF SafeInv, TypeInv, TypeOK
  <2>1. ASSUME NEW only, StartRun(only) PROVE FALSE
    BY <2>1 DEF StartRun
  <2>2. CASE Finish \/ Cancel
    BY <2>2 DEF Finish, Cancel
  <2>3. ASSUME NEW v \in Workers, Take(v) PROVE pc[w] = "call"
    BY <2>3 DEF Take, CallAllowed
  <2>4. ASSUME NEW v \in Workers, CallFails(v) PROVE pc[w] = "call"
    BY <2>4 DEF CallFails, AttemptFailed
  <2>5. ASSUME NEW v \in Workers, CallReturns(v) PROVE pc[w] = "call"
    BY <2>5 DEF CallReturns, AttemptFailed, HardKill
  <2>6. ASSUME NEW v \in Workers, Wake(v) PROVE pc[w] = "call"
    BY <2>6 DEF Wake, CallAllowed
  <2>7. ASSUME NEW v \in Workers, Exit(v) PROVE pc[w] = "call"
    BY <2>7 DEF Exit
  <2>8. QED
    BY <2>1, <2>2, <2>3, <2>4, <2>5, <2>6, <2>7 DEF Next, Step, RunAll, Resume, Replay
<1>2. QED BY <1>1, SafeInit, SafeStep, PTL DEF Spec, CancelStopsCalls
----------------------------------------------------------------------------
(* The executor implements BatchContract.                                   *)

LEMMA DeadLetterSettles ==
  ASSUME SafeInv, NEW i \in worklist, results[i] = "none", DeadLetter(i),
         phase = "running", UNCHANGED <<worklist, pipeline>>
  PROVE  Contract!Next
<1>1. pipeline = "running"
  BY DEF SafeInv, QueueInv
<1>2. results' = [results EXCEPT ![i] = "dead"]
  BY DEF DeadLetter
<1>3. Contract!Settle(i)
  BY <1>1, <1>2 DEF Contract!Settle
<1>4. QED BY <1>3 DEF Contract!Next

LEMMA AttemptFailedContract ==
  ASSUME SafeInv, NEW w \in Workers, Busy(w), AttemptFailed(w),
         UNCHANGED <<worklist, pipeline>>
  PROVE  [Contract!Next]_(Contract!vars)
<1>1. item[w] \in worklist /\ results[item[w]] = "none" /\ phase = "running"
  BY DEF SafeInv, QueueInv, PoolDone, InFlightExclusive, Busy, TypeInv, TypeOK
<1>2. CASE DeadLetter(item[w])
  BY <1>1, <1>2, DeadLetterSettles
<1>3. CASE UNCHANGED results
  BY <1>3 DEF Contract!vars
<1>4. QED BY <1>2, <1>3 DEF AttemptFailed

LEMMA ContractStep ==
  SafeInv /\ [Next]_vars => [Contract!Next]_(Contract!vars)
<1> SUFFICES ASSUME SafeInv, [Next]_vars PROVE [Contract!Next]_(Contract!vars)
  OBVIOUS
<1>1. ASSUME NEW only \in SUBSET Items, StartRun(only) PROVE Contract!Next
  <2>1. pipeline # "running"
    BY <1>1 DEF StartRun, SafeInv, QueueInv
  <2>2. Contract!Begin
    BY <1>1, <2>1 DEF StartRun, Contract!Begin
  <2>3. QED BY <2>2 DEF Contract!Next
<1>2. CASE RunAll \/ Resume \/ Replay
  BY <1>1, <1>2 DEF RunAll, Resume, Replay, SafeInv, TypeInv, TypeOK
<1>3. ASSUME NEW w \in Workers, Take(w) PROVE [Contract!Next]_(Contract!vars)
  <2>1. PICK i \in pending : DeadLetter(i) \/ UNCHANGED results
    BY <1>3 DEF Take
  <2>2. /\ i \in worklist /\ results[i] = "none" /\ phase = "running"
        /\ UNCHANGED <<worklist, pipeline>>
    BY <1>3 DEF Take, SafeInv, QueueInv, PoolDone, TypeInv, TypeOK
  <2>3. CASE DeadLetter(i)
    BY <2>2, <2>3, DeadLetterSettles
  <2>4. CASE UNCHANGED results
    BY <2>2, <2>4 DEF Contract!vars
  <2>5. QED BY <2>1, <2>3, <2>4
<1>4. ASSUME NEW w \in Workers, CallFails(w) PROVE [Contract!Next]_(Contract!vars)
  BY <1>4, AttemptFailedContract DEF CallFails, Busy
<1>5. ASSUME NEW w \in Workers, CallReturns(w) PROVE [Contract!Next]_(Contract!vars)
  <2>1. Busy(w) /\ UNCHANGED <<worklist, pipeline>>
    BY <1>5 DEF CallReturns, Busy
  <2>2. CASE results' = [results EXCEPT ![item[w]] = "ok"]
    <3>1. /\ item[w] \in worklist /\ results[item[w]] = "none"
          /\ pipeline = "running"
      BY <2>1 DEF SafeInv, QueueInv, PoolDone, InFlightExclusive, Busy, TypeInv, TypeOK
    <3>2. Contract!Settle(item[w])
      BY <2>1, <2>2, <3>1 DEF Contract!Settle
    <3>3. QED BY <3>1, <3>2 DEF Contract!Next
  <2>3. CASE AttemptFailed(w)
    BY <2>1, <2>3, AttemptFailedContract
  <2>4. CASE HardKill(w)
    BY <2>1, <2>4 DEF HardKill, Contract!vars
  <2>5. QED BY <1>5, <2>2, <2>3, <2>4 DEF CallReturns
<1>6. ASSUME NEW w \in Workers, Wake(w) PROVE [Contract!Next]_(Contract!vars)
  <2>1. Busy(w) /\ UNCHANGED <<worklist, pipeline>>
    BY <1>6 DEF Wake, Busy
  <2>2. /\ item[w] \in worklist /\ results[item[w]] = "none" /\ phase = "running"
    BY <2>1 DEF SafeInv, QueueInv, PoolDone, InFlightExclusive, Busy, TypeInv, TypeOK
  <2>3. CASE DeadLetter(item[w])
    BY <2>1, <2>2, <2>3, DeadLetterSettles
  <2>4. CASE UNCHANGED results
    BY <2>1, <2>4 DEF Contract!vars
  <2>5. QED BY <1>6, <2>3, <2>4 DEF Wake
<1>7. CASE Finish
  <2>1. pipeline = "running" /\ UNCHANGED <<worklist, results>>
    BY <1>7 DEF Finish, SafeInv, QueueInv
  <2>2. CASE killed
    <3>1. Contract!Abort
      BY <1>7, <2>1, <2>2 DEF Finish, FinalStatus, Contract!Abort
    <3>2. QED BY <3>1 DEF Contract!Next
  <2>3. CASE ~killed
    <3>1. \A w \in Workers : ~Busy(w) /\ pc[w] \in {"exit", "killed"}
      BY <1>7 DEF Finish, PoolDone, Busy
    <3>2. pending = {}
      BY <3>1, ExecutorAssumption DEF SafeInv, QueueInv
    <3>3. \A i \in worklist : results[i] # "none"
      BY <2>3, <3>1, <3>2 DEF SafeInv, NothingLost
    <3>4. Contract!Complete
      BY <1>7, <2>1, <2>3, <3>3 DEF Finish, FinalStatus, Contract!Complete
    <3>5. QED BY <3>4 DEF Contract!Next
  <2>4. QED BY <2>2, <2>3
<1>8. CASE UNCHANGED <<worklist, results, pipeline>>
  BY <1>8 DEF Contract!vars
<1>9. QED
  BY <1>2, <1>3, <1>4, <1>5, <1>6, <1>7, <1>8 DEF Next, Step, Exit, Cancel, vars

(* A run settles each item it was asked for at most once, never takes an      *)
(* outcome back, and is reported done only when every item has one.           *)
THEOREM Refinement == Spec => ImplementsContract
<1>1. Init => Contract!Init
  BY DEF Init, Contract!Init
<1>2. QED
  BY <1>1, SafeInit, SafeStep, ContractStep, PTL
     DEF Spec, ImplementsContract, Contract!Spec
----------------------------------------------------------------------------
(* The overshoot of the budget.                                             *)

Killed == {w \in Workers : pc[w] = "killed"}

\* A worker that passes the limit stops: each killed worker overshot by one
\* call at most, and every earlier run by one call per worker.
SpendInv ==
    /\ runs = 0 => spent = 0 /\ phase = "idle"
    /\ runs > 0 => spent <= Limit + MaxCost * (Cardinality(Workers) * (runs - 1)
                                               + Cardinality(Killed))

LEMMA KilledFinite == IsFiniteSet(Killed) /\ Cardinality(Killed) \in Nat
                      /\ Cardinality(Killed) <= Cardinality(Workers)
                      /\ Cardinality(Workers) \in Nat
<1>1. Killed \subseteq Workers /\ IsFiniteSet(Workers)
  BY ExecutorAssumption DEF Killed
<1>2. QED BY <1>1, FS_Subset, FS_CardinalityType

LEMMA TimesMono ==
  ASSUME NEW k \in Nat, NEW m \in Nat, NEW n \in Nat, m <= n
  PROVE  k * m \in Nat /\ k * m <= k * n /\ k * (m + 1) = k * m + k
OBVIOUS

\* What the bound needs to survive a step: the spend does not grow and nobody
\* leaves the killed workers, or it stays below the limit.
LEMMA SpendKept ==
  ASSUME TypeInv, SpendInv, runs' = runs, spent' \in Nat, Killed' = Killed,
         phase' = phase \/ runs > 0,
         spent' = spent \/ (runs > 0 /\ spent' <= Limit)
  PROVE  SpendInv'
<1> DEFINE Calls == Cardinality(Workers) * (runs - 1) + Cardinality(Killed)
<1>1. CASE spent' = spent
  BY <1>1 DEF SpendInv
<1>2. CASE runs > 0 /\ spent' <= Limit
  <2>1. runs \in Nat /\ runs - 1 \in Nat /\ Cardinality(Workers) \in Nat /\ Cardinality(Killed) \in Nat
    BY <1>2, KilledFinite, ExecutorAssumption DEF TypeInv, TypeOK
  <2>2. Calls \in Nat
    BY <2>1, TimesMono
  <2>3. MaxCost * Calls \in Nat
    <3> HIDE DEF Calls
    <3>1. QED BY <2>2, TimesMono, ExecutorAssumption
  <2>4. spent' <= Limit + MaxCost * Calls
    <3> HIDE DEF Calls
    <3>1. QED BY <1>2, <2>3, ExecutorAssumption
  <2>5. QED BY <1>2, <2>4 DEF SpendInv
<1>3. QED BY <1>1, <1>2

LEMMA SpendStep == SafeInv /\ SpendInv /\ [Next]_vars => SpendInv'
<1> SUFFICES ASSUME SafeInv, SpendInv, [Next]_vars PROVE SpendInv'
  OBVIOUS
<1>0. TypeInv /\ TypeInv' /\ runs \in Nat /\ spent \in Nat /\ spent' \in Nat
  BY TypeStep, ExecutorAssumption DEF SafeInv, TypeInv, TypeOK
<1>1. ASSUME NEW only \in SUBSET Items, StartRun(only) PROVE SpendInv'
  <2> DEFINE N == Cardinality(Workers)
             K == Cardinality(Killed)
  <2>1. Killed' = {} /\ runs' = runs + 1 /\ (spent' = spent \/ spent' = 0)
    BY <1>1 DEF StartRun, Killed
  <2>2. Cardinality(Killed') = 0
    BY <2>1, FS_EmptySet
  <2>3. N \in Nat /\ K \in Nat /\ K <= N /\ N * runs \in Nat
    BY <1>0, KilledFinite, TimesMono
  <2>4. MaxCost * (N * runs) \in Nat
    <3> HIDE DEF N
    <3>1. QED BY <2>3, TimesMono, ExecutorAssumption
  <2>5. spent <= Limit + MaxCost * (N * runs)
    <3>1. CASE runs = 0
      <4> HIDE DEF N
      <4>1. QED BY <3>1, <2>4, ExecutorAssumption DEF SpendInv
    <3>2. CASE runs > 0
      <4>1. N * (runs - 1) \in Nat /\ N * runs = N * (runs - 1) + N
        <5>1. runs - 1 \in Nat /\ (runs - 1) + 1 = runs
          BY <1>0, <3>2
        <5>2. QED BY <5>1, <2>3, TimesMono
      <4>2. MaxCost * (N * (runs - 1) + K) <= MaxCost * (N * runs)
        <5>1. N * (runs - 1) + K \in Nat /\ N * (runs - 1) + K <= N * runs
          BY <2>3, <4>1
        <5> HIDE DEF N, K
        <5>2. QED BY <5>1, <2>3, TimesMono, ExecutorAssumption
      <4>3. spent <= Limit + MaxCost * (N * (runs - 1) + K)
        BY <3>2 DEF SpendInv
      <4>4. MaxCost * (N * (runs - 1) + K) \in Nat
        <5>1. N * (runs - 1) + K \in Nat
          BY <2>3, <4>1
        <5> HIDE DEF N, K
        <5>2. QED BY <5>1, TimesMono, ExecutorAssumption
      <4> HIDE DEF N, K
      <4>5. QED BY <1>0, <2>4, <4>2, <4>3, <4>4, ExecutorAssumption
    <3>3. QED BY <1>0, <3>1, <3>2
  <2>6. spent' <= Limit + MaxCost * (N * runs)
    <3> HIDE DEF N
    <3>1. QED BY <1>0, <2>1, <2>4, <2>5, ExecutorAssumption
  <2>7. N * (runs' - 1) + Cardinality(Killed') = N * runs
    BY <1>0, <2>1, <2>2, <2>3
  <2>8. QED BY <1>0, <2>1, <2>6, <2>7 DEF SpendInv
<1>2. CASE RunAll \/ Resume \/ Replay
  BY <1>1, <1>2 DEF RunAll, Resume, Replay, SafeInv, TypeInv, TypeOK
<1>3. ASSUME NEW w \in Workers, CallReturns(w) PROVE SpendInv'
  <2>1. /\ pc[w] = "call" /\ UNCHANGED <<phase, runs>> /\ phase = "running"
    BY <1>3 DEF CallReturns, SafeInv, QueueInv, PoolDone, TypeInv, TypeOK
  <2>2. runs > 0
    BY <1>0, <2>1 DEF SpendInv
  <2>3. CASE spent' <= Limit /\ (pc' = [pc EXCEPT ![w] = "free"] \/ AttemptFailed(w))
    <3>1. Killed' = Killed
      BY <1>0, <2>1, <2>3 DEF AttemptFailed, Killed, TypeInv, TypeOK
    <3>2. QED BY <1>0, <2>1, <2>2, <2>3, <3>1, SpendKept
  <2>4. ASSUME NEW c \in 0 .. MaxCost, spent' = spent + c, HardKill(w) PROVE SpendInv'
    <3> DEFINE N == Cardinality(Workers)
               K == Cardinality(Killed)
               Calls == N * (runs - 1) + K
    <3>1. Killed' = Killed \cup {w} /\ w \notin Killed
      BY <2>1, <2>4 DEF HardKill, Killed, SafeInv, TypeInv, TypeOK
    <3>2. Cardinality(Killed') = K + 1
      BY <3>1, KilledFinite, FS_AddElement
    <3>3. runs - 1 \in Nat /\ N \in Nat /\ K \in Nat
      BY <1>0, <2>2, KilledFinite
    <3>4. N * (runs - 1) \in Nat
      BY <3>3, TimesMono
    <3>5. Calls \in Nat
      BY <3>3, <3>4
    <3>6. MaxCost * (Calls + 1) = MaxCost * Calls + MaxCost /\ MaxCost * Calls \in Nat
      <4> HIDE DEF Calls
      <4>1. QED BY <3>5, TimesMono, ExecutorAssumption
    <3>7. spent <= Limit + MaxCost * Calls
      BY <2>2 DEF SpendInv
    <3>8. spent' <= Limit + MaxCost * (Calls + 1)
      <4> HIDE DEF Calls
      <4>1. QED BY <1>0, <2>4, <3>6, <3>7, ExecutorAssumption
    <3>9. N * (runs' - 1) + Cardinality(Killed') = Calls + 1
      BY <2>1, <3>2, <3>3, <3>4
    <3>10. QED BY <2>1, <2>2, <3>8, <3>9 DEF SpendInv
  <2>5. QED BY <1>3, <2>3, <2>4 DEF CallReturns
<1>4. ASSUME NEW w \in Workers, Take(w) \/ CallFails(w) \/ Wake(w) \/ Exit(w)
      PROVE  SpendInv'
  <2>1. UNCHANGED <<spent, runs, phase>>
    BY <1>4 DEF Take, CallFails, Wake, Exit
  <2>2. Killed' = Killed
    BY <1>0, <1>4 DEF Take, CallFails, Wake, Exit, AttemptFailed, Killed, TypeInv, TypeOK
  <2>3. QED BY <1>0, <2>1, <2>2, SpendKept
<1>5. CASE Finish
  <2>1. UNCHANGED <<spent, runs, pc>> /\ phase = "running"
    BY <1>5 DEF Finish
  <2>2. runs > 0 /\ Killed' = Killed
    BY <1>0, <2>1 DEF SpendInv, Killed
  <2>3. QED BY <1>0, <2>1, <2>2, SpendKept
<1>6. CASE Cancel \/ UNCHANGED vars
  <2>1. UNCHANGED <<spent, runs, phase, pc>>
    BY <1>6 DEF Cancel, vars
  <2>2. QED BY <1>0, <2>1, SpendKept DEF Killed
<1>7. QED BY <1>2, <1>3, <1>4, <1>5, <1>6 DEF Next, Step

(* The cost ceiling is soft: a call is metered after it was made. It can be   *)
(* passed by one call per worker and run, never by more.                      *)
THEOREM SpendIsBounded == Spec => []SpendBounded
<1>1. Init => SpendInv
  BY DEF Init, SpendInv
<1>2. SafeInv /\ SpendInv => SpendBounded
  <2> SUFFICES ASSUME SafeInv, SpendInv PROVE SpendBounded
    OBVIOUS
  <2> DEFINE N == Cardinality(Workers)
             K == Cardinality(Killed)
  <2>1. runs \in Nat /\ N \in Nat /\ K \in Nat /\ K <= N /\ spent \in Nat
    BY KilledFinite, ExecutorAssumption DEF SafeInv, TypeInv, TypeOK
  <2>2. MaxCost * N * runs = MaxCost * (N * runs)
    <3> HIDE DEF N
    <3>1. QED BY <2>1, ExecutorAssumption
  <2>3. N * runs \in Nat
    BY <2>1, TimesMono
  <2>4. MaxCost * (N * runs) \in Nat
    <3> HIDE DEF N
    <3>1. QED BY <2>3, TimesMono, ExecutorAssumption
  <2>5. CASE runs = 0
    BY <2>2, <2>4, <2>5, ExecutorAssumption DEF SpendInv, SpendBounded
  <2>6. CASE runs > 0
    <3>1. runs - 1 \in Nat /\ (runs - 1) + 1 = runs
      BY <2>1, <2>6
    <3>2. N * (runs - 1) \in Nat /\ N * runs = N * (runs - 1) + N
      BY <2>1, <3>1, TimesMono
    <3>3. N * (runs - 1) + K \in Nat /\ N * (runs - 1) + K <= N * runs
      BY <2>1, <3>2
    <3>4. /\ MaxCost * (N * (runs - 1) + K) <= MaxCost * (N * runs)
          /\ MaxCost * (N * (runs - 1) + K) \in Nat
      <4> HIDE DEF N, K
      <4>1. QED BY <2>3, <3>3, TimesMono, ExecutorAssumption
    <3>5. spent <= Limit + MaxCost * (N * (runs - 1) + K)
      BY <2>6 DEF SpendInv
    <3>6. spent <= Limit + MaxCost * (N * runs)
      <4> HIDE DEF N, K
      <4>1. QED BY <2>1, <2>4, <3>4, <3>5, ExecutorAssumption
    <3>7. QED BY <2>2, <3>6 DEF SpendBounded
  <2>7. QED BY <2>1, <2>5, <2>6
<1>3. QED BY <1>1, <1>2, SafeInit, SafeStep, SpendStep, PTL DEF Spec

(* Workflow                                                                 *)

KeyOf(e) == <<e.sink, e.batch, e.who>>
Logged == {effects[j] : j \in DOMAIN effects}

\* Whatever was written had been claimed, and what is about to be written is claimed and
\* has not been written yet.
ClaimedInv ==
    /\ effects \in Seq(Logged)
    /\ \A e \in Logged : KeyOf(e) \in claims
    /\ stage = "write" =>
          /\ SinkKey(sink, Head(todo)) \in claims
          /\ \A e \in Logged : KeyOf(e) # SinkKey(sink, Head(todo))
    /\ KeyWrittenOnce

Of(list) == {list[k] : k \in DOMAIN list}

\* Every Output there is, and every effect: who has the same identity has the same items.
Everything == Of(saved) \cup Of(current) \cup Of(todo) \cup Of(out) \cup Logged
IdentityInv ==
    /\ \A o \in Everything :
          IF o.who \in Lineages THEN o.from = {o.who} ELSE o.who \in Nat /\ o.who < nextId
    /\ \A o, p \in Everything : o.who = p.who => o.from = p.from

\* What a list is when all went well that gets to step k
OutputIs(o, k) == LastComputed(o.after, k) /\ (o.who \in Lineages <=> ~Aggregated(k))
ListIs(list, k) ==
    k > 1 => Arrived(From(list), k) /\ \A o \in Of(list) : OutputIs(o, k)

\* k is the first step from "from" on that is not among those to skip
FirstOpen(skipped, from, k) ==
    k \in from .. Len(Steps) + 1 /\ k \notin skipped /\ from .. k - 1 \subseteq skipped
Opens(skipped, from, list) ==
    \A k \in 1 .. Len(Steps) + 1 : FirstOpen(skipped, from, k) => ListIs(list, k)

AtWork == {"work", "write", "check", "save"}
Active == AtWork \cup {"next"}

\* The steps that are marked: those skipped and those since
MarkedInv ==
    /\ \A j \in done : 1 .. j \subseteq done
    /\ \A j \in doneSteps : 1 .. j \subseteq doneSteps
    /\ status = "none" => doneSteps = {}
    /\ stage \in Active =>
          /\ status = "none" => done = {}
          /\ status # "none" =>
                doneSteps = done \cup (1 .. IF stage = "save" THEN idx ELSE idx - 1)
    /\ stage \in AtWork => idx \notin done
    /\ stage = "returned" => idx = Len(Steps) + 1

SavedInv == stage # "save" => Opens(doneSteps, 1, saved)

\* What is handed on
HandedInv ==
    /\ stage = "next" => Opens(done, idx, current)
    /\ stage = "check" => ListIs(out, idx + 1)
    /\ stage = "save" => ListIs(current, idx + 1)
    /\ stage = "returned" => ListIs(current, Len(Steps) + 1)

WrittenInv == \A e \in Logged : e.from \subseteq Expected(e.sink[1])

\* What a step has made of what it was given: a filter drops, a router may let one drop
Dropping(k) == Steps[k] = "filter" /\ ~Aggregated(k)
MayDrop(k) == Filtering(k) /\ ~Aggregated(k)
StillDue(list, k) == {i \in From(list) : MayDrop(k) => i \in Kept}
MadeInv ==
    stage \in {"work", "write"} /\ Steps[idx] \in {"filter", "batch", "router"} =>
        /\ From(out) \subseteq Expected(idx + 1) /\ From(todo) \subseteq Expected(idx)
        /\ Due(idx + 1) \subseteq From(out) \cup StillDue(todo, idx)
        /\ \A o \in Of(out) : OutputIs(o, idx + 1)
        /\ \A o \in Of(todo) : OutputIs(o, idx)
TakenInv ==
    stage \in {"work", "write"} /\ Steps[idx] \in {"aggregate", "sink", "router"} =>
        /\ Of(todo) \subseteq Of(current) /\ ListIs(current, idx)
        /\ Steps[idx] = "aggregate" => From(todo) = From(current)

\* What is saved, handed on and written, unless a run died before it saved its state
ListsInv == SavedInv /\ HandedInv /\ WrittenInv /\ MadeInv /\ TakenInv

\* What the sinks have written, unless a run died before a write it had claimed too
CoveredInv ==
    \A key \in claims :
        \/ \E e \in Logged : KeyOf(e) = key
        \/ stage = "write" /\ key = SinkKey(sink, Head(todo))

PassedBy(k) ==
    \/ k \in doneSteps
    \/ stage # "idle" /\ k < idx
    \/ stage \in {"check", "save"} /\ k = idx
PassedInv ==
    \A k \in DOMAIN Steps : WritesAll(k) /\ PassedBy(k) => Due(k) \subseteq WrittenBy(k)

SinkInv ==
    stage \in {"work", "write"} /\ WritesAll(idx) =>
        From(current) \subseteq From(todo) \cup WrittenBy(idx)

EffectsInv == CoveredInv /\ PassedInv /\ SinkInv

WorkflowInv ==
    /\ WorkflowTypeOK /\ ClaimedInv /\ IdentityInv /\ MarkedInv
    /\ "save" \notin gaps => ListsInv
    /\ gaps \cap {"save", "write"} = {} => EffectsInv

(* Lists of Outputs                                                          *)

LEMMA FromIsOf == ASSUME NEW list PROVE From(list) = UNION {o.from : o \in Of(list)}
BY DEF From, Of

LEMMA EmptyList == Of(<<>>) = {} /\ From(<<>>) = {}
<1>1. Of(<<>>) = {}
  BY DEF Of
<1>2. QED BY <1>1, FromIsOf

LEMMA AppendedList ==
  ASSUME NEW S, NEW list \in Seq(S), NEW o \in S
  PROVE  /\ Of(Append(list, o)) = Of(list) \cup {o}
         /\ From(Append(list, o)) = From(list) \cup o.from
<1>1. PICK n \in Nat : n = Len(list)
  OBVIOUS
<1>2. /\ DOMAIN list = 1 .. n /\ DOMAIN Append(list, o) = 1 .. n + 1
      /\ Append(list, o)[n + 1] = o /\ \A k \in 1 .. n : Append(list, o)[k] = list[k]
  BY <1>1, AppendProperties
<1>3. Of(Append(list, o)) = Of(list) \cup {o}
  <2>1. ASSUME NEW p \in Of(Append(list, o)) PROVE p \in Of(list) \cup {o}
    <3>1. PICK k \in 1 .. n + 1 : p = Append(list, o)[k]
      BY <1>2 DEF Of
    <3>2. k = n + 1 \/ k \in 1 .. n
      OBVIOUS
    <3>3. QED BY <1>2, <3>1, <3>2 DEF Of
  <2>2. ASSUME NEW p \in Of(list) PROVE p \in Of(Append(list, o))
    <3>1. PICK k \in 1 .. n : p = list[k]
      BY <1>2 DEF Of
    <3>2. k \in 1 .. n + 1
      OBVIOUS
    <3>3. QED BY <1>2, <3>1, <3>2 DEF Of
  <2>3. n + 1 \in 1 .. n + 1
    OBVIOUS
  <2>4. o \in Of(Append(list, o))
    BY <1>2, <2>3 DEF Of
  <2>5. QED BY <2>1, <2>2, <2>4
<1>4. QED BY <1>3, FromIsOf

LEMMA HeadAndTail ==
  ASSUME NEW S, NEW list \in Seq(S), list # <<>>
  PROVE  /\ Head(list) \in S /\ Tail(list) \in Seq(S)
         /\ Of(list) = {Head(list)} \cup Of(Tail(list))
         /\ From(list) = Head(list).from \cup From(Tail(list))
<1>1. PICK n \in Nat : n = Len(list)
  OBVIOUS
<1>2. /\ n > 0 /\ DOMAIN list = 1 .. n /\ DOMAIN Tail(list) = 1 .. n - 1
      /\ Head(list) = list[1] /\ \A k \in 1 .. n - 1 : Tail(list)[k] = list[k + 1]
      /\ list[1] \in S /\ Tail(list) \in Seq(S)
  BY <1>1, HeadTailProperties
<1>3. Of(list) = {Head(list)} \cup Of(Tail(list))
  <2>1. ASSUME NEW p \in Of(list) PROVE p \in {Head(list)} \cup Of(Tail(list))
    <3>1. PICK k \in 1 .. n : p = list[k]
      BY <1>2 DEF Of
    <3>2. CASE k = 1
      BY <1>2, <3>1, <3>2
    <3>3. CASE k # 1
      <4>1. k - 1 \in 1 .. n - 1 /\ (k - 1) + 1 = k
        BY <3>3
      <4>2. QED BY <1>2, <3>1, <4>1 DEF Of
    <3>4. QED BY <3>2, <3>3
  <2>2. ASSUME NEW p \in Of(Tail(list)) PROVE p \in Of(list)
    <3>1. PICK k \in 1 .. n - 1 : p = Tail(list)[k]
      BY <1>2 DEF Of
    <3>2. k + 1 \in 1 .. n
      OBVIOUS
    <3>3. QED BY <1>2, <3>1, <3>2 DEF Of
  <2>3. 1 \in 1 .. n
    BY <1>2
  <2>4. QED BY <1>2, <2>1, <2>2, <2>3 DEF Of
<1>4. QED BY <1>2, <1>3, FromIsOf

(* What a step of each kind does to what the next may expect                 *)

LEMMA StepsAre == Len(Steps) \in Nat /\ DOMAIN Steps = 1 .. Len(Steps)
BY WorkflowAssumption

LEMMA HoldsOn ==
  ASSUME NEW k \in 1 .. Len(Steps), NEW j \in 1 .. k - 1
  PROVE  Holds(j, k + 1) <=> Holds(j, k) /\ Steps[k] # "source"
<1>1. j + 1 .. (k + 1) - 1 = (j + 1 .. k - 1) \cup {k}
  BY StepsAre
<1>2. QED BY <1>1 DEF Holds

LEMMA HoldsNext ==
  ASSUME NEW k \in 1 .. Len(Steps)
  PROVE  Holds(k, k + 1) /\ 1 .. (k + 1) - 1 = (1 .. k - 1) \cup {k}
BY StepsAre DEF Holds

LEMMA NextAggregated ==
  ASSUME NEW k \in 1 .. Len(Steps)
  PROVE  Aggregated(k + 1) <=>
            Steps[k] = "aggregate" \/ (Steps[k] # "source" /\ Aggregated(k))
BY HoldsOn, HoldsNext DEF Aggregated

LEMMA NextNarrowed ==
  ASSUME NEW k \in 1 .. Len(Steps)
  PROVE  /\ Narrowed(k + 1) <=> Dropping(k) \/ (Steps[k] # "source" /\ Narrowed(k))
         /\ Thinned(k + 1) <=> MayDrop(k) \/ (Steps[k] # "source" /\ Thinned(k))
BY HoldsOn, HoldsNext DEF Narrowed, Thinned, Dropping, MayDrop

LEMMA NextComputed ==
  ASSUME NEW k \in 1 .. Len(Steps)
  PROVE  /\ k \in Computing => LastComputed(k, k + 1)
         /\ k \notin Computing => \A j : LastComputed(j, k) => LastComputed(j, k + 1)
<1>1. ASSUME NEW j, k \notin Computing, LastComputed(j, k) PROVE LastComputed(j, k + 1)
  <2>1. j \in 1 .. Len(Steps) /\ j < k
    BY <1>1, StepsAre DEF LastComputed, Computing
  <2>2. j + 1 .. (k + 1) - 1 = (j + 1 .. k - 1) \cup {k} /\ j < k + 1
    BY <2>1, StepsAre
  <2>3. QED BY <1>1, <2>2 DEF LastComputed
<1>2. ASSUME k \in Computing PROVE LastComputed(k, k + 1)
  <2>1. k < k + 1 /\ k + 1 .. (k + 1) - 1 = {}
    BY StepsAre
  <2>2. QED BY <1>2, <2>1 DEF LastComputed
<1>3. QED BY <1>1, <1>2

\* Only a source starts from nothing, only a filter before any aggregation drops an item,
\* and an Output that a step hands on is still the last computed one.
LEMMA NextExpected ==
  ASSUME NEW k \in 1 .. Len(Steps)
  PROVE  /\ Steps[k] = "source" =>
               Expected(k + 1) = Sources /\ Due(k + 1) = Sources /\ ~Aggregated(k + 1)
         /\ Steps[k] # "source" =>
               /\ Expected(k + 1) = {i \in Expected(k) : Dropping(k) => i \in Kept}
               /\ Due(k + 1) = {i \in Due(k) : MayDrop(k) => i \in Kept}
               /\ Aggregated(k + 1) <=> Steps[k] = "aggregate" \/ Aggregated(k)
         /\ Steps[k] \in {"source", "batch", "aggregate", "router"} => LastComputed(k, k + 1)
         /\ Steps[k] \in {"filter", "sink"} =>
               \A j : LastComputed(j, k) => LastComputed(j, k + 1)
<1>1. Steps[k] \in {"source", "batch", "aggregate", "router"} <=> k \in Computing
  BY StepsAre DEF Computing
<1>2. Aggregated(k + 1) <=> (Steps[k] = "aggregate" \/ (Steps[k] # "source" /\ Aggregated(k)))
  BY NextAggregated
<1>3. /\ Narrowed(k + 1) <=> Dropping(k) \/ (Steps[k] # "source" /\ Narrowed(k))
      /\ Thinned(k + 1) <=> MayDrop(k) \/ (Steps[k] # "source" /\ Thinned(k))
  BY NextNarrowed
<1>4. CASE Steps[k] = "source"
  <2>1. ~Dropping(k) /\ ~MayDrop(k)
    BY <1>4 DEF Dropping, MayDrop, Filtering, Branching
  <2>2. QED BY <1>1, <1>2, <1>3, <1>4, <2>1, NextComputed DEF Expected, Due
<1>5. CASE Steps[k] # "source"
  <2>1. Expected(k + 1) = {i \in Expected(k) : Dropping(k) => i \in Kept}
    BY <1>3, <1>5 DEF Expected
  <2>2. Due(k + 1) = {i \in Due(k) : MayDrop(k) => i \in Kept}
    BY <1>3, <1>5 DEF Due
  <2>3. QED BY <1>1, <1>2, <1>5, <2>1, <2>2, NextComputed
<1>6. QED BY <1>4, <1>5

\* Where no filter is, everything goes on.
LEMMA NextWhole ==
  ASSUME NEW k \in 1 .. Len(Steps), Steps[k] \in {"batch", "aggregate", "sink"}
  PROVE  Expected(k + 1) = Expected(k) /\ Due(k + 1) = Due(k)
<1>1. ~Dropping(k) /\ ~MayDrop(k) /\ Steps[k] # "source"
  BY DEF Dropping, MayDrop, Filtering, Branching
<1>2. QED BY <1>1, NextExpected

LEMMA SinksAre ==
  ASSUME NEW k \in 1 .. Len(Steps), NEW x \in SinksOf(k)
  PROVE  x \in Sinks /\ x[1] = k
BY StepsAre DEF SinksOf, Sinks

LEMMA RoutedIs ==
  ASSUME NEW o \in Output, idx \in 0 .. Len(Steps)
  PROVE  /\ Routed(o) \in Output /\ Routed(o).who = o.who /\ Routed(o).from = o.from
         /\ Routed(o).after = IF Steps[idx] = "router" THEN idx ELSE o.after
BY DEF Routed, Output

(* The steps of the run, one part of the invariant at a time                 *)

LEMMA WorkflowStarts == WorkflowInit => WorkflowInv
<1> SUFFICES ASSUME WorkflowInit PROVE WorkflowInv
  OBVIOUS
<1>1. WorkflowTypeOK
  BY WorkflowAssumption, StepsAre
     DEF WorkflowInit, WorkflowTypeOK, ListsTyped, RowsTyped, PlaceTyped, Resting
<1>2. Of(saved) = {} /\ Of(current) = {} /\ Of(todo) = {} /\ Of(out) = {} /\ Logged = {}
  BY EmptyList DEF WorkflowInit, Logged
<1>3. ClaimedInv
  BY <1>2 DEF WorkflowInit, ClaimedInv, KeyWrittenOnce
<1>4. IdentityInv
  BY <1>2 DEF IdentityInv, Everything
<1>5. MarkedInv
  BY DEF WorkflowInit, MarkedInv, Active, AtWork
<1>6. Opens(doneSteps, 1, saved)
  <2> SUFFICES ASSUME NEW k \in 1 .. Len(Steps) + 1, FirstOpen(doneSteps, 1, k)
               PROVE  ListIs(saved, k)
    BY DEF Opens
  <2>1. 1 .. k - 1 = {}
    BY DEF WorkflowInit, FirstOpen
  <2>2. ~(k > 1)
    BY <2>1
  <2>3. QED BY <2>2 DEF ListIs
<1>7. ListsInv
  BY <1>2, <1>6 DEF WorkflowInit, ListsInv, SavedInv, HandedInv, WrittenInv, MadeInv, TakenInv
<1>8. EffectsInv
  <2>1. \A k \in DOMAIN Steps : ~PassedBy(k)
    BY DEF WorkflowInit, PassedBy
  <2>2. QED BY <2>1 DEF WorkflowInit, EffectsInv, CoveredInv, PassedInv, SinkInv
<1>9. QED BY <1>1, <1>3, <1>4, <1>5, <1>7, <1>8 DEF WorkflowInv

\* The actions are cited whole: what a step does to the lists, then to the rest.
LEMMA ListsStayTyped == WorkflowTypeOK /\ [WorkflowNext]_workflowVars => ListsTyped'
<1> SUFFICES ASSUME WorkflowTypeOK, [WorkflowNext]_workflowVars PROVE ListsTyped'
  OBVIOUS
<1>1. ListsTyped /\ nextId \in Nat /\ Len(Steps) \in Nat
  BY StepsAre DEF WorkflowTypeOK, PlaceTyped
<1>2. stage \in {"work", "write", "check", "save"} =>
         idx \in 1 .. Len(Steps) /\ idx \in 0 .. Len(Steps)
  BY <1>1 DEF WorkflowTypeOK, PlaceTyped, Resting
<1>3. todo # <<>> => Head(todo) \in Output /\ Tail(todo) \in Seq(Output)
  BY <1>1, HeadAndTail DEF ListsTyped
<1>4. CASE UNCHANGED workflowVars
  BY <1>1, <1>4 DEF workflowVars, store, local, ListsTyped
<1>5. CASE Run \/ ResumePipeline \/ Skip \/ EnterStep \/ Die
  <2>1. /\ UNCHANGED <<saved, effects>>
        /\ current' = <<>> \/ current' = saved \/ current' = current
        /\ todo' = <<>> \/ todo' = current \/ todo' = todo
        /\ out' = <<>> \/ out' = out
    BY <1>5 DEF Run, ResumePipeline, Begin, Skip, EnterStep, Die, Forgotten, store
  <2>2. <<>> \in Seq(Output)
    OBVIOUS
  <2>3. QED BY <1>1, <2>1, <2>2 DEF ListsTyped
<1>6. CASE Fetch
  <2>1. PICK n \in Nat : DOMAIN Feed = 1 .. n
    BY WorkflowAssumption
  <2>2. \A k \in DOMAIN Feed : [who |-> Feed[k], from |-> {Feed[k]}, after |-> idx] \in Output
    BY <1>2, <1>6, WorkflowAssumption DEF Fetch, AtStep, Output, Identity
  <2>3. out' \in Seq(Output)
    BY <1>6, <2>1, <2>2 DEF Fetch
  <2>4. QED BY <1>1, <1>6, <2>3 DEF Fetch, store, ListsTyped
<1>7. CASE FilterItem \/ SinkSkip
  <2>1. todo # <<>>
    BY <1>7 DEF FilterItem, SinkSkip, ItemFor
  <2>2. /\ UNCHANGED <<saved, current, effects>> /\ todo' = Tail(todo)
        /\ out' = out \/ out' = Append(out, Routed(Head(todo)))
    BY <1>7 DEF FilterItem, SinkSkip, Handed, store
  <2>3. Append(out, Routed(Head(todo))) \in Seq(Output)
    <3>1. stage = "work"
      BY <1>7 DEF FilterItem, SinkSkip, ItemFor
    <3>2. QED BY <1>1, <1>2, <1>3, <2>1, <3>1, RoutedIs, AppendProperties DEF ListsTyped
  <2>4. QED BY <1>1, <1>3, <2>1, <2>2, <2>3 DEF ListsTyped
<1>8. CASE BatchItem
  <2>1. LineageOf(Head(todo)) \in Identity
    BY <1>1 DEF LineageOf, Identity
  <2>2. [who |-> LineageOf(Head(todo)), from |-> Head(todo).from, after |-> idx] \in Output
    BY <1>2, <1>3, <1>8, <2>1 DEF BatchItem, ItemFor, Output
  <2>3. todo # <<>>
    BY <1>8 DEF BatchItem, ItemFor
  <2>4. QED BY <1>1, <1>3, <1>8, <2>2, <2>3 DEF BatchItem, store, ListsTyped
<1>9. CASE Aggregate
  <2>1. \A k \in DOMAIN todo : todo[k] \in Output
    BY <1>1 DEF ListsTyped
  <2>2. \A k \in DOMAIN todo : todo[k].from \subseteq Lineages
    BY <2>1 DEF Output
  <2>3. UNION {todo[k].from : k \in DOMAIN todo} \subseteq Lineages
    BY <2>2
  <2>4. nextId \in Identity
    BY <1>1 DEF Identity
  <2> DEFINE all == UNION {todo[k].from : k \in DOMAIN todo}
  <2>5. stage = "work" /\ out' = << [who |-> nextId, from |-> all, after |-> idx] >>
    BY <1>9 DEF Aggregate, AtStep
  <2> HIDE DEF all
  <2>6. [who |-> nextId, from |-> all, after |-> idx] \in Output
    BY <1>2, <2>3, <2>4, <2>5 DEF Output, all
  <2>7. out' \in Seq(Output)
    BY <2>5, <2>6
  <2>8. QED BY <1>1, <1>9, <2>7 DEF Aggregate, store, ListsTyped
<1>10. CASE SinkWrite
  <2>1. todo # <<>> /\ stage = "write" /\ batch \in Batches /\ sink \in Sinks
    BY <1>2, <1>10, SinksAre DEF SinkWrite, WorkflowTypeOK, PlaceTyped, Resting
  <2>2. [sink |-> sink, batch |-> batch, who |-> Head(todo).who,
         from |-> Head(todo).from] \in Effect
    BY <1>3, <2>1 DEF Output, Effect
  <2>3. out' \in Seq(Output)
    <3>1. Append(out, Routed(Head(todo))) \in Seq(Output)
      BY <1>1, <1>2, <1>3, <2>1, RoutedIs, AppendProperties DEF ListsTyped
    <3>2. QED BY <1>1, <1>10, <3>1 DEF SinkWrite, Handed, ListsTyped
  <2>4. QED BY <1>1, <1>3, <1>10, <2>1, <2>2, <2>3 DEF SinkWrite, store, ListsTyped
<1>11. CASE SinkClaim \/ ItemsDone \/ Checkpoint
  BY <1>1, <1>11 DEF SinkClaim, ItemsDone, Checkpoint, store, local, ListsTyped
<1>12. CASE SaveState \/ FinishPipeline
  BY <1>1, <1>12 DEF SaveState, StateSaved, FinishPipeline, store, local, ListsTyped
<1>13. QED BY <1>4, <1>5, <1>6, <1>7, <1>8, <1>9, <1>10, <1>11, <1>12 DEF WorkflowNext

LEMMA RowsStayTyped == WorkflowTypeOK /\ [WorkflowNext]_workflowVars => RowsTyped'
<1> SUFFICES ASSUME WorkflowTypeOK, [WorkflowNext]_workflowVars PROVE RowsTyped'
  OBVIOUS
<1>1. RowsTyped
  BY DEF WorkflowTypeOK
<1>2. stage \in {"work", "check"} => idx \in 1 .. Len(Steps) /\ batch \in Batches
  BY StepsAre DEF WorkflowTypeOK, PlaceTyped, Resting
<1>3. CASE SinkClaim
  <2>1. todo # <<>> /\ stage = "work"
    BY <1>3 DEF SinkClaim, ItemFor
  <2>2. Head(todo) \in Output
    BY <2>1, HeadAndTail DEF WorkflowTypeOK, ListsTyped
  <2>3. Head(todo).who \in Identity
    BY <2>2 DEF Output
  <2>4. PICK x \in SinksOf(idx) : Claim(SinkKey(x, Head(todo)))
    BY <1>3 DEF SinkClaim
  <2>5. SinkKey(x, Head(todo)) \in Sinks \X Batches \X Identity
    BY <1>2, <2>1, <2>3, SinksAre DEF SinkKey
  <2>6. QED BY <1>1, <1>3, <2>4, <2>5 DEF SinkClaim, Claim, RowsTyped
<1>4. CASE Checkpoint
  BY <1>1, <1>2, <1>4 DEF Checkpoint, MarkStep, RowsTyped
<1>5. CASE Run \/ ResumePipeline \/ Die
  BY <1>1, <1>5 DEF Run, ResumePipeline, Begin, StepsToSkip, Die, Forgotten, store, RowsTyped
<1>6. CASE FinishPipeline
  BY <1>1, <1>6 DEF FinishPipeline, local, RowsTyped
<1>7. CASE UNCHANGED <<status, doneSteps, claims, done>>
  BY <1>1, <1>7 DEF RowsTyped
<1>8. CASE \/ UNCHANGED workflowVars \/ Skip \/ EnterStep \/ Fetch \/ FilterItem \/ BatchItem
           \/ Aggregate \/ SinkSkip \/ SinkWrite \/ ItemsDone \/ SaveState
  <2>1. UNCHANGED <<status, doneSteps, claims, done>>
    BY <1>8 DEF workflowVars, store, local, Skip, EnterStep, Fetch, FilterItem, BatchItem,
                Aggregate, SinkSkip, SinkWrite, ItemsDone, SaveState
  <2>2. QED BY <1>7, <2>1
<1>9. QED BY <1>3, <1>4, <1>5, <1>6, <1>8 DEF WorkflowNext

LEMMA PlaceStaysTyped == WorkflowTypeOK /\ [WorkflowNext]_workflowVars => PlaceTyped'
<1> SUFFICES ASSUME WorkflowTypeOK, [WorkflowNext]_workflowVars PROVE PlaceTyped'
  OBVIOUS
<1>1. PlaceTyped /\ Len(Steps) \in Nat /\ MaxStarts \in Nat
  BY StepsAre, WorkflowAssumption DEF WorkflowTypeOK
<1> USE DEF PlaceTyped, Resting
<1>2. CASE UNCHANGED workflowVars
  BY <1>1, <1>2 DEF workflowVars, store, local
<1>3. CASE Run \/ ResumePipeline
  <2>1. Begin
    BY <1>3 DEF Run, ResumePipeline
  <2>2. QED BY <1>1, <2>1 DEF Begin
<1>4. CASE Skip
  <2>1. idx \in 1 .. Len(Steps)
    BY <1>4 DEF Skip, WorkflowTypeOK, RowsTyped
  <2>2. QED BY <1>1, <1>4, <2>1 DEF Skip
<1>5. CASE EnterStep
  BY <1>1, <1>5 DEF EnterStep
<1>6. CASE Fetch \/ Aggregate \/ ItemsDone \/ FilterItem \/ BatchItem \/ SinkSkip
  <2>1. /\ stage = "work" /\ stage' \in {"work", "check"}
        /\ UNCHANGED <<idx, batch, starts, gaps>>
        /\ nextId' = nextId \/ nextId' = nextId + 1
    BY <1>6 DEF Fetch, Aggregate, ItemsDone, FilterItem, BatchItem, SinkSkip, AtStep, ItemFor
  <2>2. QED BY <1>1, <2>1
<1>8. CASE SinkClaim
  <2>1. /\ stage = "work" /\ stage' = "write" /\ todo' = todo /\ todo # <<>>
        /\ UNCHANGED <<idx, batch, starts, gaps, nextId>> /\ Steps[idx] \in {"sink", "router"}
        /\ sink' \in SinksOf(idx)
    BY <1>8 DEF SinkClaim, Claim, ItemFor, Branching
  <2>2. QED BY <1>1, <2>1
<1>9. CASE SinkWrite
  BY <1>1, <1>9 DEF SinkWrite
<1>10. CASE Checkpoint
  BY <1>1, <1>10 DEF Checkpoint
<1>11. CASE SaveState
  BY <1>1, <1>11 DEF SaveState
<1>12. CASE FinishPipeline
  BY <1>1, <1>12 DEF FinishPipeline, local
<1>13. CASE Die
  BY <1>1, <1>13 DEF Die, Forgotten, Gaps
<1>14. QED BY <1>2, <1>3, <1>4, <1>5, <1>6, <1>8, <1>9, <1>10, <1>11, <1>12, <1>13
           DEF WorkflowNext

LEMMA WorkflowTyped == WorkflowTypeOK /\ [WorkflowNext]_workflowVars => WorkflowTypeOK'
BY ListsStayTyped, RowsStayTyped, PlaceStaysTyped DEF WorkflowTypeOK

\* Where nothing is written and no claim is lost, only the step that claims has to say more.
LEMMA NothingWritten ==
  ASSUME ClaimedInv, effects' = effects, claims \subseteq claims', stage' # "write"
  PROVE  ClaimedInv'
BY DEF ClaimedInv, Logged, KeyWrittenOnce

LEMMA SinkClaimStep == ASSUME ClaimedInv, SinkClaim PROVE ClaimedInv'
<1>1. PICK x \in SinksOf(idx) : sink' = x /\ Claim(SinkKey(x, Head(todo)))
  BY DEF SinkClaim
<1>2. SinkKey(sink, Head(todo))' = SinkKey(x, Head(todo)) /\ effects' = effects
  BY <1>1 DEF SinkClaim, SinkKey
<1>3. SinkKey(x, Head(todo)) \notin claims /\ claims' = claims \cup {SinkKey(x, Head(todo))}
  BY <1>1 DEF Claim
<1>4. \A e \in Logged : KeyOf(e) # SinkKey(x, Head(todo))
  BY <1>3 DEF ClaimedInv
<1>5. Logged' = Logged
  BY <1>2 DEF Logged
<1>6. QED BY <1>2, <1>3, <1>4, <1>5 DEF ClaimedInv, KeyWrittenOnce

LEMMA SinkWriteStep == ASSUME ClaimedInv, SinkWrite PROVE ClaimedInv'
<1>0. PICK n \in Nat : n = Len(effects)
  BY DEF ClaimedInv
<1> DEFINE o == Head(todo)
           e == [sink |-> sink, batch |-> batch, who |-> o.who, from |-> o.from]
<1>1. effects' = Append(effects, e) /\ claims' = claims /\ stage' = "work"
  BY DEF SinkWrite, store
<1>2. KeyOf(e) = SinkKey(sink, o)
  BY DEF KeyOf, SinkKey
<1>3. SinkKey(sink, o) \in claims /\ \A d \in Logged : KeyOf(d) # SinkKey(sink, o)
  BY DEF SinkWrite, ClaimedInv
<1> HIDE DEF e
<1>4. /\ effects' \in Seq(Logged \cup {e}) /\ DOMAIN effects = 1 .. n
      /\ DOMAIN effects' = 1 .. n + 1 /\ effects'[n + 1] = e
      /\ \A j \in 1 .. n : effects'[j] = effects[j]
  <2>1. effects \in Seq(Logged \cup {e})
    BY DEF ClaimedInv
  <2>2. QED BY <1>0, <1>1, <2>1, AppendProperties
<1>5. Logged' = Logged \cup {e}
  BY <1>4 DEF Logged
<1>6. \A d \in Logged' : KeyOf(d) \in claims'
  BY <1>1, <1>2, <1>3, <1>5 DEF ClaimedInv
<1>7. KeyWrittenOnce'
  <2> SUFFICES ASSUME NEW j \in DOMAIN effects', NEW k \in DOMAIN effects',
                      KeyOf(effects'[j]) = KeyOf(effects'[k])
               PROVE  j = k
    BY DEF KeyWrittenOnce, KeyOf
  <2>1. \A i \in 1 .. n : KeyOf(effects'[i]) # KeyOf(e)
    BY <1>2, <1>3, <1>4 DEF Logged
  <2>2. (j = n + 1 \/ j \in 1 .. n) /\ (k = n + 1 \/ k \in 1 .. n)
    BY <1>4
  <2>3. CASE j \in 1 .. n /\ k \in 1 .. n
    BY <1>4, <2>3 DEF ClaimedInv, KeyWrittenOnce, KeyOf
  <2>4. QED BY <1>4, <2>1, <2>2, <2>3
<1>8. QED BY <1>1, <1>4, <1>5, <1>6, <1>7 DEF ClaimedInv

LEMMA ClaimedStep == ClaimedInv /\ [WorkflowNext]_workflowVars => ClaimedInv'
<1> SUFFICES ASSUME ClaimedInv, [WorkflowNext]_workflowVars PROVE ClaimedInv'
  OBVIOUS
<1>1. CASE UNCHANGED workflowVars
  BY <1>1 DEF workflowVars, store, local, ClaimedInv, Logged, KeyWrittenOnce, SinkKey
<1>2. CASE Run \/ ResumePipeline \/ Skip \/ EnterStep \/ Fetch \/ FilterItem
  BY <1>2, NothingWritten
     DEF Run, ResumePipeline, Begin, Skip, EnterStep, Fetch, FilterItem, AtStep,
         ItemFor, store
<1>3. CASE BatchItem \/ Aggregate \/ SinkSkip \/ ItemsDone
  BY <1>3, NothingWritten DEF BatchItem, Aggregate, SinkSkip, ItemsDone, AtStep, ItemFor, store
<1>4. CASE Checkpoint \/ SaveState \/ FinishPipeline \/ Die
  BY <1>4, NothingWritten DEF Checkpoint, SaveState, FinishPipeline, Die, store
<1>5. QED BY <1>1, <1>2, <1>3, <1>4, SinkClaimStep, SinkWriteStep DEF WorkflowNext

(* Any steps in any order, however often the run dies, is resumed or begun     *)
(* again, whatever branches its routers choose each time: no sink writes an    *)
(* Output of one identity twice in one batch (Sink.write claims its key before *)
(* it writes).                                                                 *)
THEOREM SinksWriteOnce == WorkflowSpec => []KeyWrittenOnce
<1>1. WorkflowInit => ClaimedInv
  BY WorkflowStarts DEF WorkflowInv
<1>2. ClaimedInv => KeyWrittenOnce
  BY DEF ClaimedInv
<1>3. QED BY <1>1, <1>2, ClaimedStep, PTL DEF WorkflowSpec

\* Whatever a step makes either has the identity and the items of something there was, or
\* the items that its identity is, or an identity of its own.
LEMMA IdentityKept ==
  ASSUME WorkflowTypeOK, IdentityInv, NEW F, nextId' = nextId \/ nextId' = nextId + 1,
         \A p \in Everything' :
            \/ \E o \in Everything : o.who = p.who /\ o.from = p.from
            \/ p.who \in Lineages /\ p.from = {p.who}
            \/ p.who = nextId /\ p.from = F /\ nextId' = nextId + 1
  PROVE  IdentityInv'
<1>1. nextId \in Nat
  BY DEF WorkflowTypeOK, PlaceTyped
<1>2. \A o \in Everything : o.who \in Lineages => o.from = {o.who}
  BY DEF IdentityInv
<1>3. \A o \in Everything : o.who \notin Lineages => o.who \in Nat /\ o.who < nextId
  BY DEF IdentityInv
<1>4. \A o, p \in Everything : o.who = p.who => o.from = p.from
  BY DEF IdentityInv
<1>5. nextId \notin Lineages
  BY <1>1, WorkflowAssumption
<1>6. ASSUME NEW p \in Everything'
      PROVE  IF p.who \in Lineages THEN p.from = {p.who} ELSE p.who \in Nat /\ p.who < nextId'
  BY <1>1, <1>2, <1>3, <1>5, <1>6
<1>7. ASSUME NEW p \in Everything', NEW q \in Everything', p.who = q.who
      PROVE  p.from = q.from
  <2>1. CASE p.who \in Lineages
    BY <1>6, <1>7, <2>1
  <2>2. CASE p.who = nextId
    <3>1. \A o \in Everything : o.who # nextId
      BY <1>1, <1>3, <1>5
    <3>2. \A r \in Everything' : r.who = nextId => r.from = F
      BY <1>5, <3>1
    <3>3. QED BY <1>7, <2>2, <3>2
  <2>3. CASE p.who \notin Lineages /\ p.who # nextId
    BY <1>4, <1>7, <2>3
  <2>4. QED BY <2>1, <2>2, <2>3
<1>8. QED BY <1>6, <1>7 DEF IdentityInv

LEMMA IdentityStep ==
  WorkflowTypeOK /\ IdentityInv /\ [WorkflowNext]_workflowVars => IdentityInv'
<1> SUFFICES ASSUME WorkflowTypeOK, IdentityInv, [WorkflowNext]_workflowVars PROVE IdentityInv'
  OBVIOUS
<1>1. ASSUME Everything' \subseteq Everything, nextId' = nextId PROVE IdentityInv'
  BY <1>1, IdentityKept
<1>2. todo # <<>> => Head(todo) \in Of(todo) /\ Of(Tail(todo)) \subseteq Of(todo)
  BY HeadAndTail DEF WorkflowTypeOK, ListsTyped
<1>3. todo # <<>> /\ stage \in {"work", "write"} =>
          /\ Routed(Head(todo)) \in Output /\ Routed(Head(todo)).who = Head(todo).who
          /\ Routed(Head(todo)).from = Head(todo).from
  <2>1. stage \in {"work", "write"} => idx \in 0 .. Len(Steps)
    BY StepsAre DEF WorkflowTypeOK, PlaceTyped, Resting
  <2>2. todo # <<>> => Head(todo) \in Output
    BY HeadAndTail DEF WorkflowTypeOK, ListsTyped
  <2>3. QED BY <2>1, <2>2, RoutedIs
<1>4. ASSUME nextId' = nextId, UNCHANGED effects,
             /\ Of(saved') \subseteq Everything /\ Of(current') \subseteq Everything
             /\ Of(todo') \subseteq Everything /\ Of(out') \subseteq Everything
      PROVE  IdentityInv'
  <2>1. Logged' = Logged
    BY <1>4 DEF Logged
  <2>2. Everything' \subseteq Everything
    BY <1>4, <2>1 DEF Everything
  <2>3. QED BY <1>1, <1>4, <2>2
<1>5. /\ Of(saved) \subseteq Everything /\ Of(current) \subseteq Everything
      /\ Of(todo) \subseteq Everything /\ Of(out) \subseteq Everything
      /\ Of(<<>>) \subseteq Everything
  BY EmptyList DEF Everything
<1>6. CASE \/ UNCHANGED workflowVars \/ Run \/ ResumePipeline \/ Skip \/ EnterStep
           \/ SinkClaim \/ ItemsDone \/ Checkpoint \/ SaveState \/ FinishPipeline \/ Die
  <2>1. /\ nextId' = nextId /\ UNCHANGED effects
        /\ saved' = saved \/ saved' = current
        /\ current' = <<>> \/ current' = saved \/ current' = current \/ current' = out
        /\ todo' = <<>> \/ todo' = current \/ todo' = todo
        /\ out' = <<>> \/ out' = out \/ out' = current
    BY <1>6 DEF workflowVars, store, local, Run, ResumePipeline, Begin, Skip, EnterStep, SinkClaim,
                ItemsDone, Checkpoint, SaveState, StateSaved, FinishPipeline, Die, Forgotten
  <2>2. QED BY <1>4, <1>5, <2>1
<1>7. CASE FilterItem \/ SinkSkip
  <2> DEFINE p == Routed(Head(todo))
  <2>1. /\ todo # <<>> /\ todo' = Tail(todo) /\ nextId' = nextId /\ stage = "work"
        /\ UNCHANGED <<saved, current, effects>>
        /\ out' = out \/ out' = Append(out, p)
    BY <1>7 DEF FilterItem, SinkSkip, ItemFor, Handed, store
  <2>2. /\ Head(todo) \in Everything /\ p.who = Head(todo).who /\ p.from = Head(todo).from
        /\ p \in Output
    BY <1>2, <1>5, <1>3, <2>1
  <2> HIDE DEF p
  <2>3. Of(Append(out, p)) = Of(out) \cup {p}
    BY <2>2, AppendedList DEF WorkflowTypeOK, ListsTyped
  <2>4. \A q \in Everything' : q \in Everything \/ q = p
    BY <1>2, <2>1, <2>3 DEF Everything, Logged
  <2>5. QED BY <2>1, <2>2, <2>4, IdentityKept
<1>8. CASE Fetch
  <2>1. /\ nextId' = nextId /\ UNCHANGED <<saved, current, todo, effects>>
        /\ out' = [k \in DOMAIN Feed |-> [who |-> Feed[k], from |-> {Feed[k]}, after |-> idx]]
    BY <1>8 DEF Fetch, store
  <2>2. \A p \in Of(out') : p.who \in Lineages /\ p.from = {p.who}
    BY <2>1, WorkflowAssumption DEF Of
  <2>3. \A p \in Everything' : p \in Everything \/ p \in Of(out')
    BY <2>1 DEF Everything, Logged
  <2>4. QED BY <2>1, <2>2, <2>3, IdentityKept
<1>9. CASE BatchItem
  <2> DEFINE o == Head(todo)
             p == [who |-> LineageOf(o), from |-> o.from, after |-> idx]
  <2>1. /\ todo # <<>> /\ out' = Append(out, p) /\ todo' = Tail(todo) /\ nextId' = nextId + 1
        /\ UNCHANGED <<saved, current, effects>>
    BY <1>9 DEF BatchItem, ItemFor, store
  <2>2. o \in Everything /\ Of(todo') \subseteq Everything
    BY <1>2, <1>5, <2>1
  <2>3. \/ \E q \in Everything : q.who = p.who /\ q.from = p.from
        \/ p.who = nextId /\ p.from = o.from /\ nextId' = nextId + 1
    BY <2>1, <2>2 DEF LineageOf
  <2> HIDE DEF p, o
  <2>4. Of(out') = Of(out) \cup {p}
    <3>1. out \in Seq(Output \cup {p}) /\ p \in Output \cup {p}
      BY DEF WorkflowTypeOK, ListsTyped
    <3>2. QED BY <2>1, <3>1, AppendedList
  <2>5. \A q \in Everything' : q \in Everything \/ q = p
    BY <2>1, <2>2, <2>4 DEF Everything, Logged
  <2>6. \A q \in Everything' :
           \/ \E d \in Everything : d.who = q.who /\ d.from = q.from
           \/ q.who \in Lineages /\ q.from = {q.who}
           \/ q.who = nextId /\ q.from = o.from /\ nextId' = nextId + 1
    BY <2>3, <2>5
  <2>7. QED BY <2>1, <2>6, IdentityKept
<1>10. CASE Aggregate
  <2> DEFINE all == UNION {todo[k].from : k \in DOMAIN todo}
             p == [who |-> nextId, from |-> all, after |-> idx]
  <2>1. /\ out' = << p >> /\ nextId' = nextId + 1 /\ UNCHANGED <<saved, current, todo, effects>>
    BY <1>10 DEF Aggregate, store
  <2>2. p.who = nextId /\ p.from = all
    OBVIOUS
  <2> HIDE DEF p, all
  <2>3. \A q \in Of(out') : q = p
    BY <2>1 DEF Of
  <2>4. \A q \in Everything' : q \in Everything \/ q = p
    BY <2>1, <2>3 DEF Everything, Logged
  <2>5. \A q \in Everything' :
           \/ \E d \in Everything : d.who = q.who /\ d.from = q.from
           \/ q.who \in Lineages /\ q.from = {q.who}
           \/ q.who = nextId /\ q.from = all /\ nextId' = nextId + 1
    BY <2>1, <2>2, <2>4
  <2>6. QED BY <2>1, <2>5, IdentityKept
<1>11. CASE SinkWrite
  <2> DEFINE o == Head(todo)
             e == [sink |-> sink, batch |-> batch, who |-> o.who, from |-> o.from]
             p == Routed(o)
  <2>1. /\ todo # <<>> /\ effects' = Append(effects, e) /\ todo' = Tail(todo) /\ nextId' = nextId
        /\ UNCHANGED <<saved, current>> /\ stage = "write"
        /\ out' = out \/ out' = Append(out, p)
    BY <1>11 DEF SinkWrite, Handed, store, WorkflowTypeOK, PlaceTyped
  <2>2. o \in Everything /\ Of(todo') \subseteq Everything
    BY <1>2, <1>5, <2>1
  <2>3. /\ o.who = e.who /\ o.from = e.from
        /\ o.who = p.who /\ o.from = p.from /\ p \in Output
    BY <1>3, <2>1
  <2> HIDE DEF e, o, p
  <2>7. Of(Append(out, p)) = Of(out) \cup {p}
    BY <2>3, AppendedList DEF WorkflowTypeOK, ListsTyped
  <2>4. Logged' = Logged \cup {e}
    <3>1. effects \in Seq(Effect \cup {e}) /\ e \in Effect \cup {e}
      BY DEF WorkflowTypeOK, ListsTyped
    <3>2. Of(Append(effects, e)) = Of(effects) \cup {e}
      BY <3>1, AppendedList
    <3>3. QED BY <2>1, <3>2 DEF Logged, Of
  <2>5. \A q \in Everything' : q \in Everything \/ q = e \/ q = p
    BY <2>1, <2>2, <2>4, <2>7 DEF Everything
  <2>6. QED BY <2>1, <2>2, <2>3, <2>5, IdentityKept
<1>12. QED BY <1>6, <1>7, <1>8, <1>9, <1>10, <1>11 DEF WorkflowNext

LEMMA MarkedStep ==
  WorkflowTypeOK /\ MarkedInv /\ [WorkflowNext]_workflowVars => MarkedInv'
<1> SUFFICES ASSUME WorkflowTypeOK, MarkedInv, [WorkflowNext]_workflowVars PROVE MarkedInv'
  OBVIOUS
<1>1. /\ idx \in 1 .. Len(Steps) + 1 /\ Len(Steps) \in Nat
      /\ done \subseteq 1 .. Len(Steps) /\ doneSteps \subseteq 1 .. Len(Steps)
      /\ stage \in AtWork => idx \in 1 .. Len(Steps)
  BY StepsAre DEF WorkflowTypeOK, RowsTyped, PlaceTyped, AtWork, Resting
<1> USE DEF AtWork, Active
<1>2. CASE UNCHANGED workflowVars
  BY <1>2 DEF workflowVars, store, local, MarkedInv
<1>3. CASE Run
  <2>1. /\ status' = "running" /\ doneSteps' = {} /\ done' = {} /\ stage' = "next" /\ idx' = 1
        /\ 1 .. 1 - 1 = {}
    BY <1>3 DEF Run, Begin
  <2>2. QED BY <2>1 DEF MarkedInv
<1>4. CASE ResumePipeline
  <2>1. /\ UNCHANGED <<status, doneSteps>> /\ done' = doneSteps /\ stage' = "next" /\ idx' = 1
        /\ 1 .. 1 - 1 = {}
    BY <1>4 DEF ResumePipeline, Begin, StepsToSkip
  <2>2. QED BY <2>1 DEF MarkedInv
<1>5. CASE Skip
  <2>1. /\ UNCHANGED <<status, doneSteps, done, stage>> /\ stage = "next" /\ idx' = idx + 1
        /\ idx \in done
    BY <1>5 DEF Skip, store
  <2>2. 1 .. idx' - 1 = (1 .. idx - 1) \cup {idx}
    BY <1>1, <2>1
  <2>3. QED BY <2>1, <2>2 DEF MarkedInv
<1>6. CASE EnterStep
  BY <1>6 DEF EnterStep, store, MarkedInv
<1>7. CASE \/ Fetch \/ FilterItem \/ BatchItem \/ Aggregate
           \/ SinkClaim \/ SinkSkip \/ SinkWrite \/ ItemsDone
  <2>1. /\ UNCHANGED <<status, doneSteps, done, idx>>
        /\ stage \in {"work", "write"} /\ stage' \in {"work", "write", "check"}
    BY <1>7 DEF Fetch, FilterItem, BatchItem, Aggregate, SinkClaim, Claim, SinkSkip, SinkWrite,
                ItemsDone, AtStep, ItemFor, store
  <2>2. QED BY <2>1 DEF MarkedInv
<1>8. CASE Checkpoint
  <2>1. /\ UNCHANGED <<status, done, idx>> /\ stage = "check" /\ stage' = "save"
        /\ doneSteps' = IF status = "none" THEN doneSteps ELSE doneSteps \cup {idx}
    BY <1>8 DEF Checkpoint, MarkStep
  <2>2. 1 .. idx = (1 .. idx - 1) \cup {idx}
    BY <1>1
  <2>3. CASE status = "none"
    BY <2>1, <2>3 DEF MarkedInv
  <2>4. CASE status # "none"
    <3>1. doneSteps = done \cup (1 .. idx - 1) /\ doneSteps' = done \cup (1 .. idx)
      BY <2>1, <2>2, <2>4 DEF MarkedInv
    <3>2. \A j \in 1 .. idx : 1 .. j \subseteq 1 .. idx
      BY <1>1
    <3>3. \A j \in doneSteps' : 1 .. j \subseteq doneSteps'
      BY <3>1, <3>2 DEF MarkedInv
    <3>4. QED BY <2>1, <2>4, <3>1, <3>3 DEF MarkedInv
  <2>5. QED BY <2>3, <2>4
<1>9. CASE SaveState
  <2>1. /\ UNCHANGED <<status, doneSteps, done>> /\ stage = "save" /\ stage' = "next"
        /\ idx' = idx + 1 /\ idx' - 1 = idx
    BY <1>1, <1>9 DEF SaveState
  <2>2. QED BY <2>1 DEF MarkedInv
<1>10. CASE FinishPipeline
  <2>1. /\ UNCHANGED <<doneSteps, done, idx>> /\ stage' = "returned" /\ idx = Len(Steps) + 1
        /\ status' = "none" => status = "none"
    BY <1>10 DEF FinishPipeline, local
  <2>2. QED BY <2>1 DEF MarkedInv
<1>11. CASE Die
  BY <1>11 DEF Die, Forgotten, store, MarkedInv
<1>12. QED BY <1>2, <1>3, <1>4, <1>5, <1>6, <1>7, <1>8, <1>9, <1>10, <1>11 DEF WorkflowNext

\* The step after one just done is the first that is not to be skipped.
LEMMA OpensAfter ==
  ASSUME WorkflowTypeOK, MarkedInv, stage = "save", NEW k \in 1 .. Len(Steps) + 1,
         (FirstOpen(doneSteps, 1, k) /\ status # "none") \/ FirstOpen(done, idx + 1, k)
  PROVE  k = idx + 1
<1>1. idx \in 1 .. Len(Steps) /\ idx \notin done /\ Len(Steps) \in Nat
  BY StepsAre DEF WorkflowTypeOK, PlaceTyped, MarkedInv, AtWork, Resting
<1>2. idx + 1 \notin done
  <2>1. idx \in 1 .. idx + 1
    BY <1>1
  <2>2. QED BY <1>1, <2>1 DEF MarkedInv
<1>3. CASE FirstOpen(done, idx + 1, k)
  <2>1. k >= idx + 1 /\ idx + 1 .. k - 1 \subseteq done
    BY <1>1, <1>3 DEF FirstOpen
  <2>2. QED BY <1>1, <1>2, <2>1
<1>4. CASE FirstOpen(doneSteps, 1, k) /\ status # "none"
  <2>1. doneSteps = done \cup (1 .. idx)
    BY <1>4 DEF MarkedInv, Active, AtWork
  <2>2. k \notin 1 .. idx /\ 1 .. k - 1 \subseteq done \cup (1 .. idx)
    BY <1>4, <2>1 DEF FirstOpen
  <2>3. QED BY <1>1, <1>2, <2>2
<1>5. QED BY <1>3, <1>4

LEMMA SavedStep ==
  ASSUME WorkflowTypeOK, MarkedInv, ListsInv, [WorkflowNext]_workflowVars, "save" \notin gaps'
  PROVE  SavedInv'
<1>1. CASE doneSteps' = doneSteps /\ saved' = saved /\ stage # "save"
  BY <1>1 DEF ListsInv, SavedInv
<1>2. CASE Run
  <2>1. doneSteps' = {} /\ saved' = saved
    BY <1>2 DEF Run, Begin
  <2>2. ASSUME NEW k \in 1 .. Len(Steps) + 1, FirstOpen({}, 1, k) PROVE ListIs(saved, k)
    <3>1. 1 .. k - 1 = {}
      BY <2>2 DEF FirstOpen
    <3>2. ~(k > 1)
      BY <3>1
    <3>3. QED BY <3>2 DEF ListIs
  <2>3. Opens({}, 1, saved)
    BY <2>2 DEF Opens
  <2>4. QED BY <2>1, <2>3 DEF SavedInv
<1>3. CASE SaveState
  <2>1. doneSteps' = doneSteps /\ saved' = current /\ stage = "save"
    BY <1>3 DEF SaveState, StateSaved
  <2>2. ListIs(current, idx + 1)
    BY <2>1 DEF ListsInv, HandedInv
  <2>3. ASSUME NEW k \in 1 .. Len(Steps) + 1, FirstOpen(doneSteps, 1, k)
        PROVE  ListIs(current, k)
    <3>1. CASE status # "none"
      BY <2>1, <2>2, <2>3, <3>1, OpensAfter
    <3>2. CASE status = "none"
      <4>1. 1 .. k - 1 \subseteq {}
        BY <2>3, <3>2 DEF FirstOpen, MarkedInv
      <4>2. ~(k > 1)
        BY <4>1
      <4>3. QED BY <4>2 DEF ListIs
    <3>3. QED BY <3>1, <3>2
  <2>4. Opens(doneSteps, 1, current)
    BY <2>3 DEF Opens
  <2>5. QED BY <2>1, <2>4 DEF SavedInv
<1>4. CASE stage' = "save"
  BY <1>4 DEF SavedInv
<1>5. CASE Die
  <2>1. stage # "save" /\ doneSteps' = doneSteps /\ saved' = saved
    BY <1>5 DEF Die, Gaps, store
  <2>2. QED BY <1>1, <2>1
<1>6. CASE UNCHANGED workflowVars
  BY <1>6 DEF workflowVars, store, ListsInv, SavedInv
<1>7. CASE Checkpoint
  BY <1>4, <1>7 DEF Checkpoint
<1>8. CASE \/ ResumePipeline \/ Skip \/ EnterStep \/ Fetch \/ FilterItem \/ BatchItem \/ Aggregate
           \/ SinkClaim \/ SinkSkip \/ SinkWrite \/ ItemsDone \/ FinishPipeline
  <2>1. doneSteps' = doneSteps /\ saved' = saved /\ stage # "save"
    BY <1>8 DEF ResumePipeline, Begin, Skip, EnterStep, Fetch, FilterItem, BatchItem, Aggregate,
                SinkClaim, SinkSkip, SinkWrite, ItemsDone, FinishPipeline, AtStep, ItemFor,
                Resting, store
  <2>2. QED BY <1>1, <2>1
<1>9. QED BY <1>2, <1>3, <1>5, <1>6, <1>7, <1>8 DEF WorkflowNext

(* A step that is not the first is not alone: something handed it a list      *)
FirstIsSource == Steps # <<>> /\ Steps[1] = "source"

LEMMA NotFirst ==
  ASSUME FirstIsSource, WorkflowTypeOK, stage \in {"work", "write"}
  PROVE  idx \in 1 .. Len(Steps) /\ (Steps[idx] # "source" => idx > 1)
BY StepsAre DEF FirstIsSource, WorkflowTypeOK, PlaceTyped, Resting

LEMMA HandedStep ==
  ASSUME FirstIsSource, WorkflowTypeOK, MarkedInv, ListsInv, [WorkflowNext]_workflowVars
  PROVE  HandedInv'
<1>1. /\ idx \in 1 .. Len(Steps) + 1 /\ Len(Steps) \in Nat /\ done \subseteq 1 .. Len(Steps)
      /\ SavedInv /\ HandedInv /\ MadeInv /\ TakenInv /\ nextId \in Nat
  BY StepsAre DEF WorkflowTypeOK, RowsTyped, PlaceTyped, ListsInv
<1>2. CASE UNCHANGED workflowVars
  BY <1>1, <1>2 DEF workflowVars, store, local, HandedInv
<1>3. CASE Run
  <2>1. stage' = "next" /\ idx' = 1 /\ done' = {}
    BY <1>3 DEF Run, Begin
  <2>2. ASSUME NEW k \in 1 .. Len(Steps) + 1, FirstOpen({}, 1, k) PROVE ListIs(current', k)
    <3>1. 1 .. k - 1 = {}
      BY <2>2 DEF FirstOpen
    <3>2. ~(k > 1)
      BY <3>1
    <3>3. QED BY <3>2 DEF ListIs
  <2>3. Opens({}, 1, current')
    BY <2>2 DEF Opens
  <2>4. QED BY <2>1, <2>3 DEF HandedInv
<1>4. CASE ResumePipeline
  <2>1. stage' = "next" /\ idx' = 1 /\ done' = doneSteps /\ current' = saved /\ stage # "save"
    BY <1>4 DEF ResumePipeline, Begin, StepsToSkip, Resting
  <2>2. Opens(doneSteps, 1, saved)
    BY <1>1, <2>1 DEF SavedInv
  <2>3. QED BY <2>1, <2>2 DEF HandedInv
<1>5. CASE Skip
  <2>1. /\ stage' = "next" /\ stage = "next" /\ idx' = idx + 1 /\ idx \in done
        /\ done' = done /\ current' = current
    BY <1>5 DEF Skip
  <2>2. ASSUME NEW k \in 1 .. Len(Steps) + 1, FirstOpen(done, idx + 1, k)
        PROVE  ListIs(current, k)
    <3>1. FirstOpen(done, idx, k)
      <4>1. idx .. k - 1 \subseteq {idx} \cup (idx + 1 .. k - 1) /\ k \in idx .. Len(Steps) + 1
        BY <1>1, <2>2 DEF FirstOpen
      <4>2. QED BY <2>1, <2>2, <4>1 DEF FirstOpen
    <3>2. QED BY <1>1, <2>1, <3>1 DEF HandedInv, Opens
  <2>3. Opens(done, idx + 1, current)
    BY <2>2 DEF Opens
  <2>4. QED BY <2>1, <2>3 DEF HandedInv
<1>6. CASE Fetch
  <2>1. /\ stage' = "check" /\ idx' = idx /\ idx \in 1 .. Len(Steps) /\ Steps[idx] = "source"
        /\ out' = [k \in DOMAIN Feed |-> [who |-> Feed[k], from |-> {Feed[k]}, after |-> idx]]
    BY <1>1, <1>6 DEF Fetch, AtStep, WorkflowTypeOK, PlaceTyped, Resting
  <2>2. Of(out') = {[who |-> Feed[k], from |-> {Feed[k]}, after |-> idx] : k \in DOMAIN Feed}
    BY <2>1 DEF Of
  <2>3. From(out') = Sources
    <3> DEFINE p(k) == [who |-> Feed[k], from |-> {Feed[k]}, after |-> idx]
    <3>1. \A k : p(k).from = {Feed[k]}
      OBVIOUS
    <3>2. Of(out') = {p(k) : k \in DOMAIN Feed}
      BY <2>2
    <3> HIDE DEF p
    <3>3. From(out') = UNION {o.from : o \in Of(out')}
      BY FromIsOf
    <3>4. ASSUME NEW i \in From(out') PROVE i \in Sources
      <4>1. PICK o \in Of(out') : i \in o.from
        BY <3>3
      <4>2. PICK k \in DOMAIN Feed : o = p(k)
        BY <3>2
      <4>3. QED BY <3>1, <4>1, <4>2 DEF Sources
    <3>5. ASSUME NEW i \in Sources PROVE i \in From(out')
      <4>1. PICK k \in DOMAIN Feed : i = Feed[k]
        BY DEF Sources
      <4>2. p(k) \in Of(out') /\ i \in p(k).from
        BY <3>1, <3>2, <4>1
      <4>3. QED BY <3>3, <4>2
    <3>6. QED BY <3>4, <3>5
  <2>4. \A o \in Of(out') : o.who \in Lineages /\ o.after = idx
    BY <2>2, WorkflowAssumption
  <2>5. /\ Expected(idx + 1) = Sources /\ Due(idx + 1) = Sources /\ ~Aggregated(idx + 1)
        /\ LastComputed(idx, idx + 1)
    BY <2>1, NextExpected
  <2>6. ListIs(out', idx + 1)
    BY <2>3, <2>4, <2>5 DEF ListIs, OutputIs, Arrived
  <2>7. QED BY <2>1, <2>6 DEF HandedInv
<1>7. CASE Aggregate
  <2> DEFINE all == UNION {todo[k].from : k \in DOMAIN todo}
             p == [who |-> nextId, from |-> all, after |-> idx]
  <2>1. /\ stage' = "check" /\ idx' = idx /\ stage = "work" /\ Steps[idx] = "aggregate"
        /\ out' = << p >>
    BY <1>7 DEF Aggregate, AtStep
  <2>2. p.who = nextId /\ p.from = From(todo) /\ p.after = idx
    BY DEF From
  <2> HIDE DEF p
  <2>3. Of(out') = {p}
    BY <2>1 DEF Of
  <2>4. From(out') = From(todo)
    BY <2>2, <2>3, FromIsOf
  <2>5. idx \in 1 .. Len(Steps) /\ idx > 1
    BY <2>1, NotFirst
  <2>6. From(todo) = From(current) /\ Arrived(From(current), idx)
    BY <1>1, <2>1, <2>5 DEF TakenInv, ListIs
  <2>7. /\ Expected(idx + 1) = Expected(idx) /\ Due(idx + 1) = Due(idx)
        /\ Aggregated(idx + 1) /\ LastComputed(idx, idx + 1)
    BY <2>1, <2>5, NextExpected, NextWhole
  <2>8. p.who \notin Lineages
    BY <1>1, <2>2, WorkflowAssumption
  <2>9. ListIs(out', idx + 1)
    BY <2>2, <2>3, <2>4, <2>6, <2>7, <2>8 DEF ListIs, OutputIs, Arrived
  <2>10. QED BY <2>1, <2>9 DEF HandedInv
<1>8. CASE ItemsDone
  <2>1. /\ stage' = "check" /\ idx' = idx /\ stage = "work" /\ todo = <<>>
        /\ Steps[idx] \in {"filter", "batch", "sink", "router"}
        /\ out' = IF Steps[idx] = "sink" THEN current ELSE out
    BY <1>8 DEF ItemsDone, AtStep
  <2>2. idx \in 1 .. Len(Steps) /\ idx > 1
    BY <2>1, NotFirst
  <2>3. CASE Steps[idx] = "sink"
    <3>1. Arrived(From(current), idx) /\ \A o \in Of(current) : OutputIs(o, idx)
      BY <1>1, <2>1, <2>2, <2>3 DEF TakenInv, ListIs
    <3>2. /\ Expected(idx + 1) = Expected(idx) /\ Due(idx + 1) = Due(idx)
          /\ Aggregated(idx + 1) <=> Aggregated(idx)
          /\ \A j : LastComputed(j, idx) => LastComputed(j, idx + 1)
      BY <2>2, <2>3, NextExpected, NextWhole
    <3>3. ListIs(current, idx + 1)
      BY <3>1, <3>2 DEF ListIs, OutputIs, Arrived
    <3>4. QED BY <2>1, <2>3, <3>3 DEF HandedInv
  <2>4. CASE Steps[idx] \in {"filter", "batch", "router"}
    <3>1. StillDue(todo, idx) = {}
      BY <2>1, EmptyList DEF StillDue
    <3>2. ListIs(out, idx + 1)
      BY <1>1, <2>1, <2>4, <3>1 DEF MadeInv, ListIs, Arrived
    <3>3. QED BY <2>1, <2>4, <3>2 DEF HandedInv
  <2>5. QED BY <2>1, <2>3, <2>4
<1>9. CASE Checkpoint
  BY <1>1, <1>9 DEF Checkpoint, HandedInv
<1>10. CASE SaveState
  <2>1. /\ stage = "save" /\ stage' = "next" /\ idx' = idx + 1
        /\ done' = done /\ current' = current
    BY <1>10 DEF SaveState
  <2>2. ASSUME NEW k \in 1 .. Len(Steps) + 1, FirstOpen(done, idx + 1, k)
        PROVE  ListIs(current, k)
    BY <1>1, <2>1, <2>2, OpensAfter DEF HandedInv
  <2>3. Opens(done, idx + 1, current)
    BY <2>2 DEF Opens
  <2>4. QED BY <2>1, <2>3 DEF HandedInv
<1>11. CASE FinishPipeline
  <2>1. stage = "next" /\ stage' = "returned" /\ idx = Len(Steps) + 1 /\ current' = current
    BY <1>11 DEF FinishPipeline, local
  <2>2. FirstOpen(done, idx, idx)
    <3>1. idx .. idx - 1 = {} /\ idx \in idx .. Len(Steps) + 1 /\ idx \notin done
      BY <1>1, <2>1
    <3>2. QED BY <3>1 DEF FirstOpen
  <2>3. ListIs(current, idx)
    BY <1>1, <2>1, <2>2 DEF HandedInv, Opens
  <2>4. QED BY <2>1, <2>3 DEF HandedInv
<1>12. CASE EnterStep \/ FilterItem \/ BatchItem \/ SinkClaim \/ SinkSkip \/ SinkWrite \/ Die
  <2>1. stage' \in {"work", "write", "idle"}
    BY <1>12 DEF EnterStep, FilterItem, BatchItem, SinkClaim, Claim, SinkSkip, SinkWrite, Die,
                 ItemFor
  <2>2. QED BY <2>1 DEF HandedInv
<1>13. QED BY <1>2, <1>3, <1>4, <1>5, <1>6, <1>7, <1>8, <1>9, <1>10, <1>11, <1>12 DEF WorkflowNext

LEMMA GivenNext ==
  ASSUME WorkflowTypeOK, ListsInv, EnterStep
  PROVE  idx \in 1 .. Len(Steps) /\ ListIs(current, idx)
<1>1. stage = "next" /\ idx \in 1 .. Len(Steps) /\ idx \notin done
  BY StepsAre DEF EnterStep, WorkflowTypeOK, PlaceTyped
<1>2. FirstOpen(done, idx, idx)
  <2>1. idx .. idx - 1 = {} /\ idx \in idx .. Len(Steps) + 1
    BY <1>1, StepsAre
  <2>2. QED BY <1>1, <2>1 DEF FirstOpen
<1>3. idx \in 1 .. Len(Steps) + 1
  BY <1>1, StepsAre
<1>4. QED BY <1>1, <1>2, <1>3 DEF ListsInv, HandedInv, Opens

\* What a step that drops nothing makes of the item it is at
LEMMA HandedOn ==
  ASSUME FirstIsSource, WorkflowTypeOK, ListsInv, stage \in {"work", "write"}, todo # <<>>,
         Steps[idx] \in {"batch", "router"}, idx' = idx, todo' = Tail(todo),
         NEW p, out' = Append(out, p), p.from = Head(todo).from, p.after = idx,
         p.who \in Lineages <=> Head(todo).who \in Lineages
  PROVE  MadeInv'
<1> DEFINE h == Head(todo)
<1>1. /\ Of(todo) = {h} \cup Of(Tail(todo)) /\ From(todo) = h.from \cup From(Tail(todo))
  BY HeadAndTail DEF WorkflowTypeOK, ListsTyped
<1>2. /\ From(out) \subseteq Expected(idx + 1) /\ From(todo) \subseteq Expected(idx)
      /\ Due(idx + 1) \subseteq From(out) \cup StillDue(todo, idx)
      /\ \A o \in Of(out) : OutputIs(o, idx + 1)
      /\ \A o \in Of(todo) : OutputIs(o, idx)
  BY DEF ListsInv, MadeInv
<1>3. idx \in 1 .. Len(Steps)
  BY NotFirst
<1>4. p.from = h.from /\ OutputIs(h, idx)
  BY <1>1, <1>2
<1> HIDE DEF h
<1>5. OutputIs(p, idx + 1)
  BY <1>1, <1>3, <1>4, NextExpected DEF OutputIs, h
<1>6. /\ Of(Append(out, p)) = Of(out) \cup {p} /\ From(Append(out, p)) = From(out) \cup p.from
  <2>1. out \in Seq(Output \cup {p}) /\ p \in Output \cup {p}
    BY DEF WorkflowTypeOK, ListsTyped
  <2>2. QED BY <2>1, AppendedList
<1>7. Expected(idx + 1) = Expected(idx)
  BY <1>3, NextExpected DEF Dropping
<1>8. StillDue(todo, idx) \subseteq h.from \cup StillDue(Tail(todo), idx)
  BY <1>1 DEF StillDue
<1>9. /\ From(out') \subseteq Expected(idx + 1) /\ From(todo') \subseteq Expected(idx)
      /\ Due(idx + 1) \subseteq From(out') \cup StillDue(todo', idx)
  BY <1>1, <1>2, <1>4, <1>6, <1>7, <1>8
<1>10. /\ \A o \in Of(out') : OutputIs(o, idx + 1)
       /\ \A o \in Of(todo') : OutputIs(o, idx)
  BY <1>1, <1>2, <1>5, <1>6
<1>11. QED BY <1>9, <1>10 DEF MadeInv

LEMMA MadeStep ==
  ASSUME FirstIsSource, WorkflowTypeOK, IdentityInv, ListsInv, [WorkflowNext]_workflowVars
  PROVE  MadeInv'
<1>1. MadeInv /\ nextId \in Nat
  BY DEF ListsInv, WorkflowTypeOK, PlaceTyped
<1>2. todo # <<>> /\ stage \in {"work", "write"} =>
         /\ Head(todo) \in Output /\ Routed(Head(todo)) \in Output
         /\ Routed(Head(todo)).who = Head(todo).who /\ Routed(Head(todo)).from = Head(todo).from
         /\ Routed(Head(todo)).after = IF Steps[idx] = "router" THEN idx ELSE Head(todo).after
  <2>1. stage \in {"work", "write"} => idx \in 0 .. Len(Steps)
    BY StepsAre DEF WorkflowTypeOK, PlaceTyped, Resting
  <2>2. todo # <<>> => Head(todo) \in Output
    BY HeadAndTail DEF WorkflowTypeOK, ListsTyped
  <2>3. QED BY <2>1, <2>2, RoutedIs
<1>3. CASE UNCHANGED workflowVars
  BY <1>1, <1>3 DEF workflowVars, local, MadeInv
<1>4. CASE EnterStep
  <2>1. idx' = idx /\ todo' = current /\ out' = <<>>
    BY <1>4 DEF EnterStep
  <2>2. SUFFICES ASSUME Steps[idx] \in {"filter", "batch", "router"} PROVE MadeInv'
    BY <2>1 DEF MadeInv
  <2>3. idx \in 1 .. Len(Steps) /\ idx > 1
    BY <1>4, <2>2, GivenNext, StepsAre DEF FirstIsSource
  <2>4. Arrived(From(current), idx) /\ \A o \in Of(current) : OutputIs(o, idx)
    BY <1>4, <2>3, GivenNext DEF ListIs
  <2>5. Due(idx + 1) \subseteq StillDue(current, idx)
    BY <2>2, <2>3, <2>4, NextExpected DEF StillDue, Arrived
  <2>6. QED BY <2>1, <2>4, <2>5, EmptyList DEF MadeInv, Arrived
<1>5. CASE FilterItem
  <2> DEFINE h == Head(todo)
             p == Routed(h)
  <2>1. /\ stage = "work" /\ Steps[idx] \in {"filter", "router"} /\ idx' = idx /\ Filtering(idx)
        /\ todo # <<>> /\ todo' = Tail(todo)
        /\ out' = IF Passes(h) THEN Append(out, p) ELSE out
    BY <1>5 DEF FilterItem, ItemFor, Filtering, Branching
  <2>2. /\ h \in Output /\ Of(todo) = {h} \cup Of(Tail(todo))
        /\ From(todo) = h.from \cup From(Tail(todo))
    BY <2>1, HeadAndTail DEF WorkflowTypeOK, ListsTyped
  <2>3. /\ p.who = h.who /\ p.from = h.from /\ p \in Output
        /\ p.after = IF Steps[idx] = "router" THEN idx ELSE h.after
    BY <1>2, <2>1
  <2>4. /\ Of(Append(out, p)) = Of(out) \cup {p} /\ From(Append(out, p)) = From(out) \cup p.from
    BY <2>3, AppendedList DEF WorkflowTypeOK, ListsTyped
  <2>5. /\ From(out) \subseteq Expected(idx + 1) /\ From(todo) \subseteq Expected(idx)
        /\ Due(idx + 1) \subseteq From(out) \cup StillDue(todo, idx)
        /\ \A o \in Of(out) : OutputIs(o, idx + 1)
        /\ \A o \in Of(todo) : OutputIs(o, idx)
    BY <1>1, <2>1 DEF MadeInv
  <2>6. h.who \in Lineages => h.from = {h.who}
    <3>1. h \in Everything
      BY <2>2 DEF Everything
    <3>2. QED BY <3>1 DEF IdentityInv
  <2>7. Passes(h) <=> (h.who \in Lineages => h.who \in Kept)
    BY DEF Passes
  <2>8. idx \in 1 .. Len(Steps)
    BY <2>1, NotFirst
  <2>9. OutputIs(h, idx)
    BY <2>2, <2>5
  <2> HIDE DEF h, p
  <2>10. /\ OutputIs(p, idx + 1) /\ (MayDrop(idx) <=> h.who \in Lineages)
         /\ Dropping(idx) => MayDrop(idx)
    BY <2>1, <2>3, <2>8, <2>9, NextExpected DEF OutputIs, MayDrop, Dropping
  <2>11. {i \in h.from : MayDrop(idx) => i \in Kept} = IF Passes(h) THEN h.from ELSE {}
    BY <2>6, <2>7, <2>10
  <2>12. StillDue(todo, idx)
           = StillDue(Tail(todo), idx) \cup {i \in h.from : MayDrop(idx) => i \in Kept}
    BY <2>2 DEF StillDue
  <2>13. Due(idx + 1) \subseteq From(out') \cup StillDue(Tail(todo), idx)
    BY <2>1, <2>3, <2>4, <2>5, <2>11, <2>12
  <2>14. Passes(h) => h.from \subseteq Expected(idx + 1)
    BY <2>1, <2>2, <2>5, <2>8, <2>10, <2>11, NextExpected
  <2>15. From(out') \subseteq Expected(idx + 1) /\ From(Tail(todo)) \subseteq Expected(idx)
    BY <2>1, <2>2, <2>3, <2>4, <2>5, <2>14
  <2>16. \A o \in Of(out') : OutputIs(o, idx + 1)
    BY <2>1, <2>4, <2>5, <2>10
  <2>17. QED BY <2>1, <2>2, <2>5, <2>13, <2>15, <2>16 DEF MadeInv
<1>6. CASE BatchItem
  <2> DEFINE h == Head(todo)
             p == [who |-> LineageOf(h), from |-> h.from, after |-> idx]
  <2>1. /\ stage = "work" /\ Steps[idx] \in {"batch", "router"} /\ idx' = idx /\ todo # <<>>
        /\ todo' = Tail(todo) /\ out' = Append(out, p)
    BY <1>6 DEF BatchItem, ItemFor, Branching
  <2>2. p.from = h.from /\ p.after = idx /\ (p.who \in Lineages <=> h.who \in Lineages)
    BY <1>1, WorkflowAssumption DEF LineageOf
  <2> HIDE DEF p
  <2>3. QED BY <2>1, <2>2, HandedOn
<1>7. CASE SinkSkip \/ SinkWrite
  <2>1. /\ Steps[idx] \in {"sink", "router"} /\ idx' = idx /\ stage \in {"work", "write"}
        /\ todo # <<>> /\ todo' = Tail(todo) /\ out' = Handed
    BY <1>7 DEF SinkSkip, SinkWrite, ItemFor, Branching, WorkflowTypeOK, PlaceTyped
  <2>2. CASE Steps[idx] = "sink"
    BY <2>1, <2>2 DEF MadeInv
  <2>3. CASE Steps[idx] = "router"
    <3>1. out' = Append(out, Routed(Head(todo)))
      BY <2>1, <2>3 DEF Handed
    <3>2. QED BY <1>2, <2>1, <2>3, <3>1, HandedOn
  <2>4. QED BY <2>1, <2>2, <2>3
<1>8. CASE SinkClaim
  <2>1. stage = "work" /\ UNCHANGED <<idx, todo, out>>
    BY <1>8 DEF SinkClaim, ItemFor
  <2>2. QED BY <1>1, <2>1 DEF MadeInv
<1>9. CASE \/ Run \/ ResumePipeline \/ Skip \/ Fetch \/ Aggregate
           \/ ItemsDone \/ Checkpoint \/ SaveState \/ FinishPipeline \/ Die
  <2>1. stage' \notin {"work", "write"}
    BY <1>9 DEF Run, ResumePipeline, Begin, Skip, Fetch, Aggregate, ItemsDone,
                Checkpoint, SaveState, FinishPipeline, Die
  <2>2. QED BY <2>1 DEF MadeInv
<1>10. QED BY <1>3, <1>4, <1>5, <1>6, <1>7, <1>8, <1>9 DEF WorkflowNext

LEMMA TakenStep ==
  ASSUME WorkflowTypeOK, ListsInv, [WorkflowNext]_workflowVars
  PROVE  TakenInv'
<1>1. TakenInv
  BY DEF ListsInv
<1>2. CASE UNCHANGED workflowVars
  BY <1>1, <1>2 DEF workflowVars, local, TakenInv
<1>3. CASE EnterStep
  <2>1. idx' = idx /\ todo' = current /\ current' = current
    BY <1>3 DEF EnterStep
  <2>2. QED BY <1>3, <2>1, GivenNext DEF TakenInv
<1>4. CASE SinkClaim
  <2>1. idx' = idx /\ todo' = todo /\ current' = current /\ stage = "work"
    BY <1>4 DEF SinkClaim, ItemFor
  <2>2. QED BY <1>1, <2>1 DEF TakenInv
<1>5. CASE SinkSkip \/ SinkWrite \/ FilterItem \/ BatchItem
  <2>1. /\ idx' = idx /\ todo' = Tail(todo) /\ current' = current /\ stage \in {"work", "write"}
        /\ todo # <<>> /\ Steps[idx] \in {"filter", "batch", "sink", "router"}
    BY <1>5 DEF SinkSkip, SinkWrite, FilterItem, BatchItem, ItemFor, Branching, WorkflowTypeOK,
                PlaceTyped
  <2>2. Of(Tail(todo)) \subseteq Of(todo)
    BY <2>1, HeadAndTail DEF WorkflowTypeOK, ListsTyped
  <2>3. QED BY <1>1, <2>1, <2>2 DEF TakenInv
<1>6. CASE \/ Run \/ ResumePipeline \/ Skip \/ Fetch \/ Aggregate
           \/ ItemsDone \/ Checkpoint \/ SaveState \/ FinishPipeline \/ Die
  <2>1. stage' \notin {"work", "write"}
    BY <1>6 DEF Run, ResumePipeline, Begin, Skip, Fetch, Aggregate, ItemsDone, Checkpoint,
                SaveState, FinishPipeline, Die
  <2>2. QED BY <2>1 DEF TakenInv
<1>7. QED BY <1>2, <1>3, <1>4, <1>5, <1>6 DEF WorkflowNext

\* What a write adds to the log
LEMMA LoggedNext ==
  ASSUME WorkflowTypeOK, [WorkflowNext]_workflowVars
  PROVE  \/ effects' = effects /\ Logged' = Logged /\ ~SinkWrite
         \/ /\ SinkWrite /\ todo # <<>> /\ Steps[idx] \in {"sink", "router"} /\ sink[1] = idx
            /\ \E e : /\ Logged' = Logged \cup {e} /\ e.sink = sink /\ e.batch = batch
                      /\ e.who = Head(todo).who /\ e.from = Head(todo).from
<1>1. CASE SinkWrite
  <2> DEFINE o == Head(todo)
             e == [sink |-> sink, batch |-> batch, who |-> o.who, from |-> o.from]
  <2>1. /\ todo # <<>> /\ effects' = Append(effects, e) /\ Steps[idx] \in {"sink", "router"}
        /\ sink[1] = idx
    BY <1>1, StepsAre, SinksAre DEF SinkWrite, WorkflowTypeOK, PlaceTyped, Resting
  <2>2. e.sink = sink /\ e.batch = batch /\ e.who = Head(todo).who /\ e.from = Head(todo).from
    OBVIOUS
  <2> HIDE DEF e, o
  <2>3. effects \in Seq(Effect \cup {e}) /\ e \in Effect \cup {e}
    BY DEF WorkflowTypeOK, ListsTyped
  <2>4. Of(Append(effects, e)) = Of(effects) \cup {e}
    BY <2>3, AppendedList
  <2>5. Logged' = Logged \cup {e}
    BY <2>1, <2>4 DEF Logged, Of
  <2>6. QED BY <1>1, <2>1, <2>2, <2>5
<1>2. CASE ~SinkWrite
  <2>1. effects' = effects
    BY <1>2 DEF WorkflowNext, workflowVars, Run, ResumePipeline, Begin, Skip, EnterStep, Fetch,
                FilterItem, BatchItem, Aggregate, SinkClaim, SinkSkip, ItemsDone, Checkpoint,
                SaveState, FinishPipeline, Die
  <2>2. QED BY <1>2, <2>1 DEF Logged
<1>3. QED BY <1>1, <1>2

LEMMA WrittenStep ==
  ASSUME FirstIsSource, WorkflowTypeOK, ListsInv, [WorkflowNext]_workflowVars
  PROVE  WrittenInv'
<1>1. CASE Logged' = Logged
  BY <1>1 DEF ListsInv, WrittenInv
<1>2. CASE SinkWrite
  <2>1. PICK e : /\ Logged' = Logged \cup {e} /\ e.sink = sink /\ e.batch = batch
                 /\ e.who = Head(todo).who /\ e.from = Head(todo).from
    BY <1>2, LoggedNext
  <2>2. todo # <<>> /\ Steps[idx] \in {"sink", "router"} /\ stage = "write" /\ sink[1] = idx
    BY <1>2, LoggedNext DEF SinkWrite
  <2>3. idx \in 1 .. Len(Steps) /\ idx > 1
    BY <2>2, NotFirst
  <2>4. Of(todo) \subseteq Of(current) /\ From(current) \subseteq Expected(idx)
    BY <2>2, <2>3 DEF ListsInv, TakenInv, ListIs, Arrived
  <2>5. Head(todo) \in Of(current)
    BY <2>2, <2>4, HeadAndTail DEF WorkflowTypeOK, ListsTyped
  <2>6. e.from \subseteq Expected(idx)
    BY <2>1, <2>4, <2>5, FromIsOf
  <2>7. QED BY <2>1, <2>2, <2>6 DEF ListsInv, WrittenInv
<1>3. QED BY <1>1, <1>2, LoggedNext

LEMMA ListsStep ==
  ASSUME FirstIsSource, WorkflowTypeOK, MarkedInv, IdentityInv, ListsInv,
         [WorkflowNext]_workflowVars, "save" \notin gaps'
  PROVE  ListsInv'
BY SavedStep, HandedStep, MadeStep, TakenStep, WrittenStep DEF ListsInv

LEMMA WrittenKept ==
  ASSUME WorkflowTypeOK, [WorkflowNext]_workflowVars
  PROVE  /\ Logged \subseteq Logged'
         /\ \A k : WrittenBy(k) \subseteq WrittenBy(k)'
         /\ \A k : SinkWrite /\ k = idx => Head(todo).from \subseteq WrittenBy(k)'
<1>1. Logged \subseteq Logged'
  BY LoggedNext
<1>2. ASSUME NEW k, NEW e \in Logged', e.sink[1] = k PROVE e.from \subseteq WrittenBy(k)'
  BY <1>2 DEF WrittenBy, Logged
<1>3. ASSUME NEW k, NEW i \in WrittenBy(k) PROVE i \in WrittenBy(k)'
  <2>1. PICK e \in Logged : e.sink[1] = k /\ i \in e.from
    BY <1>3 DEF WrittenBy, Logged
  <2>2. QED BY <1>1, <1>2, <2>1
<1>4. ASSUME NEW k, SinkWrite, k = idx PROVE Head(todo).from \subseteq WrittenBy(k)'
  <2>1. PICK e : /\ Logged' = Logged \cup {e} /\ e.sink = sink /\ e.batch = batch
                 /\ e.who = Head(todo).who /\ e.from = Head(todo).from
    BY <1>4, LoggedNext
  <2>2. sink[1] = idx
    BY <1>4, LoggedNext
  <2>3. QED BY <1>2, <1>4, <2>1, <2>2
<1>5. QED BY <1>1, <1>3, <1>4

LEMMA CoveredStep ==
  ASSUME WorkflowTypeOK, EffectsInv, [WorkflowNext]_workflowVars, "write" \notin gaps'
  PROVE  CoveredInv'
<1>1. CoveredInv /\ Logged \subseteq Logged'
  BY WrittenKept DEF EffectsInv
<1>2. CASE SinkClaim
  <2>1. /\ stage = "work" /\ stage' = "write" /\ todo' = todo /\ batch' = batch
        /\ claims' = claims \cup {SinkKey(sink', Head(todo))}
    BY <1>2 DEF SinkClaim, Claim, ItemFor
  <2>2. SinkKey(sink, Head(todo))' = SinkKey(sink', Head(todo))
    BY <2>1 DEF SinkKey
  <2>3. QED BY <1>1, <2>1, <2>2 DEF CoveredInv
<1>3. CASE SinkWrite
  <2>1. claims' = claims /\ stage = "write"
    BY <1>3 DEF SinkWrite, store
  <2>2. PICK e : /\ Logged' = Logged \cup {e} /\ e.sink = sink /\ e.batch = batch
                 /\ e.who = Head(todo).who /\ e.from = Head(todo).from
    BY <1>3, LoggedNext
  <2>3. KeyOf(e) = SinkKey(sink, Head(todo))
    BY <2>2 DEF KeyOf, SinkKey
  <2>4. QED BY <1>1, <2>1, <2>2, <2>3 DEF CoveredInv
<1>4. CASE claims' = claims /\ stage # "write"
  BY <1>1, <1>4 DEF CoveredInv
<1>5. CASE Die
  <2>1. claims' = claims /\ stage # "write"
    BY <1>5 DEF Die, Gaps, store
  <2>2. QED BY <1>4, <2>1
<1>6. CASE UNCHANGED workflowVars
  BY <1>6 DEF workflowVars, store, local, EffectsInv, CoveredInv, Logged, SinkKey
<1>7. CASE \/ Run \/ ResumePipeline \/ Skip \/ EnterStep
           \/ Fetch \/ FilterItem \/ BatchItem \/ Aggregate
           \/ SinkSkip \/ ItemsDone \/ Checkpoint \/ SaveState \/ FinishPipeline
  <2>1. claims' = claims /\ stage # "write"
    BY <1>7 DEF Run, ResumePipeline, Begin, Skip, EnterStep, Fetch, FilterItem, BatchItem,
                Aggregate, SinkSkip, ItemsDone, Checkpoint, SaveState, FinishPipeline, AtStep,
                ItemFor, Resting, store
  <2>2. QED BY <1>4, <2>1
<1>8. QED BY <1>2, <1>3, <1>5, <1>6, <1>7 DEF WorkflowNext

\* A step is passed by where its items are done, and nowhere else.
LEMMA PassedNext ==
  ASSUME WorkflowTypeOK, MarkedInv, [WorkflowNext]_workflowVars, NEW k \in 1 .. Len(Steps),
         WritesAll(k), PassedBy(k)'
  PROVE  PassedBy(k) \/ (ItemsDone /\ k = idx)
<1>1. idx \in 1 .. Len(Steps) + 1 /\ Len(Steps) \in Nat
  BY StepsAre DEF WorkflowTypeOK, PlaceTyped
<1>2. CASE UNCHANGED workflowVars
  BY <1>2 DEF workflowVars, store, local, PassedBy
<1>3. CASE Run \/ ResumePipeline
  <2>1. idx' = 1 /\ stage' = "next" /\ (doneSteps' = {} \/ doneSteps' = doneSteps)
    BY <1>3 DEF Run, ResumePipeline, Begin
  <2>2. ~(k < 1)
    OBVIOUS
  <2>3. QED BY <2>1, <2>2 DEF PassedBy
<1>4. CASE Skip
  <2>1. /\ stage = "next" /\ stage' = "next" /\ idx' = idx + 1 /\ idx \in done
        /\ doneSteps' = doneSteps
    BY <1>4 DEF Skip, store
  <2>2. idx \in doneSteps
    BY <2>1 DEF MarkedInv, Active, AtWork
  <2>3. k < idx + 1 => k < idx \/ k = idx
    BY <1>1
  <2>4. QED BY <2>1, <2>2, <2>3 DEF PassedBy
<1>5. CASE EnterStep \/ FilterItem \/ BatchItem \/ SinkClaim \/ SinkSkip \/ SinkWrite
  <2>1. /\ doneSteps' = doneSteps /\ idx' = idx /\ stage # "idle"
        /\ stage' \in {"work", "write"}
    BY <1>5 DEF EnterStep, FilterItem, BatchItem, SinkClaim, Claim, SinkSkip, SinkWrite, ItemFor,
                store
  <2>2. QED BY <2>1 DEF PassedBy
<1>6. CASE Fetch \/ Aggregate \/ ItemsDone
  <2>1. /\ doneSteps' = doneSteps /\ idx' = idx /\ stage = "work" /\ stage' = "check"
        /\ ItemsDone \/ ~WritesAll(idx)
    BY <1>6 DEF Fetch, Aggregate, ItemsDone, AtStep, WritesAll, store
  <2>2. QED BY <2>1 DEF PassedBy
<1>7. CASE Checkpoint
  <2>1. /\ doneSteps' \subseteq doneSteps \cup {idx} /\ idx' = idx /\ stage = "check"
    BY <1>7 DEF Checkpoint, MarkStep
  <2>2. QED BY <2>1 DEF PassedBy
<1>8. CASE SaveState
  <2>1. doneSteps' = doneSteps /\ idx' = idx + 1 /\ stage = "save" /\ stage' = "next"
    BY <1>8 DEF SaveState
  <2>2. k < idx + 1 => k < idx \/ k = idx
    BY <1>1
  <2>3. QED BY <2>1, <2>2 DEF PassedBy
<1>9. CASE FinishPipeline \/ Die
  <2>1. /\ doneSteps' = doneSteps /\ stage' \in {"returned", "idle"}
        /\ stage' = "returned" => stage = "next" /\ idx' = idx
    BY <1>9 DEF FinishPipeline, Die, store, local
  <2>2. QED BY <2>1 DEF PassedBy
<1>10. QED BY <1>2, <1>3, <1>4, <1>5, <1>6, <1>7, <1>8, <1>9 DEF WorkflowNext

LEMMA PassedStep ==
  ASSUME FirstIsSource, WorkflowTypeOK, MarkedInv, ListsInv, EffectsInv, [WorkflowNext]_workflowVars
  PROVE  PassedInv'
<1> SUFFICES ASSUME NEW k \in 1 .. Len(Steps), WritesAll(k), PassedBy(k)'
             PROVE  Due(k) \subseteq WrittenBy(k)'
  BY StepsAre DEF PassedInv, WritesAll, Due
<1>1. CASE PassedBy(k)
  BY <1>1, StepsAre, WrittenKept DEF EffectsInv, PassedInv
<1>2. CASE ItemsDone /\ k = idx
  <2>1. stage = "work" /\ todo = <<>>
    BY <1>2 DEF ItemsDone, AtStep
  <2>2. From(current) \subseteq WrittenBy(k)
    BY <1>2, <2>1, EmptyList DEF EffectsInv, SinkInv
  <2>3. k > 1
    BY <1>2, <2>1, NotFirst DEF WritesAll
  <2>4. Due(k) \subseteq From(current)
    BY <1>2, <2>1, <2>3 DEF ListsInv, TakenInv, ListIs, Arrived, WritesAll
  <2>5. QED BY <2>2, <2>4, WrittenKept
<1>3. QED BY <1>1, <1>2, PassedNext

LEMMA SinkStep ==
  ASSUME WorkflowTypeOK, IdentityInv, EffectsInv, [WorkflowNext]_workflowVars
  PROVE  SinkInv'
<1>1. SinkInv /\ CoveredInv
  BY DEF EffectsInv
<1>2. \A k : WrittenBy(k) \subseteq WrittenBy(k)'
  BY WrittenKept
<1>3. CASE UNCHANGED workflowVars
  BY <1>1, <1>3 DEF workflowVars, local, SinkInv, WrittenBy, WritesAll
<1>4. CASE EnterStep
  <2>1. todo' = current /\ current' = current
    BY <1>4 DEF EnterStep
  <2>2. QED BY <2>1 DEF SinkInv
<1>5. CASE SinkClaim
  <2>1. /\ stage = "work" /\ UNCHANGED <<idx, current, todo>>
    BY <1>5 DEF SinkClaim, ItemFor
  <2>2. QED BY <1>1, <1>2, <2>1 DEF SinkInv, WritesAll
<1>6. CASE SinkSkip \/ SinkWrite
  <2> SUFFICES ASSUME WritesAll(idx) PROVE SinkInv'
    <3>1. idx' = idx
      BY <1>6 DEF SinkSkip, SinkWrite
    <3>2. QED BY <3>1 DEF SinkInv, WritesAll
  <2>1. /\ stage \in {"work", "write"} /\ UNCHANGED <<idx, current>> /\ todo' = Tail(todo)
        /\ todo # <<>> /\ idx \in 1 .. Len(Steps)
    BY <1>6, StepsAre DEF SinkSkip, SinkWrite, ItemFor, WorkflowTypeOK, PlaceTyped, Resting
  <2>2. /\ From(todo) = Head(todo).from \cup From(Tail(todo)) /\ Head(todo) \in Of(todo)
    BY <2>1, HeadAndTail DEF WorkflowTypeOK, ListsTyped
  <2>3. PICK k : k = idx
    OBVIOUS
  <2>4. Head(todo).from \subseteq WrittenBy(k)'
    <3>1. CASE SinkSkip
      <4>1. PICK x \in SinksOf(idx) : SinkKey(x, Head(todo)) \in claims /\ stage # "write"
        BY <3>1 DEF SinkSkip, ItemFor
      <4>2. PICK e \in Logged : KeyOf(e) = SinkKey(x, Head(todo))
        BY <1>1, <4>1 DEF CoveredInv
      <4>3. e.sink[1] = idx /\ e.who = Head(todo).who
        BY <2>1, <4>2, SinksAre DEF KeyOf, SinkKey
      <4>4. e.from = Head(todo).from
        BY <2>2, <4>3 DEF IdentityInv, Everything
      <4>5. e.from \subseteq WrittenBy(k)
        BY <2>3, <4>3 DEF WrittenBy, Logged
      <4>6. QED BY <1>2, <4>4, <4>5
    <3>2. QED BY <1>6, <2>3, <3>1, WrittenKept
  <2>5. From(current) \subseteq From(todo) \cup WrittenBy(k)
    BY <1>1, <2>1, <2>3 DEF SinkInv
  <2>6. From(current') \subseteq From(todo') \cup WrittenBy(k)' /\ idx' = k
    BY <1>2, <2>1, <2>2, <2>3, <2>4, <2>5
  <2>7. QED BY <2>6 DEF SinkInv
<1>7. CASE FilterItem \/ BatchItem
  <2>1. ~WritesAll(idx) /\ idx' = idx
    BY <1>7 DEF FilterItem, BatchItem, ItemFor, Branching, WritesAll
  <2>2. ~WritesAll(idx')
    BY <2>1 DEF WritesAll
  <2>3. QED BY <2>2 DEF SinkInv, WritesAll
<1>8. CASE \/ Run \/ ResumePipeline \/ Skip \/ Fetch \/ Aggregate
           \/ ItemsDone \/ Checkpoint \/ SaveState \/ FinishPipeline \/ Die
  <2>1. stage' \notin {"work", "write"}
    BY <1>8 DEF Run, ResumePipeline, Begin, Skip, Fetch, Aggregate, ItemsDone, Checkpoint,
                SaveState, FinishPipeline, Die
  <2>2. QED BY <2>1 DEF SinkInv
<1>9. QED BY <1>3, <1>4, <1>5, <1>6, <1>7, <1>8 DEF WorkflowNext

LEMMA GapsKept ==
  ASSUME [WorkflowNext]_workflowVars PROVE gaps \subseteq gaps'
BY DEF WorkflowNext, workflowVars, Run, ResumePipeline, Begin, Skip, EnterStep, Fetch,
       FilterItem, BatchItem, Aggregate, SinkClaim, SinkSkip, SinkWrite, ItemsDone, Checkpoint,
       SaveState, FinishPipeline, Die

LEMMA WorkflowKept ==
  ASSUME FirstIsSource, WorkflowInv, [WorkflowNext]_workflowVars PROVE WorkflowInv'
<1>1. WorkflowTypeOK' /\ ClaimedInv' /\ IdentityInv' /\ MarkedInv'
  BY WorkflowTyped, ClaimedStep, IdentityStep, MarkedStep DEF WorkflowInv
<1>2. ASSUME "save" \notin gaps' PROVE ListsInv'
  BY <1>2, GapsKept, ListsStep DEF WorkflowInv
<1>3. ASSUME gaps' \cap {"save", "write"} = {} PROVE EffectsInv'
  <2>1. gaps \cap {"save", "write"} = {} /\ "write" \notin gaps' /\ "save" \notin gaps
    BY <1>3, GapsKept
  <2>2. ListsInv /\ EffectsInv
    BY <2>1 DEF WorkflowInv
  <2>3. QED BY <2>1, <2>2, CoveredStep, PassedStep, SinkStep DEF WorkflowInv, EffectsInv
<1>4. QED BY <1>1, <1>2, <1>3 DEF WorkflowInv

LEMMA WorkflowExact == FirstIsSource /\ WorkflowInv => EffectsAreExact
<1> SUFFICES ASSUME FirstIsSource, WorkflowInv PROVE EffectsAreExact
  OBVIOUS
<1>1. Len(Steps) + 1 > 1 /\ Len(Steps) \in Nat /\ DOMAIN Steps = 1 .. Len(Steps)
  BY StepsAre, WorkflowAssumption DEF FirstIsSource
<1>2. ASSUME "save" \notin gaps PROVE ResultComplete
  <2> SUFFICES ASSUME stage = "returned"
               PROVE  /\ Arrived(From(current), Len(Steps) + 1)
                      /\ \A k \in DOMAIN current : LastComputed(current[k].after, Len(Steps) + 1)
    BY DEF ResultComplete
  <2>1. ListIs(current, Len(Steps) + 1)
    BY <1>2 DEF WorkflowInv, ListsInv, HandedInv
  <2>2. QED BY <1>1, <2>1 DEF ListIs, OutputIs, Of
<1>3. ASSUME gaps \cap {"save", "write"} = {} PROVE EffectsComplete
  <2> SUFFICES ASSUME stage = "returned", NEW k \in DOMAIN Steps, WritesAll(k)
               PROVE  Arrived(WrittenBy(k), k)
    BY DEF EffectsComplete
  <2>1. "save" \notin gaps
    BY <1>3
  <2>2. WrittenInv /\ PassedInv /\ idx = Len(Steps) + 1
    BY <1>3, <2>1 DEF WorkflowInv, ListsInv, EffectsInv, MarkedInv
  <2>3. PassedBy(k)
    BY <1>1, <2>2 DEF PassedBy
  <2>4. Due(k) \subseteq WrittenBy(k)
    BY <2>2, <2>3 DEF PassedInv
  <2>5. WrittenBy(k) \subseteq Expected(k)
    BY <2>2 DEF WrittenInv, WrittenBy, Logged
  <2>6. QED BY <2>4, <2>5 DEF Arrived
<1>4. QED BY <1>2, <1>3 DEF EffectsAreExact, CompleteBarGap, ResultCompleteBarGap,
                          EffectsCompleteBarGap, WorkflowInv, ClaimedInv

(* For every list of steps that begins with a source, and every router among    *)
(* them: no Output is written twice by a sink in one batch, however often the   *)
(* run dies and is started again; and a run that returns hands on, and its      *)
(* sinks and the routers that lead to sinks alone have written, all the items   *)
(* that its filters let through, computed by the last step that computes,       *)
(* unless one died between a checkpoint and the save of its state or between a  *)
(* claim and its write (Workflow.run, Sink.write).                              *)
THEOREM EffectsStayExact == FirstIsSource /\ WorkflowSpec => []EffectsAreExact
<1>1. FirstIsSource /\ WorkflowInv /\ [WorkflowNext]_workflowVars => WorkflowInv'
  BY WorkflowKept
<1>2. FirstIsSource => FirstIsSource'
  BY DEF FirstIsSource
<1>3. QED BY <1>1, <1>2, WorkflowStarts, WorkflowExact, PTL DEF WorkflowSpec

(* Contexts                                                                 *)

Turns == [fluid : BOOLEAN, tokens : Nat, holds : SUBSET Nat]

\* A pass of the strategy leaves at least these turns alone.
LeastKept ==
    IF style.name = "exponential_compact" /\ style.keep > 2 THEN 2
    ELSE IF style.name = "summarize" THEN 1 ELSE style.keep

TranscriptTyped ==
    /\ style \in Styles /\ shifted \in Nat
    /\ transcript \in Seq(Turns) /\ said \in Seq(Turns)

FluidKept ==
    \A i \in 1 .. Len(transcript) : \A a \in transcript[i].holds :
        a \in 1 .. Len(said) /\ (said[a].fluid => transcript[i].fluid)

OrderKept ==
    \A i, j \in 1 .. Len(transcript) : i < j =>
        \A a \in transcript[i].holds, b \in transcript[j].holds : a < b

TurnsStand ==
    style.name # "max_tokens" =>
        \A a \in 1 .. Len(said) : \E i \in 1 .. Len(transcript) : a \in transcript[i].holds

RecentKept ==
    \A k \in Nat : k < LeastKept /\ k < Len(said) =>
        k < Len(transcript) /\ transcript[Len(transcript) - k] = said[Len(said) - k]

TranscriptInv == TranscriptTyped /\ FluidKept /\ OrderKept /\ TurnsStand /\ RecentKept

\* new is old without its first d turns, behind f turns (none, or one) that stand for them.
Shape(old, new, d, f) ==
    /\ new \in Seq(Turns) /\ Len(new) = f + (Len(old) - d)
    /\ \A k \in 1 .. Len(old) - d : new[f + k] = old[d + k]
    /\ f = 1 => /\ \A i \in 1 .. d : old[i].fluid => new[1].fluid
                /\ \A i \in 1 .. d : old[i].holds \subseteq new[1].holds
                /\ \A a \in new[1].holds : \E i \in 1 .. d : a \in old[i].holds
    /\ f = 0 => d = 0 \/ style.name = "max_tokens"
    /\ d = 0 \/ Len(old) - d >= LeastKept

LEMMA KeptEnough ==
  ASSUME style \in Styles, shifted \in Nat, style.name # "max_tokens"
  PROVE  KeepRecent \in Nat /\ KeepRecent >= LeastKept /\ LeastKept \in Nat
<1>1. style.keep \in Nat
  BY ContextsAssumption
<1>2. QED BY <1>1 DEF KeepRecent, LeastKept

LEMMA FirstIn ==
  ASSUME NEW S, S \subseteq Nat, S # {}
  PROVE  \E x \in S : \A m \in 0 .. x - 1 : m \notin S
<1> DEFINE R == {p \in Nat \X Nat : p[1] < p[2]}
<1>1. IsWellFoundedOn(R, Nat)
  BY NatLessThanWellFounded DEF OpToRel
<1>2. PICK x \in S : \A y \in S : ~ (<<y, x>> \in R)
  <2> HIDE DEF R
  <2>1. QED BY <1>1, WFMin
<1>3. ASSUME NEW m \in 0 .. x - 1 PROVE m \notin S
  <2>1. m \in Nat /\ x \in Nat /\ m < x
    OBVIOUS
  <2>2. <<m, x>> \in R
    BY <2>1
  <2>3. QED BY <1>2, <2>2
<1>4. QED BY <1>3

\* A list without its first d turns
LEMMA CutIs ==
  ASSUME NEW turns \in Seq(Turns), NEW d \in 0 .. Len(turns)
  PROVE  LET cut == SubSeq(turns, d + 1, Len(turns)) IN
           /\ cut \in Seq(Turns) /\ Len(cut) = Len(turns) - d
           /\ \A k \in 1 .. Len(turns) - d : cut[k] = turns[d + k]
<1>1. PICK n \in Nat : n = Len(turns) /\ \A i \in 1 .. n : turns[i] \in Turns
  OBVIOUS
<1>2. \A i \in d + 1 .. n : turns[i] \in Turns
  BY <1>1
<1> DEFINE cut == SubSeq(turns, d + 1, n)
<1>3. /\ cut \in Seq(Turns)
      /\ Len(cut) = IF d + 1 <= n THEN n - (d + 1) + 1 ELSE 0
      /\ \A i \in 1 .. n - (d + 1) + 1 : cut[i] = turns[(d + 1) + i - 1]
  BY <1>1, <1>2, SubSeqProperties
<1> HIDE DEF cut
<1>4. Len(cut) = n - d /\ \A k \in 1 .. n - d : cut[k] = turns[d + k]
  BY <1>1, <1>3
<1>5. QED BY <1>1, <1>3, <1>4 DEF cut

\* and its first d turns
LEMMA HeadIs ==
  ASSUME NEW turns \in Seq(Turns), NEW d \in 0 .. Len(turns)
  PROVE  LET head == SubSeq(turns, 1, d) IN
           Range(head) = {turns[i] : i \in 1 .. d}
<1>1. PICK n \in Nat : n = Len(turns) /\ \A i \in 1 .. n : turns[i] \in Turns
  OBVIOUS
<1>2. \A i \in 1 .. d : turns[i] \in Turns
  BY <1>1
<1> DEFINE head == SubSeq(turns, 1, d)
<1>3. /\ head \in Seq(Turns)
      /\ Len(head) = IF 1 <= d THEN d - 1 + 1 ELSE 0
      /\ \A i \in 1 .. d - 1 + 1 : head[i] = turns[1 + i - 1]
  BY <1>1, <1>2, SubSeqProperties
<1> HIDE DEF head
<1>4. DOMAIN head = 1 .. d /\ \A k \in 1 .. d : head[k] = turns[k]
  BY <1>1, <1>3
<1>5. QED BY <1>4 DEF head, Range

\* max_tokens drops from the front, and nothing of the most recent turns.
LEMMA WindowedIs ==
  ASSUME style \in Styles, NEW turns \in Seq(Turns)
  PROVE  \E d \in 0 .. Len(turns) :
           /\ Windowed(turns) = SubSeq(turns, d + 1, Len(turns))
           /\ d = 0 \/ Len(turns) - d >= style.keep
<1> DEFINE Enough(n) == n = Len(turns) \/ Len(turns) - n <= style.keep
                        \/ Tokens(SubSeq(turns, n + 1, Len(turns))) <= style.limit
           First(n) == Enough(n) /\ \A m \in 0 .. n - 1 : ~Enough(m)
           d == CHOOSE n \in 0 .. Len(turns) : First(n)
<1>1. style.keep \in Nat /\ Len(turns) \in Nat
  BY ContextsAssumption
<1>2. Windowed(turns) = SubSeq(turns, d + 1, Len(turns))
  BY DEF Windowed
<1>3. d \in 0 .. Len(turns) /\ First(d)
  <2>1. Enough(Len(turns))
    OBVIOUS
  <2> DEFINE S == {n \in 0 .. Len(turns) : Enough(n)}
  <2>2. S \subseteq Nat /\ S # {}
    BY <1>1, <2>1
  <2>3. PICK n \in S : \A m \in 0 .. n - 1 : m \notin S
    <3> HIDE DEF S
    <3>1. QED BY <2>2, FirstIn
  <2> HIDE DEF Enough
  <2>4. n \in 0 .. Len(turns) /\ First(n)
    BY <1>1, <2>3
  <2> HIDE DEF First
  <2>5. QED BY <2>4
<1>4. d = 0 \/ Len(turns) - d >= style.keep
  <2> SUFFICES ASSUME d # 0 PROVE Len(turns) - d >= style.keep
    OBVIOUS
  <2>1. d \in Nat /\ d - 1 \in 0 .. d - 1
    BY <1>1, <1>3
  <2>2. ~Enough(d - 1)
    BY <1>3, <2>1
  <2>3. ~(Len(turns) - (d - 1) <= style.keep)
    BY <2>2
  <2> HIDE DEF d
  <2>4. QED BY <1>1, <2>1, <2>3
<1> HIDE DEF d
<1>5. QED BY <1>2, <1>3, <1>4
\* What a pass leaves, whichever the strategy
LEMMA CompactedIs ==
  ASSUME TranscriptTyped, NEW turns \in Seq(Turns)
  PROVE  \E d \in 0 .. Len(turns), f \in {0, 1} : Shape(turns, Compacted(turns), d, f)
<1>1. style \in Styles /\ shifted \in Nat /\ style.keep \in Nat /\ Len(turns) \in Nat
  BY ContextsAssumption DEF TranscriptTyped
<1>2. CASE style.name = "max_tokens"
  <2>1. LeastKept = style.keep
    BY <1>2 DEF LeastKept
  <2>2. PICK d \in 0 .. Len(turns) :
          /\ Windowed(turns) = SubSeq(turns, d + 1, Len(turns))
          /\ d = 0 \/ Len(turns) - d >= style.keep
    BY <1>1, WindowedIs
  <2>3. Compacted(turns) = SubSeq(turns, d + 1, Len(turns))
    BY <1>2, <2>2 DEF Compacted
  <2>4. Shape(turns, Compacted(turns), d, 0)
    BY <1>1, <1>2, <2>1, <2>2, <2>3, CutIs DEF Shape
  <2>5. QED BY <2>4
<1>3. CASE style.name # "max_tokens"
  <2>1. KeepRecent \in Nat /\ KeepRecent >= LeastKept /\ LeastKept \in Nat
    BY <1>1, <1>3, KeptEnough
  <2>2. Compacted(turns) = Digested(turns, KeepRecent)
    BY <1>3 DEF Compacted
  <2>3. CASE Len(turns) <= KeepRecent
    <3>1. Compacted(turns) = turns
      BY <2>2, <2>3 DEF Digested
    <3>2. Shape(turns, turns, 0, 0)
      BY <1>1 DEF Shape
    <3>3. QED BY <1>1, <3>1, <3>2
  <2>4. CASE Len(turns) > KeepRecent
    <3> DEFINE d == IF KeepRecent = 0 THEN 0 ELSE Len(turns) - KeepRecent
               head == SubSeq(turns, 1, d)
               cut == SubSeq(turns, d + 1, Len(turns))
    <3>1. d \in 0 .. Len(turns) /\ (d = 0 \/ Len(turns) - d >= LeastKept)
      BY <1>1, <2>1, <2>4
    <3>2. /\ cut \in Seq(Turns) /\ Len(cut) = Len(turns) - d
          /\ \A k \in 1 .. Len(turns) - d : cut[k] = turns[d + k]
      <4> HIDE DEF d
      <4>1. QED BY <3>1, CutIs
    <3>3. Range(head) = {turns[i] : i \in 1 .. d}
      <4> HIDE DEF d
      <4>1. QED BY <3>1, HeadIs
    <3>4. Recent(turns, KeepRecent) = cut
      <4>1. CASE KeepRecent = 0
        <5>1. Recent(turns, KeepRecent) = turns
          BY <4>1 DEF Recent
        <5>2. d = 0
          BY <4>1
        <5> HIDE DEF d, cut
        <5>3. Len(cut) = Len(turns) /\ \A k \in 1 .. Len(turns) : cut[k] = turns[k]
          BY <1>1, <3>2, <5>2
        <5>4. cut = turns
          BY <3>2, <5>3, SeqEqual
        <5>5. QED BY <5>1, <5>4
      <4>2. CASE KeepRecent # 0
        <5>1. Recent(turns, KeepRecent) = SubSeq(turns, Len(turns) - KeepRecent + 1, Len(turns))
          BY <1>1, <2>1, <2>4, <4>2 DEF Recent
        <5>2. QED BY <4>2, <5>1
      <4>3. QED BY <4>1, <4>2
    <3>5. SummaryTurn(Older(turns, KeepRecent)).fluid = (\E i \in 1 .. d : turns[i].fluid)
      <4>1. CASE KeepRecent = 0
        BY <4>1 DEF Older, SummaryTurn, Range
      <4>2. CASE KeepRecent # 0
        <5>1. Older(turns, KeepRecent) = head
          BY <4>2 DEF Older
        <5> HIDE DEF head, d
        <5>2. QED BY <3>3, <5>1 DEF SummaryTurn
      <4>3. QED BY <4>1, <4>2
    <3>6. \A a : a \in SummaryTurn(Older(turns, KeepRecent)).holds <=> \E i \in 1 .. d : a \in turns[i].holds
      <4>1. CASE KeepRecent = 0
        BY <4>1 DEF Older, SummaryTurn, Range
      <4>2. CASE KeepRecent # 0
        <5>1. Older(turns, KeepRecent) = head
          BY <4>2 DEF Older
        <5> HIDE DEF head, d
        <5>2. QED BY <3>3, <5>1 DEF SummaryTurn
      <4>3. QED BY <4>1, <4>2
    <3> DEFINE digest == SummaryTurn(Older(turns, KeepRecent))
    <3>7. digest \in Turns
      <4>1. digest.tokens = DigestSize /\ digest.fluid \in BOOLEAN
            /\ digest = [fluid |-> digest.fluid, tokens |-> digest.tokens, holds |-> digest.holds]
        BY DEF SummaryTurn
      <4>2. DigestSize \in Nat
        BY ContextsAssumption
      <4>3. \A i \in 1 .. d : turns[i].holds \subseteq Nat
        <5>1. \A i \in 1 .. Len(turns) : turns[i] \in Turns
          OBVIOUS
        <5>2. \A i \in 1 .. d : i \in 1 .. Len(turns)
          BY <1>1, <3>1
        <5> HIDE DEF d
        <5>3. QED BY <5>1, <5>2 DEF Turns
      <4> HIDE DEF digest, d
      <4>4. digest.holds \subseteq Nat
        BY <3>6, <4>3 DEF digest
      <4>5. QED BY <4>1, <4>2, <4>4 DEF Turns
    <3>8. Compacted(turns) = <<digest>> \o cut
      <4>1. ~(Len(turns) <= KeepRecent)
        BY <1>1, <2>1, <2>4
      <4>2. Compacted(turns) = <<SummaryTurn(Older(turns, KeepRecent))>> \o Recent(turns, KeepRecent)
        BY <2>2, <4>1, Zenon DEF Digested
      <4>3. QED BY <3>4, <4>2, Zenon
    <3> HIDE DEF digest, cut, d
    <3>9. <<digest>> \in Seq(Turns) /\ Len(<<digest>>) = 1 /\ <<digest>>[1] = digest
      BY <3>7
    <3>10. /\ <<digest>> \o cut \in Seq(Turns) /\ Len(<<digest>> \o cut) = 1 + Len(cut)
           /\ \A i \in 1 .. 1 + Len(cut) :
                (<<digest>> \o cut)[i] = IF i <= 1 THEN <<digest>>[i] ELSE cut[i - 1]
      BY <3>2, <3>9, ConcatProperties
    <3>11. (Compacted(turns))[1] = digest
      BY <1>1, <3>1, <3>2, <3>8, <3>9, <3>10
    <3>12. \A k \in 1 .. Len(turns) - d : (Compacted(turns))[1 + k] = turns[d + k]
      BY <1>1, <3>1, <3>2, <3>8, <3>10
    <3>13. Shape(turns, Compacted(turns), d, 1)
      <4>1. \A i \in 1 .. d : turns[i].fluid => digest.fluid
        BY <3>5 DEF digest
      <4>2. \A i \in 1 .. d : turns[i].holds \subseteq digest.holds
        BY <3>6 DEF digest
      <4>3. \A a \in digest.holds : \E i \in 1 .. d : a \in turns[i].holds
        BY <3>6 DEF digest
      <4>4. QED BY <1>1, <3>1, <3>2, <3>8, <3>10, <3>11, <3>12, <4>1, <4>2, <4>3 DEF Shape
    <3>14. QED BY <3>1, <3>13
  <2>5. QED BY <1>1, <2>1, <2>3, <2>4
<1>4. QED BY <1>2, <1>3

LEMMA TranscriptStarts == ContextsInit => TranscriptInv
<1> SUFFICES ASSUME ContextsInit PROVE TranscriptInv
  OBVIOUS
<1>1. /\ style \in Styles /\ shifted = style.keep /\ transcript = <<>> /\ said = <<>>
      /\ Len(<<>>) = 0 /\ <<>> \in Seq(Turns)
  BY DEF ContextsInit
<1>2. shifted \in Nat
  BY <1>1, ContextsAssumption
<1>3. TranscriptTyped
  BY <1>1, <1>2 DEF TranscriptTyped
<1>4. FluidKept /\ OrderKept /\ TurnsStand
  BY <1>1 DEF FluidKept, OrderKept, TurnsStand
<1>5. RecentKept
  BY <1>1 DEF RecentKept
<1>6. QED BY <1>3, <1>4, <1>5 DEF TranscriptInv

\* A compaction of that shape keeps what is known of the transcript.
LEMMA ShapeKeeps ==
  ASSUME TranscriptInv, UNCHANGED <<style, said>>, shifted' \in Nat,
         NEW d \in 0 .. Len(transcript), NEW f \in {0, 1}, Shape(transcript, transcript', d, f)
  PROVE  TranscriptInv'
<1>1. /\ Len(transcript) \in Nat /\ transcript' \in Seq(Turns) /\ d \in Nat
      /\ Len(transcript') = f + (Len(transcript) - d) /\ Len(said) \in Nat
  BY DEF TranscriptInv, TranscriptTyped, Shape
<1>2. TranscriptTyped'
  BY <1>1 DEF TranscriptInv, TranscriptTyped
<1>3. ASSUME NEW i \in 1 .. Len(transcript')
      PROVE  \/ /\ f = 1 /\ i = 1
                /\ \A k \in 1 .. d : transcript[k].fluid => transcript'[i].fluid
                /\ \A a \in transcript'[i].holds :
                     \E k \in 1 .. Len(transcript) : k <= d /\ a \in transcript[k].holds
             \/ \E k \in 1 .. Len(transcript) :
                   k > d /\ i = k - d + f /\ transcript'[i] = transcript[k]
  <2>1. CASE f = 1 /\ i = 1
    <3>1. \A k \in 1 .. d : k \in 1 .. Len(transcript) /\ k <= d
      BY <1>1
    <3>2. QED BY <2>1, <3>1 DEF Shape
  <2>2. CASE ~(f = 1 /\ i = 1)
    <3>1. i - f \in 1 .. Len(transcript) - d
      BY <1>1, <2>2
    <3>2. transcript'[f + (i - f)] = transcript[d + (i - f)]
      BY <3>1 DEF Shape
    <3>3. /\ f + (i - f) = i /\ d + (i - f) \in 1 .. Len(transcript)
          /\ d + (i - f) > d /\ i = (d + (i - f)) - d + f
      BY <1>1, <3>1
    <3>4. QED BY <3>2, <3>3
  <2>3. QED BY <2>1, <2>2
<1>4. FluidKept'
  <2> SUFFICES ASSUME NEW i \in 1 .. Len(transcript'), NEW a \in transcript'[i].holds
               PROVE  a \in 1 .. Len(said) /\ (said[a].fluid => transcript'[i].fluid)
    BY DEF FluidKept
  <2>1. \A k \in 1 .. Len(transcript) : \A b \in transcript[k].holds :
            b \in 1 .. Len(said) /\ (said[b].fluid => transcript[k].fluid)
    BY DEF TranscriptInv, FluidKept
  <2>2. CASE /\ f = 1 /\ i = 1
             /\ \A k \in 1 .. d : transcript[k].fluid => transcript'[i].fluid
             /\ \A b \in transcript'[i].holds :
                  \E k \in 1 .. Len(transcript) : k <= d /\ b \in transcript[k].holds
    <3>1. PICK k \in 1 .. Len(transcript) : k <= d /\ a \in transcript[k].holds
      BY <2>2
    <3>2. k \in 1 .. d
      BY <1>1, <3>1
    <3>3. a \in 1 .. Len(said) /\ (said[a].fluid => transcript[k].fluid)
      BY <2>1, <3>1
    <3>4. QED BY <2>2, <3>2, <3>3
  <2>3. CASE \E k \in 1 .. Len(transcript) :
                k > d /\ i = k - d + f /\ transcript'[i] = transcript[k]
    BY <2>1, <2>3
  <2>4. QED BY <1>3, <2>2, <2>3
<1>5. OrderKept'
  <2> SUFFICES ASSUME NEW i \in 1 .. Len(transcript'), NEW j \in 1 .. Len(transcript'), i < j,
                      NEW a \in transcript'[i].holds, NEW b \in transcript'[j].holds
               PROVE  a < b
    BY DEF OrderKept
  <2>1. \A k, l \in 1 .. Len(transcript) : k < l =>
            \A x \in transcript[k].holds, y \in transcript[l].holds : x < y
    BY DEF TranscriptInv, OrderKept
  <2>2. PICK l \in 1 .. Len(transcript) :
            l > d /\ j = l - d + f /\ transcript'[j] = transcript[l]
    BY <1>1, <1>3
  <2>3. PICK k \in 1 .. Len(transcript) :
            a \in transcript[k].holds /\ (k <= d \/ i = k - d + f)
    BY <1>3
  <2>4. k < l
    <3>1. d \in Nat /\ f \in Nat /\ i < j
      BY <1>1
    <3>2. CASE k <= d
      BY <2>2, <3>1, <3>2
    <3>3. CASE i = k - d + f
      BY <2>2, <3>1, <3>3
    <3>4. QED BY <2>3, <3>2, <3>3
  <2>5. QED BY <2>1, <2>2, <2>3, <2>4
<1>6. TurnsStand'
  <2> SUFFICES ASSUME style.name # "max_tokens", NEW a \in 1 .. Len(said)
               PROVE  \E i \in 1 .. Len(transcript') : a \in transcript'[i].holds
    BY DEF TurnsStand
  <2>1. PICK k \in 1 .. Len(transcript) : a \in transcript[k].holds
    BY DEF TranscriptInv, TurnsStand
  <2>2. CASE k <= d
    <3>1. f = 1 /\ k \in 1 .. d
      BY <1>1, <2>2 DEF Shape
    <3>2. a \in transcript'[1].holds
      BY <2>1, <3>1 DEF Shape
    <3>3. 1 \in 1 .. Len(transcript')
      BY <1>1, <3>1
    <3>4. QED BY <3>2, <3>3
  <2>3. CASE k > d
    <3>1. k - d \in 1 .. Len(transcript) - d
      BY <1>1, <2>3
    <3>2. transcript'[f + (k - d)] = transcript[d + (k - d)]
      BY <3>1 DEF Shape
    <3>3. f + (k - d) \in 1 .. Len(transcript')
      BY <1>1, <3>1
    <3>4. d + (k - d) = k
      BY <1>1
    <3>5. QED BY <2>1, <3>2, <3>3, <3>4
  <2>4. QED BY <1>1, <2>2, <2>3
<1>7. RecentKept'
  <2>1. LeastKept' = LeastKept /\ LeastKept \in Nat
    BY ContextsAssumption DEF LeastKept, TranscriptInv, TranscriptTyped
  <2> SUFFICES ASSUME NEW k \in Nat, k < LeastKept, k < Len(said)
               PROVE  /\ k < Len(transcript')
                      /\ transcript'[Len(transcript') - k] = said[Len(said) - k]
    BY <2>1 DEF RecentKept
  <2>2. k < Len(transcript) /\ transcript[Len(transcript) - k] = said[Len(said) - k]
    BY DEF TranscriptInv, RecentKept
  <2>3. k < Len(transcript) - d
    BY <1>1, <2>1, <2>2 DEF Shape
  <2>4. Len(transcript) - d - k \in 1 .. Len(transcript) - d
    BY <1>1, <2>3
  <2>5. transcript'[f + (Len(transcript) - d - k)] = transcript[d + (Len(transcript) - d - k)]
    BY <2>4 DEF Shape
  <2>6. /\ f + (Len(transcript) - d - k) = Len(transcript') - k
        /\ d + (Len(transcript) - d - k) = Len(transcript) - k
    BY <1>1
  <2>7. k < Len(transcript')
    BY <1>1, <2>3
  <2>8. QED BY <2>2, <2>5, <2>6, <2>7
<1>8. QED BY <1>2, <1>4, <1>5, <1>6, <1>7 DEF TranscriptInv

LEMMA SpeakKeeps ==
  ASSUME TranscriptInv, NEW fluid \in BOOLEAN, NEW tokens \in Sizes, Speak(fluid, tokens)
  PROVE  TranscriptInv'
<1> DEFINE turn == [fluid |-> fluid, tokens |-> tokens, holds |-> {Len(said) + 1}]
<1>1. /\ said' = Append(said, turn) /\ transcript' = Append(transcript, turn)
      /\ UNCHANGED <<style, shifted>> /\ transcript \in Seq(Turns) /\ said \in Seq(Turns)
      /\ Len(said) \in Nat /\ Len(transcript) \in Nat
  BY DEF Speak, TranscriptInv, TranscriptTyped
<1>2. tokens \in Nat
  BY ContextsAssumption
<1>3. turn \in Turns /\ turn.fluid = fluid /\ turn.holds = {Len(said) + 1}
  BY <1>1, <1>2 DEF Turns
<1> HIDE DEF turn
<1>4. /\ said' \in Seq(Turns) /\ Len(said') = Len(said) + 1 /\ said'[Len(said) + 1] = turn
      /\ \A i \in 1 .. Len(said) : said'[i] = said[i]
  BY <1>1, <1>3, AppendProperties
<1>5. /\ transcript' \in Seq(Turns) /\ Len(transcript') = Len(transcript) + 1
      /\ transcript'[Len(transcript) + 1] = turn
      /\ \A i \in 1 .. Len(transcript) : transcript'[i] = transcript[i]
  BY <1>1, <1>3, AppendProperties
<1>6. TranscriptTyped'
  BY <1>1, <1>4, <1>5 DEF TranscriptInv, TranscriptTyped
<1>7. \A i \in 1 .. Len(transcript') :
          i \in 1 .. Len(transcript) \/ (i = Len(transcript) + 1 /\ transcript'[i] = turn)
  BY <1>1, <1>5
<1>8. \A i \in 1 .. Len(transcript) : \A a \in transcript[i].holds :
          a \in 1 .. Len(said) /\ (said[a].fluid => transcript[i].fluid)
  BY DEF TranscriptInv, FluidKept
<1>9. FluidKept'
  <2> SUFFICES ASSUME NEW i \in 1 .. Len(transcript'), NEW a \in transcript'[i].holds
               PROVE  a \in 1 .. Len(said') /\ (said'[a].fluid => transcript'[i].fluid)
    BY DEF FluidKept
  <2>1. CASE i \in 1 .. Len(transcript)
    <3>1. transcript'[i] = transcript[i]
      BY <1>5, <2>1
    <3>2. a \in 1 .. Len(said) /\ (said[a].fluid => transcript'[i].fluid)
      BY <1>8, <2>1, <3>1
    <3>3. said'[a] = said[a] /\ a \in 1 .. Len(said')
      BY <1>1, <1>4, <3>2
    <3>4. QED BY <3>2, <3>3
  <2>2. CASE i = Len(transcript) + 1 /\ transcript'[i] = turn
    <3>1. a = Len(said) + 1
      BY <1>3, <2>2
    <3>2. said'[a] = transcript'[i]
      BY <1>4, <2>2, <3>1
    <3>3. a \in 1 .. Len(said')
      BY <1>1, <1>4, <3>1
    <3>4. QED BY <3>2, <3>3
  <2>3. QED BY <1>7, <2>1, <2>2
<1>10. OrderKept'
  <2> SUFFICES ASSUME NEW i \in 1 .. Len(transcript'), NEW j \in 1 .. Len(transcript'), i < j,
                      NEW a \in transcript'[i].holds, NEW b \in transcript'[j].holds
               PROVE  a < b
    BY DEF OrderKept
  <2>1. i \in 1 .. Len(transcript)
    BY <1>1, <1>5
  <2>2. transcript'[i] = transcript[i] /\ a \in transcript[i].holds /\ a \in 1 .. Len(said)
    BY <1>5, <1>8, <2>1
  <2>3. CASE j \in 1 .. Len(transcript)
    <3>1. transcript'[j] = transcript[j]
      BY <1>5, <2>3
    <3>2. QED BY <2>1, <2>2, <2>3, <3>1 DEF TranscriptInv, OrderKept
  <2>4. CASE transcript'[j] = turn
    BY <1>1, <1>3, <2>2, <2>4
  <2>5. QED BY <1>7, <2>3, <2>4
<1>11. TurnsStand'
  <2> SUFFICES ASSUME style.name # "max_tokens", NEW a \in 1 .. Len(said')
               PROVE  \E i \in 1 .. Len(transcript') : a \in transcript'[i].holds
    BY <1>1 DEF TurnsStand
  <2>1. CASE a \in 1 .. Len(said)
    <3>1. PICK i \in 1 .. Len(transcript) : a \in transcript[i].holds
      BY <2>1 DEF TranscriptInv, TurnsStand
    <3>2. transcript'[i] = transcript[i] /\ i \in 1 .. Len(transcript')
      BY <1>1, <1>5
    <3>3. QED BY <3>1, <3>2
  <2>2. CASE a = Len(said) + 1
    <3>1. Len(transcript) + 1 \in 1 .. Len(transcript')
      BY <1>1, <1>5
    <3>2. a \in transcript'[Len(transcript) + 1].holds
      BY <1>3, <1>5, <2>2
    <3>3. QED BY <3>1, <3>2
  <2>3. QED BY <1>1, <1>4, <2>1, <2>2
<1>12. RecentKept'
  <2>1. LeastKept' = LeastKept /\ LeastKept \in Nat
    BY <1>1, ContextsAssumption DEF LeastKept, TranscriptInv, TranscriptTyped
  <2> SUFFICES ASSUME NEW k \in Nat, k < LeastKept, k < Len(said')
               PROVE  /\ k < Len(transcript')
                      /\ transcript'[Len(transcript') - k] = said'[Len(said') - k]
    BY <2>1 DEF RecentKept
  <2>2. CASE k = 0
    <3>1. /\ Len(transcript') - k = Len(transcript) + 1 /\ Len(said') - k = Len(said) + 1
          /\ k < Len(transcript')
      BY <1>1, <1>4, <1>5, <2>2
    <3>2. QED BY <1>4, <1>5, <3>1
  <2>3. CASE k > 0
    <3>1. k - 1 \in Nat /\ k - 1 < LeastKept /\ k - 1 < Len(said)
      BY <1>1, <1>4, <2>1, <2>3
    <3>2. /\ k - 1 < Len(transcript)
          /\ transcript[Len(transcript) - (k - 1)] = said[Len(said) - (k - 1)]
      BY <3>1 DEF TranscriptInv, RecentKept
    <3>3. /\ Len(transcript') - k = Len(transcript) - (k - 1)
          /\ Len(said') - k = Len(said) - (k - 1)
          /\ Len(transcript) - (k - 1) \in 1 .. Len(transcript)
          /\ Len(said) - (k - 1) \in 1 .. Len(said) /\ k < Len(transcript')
      BY <1>1, <1>4, <1>5, <3>1, <3>2
    <3>4. QED BY <1>4, <1>5, <3>2, <3>3
  <2>4. QED BY <2>2, <2>3
<1>13. QED BY <1>6, <1>9, <1>10, <1>11, <1>12 DEF TranscriptInv

LEMMA TranscriptStep == TranscriptInv /\ [ContextsNext]_contextsVars => TranscriptInv'
<1> SUFFICES ASSUME TranscriptInv, [ContextsNext]_contextsVars PROVE TranscriptInv'
  OBVIOUS
<1>1. CASE UNCHANGED transcriptVars
  <2>1. style' = style /\ shifted' = shifted /\ transcript' = transcript /\ said' = said
    BY <1>1 DEF transcriptVars
  <2>2. TranscriptTyped' /\ FluidKept' /\ OrderKept' /\ TurnsStand' /\ RecentKept'
    BY <2>1 DEF TranscriptInv, TranscriptTyped, FluidKept, OrderKept, TurnsStand, RecentKept, LeastKept
  <2>3. QED BY <2>2 DEF TranscriptInv
<1>2. CASE \E fluid \in BOOLEAN, tokens \in Sizes : Speak(fluid, tokens)
  BY <1>2, SpeakKeeps
<1>3. CASE ManageContext
  <2>1. /\ transcript' = Compacted(transcript) /\ UNCHANGED <<style, said>>
        /\ shifted' = shifted \/ shifted' = shifted \div 2
    BY <1>3 DEF ManageContext
  <2>2. TranscriptTyped /\ transcript \in Seq(Turns) /\ shifted' \in Nat
    BY <2>1 DEF TranscriptInv, TranscriptTyped
  <2>3. PICK d \in 0 .. Len(transcript), f \in {0, 1} :
            Shape(transcript, Compacted(transcript), d, f)
    BY <2>2, CompactedIs
  <2>4. Shape(transcript, transcript', d, f)
    BY <2>1, <2>3
  <2>5. QED BY <2>1, <2>2, <2>4, ShapeKeeps
<1>4. QED BY <1>1, <1>2, <1>3 DEF ContextsNext, TranscriptNext, TeamNext, contextsVars

\* Of the entries of a name, the later one counts.
LEMMA ByNameIs ==
  ASSUME NEW S, NEW entries \in Seq(S), NEW name \in Keys(entries)
  PROVE  \E k \in 1 .. Len(entries) :
           /\ ByName(entries)[name] = entries[k] /\ entries[k].key = name
           /\ \A j \in 1 .. Len(entries) : entries[j].key = name => j <= k
<1>1. PICK n \in Nat : n = Len(entries) /\ DOMAIN entries = 1 .. n
  OBVIOUS
<1> DEFINE Late(k) == /\ entries[k].key = name
                      /\ \A j \in DOMAIN entries : entries[j].key = name => j <= k
           T == {i \in 0 .. n : \E k \in 1 .. n : entries[k].key = name /\ i = n - k}
<1>2. PICK e \in Range(entries) : name = e.key
  BY DEF Keys
<1>3. PICK k0 \in 1 .. n : entries[k0] = e
  BY <1>1, <1>2 DEF Range
<1>4. T \subseteq Nat /\ n - k0 \in T
  BY <1>1, <1>2, <1>3
<1>5. PICK i \in T : \A m \in 0 .. i - 1 : m \notin T
  <2> HIDE DEF T
  <2>1. QED BY <1>4, FirstIn
<1>6. PICK k \in 1 .. n : entries[k].key = name /\ i = n - k
  BY <1>5
<1>7. \A j \in 1 .. n : entries[j].key = name => j <= k
  <2> SUFFICES ASSUME NEW j \in 1 .. n, entries[j].key = name, j > k PROVE FALSE
    BY <1>1
  <2>1. n - j \in 0 .. n /\ n - j \in 0 .. i - 1
    BY <1>1, <1>6
  <2>2. n - j \in T
    BY <2>1
  <2>3. QED BY <1>5, <2>1, <2>2
<1>8. Late(k) /\ k \in DOMAIN entries
  BY <1>1, <1>6, <1>7
<1> HIDE DEF Late
<1>9. PICK l \in DOMAIN entries : Late(l) /\ ByName(entries)[name] = entries[l]
  <2>1. ByName(entries)[name] = entries[CHOOSE l \in DOMAIN entries : Late(l)]
    BY DEF ByName, Late
  <2>2. QED BY <1>8, <2>1
<1>10. QED BY <1>1, <1>9 DEF Late

\* An entry that no later one of its name hides is the one that counts.
LEMMA NotHidden ==
  ASSUME NEW S, NEW entries \in Seq(S), NEW i \in 1 .. Len(entries),
         \A j \in i + 1 .. Len(entries) : entries[j].key # entries[i].key
  PROVE  entries[i].key \in Keys(entries) /\ ByName(entries)[entries[i].key] = entries[i]
<1>1. PICK n \in Nat : n = Len(entries) /\ DOMAIN entries = 1 .. n
  OBVIOUS
<1>2. entries[i].key \in Keys(entries)
  BY <1>1 DEF Keys, Range
<1>3. PICK k \in 1 .. n :
        /\ ByName(entries)[entries[i].key] = entries[k] /\ entries[k].key = entries[i].key
        /\ \A j \in 1 .. n : entries[j].key = entries[i].key => j <= k
  BY <1>1, <1>2, ByNameIs
<1>4. i <= k /\ k \notin i + 1 .. n
  BY <1>1, <1>3
<1>5. k = i
  BY <1>1, <1>4
<1>6. QED BY <1>2, <1>3, <1>5

Summarised(entries) ==
    [ key |-> "summary", says |-> UNION {ByName(entries)[name].says : name \in Keys(entries)},
      tainted |-> \E entry \in Range(entries) : entry.tainted,
      of |-> UNION {entry.of : entry \in Range(entries)} ]

\* What is carried: all, the last few, or a summary
LEMMA CarryOnIs ==
  ASSUME NEW S, NEW entries \in Seq(S)
  PROVE  \/ CarryOn(entries) = entries
         \/ /\ team.carry = "recency" /\ CarryKeep \in 1 .. Len(entries)
            /\ CarryOn(entries) \in Seq(S) /\ Len(CarryOn(entries)) = CarryKeep
            /\ \A k \in 1 .. CarryKeep :
                 (CarryOn(entries))[k] = entries[Len(entries) - CarryKeep + k]
         \/ Len(entries) > 1 /\ CarryOn(entries) = <<Summarised(entries)>>
<1>1. PICK n \in Nat : n = Len(entries) /\ \A k \in 1 .. n : entries[k] \in S
  OBVIOUS
<1>2. CarryKeep \in Nat
  BY ContextsAssumption
<1>3. CASE team.carry = "recency"
  <2>1. CASE n <= CarryKeep \/ CarryKeep = 0
    <3>1. CarryOn(entries) = entries
      BY <1>1, <1>2, <1>3, <2>1 DEF CarryOn, Recent
    <3>2. QED BY <3>1
  <2>2. CASE ~(n <= CarryKeep) /\ CarryKeep # 0
    <3>1. CarryOn(entries) = SubSeq(entries, n - CarryKeep + 1, n)
      BY <1>1, <1>2, <1>3, <2>2 DEF CarryOn, Recent
    <3> DEFINE m == n - CarryKeep + 1
    <3>2. m \in Int /\ (\A k \in m .. n : entries[k] \in S) /\ m <= n /\ n - m + 1 = CarryKeep
          /\ \A k \in 1 .. CarryKeep : m + k - 1 = n - CarryKeep + k
      BY <1>1, <1>2, <2>2
    <3>3. /\ SubSeq(entries, m, n) \in Seq(S)
          /\ Len(SubSeq(entries, m, n)) = IF m <= n THEN n - m + 1 ELSE 0
          /\ \A k \in 1 .. n - m + 1 : SubSeq(entries, m, n)[k] = entries[m + k - 1]
      <4> HIDE DEF m
      <4>1. n \in Int /\ m \in Int /\ \A k \in m .. n : entries[k] \in S
        BY <1>1, <3>2
      <4>2. QED BY <4>1, SubSeqProperties
    <3>4. CarryOn(entries) = SubSeq(entries, m, n)
      BY <3>1
    <3> HIDE DEF m
    <3>5. /\ CarryOn(entries) \in Seq(S) /\ Len(CarryOn(entries)) = CarryKeep
          /\ \A k \in 1 .. CarryKeep : (CarryOn(entries))[k] = entries[n - CarryKeep + k]
      BY <3>2, <3>3, <3>4
    <3>6. CarryKeep \in 1 .. n
      BY <1>1, <1>2, <2>2
    <3>7. QED BY <1>1, <1>3, <3>5, <3>6
  <2>3. QED BY <1>1, <1>2, <2>1, <2>2
<1>4. CASE team.carry = "summary"
  <2>1. CarryOn(entries) = IF Len(entries) <= 1 THEN entries ELSE <<Summarised(entries)>>
    BY <1>4 DEF CarryOn, Summarised
  <2>2. QED BY <1>1, <2>1
<1>5. CASE team.carry # "recency" /\ team.carry # "summary"
  BY <1>5 DEF CarryOn
<1>6. QED BY <1>3, <1>4, <1>5

TaintOf(entries) == \A k \in 1 .. Len(entries) : entries[k].of # {} => entries[k].tainted

LEMMA CarryOnTaints ==
  ASSUME NEW S, NEW entries \in Seq(S), TaintOf(entries)
  PROVE  TaintOf(CarryOn(entries)) /\ \E T : CarryOn(entries) \in Seq(T)
<1>1. Len(entries) \in Nat /\ DOMAIN entries = 1 .. Len(entries) /\ CarryKeep \in Nat
  BY ContextsAssumption
<1>2. CASE CarryOn(entries) = entries
  BY <1>2
<1>3. CASE /\ CarryKeep \in 1 .. Len(entries)
           /\ CarryOn(entries) \in Seq(S) /\ Len(CarryOn(entries)) = CarryKeep
           /\ \A k \in 1 .. CarryKeep :
                 (CarryOn(entries))[k] = entries[Len(entries) - CarryKeep + k]
  <2>1. \A k \in 1 .. CarryKeep : Len(entries) - CarryKeep + k \in 1 .. Len(entries)
    BY <1>1, <1>3
  <2>2. TaintOf(CarryOn(entries))
    BY <1>3, <2>1 DEF TaintOf
  <2>3. QED BY <1>3, <2>2
<1>4. CASE CarryOn(entries) = <<Summarised(entries)>>
  <2> DEFINE sum == Summarised(entries)
  <2>1. sum.of # {} => sum.tainted
    <3> SUFFICES ASSUME sum.of # {} PROVE \E entry \in Range(entries) : entry.tainted
      BY DEF Summarised
    <3>1. PICK entry \in Range(entries) : entry.of # {}
      BY DEF Summarised
    <3>2. PICK k \in 1 .. Len(entries) : entries[k] = entry
      BY <1>1 DEF Range
    <3>3. QED BY <3>1, <3>2 DEF TaintOf
  <2> HIDE DEF sum
  <2>2. <<sum>> \in Seq({sum}) /\ Len(<<sum>>) = 1 /\ <<sum>>[1] = sum
    OBVIOUS
  <2>3. TaintOf(<<sum>>)
    BY <2>1, <2>2 DEF TaintOf
  <2>4. QED BY <1>4, <2>2, <2>3 DEF sum
<1>5. QED BY <1>2, <1>3, <1>4, CarryOnIs

\* The one that spoke last is still there to be heard, whatever is carried.
LEMMA CarryOnEnds ==
  ASSUME NEW S, NEW entries \in Seq(S), entries # <<>>, NEW n \in entries[Len(entries)].says
  PROVE  /\ CarryOn(entries) # <<>>
         /\ n \in (CarryOn(entries))[Len(CarryOn(entries))].says
<1>1. PICK l \in Nat : l = Len(entries) /\ l > 0
  BY EmptySeq
<1>2. CASE CarryOn(entries) = entries
  BY <1>2
<1>3. CASE /\ CarryKeep \in 1 .. Len(entries)
           /\ CarryOn(entries) \in Seq(S) /\ Len(CarryOn(entries)) = CarryKeep
           /\ \A k \in 1 .. CarryKeep :
                 (CarryOn(entries))[k] = entries[Len(entries) - CarryKeep + k]
  <2>1. CarryKeep \in 1 .. CarryKeep /\ l - CarryKeep + CarryKeep = l /\ CarryKeep > 0
    BY <1>1, <1>3
  <2>2. (CarryOn(entries))[CarryKeep] = entries[l]
    BY <1>1, <1>3, <2>1
  <2>3. CarryOn(entries) # <<>>
    BY <1>3, <2>1, EmptySeq
  <2>4. QED BY <1>1, <1>3, <2>2, <2>3
<1>4. CASE CarryOn(entries) = <<Summarised(entries)>>
  <2>1. \A j \in l + 1 .. l : entries[j].key # entries[l].key
    BY <1>1
  <2>2. entries[l].key \in Keys(entries) /\ ByName(entries)[entries[l].key] = entries[l]
    BY <1>1, <2>1, NotHidden
  <2>3. n \in Summarised(entries).says
    BY <1>1, <2>2 DEF Summarised
  <2> DEFINE sum == Summarised(entries)
  <2>4. n \in sum.says
    BY <2>3
  <2> HIDE DEF sum
  <2>5. <<sum>> # <<>> /\ Len(<<sum>>) = 1 /\ <<sum>>[1] = sum
    OBVIOUS
  <2>6. QED BY <1>4, <2>4, <2>5 DEF sum
<1>5. QED BY <1>2, <1>3, <1>4, CarryOnIs

LEMMA LoneEntry ==
  ASSUME NEW entry
  PROVE  entry.key \in Keys(<<entry>>) /\ ByName(<<entry>>)[entry.key] = entry
<1>1. <<entry>> \in Seq({entry}) /\ Len(<<entry>>) = 1 /\ <<entry>>[1] = entry
  OBVIOUS
<1>2. entry.key \in Keys(<<entry>>)
  BY DEF Keys, Range
<1>3. PICK k \in 1 .. Len(<<entry>>) : ByName(<<entry>>)[entry.key] = <<entry>>[k]
  <2> HIDE DEF ByName
  <2>1. PICK c \in Seq({entry}) : c = <<entry>>
    BY <1>1
  <2>2. entry.key \in Keys(c)
    BY <1>2, <2>1
  <2>3. \E k \in 1 .. Len(c) : ByName(c)[entry.key] = c[k]
    BY <2>2, ByNameIs
  <2>4. QED BY <2>1, <2>3, Zenon
<1>4. k = 1
  BY <1>1
<1>5. QED BY <1>1, <1>2, <1>3, <1>4

\* An entry is heard after all, but for a later one of its name and for recency.
LEMMA CarryOnKeeps ==
  ASSUME NEW S, NEW entries \in Seq(S), NEW i \in 1 .. Len(entries)
  PROVE  \/ \E j \in i + 1 .. Len(entries) : entries[j].key = entries[i].key
         \/ team.carry = "recency" /\ i < Len(entries) + 1 - CarryKeep
         \/ \E name \in Keys(CarryOn(entries)) :
               entries[i].says \subseteq ByName(CarryOn(entries))[name].says
<1> SUFFICES ASSUME \A j \in i + 1 .. Len(entries) : entries[j].key # entries[i].key,
                    ~(team.carry = "recency" /\ i < Len(entries) + 1 - CarryKeep)
             PROVE  \E name \in Keys(CarryOn(entries)) :
                       entries[i].says \subseteq ByName(CarryOn(entries))[name].says
  OBVIOUS
<1>1. PICK n \in Nat : n = Len(entries) /\ CarryKeep \in Nat
  BY ContextsAssumption
<1>2. entries[i].key \in Keys(entries) /\ ByName(entries)[entries[i].key] = entries[i]
  BY NotHidden
<1>3. CASE CarryOn(entries) = entries
  BY <1>2, <1>3
<1>4. CASE /\ team.carry = "recency" /\ CarryKeep \in 1 .. Len(entries)
           /\ CarryOn(entries) \in Seq(S) /\ Len(CarryOn(entries)) = CarryKeep
           /\ \A k \in 1 .. CarryKeep :
                 (CarryOn(entries))[k] = entries[Len(entries) - CarryKeep + k]
  <2> DEFINE c == CarryOn(entries)
             at == i - (n - CarryKeep)
  <2>1. at \in 1 .. CarryKeep /\ n - CarryKeep + at = i
    BY <1>1, <1>4
  <2>2. c[at] = entries[i]
    BY <1>1, <1>4, <2>1
  <2>3. \A j \in at + 1 .. CarryKeep :
            /\ j \in 1 .. CarryKeep /\ c[j] = entries[n - CarryKeep + j]
            /\ n - CarryKeep + j \in i + 1 .. n
    BY <1>1, <1>4, <2>1
  <2>4. c \in Seq(S) /\ Len(c) = CarryKeep
    BY <1>4
  <2> HIDE DEF c, at
  <2>5. \A j \in at + 1 .. Len(c) : c[j].key # c[at].key
    BY <1>1, <2>2, <2>3, <2>4
  <2>6. c[at].key \in Keys(c) /\ ByName(c)[c[at].key] = c[at]
    BY <2>1, <2>4, <2>5, NotHidden
  <2>7. QED BY <2>2, <2>6 DEF c
<1>5. CASE CarryOn(entries) = <<Summarised(entries)>>
  <2> DEFINE sum == Summarised(entries)
  <2>1. entries[i].says \subseteq sum.says
    BY <1>2 DEF Summarised
  <2> HIDE DEF sum
  <2>2. sum.key \in Keys(<<sum>>) /\ ByName(<<sum>>)[sum.key] = sum
    BY LoneEntry
  <2>3. QED BY <1>5, <2>1, <2>2 DEF sum
<1>6. QED BY <1>3, <1>4, <1>5, CarryOnIs

SaidLast ==
    team.coordination = "sequential" /\ asked > 0 =>
        context # <<>> /\ asked \in context[Len(context)].says

DelegatesKept ==
    team.coordination = "lead" /\ asked < Len(team.roles) =>
        /\ Len(context) = asked
        /\ \A i \in 1 .. asked : context[i].key = team.roles[i] /\ i \in context[i].says

TeamInv ==
    /\ team \in Teams /\ asked \in Nat /\ context \in Seq(Range(context))
    /\ TaintOf(context) /\ SaidLast /\ DelegatesKept /\ TeamIsHeard

LEMMA TeamStarts == ContextsInit => TeamInv
<1> SUFFICES ASSUME ContextsInit PROVE TeamInv
  OBVIOUS
<1>1. team \in Teams /\ context = <<>> /\ asked = 0
  BY DEF ContextsInit
<1>2. Len(context) = 0 /\ context \in Seq(Range(context))
  BY <1>1
<1>3. TaintOf(context)
  BY <1>2 DEF TaintOf
<1>4. SaidLast /\ DelegatesKept
  BY <1>1, <1>2 DEF SaidLast, DelegatesKept
<1>5. TeamIsHeard
  BY <1>1 DEF TeamIsHeard
<1>6. QED BY <1>1, <1>2, <1>3, <1>4, <1>5 DEF TeamInv

LEMMA ListOfItsOwn ==
  ASSUME NEW S, NEW s \in Seq(S) PROVE s \in Seq(Range(s))
BY DEF Range

LEMMA RolesListed == TeamInv => Len(team.roles) \in Nat
BY ContextsAssumption DEF TeamInv

\* What an agent makes of tainted things is tainted.
LEMMA ResultTainted ==
  ASSUME NEW S, NEW entries \in Seq(S), TaintOf(entries), NEW key, NEW upstream,
         Tainted(entries) => upstream,
         ResultOf(Given(entries), key, upstream).of # {}
  PROVE  ResultOf(Given(entries), key, upstream).tainted
<1> DEFINE given == Given(entries)
<1>1. DOMAIN given = team.inputs \cup Keys(entries)
  BY DEF Given
<1>2. PICK name \in DOMAIN given : given[name].of # {}
  BY DEF ResultOf
<1>3. CASE name \in Keys(entries)
  <2>1. given[name] = ByName(entries)[name]
    BY <1>1, <1>3 DEF Given
  <2>2. PICK k \in 1 .. Len(entries) : ByName(entries)[name] = entries[k]
    BY <1>3, ByNameIs
  <2>3. entries[k].tainted /\ entries[k] \in Range(entries)
    BY <1>2, <2>1, <2>2 DEF TaintOf, Range
  <2>4. upstream
    BY <2>3 DEF Tainted
  <2>5. QED BY <2>4 DEF ResultOf
<1>4. CASE name \notin Keys(entries)
  <2>1. given[name].of = {name} \ StaticNames
    BY <1>1, <1>2, <1>4 DEF Given
  <2>2. name \in FluidNames(DOMAIN given)
    BY <1>2, <2>1 DEF FluidNames
  <2> HIDE DEF given
  <2>3. ResultOf(given, key, upstream).tainted
    BY <2>2 DEF ResultOf
  <2>4. QED BY <2>3 DEF given
<1>5. QED BY <1>3, <1>4

\* One more entry
LEMMA Appended ==
  ASSUME context \in Seq(Range(context)), TaintOf(context), NEW entry,
         entry.of # {} => entry.tainted
  PROVE  /\ Append(context, entry) \in Seq(Range(context) \cup {entry})
         /\ Append(context, entry) # <<>> /\ TaintOf(Append(context, entry))
         /\ Len(Append(context, entry)) = Len(context) + 1
         /\ Append(context, entry)[Len(context) + 1] = entry
         /\ \A i \in 1 .. Len(context) : Append(context, entry)[i] = context[i]
<1> DEFINE S == Range(context) \cup {entry}
           longer == Append(context, entry)
<1>1. context \in Seq(S) /\ entry \in S /\ Len(context) \in Nat
  OBVIOUS
<1>2. /\ longer \in Seq(S) /\ longer # <<>> /\ Len(longer) = Len(context) + 1
      /\ \A i \in 1 .. Len(context) : longer[i] = context[i]
      /\ longer[Len(context) + 1] = entry
  <2> HIDE DEF S
  <2>1. QED BY <1>1, AppendProperties
<1>3. TaintOf(longer)
  <2> HIDE DEF longer
  <2>1. \A k \in 1 .. Len(longer) : k \in 1 .. Len(context) \/ k = Len(context) + 1
    BY <1>1, <1>2
  <2>2. QED BY <1>2, <2>1 DEF TaintOf
<1>4. QED BY <1>2, <1>3

LEMMA NextInLineKeeps == TeamInv /\ NextInLine => TeamInv'
<1> SUFFICES ASSUME TeamInv, NextInLine PROVE TeamInv'
  OBVIOUS
<1> DEFINE result == ResultOf(Given(context), "prior_result", Tainted(context))
           longer == Append(context, result)
<1>1. /\ team.coordination = "sequential" /\ team' = team /\ asked' = asked + 1
      /\ received' = Given(context) /\ context' = CarryOn(longer)
  BY DEF NextInLine
<1>2. asked \in Nat /\ context \in Seq(Range(context)) /\ TaintOf(context) /\ team \in Teams
  BY DEF TeamInv
<1>3. result.of # {} => result.tainted
  BY <1>2, ResultTainted
<1>4. asked + 1 \in result.says
  BY DEF ResultOf
<1>5. /\ longer \in Seq(Range(context) \cup {result}) /\ longer # <<>> /\ TaintOf(longer)
      /\ Len(longer) = Len(context) + 1 /\ longer[Len(context) + 1] = result
  <2> HIDE DEF result
  <2>1. QED BY <1>2, <1>3, Appended
<1>6. asked + 1 \in longer[Len(longer)].says
  BY <1>4, <1>5
<1> HIDE DEF longer, result
<1>7. TaintOf(CarryOn(longer)) /\ \E T : CarryOn(longer) \in Seq(T)
  BY <1>5, CarryOnTaints
<1>8. /\ CarryOn(longer) # <<>>
      /\ asked + 1 \in (CarryOn(longer))[Len(CarryOn(longer))].says
  BY <1>5, <1>6, CarryOnEnds
<1>9. TaintOf(context') /\ context' \in Seq(Range(context')) /\ SaidLast'
  <2>1. PICK c : c = CarryOn(longer)
    OBVIOUS
  <2>2. c \in Seq(Range(c))
    BY <1>7, <2>1, ListOfItsOwn
  <2>3. context' = c
    BY <1>1, <2>1
  <2>4. TaintOf(context') /\ context' \in Seq(Range(context'))
    BY <1>7, <2>1, <2>2, <2>3
  <2>5. SaidLast'
    BY <1>1, <1>8, <2>1, <2>3 DEF SaidLast
  <2>6. QED BY <2>4, <2>5
<1>10. DelegatesKept'
  BY <1>1 DEF DelegatesKept
<1>11. TeamIsHeard'
  <2> SUFFICES ASSUME asked + 1 > 1 PROVE asked \in Heard'
    BY <1>1, <1>2 DEF TeamIsHeard
  <2>1. PICK l \in Nat : l = Len(context) /\ l > 0 /\ asked \in context[l].says
    BY <1>1, <1>2, EmptySeq DEF TeamInv, SaidLast
  <2>2. \A j \in l + 1 .. l : context[j].key # context[l].key
    BY <2>1
  <2>3. context[l].key \in Keys(context) /\ ByName(context)[context[l].key] = context[l]
    BY <1>2, <2>1, <2>2, NotHidden
  <2>4. context[l].key \in DOMAIN received' /\ received'[context[l].key] = context[l]
    BY <1>1, <2>3 DEF Given
  <2>5. QED BY <2>1, <2>4 DEF Heard
<1>12. QED BY <1>1, <1>2, <1>9, <1>10, <1>11 DEF TeamInv

LEMMA NextDelegateKeeps == TeamInv /\ NextDelegate => TeamInv'
<1> SUFFICES ASSUME TeamInv, NextDelegate PROVE TeamInv'
  OBVIOUS
<1> DEFINE result == ResultOf(Given(<<>>), team.roles[asked + 1], FALSE)
<1>1. /\ team.coordination = "lead" /\ asked < Len(team.roles) - 1
      /\ team' = team /\ asked' = asked + 1 /\ context' = Append(context, result)
  BY DEF NextDelegate
<1>2. asked \in Nat /\ context \in Seq(Range(context)) /\ TaintOf(context) /\ team \in Teams
      /\ Len(team.roles) \in Nat
  BY RolesListed DEF TeamInv
<1>3. result.of # {} => result.tainted
  <2>1. <<>> \in Seq({}) /\ TaintOf(<<>>) /\ ~Tainted(<<>>)
    BY DEF TaintOf, Tainted, Range
  <2>2. QED BY <2>1, ResultTainted
<1>4. asked + 1 \in result.says /\ result.key = team.roles[asked + 1]
  BY DEF ResultOf
<1> HIDE DEF result
<1>5. /\ context' \in Seq(Range(context) \cup {result}) /\ TaintOf(context')
      /\ Len(context') = Len(context) + 1 /\ context'[Len(context) + 1] = result
      /\ \A i \in 1 .. Len(context) : context'[i] = context[i]
  BY <1>1, <1>2, <1>3, Appended
<1>6. context' \in Seq(Range(context'))
  BY <1>5, ListOfItsOwn
<1>7. DelegatesKept'
  <2>1. /\ Len(context) = asked
        /\ \A i \in 1 .. asked : context[i].key = team.roles[i] /\ i \in context[i].says
    BY <1>1, <1>2 DEF TeamInv, DelegatesKept
  <2>2. \A i \in 1 .. asked + 1 : i \in 1 .. asked \/ i = asked + 1
    BY <1>2
  <2>3. \A i \in 1 .. asked + 1 : context'[i].key = team.roles[i] /\ i \in context'[i].says
    BY <1>4, <1>5, <2>1, <2>2
  <2>4. QED BY <1>1, <1>5, <2>1, <2>3 DEF DelegatesKept
<1>8. SaidLast' /\ TeamIsHeard'
  BY <1>1, <1>2 DEF SaidLast, TeamIsHeard
<1>9. QED BY <1>1, <1>2, <1>5, <1>6, <1>7, <1>8 DEF TeamInv

LEMMA LeadCombinesKeeps == TeamInv /\ LeadCombines => TeamInv'
<1> SUFFICES ASSUME TeamInv, LeadCombines PROVE TeamInv'
  OBVIOUS
<1>1. /\ team.coordination = "lead" /\ asked = Len(team.roles) - 1
      /\ team' = team /\ asked' = asked + 1 /\ context' = CarryOn(context)
      /\ received' = Given(CarryOn(context))
  BY DEF LeadCombines
<1>2. asked \in Nat /\ context \in Seq(Range(context)) /\ TaintOf(context) /\ team \in Teams
      /\ Len(team.roles) \in Nat
  BY RolesListed DEF TeamInv
<1>3. TaintOf(CarryOn(context)) /\ \E T : CarryOn(context) \in Seq(T)
  BY <1>2, CarryOnTaints
<1>4. TaintOf(context') /\ context' \in Seq(Range(context'))
  <2>1. PICK c : c = CarryOn(context)
    OBVIOUS
  <2>2. c \in Seq(Range(c))
    BY <1>3, <2>1, ListOfItsOwn
  <2>3. context' = c
    BY <1>1, <2>1
  <2>4. QED BY <1>3, <2>1, <2>2, <2>3
<1>5. SaidLast' /\ DelegatesKept'
  BY <1>1, <1>2 DEF SaidLast, DelegatesKept
<1>6. /\ Len(context) = asked
      /\ \A i \in 1 .. asked : context[i].key = team.roles[i] /\ i \in context[i].says
  BY <1>1, <1>2 DEF TeamInv, DelegatesKept
<1>7. ASSUME NEW i \in 1 .. asked
      PROVE  \/ i \in Heard'
             \/ \E j \in i + 1 .. asked : team.roles[j] = team.roles[i]
             \/ team.carry = "recency" /\ i < asked + 1 - CarryKeep
  <2>1. \/ \E j \in i + 1 .. asked : context[j].key = context[i].key
        \/ team.carry = "recency" /\ i < asked + 1 - CarryKeep
        \/ \E name \in Keys(CarryOn(context)) :
              context[i].says \subseteq ByName(CarryOn(context))[name].says
    BY <1>2, <1>6, CarryOnKeeps
  <2>2. ASSUME NEW j \in i + 1 .. asked, context[j].key = context[i].key
        PROVE  team.roles[j] = team.roles[i]
    <3>1. j \in 1 .. asked
      BY <1>2
    <3>2. QED BY <1>6, <2>2, <3>1
  <2>3. ASSUME NEW name \in Keys(CarryOn(context)),
               context[i].says \subseteq ByName(CarryOn(context))[name].says
        PROVE  i \in Heard'
    <3>1. name \in DOMAIN received' /\ received'[name] = ByName(CarryOn(context))[name]
      BY <1>1 DEF Given
    <3>2. i \in received'[name].says
      BY <1>6, <2>3, <3>1
    <3>3. QED BY <3>1, <3>2 DEF Heard
  <2>4. QED BY <2>1, <2>2, <2>3
<1>8. TeamIsHeard'
  <2>1. /\ team'.coordination # "sequential" /\ team' = team
        /\ asked' - 1 = asked /\ asked' = asked + 1
    BY <1>1, <1>2
  <2>2. \A i \in 1 .. asked' - 1 :
            \/ i \in Heard'
            \/ \E j \in i + 1 .. asked' - 1 : team'.roles[j] = team'.roles[i]
            \/ team'.carry = "recency" /\ i < asked' - CarryKeep
    <3> SUFFICES ASSUME NEW i \in 1 .. asked' - 1, i \notin Heard',
                        ~(team'.carry = "recency" /\ i < asked' - CarryKeep)
                 PROVE  \E j \in i + 1 .. asked' - 1 : team'.roles[j] = team'.roles[i]
      OBVIOUS
    <3>1. i \in 1 .. asked
      BY <2>1
    <3>2. ~(team.carry = "recency" /\ i < asked + 1 - CarryKeep)
      BY <1>2, <2>1, ContextsAssumption
    <3>3. PICK j \in i + 1 .. asked : team.roles[j] = team.roles[i]
      BY <1>7, <3>1, <3>2
    <3>4. QED BY <2>1, <3>3
  <2>3. QED BY <2>1, <2>2 DEF TeamIsHeard
<1>9. QED BY <1>1, <1>2, <1>4, <1>5, <1>8 DEF TeamInv

LEMMA TeamStep == TeamInv /\ [ContextsNext]_contextsVars => TeamInv'
<1> SUFFICES ASSUME TeamInv, [ContextsNext]_contextsVars PROVE TeamInv'
  OBVIOUS
<1>1. CASE UNCHANGED teamVars
  <2>1. team' = team /\ context' = context /\ asked' = asked /\ received' = received
    BY <1>1 DEF teamVars
  <2>2. SaidLast' /\ DelegatesKept' /\ TeamIsHeard'
    BY <2>1 DEF TeamInv, SaidLast, DelegatesKept, TeamIsHeard, Heard
  <2>3. QED BY <2>1, <2>2 DEF TeamInv
<1>2. CASE NextInLine \/ NextDelegate \/ LeadCombines
  BY <1>2, NextInLineKeeps, NextDelegateKeeps, LeadCombinesKeeps
<1>3. QED BY <1>1, <1>2 DEF ContextsNext, TranscriptNext, TeamNext, contextsVars

LEMMA RecentIs ==
  ASSUME NEW list \in Seq(Turns), NEW n \in 1 .. Len(list)
  PROVE  /\ Recent(list, n) \in Seq(Turns) /\ Len(Recent(list, n)) = n
         /\ \A i \in 1 .. n : Recent(list, n)[i] = list[Len(list) - (n - i)]
<1>1. PICK l \in Nat : l = Len(list) /\ n \in Nat /\ n > 0 /\ n <= l
  OBVIOUS
<1>2. CASE n = l
  <2>1. Recent(list, n) = list
    BY <1>1, <1>2 DEF Recent
  <2>2. \A i \in 1 .. n : l - (n - i) = i
    BY <1>1, <1>2
  <2>3. QED BY <1>1, <1>2, <2>1, <2>2
<1>3. CASE n < l
  <2>1. Recent(list, n) = SubSeq(list, (l - n) + 1, l)
    BY <1>1, <1>3 DEF Recent
  <2>2. l - n \in 0 .. l /\ l - (l - n) = n /\ \A i \in 1 .. n : (l - n) + i = l - (n - i)
    BY <1>1
  <2>3. LET cut == SubSeq(list, (l - n) + 1, Len(list)) IN
           /\ cut \in Seq(Turns) /\ Len(cut) = Len(list) - (l - n)
           /\ \A k \in 1 .. Len(list) - (l - n) : cut[k] = list[(l - n) + k]
    BY <1>1, <2>2, CutIs
  <2>4. QED BY <1>1, <2>1, <2>2, <2>3
<1>4. QED BY <1>1, <1>2, <1>3

LEMMA ContextsAreKept == TranscriptInv /\ TeamInv => ContextIsKept
<1> SUFFICES ASSUME TranscriptInv, TeamInv PROVE ContextIsKept
  OBVIOUS
<1>1. /\ transcript \in Seq(Turns) /\ said \in Seq(Turns) /\ style \in Styles
      /\ DOMAIN transcript = 1 .. Len(transcript) /\ DOMAIN said = 1 .. Len(said)
      /\ Len(transcript) \in Nat /\ Len(said) \in Nat
  BY DEF TranscriptInv, TranscriptTyped
<1>2. TranscriptIsFaithful
  <2>1. \A turn \in Range(transcript) : (\E i \in turn.holds : said[i].fluid) => turn.fluid
    BY <1>1 DEF TranscriptInv, FluidKept, Range
  <2>2. \A i, j \in DOMAIN transcript : i < j =>
          \A a \in transcript[i].holds, b \in transcript[j].holds : a < b
    BY <1>1 DEF TranscriptInv, OrderKept
  <2>3. ASSUME style.name # "max_tokens" PROVE Standing = DOMAIN said
    <3>1. \A a \in 1 .. Len(said) : a \in Standing
      BY <1>1, <2>3 DEF TranscriptInv, TurnsStand, Standing, Range
    <3>2. \A a \in Standing : a \in 1 .. Len(said)
      BY <1>1 DEF TranscriptInv, FluidKept, Standing, Range
    <3>3. QED BY <1>1, <3>1, <3>2
  <2>4. QED BY <2>1, <2>2, <2>3 DEF TranscriptIsFaithful
<1>3. RecentIsVerbatim
  <2>1. LeastKept \in Nat
    BY <1>1, ContextsAssumption DEF LeastKept
  <2> DEFINE n == IF Len(said) < LeastKept THEN Len(said) ELSE LeastKept
  <2>2. n \in Nat /\ n <= Len(said) /\ n <= LeastKept
    BY <1>1, <2>1
  <2>3. ASSUME n > 0 PROVE Len(transcript) >= n /\ Recent(transcript, n) = Recent(said, n)
    <3> HIDE DEF n
    <3>1. \A k \in 0 .. n - 1 :
            k < Len(transcript) /\ transcript[Len(transcript) - k] = said[Len(said) - k]
      BY <1>1, <2>1, <2>2 DEF TranscriptInv, RecentKept
    <3>2. n - 1 \in 0 .. n - 1
      BY <2>2, <2>3
    <3>3. n <= Len(transcript)
      BY <1>1, <2>2, <3>1, <3>2
    <3>4. n \in 1 .. Len(transcript) /\ n \in 1 .. Len(said)
      BY <1>1, <2>2, <2>3, <3>3
    <3>5. \A i \in 1 .. n : n - i \in 0 .. n - 1
      BY <2>2
    <3>6. \A i \in 1 .. n : Recent(transcript, n)[i] = Recent(said, n)[i]
      BY <1>1, <3>1, <3>4, <3>5, RecentIs
    <3>7. /\ Recent(transcript, n) \in Seq(Turns) /\ Len(Recent(transcript, n)) = n
          /\ Recent(said, n) \in Seq(Turns) /\ Len(Recent(said, n)) = n
      BY <1>1, <3>4, RecentIs
    <3>8. QED BY <3>3, <3>6, <3>7, SeqEqual
  <2>4. QED BY <2>3 DEF RecentIsVerbatim, LeastKept
<1>4. TaintFollows
  BY DEF TeamInv, TaintOf, TaintFollows, Range
<1>5. QED BY <1>2, <1>3, <1>4 DEF TeamInv, ContextIsKept

(* Whatever the strategy and however often it compacts, whoever is in a team     *)
(* and whatever it carries: a transcript stands for every turn, in order, keeps  *)
(* the last ones as they were and its taint, and a team's members are given what *)
(* they should hear, tainted where it derives from what is fluid                 *)
(* (manage_context, run_team).                                                   *)
THEOREM ContextStaysKept == ContextsSpec => []ContextIsKept
BY TranscriptStarts, TranscriptStep, TeamStarts, TeamStep, ContextsAreKept, PTL DEF ContextsSpec
==============================================================================
