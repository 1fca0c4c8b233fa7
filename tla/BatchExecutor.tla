--------------------------- MODULE BatchExecutor ---------------------------
(***************************************************************************)
(* crawfish.executor.BatchExecutor: a fixed pool of worker coroutines       *)
(* drains a work queue of items; each item is one Run driven through        *)
(* run_with_retry; the shared CostBudget is a hard kill; an item that       *)
(* exhausts its attempts is dead-lettered; progress goes to the ledger.     *)
(*                                                                          *)
(* The coroutines of one event loop interleave only at awaits: the model    *)
(* call (pc = "call") and the backoff sleep (pc = "backoff").  An action is *)
(* the code from one await to the next.  Between calls of run / replay the  *)
(* store and the CostBudget object survive, the rest is rebuilt.            *)
(***************************************************************************)
EXTENDS Integers, FiniteSets

CONSTANTS Items,        \* indices of the fan-out items (a set of naturals)
          Workers,      \* the max_concurrency workers of the pool
          MaxAttempts,  \* RetryPolicy.max_attempts
          Limit,        \* CostBudget.limit_usd, in units of cost
          MaxCost,      \* the most one model call can cost
          MaxRuns       \* bound: how many times the caller runs or replays

ASSUME ExecutorAssumption ==
    /\ Items \subseteq Nat /\ IsFiniteSet(Items)
    /\ IsFiniteSet(Workers) /\ Workers # {}
    /\ MaxAttempts \in Nat \ {0}
    /\ Limit \in Nat /\ MaxCost \in Nat /\ MaxRuns \in Nat

VARIABLES pending,     \* the asyncio.Queue; it holds items in index order
          pc,          \* where each worker coroutine is suspended
          item,        \* the item a worker is processing
          attempt,     \* its 1-based attempt in run_with_retry
          spent,       \* CostBudget.spent_usd
          cancelled,   \* the CancelToken
          killed,      \* the kill list is not empty
          results,     \* results dict of the running call
          itemLedger,  \* ledger_item rows
          dead,        \* dead_letter rows
          pipeline,    \* ledger_pipeline status
          phase,       \* "idle" between calls, "running" inside one
          worklist,    \* the items this call of run was asked for
          runs         \* calls of run / replay made so far

vars == <<pending, pc, item, attempt, spent, cancelled, killed, results,
          itemLedger, dead, pipeline, phase, worklist, runs>>

NoItem == -1
----------------------------------------------------------------------------
TypeOK ==
    /\ pending \subseteq Items /\ worklist \subseteq Items /\ dead \subseteq Items
    /\ pc \in [Workers -> {"free", "call", "backoff", "exit", "killed"}]
    /\ item \in [Workers -> Items \cup {NoItem}]
    /\ attempt \in [Workers -> 1 .. MaxAttempts]
    /\ spent \in Nat
    /\ cancelled \in BOOLEAN /\ killed \in BOOLEAN
    /\ results \in [Items -> {"none", "ok", "dead"}]
    /\ itemLedger \in [Items -> {"none", "done", "failed"}]
    /\ pipeline \in {"none", "running", "done", "failed"}
    /\ phase \in {"idle", "running"}
    /\ runs \in 0 .. MaxRuns

Init ==
    /\ pending = {} /\ worklist = {} /\ dead = {}
    /\ pc = [w \in Workers |-> "exit"]
    /\ item = [w \in Workers |-> NoItem]
    /\ attempt = [w \in Workers |-> 1]
    /\ spent = 0 /\ cancelled = FALSE /\ killed = FALSE
    /\ results = [i \in Items |-> "none"]
    /\ itemLedger = [i \in Items |-> "none"]
    /\ pipeline = "none" /\ phase = "idle" /\ runs = 0

CompletedItems == {i \in Items : itemLedger[i] = "done"}

----------------------------------------------------------------------------
(* run: start_pipeline, fill the queue, start the pool.                     *)
StartRun(only) ==
    /\ phase = "idle" /\ runs < MaxRuns
    /\ phase' = "running" /\ runs' = runs + 1
    /\ pipeline' = "running"
    /\ pending' = only /\ worklist' = only
    /\ pc' = [w \in Workers |-> "free"]
    /\ results' = [i \in Items |-> "none"]
    /\ killed' = FALSE
    /\ \/ UNCHANGED <<spent, cancelled>>         \* the same RunContext
       \/ spent' = 0 /\ cancelled' = FALSE       \* a fresh one
    /\ UNCHANGED <<item, attempt, itemLedger>>

\* batch run over every item
RunAll == StartRun(Items) /\ UNCHANGED dead

\* run(only_items = what the ledger does not have as done)
Resume == StartRun(Items \ CompletedItems) /\ UNCHANGED dead

\* replay: the dead letters are the work list and are deleted before the run
Replay == StartRun(dead) /\ dead' = {}

----------------------------------------------------------------------------
(* One item failed for good: dead_letter, mark_item(FAILED), ItemResult DEAD *)
DeadLetterUnrecorded(i) ==   \* mutated: put_dead_letter forgotten
    /\ itemLedger' = [itemLedger EXCEPT ![i] = "failed"]
    /\ results' = [results EXCEPT ![i] = "dead"]
    /\ UNCHANGED dead

DeadLetter(i) ==
    /\ dead' = dead \cup {i}
    /\ itemLedger' = [itemLedger EXCEPT ![i] = "failed"]
    /\ results' = [results EXCEPT ![i] = "dead"]

NextInQueue(i) == i \in pending /\ \A j \in pending : i <= j

DequeueByPeek(i) == UNCHANGED pending   \* mutated: looks, does not remove

Dequeue(i) == pending' = pending \ {i}

\* the runtime's raise_if_cancelled at the start of a call
CallAllowedAlways == TRUE   \* mutated: the check is missing

CallAllowed == ~cancelled

\* get_nowait and the first attempt, up to the await of the model call
Take(w) ==
    /\ pc[w] = "free"
    /\ \E i \in pending :
          /\ NextInQueue(i)
          /\ Dequeue(i)
          /\ item' = [item EXCEPT ![w] = i]
          /\ attempt' = [attempt EXCEPT ![w] = 1]
          /\ \/ /\ CallAllowed
                /\ pc' = [pc EXCEPT ![w] = "call"]
                /\ UNCHANGED <<dead, itemLedger, results>>
             \/ /\ ~CallAllowed  \* Cancelled is an Exception like any other here
                /\ DeadLetter(i)
                /\ UNCHANGED pc
    /\ UNCHANGED <<spent, cancelled, killed, pipeline, phase, worklist, runs>>

CanRetry(w) == attempt[w] < MaxAttempts

\* the attempt failed with a retryable exception
AttemptFailed(w) ==
    \/ /\ CanRetry(w)
       /\ pc' = [pc EXCEPT ![w] = "backoff"]
       /\ UNCHANGED <<dead, itemLedger, results>>
    \/ /\ ~CanRetry(w)
       /\ pc' = [pc EXCEPT ![w] = "free"]
       /\ DeadLetter(item[w])

\* the attempt raised before it was metered (binding, transport, tool errors)
CallFails(w) ==
    /\ pc[w] = "call"
    /\ AttemptFailed(w)
    /\ UNCHANGED <<pending, item, attempt, spent, cancelled, killed, pipeline,
                   phase, worklist, runs>>

\* BudgetExceeded: the worker drains the queue and stops
HardKillRetried(w) ==   \* mutated: treated like any other failure
    /\ AttemptFailed(w)
    /\ UNCHANGED <<pending, killed>>

HardKill(w) ==
    /\ pc' = [pc EXCEPT ![w] = "killed"]
    /\ killed' = TRUE
    /\ pending' = {}
    /\ UNCHANGED <<dead, itemLedger, results>>

\* the call was answered: charge, then validate the output
CallReturns(w) ==
    /\ pc[w] = "call"
    /\ \E c \in 0 .. MaxCost :
          /\ spent' = spent + c
          /\ \/ /\ spent + c <= Limit  \* a valid output
                /\ pc' = [pc EXCEPT ![w] = "free"]
                /\ itemLedger' = [itemLedger EXCEPT ![item[w]] = "done"]
                /\ results' = [results EXCEPT ![item[w]] = "ok"]
                /\ UNCHANGED <<pending, killed, dead>>
             \/ /\ spent + c <= Limit  \* OutputValidationError
                /\ AttemptFailed(w)
                /\ UNCHANGED <<pending, killed>>
             \/ /\ spent + c > Limit   \* BudgetExceeded
                /\ HardKill(w)
    /\ UNCHANGED <<item, attempt, cancelled, pipeline, phase, worklist, runs>>

\* the backoff sleep is over: next attempt
Wake(w) ==
    /\ pc[w] = "backoff"
    /\ attempt' = [attempt EXCEPT ![w] = attempt[w] + 1]
    /\ \/ /\ CallAllowed
          /\ pc' = [pc EXCEPT ![w] = "call"]
          /\ UNCHANGED <<dead, itemLedger, results>>
       \/ /\ ~CallAllowed
          /\ pc' = [pc EXCEPT ![w] = "free"]
          /\ DeadLetter(item[w])
    /\ UNCHANGED <<pending, item, spent, cancelled, killed, pipeline, phase,
                   worklist, runs>>

\* QueueEmpty
Exit(w) ==
    /\ pc[w] = "free" /\ pending = {}
    /\ pc' = [pc EXCEPT ![w] = "exit"]
    /\ UNCHANGED <<pending, item, attempt, spent, cancelled, killed, results,
                   itemLedger, dead, pipeline, phase, worklist, runs>>

PoolExitedOnly == \A w \in Workers : pc[w] = "exit"   \* mutated: misses killed workers

PoolDone == \A w \in Workers : pc[w] \in {"exit", "killed"}

AlwaysDone == "done"   \* mutated: the kill list is not consulted

FinalStatus == IF killed THEN "failed" ELSE "done"

\* gather returned: finish_pipeline, then return or raise
Finish ==
    /\ phase = "running"
    /\ PoolDone
    /\ pipeline' = FinalStatus
    /\ phase' = "idle"
    /\ UNCHANGED <<pending, pc, item, attempt, spent, cancelled, killed, results,
                   itemLedger, dead, worklist, runs>>

\* somebody holding the token cancels
Cancel ==
    /\ phase = "running" /\ ~cancelled
    /\ cancelled' = TRUE
    /\ UNCHANGED <<pending, pc, item, attempt, spent, killed, results,
                   itemLedger, dead, pipeline, phase, worklist, runs>>

Step(w) == Take(w) \/ CallFails(w) \/ CallReturns(w) \/ Wake(w) \/ Exit(w)

Next ==
    \/ RunAll \/ Resume \/ Replay
    \/ \E w \in Workers : Step(w)
    \/ Finish \/ Cancel

Spec == Init /\ [][Next]_vars

\* The event loop resumes every ready coroutine; model calls and sleeps end.
FairSpec == Spec /\ (\A w \in Workers : WF_vars(Step(w))) /\ WF_vars(Finish)
----------------------------------------------------------------------------
(* Properties                                                               *)

\* The ceiling is checked after the spend, so it can be passed, but never by
\* more than one call per worker and run (executor.py, "hard-kill").
SpendBounded == spent <= Limit + MaxCost * Cardinality(Workers) * runs

Busy(w) == pc[w] \in {"call", "backoff"}

\* An item is in one place only: no two workers process it, and while one does
\* it is not queued and has no result yet.
InFlightExclusive ==
    \A w \in Workers : Busy(w) =>
        /\ item[w] \in worklist \ pending
        /\ results[item[w]] = "none"
        /\ \A v \in Workers \ {w} : Busy(v) => item[v] # item[w]

\* What run returns and what it left in the store tell the same story: an OK
\* result is DONE in the ledger, a DEAD one is FAILED there and dead-lettered.
LedgerAgrees ==
    \A i \in Items :
        /\ results[i] = "ok" => itemLedger[i] = "done"
        /\ results[i] = "dead" => itemLedger[i] = "failed" /\ (phase = "running" => i \in dead)

\* Every item is in one place, and every record of it says the same.
ItemsAccounted == InFlightExclusive /\ LedgerAgrees

\* Once the token is cancelled no model call begins, not even a retry.
CancelStopsCalls ==
    [][cancelled /\ cancelled' =>
          \A w \in Workers : pc'[w] = "call" => pc[w] = "call"]_vars

\* Every call of run returns or raises: nothing waits for ever.
RunEnds == phase = "running" ~> phase = "idle"

(* What the caller may rely on, stated in module BatchContract. *)
Contract == INSTANCE BatchContract WITH outcome <- results, work <- worklist,
                                        status <- pipeline
ImplementsContract == Contract!Spec

\* What a run leaves FAILED can be replayed, unless it was killed: every such item
\* it was asked for is a dead letter when run has returned.
ReplayableUnlessKilled ==
    phase = "idle" /\ ~killed => \A i \in worklist : itemLedger[i] = "failed" => i \in dead

(* Claims of the documentation that do not hold (README, 5).                *)

\* An item the ledger holds as FAILED can still be replayed when nothing runs.
FailedIsReplayable ==
    phase = "idle" => \A i \in Items : itemLedger[i] = "failed" => i \in dead

\* A dead letter is an item that failed, not one that has succeeded since.
DeadLettersFailed == phase = "idle" => \A i \in dead : itemLedger[i] = "failed"
=============================================================================
