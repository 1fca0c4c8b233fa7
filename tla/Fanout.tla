------------------------------- MODULE Fanout -------------------------------
(***************************************************************************)
(* crawfish.batch.Batch.run: one Run per item, one after the other or under *)
(* a semaphore; and crawfish.run.Run.execute, the life of one Run: validate *)
(* the input, call the model, validate its output, and repair or retry it   *)
(* as the Run's ValidationAction says.                                      *)
(*                                                                          *)
(* All Runs share one CostBudget and one CancelToken.  Tasks interleave at  *)
(* awaits only: the model call, the repair call and the retry sleep.  The   *)
(* token is a threading.Event that anybody may set at any time, and the     *)
(* task that runs the Batch may itself be cancelled.                        *)
(***************************************************************************)
EXTENDS Integers, Sequences, FiniteSets

CONSTANTS N,            \* fan-out items 1 .. N
          MaxSlots,     \* bound of Batch.concurrency
          Retried,      \* items whose Run.on_invalid is ValidationAction.RETRY
          Repaired,     \* and REPAIR; the others are dead letters (run_factory may set it)
          MaxAttempts,  \* RetryPolicy.max_attempts
          Limit,        \* CostBudget.limit_usd
          MaxCost       \* the most one model call can cost

ASSUME FanoutAssumption ==
    /\ N \in Nat
    /\ MaxSlots \in Nat \ {0}
    /\ Retried \subseteq 1 .. N /\ Repaired \subseteq (1 .. N) \ Retried
    /\ MaxAttempts \in Nat \ {0}
    /\ Limit \in Nat /\ MaxCost \in Nat

VARIABLES slots,       \* Batch.concurrency
          keepGoing,   \* Batch.continue_on_error
          task,        \* where the task of an item is, or how it ended
          attempt,     \* its attempt in run_with_retry
          row,         \* "run" row of its Run
          runs,        \* Batch.runs: the items whose Run exists, in order
          spent,       \* CostBudget.spent_usd
          token,       \* the CancelToken is set
          phase,       \* "running", then "returned" or "raised"
          outputs      \* the items whose Outputs Batch.run returned

config == <<slots, keepGoing>>
vars == <<config, task, attempt, row, runs, spent, token, phase, outputs>>

Items == 1 .. N
Active == {"call", "repair", "backoff"}
Raised == {"failed", "blown", "cancelled", "unmade"}   \* the task ended with an exception
Ended == Raised \cup {"ok", "dropped"}
----------------------------------------------------------------------------
TypeOK ==
    /\ slots \in 1 .. MaxSlots /\ keepGoing \in BOOLEAN
    /\ task \in [Items -> {"ready"} \cup Active \cup Ended]
    /\ attempt \in [Items -> 1 .. MaxAttempts]
    /\ row \in [Items -> {"none", "running", "done", "failed"}]
    /\ runs \in Seq(Items) /\ outputs \subseteq Items
    /\ spent \in Nat /\ token \in BOOLEAN
    /\ phase \in {"running", "returned", "raised"}

Init ==
    /\ slots \in 1 .. MaxSlots /\ keepGoing \in BOOLEAN
    /\ task = [i \in Items |-> "ready"]
    /\ attempt = [i \in Items |-> 1]
    /\ row = [i \in Items |-> "none"]
    /\ runs = <<>> /\ outputs = {}
    /\ spent = 0 /\ token = FALSE /\ phase = "running"

Parallel == slots > 1

----------------------------------------------------------------------------
(* The life of a Run                                                        *)

\* a Run ends: its row is persisted, its task returns or raises
EndRun(i, how, status) ==
    /\ task' = [task EXCEPT ![i] = how]
    /\ row' = [row EXCEPT ![i] = status]

GoOn(i, where) ==
    /\ task' = [task EXCEPT ![i] = where]
    /\ UNCHANGED row

\* raise_if_cancelled, in the driver and at the start of every model call
CallAllowed == ~token

CanRetry(i) == attempt[i] < MaxAttempts

\* a failed attempt of a Run with ValidationAction.RETRY
RetryOrFail(i) ==
    IF CanRetry(i) THEN GoOn(i, "backoff") ELSE EndRun(i, "failed", "failed")

\* the output does not match the schema
Invalid(i, nowSpent) ==
    CASE i \in Retried -> RetryOrFail(i)
      [] /\ i \in Repaired /\ task[i] = "call"
         /\ CallAllowed /\ nowSpent < Limit -> GoOn(i, "repair")
      [] OTHER -> EndRun(i, "failed", "failed")

\* CostBudget.charge raised BudgetExceeded
OverBudget(i) == EndRun(i, "blown", "failed")

\* the model answered: charge, then validate
Answer(i) ==
    /\ task[i] \in {"call", "repair"}
    /\ \E c \in 0 .. MaxCost :
          /\ spent' = spent + c
          /\ \/ spent + c > Limit /\ OverBudget(i)
             \/ spent + c <= Limit /\ EndRun(i, "ok", "done")
             \/ spent + c <= Limit /\ Invalid(i, spent + c)
    /\ UNCHANGED <<config, attempt, runs, token, phase, outputs>>

\* the call raised before it was metered
CallFails(i) ==
    /\ task[i] \in {"call", "repair"}
    /\ IF i \in Retried THEN RetryOrFail(i) ELSE EndRun(i, "failed", "failed")
    /\ UNCHANGED <<config, attempt, runs, spent, token, phase, outputs>>

\* the retry sleep is over
Wake(i) ==
    /\ task[i] = "backoff"
    /\ attempt' = [attempt EXCEPT ![i] = @ + 1]
    /\ IF CallAllowed THEN GoOn(i, "call") ELSE EndRun(i, "failed", "failed")
    /\ UNCHANGED <<config, runs, spent, token, phase, outputs>>

----------------------------------------------------------------------------
(* The fan-out                                                              *)

HoldsSlotUntilOk(i) == task[i] \notin {"ready", "ok"}   \* mutated: an exception keeps it

HoldsSlot(i) == task[i] \in Active

AnyReady(i) == task[i] = "ready"   \* mutated: the semaphore is not fair

\* the loop, and asyncio.Semaphore, take the items in order
NextReady(i) == task[i] = "ready" /\ \A j \in 1 .. i - 1 : task[j] # "ready"

\* the sequential loop goes on after an exception only with continue_on_error
LoopStopped ==
    /\ ~Parallel
    /\ \E i \in Items : \/ task[i] = "cancelled"
                        \/ task[i] \in Raised /\ ~keepGoing

\* _guarded and _run_one up to the first await
Start(i) ==
    /\ phase = "running" /\ ~LoopStopped
    /\ NextReady(i)
    /\ Cardinality({j \in Items : HoldsSlot(j)}) < slots
    /\ \/ /\ ~CallAllowed
          /\ GoOn(i, "cancelled")          \* before there is a Run
          /\ UNCHANGED runs
       \/ /\ CallAllowed
          /\ GoOn(i, "unmade")             \* the caller's run_factory raises
          /\ UNCHANGED runs
       \/ /\ CallAllowed
          /\ runs' = Append(runs, i)
          /\ \/ GoOn(i, "failed")          \* validate: the input does not bind
             \/ EndRun(i, "call", "running")
    /\ UNCHANGED <<config, attempt, spent, token, phase, outputs>>

AllEnded == \A i \in Items : task[i] \in Ended

\* gather returned or the loop ended; a breach now sets the token
Collect ==
    /\ phase = "running"
    /\ AllEnded \/ LoopStopped
    /\ token' = (token \/ (Parallel /\ \E i \in Items : task[i] = "blown"))
    /\ IF LoopStopped \/ (~keepGoing /\ \E i \in Items : task[i] \in Raised)
         THEN phase' = "raised" /\ UNCHANGED outputs
         ELSE phase' = "returned" /\ outputs' = {i \in Items : task[i] = "ok"}
    /\ UNCHANGED <<config, task, attempt, row, runs, spent>>

\* the task of Batch.run is cancelled: CancelledError, no Exception, passes
\* every handler of Run.execute at its await
Interrupt ==
    /\ phase = "running"
    /\ phase' = "raised"
    /\ task' = [i \in Items |-> IF task[i] \in Active THEN "dropped" ELSE task[i]]
    /\ UNCHANGED <<config, attempt, row, runs, spent, token, outputs>>

Cancel ==
    /\ phase = "running" /\ ~token
    /\ token' = TRUE
    /\ UNCHANGED <<config, task, attempt, row, runs, spent, phase, outputs>>

Step(i) == Start(i) \/ Answer(i) \/ CallFails(i) \/ Wake(i)

Next == Collect \/ Interrupt \/ Cancel \/ \E i \in Items : Step(i)

Spec == Init /\ [][Next]_vars

\* The event loop resumes every ready task; model calls and sleeps end.
FairSpec == Spec /\ WF_vars(Collect) /\ \A i \in Items : WF_vars(Step(i))
----------------------------------------------------------------------------
(* Properties                                                               *)

\* The ceiling can be passed, but only by one call of each Run it ended
\* (batch.py, "the shared CostBudget is still enforced across all runs").
SpendBounded ==
    spent <= Limit + MaxCost * Cardinality({i \in Items : task[i] = "blown"})

\* When Batch.run is over no Run is still at work, and no row says RUNNING
\* except where the batch itself was interrupted.
RunsSettled ==
    phase # "running" =>
        \A i \in Items : /\ task[i] \notin Active
                         /\ row[i] = "running" => task[i] = "dropped"

\* What is returned is what is DONE in the store; without continue_on_error
\* that is every item or nothing.
AllOrNothing ==
    phase = "returned" => /\ outputs = {i \in Items : row[i] = "done"}
                          /\ keepGoing \/ outputs = Items

Unmade(k) == \E i \in Items : i <= k /\ task[i] = "unmade"

\* detect_anomalies pairs tasks with runs by position: the k-th Run is the
\* k-th item's, whatever the tasks that failed, ended early or never started,
\* up to the first item whose run_factory raised.
AnomaliesPointRight == \A k \in 1 .. Len(runs) : runs[k] = k \/ Unmade(k)

\* What a batch leaves behind adds up: rows, Outputs and anomalies of the same items.
BatchAccounts == SpendBounded /\ RunsSettled /\ AllOrNothing /\ AnomaliesPointRight

\* Batch.run always returns or raises: no item waits for a slot for ever.
BatchEnds == phase = "running" ~> phase # "running"

(* Claims of the documentation that do not hold (README, 5).                *)

\* "Surface failed runs as anomalies" (batch.py:223), each with its task: a Run that
\* a run_factory did not make leaves no gap in the list its task is paired with.
EveryAnomalyPointsRight == \A k \in 1 .. Len(runs) : runs[k] = k

\* "a breach cancels the rest": past the ceiling no further call begins.
BreachStopsTheRest ==
    [][spent > Limit =>
          \A i \in Items : task'[i] \in {"call", "repair"} => task[i] = task'[i]]_vars
=============================================================================
