------------------------------ MODULE Observer ------------------------------
(***************************************************************************)
(* crawfish.observer: an Observer polls the run_info of one pipeline on a   *)
(* schedule, judges it by its rules, and lets a judge, which takes time,    *)
(* have a look at it.  watch_loop is CronLoop's loop with an evaluation for *)
(* a cycle; without a schedule it is CronLoop's interval of a minute.  The  *)
(* rows of run_info are crawfish.observe's, written by the supervisor when  *)
(* a cycle begins and when it ends; a cycle that dies leaves its row as is. *)
(***************************************************************************)
EXTENDS CronLoop, FiniteSets, Sequences

CONSTANTS MaxRuns,      \* bound: runs of the pipeline
          RunCost,      \* what a run is known to have cost once it has ended
          FailAbove,    \* FailureRateAbove: percent, and its window in ticks
          FailWindow,
          SpendLimit,   \* CostSpike: the amount, and its window
          SpendWindow,
          StuckFor,     \* StuckRun: ticks
          Lookback,     \* how far back the observer reads at all
          JudgeTicks,   \* bound: ticks a judge may take
          ObserverEnd   \* bound: tick at which watching ends

ASSUME ObserverAssumption ==
    {MaxRuns, RunCost, FailAbove, FailWindow, SpendLimit, SpendWindow, StuckFor, Lookback,
     JudgeTicks, ObserverEnd} \subseteq Nat

VARIABLES runInfo,   \* run_info records, in the order the runs began
          findings   \* observer events: [kind, ts]

observerVars == <<runInfo, findings, cronVars>>

EveryMinute == [kind |-> "cron", on |-> 0 .. Period - 1]

ObserverInit ==
    /\ CronInit /\ schedule = EveryMinute /\ clock = 0
    /\ runInfo = <<>> /\ findings = {}
----------------------------------------------------------------------------
(* The runs                                                                 *)

RunBegins ==
    /\ Len(runInfo) < MaxRuns
    /\ runInfo' = Append(runInfo, [status |-> "running", started |-> clock, finished |-> {}])
    /\ UNCHANGED <<findings, cronVars>>

RunEndsAs(r, status) ==
    /\ runInfo[r].status = "running"
    /\ runInfo' = [runInfo EXCEPT ![r] =
          [@ EXCEPT !.status = status, !.finished = {clock}]]
    /\ UNCHANGED <<findings, cronVars>>
----------------------------------------------------------------------------
(* The rules, over the records as they are at t                             *)

Since(runs, threshold) == {r \in runs : runInfo[r].started >= threshold}

\* ObserverContext: what the observer looked up at all
Context(t) == Since(DOMAIN runInfo, t - Lookback)

RunsSince(t, window) == Since(Context(t), t - window)

FailureRateFires(t) ==
    LET ended == {r \in RunsSince(t, FailWindow) : runInfo[r].finished # {}}
        failed == {r \in ended : runInfo[r].status = "failed"}
    IN ended # {} /\ 100 * Cardinality(failed) > FailAbove * Cardinality(ended)

\* the sum of what the runs have cost: RunCost each once it has ended, nought until then
CostSpikeFires(t) ==
    RunCost * Cardinality({r \in RunsSince(t, SpendWindow) : runInfo[r].finished # {}})
        >= SpendLimit

StuckRuns(t) ==
    {r \in Context(t) :
        /\ runInfo[r].status = "running" /\ runInfo[r].finished = {}
        /\ t - runInfo[r].started > StuckFor}

StuckOnce(t) ==   \* mutated: a finding of the same kind is enough
    IF StuckRuns(t) # {} /\ ~\E f \in findings : f.kind = "run.stuck"
    THEN {[kind |-> "run.stuck", ts |-> t]} ELSE {}

StuckFinding(t) == IF StuckRuns(t) # {} THEN {[kind |-> "run.stuck", ts |-> t]} ELSE {}

Evaluate(t) ==
    (IF FailureRateFires(t) THEN {[kind |-> "failure.rate", ts |-> t]} ELSE {})
    \cup (IF CostSpikeFires(t) THEN {[kind |-> "cost.spike", ts |-> t]} ELSE {})
    \cup StuckFinding(t)
----------------------------------------------------------------------------
(* watch_loop                                                               *)

\* the rules are evaluated on one reading and their findings emitted at once
Poll == Fire /\ findings' = findings \cup Evaluate(clock) /\ UNCHANGED runInfo

\* then the judge, if there is one, on the same reading; what it finds is an event that
\* nothing here reads; its budget or its runtime may raise out of the loop
JudgeDone == CycleOver /\ UNCHANGED <<runInfo, findings>>

JudgeRaises ==
    /\ cronPc = "cycle" /\ cronPc' = "raised"
    /\ UNCHANGED <<runInfo, findings, schedule, clock, now, until, fired, busy, slack>>

ObserverNext ==
    \/ RunBegins \/ \E r \in DOMAIN runInfo, s \in {"done", "failed"} : RunEndsAs(r, s)
    \/ Poll \/ JudgeDone \/ JudgeRaises
    \/ (NotDue \/ SleepOver) /\ UNCHANGED <<runInfo, findings>>
    \/ /\ clock < ObserverEnd
       /\ clock < IF cronPc = "cycle" THEN now + JudgeTicks ELSE until
       /\ Tick /\ UNCHANGED <<runInfo, findings>>

ObserverSpec == ObserverInit /\ [][ObserverNext]_observerVars
----------------------------------------------------------------------------
(* Properties                                                               *)

Found(kind, from, to) == \E f \in findings : f.kind = kind /\ f.ts \in from .. to
EndedBy(r, t) == \E e \in runInfo[r].finished : e <= t
Failed(r) == runInfo[r].status = "failed"

StartOf(m) == m * Minute
EndOf(m) == StartOf(m) + Minute - 1

\* What lasts through minute m: the runs in a window of every reading in it, those stuck, and
\* of those that have ended the failed and the costly.
Lasting(m, window) == Since(Since(DOMAIN runInfo, EndOf(m) - Lookback), EndOf(m) - window)

StuckIn(m) ==
    {r \in Lasting(m, Lookback) :
        runInfo[r].started + StuckFor < StartOf(m) /\ ~EndedBy(r, EndOf(m))}

FailedIn(m) == {r \in Lasting(m, FailWindow) : EndedBy(r, StartOf(m) - 1) /\ Failed(r)}

CostlyIn(m) == {r \in Lasting(m, SpendWindow) : EndedBy(r, StartOf(m) - 1)}

\* the runs that some reading in it may count against the failed
OthersIn(m) ==
    {r \in Since(DOMAIN runInfo, StartOf(m) - FailWindow) : EndedBy(r, EndOf(m)) /\ ~Failed(r)}

\* Trouble that lasts through a scheduled minute is found in it: a run stuck, too many of
\* the runs of the window failed, or their cost at the limit.
FoundInMinute(m) ==
    /\ StuckIn(m) # {} => Found("run.stuck", StartOf(m), EndOf(m))
    /\ 100 * Cardinality(FailedIn(m)) > FailAbove * Cardinality(FailedIn(m) \cup OthersIn(m))
          => Found("failure.rate", StartOf(m), EndOf(m))
    /\ RunCost * Cardinality(CostlyIn(m)) >= SpendLimit
          => Found("cost.spike", StartOf(m), EndOf(m))

\* and what is found was there
FoundForCause(f) ==
    CASE f.kind = "run.stuck" ->
           \E r \in DOMAIN runInfo : runInfo[r].started + StuckFor < f.ts /\ ~EndedBy(r, f.ts - 1)
      [] f.kind = "failure.rate" -> \E r \in DOMAIN runInfo : EndedBy(r, f.ts) /\ Failed(r)
      [] f.kind = "cost.spike" ->
           RunCost * Cardinality({r \in DOMAIN runInfo : EndedBy(r, f.ts)}) >= SpendLimit
      [] OTHER -> TRUE

\* While the judge is quick and does not raise, no trouble is missed, and never is an
\* alarm false.
TroubleIsFound ==
    /\ schedule.kind = "cron" /\ cronPc # "raised" /\ Lost + MinSleep <= Minute
          => \A m \in Scheduled \cap Past : FoundInMinute(m)
    /\ \A f \in findings : FoundForCause(f)

(* Claims of the documentation that do not hold (README, 5).                *)

\* "total spend in a recent window crossed a dollar threshold" (docs/reference/observer.md:22):
\* a run counts by when it began, so the cost of one that outlasts the window never does.
SpendIsSeen ==
    schedule.kind = "cron" /\ cronPc # "raised" /\ Lost + MinSleep <= Minute =>
        \A m \in Scheduled \cap Past :
            LET spent == {r \in DOMAIN runInfo : \E e \in runInfo[r].finished :
                             e >= EndOf(m) - SpendWindow /\ e < StartOf(m)}
            IN RunCost * Cardinality(spent) >= SpendLimit
                  => Found("cost.spike", StartOf(m), EndOf(m))

\* StuckRun "scans all runs (not windowed)" (docs/reference/observer.md:91): not those that
\* began before the lookback of the observer.
StuckForEver ==
    schedule.kind = "cron" /\ cronPc # "raised" /\ Lost + MinSleep <= Minute =>
        \A m \in Scheduled \cap Past, r \in DOMAIN runInfo :
            runInfo[r].started + StuckFor < StartOf(m) /\ runInfo[r].status = "running"
                => Found("run.stuck", StartOf(m), EndOf(m))
=============================================================================
