----------------------------- MODULE Improvement -----------------------------
(***************************************************************************)
(* A LearningLoop (learning.py): improve tunes a base Definition            *)
(* (tuner.py), and promotes the winner when it passes the stored regression *)
(* baseline (eval.py) and the circuit breaker (anomaly.py); rollback takes  *)
(* an earlier version back.  Several improves run in one process, each      *)
(* stopping at every benchmark; the code after the last benchmark, and a    *)
(* rollback, run to their end unless the process dies between two writes.   *)
(***************************************************************************)
EXTENDS Integers, Sequences, FiniteSets, FiniteSetsExt, Functions

CONSTANTS Improvers,   \* calls of improve or rollback
          Versions, Metrics,
          ScoresOf,    \* what a benchmark may measure of a version
          CostOf,      \* estimate_cost of a version
          Proposals,   \* candidates a mutator makes of a base, in order
          TuneModes,   \* how tune accepts a candidate
          QualityFloor,
          Tolerance,
          MaxTrials, TrialCost, TuneLimit,
          BreakerMax   \* promotions a run may make

ASSUME ImprovementAssumption ==
    /\ ScoresOf \in [Versions -> SUBSET [Metrics -> Nat]]
    /\ CostOf \in [Versions -> Nat] /\ Proposals \in [Versions -> Seq(Versions)]
    /\ TuneModes \subseteq {"quality", "pareto", "linear", "epsilon", "linear_pareto"}
    /\ {QualityFloor, Tolerance, TrialCost, TuneLimit, BreakerMax} \subseteq Nat
    /\ MaxTrials \in Nat \ {0}

VARIABLES lineage,    \* VersionRecord rows, by sha
          baseline,   \* eval_baseline: a set of at most one score vector
          improver,   \* local variables of each call
          busy,       \* the calls that have begun to write and not ended: at most one
          ctx,        \* RunContext of this life of the process
          torn        \* ghost: a death came between the writes of a call, none has ended since

improvementVars == <<lineage, baseline, improver, busy, ctx, torn>>

NoScores == <<>>      \* {}: what tune returns of a base it did not score
Unset == "unset"
----------------------------------------------------------------------------
(* Comparing scores                                                         *)

ScoreIn(scores, m) == IF m \in DOMAIN scores THEN scores[m] ELSE 0

\* compare: a metric absent from a side counts 0
Delta(a, b, m) == ScoreIn(b, m) - ScoreIn(a, m)

IsRegression(a, b) == \E m \in Metrics : Delta(a, b, m) < -Tolerance

Quality(scores) == MapThenSumSet(LAMBDA m : scores[m], DOMAIN scores)
ASSUME QualityAssumption == \A v \in Versions : \A s \in ScoresOf[v] : Quality(s) \in Int

\* Objective.value: quality less cost, or least cost with a floor on quality
Value(mode, scores, cost) ==
    IF mode = "epsilon" THEN -cost - (IF Quality(scores) < QualityFloor THEN 1000 ELSE 0)
    ELSE Quality(scores) - cost

Dominates(qa, ca, qb, cb) == qa >= qb /\ ca <= cb /\ (qa > qb \/ ca < cb)

\* clean against the base, and better than the best so far in the sense of the mode
Accepted(mode, base, best, bestCost, scores, cost) ==
    /\ ~IsRegression(base, scores)
    /\ CASE mode = "quality" ->
                /\ \E m \in Metrics : Delta(best, scores, m) > 0
                /\ \A m \in Metrics : Delta(best, scores, m) >= -Tolerance
         [] mode = "pareto" -> Dominates(Quality(scores), cost, Quality(best), bestCost)
         [] OTHER ->
                /\ Value(mode, scores, cost) > Value(mode, best, bestCost)
                /\ mode = "linear_pareto" =>
                        ~Dominates(Quality(best), bestCost, Quality(scores), cost)

\* the frontier after one more clean trial
FrontWith(front, entry) ==
    LET kept == {f \in front : ~Dominates(entry.quality, entry.cost, f.quality, f.cost)}
    IN  IF \E f \in kept : Dominates(f.quality, f.cost, entry.quality, entry.cost)
        THEN kept ELSE kept \cup {entry}
----------------------------------------------------------------------------
(* The process                                                              *)

Idle == [pc |-> "new", kind |-> "none", base |-> Unset, mode |-> "quality", index |-> 0,
         baseScores |-> NoScores, best |-> Unset, bestScores |-> NoScores, improved |-> FALSE,
         front |-> {}, trials |-> {}, stop |-> "none", reason |-> "none", active |-> Unset]

FreshContext == [spent |-> 0, limit |-> TuneLimit, cancelled |-> FALSE, promoted |-> 0]

ImprovementInit ==
    /\ lineage = <<>> /\ baseline = {}
    /\ improver = [c \in Improvers |-> Idle]
    /\ busy = {} /\ ctx = FreshContext /\ torn = FALSE

ActiveRows == {v \in DOMAIN lineage : lineage[v].active}

\* _ceiling_breached
Remaining == Max({0, ctx.limit - ctx.spent})
Ceiling ==
    IF ctx.cancelled THEN "cancelled"
    ELSE IF Remaining = 0 \/ Remaining < TrialCost THEN "budget" ELSE "none"

SetImprover(c, l) == improver' = [improver EXCEPT ![c] = l]

\* A call that is over, and what is left of it
Over(l, pc, reason, active) ==
    [Idle EXCEPT !.pc = pc, !.kind = l.kind, !.base = l.base, !.reason = reason, !.active = active]
----------------------------------------------------------------------------
(* Tuner.tune                                                               *)

\* an exhausted context returns the base unscored
BeginImprove(c) ==
    /\ improver[c].pc = "new" /\ busy = {}
    /\ \E v \in Versions, mode \in TuneModes :
        LET l == [Idle EXCEPT !.kind = "improve", !.base = v, !.best = v, !.mode = mode]
        IN  IF Ceiling = "none"
            THEN SetImprover(c, [l EXCEPT !.pc = "score_base"]) /\ UNCHANGED busy
            ELSE SetImprover(c, [l EXCEPT !.pc = "base", !.stop = Ceiling]) /\ busy' = {c}
    /\ UNCHANGED <<lineage, baseline, ctx, torn>>

\* From one benchmark to the next: the next candidate is charged and sent to be scored,
\* or the search is over, and what follows is not interleaved with other calls.
GoOnTuning(c, l) ==
    LET stop == IF l.index >= Len(Proposals[l.base]) THEN "exhausted"
                ELSE IF l.index >= MaxTrials THEN "max_trials" ELSE Ceiling
    IN  IF stop = "none"
        THEN /\ SetImprover(c, [l EXCEPT !.pc = "score"])
             /\ ctx' = [ctx EXCEPT !.spent = ctx.spent + TrialCost]
             /\ UNCHANGED busy
        ELSE /\ SetImprover(c, [l EXCEPT !.pc = "base", !.stop = stop])
             /\ busy' = {c}
             /\ UNCHANGED ctx

BaseScored(c) ==
    /\ improver[c].pc = "score_base" /\ busy = {}
    /\ \E s \in ScoresOf[improver[c].base] :
            GoOnTuning(c, [improver[c] EXCEPT !.baseScores = s, !.bestScores = s])
    /\ UNCHANGED <<lineage, baseline, torn>>

TrialScored(c) ==
    /\ improver[c].pc = "score" /\ busy = {}
    /\ LET l == improver[c]
           v == Proposals[l.base][l.index + 1]
       IN  \E s \in ScoresOf[v] :
            LET clean == ~IsRegression(l.baseScores, s)
                entry == [index |-> l.index, quality |-> Quality(s), cost |-> CostOf[v]]
                pareto == l.mode \in {"pareto", "linear_pareto"}
                tried == [l EXCEPT !.index = l.index + 1,
                                   !.trials = IF clean /\ pareto THEN l.trials \cup {entry}
                                              ELSE l.trials,
                                   !.front = IF clean /\ pareto THEN FrontWith(l.front, entry)
                                             ELSE l.front]
            IN  IF Accepted(l.mode, l.baseScores, l.bestScores, CostOf[l.best], s, CostOf[v])
                THEN GoOnTuning(c, [tried EXCEPT !.best = v, !.bestScores = s, !.improved = TRUE])
                ELSE GoOnTuning(c, tried)
    /\ UNCHANGED <<lineage, baseline, torn>>

\* A benchmark fails, or breaches the budget: nothing has been written
BenchmarkRaises(c) ==
    /\ improver[c].pc \in {"score_base", "score"} /\ busy = {}
    /\ \E spent \in 0 .. 1 : ctx' = [ctx EXCEPT !.spent = ctx.spent + spent]
    /\ SetImprover(c, Over(improver[c], "raised", "none", Unset))
    /\ UNCHANGED <<lineage, baseline, busy, torn>>
----------------------------------------------------------------------------
(* LearningLoop.improve after the search                                    *)

Row(scores, role, parent, active) ==
    [scores |-> scores, role |-> role, parent |-> parent, active |-> active]

PutRow(v, row) == lineage' = [w \in DOMAIN lineage \cup {v} |-> IF w = v THEN row ELSE lineage[w]]

Goto(c, pc) == SetImprover(c, [improver[c] EXCEPT !.pc = pc])

RecordBase(c) ==
    /\ improver[c].pc = "base"
    /\ LET l == improver[c]
       IN  IF l.base \in DOMAIN lineage THEN UNCHANGED lineage
           ELSE PutRow(l.base, Row(l.baseScores, "base", Unset, ActiveRows = {}))
    /\ Goto(c, "seed")
    /\ UNCHANGED <<baseline, busy, ctx, torn>>

SeedBaseline(c) ==
    /\ improver[c].pc = "seed"
    /\ baseline' = IF baseline = {} THEN {improver[c].baseScores} ELSE baseline
    /\ Goto(c, "decide")
    /\ UNCHANGED <<lineage, busy, ctx, torn>>

\* _not_promoted: the active version, or the winner when none is active
NotPromoted(c, reason) ==
    /\ \E active \in IF ActiveRows = {} THEN {improver[c].best} ELSE ActiveRows :
            SetImprover(c, Over(improver[c], "done", reason, active))
    /\ busy' = {}
    /\ UNCHANGED <<lineage, baseline, torn>>

GateOnBase(c) == IsRegression(improver[c].baseScores, improver[c].bestScores)
    \* mutated: gated against the base it was tuned from

\* gate_against_baseline, read after the search
Gated(c) == \E b \in baseline : IsRegression(b, improver[c].bestScores)

\* The breaker cancels the token and puts the ceiling below the spend when it fires
Decide(c) ==
    /\ improver[c].pc = "decide"
    /\ LET l == improver[c]
       IN  \/ ~l.improved /\ NotPromoted(c, l.stop) /\ UNCHANGED ctx
           \/ l.improved /\ Gated(c) /\ NotPromoted(c, "gated") /\ UNCHANGED ctx
           \/ /\ l.improved /\ ~Gated(c) /\ ctx.promoted >= BreakerMax
              /\ NotPromoted(c, "halted")
              /\ ctx' = [ctx EXCEPT !.cancelled = TRUE, !.limit = ctx.spent - 1]
           \/ /\ l.improved /\ ~Gated(c) /\ ctx.promoted < BreakerMax
              /\ PutRow(l.best, Row(l.bestScores, "promoted", l.base, FALSE))
              /\ Goto(c, "flip")
              /\ UNCHANGED <<baseline, busy, ctx, torn>>

\* _set_active rewrites the rows that are wrong, one by one
FlipRow(c) ==
    /\ improver[c].pc = "flip"
    /\ \E v \in DOMAIN lineage :
        /\ lineage[v].active # (v = improver[c].best)
        /\ PutRow(v, [lineage[v] EXCEPT !.active = ~lineage[v].active])
    /\ UNCHANGED <<baseline, improver, busy, ctx, torn>>

KeepBaseline(c) == baseline   \* mutated: the version changes and the baseline stays

ScoresInForce(c) == {lineage[improver[c].best].scores}

AdvanceBaseline(c) ==
    /\ improver[c].pc = "flip" /\ ActiveRows = {improver[c].best}
    /\ baseline' = ScoresInForce(c)
    /\ torn' = FALSE
    /\ Goto(c, "audit")
    /\ UNCHANGED <<lineage, busy, ctx>>

\* A rollback's audit is written under a run of its own, where no breaker reads it
Audit(c) ==
    /\ improver[c].pc = "audit"
    /\ SetImprover(c, Over(improver[c], "done",
                           IF improver[c].kind = "improve" THEN "promoted" ELSE "rolled_back",
                           improver[c].best))
    /\ busy' = {}
    /\ ctx' = IF improver[c].kind = "improve" THEN [ctx EXCEPT !.promoted = ctx.promoted + 1]
              ELSE ctx
    /\ UNCHANGED <<lineage, baseline, torn>>

\* rollback of a version of the lineage
Rollback(c) ==
    /\ improver[c].pc = "new" /\ busy = {}
    /\ \E v \in DOMAIN lineage :
            SetImprover(c, [Idle EXCEPT !.pc = "flip", !.kind = "rollback", !.best = v])
    /\ busy' = {c}
    /\ UNCHANGED <<lineage, baseline, ctx, torn>>
----------------------------------------------------------------------------
(* The environment                                                          *)

CancelContext ==
    /\ busy = {} /\ ~ctx.cancelled
    /\ ctx' = [ctx EXCEPT !.cancelled = TRUE]
    /\ UNCHANGED <<lineage, baseline, improver, busy, torn>>

\* The process dies and is started again, with a new context
ProcessDies ==
    /\ \E c \in Improvers : improver[c].pc \notin {"new", "dead", "done", "raised"}
    /\ improver' = [c \in Improvers |->
                        IF improver[c].pc \in {"new", "done", "raised"} THEN improver[c]
                        ELSE [Idle EXCEPT !.pc = "dead"]]
    /\ torn' = (torn \/ \E c \in busy : improver[c].pc # "audit")
    /\ busy' = {} /\ ctx' = FreshContext
    /\ UNCHANGED <<lineage, baseline>>

ImprovementNext ==
    \/ \E c \in Improvers :
        \/ BeginImprove(c) \/ BaseScored(c) \/ TrialScored(c) \/ BenchmarkRaises(c)
        \/ RecordBase(c) \/ SeedBaseline(c) \/ Decide(c) \/ FlipRow(c)
        \/ AdvanceBaseline(c) \/ Audit(c) \/ Rollback(c)
    \/ CancelContext \/ ProcessDies

ImprovementSpec == ImprovementInit /\ [][ImprovementNext]_improvementVars
----------------------------------------------------------------------------
(* Properties                                                               *)

\* The baseline goes down, beyond the tolerance, only in a rollback: a promotion of one
\* call is never a regression against what another has promoted while it was tuning.
BaselineStands ==
    \A c \in busy, b \in baseline :
        improver[c].kind = "improve" => \A new \in baseline' : ~IsRegression(b, new)

\* Between calls one version is active and the baseline is its scores, unless a death came
\* between their writes; the next promotion or rollback then makes them agree again.
BaselineTracksActive ==
    busy = {} /\ ~torn /\ lineage # <<>> =>
        /\ Cardinality(ActiveRows) = 1
        /\ baseline = {lineage[v].scores : v \in ActiveRows}

\* The frontier a search reports is exactly its clean trials that no other dominates.
FrontExact ==
    \A c \in Improvers :
        improver[c].front = {t \in improver[c].trials :
            \A u \in improver[c].trials : ~Dominates(u.quality, u.cost, t.quality, t.cost)}

\* What the learning loop goes by next is true: the baseline is the active version's, and
\* the frontier of a search is exact.
ImprovementIsExact == BaselineTracksActive /\ FrontExact

(* Claims of the documentation that do not hold (README, 5).                *)

\* A promoted version is no worse than the version that was active.
GateSeesActive ==
    [][\A c \in busy :
            improver[c].pc = "flip" /\ improver'[c].pc = "audit" /\ improver[c].kind = "improve"
                => baseline # {NoScores}]_improvementVars

\* A cycle that does not promote names the version that was active, or its base.
OutcomeActive ==
    \A c \in Improvers :
        improver[c].kind = "improve" /\ improver[c].pc = "done" /\ improver[c].reason # "promoted" =>
            improver[c].active = improver[c].base \/ improver[c].active \in DOMAIN lineage
=============================================================================
