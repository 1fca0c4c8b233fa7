-------------------------------- MODULE Demo --------------------------------
(***************************************************************************)
(* demo/triage-bot/self_improve.py, the scenario `craw demo` runs: sweep    *)
(* and gate a temperature, freeze, then loop, refine, calibrate, route,     *)
(* recurse, vote, abstain, distil a guard and decode under a grammar, all   *)
(* on one budget and, live, all but the calibration through one directory   *)
(* of cassettes.  The directory outlives an invocation, the Store does not; *)
(* an invocation may die anywhere, also in the middle of writing a          *)
(* cassette, and be started again.  The steps that call no model (9s, 9v,   *)
(* 9x, 9z) are those of SingleFlight, Resolver, Library, AgentDiff and      *)
(* Wiring.                                                                  *)
(***************************************************************************)
EXTENDS Integers, Sequences, FiniteSets, TLC

CONSTANTS TuneSet, GateSet,  \* the tickets of each half of the split, in order
          Temps,             \* _CANDIDATE_TEMPS, in order
          Hot,               \* the baseline temperature
          LoopBound, RefineMax, AcceptAt, Parts, MaxDepth, QuorumK, CalibrateRuns,
          PerCall,           \* per_call_usd of the chosen model
          Fees,              \* what a call may report as its own cost
          Ceilings,          \* --budget: sets of at most one amount
          Tempers,           \* kinds of call |-> what the model may answer
          MaxInvocations     \* bound: invocations of the demo

ASSUME DemoAssumption ==
    /\ Parts <= MaxDepth /\ QuorumK >= 2 /\ CalibrateRuns >= 2
    /\ Fees \subseteq Nat

VARIABLES mode,     \* "mock" | "record" (--live) | "replay" (live=True, record=False)
          demoStatus,   \* "idle" | "running" | "done" | "dead" | "exceeded" | "miss" | "torn"
                        \* | "refused"
          step,     \* where the scenario stands
          heard,    \* answers to the calls of this step so far
          res,      \* DemoResult, as far as a later step or the verdict reads it
          spent, ceiling, fee,
          tape,     \* the cassettes: key |-> answer
          temper,   \* what the model may answer, of Tempers
          shown,    \* what the first live invocation to finish found: {} or a singleton
          invocations

demoVars ==
    <<mode, demoStatus, step, heard, res, spent, ceiling, fee, tape, temper, shown, invocations>>

Tickets == TuneSet \o GateSet
Torn == "half a file"
Lists(ts) == {ts[i] : i \in DOMAIN ts}
----------------------------------------------------------------------------
(* Step 6: the worst case, of which the ceiling is made                     *)

RepairFactor == 2

WorstCaseWithoutRepairs ==   \* mutated: every call is taken to be right at once
    (Len(Temps) * Len(TuneSet) + 2 * Len(GateSet)) + (CalibrateRuns + Len(Temps)) * Len(Tickets)
    + LoopBound + 2 * RefineMax + Len(Tickets) + MaxDepth + QuorumK + 4

WorstCaseCalls ==
    LET step7 == Len(Temps) * Len(TuneSet) + 2 * Len(GateSet)
        step9t == (CalibrateRuns + Len(Temps)) * Len(Tickets)
        tamed == QuorumK + 1 + 1 + 2
    IN RepairFactor *
          (step7 + step9t + LoopBound + 2 * RefineMax + Len(Tickets) + MaxDepth + tamed)

\* priced at 1.2 times per_call_usd; five times everything, to stay whole
Priced(calls, usd) == calls * usd * 6
Worst == IF mode = "mock" THEN 0 ELSE Priced(WorstCaseCalls, PerCall)
Owed == 5 * spent
Headroom == Owed < ceiling
----------------------------------------------------------------------------
(* A model call                                                             *)

Authored == [frozen |-> FALSE, temp |-> Hot]

Fresh == [version |-> Authored, best |-> Hot, promoted |-> FALSE, sha |-> "", visits |-> {},
          stop |-> "", drafts |-> 0, mark |-> 0, refined |-> 0, resumed |-> 0, missed |-> 0,
          recorded |-> FALSE, verdict |-> "", folded |-> 0, winner |-> "", split |-> 0, sampled |-> 0,
          abstained |-> FALSE, earned |-> FALSE, field |-> ""]

\* the cassette of a triage: the grammar of a call is not part of it
TriageKey(ticket, temp, visit) ==
    [kind |-> "triage", version |-> res.version, ticket |-> ticket, temp |-> temp, at |-> visit]

\* the deterministic responder: what the mock answers
MockAnswer(key) ==
    CASE key.kind = "triage" -> IF key.temp < Hot THEN "right" ELSE "wrong"
      [] key.kind = "verdict" -> IF key.at >= AcceptAt THEN "accept" ELSE "reject"
      [] key.kind = "vote" -> IF key.at = QuorumK THEN "billing" ELSE "bug"
      [] key.kind = "confidence" -> "low"
      [] key.kind = "rule" -> "good"
      [] OTHER -> "text"

\* the invocation is over: of it, only the tape, the demoStatus and the bill remain
Stop(how) == demoStatus' = how /\ step' = "" /\ heard' = <<>> /\ res' = Fresh

Hear(answer, charged, missed, own) ==
    IF 5 * (spent + charged) > ceiling
    THEN Stop("exceeded")
    ELSE /\ heard' = Append(heard, answer)
         /\ res' = [res EXCEPT !.missed = @ + missed,
                               !.recorded = @ \/ (missed = 1 /\ own > 0 /\ step = "refine")]
         /\ UNCHANGED <<demoStatus, step>>

\* one call through the cassettes: replayed for `again`, or made, which the
\* runtime charges before it is recorded and the demo charges `own` after
Consult(key, own, again) ==
    \/ /\ mode = "mock"
       /\ Hear(MockAnswer(key), 0, 0, 0) /\ UNCHANGED <<spent, tape>>
    \/ /\ mode # "mock" /\ key \in DOMAIN tape
       /\ IF tape[key] = Torn
          THEN Stop("torn") /\ UNCHANGED spent
          ELSE Hear(tape[key], again, 0, 0) /\ spent' = spent + again
       /\ UNCHANGED tape
    \/ /\ mode = "replay" /\ key \notin DOMAIN tape
       /\ Stop("miss") /\ UNCHANGED <<spent, tape>>
    \/ /\ mode = "record" /\ key \notin DOMAIN tape
       /\ \E answer \in temper[key.kind] :
             IF 5 * (spent + fee) > ceiling
             THEN spent' = spent + fee /\ Stop("exceeded") /\ UNCHANGED tape
             ELSE \/ /\ tape' = tape @@ (key :> answer)
                     /\ spent' = spent + fee + own
                     /\ Hear(answer, fee + own, 1, own)
                  \/ \* the process dies writing the cassette
                     /\ tape' = tape @@ (key :> Torn)
                     /\ spent' = 0 /\ Stop("dead")

Same == UNCHANGED <<mode, ceiling, fee, temper, shown, invocations>>

\* a step is over: what it found, and the next one
Enter(next, found) ==
    /\ step' = next /\ res' = found /\ heard' = <<>>
    /\ UNCHANGED <<demoStatus, spent, tape>>

At(name) == demoStatus = "running" /\ step = name /\ Same
----------------------------------------------------------------------------
(* An invocation                                                            *)

DemoInit ==
    /\ mode = "mock" /\ demoStatus = "idle" /\ step = "" /\ heard = <<>> /\ res = Fresh
    /\ spent = 0 /\ ceiling = 0 /\ fee \in Fees /\ temper \in Tempers
    /\ tape = <<>> /\ shown = {} /\ invocations = 0

\* without --budget the ceiling is the worst case; with less the run refuses in step 6
Invoke(m, budget) ==
    LET worst == IF m = "mock" THEN 0 ELSE Priced(WorstCaseCalls, PerCall)
        limit == CHOOSE l \in (IF budget # {} THEN {5 * b : b \in budget}
                               ELSE IF m = "mock" THEN {5} ELSE {worst}) : TRUE
    IN /\ demoStatus # "running" /\ invocations < MaxInvocations
       /\ invocations' = invocations + 1 /\ mode' = m /\ ceiling' = limit
       /\ demoStatus' = IF worst > limit THEN "refused" ELSE "running"
       /\ step' = "sweep" /\ heard' = <<>> /\ res' = Fresh /\ spent' = 0
       /\ UNCHANGED <<fee, tape, temper, shown>>

\* the process is killed between two steps of this model
DemoDies == demoStatus = "running" /\ Stop("dead") /\ spent' = 0 /\ Same /\ UNCHANGED tape
----------------------------------------------------------------------------
(* Steps 7 and 8                                                            *)

RightOf(answers) == Cardinality({i \in DOMAIN answers : answers[i] = "right"})

\* the first of the candidates with the best mean
BestTemp ==
    LET n == Len(TuneSet)
        RightAt(t) == RightOf(SubSeq(heard, (t - 1) * n + 1, t * n))
        first == CHOOSE t \in DOMAIN Temps :
                    \A u \in DOMAIN Temps :
                        RightAt(u) <= RightAt(t) /\ (u < t => RightAt(u) < RightAt(t))
    IN Temps[first]

Sweep ==
    /\ At("sweep")
    /\ LET i == Len(heard)
           n == Len(TuneSet)
       IN IF i < Len(Temps) * n
          THEN Consult(TriageKey(TuneSet[(i % n) + 1], Temps[(i \div n) + 1], 0), PerCall, 0)
          ELSE Enter("gate", [res EXCEPT !.best = BestTemp])

\* the paired interval over so few cases is above zero only if every case gained
Promoted ==
    \A i \in DOMAIN GateSet : heard[i] # "right" /\ heard[Len(GateSet) + i] = "right"

\* the promoted temperature is applied to the draft, and the draft is frozen
Gate ==
    /\ At("gate")
    /\ LET i == Len(heard)
           n == Len(GateSet)
       IN IF i < 2 * n
          THEN LET temp == IF i < n THEN Hot ELSE res.best
               IN Consult(TriageKey(GateSet[(i % n) + 1], temp, 0), PerCall, 0)
          ELSE Enter("loop", [res EXCEPT !.promoted = Promoted, !.mark = spent,
                                 !.version = [frozen |-> TRUE,
                                              temp |-> IF Promoted THEN res.best ELSE Hot]])
----------------------------------------------------------------------------
(* Step 9: the loop over one ticket, and again over what the ledger has      *)

Unchanged(shas) == Len(shas) > 1 /\ shas[Len(shas)] = shas[Len(shas) - 1]

Loop ==
    /\ At("loop")
    /\ IF Len(heard) < LoopBound /\ ~Unchanged(heard)
       THEN Consult(TriageKey(Tickets[1], res.best, Len(heard)), PerCall, 0)
       ELSE Enter("loop again", [res EXCEPT !.sha = heard[Len(heard)], !.mark = spent,
                                    !.visits = 0 .. Len(heard) - 1])

\* visits the ledger has are skipped, and none is past the one that converged
LoopAgain ==
    /\ At("loop again")
    /\ LET fixed == Cardinality(res.visits) < LoopBound
           due == {i \in 0 .. LoopBound - 1 : i \notin res.visits /\ ~fixed}
       IN IF due # {}
          THEN Consult(TriageKey(Tickets[1], res.best, CHOOSE i \in due : TRUE), PerCall, 0)
          ELSE Enter("refine", [res EXCEPT !.resumed = spent - res.mark, !.mark = spent])
----------------------------------------------------------------------------
(* Step 9r: a draft and the critic's verdict on it, per iteration            *)

RefineKey(i) ==
    IF i % 2 = 0
    THEN [kind |-> "draft", at |-> i \div 2, prior |-> IF i = 0 THEN "" ELSE heard[i - 1]]
    ELSE [kind |-> "verdict", at |-> i \div 2, draft |-> heard[i]]

Accepted == Len(heard) % 2 = 0 /\ heard # <<>> /\ heard[Len(heard)] = "accept"

\* only the draft is charged by the demo; a drafted iteration needs no headroom
RefineStep(next, found) ==
    IF /\ Len(heard) < 2 * RefineMax /\ ~Accepted
       /\ Len(heard) % 2 = 1 \/ Len(heard) \div 2 < res.drafts \/ Headroom
    THEN Consult(RefineKey(Len(heard)), IF Len(heard) % 2 = 0 THEN PerCall ELSE 0, 0)
    ELSE Enter(next, found)

RefineRun ==
    /\ At("refine")
    /\ RefineStep("refine again",
          [res EXCEPT !.stop = IF Accepted THEN "satisfied"
                               ELSE IF Len(heard) < 2 * RefineMax THEN "exhausted"
                               ELSE "no_progress",
                      !.drafts = Len(heard) \div 2, !.refined = spent - res.mark, !.mark = spent])

RefineAgain ==
    /\ At("refine again")
    /\ RefineStep("calibrate",
          [res EXCEPT !.resumed = @ + (spent - res.mark), !.mark = spent])
----------------------------------------------------------------------------
(* Step 9t: the bare runtime, CalibrateRuns times for each case              *)

Calibrate ==
    /\ At("calibrate")
    /\ IF Len(heard) < CalibrateRuns * Len(Tickets)
       THEN IF mode = "mock"
            THEN Hear("text", 0, 0, 0) /\ UNCHANGED <<spent, tape>>
            ELSE /\ spent' = spent + PerCall + fee /\ UNCHANGED tape
                 /\ Hear("text", PerCall + fee, 0, 0)
       ELSE \E verdict \in IF mode = "mock" THEN {"promote"} ELSE {"promote", "reject"} :
               Enter("router", [res EXCEPT !.verdict = verdict])
----------------------------------------------------------------------------
(* Steps 9c and 9d                                                          *)

Route ==
    /\ At("router")
    /\ IF Len(heard) < Len(Tickets)
       THEN Consult(TriageKey(Tickets[Len(heard) + 1], res.best, 0), PerCall, 0)
       ELSE Enter("recurse", [res EXCEPT !.mark = spent])

\* one level per part; a level is asked with the answer of the one before, and
\* nothing else tells it from another
SubKey(level) == [kind |-> "sub", prior |-> IF level = 0 THEN "" ELSE heard[level]]

RecurseStep(next, found) ==
    IF Len(heard) < MaxDepth /\ Len(heard) < Parts /\ (Len(heard) < res.folded \/ Headroom)
    THEN Consult(SubKey(Len(heard)), 0, 0)
    ELSE Enter(next, found)

Recurse ==
    /\ At("recurse")
    /\ RecurseStep("recurse again", [res EXCEPT !.folded = Len(heard), !.mark = spent])

RecurseAgain ==
    /\ At("recurse again")
    /\ RecurseStep("quorum", [res EXCEPT !.resumed = @ + (spent - res.mark), !.mark = spent])
----------------------------------------------------------------------------
(* Step 9q: every sample is charged by the quorum too, replayed or not       *)

Tally(answer) == Cardinality({i \in DOMAIN heard : heard[i] = answer})

Winner ==
    LET most == {a \in Lists(heard) : \A b \in Lists(heard) : Tally(b) <= Tally(a)}
    IN IF Cardinality(most) = 1 THEN CHOOSE a \in most : TRUE ELSE "bug"

\* the samples counted fresh before sampling: the count looks for cassettes
\* without the seed they are recorded under, and finds none
FreshSamples ==
    {i \in 1 .. QuorumK : [kind |-> "vote", at |-> i, seeded |-> FALSE] \notin DOMAIN tape}

Affordable == IF heard = <<>> \/ fee = 0 THEN Headroom ELSE 5 * (spent + fee) <= ceiling

Quorum ==
    /\ At("quorum")
    /\ IF Len(heard) < QuorumK /\ (Affordable \/ mode = "mock")
       THEN Consult([kind |-> "vote", at |-> Len(heard) + 1, seeded |-> TRUE], fee, fee)
       ELSE LET due == IF mode = "mock" THEN 0 ELSE PerCall * Cardinality(FreshSamples)
            IN /\ spent' = spent + due /\ UNCHANGED tape
               /\ IF 5 * (spent + due) > ceiling
                  THEN Stop("exceeded")
                  ELSE /\ step' = "abstain" /\ heard' = <<>> /\ UNCHANGED demoStatus
                       /\ res' = [res EXCEPT !.winner = Winner, !.sampled = Len(heard),
                                             !.split = Cardinality(Lists(heard))]
----------------------------------------------------------------------------
(* Steps 9a, 9g and 9m                                                      *)

\* no confidence, or one below the threshold of the curve, abstains
Abstain ==
    /\ At("abstain")
    /\ IF heard = <<>>
       THEN Consult([kind |-> "confidence", version |-> res.version], PerCall, 0)
       ELSE Enter("guard", [res EXCEPT !.abstained = heard[1] \in {"none", "low"}])

\* the demo asks whether the call was replayed when it has been recorded: never
\* charged; a proposal that does not parse is replaced by the author's rule
Guard ==
    /\ At("guard")
    /\ IF heard = <<>>
       THEN Consult([kind |-> "rule"], 0, 0)
       ELSE Enter("grammar", [res EXCEPT !.earned = heard[1] \in {"good", "prose"}])

Constrained ==
    /\ At("grammar")
    /\ IF heard = <<>>
       THEN Consult(TriageKey(Tickets[1], 0, 0), PerCall, 0)
       ELSE Enter("sink", [res EXCEPT !.field = "label"])

\* what an invocation showed; the verdict over the live calibration is its own
Evidence(r) ==
    <<r.version, r.best, r.promoted, r.sha, r.visits, r.stop, r.drafts, r.folded, r.winner, r.split,
      r.abstained, r.earned, r.field>>

FireSink ==
    /\ demoStatus = "running" /\ step = "sink"
    /\ res.version.frozen
    /\ demoStatus' = "done"
    /\ shown' = IF mode = "mock" \/ shown # {} THEN shown ELSE {Evidence(res)}
    /\ UNCHANGED <<mode, step, heard, res, spent, ceiling, fee, tape, temper, invocations>>

DemoStep ==
    \/ Sweep \/ Gate \/ Loop \/ LoopAgain \/ RefineRun \/ RefineAgain \/ Calibrate \/ Route
    \/ Recurse \/ RecurseAgain \/ Quorum \/ Abstain \/ Guard \/ Constrained \/ FireSink

DemoNext ==
    \/ DemoStep \/ DemoDies
    \/ \E m \in {"mock", "record", "replay"}, budget \in Ceilings : Invoke(m, budget)
----------------------------------------------------------------------------
(* passed()                                                                 *)

RefineStepOk ==
    /\ res.stop = "satisfied" \/ (mode # "mock" /\ res.stop \in {"no_progress", "exhausted"})
    /\ res.drafts \in 1 .. RefineMax /\ res.resumed = 0
    /\ res.recorded => res.refined > 0
    /\ 5 * res.refined <= Worst

TamingStepOk ==
    /\ res.sampled >= 2 /\ res.split >= IF mode = "mock" THEN 2 ELSE 1
    /\ res.abstained /\ res.earned /\ res.field # ""

Passed ==
    /\ mode = "mock" => res.promoted /\ res.verdict = "promote"
    /\ Worst <= ceiling /\ Owed <= Worst
    /\ res.version.frozen /\ res.sha # "" /\ res.folded = Parts
    /\ RefineStepOk /\ TamingStepOk

(* A demo that gets to its end has passed, however many invocations died     *)
(* before it and wherever: only the model's own confidence or a rule that    *)
(* earns nothing fails it.  While a call costs no more than its price, one    *)
(* on the worst case as its ceiling is never stopped for the budget, and      *)
(* resuming the loops charges nothing (passed, _worst_case_calls).            *)
DemoPasses ==
    /\ demoStatus = "done" =>
          Passed \/ ~res.abstained \/ ~res.earned \/ (mode # "mock" /\ Worst < Owed)
    /\ ceiling = Worst /\ fee <= PerCall => demoStatus # "exceeded"
    /\ res.resumed = 0

(* Two live invocations that finish have found the same, whatever the first   *)
(* left on the tape for the second and whichever of them recorded it, but for *)
(* the verdict over the calibration, which is always live                     *)
(* (RecordReplayRuntime, calibrate_runtime).                                  *)
DemoReproduces == demoStatus = "done" /\ mode # "mock" => shown = {Evidence(res)}

(* The mock pays nothing and touches no cassette; an invocation that found     *)
(* every cassette pays for the calibration and the whole quorum, no more.      *)
ReplayPays ==
    /\ mode = "mock" => spent = 0
    /\ demoStatus = "done" /\ mode # "mock" /\ res.missed = 0 =>
          spent = CalibrateRuns * Len(Tickets) * (PerCall + fee) + QuorumK * (PerCall + fee)

(* The verdict, the price announced and the evidence of craw demo can be taken *)
(* at their word, whatever died before and whoever recorded.                   *)
DemoIsHonest == DemoPasses /\ DemoReproduces /\ ReplayPays
----------------------------------------------------------------------------
(* Claims of the documentation that do not hold                             *)

\* "a re-run replays them bit-identically at $0" (self_improve.py:1060): the calibration
\* and every sample of the quorum are paid for again.
ReplayIsFree == demoStatus = "done" /\ mode # "mock" /\ res.missed = 0 => spent = 0

\* "the bound strictly dominates real spend" (self_improve.py:998): a call may cost more
\* than the price assumed; nothing but the ceiling stops it.
BoundDominates == ceiling = Worst => demoStatus # "exceeded"
=============================================================================
