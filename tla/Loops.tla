-------------------------------- MODULE Loops --------------------------------
(***************************************************************************)
(* The bounded loops of Crawfish: a back edge of a Program (workflow.py), a *)
(* Recurse node, and Refine (refine.py) with its external stop condition.   *)
(* Each runs a frozen body again and again over one item, checks the token  *)
(* and the shared budget before a visit, writes a ledger_loop row after it, *)
(* and stops when it is satisfied, at its bound, or without progress.       *)
(*                                                                          *)
(* The process may die anywhere.  A resumed loop runs its visits again over *)
(* a recording runtime: what was recorded is answered free, and a visit     *)
(* that has a row skips the budget and no-progress tests.                   *)
(***************************************************************************)
EXTENDS Integers, Sequences, FiniteSets

CONSTANTS LoopItems,    \* how many items are driven, one after the other
          FluidSeeds,   \* those whose seed is tainted
          MaxVisits,    \* max_visits, max_depth, max_iters
          Patience,     \* no_progress_patience
          LoopLimit,    \* the budget's ceiling
          LoopAnswers,  \* what the body may answer
          LoopStarts    \* bound: how often the caller runs or resumes

LoopKinds == {"program", "recurse", "refine"}
LoopAnswer == [score : 0 .. 1, fluid : BOOLEAN, ok : BOOLEAN]

ASSUME LoopsAssumption ==
    /\ LoopItems \in Nat \ {0} /\ FluidSeeds \subseteq 1 .. LoopItems
    /\ MaxVisits \in Nat \ {0} /\ Patience \in Nat \ {0}
    /\ LoopLimit \in Nat /\ LoopAnswers \subseteq LoopAnswer
    /\ LoopStarts \in Nat

VARIABLES loopRows,    \* ledger_loop: <<item, visit>>
          loopTape,    \* recorded answers, by the <<item, visit, leaf>> they answered
          loopLetters, \* dead letters: items
          loopPc,      \* where the call is
          loop,        \* its local variables
          accepted,    \* VerifierStop._accepted, which outlives an item
          loopSpent,   \* CostBudget.spent_usd of this call
          loopToken,   \* CancelToken of this call
          results,     \* what the call has returned, by item
          loopRuns     \* calls so far

loopVars == <<loopRows, loopTape, loopLetters, loopPc, loop, accepted, loopSpent, loopToken,
              results, loopRuns>>

LoopResting == {"new", "raised", "returned"}

\* A value: what the body answered at a visit (-1: the seed)
Seed(i) == [score |-> 0, fluid |-> i \in FluidSeeds, ok |-> FALSE, at |-> -1]

LoopInit ==
    /\ loopRows = {} /\ loopTape = <<>> /\ loopLetters = {}
    /\ loopPc = "new" /\ loopRuns = 0
    /\ loop = [kind |-> "none", judged |-> FALSE, letters |-> FALSE, item |-> 1, visit |-> 0,
               done |-> {}, cur |-> Seed(1), prev |-> Seed(1), streak |-> 0,
               best |-> Seed(1), bestScore |-> 0, stop |-> "none", stale |-> FALSE]
    /\ accepted = FALSE /\ loopSpent = 0 /\ loopToken = FALSE /\ results = <<>>
----------------------------------------------------------------------------
(* Running and resuming                                                     *)

\* The first call fixes the loop: its kind, whether a model judges (an
\* agent-backed classifier or verifier), and on_stuck.
LoopRun ==
    /\ loopPc \in LoopResting /\ loopRuns < LoopStarts
    /\ \E k \in LoopKinds, j, l \in BOOLEAN, resume \in BOOLEAN :
        /\ k = "recurse" => ~j
        /\ k = "refine" => ~l
        /\ IF loopRuns = 0
           THEN ~resume
           ELSE loop.kind = k /\ loop.judged = j /\ loop.letters = l
        /\ loop' = [loop EXCEPT !.kind = k, !.judged = j, !.letters = l, !.item = 1,
                                !.done = IF resume THEN loopRows ELSE {}]
    /\ loopRuns' = loopRuns + 1
    /\ loopSpent' = 0 /\ loopToken' = FALSE /\ results' = <<>>
    /\ loopPc' = "item"
    /\ UNCHANGED <<loopRows, loopTape, loopLetters, accepted>>

\* StopCondition.progress; a VerifierStop reports its last verdict, whatever it is asked about
Progress(v) ==
    IF loop.kind = "refine" /\ loop.judged THEN (IF accepted THEN 1 ELSE 0) ELSE v.score

StreakKept == loop.streak   \* mutated: the streak of the item before

StreakAtEntry == 0

EnterLoop ==
    /\ loopPc = "item" /\ loop.item <= LoopItems
    /\ LET s == Seed(loop.item)
       IN  loop' = [loop EXCEPT !.visit = 0, !.cur = s, !.prev = s, !.best = s,
                                !.bestScore = Progress(s), !.streak = StreakAtEntry,
                                !.stop = "none", !.stale = accepted]
    /\ loopPc' = "visit"
    /\ UNCHANGED <<loopRows, loopTape, loopLetters, accepted, loopSpent, loopToken, results,
                   loopRuns>>

LoopsReturn ==
    /\ loopPc = "item" /\ loop.item > LoopItems
    /\ loopPc' = "returned"
    /\ UNCHANGED <<loopRows, loopTape, loopLetters, loop, accepted, loopSpent, loopToken,
                   results, loopRuns>>
----------------------------------------------------------------------------
(* A visit                                                                  *)

Replaying == <<loop.item, loop.visit>> \in loop.done

LoopRaise ==
    /\ loopPc' = "raised"
    /\ UNCHANGED <<loopRows, loopTape, loopLetters, loop, accepted, loopToken, results, loopRuns>>

\* raise_if_cancelled, then the budget, which a replayed visit need not have
EnterVisit ==
    /\ loopPc = "visit" /\ loop.visit < MaxVisits
    /\ \/ loopToken /\ LoopRaise
       \/ /\ ~loopToken /\ ~Replaying /\ loopSpent >= LoopLimit
          /\ loop' = [loop EXCEPT !.stop = "budget"] /\ loopPc' = "stop"
          /\ UNCHANGED <<loopRows, loopTape, loopLetters, accepted, loopToken, results, loopRuns>>
       \/ /\ ~loopToken /\ (Replaying \/ loopSpent < LoopLimit)
          /\ loopPc' = "body"
          /\ UNCHANGED <<loopRows, loopTape, loopLetters, loop, accepted, loopToken, results,
                         loopRuns>>
    /\ UNCHANGED loopSpent

AtBound ==
    /\ loopPc = "visit" /\ loop.visit = MaxVisits
    /\ loop' = [loop EXCEPT !.stop = "bound"] /\ loopPc' = "stop"
    /\ UNCHANGED <<loopRows, loopTape, loopLetters, accepted, loopSpent, loopToken, results,
                   loopRuns>>

LeafKey(leaf) == <<loop.item, loop.visit, leaf>>
Recorded(leaf) == LeafKey(leaf) \in DOMAIN loopTape

Said(i, v) == loopTape[<<i, v, "body">>]

\* what a leaf was given at a visit: the body the attempt before, a judge the attempt
GivenAt(k) == IF k[3] = "judge" THEN Said(k[1], k[2])
              ELSE IF k[2] = 0 THEN Seed(k[1]) ELSE Said(k[1], k[2] - 1)

\* A cassette's key is what the call was given, not where it was made: a leaf given what it
\* was given elsewhere is answered from there.  Attempts of one score may be one value.
MayHit(leaf, k) == k[3] = leaf /\ GivenAt(k).score = loop.cur.score

Record(leaf, a) ==
    loopTape' = [k \in DOMAIN loopTape \cup {LeafKey(leaf)} |->
                    IF k = LeafKey(leaf) THEN a ELSE loopTape[k]]

\* the runtime answers a: as recorded, or anew at a cost of 1
Leaf(leaf, a) ==
    /\ ~loopToken
    /\ \/ Recorded(leaf) /\ a = loopTape[LeafKey(leaf)] /\ UNCHANGED <<loopTape, loopSpent>>
       \/ /\ ~Recorded(leaf) /\ \E k \in DOMAIN loopTape : MayHit(leaf, k) /\ a = loopTape[k]
          /\ Record(leaf, a) /\ UNCHANGED loopSpent
       \/ /\ ~Recorded(leaf) /\ loopSpent < LoopLimit
          /\ Record(leaf, a) /\ loopSpent' = loopSpent + 1

\* the token is checked before a call, the charge follows it: when that raises, nothing
\* is recorded
LeafRaises(leaf) ==
    /\ \/ loopToken /\ UNCHANGED loopSpent
       \/ ~loopToken /\ ~Recorded(leaf) /\ loopSpent >= LoopLimit /\ loopSpent' = loopSpent + 1
    /\ LoopRaise

\* Output.derive: a fresh version that carries the union of the taints
Derive(a) == [score |-> a.score, fluid |-> a.fluid \/ loop.cur.fluid, ok |-> a.ok,
              at |-> loop.visit]

TakeBody(a) ==
    /\ loop' = [loop EXCEPT !.prev = loop.cur, !.cur = Derive(a)]
    /\ loopPc' = IF loop.judged THEN "judge" ELSE "mark"
    /\ UNCHANGED <<loopRows, loopLetters, accepted, loopToken, results, loopRuns>>

\* _run_region_pass, _run_level, _default_produce: one Run of the body
Body ==
    /\ loopPc = "body"
    /\ (\E a \in LoopAnswers : Leaf("body", a) /\ TakeBody(a)) \/ LeafRaises("body")

TakeVerdict(v) ==
    /\ loop' = [loop EXCEPT !.cur.ok = v]
    /\ loopPc' = "mark"
    /\ accepted' = IF loop.kind = "refine" THEN v ELSE accepted
    /\ UNCHANGED <<loopRows, loopLetters, loopToken, results, loopRuns>>

\* Router.route_async at the end of the region, or Verifier.verdict
Judge ==
    /\ loopPc = "judge"
    /\ (\E v \in BOOLEAN : Leaf("judge", v) /\ TakeVerdict(v)) \/ LeafRaises("judge")

MarkRow == loopRows' = loopRows \cup {<<loop.item, loop.visit>>}

Stale == Progress(loop.cur) <= Progress(loop.prev)
Streak == IF Replaying THEN loop.streak ELSE IF Stale THEN loop.streak + 1 ELSE 0

Better == Progress(loop.cur) >= loop.bestScore

\* Refine keeps the best attempt, the latest among equals; the one satisfied is the best
KeepBest(l) ==
    IF loop.kind = "refine" /\ (Better \/ loop.cur.ok)
    THEN [l EXCEPT !.best = loop.cur, !.bestScore = Progress(loop.cur)]
    ELSE l

\* checkpoint_iteration or checkpoint_depth, then the stop tests in their order
MarkVisit ==
    /\ loopPc = "mark"
    /\ MarkRow
    /\ LET s == IF loop.cur.ok THEN "satisfied"
                ELSE IF ~Replaying /\ Streak >= Patience THEN "no_progress" ELSE "none"
       IN  /\ loop' = KeepBest([loop EXCEPT !.visit = loop.visit + 1, !.stop = s,
                                            !.streak = Streak])
           /\ loopPc' = IF s = "none" THEN "visit" ELSE "stop"
    /\ UNCHANGED <<loopTape, loopLetters, accepted, loopSpent, loopToken, results, loopRuns>>
----------------------------------------------------------------------------
(* The end of a loop                                                        *)

\* Recurse folds every level (combine), tainted if one is; Refine returns its best attempt
LoopOutput == IF loop.kind = "refine" THEN loop.best ELSE loop.cur

LeaveLoop ==
    /\ loopPc = "stop"
    /\ loopLetters' = IF loop.letters /\ loop.stop # "satisfied"
                      THEN loopLetters \cup {loop.item} ELSE loopLetters
    /\ results' = Append(results, [stop |-> loop.stop, visits |-> loop.visit,
                                   out |-> LoopOutput, stale |-> loop.stale])
    /\ loop' = [loop EXCEPT !.item = loop.item + 1]
    /\ loopPc' = "item"
    /\ UNCHANGED <<loopRows, loopTape, accepted, loopSpent, loopToken, loopRuns>>

LoopCancel ==
    /\ loopPc \notin LoopResting /\ ~loopToken
    /\ loopToken' = TRUE
    /\ UNCHANGED <<loopRows, loopTape, loopLetters, loopPc, loop, accepted, loopSpent, results,
                   loopRuns>>

\* what is not in the Store or on the tape is gone, the node objects included
LoopDie ==
    /\ loopPc # "new"
    /\ loopPc' = "new" /\ accepted' = FALSE /\ results' = <<>>
    /\ UNCHANGED <<loopRows, loopTape, loopLetters, loop, loopSpent, loopToken, loopRuns>>

LoopNext ==
    \/ LoopRun \/ EnterLoop \/ LoopsReturn
    \/ EnterVisit \/ AtBound \/ Body \/ Judge \/ MarkVisit
    \/ LeaveLoop \/ LoopCancel \/ LoopDie

LoopSpec == LoopInit /\ [][LoopNext]_loopVars
----------------------------------------------------------------------------
(* Properties                                                               *)

SaysOk(i, v) == IF loop.judged THEN loopTape[<<i, v, "judge">>] ELSE Said(i, v).ok

\* The score an uninterrupted run compares at visit v (VerifierStop: its one verdict)
ScoreAt(i, v) == IF v < 0 \/ (loop.kind = "refine" /\ loop.judged) THEN 0 ELSE Said(i, v).score

\* An uninterrupted run has no progress after visit n: none of its last visits, as many as
\* it has patience for, was better than the one before
Stuck(i, n) ==
    /\ n - Patience >= -1
    /\ \A v \in n - Patience + 1 .. n : ScoreAt(i, v) <= ScoreAt(i, v - 1)

\* Visits after which it stops, whatever its budget
StopsAt(i, v) == SaysOk(i, v) \/ Stuck(i, v) \/ v = MaxVisits - 1

\* A loop that was interrupted and resumed goes on at least as far as one that was not:
\* it is satisfied where that one is, and otherwise stops no sooner unless its budget ends.
EndsNoSooner ==
    \A i \in DOMAIN results :
        LET r == results[i] IN
        /\ r.stop # "budget" => \E v \in 0 .. r.visits - 1 : StopsAt(i, v)
        /\ \A v \in 0 .. r.visits - 1 :
                SaysOk(i, v) <=> r.stop = "satisfied" /\ v = r.visits - 1

\* What a loop returns is tainted when its seed, or an attempt it builds on, is.
TaintSticks ==
    \A i \in DOMAIN results :
        results[i].out.fluid <=>
            i \in FluidSeeds \/ \E v \in 0 .. results[i].out.at : Said(i, v).fluid

\* Refine returns the attempt it was satisfied with, or else the latest of its best ones,
\* the seed included, if its stop condition did not carry over the verdict on another item.
BestReturned ==
    loop.kind = "refine" =>
        \A i \in DOMAIN results :
            LET r == results[i] IN
            ~r.stale =>
                IF r.stop = "satisfied" THEN r.out.at = r.visits - 1
                ELSE \A v \in 0 .. r.visits - 1 :
                        /\ ScoreAt(i, v) <= ScoreAt(i, r.out.at)
                        /\ v > r.out.at => ScoreAt(i, v) < ScoreAt(i, r.out.at)

\* However often it was interrupted, whatever it replays: a bounded loop ends by its own
\* rules, and what it hands on is its best attempt.
LoopEndsRight == EndsNoSooner /\ BestReturned

\* ... and what it was handed, or said itself, that is tainted taints what it hands on.
LoopIsFaithful == LoopEndsRight /\ TaintSticks

(* Claims of the documentation that do not hold (README, 5).                *)

\* A resumed loop ends where the interrupted one would have.
EndsTheSame ==
    \A i \in DOMAIN results :
        results[i].stop # "budget" => \A v \in 0 .. results[i].visits - 2 : ~StopsAt(i, v)

\* Refine returns its best attempt (with a VerifierStop shared by several items).
BestEvenIfStale ==
    loop.kind = "refine" =>
        \A i \in DOMAIN results :
            LET r == results[i] IN
            r.visits > 0 /\ r.stop # "satisfied" /\ loop.judged => r.out.at = r.visits - 1
=============================================================================
