--------------------------- MODULE MCImprovement ----------------------------
(* Improving a Definition and watching its runs, each checked by itself: a    *)
(* behaviour is one of Improvement (three calls at a time), of Watch (two      *)
(* model calls in flight), or of Corpus (two curators).                        *)
EXTENDS Improvement, Watch, Corpus, TLC

CONSTANTS c1, c2, c3, w1, w2, q1, q2

VARIABLE focus

MCImprovers == {c1, c2, c3}
MCCallers == {w1, w2}
MCCurators == {q1, q2}
ImprovementSymmetry ==
    Permutations(MCImprovers) \cup Permutations(MCCallers) \cup Permutations(MCCurators)

\* b is better than a but for a benchmark that may trade x for y; c is in between
Marks(a, b) == [x |-> a, y |-> b]
MCScoresOf == [a |-> {Marks(1, 1)}, b |-> {Marks(2, 2), Marks(0, 3)}, c |-> {Marks(2, 1)}]
MCCostOf == [a |-> 2, b |-> 1, c |-> 3]
MCProposals == [a |-> <<"c", "b">>, b |-> <<"c">>, c |-> <<"a", "b">>]

\* a is expected to be another document, b and c are only known to be wrong, c is tainted
Number(n) == [tag |-> "num", n |-> n]
Text(t) == [tag |-> "str", s |-> t]
Scored(n) == [tag |-> "rec", fields |-> [score |-> Number(n)]]
Dumped(v) == [tag |-> "doc", doc |-> v]
Correction(k, tainted, p, e) ==
    [kind |-> k, trusted |-> TRUE, tainted |-> tainted, produced |-> p, expected |-> e]
MCAccepts == Text("accept")
MCCorrectionOf ==
    [a |-> Correction("human_revert", FALSE, Dumped(Scored(0)), Dumped(Scored(1))),
     b |-> Correction("ci_failure", FALSE, MCAccepts, NullValue),
     c |-> Correction("ci_failure", TRUE, MCAccepts, NullValue)]
MCKindSets == {{"human_revert"}, {"human_revert", "ci_failure"}}
MCCaseLabels == {MCAccepts}

\* proposals that catch everything, one thing, too much, and that are not in the grammar
Combined(op, terms) == [kind |-> "bool_combination", op |-> op, terms |-> terms]
Compared(field, op, literal) ==
    [kind |-> "comparison", field |-> field, op |-> op, literal |-> literal]
LowScore == [kind |-> "numeric_bound", field |-> <<"score">>, lo |-> NullValue, hi |-> Number(0)]
MCGuardProposals ==
    {Combined("or", <<LowScore, Compared(<<>>, "==", MCAccepts)>>),
     Combined("not", <<Compared(<<>>, "==", MCAccepts)>>), Combined("not", <<>>),
     Compared(<<"score">>, "!=", Number(1)), [kind |-> "always", value |-> Text("false")],
     [kind |-> "regex"]}
MCBars == {[floor |-> 20, coverage |-> 30]}

MCInit ==
    /\ focus \in {"improve", "watch", "corpus"}
    /\ ImprovementInit /\ WatchInit /\ CorpusInit

MCNext ==
    /\ UNCHANGED focus
    /\ \/ focus = "improve" /\ ImprovementNext /\ UNCHANGED <<watchVars, corpusVars>>
       \/ focus = "watch" /\ WatchNext /\ UNCHANGED <<improvementVars, corpusVars>>
       \/ focus = "corpus" /\ CorpusNext /\ UNCHANGED <<improvementVars, watchVars>>

MCSpec == MCInit /\ [][MCNext]_<<focus, improvementVars, watchVars, corpusVars>>

(* What was gained stands: a promotion never lowers the baseline another call  *)
(* raised (tuner.promote_gated), and once the guard has halted a run no call   *)
(* of it, in flight ones included, is taken for an answer                       *)
(* (anomaly.AnomalyGuard).                                                     *)
NothingIsTakenBack == [][BaselineStands /\ HaltStands]_<<improvementVars, watchVars>>
=============================================================================
