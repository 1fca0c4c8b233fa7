------------------------------- MODULE Corpus -------------------------------
(***************************************************************************)
(* crawfish.emission's corrections, crawfish.eval's GoldenSet mined from    *)
(* them, and the two authorities earned on it: a HouseGuard's stage and a   *)
(* GatedVerifier.  Each process runs one call; every Store access is a step *)
(* of its own, and a process may die between two of them.                   *)
(***************************************************************************)
EXTENDS Integers, Sequences, FiniteSets, SequencesExt

CONSTANTS Curators,      \* processes (an operator's shell, CI, craw guard)
          Corrections,   \* ids of the corrections that can be emitted
          CorrectionOf,  \* id -> [kind, trusted, tainted, produced, expected]
          KindSets,      \* the "kinds" from_corrections may be called with
          CaseLabels,    \* labels an operator may set
          GuardProposals,     \* what the proposer may answer with
          Bars,          \* [floor, coverage] in percent
          Accepts,       \* Verifier's decider: the value that is the accept label
          MinPrecision   \* Verifier.gated's min_precision, in percent

VARIABLES told,        \* corrections on a run's ledger
          corpus,      \* corrections with a record (CORRECTION_RECORD_KIND)
          golden,      \* the set's rows: id -> [output, label]
          benchmarked, \* a baseline is stored under the verifier's name
          doing,       \* what each process is in the middle of
          guard,       \* the HouseGuard that earned block last
          verifier,    \* the GatedVerifier admitted last
          operators,   \* id -> the label an operator set last (history)
          disturbed    \* cases some other writer may have undone since (history)

corpusVars == <<told, corpus, golden, benchmarked, doing, guard, verifier, operators, disturbed>>
----------------------------------------------------------------------------
(* guard.py: the closed grammar of predicates over a value.  Percentages      *)
(* stand for the floats; alpha is the default 0.05, so z * z is 3.84.         *)
\* A value is a record with a tag: null, num (n), str (s), doc (a string that holds
\* one JSON object: doc), rec (fields).
NullValue == [tag |-> "null"]

\* eval._lift_string: a string that is one JSON document becomes the document
Lift(value) == IF value.tag = "doc" THEN value.doc ELSE value

\* an absent key, or something that has no keys, gives None
FieldOf(value, key) ==
    IF value.tag = "rec" /\ key \in DOMAIN value.fields THEN value.fields[key] ELSE NullValue

Resolve(value, path) == FoldLeft(FieldOf, value, path)

\* percentages from 0 to 100; a string that holds a document holds no other string
ASSUME CorpusAssumption ==
    /\ Bars \subseteq [floor : 0..100, coverage : 0..100]
    /\ \A v \in CaseLabels \cup {CorrectionOf[id].produced : id \in Corrections}
                           \cup {CorrectionOf[id].expected : id \in Corrections} :
          Lift(v).tag # "doc"

CompareOps == {"==", "!=", "<", "<=", ">", ">="}

Ordered(op, a, b) ==
    \/ op = "<" /\ a < b
    \/ op = "<=" /\ a <= b
    \/ op = ">" /\ a > b
    \/ op = ">=" /\ a >= b

ComparisonMatches(p, actual) ==
    CASE p.op = "==" -> actual = p.literal
      [] p.op = "!=" -> actual # p.literal
      [] OTHER -> actual.tag = "num" /\ p.literal.tag = "num" /\ Ordered(p.op, actual.n, p.literal.n)

MembershipMatches(p, actual) == (actual \in ToSet(p.members)) # p.negate

\* lo and hi are sets of at most one number: both inclusive, either may be missing
BoundMatches(p, actual) ==
    /\ p.lo \cup p.hi # {}
    /\ actual.tag = "num"
    /\ \A l \in p.lo : l <= actual.n
    /\ \A h \in p.hi : actual.n <= h

CombinationMatches(op, terms) ==
    CASE op = "not" -> Len(terms) = 1 /\ ~terms[1]
      [] op = "and" -> \A i \in DOMAIN terms : terms[i]
      [] op = "or" -> \E i \in DOMAIN terms : terms[i]

\* the node at a path of positions in lists of terms
TermOf(node, i) == node.terms[i]
NodeAt(root, path) == FoldLeft(TermOf, root, path)

\* True means that the output is disallowed.
Matches(p, value) ==
    LET matches[path \in Seq(Nat)] ==
            LET q == NodeAt(p, path) IN
            CASE q.kind = "comparison" -> ComparisonMatches(q, Resolve(value, q.field))
              [] q.kind = "set_membership" -> MembershipMatches(q, Resolve(value, q.field))
              [] q.kind = "numeric_bound" -> BoundMatches(q, Resolve(value, q.field))
              [] q.kind = "bool_combination" ->
                   CombinationMatches(q.op, [i \in DOMAIN q.terms |-> matches[Append(path, i)]])
              [] q.kind = "always" -> q.value
    IN  matches[<<>>]
----------------------------------------------------------------------------
(* distill                                                                  *)

GrammarError == [kind |-> "GuardGrammarError"]
Ill(p) == p.kind = "GuardGrammarError"

\* bool() of what the model wrote: every text but the empty one is true
Truthy(value) ==
    CASE value.tag = "null" -> FALSE
      [] value.tag = "num" -> value.n # 0
      [] value.tag = "str" -> value.s # ""
      [] OTHER -> TRUE

\* a numeric bound: a number, or null for none
IsBound(value) == value.tag \in {"num", "null"}
BoundSet(value) == IF value.tag = "num" THEN {value.n} ELSE {}

DistillTerms(node, terms) ==
    IF \/ node.op \notin {"and", "or", "not"}
       \/ node.op = "not" /\ Len(node.terms) # 1
       \/ \E i \in DOMAIN terms : Ill(terms[i])
    THEN GrammarError
    ELSE [node EXCEPT !.terms = terms]

Distill(proposal) ==
    LET distilled[path \in Seq(Nat)] ==
            LET node == NodeAt(proposal, path) IN
            CASE node.kind = "always" -> [node EXCEPT !.value = Truthy(node.value)]
              [] node.kind = "comparison" -> IF node.op \in CompareOps THEN node ELSE GrammarError
              [] node.kind = "set_membership" -> [node EXCEPT !.negate = Truthy(node.negate)]
              [] node.kind = "numeric_bound" ->
                   IF IsBound(node.lo) /\ IsBound(node.hi)
                   THEN [node EXCEPT !.lo = BoundSet(node.lo), !.hi = BoundSet(node.hi)]
                   ELSE GrammarError
              [] node.kind = "bool_combination" ->
                   DistillTerms(node, [i \in DOMAIN node.terms |-> distilled[Append(path, i)]])
              [] OTHER -> GrammarError
    IN  distilled[<<>>]
----------------------------------------------------------------------------
(* The certificate                                                          *)

\* wilson_lower_bound(successes, n) >= percent / 100, multiplied out: the bound is the
\* smaller root x of (successes / n - x)^2 = z^2 x (1 - x) / n.
LowerBoundReaches(successes, n, percent) ==
    \/ percent = 0
    \/ /\ n > 0 /\ percent < 100
       /\ LET gap == 100 * successes - percent * n IN
          gap >= 0 /\ 100 * gap * gap >= 384 * n * percent * (100 - percent)

\* the produced value is disallowed, the expected one allowed where it is another one
Examples(id, case) ==
    {[id |-> id, value |-> case.output, disallowed |-> TRUE]}
    \cup (IF case.label # NullValue /\ case.label # case.output
          THEN {[id |-> id, value |-> case.label, disallowed |-> FALSE]} ELSE {})

\* how many of the cases' examples are disallowed / allowed and fired on
Counted(p, cases) ==
    LET examples == UNION {Examples(id, cases[id]) : id \in DOMAIN cases}
        fired == {e \in examples : Matches(p, e.value)}
    IN [tp |-> Cardinality({e \in fired : e.disallowed}),
        fp |-> Cardinality({e \in fired : ~e.disallowed}),
        disallowed |-> Cardinality({e \in examples : e.disallowed})]

\* synthesize_guard: both lower bounds, and at least one decision
Earned(counted, floor, minCoverage) ==
    /\ counted.tp + counted.fp > 0
    /\ LowerBoundReaches(counted.tp, counted.tp + counted.fp, floor)
    /\ LowerBoundReaches(counted.tp, counted.disallowed, minCoverage)

Stage(counted, floor, minCoverage) ==
    IF Earned(counted, floor, minCoverage) THEN "block" ELSE "warn"
----------------------------------------------------------------------------
(* Corrections, cases, and what is earned on them                           *)

AtRest == [op |-> "idle"]
NoGuard == [stage |-> "none"]
NoVerifier == [gated |-> FALSE]

CorpusInit ==
    /\ told = {} /\ corpus = {}
    /\ golden = <<>>
    /\ benchmarked = FALSE
    /\ doing = [c \in Curators |-> AtRest]
    /\ guard = NoGuard /\ verifier = NoVerifier
    /\ operators = <<>> /\ disturbed = {}

Ready(c) == doing[c] = AtRest
Become(c, job) == doing' = [doing EXCEPT ![c] = job]
With(f, id, value) == [i \in DOMAIN f \cup {id} |-> IF i = id THEN value ELSE f[i]]
----------------------------------------------------------------------------
(* emit_correction: the run's ledger first, then the corpus                 *)

EmitToLedger(c, id) ==
    /\ Ready(c) /\ id \notin told
    /\ told' = told \cup {id}
    /\ Become(c, [op |-> "emit", id |-> id])
    /\ UNCHANGED <<corpus, golden, benchmarked, guard, verifier, operators, disturbed>>

EmitToCorpus(c) ==
    /\ doing[c].op = "emit"
    /\ corpus' = corpus \cup {doing[c].id}
    /\ Become(c, AtRest)
    /\ UNCHANGED <<told, golden, benchmarked, guard, verifier, operators, disturbed>>
----------------------------------------------------------------------------
(* GoldenSet                                                                *)

AdmitEither(id) == CorrectionOf[id].trusted \/ ~CorrectionOf[id].tainted   \* mutated: or for and

\* provenance TRUSTED and not tainted; the others stay in quarantine
Admitted(id) == CorrectionOf[id].trusted /\ ~CorrectionOf[id].tainted

Mined(kinds, ids) == {id \in ids : CorrectionOf[id].kind \in kinds /\ Admitted(id)}

CaseOf(id) == [output |-> CorrectionOf[id].produced, label |-> CorrectionOf[id].expected]

\* from_corrections lists the corpus once and adds case by case; the rows of an
\* earlier mining stay where they are.
BeginMining(c, kinds) ==
    /\ Ready(c)
    /\ Become(c, [op |-> "mine", kinds |-> kinds, todo |-> Mined(kinds, corpus)])
    /\ disturbed' = Corrections
    /\ UNCHANGED <<told, corpus, golden, benchmarked, guard, verifier, operators>>

AddCase(c, id) ==
    /\ doing[c].op = "mine" /\ id \in doing[c].todo
    /\ golden' = With(golden, id, CaseOf(id))
    /\ Become(c, [doing[c] EXCEPT !.todo = @ \ {id}])
    /\ UNCHANGED <<told, corpus, benchmarked, guard, verifier, operators, disturbed>>

MiningEnds(c) == doing[c].op = "mine" /\ doing[c].todo = {}

EndMining(c) ==
    /\ MiningEnds(c)
    /\ Become(c, AtRest)
    /\ UNCHANGED <<told, corpus, golden, benchmarked, guard, verifier, operators, disturbed>>

\* label reads the row, KeyError if there is none, and writes it whole
BeginLabel(c, id, label) ==
    /\ Ready(c) /\ id \in DOMAIN golden
    /\ Become(c, [op |-> "label", id |-> id, row |-> [golden[id] EXCEPT !.label = label]])
    /\ UNCHANGED <<told, corpus, golden, benchmarked, guard, verifier, operators, disturbed>>

\* another process is between its reading of the case and its write of it
OthersWriting(c) == \E o \in Curators \ {c} : doing[o].op \in {"mine", "migrate", "label"}

EndLabel(c) ==
    /\ doing[c].op = "label"
    /\ LET id == doing[c].id IN
          /\ golden' = With(golden, id, doing[c].row)
          /\ operators' = With(operators, id, doing[c].row.label)
          /\ disturbed' = IF OthersWriting(c) THEN disturbed \cup {id} ELSE disturbed \ {id}
    /\ Become(c, AtRest)
    /\ UNCHANGED <<told, corpus, benchmarked, guard, verifier>>

\* upconvert_case; get and cases read every row through it
Upconverted(row) == [output |-> Lift(row.output), label |-> Lift(row.label)]
Cases == [id \in DOMAIN golden |-> Upconverted(golden[id])]

\* migrate lists the rows once and writes back those that come out changed
Migrated(row) == Upconverted(row)

BeginMigration(c) ==
    /\ Ready(c)
    /\ \E id \in DOMAIN golden : Upconverted(golden[id]) # golden[id]
    /\ LET changed == {id \in DOMAIN golden : Upconverted(golden[id]) # golden[id]} IN
       Become(c, [op |-> "migrate", rows |-> [id \in changed |-> Migrated(golden[id])]])
    /\ UNCHANGED <<told, corpus, golden, benchmarked, guard, verifier, operators, disturbed>>

MigrateCase(c, id) ==
    /\ doing[c].op = "migrate" /\ id \in DOMAIN doing[c].rows
    /\ golden' = With(golden, id, doing[c].rows[id])
    /\ LET left == DOMAIN doing[c].rows \ {id} IN
       Become(c, IF left = {} THEN AtRest
                 ELSE [doing[c] EXCEPT !.rows = [i \in left |-> @[i]]])
    /\ UNCHANGED <<told, corpus, benchmarked, guard, verifier, operators, disturbed>>
----------------------------------------------------------------------------
(* What is earned on the set                                                *)

\* craw guard: distill, then synthesize; a guard left at warn blocks nothing
Synthesize(c, proposal, bar) ==
    /\ Ready(c)
    /\ LET p == Distill(proposal) IN
          /\ ~Ill(p)
          /\ Stage(Counted(p, Cases), bar.floor, bar.coverage) = "block"
          /\ guard' = [stage |-> "block", predicate |-> p, bar |-> bar, cases |-> Cases]
    /\ UNCHANGED <<told, corpus, golden, benchmarked, doing, verifier, operators, disturbed>>

\* save_baseline, of whatever was benchmarked under the verifier's name
Benchmark ==
    /\ ~benchmarked /\ benchmarked' = TRUE
    /\ UNCHANGED <<told, corpus, golden, doing, guard, verifier, operators, disturbed>>

Decided(value) == value = Accepts

\* the decisions are the stored outputs, the truths the stored labels
TruePositives(cases) == {id \in DOMAIN cases : Decided(cases[id].output) /\ Decided(cases[id].label)}
Positives(cases) == {id \in DOMAIN cases : Decided(cases[id].output)}

\* precision_gate
PrecisionGate(cases, baselineExists) ==
    /\ baselineExists
    /\ Positives(cases) # {}
    /\ 100 * Cardinality(TruePositives(cases)) >= MinPrecision * Cardinality(Positives(cases))

\* Verifier.gated reads the cases, then looks for the baseline
BeginGate(c) ==
    /\ Ready(c)
    /\ Become(c, [op |-> "gate", cases |-> Cases])
    /\ UNCHANGED <<told, corpus, golden, benchmarked, guard, verifier, operators, disturbed>>

EndGate(c) ==
    /\ doing[c].op = "gate"
    /\ Become(c, AtRest)
    /\ verifier' = IF PrecisionGate(doing[c].cases, benchmarked)
                   THEN [gated |-> TRUE, cases |-> doing[c].cases] ELSE verifier
    /\ UNCHANGED <<told, corpus, golden, benchmarked, guard, operators, disturbed>>

CuratorDies(c) ==
    /\ ~Ready(c) /\ Become(c, AtRest)
    /\ UNCHANGED <<told, corpus, golden, benchmarked, guard, verifier, operators, disturbed>>

CorpusNext ==
    \/ Benchmark
    \/ \E c \in Curators :
          \/ \E id \in Corrections : EmitToLedger(c, id) \/ AddCase(c, id) \/ MigrateCase(c, id)
          \/ \E id \in Corrections, label \in CaseLabels : BeginLabel(c, id, label)
          \/ \E kinds \in KindSets : BeginMining(c, kinds)
          \/ \E proposal \in GuardProposals, bar \in Bars : Synthesize(c, proposal, bar)
          \/ EmitToCorpus(c) \/ EndMining(c) \/ EndLabel(c)
          \/ BeginMigration(c) \/ BeginGate(c) \/ EndGate(c) \/ CuratorDies(c)

CorpusSpec == CorpusInit /\ [][CorpusNext]_corpusVars
----------------------------------------------------------------------------
(* Properties                                                               *)

\* every case is an admitted correction, with the output it was emitted with
RestsOnTrust(cases) ==
    \A id \in DOMAIN cases :
        /\ CorrectionOf[id].trusted /\ ~CorrectionOf[id].tainted
        /\ cases[id].output = Lift(CorrectionOf[id].produced)

\* a bar that asks for nothing but a decision
NoBar == [floor |-> 0, coverage |-> 0]

\* the values of the cases that count as wrong, and those that count as right
Wrong(cases) == {[id |-> id, value |-> cases[id].output] : id \in DOMAIN cases}
Right(cases) == {[id |-> id, value |-> cases[id].label] :
                    id \in {i \in DOMAIN cases : cases[i].label \notin {NullValue, cases[i].output}}}
Caught(p, examples) == Cardinality({e \in examples : Matches(p, e.value)})

\* Authority is earned: a guard that blocks, and a verifier that gates, rest on trusted
\* corrections only, whatever was mined, labelled and migrated meanwhile; the guard
\* catches the share of the wrong values, and spares the share of the right ones, that
\* its bar asks for, and a verifier was not admitted without a benchmark.
AuthorityIsEarned ==
    /\ guard.stage = "block" =>
          LET caught == Caught(guard.predicate, Wrong(guard.cases))
              blamed == Caught(guard.predicate, Right(guard.cases))
          IN /\ RestsOnTrust(guard.cases)
             /\ IF guard.bar = NoBar THEN caught + blamed > 0 ELSE caught > 0
             /\ 100 * caught >= guard.bar.floor * (caught + blamed)
             /\ 100 * caught >= guard.bar.coverage * Cardinality(Wrong(guard.cases))
    /\ verifier.gated => RestsOnTrust(verifier.cases) /\ benchmarked

\* A label an operator set is what the set answers with, through every lift and
\* migration, until the corrections are mined again or another writer held an older copy
\* of the row when it was written.
LabelsHeld ==
    \A id \in DOMAIN operators \ disturbed : Cases[id].label = Lift(operators[id])

\* The corpus says what people said, and only that earns authority.
CorpusIsSound == AuthorityIsEarned /\ LabelsHeld
----------------------------------------------------------------------------
(* Claims of the documentation that do not hold                             *)

\* "the same ledger always yields the same set of cases" (eval.py:148): rows of a mining
\* for other kinds stay, and a death in emit_correction leaves the ledger ahead.
SameLedgerSameSet ==
    [][\A c \in Curators :
          MiningEnds(c) /\ doing'[c] = AtRest => DOMAIN golden = Mined(doing[c].kinds, told)]_corpusVars

\* a typed-mismatched field "evaluates to a benign False" (guard.py:134): "!=",
\* a negated membership and "not" are true of a field that is not there.
MissingFieldIsBenign ==
    guard.stage = "block" => ~Matches(guard.predicate, NullValue)

\* "a malformed term raises GuardGrammarError" (guard.py:509): bool() takes any text but
\* the empty one for true, "false" too.
MalformedIsRejected ==
    guard.stage = "block" => guard.predicate # [kind |-> "always", value |-> TRUE]

\* A label set by an operator is never undone: mining writes the correction's own
\* expected value over it.
LabelsNeverUndone ==
    \A id \in DOMAIN operators : Cases[id].label = Lift(operators[id])
=============================================================================
