------------------------------- MODULE Answers -------------------------------
(***************************************************************************)
(* From the text a model answers to the Sink that acts on it. A Run asks its *)
(* team (run.py, runtime/team.py), each call perhaps of a cheap model first   *)
(* (runtime/escalate.py), projects the text on a grammar (grammar.py) or not, *)
(* validates it, repairs it once; the Output is declined when it is not sure  *)
(* (abstain.py, escalate.py) and routed by a label (nodes/router.py, alg3.py). *)
(* Each of these reads the same text, or the value made of it, its own way.   *)
(***************************************************************************)
EXTENDS Wiring

CONSTANTS Jobs,      \* how an author may put the pieces together
          Texts,     \* texts a model may answer
          Sure,      \* the confidence 1.0
          MaxRouted  \* items that go through one Router

VARIABLES answerStep, \* what happens next, or how it ended
          job,        \* how the author put the pieces together
          tier,       \* "cheap", or "strong" once the cheap model was not sure
          heardFrom,  \* agents of the team that have answered
          repairing,  \* the one repair is under way or was made
          reply,      \* the last text: a sequence of pieces
          toolUsed,   \* it came with a tool's result
          anyTool,    \* ghost: an agent of this team had a tool's result
          typed,      \* the value that validation let through
          output,     \* the Output: value, tainted
          throughRouter, \* items that were through
          reached    \* names of the Sinks that items were sent to

answersVars == <<answerStep, job, tier, heardFrom, repairing, reply, toolUsed, anyTool,
                 typed, output, throughRouter, reached>>

\* outputs: sequence of Params, each with its flow; raise, decline: the confidence to
\* escalate or to abstain below, 0 for neither
JobFields == {"outputs", "constrained", "onInvalid", "agents", "fluidIn", "raise", "decline", "router"}
----------------------------------------------------------------------------
(* Pieces of a text: [is |-> "word", w |-> w], [is |-> "num", n |-> n], a      *)
(* document [is |-> "doc", v |-> value] or braces that do not parse            *)
(* [is |-> "broken"], each with the number of the fence it is in, 0 for none.  *)
(* Values are Wiring's, a number with its n, a string with the pieces of its   *)
(* text.                                                                      *)

IsText(pieces) ==
    /\ DOMAIN pieces \subseteq Nat
    /\ \A k \in DOMAIN pieces :
          /\ pieces[k].is = "num" => pieces[k].n \in Nat
          /\ pieces[k].is = "doc" => pieces[k].v \in Json

ASSUME AnswersAssumption ==
    /\ Sure \in Nat
    /\ \A j \in Jobs : /\ DOMAIN j = JobFields /\ {j.raise, j.decline} \subseteq Nat
                       /\ j.router.labels \in Seq(Range(j.router.labels))
                       /\ IsFiniteSet(DOMAIN j.router.branches)
    /\ \A text \in Texts : IsText(text)
    /\ \A v \in Json : /\ "n" \in DOMAIN v => v.n \in Nat
                       /\ "text" \in DOMAIN v => IsText(v.text)
                       /\ v.tag = "list" => DOMAIN v.items \subseteq Nat

Unread == [tag |-> "unread"]

\* json.loads of a part of a text
Loads(text, part) ==
    IF \E k \in part : part = {k}
    THEN LET piece == text[CHOOSE k \in part : TRUE]
         IN CASE piece.is = "doc" -> piece.v
              [] piece.is = "num" -> [tag |-> "float", n |-> piece.n]
              [] OTHER -> Unread
    ELSE Unread

InFence(text, fence) == {k \in DOMAIN text : text[k].fence = fence}

\* the span from the first opening brace or bracket
OutermostSpan(text) == LET spans == {k \in DOMAIN text : text[k].is \in {"doc", "broken"}}
                       IN IF spans = {} THEN Unread ELSE Loads(text, {Min(spans)})

\* the first that parses: the first fence, the whole, the outermost span
ExtractJson(text) ==
    LET fenced == Loads(text, InFence(text, 1))
        whole == IF InFence(text, 0) = DOMAIN text THEN Loads(text, DOMAIN text) ELSE Unread
    IN CASE fenced # Unread -> fenced
         [] fenced = Unread /\ whole # Unread -> whole
         [] OTHER -> OutermostSpan(text)

\* what the braces of a piece open: an object, the objects in a list, or nothing that parses
ObjectsIn(piece) ==
    CASE piece.is = "broken" -> [i \in {0} |-> Unread]
      [] piece.is = "doc" /\ piece.v.tag = "record" -> [i \in {0} |-> piece.v]
      [] piece.is = "doc" /\ piece.v.tag = "list" ->
            [i \in {k \in DOMAIN piece.v.items : piece.v.items[k].tag = "record"} |-> piece.v.items[i]]
      [] OTHER -> <<>>

Braces(text) == UNION {{<<k, i>> : i \in DOMAIN ObjectsIn(text[k])} : k \in DOMAIN text}
ObjectAt(text, brace) == ObjectsIn(text[brace[1]])[brace[2]]
Objects(text) == {ObjectAt(text, brace) : brace \in Braces(text)}

\* the first of the braces, and the objects they open
FirstOf(braces) ==
    CHOOSE b \in braces : \A c \in braces : b[1] < c[1] \/ (b[1] = c[1] /\ b[2] <= c[2])

\* _first_object_span of the grammar
FirstObject(text) == IF Braces(text) = {} THEN Unread ELSE ObjectAt(text, FirstOf(Braces(text)))

\* from the first brace to the last: parses when they are the braces of one object
OnlyObject(text) == IF \E b \in Braces(text) : Braces(text) = {b} THEN FirstObject(text) ELSE Unread
----------------------------------------------------------------------------
(* Grammar and validation                                                   *)

PassThrough(outputs) ==
    outputs = <<>> \/ (Len(outputs) = 1 /\ outputs[1].type = [kind |-> "primitive", name |-> "str"])

\* from_output_schema; None where there is nothing to constrain
HasGrammar == job.constrained /\ ~PassThrough(job.outputs)

\* mutated: the declared keys of any object in the text
EnforceAnyJson(outputs, text) ==
    LET keys == {outputs[k].name : k \in DOMAIN outputs}
        with(name) == {b \in Braces(text) : LET o == ObjectAt(text, b)
                                            IN o # Unread /\ name \in DOMAIN o.fields}
    IN [tag |-> "record",
        fields |-> [name \in {key \in keys : with(key) # {}} |->
                       ObjectAt(text, FirstOf(with(name))).fields[name]]]

\* _enforce_json: of the first object, the declared keys that are there
EnforceJson(outputs, text) ==
    LET object == IF FirstObject(text) = Unread THEN Nothing ELSE FirstObject(text).fields
        keys == {outputs[k].name : k \in DOMAIN outputs}
    IN [tag |-> "record", fields |-> [name \in keys \cap DOMAIN object |-> object[name]]]

\* the text that is validated; a repair is not constrained
Projected ==
    IF HasGrammar /\ ~repairing THEN <<[is |-> "doc", v |-> EnforceJson(job.outputs, reply), fence |-> 0]>>
    ELSE reply

TypedValue ==
    IF PassThrough(job.outputs) THEN [tag |-> "str", text |-> Projected] ELSE ExtractJson(Projected)

IsValid ==
    PassThrough(job.outputs) \/ (TypedValue # Unread /\ Produced(job.outputs, TypedValue))
----------------------------------------------------------------------------
(* Confidence                                                               *)

None == -1

Numbers(piece) ==
    CASE piece.is = "num" -> {piece.n}
      [] piece.is = "doc" /\ piece.v.tag = "record" ->
            {value.n : value \in {v \in Range(piece.v.fields) : "n" \in DOMAIN v}}
      [] OTHER -> {}

\* a search of a text for a number: one in the first piece that has any
FirstNumber(pieces) ==
    LET bearing == {k \in DOMAIN pieces : Numbers(pieces[k]) # {}}
    IN IF bearing = {} THEN None ELSE CHOOSE n \in Numbers(pieces[Min(bearing)]) : TRUE

\* a number, or the first in a string
Numeric(value) ==
    IF "n" \in DOMAIN value THEN value.n
    ELSE IF value.tag = "str" /\ "text" \in DOMAIN value THEN FirstNumber(value.text) ELSE None

\* _extract_field of the cascade
StatedIn(text) ==
    LET object == OnlyObject(text)
    IN IF object = Unread \/ "confidence" \notin DOMAIN object.fields THEN None
       ELSE Numeric(object.fields["confidence"])

\* confidence_below
ShouldEscalate(text) == StatedIn(text) = None \/ StatedIn(text) < job.raise

CoerceUnit(n) == IF n > Sure THEN Sure ELSE n

\* extract_confidence
Confidence(value) ==
    IF value.tag = "record"
    THEN IF "confidence" \in DOMAIN value.fields THEN CoerceUnit(Numeric(value.fields["confidence"])) ELSE None
    ELSE CoerceUnit(Numeric(value))

IsAbstention(value) == value.tag = "record" /\ "_abstention" \in DOMAIN value.fields

Abstention(confidence) ==
    [tag |-> "record", fields |-> [_abstention |-> [tag |-> "bool"], confidence |-> [tag |-> "float", n |-> confidence]]]

\* mutated: what states just the threshold is declined
AbstainUpTo(o, threshold) ==
    IF threshold = 0 \/ IsAbstention(o.value) \/ Confidence(o.value) > threshold THEN o
    ELSE [o EXCEPT !.value = Abstention(Confidence(o.value))]

\* mutated: an answer that states nothing goes through
AbstainIfLow(o, threshold) ==
    IF threshold = 0 \/ Confidence(o.value) = None \/ Confidence(o.value) >= threshold THEN o
    ELSE [o EXCEPT !.value = Abstention(Confidence(o.value))]

\* mutated: the Output that declines is a fresh one
AbstainAfresh(o, threshold) ==
    IF threshold = 0 \/ IsAbstention(o.value) \/ Confidence(o.value) >= threshold THEN o
    ELSE [value |-> Abstention(Confidence(o.value)), tainted |-> FALSE]

\* abstain_below: an answer that states none declines; taint goes along
AbstainBelow(o, threshold) ==
    IF threshold = 0 \/ IsAbstention(o.value) \/ Confidence(o.value) >= threshold THEN o
    ELSE [o EXCEPT !.value = Abstention(Confidence(o.value))]
----------------------------------------------------------------------------
(* Classifier and Router. A router is [agent, tests, labels, default,          *)
(* branches]: labels in declared order, tests of a label (one that is no agent), *)
(* branches a function on labels; a branch is [is |-> "sink", name, flow],      *)
(* [is |-> "node", leads |-> name of the Sink behind it], or [is |-> "end"].    *)

\* from_predicates: the keys, then the default
LabelsOf(router) ==
    IF router.agent \/ router.default \in Range(router.labels) THEN router.labels
    ELSE Append(router.labels, router.default)

SinksOf(router) == {router.branches[label].name : label \in
                        {l \in DOMAIN router.branches : router.branches[l].is = "sink"}}

\* mutated: distinct targets are let through
GatesAll(router) == TRUE

\* assert_classifier_gates_not_chooses: a node that is no Sink is no target
GatesNotChooses(router) == router.agent => Cardinality(SinksOf(router)) <= 1

\* prove_no_injection: of the Definition alone, whose output is FLUID unless it says not
Proven(j) == \A k \in DOMAIN j.outputs : j.outputs[k].flow = "static"

\* Sink.__init__, Classifier.__init__, Router.__init__, in this order
Assembled(j) ==
    LET router == j.router IN
    IF \E label \in DOMAIN router.branches :
          router.branches[label].is = "sink" /\ router.branches[label].flow = "fluid"
    THEN "TargetMustBeStaticError"
    ELSE IF router.default \notin Range(LabelsOf(router)) THEN "ValueError"
    ELSE IF ~(Range(LabelsOf(router)) \subseteq DOMAIN router.branches) THEN "UnroutableLabelError"
    ELSE IF ~GatesNotChooses(router) THEN "ConsequentialTargetChoiceError"
    ELSE "asking"

TestHolds(test, value) ==
    CASE test = "abstained" -> IsAbstention(value)
      [] test = "listed" -> value.tag = "list"

\* the first label whose predicate holds
Classify(router, value) ==
    LET matching == {k \in DOMAIN router.labels : TestHolds(router.tests[router.labels[k]], value)}
    IN IF matching = {} THEN router.default ELSE router.labels[Min(matching)]

\* _normalise: the first declared label that is a token of the text
Normalise(router, text) ==
    LET tokens == {text[k].w : k \in {i \in DOMAIN text : text[i].is = "word"}}
        present == {k \in DOMAIN router.labels : router.labels[k] \in tokens}
    IN IF present = {} THEN router.default ELSE router.labels[Min(present)]
----------------------------------------------------------------------------
NoJob == [router |-> [agent |-> FALSE]]
NoOutput == [value |-> Unread, tainted |-> FALSE]

AnswersInit ==
    /\ answerStep = "authoring" /\ job = NoJob
    /\ tier = "cheap" /\ heardFrom = 0 /\ repairing = FALSE
    /\ reply = <<>> /\ toolUsed = FALSE /\ anyTool = FALSE
    /\ typed = Unread /\ output = NoOutput /\ throughRouter = 0 /\ reached = {}

Assemble ==
    /\ answerStep = "authoring"
    /\ \E j \in Jobs : job' = j /\ answerStep' = Assembled(j)
    /\ UNCHANGED <<tier, heardFrom, repairing, reply, toolUsed, anyTool, typed, output, throughRouter, reached>>

\* one call under a grammar, else the team in turn
TeamSize == IF HasGrammar /\ ~repairing THEN 1 ELSE job.agents

AsksStrong(text) == job.raise > 0 /\ tier = "cheap" /\ ShouldEscalate(text)

\* EscalatingRuntime.run for one agent: the cheap answer, or the strong one in its place
AgentAnswers ==
    /\ answerStep = "asking"
    /\ \E text \in Texts, tool \in BOOLEAN :
          IF AsksStrong(text)
          THEN tier' = "strong" /\ UNCHANGED <<answerStep, heardFrom, reply, toolUsed, anyTool>>
          ELSE /\ tier' = "cheap" /\ reply' = text /\ toolUsed' = tool
               /\ anyTool' = (anyTool \/ tool)
               /\ heardFrom' = heardFrom + 1
               /\ answerStep' = IF heardFrom + 1 < TeamSize THEN "asking" ELSE "answered"
    /\ UNCHANGED <<job, repairing, typed, output, throughRouter, reached>>

\* the Output of a valid value: fluid inputs taint it, and the result's tool events
Validated ==
    /\ answerStep = "answered" /\ IsValid
    /\ typed' = TypedValue
    /\ output' = [value |-> TypedValue, tainted |-> job.fluidIn \/ toolUsed]
    /\ answerStep' = "done"
    /\ UNCHANGED <<job, tier, heardFrom, repairing, reply, toolUsed, anyTool, throughRouter, reached>>

\* _repair, once, while the budget has room: the team is asked again, without the grammar
Repair ==
    /\ answerStep = "answered" /\ ~IsValid /\ job.onInvalid = "repair" /\ ~repairing
    /\ repairing' = TRUE /\ heardFrom' = 0 /\ answerStep' = "asking"
    /\ UNCHANGED <<job, tier, reply, toolUsed, anyTool, typed, output, throughRouter, reached>>

\* dead letter: by the policy, with no room for a repair, or after it
Refused ==
    /\ answerStep = "answered" /\ ~IsValid
    /\ answerStep' = "OutputValidationError"
    /\ UNCHANGED <<job, tier, heardFrom, repairing, reply, toolUsed, anyTool, typed, output, throughRouter, reached>>

Abstain ==
    /\ answerStep = "done"
    /\ output' = AbstainBelow(output, job.decline)
    /\ answerStep' = "ready"
    /\ UNCHANGED <<job, tier, heardFrom, repairing, reply, toolUsed, anyTool, typed, throughRouter, reached>>

\* Router.route, route_async: the label's branch
RouteOutput ==
    /\ answerStep = "ready"
    /\ \E label \in IF job.router.agent THEN {Normalise(job.router, text) : text \in Texts}
                    ELSE {Classify(job.router, output.value)} :
          IF label \notin DOMAIN job.router.branches
          THEN answerStep' = "KeyError" /\ UNCHANGED reached
          ELSE /\ answerStep' = "routed"
               /\ reached' = reached \cup (IF job.router.branches[label].is = "sink"
                                       THEN {job.router.branches[label].name} ELSE {})
    /\ throughRouter' = throughRouter + 1
    /\ UNCHANGED <<job, tier, heardFrom, repairing, reply, toolUsed, anyTool, typed, output>>

\* the next item of the batch
NextItem ==
    /\ answerStep \in {"routed", "OutputValidationError"} /\ throughRouter < MaxRouted
    /\ answerStep' = "asking" /\ heardFrom' = 0 /\ repairing' = FALSE
    /\ reply' = <<>> /\ toolUsed' = FALSE /\ anyTool' = FALSE /\ typed' = Unread /\ output' = NoOutput
    /\ UNCHANGED <<job, tier, throughRouter, reached>>

AnswersNext ==
    \/ Assemble \/ AgentAnswers \/ Validated \/ Repair \/ Refused \/ Abstain \/ RouteOutput \/ NextItem

ValuesNext ==
    \/ WiringNext /\ UNCHANGED answersVars
    \/ AnswersNext /\ UNCHANGED wiringVars

ValuesSpec == WiringInit /\ AnswersInit /\ [][ValuesNext]_<<wiringVars, answersVars>>
----------------------------------------------------------------------------
(* Properties                                                               *)

Declares(name) == \E k \in DOMAIN job.outputs : job.outputs[k].name = name
IsRecord(value) == value.tag = "record"

\* Whatever is fenced, wrapped in prose, projected or repaired: the fields of a validated
\* record are fields of one object of the last answer, none is made up and no two objects
\* are mixed; a record of nothing is all that is projected where no object is read.
FieldsAreTheModels ==
    typed # Unread /\ IsRecord(typed) =>
        \/ \E object \in Objects(reply) \ {Unread} :
               \A f \in DOMAIN typed.fields :
                   f \in DOMAIN object.fields /\ object.fields[f] = typed.fields[f]
        \/ /\ HasGrammar /\ ~repairing /\ FirstObject(reply) = Unread
           /\ DOMAIN typed.fields = {}

\* The cascade reads a confidence off the text, the Output's discipline off the value: of a
\* record they decide alike, an answer is declined exactly if it states less than what it is
\* compared with, when that is a confidence (the discipline takes 95 for a threshold too).
ReadersAgree ==
    /\ answerStep = "ready" /\ job.decline \in 1 .. Sure /\ IsRecord(typed) /\ ~IsAbstention(typed)
    /\ "confidence" \in DOMAIN typed.fields /\ StatedIn(reply) # None
    => (IsAbstention(output.value) <=> StatedIn(reply) < job.decline)

\* A value made under fluid data, or by an agent that saw a tool's result, is tainted when a
\* label is chosen for it, repaired and declined or not.
TaintArrives ==
    answerStep \in {"ready", "routed"} /\ (job.fluidIn \/ toolUsed) => output.tainted

\* What states no confidence is never acted on where a confidence is asked for.
SilenceDeclines ==
    answerStep = "ready" /\ job.decline > 0 /\ Confidence(typed) = None => IsAbstention(output.value)

\* Whatever a model answers over any number of items, its labels send them to one Sink at
\* most, and each label that a classifier of an accepted Router may find has a branch.
LabelsOnlyGate ==
    /\ answerStep # "KeyError"
    /\ job.router.agent => Cardinality(reached) <= 1

AnswersAreSound ==
    /\ FieldsAreTheModels /\ ReadersAgree /\ TaintArrives
    /\ SilenceDeclines /\ LabelsOnlyGate

\* What arrives is what was declared, along a wire and out of an answer.
ValuesAreSound == WiredValuesFit /\ AnswersAreSound
----------------------------------------------------------------------------
(* Claims of the documentation that do not hold (README, 5).                *)

\* "a malformed output is an impossible state" (run.py:338): a list, a number or a text that
\* is one value is no object, and the keys of the projection need not be there.
ConstrainedIsWellFormed == answerStep = "OutputValidationError" => ~HasGrammar

\* "the validate+_repair loop never runs" (run.py:339): it does, without the grammar.
ConstrainedNeverRepairs == repairing => ~HasGrammar

\* "the same span the validator would look for" (grammar.py:229): not with a fence after an
\* object, or a list of objects.
GrammarReadsTheSame ==
    ExtractJson(reply) # Unread /\ FirstObject(reply) # Unread => ExtractJson(reply) = FirstObject(reply)

\* "tainted if any input was fluid OR the run consumed any tool/MCP result" (run.py:268): the
\* events are those of the last agent that answered.
ToolResultsTaint == answerStep = "ready" /\ anyTool => output.tainted

\* "never CHOOSE among two or more distinct consequential Sink targets" (alg3.py:81): a node
\* in front of a Sink hides it.
LabelsNeverChoose ==
    answerStep \in {"asking", "routed"} /\ job.router.agent =>
        Cardinality({job.router.branches[l] : l \in {m \in DOMAIN job.router.branches :
                                                job.router.branches[m].is \in {"sink", "node"}}}) <= 1

\* "if the whole value is itself numeric, use it" (escalate.py:72): any string with a number.
WholeValueStates ==
    answerStep = "ready" /\ job.decline > 0 /\ typed.tag = "str" /\ ~IsAbstention(output.value) =>
        Len(typed.text) = 1 /\ typed.text[1].is = "num"

\* "1.0 -- abstain on everything" (escalate.py:112): a stated 1.0, or 95, is not below it.
SureAbstainsAll == answerStep = "ready" /\ job.decline = Sure => IsAbstention(output.value)

\* "it never passes a wiring that the runtime TargetMustBeStaticError ... gates would reject"
\* (prove.py:17): it does not look at the Sinks.
ProvenAssembles == answerStep = "TargetMustBeStaticError" => ~Proven(job)
=============================================================================
