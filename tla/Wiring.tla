------------------------------- MODULE Wiring -------------------------------
(***************************************************************************)
(* One wire of a Batch: what an upstream node declares is checked against    *)
(* the inputs of the Definition (typesystem/registry.py, batch.py), the node *)
(* produces a value (validation.py), the Batch gathers it into the inputs of *)
(* its Runs, and each Run validates them again before its first model call.  *)
(***************************************************************************)
EXTENDS Integers, Sequences, FiniteSets, SequencesExt

CONSTANTS TypeDefs,    \* resolved types (TypeDef), and what they are made of
          Json,        \* JSON values, and what they are made of
          WireTypes,   \* types a parameter may be declared with
          WireValues,  \* values a node may produce
          WireNames    \* parameter names

VARIABLES wireStep,  \* "declared", "wired", "produced", "gathered", "running", or a refusal
          feeder,    \* what is wired: its kind and the parameters it declares
          wants,     \* Definition.inputs
          payload,   \* the value of its Output
          bound      \* the inputs of each Run: a sequence of functions on names

wiringVars == <<wireStep, feeder, wants, payload, bound>>

FeederKinds == {"output", "source", "multi"}
Params == [name : WireNames, type : WireTypes, required : BOOLEAN]
----------------------------------------------------------------------------
(* Types: [kind |-> "primitive", name |-> n], [kind |-> "list" or "optional",  *)
(* item |-> t], [kind |-> "record", fields |-> function on field names]        *)
(* Values: [tag |-> "str"] and so on, [tag |-> "list", items |-> s],           *)
(* [tag |-> "record", fields |-> f]                                            *)

\* the types a type is made of
Parts(type) ==
    CASE type.kind \in {"list", "optional"} -> {type.item}
      [] type.kind = "record" -> {type.fields[f] : f \in DOMAIN type.fields}
      [] OTHER -> {}

\* a type is a finite expression: none is a part of itself, however deep
ASSUME WiringAssumption ==
    /\ \A t \in TypeDefs : Parts(t) \subseteq TypeDefs
    /\ \A S \in SUBSET TypeDefs : S # {} => \E t \in S : Parts(t) \cap S = {}
    /\ \A v \in Json :
          /\ v.tag = "list" => \A k \in DOMAIN v.items : v.items[k] \in Json
          /\ v.tag = "record" => \A f \in DOMAIN v.fields : v.fields[f] \in Json
    /\ WireTypes \subseteq TypeDefs /\ WireValues \subseteq Json

\* mutated: an absent value may reach a port that demands one
OptionalFeeds(producer, consumer) == producer.item.kind = consumer.kind

\* an Optional never feeds a port that is not
FromOptional(producer, consumer) == FALSE

\* one step of _compat, `of` being what feeds each part of the consumer
Feeds(producer, consumer, of) ==
    CASE consumer.kind = "optional" ->
            (IF producer.kind = "optional" THEN producer.item ELSE producer) \in of[consumer.item]
      [] producer.kind = "optional" /\ consumer.kind # "optional" ->
            FromOptional(producer, consumer)
      [] producer.kind = consumer.kind /\ consumer.kind = "list" ->
            producer.item \in of[consumer.item]
      [] producer.kind = consumer.kind /\ consumer.kind = "record" ->
            \A f \in DOMAIN consumer.fields :
                f \in DOMAIN producer.fields /\ producer.fields[f] \in of[consumer.fields[f]]
      [] producer.kind = consumer.kind /\ consumer.kind = "primitive" ->
            producer.name = consumer.name
      [] OTHER -> FALSE

FeedersOf[consumer \in TypeDefs] ==
    LET of == [part \in Parts(consumer) |-> FeedersOf[part]]
    IN {producer \in TypeDefs : Feeds(producer, consumer, of)}

\* _compat, as a table over all types
Feeders == [consumer \in TypeDefs |-> FeedersOf[consumer]]
Compatible(producer, consumer) == producer \in Feeders[consumer]

\* _check_primitive; an unregistered name takes any scalar
PrimitiveTakes(name, tag) ==
    CASE name = "json" -> TRUE
      [] name = "float" -> tag \in {"int", "float"}
      [] name \in {"str", "bool", "int", "null"} -> tag = name
      [] OTHER -> tag \notin {"list", "record"}

\* one step of _check_value, `of` being the values of each part of the type
Takes(type, value, of) ==
    CASE type.kind = "optional" -> value.tag = "null" \/ value \in of[type.item]
      [] type.kind = "list" ->
            value.tag = "list" /\ \A k \in DOMAIN value.items : value.items[k] \in of[type.item]
      [] type.kind = "record" ->
            /\ value.tag = "record"
            /\ \A f \in DOMAIN type.fields :
                   f \in DOMAIN value.fields /\ value.fields[f] \in of[type.fields[f]]
      [] OTHER -> PrimitiveTakes(type.name, value.tag)

ValuesOf[type \in TypeDefs] ==
    LET of == [part \in Parts(type) |-> ValuesOf[part]]
    IN {value \in Json : Takes(type, value, of)}

\* _check_value finds no error, as a table
Accepted == [type \in TypeDefs |-> ValuesOf[type]]
Accepts(type, value) == value \in Accepted[type]
----------------------------------------------------------------------------
WiringInit ==
    /\ wireStep = "declared" /\ payload = [tag |-> "null"] /\ bound = <<>>
    /\ feeder = [kind |-> "output", gives |-> <<>>] /\ wants = <<>>

\* the author declares both ends
Declare ==
    /\ wireStep = "declared" /\ wants = <<>>
    /\ \E kind \in FeederKinds, p \in Params, rest \in {<<>>} \cup {<<q>> : q \in Params} :
          /\ \A k \in DOMAIN rest : rest[k].name # p.name
          /\ feeder' = [kind |-> kind, gives |-> <<p>> \o rest]
    /\ \E w \in Params : wants' = <<w>>
    /\ UNCHANGED <<wireStep, payload, bound>>

\* _provided_params: by name, the last of equals
Provided(name) == {k \in DOMAIN feeder.gives : feeder.gives[k].name = name}

\* check_wiring: whether the node always produces the value is not asked
Wires(want) ==
    IF Provided(want.name) = {} THEN ~want.required
    ELSE \A k \in Provided(want.name) : Compatible(feeder.gives[k].type, want.type)

CheckWiring ==
    /\ wireStep = "declared" /\ wants # <<>>
    /\ wireStep' = IF \A k \in DOMAIN wants : Wires(wants[k]) THEN "wired" ELSE "WireError"
    /\ UNCHANGED <<feeder, wants, payload, bound>>

\* a parameter that is required and has no default is in the value, each in it is typed
Fits(gives, fields) ==
    \A k \in DOMAIN gives :
        IF gives[k].name \in DOMAIN fields THEN Accepts(gives[k].type, fields[gives[k].name])
        ELSE ~gives[k].required

\* what validate_output lets through: one declared output is the bare value, several are fields
Produced(gives, value) ==
    IF Len(gives) = 1 THEN Accepts(gives[1].type, value)
    ELSE value.tag = "record" /\ Fits(gives, value.fields)

\* a Source answers with items whose fields are what it declares, or bare ones
SourceGives(gives, value) ==
    IF value.tag = "record" THEN Fits(gives, value.fields)
    ELSE Len(gives) = 1 /\ Accepts(gives[1].type, value)

Produce ==
    /\ wireStep = "wired"
    /\ \E value \in WireValues :
          /\ IF feeder.kind = "output" THEN Produced(feeder.gives, value)
             ELSE SourceGives(feeder.gives, value)
          /\ payload' = value
    /\ wireStep' = "produced"
    /\ UNCHANGED <<feeder, wants, bound>>

Bare(name, value) == [n \in {name} |-> value]
Nothing == [n \in {} |-> [tag |-> "null"]]

\* _gather_inputs: a value that is no object is dropped, or is the input "item" of its Run
Gathered ==
    IF payload.tag = "record" THEN payload.fields
    ELSE IF feeder.kind = "multi" THEN Bare("item", payload) ELSE Nothing

Gather ==
    /\ wireStep = "produced"
    /\ bound' = <<Gathered>>
    /\ wireStep' = "gathered"
    /\ UNCHANGED <<feeder, wants, payload>>

Missing(want) == want.name \notin DOMAIN bound[1] /\ want.required
WrongType(want) == want.name \in DOMAIN bound[1] /\ ~Accepts(want.type, bound[1][want.name])

\* Run.validate: every slot bound, then every slot typed
Validate ==
    /\ wireStep = "gathered"
    /\ wireStep' = IF \E k \in DOMAIN wants : Missing(wants[k]) THEN "InputBindingError"
                   ELSE IF \E k \in DOMAIN wants : WrongType(wants[k]) THEN "InputValidationError"
                   ELSE "running"
    /\ UNCHANGED <<feeder, wants, payload, bound>>

WiringNext == Declare \/ CheckWiring \/ Produce \/ Gather \/ Validate
----------------------------------------------------------------------------
(* Properties                                                               *)

\* The value came under the name its feeder declares for it
AsDeclared(want) ==
    /\ Provided(want.name) # {}
    /\ feeder.kind = "output" => Len(feeder.gives) > 1

\* The structural rules of the registry agree with the validator: whatever types two
\* nodes declare, a value produced under its declared name never turns a wire that was
\* accepted into a Run that is refused for its type.
WiredValuesFit ==
    wireStep = "InputValidationError" => \A k \in DOMAIN wants : AsDeclared(wants[k]) => ~WrongType(wants[k])

(* Claims of the documentation that do not hold (README, 5).                *)

\* "a mistyped wire is rejected before any model call": a single record is spread over
\* the inputs that have its fields' names.
MistypedIsCaught == wireStep # "InputValidationError"

\* "Two nodes wire together only when the upstream Output can supply every input the
\* downstream node requires."
WiredInputsArrive == wireStep # "InputBindingError"
=============================================================================
