------------------------------- MODULE MCRuns -------------------------------
(* What happens inside one step of a pipeline and around its runs, each part     *)
(* checked by itself: a behaviour is one of Loops, of RuntimeStack (with its     *)
(* preview), of Wiring, of Answers, of Serving, which decides whose step it is, of a half of *)
(* Contexts, of CronLoop, which begins the runs, or of Observer (two runs, over  *)
(* a few minutes).                                                               *)
EXTENDS Loops, RuntimeStack, Answers, Serving, Contexts, Observer

CONSTANTS m1, m2, m3, p1, p2, yes, no

VARIABLE focus

\* two bodies and three answers: accepted, fluid and refused, worse and refused
MCAnswers == {[score |-> 1, fluid |-> FALSE, ok |-> TRUE],
              [score |-> 1, fluid |-> TRUE, ok |-> FALSE],
              [score |-> 0, fluid |-> FALSE, ok |-> FALSE]}

\* m3 is an alias of m1, p1 does not serve m2, the second agent is routed to m1
MCModels == {m1, m2, m3}
MCProviders == {p1, p2}
MCRegistered == <<p1, p2>>
MCAlias == m3 :> m1
MCSupports == p1 :> {m1} @@ p2 :> {m1, m2}
MCAgentModels == <<<<m3, m1, m2>>, <<m2>>>>

\* dear first model, dear strong model, free first model
MCPriceTables == {m1 :> 2 @@ m2 :> 1 @@ m3 :> 9, m1 :> 1 @@ m2 :> 3 @@ m3 :> 9,
                  m1 :> 0 @@ m2 :> 3 @@ m3 :> 9}
MCOtherShapes == {<<>>, <<Measured(Times(3), 4, 2)>>, <<Measured(Times(2), 9, 2), Recurse(2, 1)>>}

Prim(n) == [kind |-> "primitive", name |-> n]
OptionalOf(t) == [kind |-> "optional", item |-> t]
ListOf(t) == [kind |-> "list", item |-> t]
RecordOf(f) == [kind |-> "record", fields |-> f]
Ticket == RecordOf([item |-> Prim("str")])
RichTicket == RecordOf([item |-> Prim("str"), n |-> OptionalOf(Prim("int"))])
MCTypes == {Prim("str"), Prim("int"), Prim("float"), Prim("json"), Prim("PR"),
            OptionalOf(Prim("str")), ListOf(Prim("str")), ListOf(OptionalOf(Prim("str"))),
            Ticket, RichTicket, OptionalOf(RichTicket)}
MCTypeDefs == MCTypes \cup UNION {Parts(t) : t \in MCTypes}
Text == [tag |-> "str"]
Number == [tag |-> "int"]
Null == [tag |-> "null"]
Object(f) == [tag |-> "record", fields |-> f]
MCValues == {Text, Number, Null,
             [tag |-> "list", items |-> <<Text>>], [tag |-> "list", items |-> <<Text, Null>>],
             Object([item |-> Text]), Object([item |-> Null]),
             Object([item |-> Text, n |-> Null]), Object([item |-> Text, n |-> Number]),
             Object([item |-> Object([item |-> Text, n |-> Number])])}

Within(values) == values \cup UNION {Range(v.items) : v \in {w \in values : w.tag = "list"}}
                         \cup UNION {Range(v.fields) : v \in {w \in values : w.tag = "record"}}

\* answers: one document bare, in prose, behind and in a fence, several documents, a list of
\* objects, numbers and words; the confidences 0.3, 0.9 and 95
Word(w) == [is |-> "word", w |-> w, fence |-> 0]
Num(n) == [is |-> "num", n |-> n, fence |-> 0]
Doc(v) == [is |-> "doc", v |-> v, fence |-> 0]
Broken == [is |-> "broken", fence |-> 0]
Fence(piece) == [piece EXCEPT !.fence = 1]
Float(n) == [tag |-> "float", n |-> n]
Label(n) == Object([label |-> Text, confidence |-> Float(n)])
MCAnswered == {<<Doc(Label(9))>>, <<Word("ok"), Doc(Label(3))>>, <<Doc(Label(950)), Word("bug")>>,
               <<Num(9)>>, <<Word("bug"), Num(3), Word("ok")>>,
               <<Fence(Doc(Label(9)))>>, <<Doc(Label(3)), Fence(Doc(Label(9)))>>,
               <<Fence(Word("x")), Doc(Label(9))>>,
               <<Doc([tag |-> "list", items |-> <<Label(9), Label(3)>>])>>,
               <<Doc([tag |-> "list", items |-> <<Text>>])>>,
               <<Broken, Doc(Label(9))>>,
               <<Doc(Object([confidence |-> Float(3)])), Doc(Object([label |-> Text]))>>,
               <<Doc(Object([label |-> Text, confidence |-> [tag |-> "str", text |-> <<Num(9), Word("%")>>]]))>>}

\* the documents in an answer, what they are made of, and what a grammar keeps of them
MCDocs == UNION {{text[k].v : k \in {i \in DOMAIN text : text[i].is = "doc"}} : text \in MCAnswered}
MCKept == UNION {{Object([f \in kept |-> v.fields[f]]) :
                      kept \in SUBSET (DOMAIN v.fields \cap {"label", "confidence"})} :
                    v \in {w \in Within(MCDocs) : w.tag = "record"}}
MCJson == Within(Within(MCValues)) \cup Within(Within(MCDocs)) \cup MCKept \cup {Float(3), Float(9)}

Out(name, type) == [name |-> name, type |-> type, required |-> TRUE, flow |-> "fluid"]
Fixed(name, type) == [name |-> name, type |-> type, required |-> TRUE, flow |-> "static"]
MCSchemas == {<<>>, <<Out("text", Prim("str"))>>, <<Fixed("confidence", Prim("float"))>>,
              <<Out("label", Prim("str")), Out("confidence", Prim("json"))>>,
              <<Out("label", Prim("str")), Fixed("note", Prim("json"))>>,
              <<Fixed("found", ListOf(Prim("str")))>>, <<Fixed("note", Prim("json"))>>}

SinkNamed(name) == [is |-> "sink", name |-> name, flow |-> "static"]
Plain == [is |-> "end"]
ByModel(bug, ok) == [agent |-> TRUE, labels |-> <<"bug", "ok">>, default |-> "ok", branches |-> [bug |-> bug, ok |-> ok]]
ByTest(ship) == [agent |-> FALSE, labels |-> <<"review", "lists">>, default |-> "ship",
                 tests |-> [review |-> "abstained", lists |-> "listed"],
                 branches |-> [review |-> Plain, lists |-> SinkNamed("issue")] @@ ship]
MCRouters == {ByModel(SinkNamed("pr"), Plain), ByModel(SinkNamed("pr"), SinkNamed("issue")),
              ByModel(SinkNamed("pr"), SinkNamed("pr")),
              ByModel(SinkNamed("pr"), [is |-> "node", leads |-> "issue"]),
              ByModel([SinkNamed("pr") EXCEPT !.flow = "fluid"], Plain),
              ByTest(<<>>), [ByModel(Plain, Plain) EXCEPT !.default = "other"]}

\* every way to read an answer into one router, every router behind plain answers
MCReading == {[j EXCEPT !.raise = t[1], !.decline = t[2]] :
                 j \in [outputs : MCSchemas, constrained : BOOLEAN, onInvalid : {"repair", "dead_letter"},
                        agents : {1, 2}, fluidIn : {FALSE}, raise : {0}, decline : {0},
                        router : {ByTest("ship" :> SinkNamed("pr"))}],
                 t \in {<<0, 0>>, <<0, 9>>, <<5, 5>>, <<5, 10>>}}
MCJobs == MCReading \cup
          [outputs : {<<>>, <<Fixed("confidence", Prim("float"))>>}, constrained : {FALSE},
           onInvalid : {"dead_letter"}, agents : {1}, fluidIn : BOOLEAN, raise : {0},
           decline : {5}, router : MCRouters]

\* one item is explored always, one at first, one never
MCHashOf == [a |-> 0, b |-> 1, c |-> 3]

\* a limit of 4 tokens; keeping none and keeping some; a role that is delegated to twice
MCStyle(name, keep) == [name |-> name, limit |-> 4, keep |-> keep]
MCStyles == {MCStyle("max_tokens", 0), MCStyle("max_tokens", 2), MCStyle("linear_compact", 0),
             MCStyle("linear_compact", 2), MCStyle("exponential_compact", 5),
             MCStyle("summarize", 1)}
MCTeams == [coordination : {"sequential", "lead"},
            carry : {"full", "recency", "summary", "typed_fields"},
            roles : {<<"a", "b", "c", "d", "e">>, <<"a", "b", "a", "c", "d", "e">>},
            inputs : {{"config"}, {"config", "ticket"}}]

RunsInit ==
    /\ focus \in {"loops", "stack", "wiring", "answers", "serving", "transcript", "team", "cron", "observer"}
    /\ LoopInit /\ StackInit /\ WiringInit /\ AnswersInit /\ ServingInit /\ ContextsInit /\ CronInit
    /\ focus # "transcript" => style = MCStyle("summarize", 1)
    /\ focus # "team" => team = CHOOSE t \in MCTeams : TRUE
    /\ IF focus = "observer" THEN ObserverInit ELSE runInfo = <<>> /\ findings = {}
    /\ focus \notin {"cron", "observer"} => clock = 0 /\ schedule = [kind |-> "interval", every |-> 1]

RunsNext ==
    /\ UNCHANGED focus
    /\ IF focus = "loops" THEN LoopNext ELSE UNCHANGED loopVars
    /\ IF focus = "stack" THEN StackNext ELSE UNCHANGED stackVars
    /\ IF focus = "wiring" THEN WiringNext ELSE UNCHANGED wiringVars
    /\ IF focus = "answers" THEN AnswersNext ELSE UNCHANGED answersVars
    /\ IF focus = "serving" THEN ServingNext ELSE UNCHANGED servingVars
    /\ IF focus \in {"transcript", "team"} THEN ContextsNext ELSE UNCHANGED contextsVars
    /\ focus = "transcript" => UNCHANGED teamVars
    /\ focus = "team" => UNCHANGED transcriptVars
    /\ CASE focus = "cron" -> CronNext /\ UNCHANGED <<runInfo, findings>>
         [] focus = "observer" -> ObserverNext
         [] OTHER -> UNCHANGED observerVars

RunsSpec ==
    RunsInit /\ [][RunsNext]_<<focus, loopVars, stackVars, wiringVars, answersVars, servingVars, contextsVars, observerVars>>
=============================================================================
