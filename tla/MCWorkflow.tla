----------------------------- MODULE MCWorkflow -----------------------------
(* What is killed and started again: a behaviour is one of Workflow, or two   *)
(* invocations of Demo, of any mode, with and without --budget, over one      *)
(* ticket to tune on and one to gate on.                                      *)
EXTENDS Workflow, Demo, TLC

CONSTANTS a, b, night, day, Focuses

VARIABLE focus

MCItems == {a, b}
MCFeed == <<a, b>>
MCKept == {a}
MCBatches == {night, day}
BatchSymmetry == Permutations(MCBatches)

\* a router to a filter and a sink, one to a batch and an aggregate, one to two sinks
AllKinds == <<"source", "router", "filter", "batch", "sink", "aggregate", "router", "router">>
MCBranches == {[step |-> 2, label |-> "spam", kind |-> "filter"],
               [step |-> 2, label |-> "log", kind |-> "sink"],
               [step |-> 7, label |-> "bug", kind |-> "batch"],
               [step |-> 7, label |-> "sum", kind |-> "aggregate"],
               [step |-> 8, label |-> "mail", kind |-> "sink"],
               [step |-> 8, label |-> "page", kind |-> "sink"]}

\* and the plain case
Keyed == <<"source", "filter", "batch", "sink">>

\* a temper frees a few kinds of answer at a time
Even == [triage |-> {"right"}, draft |-> {"text"}, verdict |-> {"accept"}, sub |-> {"text"},
         vote |-> {"bug"}, confidence |-> {"low"}, rule |-> {"good"}]
MCTempers ==
    {[Even EXCEPT !.triage = {"right", "wrong"}],
     [Even EXCEPT !.verdict = {"accept", "reject"}, !.sub = {"text", "other"}],
     [Even EXCEPT !.vote = {"bug", "billing"}, !.confidence = {"none", "low", "high"},
                  !.rule = {"good", "poor", "prose"}]}
MCTuneSet == <<"t1">>
MCGateSet == <<"t2">>
MCTemps == <<0, 2>>
MCFees == {0, 5, 20}             \* nothing, the price assumed, four times it
MCCeilings == {{}, {1}, {500}}   \* none, less than the worst case, more

PipelinesInit ==
    /\ focus \in Focuses /\ WorkflowInit /\ DemoInit
    /\ focus = "workflow" => fee = 0 /\ temper = CHOOSE t \in MCTempers : TRUE

PipelinesNext ==
    /\ UNCHANGED focus
    /\ \/ focus = "workflow" /\ WorkflowNext /\ UNCHANGED demoVars
       \/ focus = "demo" /\ DemoNext /\ UNCHANGED workflowVars

PipelinesSpec == PipelinesInit /\ [][PipelinesNext]_<<focus, workflowVars, demoVars>>
=============================================================================
