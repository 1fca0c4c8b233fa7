------------------------------ MODULE Workflow ------------------------------
(***************************************************************************)
(* crawfish.workflow.Workflow: an ordered list of steps, Outputs threaded   *)
(* from one to the next, a checkpoint after each step so that a run that    *)
(* died can be resumed; and crawfish.nodes.sink.Sink, the only step with an *)
(* external effect, which claims an idempotency key before it writes.       *)
(*                                                                          *)
(* A run may die anywhere (the process, an exception, a cancellation): what *)
(* is in the Store survives, the rest is gone.  An action is the code       *)
(* between two places where that matters: awaits and store writes.          *)
(***************************************************************************)
EXTENDS Integers, Sequences

CONSTANTS Lineages,   \* lineages of the source's items
          Feed,       \* the items in the order the source yields them
          Kept,       \* the items that pass the predicate of a filter step
          Steps,      \* kinds of the steps, in order
          Branches,   \* branches of the routers: their step, label and kind
          Batches,    \* what a caller's context may give as batch_id
          MaxStarts   \* bound: how many times the caller runs or resumes

Kinds == {"source", "filter", "batch", "aggregate", "sink", "router"}

\* A branch that is a router is taken for the branches it leads to.
BranchKinds == {"filter", "batch", "aggregate", "sink"}

ASSUME WorkflowAssumption ==
    /\ Lineages \cap Nat = {}   \* a lineage is never a generated id
    /\ Feed \in Seq(Lineages)
    /\ Kept \subseteq Lineages
    /\ Steps \in Seq(Kinds)
    /\ \A b \in Branches : b.kind \in BranchKinds
    /\ MaxStarts \in Nat

VARIABLES status,     \* ledger_pipeline row: its status, "none" if there is no row
          doneSteps,  \* ledger_pipeline row: completed_steps
          saved,      \* workflow_state row
          claims,     \* idempotency rows
          stage,         \* where the run is
          idx,        \* index of the step
          done,       \* the steps this run skips
          current,    \* the Outputs handed to the step
          todo,       \* those the step has not processed
          out,        \* what it has produced
          batch,      \* batch_id of the run's context
          sink,       \* the sink whose write was claimed and is to follow
          nextId,     \* source of Output ids
          effects,    \* log of the writes that reached the outside
          starts,     \* runs and resumes so far
          gaps        \* of the two deaths nothing makes up for, those there were

store == <<status, doneSteps, saved, claims>>
local == <<idx, done, current, todo, out, batch, sink>>
workflowVars == <<store, stage, local, nextId, effects, starts, gaps>>

\* An Output: its identity (lineage, or id where it has none), the source items its
\* value comes from, and the last step that computed its value or chose its branch.
Identity == Lineages \cup Nat
Output == [who : Identity, from : SUBSET Lineages, after : 0 .. Len(Steps)]

\* A sink, a step's own or a branch's: its name and static config, in which the sinks of
\* one workflow are taken to differ.
Sinks == (1 .. Len(Steps)) \X ({"own"} \cup {b.label : b \in Branches})
NoSink == <<0, "none">>
SinksOf(k) == IF Steps[k] = "sink" THEN {<<k, "own">>}
              ELSE {<<k, b.label>> : b \in {x \in Branches : x.step = k /\ x.kind = "sink"}}

Effect == [sink : Sinks, batch : Batches, who : Identity, from : SUBSET Lineages]
Resting == {"idle", "returned"}

\* between a claim and its write, and between the mark of a step and the save of its Outputs
Gaps == {"write", "save"}
----------------------------------------------------------------------------
ListsTyped ==
    /\ saved \in Seq(Output) /\ current \in Seq(Output)
    /\ todo \in Seq(Output) /\ out \in Seq(Output)
    /\ effects \in Seq(Effect)

RowsTyped ==
    /\ status \in {"none", "running", "done"}
    /\ doneSteps \subseteq 1 .. Len(Steps) /\ done \subseteq 1 .. Len(Steps)
    /\ claims \subseteq Sinks \X Batches \X Identity

PlaceTyped ==
    /\ stage \in Resting \cup {"next", "work", "write", "check", "save"}
    /\ idx \in 1 .. Len(Steps) + 1
    /\ stage \notin Resting \cup {"next"} => idx <= Len(Steps)
    /\ stage \notin Resting => batch \in Batches
    /\ stage = "write" =>
          todo # <<>> /\ Steps[idx] \in {"sink", "router"} /\ sink \in SinksOf(idx)
    /\ nextId \in Nat
    /\ starts \in 0 .. MaxStarts
    /\ gaps \subseteq Gaps

WorkflowTypeOK == ListsTyped /\ RowsTyped /\ PlaceTyped

WorkflowInit ==
    /\ status = "none" /\ doneSteps = {} /\ saved = <<>> /\ claims = {}
    /\ stage = "idle" /\ idx = 1 /\ done = {}
    /\ current = <<>> /\ todo = <<>> /\ out = <<>>
    /\ batch = "none" /\ sink = NoSink
    /\ nextId = 0 /\ effects = <<>> /\ starts = 0 /\ gaps = {}
----------------------------------------------------------------------------
Begin ==
    /\ stage \in Resting /\ starts < MaxStarts
    /\ starts' = starts + 1
    /\ stage' = "next" /\ idx' = 1
    /\ todo' = <<>> /\ out' = <<>>
    /\ batch' \in Batches /\ sink' = NoSink
    /\ UNCHANGED <<saved, claims, nextId, effects, gaps>>

\* run(resume = False): start_pipeline; the workflow_state row is left as it was
Run ==
    /\ Begin
    /\ status' = "running" /\ doneSteps' = {}
    /\ done' = {} /\ current' = <<>>

StepsToSkip == doneSteps

\* run(resume = True)
ResumePipeline ==
    /\ Begin
    /\ done' = StepsToSkip /\ current' = saved
    /\ UNCHANGED <<status, doneSteps>>

Skip ==
    /\ stage = "next" /\ idx \in done
    /\ idx' = idx + 1
    /\ UNCHANGED <<store, stage, done, current, todo, out, batch, sink, nextId, effects, starts,
                   gaps>>

EnterStep ==
    /\ stage = "next" /\ idx <= Len(Steps) /\ idx \notin done
    /\ stage' = "work" /\ todo' = current /\ out' = <<>>
    /\ UNCHANGED <<store, idx, done, current, batch, sink, nextId, effects, starts, gaps>>

AtStep(kind) == stage = "work" /\ Steps[idx] = kind

\* The next item is for a step of this kind: the step of the workflow, or the branch of a
\* router that its classifier chose, which may choose another when it is asked again.
Branching(k, kind) ==
    Steps[k] = "router" /\ \E b \in Branches : b.step = k /\ b.kind = kind
ItemFor(kind) ==
    /\ stage = "work" /\ todo # <<>>
    /\ Steps[idx] = kind \/ Branching(idx, kind)

\* what a router hands on keeps the lineage of the item it came from
Routed(o) == IF Steps[idx] = "router" THEN [o EXCEPT !.after = idx] ELSE o

\* fetch and fan_out: every item has a lineage of its own
Fetch ==
    /\ AtStep("source")
    /\ out' = [k \in DOMAIN Feed |-> [who |-> Feed[k], from |-> {Feed[k]}, after |-> idx]]
    /\ stage' = "check"
    /\ UNCHANGED <<store, idx, done, current, todo, batch, sink, nextId, effects, starts, gaps>>

\* a predicate looks at the value; an aggregated one passes
Passes(o) == o.who \in Lineages => o.who \in Kept

\* the predicate, which is the caller's code, is asked about one item after the other
FilterItem ==
    /\ ItemFor("filter")
    /\ out' = IF Passes(Head(todo)) THEN Append(out, Routed(Head(todo))) ELSE out
    /\ todo' = Tail(todo)
    /\ UNCHANGED <<store, stage, idx, done, current, batch, sink, nextId, effects, starts, gaps>>

\* model_copy(update = lineage): the run's Output has a fresh id of its own
LineageOf(o) == IF o.who \in Lineages THEN o.who ELSE nextId

\* one Run of the definition per item; or the reduce of one item that is a router's branch
BatchItem ==
    /\ ItemFor("batch") \/ (ItemFor("aggregate") /\ Steps[idx] = "router")
    /\ LET o == Head(todo)
       IN  out' = Append(out, [who |-> LineageOf(o), from |-> o.from, after |-> idx])
    /\ todo' = Tail(todo)
    /\ nextId' = nextId + 1
    /\ UNCHANGED <<store, stage, idx, done, current, batch, sink, effects, starts, gaps>>

\* reduce: all items into one Output, which has no lineage
Aggregate ==
    /\ AtStep("aggregate")
    /\ out' = << [who |-> nextId, from |-> UNION {todo[k].from : k \in DOMAIN todo},
                  after |-> idx] >>
    /\ nextId' = nextId + 1
    /\ stage' = "check"
    /\ UNCHANGED <<store, idx, done, current, todo, batch, sink, effects, starts, gaps>>

\* hash of sink, batch, lineage or id
SinkKey(s, o) == <<s, batch, o.who>>

ClaimIgnored(k) == claims' = claims \cup {k} /\ stage' = "write"   \* mutated: always won

\* INSERT OR IGNORE: whoever inserts the row writes
Claim(k) ==
    /\ k \notin claims
    /\ claims' = claims \cup {k}
    /\ stage' = "write"

SinkClaim ==
    /\ ItemFor("sink")
    /\ \E s \in SinksOf(idx) : sink' = s /\ Claim(SinkKey(s, Head(todo)))
    /\ UNCHANGED <<status, doneSteps, saved, idx, done, current, todo, out, batch, nextId,
                   effects, starts, gaps>>

\* a sink passes its item on
Handed == IF Steps[idx] = "router" THEN Append(out, Routed(Head(todo))) ELSE out

\* the claim was taken: write returns False
SinkSkip ==
    /\ ItemFor("sink")
    /\ \E s \in SinksOf(idx) : SinkKey(s, Head(todo)) \in claims
    /\ out' = Handed /\ todo' = Tail(todo)
    /\ UNCHANGED <<store, stage, idx, done, current, batch, sink, nextId, effects, starts, gaps>>

SinkWrite ==
    /\ stage = "write"
    /\ effects' = Append(effects, [sink |-> sink, batch |-> batch, who |-> Head(todo).who,
                                   from |-> Head(todo).from])
    /\ out' = Handed /\ todo' = Tail(todo)
    /\ stage' = "work" /\ sink' = NoSink
    /\ UNCHANGED <<store, idx, done, current, batch, nextId, starts, gaps>>

\* the last item is through; a sink step returns what it was given
ItemsDone ==
    /\ AtStep("filter") \/ AtStep("batch") \/ AtStep("sink") \/ AtStep("router")
    /\ todo = <<>>
    /\ out' = IF Steps[idx] = "sink" THEN current ELSE out
    /\ stage' = "check"
    /\ UNCHANGED <<store, idx, done, current, todo, batch, sink, nextId, effects, starts, gaps>>

\* checkpoint_step does nothing when there is no row to update
MarkStep == doneSteps' = IF status = "none" THEN doneSteps ELSE doneSteps \cup {idx}

Checkpoint ==
    /\ stage = "check"
    /\ MarkStep
    /\ current' = out
    /\ stage' = "save"
    /\ UNCHANGED <<status, saved, claims, idx, done, todo, out, batch, sink, nextId, effects,
                   starts, gaps>>

StateSaved == current

SaveState ==
    /\ stage = "save"
    /\ saved' = StateSaved
    /\ stage' = "next" /\ idx' = idx + 1
    /\ UNCHANGED <<status, doneSteps, claims, done, current, todo, out, batch, sink, nextId,
                   effects, starts, gaps>>

FinishPipeline ==
    /\ stage = "next" /\ idx = Len(Steps) + 1
    /\ status' = IF status = "none" THEN "none" ELSE "done"
    /\ stage' = "returned"
    /\ UNCHANGED <<doneSteps, saved, claims, local, nextId, effects, starts, gaps>>

Forgotten ==
    /\ idx' = 1 /\ done' = {} /\ current' = <<>> /\ todo' = <<>> /\ out' = <<>>
    /\ batch' = "none" /\ sink' = NoSink

\* the process dies, a step or a write raises, or the token is cancelled
Die ==
    /\ stage \notin Resting
    /\ gaps' = gaps \cup ({stage} \cap Gaps)
    /\ stage' = "idle" /\ Forgotten
    /\ UNCHANGED <<store, nextId, effects, starts>>

WorkflowNext ==
    \/ Run \/ ResumePipeline \/ Skip \/ EnterStep
    \/ Fetch \/ FilterItem \/ BatchItem \/ Aggregate
    \/ SinkClaim \/ SinkSkip \/ SinkWrite
    \/ ItemsDone \/ Checkpoint \/ SaveState \/ FinishPipeline
    \/ Die

WorkflowSpec == WorkflowInit /\ [][WorkflowNext]_workflowVars
----------------------------------------------------------------------------
(* Properties                                                               *)

\* Whatever dies, resumes or runs again, a sink never writes one Output
\* identity of one batch twice (Sink.write claims before it writes).
KeyWrittenOnce ==
    \A j, k \in DOMAIN effects :
        /\ effects[j].sink = effects[k].sink /\ effects[j].batch = effects[k].batch
        /\ effects[j].who = effects[k].who
        => j = k

Sources == {Feed[k] : k \in DOMAIN Feed}
From(list) == UNION {list[k].from : k \in DOMAIN list}

\* What an earlier step j did still holds before step k: no source began anew in between
Holds(j, k) == \A i \in j + 1 .. k - 1 : Steps[i] # "source"

Aggregated(k) == \E j \in 1 .. k - 1 : Steps[j] = "aggregate" /\ Holds(j, k)

\* what a filter step drops, and what a router may let a filter drop
Narrowed(k) == \E j \in 1 .. k - 1 : Steps[j] = "filter" /\ ~Aggregated(j) /\ Holds(j, k)
Filtering(k) == Steps[k] = "filter" \/ Branching(k, "filter")
Thinned(k) == \E j \in 1 .. k - 1 : Filtering(j) /\ ~Aggregated(j) /\ Holds(j, k)

\* the items that may get to step k, those that must, and the step that last computed what
\* gets there
Expected(k) == IF Narrowed(k) THEN Sources \cap Kept ELSE Sources
Due(k) == IF Thinned(k) THEN Sources \cap Kept ELSE Sources
Arrived(items, k) == Due(k) \subseteq items /\ items \subseteq Expected(k)
Computing == {k \in DOMAIN Steps : Steps[k] \in {"source", "batch", "aggregate", "router"}}
LastComputed(j, k) ==
    j \in Computing /\ j < k /\ \A i \in j + 1 .. k - 1 : i \notin Computing

\* A run that returns hands over every item, computed by the last step.
ResultComplete ==
    stage = "returned" =>
        /\ Arrived(From(current), Len(Steps) + 1)
        /\ \A k \in DOMAIN current : LastComputed(current[k].after, Len(Steps) + 1)

\* ... unless one died after its checkpoint and before its state was saved.
ResultCompleteBarGap == "save" \notin gaps => ResultComplete

WrittenBy(k) == UNION {effects[j].from : j \in {i \in DOMAIN effects : effects[i].sink[1] = k}}

\* a sink, or a router that leads to nothing else
WritesAll(k) ==
    \/ Steps[k] = "sink"
    \/ Steps[k] = "router" /\ \A b \in Branches : b.step = k => b.kind = "sink"

\* When a run has returned, each such step has written every item that should get to it.
EffectsComplete ==
    stage = "returned" => \A k \in DOMAIN Steps : WritesAll(k) => Arrived(WrittenBy(k), k)

\* ... unless one died there, or between a claim and its write.
EffectsCompleteBarGap == gaps \cap {"save", "write"} = {} => EffectsComplete

\* These two deaths are the only ones a resumed run does not make up for.
CompleteBarGap == ResultCompleteBarGap /\ EffectsCompleteBarGap

\* So each effect is made once and no item is lost, whatever dies elsewhere.
EffectsAreExact == KeyWrittenOnce /\ CompleteBarGap

(* Claims of the documentation that do not hold (README, 5).                *)

\* Running again writes nothing a sink has already written.
ContentWrittenOnce ==
    \A j, k \in DOMAIN effects :
        /\ effects[j].sink = effects[k].sink /\ effects[j].batch = effects[k].batch
        /\ effects[j].from = effects[k].from
        => j = k
=============================================================================
