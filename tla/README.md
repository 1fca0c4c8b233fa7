# TLA+ models of Crawfish

Crawfish runs teams of language-model agents over bulk data: a *Definition*
(a frozen, content-addressed agent team) is run once per item of a *Source*, the
results are filtered, aggregated and written by *Sinks*, and everything that has
to outlive the process is in a `Store` (SQLite). The code is one Python package,
`packages/crawfish/src/crawfish/`; paths below are relative to it.

The hard part of the system is what happens between the awaits of one event
loop, between the Store writes of one process, and between the Store accesses of
several processes. That is what these modules are about.

## 1. Inventory

| Part | State | Operations | Interacts with | What is hard, what must hold |
|---|---|---|---|---|
| Batch executor (`executor.py`, `retry.py`, `core/context.py`) | work queue, worker coroutines, results; ledger rows, dead letters | run, resume, replay, retry, hard kill | runtime (model calls), Store, `CostBudget`, `CancelToken` | interleaved workers, budget breach with calls in flight, cancellation during a backoff; no item twice, ledger = result, the call ends |
| Workflow (`workflow.py`, `nodes/*.py`) | step results, `ledger_pipeline`, `workflow_state`, idempotency claims | run, resume, the step kinds, a Router's branches, `Sink.write` | Store, Run, Batch | death between any two writes; no effect twice, nothing lost, nothing paid twice |
| Program loops, Recurse, Refine, Verifier (`workflow.py`, `refine.py`, `verifier.py`) | loop rows, streak, best attempt | iterate or recurse to a bound, a verdict or no progress | ledger, runtime, budget | a resumed loop against the one it resumes, taint over iterations, the best of several attempts |
| Ledger (`ledger.py`) | pipeline, item, loop and run rows | mark, checkpoint, reconcile | everything durable | stale rows after a crash |
| Store (`store/*.py`) | one database file: schema version, tables, rows; a connection and its transaction per process | open with its migrations, put, get, claim, append | everything | several processes of older and newer builds, a failed INSERT that leaves its transaction open; claims won once, no event lost, schema and version agree |
| Borrow (`borrow.py`) | epoch record and claims | acquire, release | Store | exclusion between processes, holder dies |
| Authoring-tree lock (`code/treelock.py`) | one key-value entry | read and write leases | `code/sync.py`, `code/new.py` | unsynchronised read-modify-write |
| Caching runtime (`cache.py`, `runtime/replay.py`) | cassettes, in-flight Futures, statistics | run | inner runtime, budget | coalescing, failure and cancellation of the leader or of a waiter, tenants |
| Batch and Run (`batch.py`, `run.py`, `validation.py`) | run rows, outputs | fan out, execute, repair, gather inputs | runtime, budget, token, declared types | breach and cancellation across tasks; what a checked wire may hand over |
| Deployment (`deploy.py`, `triggers.py`, `manage.py`, `code/control.py`) | registry, run rows, run info | deploy, stop, restart, serve, reconcile | processes, ledger | two supervisors on one ledger, a crash anywhere |
| Approval gate (`code/gate.py`) | proposals, decisions, version lineage | propose, approve, apply, reject | Store, files | stale approvals, pointer moves row by row |
| Quorum, escalation, routing, team and provider runtimes (`runtime/*.py`, `routing.py`) | samples, attempts | run | each other, budget, token | several answers under one budget; votes at their boundaries; failover after a paid answer |
| Guards, corrections and evaluation cases (`guard.py`, `emission.py`, `eval.py`, `verifier.py`) | corrections, the golden set, earned stages | emit, mine, label, migrate, synthesize, gate | Store | read-modify-write of a case, lifting old rows, a small sample's certificate; authority only on trusted cases |
| Learning, tuning (`learning.py`, `tuner.py`, `eval.py`, `metrics.py`) | lineage, baselines with their noise, trials | improve, promote, roll back, calibrate, carry weights over | Store, budget, breaker | two cycles at once, a death between pointer and baseline or between scores and noise; promotion only past the gate, weights that move knobs only |
| Online exploration (`learning.py`) | decisions, rewards per arm | route, graduate | budget, emission ledger | decay and budget that run out mid-way, outcomes in any order, a restart; exploration only shrinks |
| Definition store (`definition_store.py`) | objects, version rows, head | save, modify, recall, reset | Store | lost updates of a row or of the head |
| Resolver (`resolve.py`) | frames of a depth-first walk, lock | resolve | candidate source | cycles, diamonds, versions already pinned |
| Diff, merge, derive (`agentdiff.py`, `derive.py`) | three definitions | diff, merge | `alg3.py` | merging lists by identity, removals against changes, no silent widening |
| Secret broker (`secrets.py`) | grant manifest, leases, approval queue | consent, revoke, lease, resolve, send, MCP config | Store, egress, an operator | decisions and grants that change between two leases; a batch that fails halfway |
| Consent, provenance, authoring commands (`secrets.py`, `provenance.py`, `code/*.py`, `definition/jailed.py`) | tree on disk, stamps, grant | new, sync, describe, map, grant, consent | tree lock, jail, Store | files change between look, compile and stamp |
| Anomaly engine (`anomaly.py`, `emission.py`) | event stream, ceiling, token | evaluate, guard, halt | budget, token | findings are events too; calls in flight at a halt |
| Observers (`observer.py`, `observe.py`) | run info, findings | poll, judge | Store, schedule, budget | windows by the begin of runs, a slow judge; trouble found, no false alarm |
| Cost preview (`cost.py`) | none | estimate, compose, `from_runtime` | runtimes, prices | a worst case that really is one under nesting and failover |
| Manage and inspector (`manage.py`, `inspector.py`) | `deployments.json`, the event stream of a run | deploy, list, resolve, follow, report | registries of several directories, Runs of one run | read-modify-write of a file by several commands; a follower by sequence number; what a report adds up |
| Artifacts (`artifacts/local.py`, `runtime/context_artifact.py`) | files by content, staged files | put, get, delete, gc, offload, persist, hydrate | file system, Store | two puts of one content, a sweep beside a put, a crash between them |
| Context carrying (`runtime/context_strategy.py`, `runtime/team.py`, `core/context.py`) | transcript, Context of a team | compact, carry, reduce | model calls, artifacts | summaries of summaries, taint that must outlive them, names that collide |
| Demo scenario (`demo/triage-bot/self_improve.py`, `craw demo`) | cassettes, one budget, the evidence of each step | invoke, record, replay, each step that calls a model, the verdict | `RecordReplayRuntime`, Quorum, Refine, Recurse, calibration, budget | dies between a paid call, its cassette and its charge, and is invoked again; a ceiling computed beforehand must do, and the evidence must not depend on who recorded it |
| Everything else | none that is durable or shared | | | see *Not modelled* |

`PROJECT.json` lists the same parts with their sources, and under `hazards` each
thing that is hard to test, at its line, with the properties that cover it.

## 2. Modules

An action is the code a process or a coroutine runs between two places where
another one can get in between: an `await` in one event loop, an access of the
Store (or of the component's files) between processes. Variables are the fields
and rows the code keeps; a few *ghost* variables and fields record what has
happened so that a property can name it (`raced`, `shared`, `gaps`, `granted`,
`deaths`, `met`, `slack`, `effects`, `orphaned`, `leaves`, `collided`, `lost`,
`halted`, `overtaken`, `fell`, `acked`, `winners`, `crowded`, `ruled`, `latest`, `contended`, `clashed`, `mixed`, `failed`,
`abandoned`, `unfinished`, `said`, `found.own`, `base` of a version row). They never appear in a guard.

| Module | Models | State | Actions |
|---|---|---|---|
| `BatchExecutor` | `BatchExecutor.run`, `resume`, `replay`, `run_with_retry`, `CostBudget`, `CancelToken` | queue, worker places, attempts, spend, kill list, ledger rows, dead letters, results | `RunAll`, `Resume`, `Replay` start a call; per worker `Take` (dequeue up to the model call), `CallReturns`, `CallFails`, `Wake` (after the backoff), `Exit`; `Finish`; `Cancel` |
| `BatchContract` | what the caller of `run` may rely on (abstract) | work list, outcome per item, status | `Begin`, `Settle`, `Complete`, `Abort` |
| `Workflow` | `Workflow.run`/`resume` over steps of every kind, a Router as the branch each item is sent to, `Sink.write`, the pipeline row and `workflow_state` | rows, place, Outputs handed on, the caller's `batch_id`, log of effects | `Run`, `ResumePipeline`, `Skip`, `EnterStep`, each step item by item (`Fetch`, `FilterItem`, `BatchItem`, `Aggregate`, `ItemsDone`), `SinkClaim`, `SinkSkip`, `SinkWrite`, `Checkpoint`, `SaveState`, `FinishPipeline`, `Die` |
| `Demo` | `run_self_improvement` and the verdict `DemoResult.passed`, over invocations in every mode of `craw demo` | the cassettes, the step, the answers it heard, spend, ceiling, what a step found | `Invoke`, one action per step that calls a model, each call a step (`Consult`), `FireSink`, death between calls and in a cassette |
| `Loops` | `Program._drive_item` (a back edge), `Recurse.execute`, `Refine.execute`, with a verdict of the model or a test of the code, `Verifier`'s streak, `checkpoint_iteration` | loop rows, cassettes, the loop in hand, results per item | `EnterLoop`, `EnterVisit`, `Body`, `Judge`, `MarkVisit`, `LeaveLoop`, `LoopsReturn`, cancellation, death |
| `RuntimeStack` | `run_team` over `QuorumRuntime`, `EscalatingRuntime`, `RoutingRuntime` and `ProviderRuntime`; `estimate_cost`, `CostShape`, `compose_cost`, `from_runtime` against the calls it makes | the stack of calls, samples, attempts, spend, token | `NextAgent`, `NextSample`, `EnterLeaf`, `AskProvider`, `ProviderAnswers`, `ProviderFails`, `Unwired`, `SampleReplayed`, `Vote`, cancellation |
| `Wiring` | declared types against the values that arrive: `TypeRegistry`, `Batch.check_wiring`, `validate_output`, `_gather_inputs`, `Run.validate` | one wire, its value, the inputs it becomes | `Declare`, `CheckWiring`, `SourceGives` or `Produce`, `Gather`, `Validate` |
| `Answers` | from the text a model answers to the Sink: `EscalatingRuntime`, `Grammar`, `validate_output` and the one repair, `abstain_below`, `Classifier`, `Router` | the author's pieces, the last text, the value, the Output, Sinks reached | `Assemble` (with all its refusals), `AgentAnswers`, `Validated`, `Repair`, `Refused`, `Abstain`, `RouteOutput`, `NextItem` |
| `Borrow` | `borrow.py`'s exclusive borrow | epoch record, claims, place of each process | read epoch, claim, record, release, death |
| `TreeLock` | `code/treelock.py` | lock entry, what each process read last | each operation as its read and its write; death |
| `Library` | `DefinitionStore.save`, `recall`, `modify`, `reset` | objects, version rows, head, place of each process | one per Store access; death |
| `Storage` | `SqliteStore` on one file: `apply_migrations` of several builds, `append_event`, claims, rows, and what SQLite's locks and snapshots make of them | what is committed, the write lock, each connection's place, transaction and snapshot | `Open`, each statement of a migration, `ReadSeq` and the INSERT with its three outcomes, `PutRow`, `Claim`, `ReadRows`, `LockedOut`, close or death |
| `SingleFlight` | `CachingRuntime.run` over `ReplayRuntime` | in-flight map, Futures, cassettes, statistics | join, replay, lead, answer, fail, wake, cancellation of a waiter |
| `Fanout` | `Batch.run` (sequential and under a semaphore) with `run_factory`, `Run.execute`, validation, repair, retry | task per item, run rows, spend, token | start of a task (or its `run_factory` raises), call returns or fails, repair, backoff, cancellation, end |
| `Supervisor` | `deploy.py`'s registry, `deploy`/`stop`/`restart`/liveness pass, boot, `ExecutionLedger.reconcile`, `run_cycle`, `process_items` | registry entries, ledger rows, run info, place of each process and command | one per Store access, signal or spawn; crash |
| `CronLoop` | `Supervisor.serve` with `CronSchedule` and `IntervalSchedule` | clock, the time last taken, end of the sleep | `Fire` (a cycle is due), `NotDue`, `CycleOver`, `SleepOver`, `Tick` of the clock |
| `Observer` | `Observer.watch_loop`, `evaluate`, the rules `FailureRateAbove`, `CostSpike`, `StuckRun`, over `CronLoop` | run info, findings, the loop's clock | `RunBegins`, `RunEndsAs`, `Poll`, `JudgeDone`, `JudgeRaises` (a judge that breaches its budget ends the loop), `NotDue`, `SleepOver`, `Tick` |
| `Control` | the interactive `craw manage`, `craw code cancel`, `fleet` and `deploy`, what a supervisor finds to run | registry of each tenant, processes with the parent that has to wait for them, run info, `pipeline.py`, rows drawn and cursor, observers | `Draw` and each key, `Reads` and `StopForRun` of a cancel, `FleetCommand`, `DeployFor`, `StartCycle`, `FinishCycle`, `Edit`, `WriteRule`, deaths |
| `Promotion` | `code/gate.py` propose, approve, apply, reject over the lineage | files, proposals, decisions, lineage rows, baseline | one per Store access; death of a command |
| `Improvement` | `LearningLoop.improve` and `rollback` around `Tuner.tune`, `gate_against_baseline`, the promotion breaker's audit trail | version rows, baseline, audit, budget, each call's trials | begin, base scored, each trial, decide, flip, advance the baseline, audit, roll back; cancellation, death and restart |
| `Serving` | `ServingLoop` with `graduate`'s least sample and least lift, `ExploreSchedule` | served counter, decisions, rewards of each arm | `Route`, `RunOver`, `Graduate`, restart |
| `Transfer` | `state_dict`, `load_state`, `StateDict` with its structure sha | a Definition and the weights at hand | `Extract`, `LoadState` |
| `Baselines` | `calibrate`, `save_baseline_from_report`, `promote_against_baseline`, `craw eval --set-baseline` | scores, noise band, place of each call, budget, token | each measurement, each access of the two records, decide, death |
| `Corpus` | `emit_correction`, `GoldenSet.from_corrections`, `label`, `migrate`, `upconvert_case`; the predicate grammar of `guard.py`, `distill`, the Wilson bounds, the stage; `synthesize_guard`, `Verifier.gated` | ledger and records of corrections, cases, process places, what was earned | one per Store access; death |
| `Watch` | `AnomalyEngine.guard` over the event stream of a run, `emit` with its cap, the flood, spike, failure and stuck rules, `_halt` | stream (what Run and the runtimes emit has no `ts`), clock, ceiling, spend, token, calls in flight | start, finish, begin and end of a call, `Note` (an event of another emitter, stamped or not, under the cap), guard at the clock or at the latest `ts`, clock |
| `Authoring` | `craw code new`, `sync`, `describe`, `map`, `grant`, `consent_install`, `regate_generated`, the jailed compile with its stamps | files, stamps, lease, grant, place of each command | the look, the lease, each file opened, written and stamped, compile, rehash, a wiring rejected, regate and its second look, consent; `Raises` (any exception: `finally` gives the lease back) and `KillCommand` (a kill: it does not) |
| `Broker` | `consent_install`, `GrantManifest`, the approval queues, `SecretBroker`, `brokered_mcp_config` | manifest, queue, leases, audit rows | consent, revoke, look up, ask for a lease, each lease of an MCP config, resolve an approval, send, revoke a lease |
| `Resolver` | `resolve()` and `_satisfies` | frames, pinned versions, lock or reason | `Visit`, `Leave`, the ways to be refused |
| `Console` | `deployments.json` of `manage.py` (`load_index`, `record_deployment`, `resolve`), `inspect_run`, `tail_events` and the follower of `craw logs` | index, registries, place of each command; events of a run, the follower's mark | a command reads, truncates, writes, dies; deploy, stop; a Run starts, spends, ends; the follower polls |
| `Artifacts` | `LocalArtifactStore.put`, `get`, `gc`, `delete`, `offload`, `persist_context`, `hydrate` | inodes, names, staged names, place of each process, persisted refs | each access of the file system; crash |
| `Contexts` | `manage_context` and its four strategies, the Context `run_team` carries with its strategies and `reduce` | transcript and what each turn stands for; values, taint, who was asked | `Speak`, `ManageContext`; `NextInLine`, `NextDelegate`, `LeadCombines` |
| `AgentDiff` | `diff`, `merge` of `agentdiff.py` over edits with `derive.py` | ancestor, two versions, the merge | an edit of either author, the merge |

The `xProofs` modules hold the theorems, each of the components it extends. `MCx` modules give small values to the
constants. Seven of them put several components into one run: a variable `focus`
is chosen in the initial state and says which component moves, the others stay in
their initial states. The state space is the sum of the components', not their
product, and each property is about the component it names; the components
brought together in that way do not interact in the code either, but for rows of
the Store that each module accounts for by itself.

In each module the operators commented *mutated* are wrong variants
of the operator below them, a bug the code could have had: replacing the one by
the other must make a property fail, which is how we know the property says
something about the code.

**How they compose.** `BatchExecutor` implements `BatchContract`: it instantiates
it with `outcome <- results, work <- worklist, status <- pipeline`, run
`batch_executor` checks the contract's specification as a property and
`ExecutionProofs` proves it for every instance. A `Workflow` step of kind
*batch* is one call of that contract, taken item by item. `Fanout` is one batch
step from inside, with Runs instead of executor items; `Wiring` is how such a Run
gets its inputs, `Answers` (which extends it) what becomes of its answer, `RuntimeStack` what one of its model calls is made of, `Loops`
what a step that loops does. `Supervisor` and `CronLoop` are two views of one
process: its life, the ledger and what a cycle does with items, and when it begins
a cycle; `Supervisor`'s `run_cycle` is the cycle that `CronLoop` lets take time.
`Control` takes `Supervisor`'s commands as single steps and adds who gives them:
a screen that was drawn before, a cancel that read a run before. `Borrow`, `TreeLock`, `Library` and `Promotion` share nothing but
the Store, whose operations they take as single steps. `Storage` is the ground for
that: `SqliteStore` makes each of them one statement and its commit, except
`append_event`, whose SELECT and INSERT two processes can interleave; its
`OperationsAreAtomic` says that as long as they do not, no transaction is open
between two operations. `Authoring` takes `TreeLock`'s lease as exclusive:
what happens when it is not is the subject of `TreeLock`.

## 3. Runs

The type invariant of each module that is proved about is part of its inductive
invariant (section 4). The properties of the runs are about behaviour.
Several are conjunctions of named parts (`ItemsAccounted`, `BorrowKept`,
`FlightIsShared`, `BatchAccounts`, `RecordsTruthful`, `MinutesFire`, `FeedIsExact`,
`LockUnlessRaced`, `EffectsAreExact`, `ResolutionIsRight`, `LoopIsFaithful`,
`LeasesAreKept`, `TroubleIsFound`, `StorageIsSound`, `LibraryIsKept`,
`TreeIsSound`, `DemoIsHonest`, `MergeIsFaithful`, `CorpusIsSound`, `ImprovementIsExact`,
`ServingIsSound`, `TransferMovesKnobs`, `BaselinesAreSound`, `SpendIsForeseen`,
`ValuesAreSound`, `ConsoleIsTrue`, `ControlHolds`, `ArtifactsAreKept`, `ContextIsKept`), each part stated on its
own above the conjunction.

Deadlock is not checked (`CHECK_DEADLOCK FALSE`): each system stops at a bound or
when its work is done. Properties that must not let it stop early are stated as
liveness.

| Run | Bounds | What it shows |
|---|---|---|
| `batch_executor` | 2 items, 2 workers, 2 attempts, budget 2 with calls of 0 to 2, 2 calls of run | spend passes the ceiling by one call per worker and run at most; every item is in one place and every record of it agrees; a run that was not killed leaves only replayable failures; no call after cancellation; `run` returns; `BatchContract` holds |
| `workflow_run`: `Workflow`, `Demo` | 2 items, 8 steps of every kind, three of them Routers (to a filter or a sink, to a batch or an aggregate, to one of two sinks), 2 batch ids (symmetric), 3 starts; 2 invocations, 2 tickets, 2 temperatures, at most 3 visits, 2 drafts, 2 levels, 2 samples, calls that cost nothing, the price assumed and four times that | no sink writes an identity twice under one `batch_id`, and items or effects are lost only through the two windows of section 5; a demo that gets to its end has passed, at an honest price the announced worst case is enough, two invocations that finish have found the same, a replay pays for what is never replayed and no more |
| `workflow_gap` | 2 items, source, filter, batch, sink, 3 starts | the first window, as a violation |
| `single_flight` | 3 calls of one tenant, 2 of another, one request | no answer crosses tenants; one model answer per key, a slot lives as long as its leader, misses are what was paid, every waiter is served unless one was cancelled (`FlightIsShared`); every call ends |
| `fanout` | 4 items of three validation actions, 1 or 2 slots, 2 attempts, budget 2 with calls of 0 to 2 | spend, run rows, outputs and, until a `run_factory` raises, the pairing of tasks with Runs; the batch ends |
| `locks`: `Borrow`, `TreeLock`, `Library`, `Broker`, `Artifacts`, `Storage` | 3 processes, 3 epochs; 3 processes; 2 savers, 3 contents, 3 rows; 2 declarations, 2 requests to the approval queue; 3 processes, 1 content, 3 files; 2 processes, builds of schema 2 and 3, 2 tables, 3 events, 1 key, 3 opens | one holder of a borrow, and re-acquirable; operations on the tree that do not overlap exclude each other and are counted right; the head is logged; the history is kept unless two saves collide; a lease has a consented grant and the last ruling about its destination, and its handle an audit row; what a persisted Context refers to is whole, unless puts and sweeps met; the database has what its version says, its events are those whose append returned, a key has one winner |
| `runs`: `Loops`, `RuntimeStack`, `Wiring`, `Answers`, `Serving`, `Contexts`, `CronLoop`, `Observer` | 2 items (one tainted), 3 visits, patience 2, 3 answers, 2 starts under a budget of 3 calls each, three kinds of loop; 2 agents, 2 providers, 3 models of which one is an alias, up to 4 samples, calls of 1 or 2 under a budget of 7, price tables with a free and with a dearer model, routing on or off; 11 types, 10 values, 2 input names; 13 texts, 7 schemas, 4 thresholds, teams of 2, 7 routers, 2 items; 6 strategies with a limit of 4, turns of 1 or 3, 6 turns; teams of 5 or 6 roles, a carry of the last 3; minute of 4 ticks, least sleep 2, period 3, 7 minutes, cycles up to 6 ticks, wake-ups up to 1 late; 2 runs watched for 12 ticks, a judge of 1 tick | a resumed loop ends no sooner than its rules allow; taint sticks; the best attempt is returned; the budget knows of every answer; a vote has support; the previewed worst case covers what was answered; a checked wire hands over what fits; an answer's value is one object of its text, keeps its taint, is declined when it states too little, and its label leads to one Sink at most; what is explored shrinks with decay and budget, the ledger query agrees with it, and a candidate graduates on enough answers of its own; a compacted transcript stands for every turn once and keeps the recent ones, taint follows what it touched; no minute fires twice, none is missed when cycles are short; trouble that lasts through a scheduled minute is found in it, and no alarm is false |
| `deployments`: `Supervisor`, `Console`, `Control` | 1 name, 2 commands at a time, 3 processes, 1 cycle; 2 supervisors, 3 items, 4 calls; 2 names in 2 directories, 2 commands, 3 deployments; 2 Runs, prices 0 and 2, 5 events; 2 names, 2 tenants, 3 processes (2 beside a cancel), 2 cycles, 1 edit; 2 observers, 3 scaffolds | the registry names the live process; a lone boot leaves no orphan, row and run info agree; only a death repeats a handler, a call that returns has marked everything; the index lists what was deployed unless commands overlapped, a follower loses no event, a report is of its own run; a stop or restart ends what was meant, the cursor is on a row, a cancelled run does not go on, an authored observer is kept |
| `improvement`: `Improvement`, `Watch`, `Corpus` | 3 calls at a time, 3 versions, 2 metrics, 2 trials, budget 3, a breaker of 1; 2 callers, 6 events under a cap of 4, 2 ticks, thresholds at 1 to 3; 2 processes, 3 corrections (a trusted one, a tainted one, one with a document in a string), proposals of each kind of term | no promotion lowers the stored baseline; with nobody in between, the baseline is the active version's; the frontier is exact; a halt is final; a blocking guard and a gating verifier rest on trusted cases that meet their bar; a label holds |
| `definitions`: `Authoring`, `Resolver`, `AgentDiff`, `Transfer` | 3 commands, of which one at most is a `describe`, a `map` or a `grant` without `--yes`, 2 files of which a compile imports one, 2 drafts; 3 units, at most 4 versions each, all lists of two of 6 refs; 2 agents and a static input, or 1 agent and a fluid input, 2 edits by each author; 5 siblings of 5 architectures, every group of knobs | a sync compiles what lies in the tree and stamps it, half a component only after a `new` that raised; a file is without its stamp only where one did; consent covers what is declared; a lock is the closure it claims and a refusal has a reason; a merge is both changes and never a silent widening; loaded weights move the knobs they should, and nothing else |
| `promotion`: `Promotion`, `Baselines` | 3 shas, 2 commands at a time, 3 commands, 2 edits; 2 calls at a time, 2 calibrations of 2 measurements under a ceiling of 3, 2 metrics | only approved versions enter, commands in turn keep one active version; every measurement was paid for under the shared ceiling, scores stand beside the band of their own report, and a promotion raises the primary score, as long as calls come in turn |
| `promotion_rejected` | as above | rejecting activates, as a violation |

**Why the bounds suffice.** Two workers over two items give every overlap the
executor's code distinguishes: one takes while the other calls, fails, sleeps or
is killed; more add symmetric copies, and the theorems cover any number. Two
calls of run are what it takes for state of the first (dead letters, spend, DONE
rows) to meet the second. Budget 2 with calls of up to 2 reaches the ceiling
exactly, passes it, and passes it with another call in flight. Three starts of a
workflow allow a death, a death of the resumed run, and a run to the end; three
processes on a lock allow a holder, a loser and one more that arrives after the
release. In `fanout` four items on two slots leave items waiting for a slot when
a task ends in each possible way. In `Supervisor` three processes let a restarted
one be replaced while an operator works on it. `CronLoop` has a clock coarse
enough to explore and fine enough for what the code computes: a tick inside a
minute, a cycle longer than a minute, a least sleep that crosses a minute's end.
A file that is imported and one that is not are what `Authoring` tells apart, two are what it takes to be between
two; three commands are a `new` that raises, the `sync` that comes upon it and a `grant` or a second `new`. `Promotion` needs three shas for a lineage in which a version is neither the
rejected one nor its parent, `Improvement` three versions of which none is better
in every respect. Three visits with a patience of two let a loop be stopped by
each of its tests, and let a death fall before, in and after the visit that would
have stopped it. Two agents, one with two candidates of its own, give failover
inside and outside of escalation. The types of `Wiring` have every constructor, an optional
in each of them, and a nominal name; its values have every tag, and null in each
place; the texts of `Answers` have a document bare, in prose, before, in and after a fence, twice, in
a list and broken. `Resolver`'s offers include a 0.0.z, a 0.x and a 1.x line, the three cases
of the caret. In `Storage` two processes are what it takes to migrate together, to
collide on a seq and to hold the lock while the other gives up; the third open is a
restart, or the newer build after the older one. In `Demo`
two invocations are what it takes to leave cassettes and to meet them: half a set, a torn
one, those of a mock (none), all of them. Which kinds of answer vary is chosen per
behaviour, since no step reads what kinds of other steps answered. Two edits each let two authors change, move and remove the same
agent or input in either order.

**Fairness.** The event loop resumes every coroutine that is ready, and model
calls and sleeps end: weak fairness of a worker's or task's step, of `gather`'s
return, of `Wake` and `Return`. A task is never assumed to be cancelled, to fail
or to succeed: the fair step is the disjunction. `Supervisor`'s `FairSpec` assumes
that begun commands and living processes go on. Cancellation, crashes, kills,
operators and new calls have no fairness. The other specifications have none.

## 4. Proofs

Each theorem is proved from the specification of its component and the constants'
named assumptions, which ask for no more than the code does: a name that stands for
"none" is not one of the values (`None` is no sha, no process), a pool is not empty
and finite, a bound is a number, what an answer costs has a greatest value, a source lists finitely many versions and each is
three numbers, the sum of a vector of scores is a number, a Definition
has a list of agents, each a role and its knobs, the files of a component are a non-empty list, the
scores of a report have the declared metrics, an item that its validation retries is
not one that it repairs, a fleet of names is finite, a bar is a percentage, a string that
holds a document holds no other, a type expression is finite and its parts are type
expressions too, the parts of a value are values, a text is indexed by numbers, a threshold
is a number, a Router has finitely many branches, a price is a number, every agent of a
Definition has a model, and the shapes a preview is composed with have factors of at least
one. No theorem bounds the number of processes, items, contents or
steps: the runs check the same formulas on the instances of section 3, the theorems
state them of every instance.

A property is hardly ever inductive as it stands. Below is the invariant each proof
goes through, and what it adds; TLC checked its parts on the component's run before
they were proved, as far as it can evaluate them (not a quantifier over all Definitions).

* **ExecutionProofs** (`BatchExecutor`, `Workflow`, `Contexts`). `TypeCorrect`. `ItemsAreAccounted` comes from `SafeInv`:
  types, plus where an item may be. That a busy worker's item has no result yet needs
  that an item is in the queue, at one worker, or settled, and never in two of these.
  `FailedStaysReplayable` is that invariant and what a `Finish` leaves;
  `CancelIsFinal` is an action property that needs no more than types: each action
  that enters a call tests the token. `Refinement` shows each step to be a step of
  `BatchContract` or a stutter; `Complete` is where the invariant is needed, because it
  must follow from an empty queue and idle workers that every item has an outcome.
  `SpendIsBounded` needs a stronger bound: a worker that has breached the budget is
  killed and spends no more, so
  `spent <= Limit + MaxCost * (|Workers| * (runs - 1) + |Killed|)`.
  `SinksWriteOnce`, for any steps, Routers, batch ids and any number of deaths and resumes:
  what was written is claimed, by sink, batch and identity, and what is about to be written
  is claimed and was not written.
  `EffectsStayExact` asks that the steps begin with a source (without one a workflow has
  nothing to lose) and holds for every list that does. Which items a step gets is known
  exactly until a Router may send some of them to a filter and others not: from there on they
  lie between those that must come (`Due`) and those that may (`Expected`). Its `WorkflowInv` says what a list
  of Outputs stands for where it lies: what is saved is right for the first step not
  marked done, what is handed on for the first not skipped, what a step has made and has
  yet to look at make up together what the next step expects, and every step that was
  passed has written what was expected of it. Two facts tie these: the marked steps are a
  prefix, so that the step after the one just done is the first open one, and two Outputs
  of one identity have the same items, so that a write skipped for its claim, made by this
  run or by one before it, loses nothing. The lemmas about one step (`NextExpected`) say what each kind of step does to
  what the next may expect.
  `ContextStaysKept`: each compaction keeps a suffix of the turns and puts at most one in
  front of it that stands for the rest, and what it keeps reaches back as far as the least
  any pass has kept. The last entry of a team's Context is that of the member that spoke
  last, and the entries of a lead's are its delegates' in order; of two entries of one name
  the later counts, as in the dict the code builds.
* **LocksProofs** (`Borrow`, `TreeLock`, `Library`, `Authoring`).
  `BorrowIsKept` and `EpochNeverGoesBack`: `BorrowInv` ties the record to the claims,
  the epoch recorded is claimed exactly while somebody is between its claim and its
  release, and by one process only. `TreeLockIsKept`: `TreeInv` says that until two
  operations overlap the entry is exactly who holds the tree, and that who is about to
  release has read its own lease; the count of readers is a cardinality, so the proof
  adds to and removes from a finite set. `LibraryStaysWhole`: `LibraryInv` numbers the
  log `0 .. n - 1` even where a row was overwritten (or `_next_seq` would skip), puts
  an object behind every sha that is logged or about to be, and says of the parents in
  hand that they are logged. `TreeStaysSound` and `CleanStaysCovered`: `AuthoringInv`
  follows a `new` file by file (those before the one it is at are written and stamped),
  a `sync` from its compile on (it is what lies on disk as long as the lease is held, and
  what it imported stays stamped afterwards), and
  that the write lease excludes the read leases. Of a tree nobody writes it says what the
  news that raised have left (`TreeIsSettled`): a file without its row is the one such a
  `new` was at, cut short or as it was to be, and once a later `new` has gone through there
  is none.
* **GateProofs** (`Promotion`, `Baselines`, `Serving`, `Broker`).
  `TypeCorrect`; `NothingUnapproved` from what a command carries (a sha it found
  approved was granted, and grants are never forgotten); `OneActiveWhenInTurn` from what
  a command in the middle of `set_active` still has to write. `BaselinesStaySound`:
  `charged = made * RunPrice` until the ceiling is breached, and, while calls do not
  overlap, what a call has read is what is there and the band it has still to write is
  that of the scores it wrote. `ServingStaysSound`: an explored item was due at its
  place, all that were due are explored as far as the last explored one, and the sum
  of an arm's rewards lies between its count times the least and times the most, from
  which a graduation follows by arithmetic that is not linear (a lemma of its own).
  `LeasesStayKept`: what was decided of an identity is the last ruling about it, and
  each handle was written to the ledger before it was handed out.
* **StorageProofs** (`Artifacts`, `Storage`, `Supervisor`, `Console`, `Control`).
  `ArtifactsStayKept`: a staged file has one name and is nowhere stored, a file with a
  hole has the writer that emptied it, and of an untouched content one process at most
  has a staged file, which is its own. `StorageStaysSound`: who has the write lock is in
  a transaction nobody has overtaken, so what it read is what there is; the events a
  connection has seen are a prefix of those there are; until two openers meet, the one
  that migrates is at the version that comes next. `RecordsStayTruthful` has two halves.
  Of a name whose commands did not overlap, one command at most is under way, and until
  it ends what serves the name is nothing, or the process it is about to register. While
  supervisors boot alone, one at most has booted; a RUNNING row is in its list of stale
  rows while it reconciles and its own afterwards; and all its runs but the last, while
  it is in a cycle, have been reported.
  `FeedStaysExact` rests on a count. What the call at work has passed is marked; and until
  two supervisors met, the handlings of an item are as many as the supervisors that died
  over it, and one more once its mark stands. A set of calls grows by one with each, so that
  a second handling without a death would be one too many.
  `OperatorStaysServed` puts four invariants side by side. `IndexInv`: what the index says,
  and what a command is about to write into it, was deployed where it says, and while
  commands do not overlap the one at work carries all there was. `StreamInv`: the follower's
  mark is not past the log, and what it has shown is the log up to the mark. `ControlInv`
  follows the registry: an entry leads to a process of its name and tenant, and a local
  process that lives is the one of its entry unless another was put over it; a cancel has
  the process of the run it read, or the run is over. Of observers it says that a scaffold
  under way has not been abandoned.
* **RunProofs** (`SingleFlight`, `Loops`, `CronLoop`, `Observer`, `RuntimeStack`, `Wiring`,
  `Answers`).
  `FlightStaysShared`: the map of flights is exactly the calls at
  the model, an author of an answer is the one of the cassette, a call awaits a flight of
  its own key, and a Future that was cancelled has a cancelled call that awaited it.
  `LoopsStayFaithful`: the tape holds every visit that was made and only grows, so what was
  said of a visit stays true over deaths and resumes; while an item goes on, none of its
  visits was satisfied, the streak is one an uninterrupted run has too (it is nought while
  visits are replayed, since marks come in order), and the best attempt is the best so far.
  `MinutesStayFired`: up to the minute of the time it took, the loop has fired every
  scheduled minute, unless more than a minute was lost; that the next minute is the least
  scheduled one after it, and that a short sleep passes none, is division and remainder by
  a constant, from lemmas about quotients. `TroubleStaysFound` rests on it: a minute that
  was fired was read once, and what lasted through it was there for that reading. What has
  ended stays as it is, and what begins or ends later does so after the minute began, so
  what is found in a minute cannot be put in question later on; that the share of failures
  is above its limit in every reading if it is for the fewest failures and the most others,
  and that more runs cost no less, are lemmas about cardinalities.
  `SpendStaysAccounted` is the half of `SpendIsForeseen` that is about the budget: an
  answer is compared with the ceiling as it is charged, so only the last one passes it,
  and a quorum's second charge of the same answer passes it by no more than that answer.
  `SpendStaysForeseen` is all of it, with the preview. `StackBills` says of every table of
  prices whose first model is the dearest of its list: there are partial sums of what each
  agent may draw, times what a turn of it may cost, and what was billed is within the sum of
  the agents before this one, plus a turn for each sample it has, plus the first half of an
  escalation that is under way. At the end that is the whole sum, and the rest is about
  products: a worst case is a product of factors over a product of denominators, each
  wrapper multiplies both, and an outer shape only makes it larger. None of that is linear,
  so each inequality is a lemma on numbers of its own; `Total` and `Product` are functions
  chosen by what they satisfy, whose partial values exist by a least counterexample.
  `ValuesStaySound`: whether a type feeds another, what a value parses to and what is
  projected from it are defined by recursion over types and documents. A function that
  satisfies each equation exists, because the sets of pairs that may be related have a
  greatest one closed under the rule (`Feeds` and `Takes` only grow with what they are
  given), and there is only one on finite expressions. That a checked wire hands over what
  fits (`FeedingKeepsValues`) is then shown by a minimal counterexample: a pair of types none
  of whose parts fail. `AnswersInv` says that what was typed is the `TypedValue` of the last
  reply, that the Output is `AbstainBelow` of it with the taint of what it was made from, and
  that the Sinks reached are the one of a Router that was admitted, or none.
  `VotesStaySupported`: the leader's count is the greatest there is, and samples that are
  not all distinct have two that agree, because a list onto its answers that is not
  one to one has more places than answers.
* **DefinitionProofs** (`Resolver`, `AgentDiff`, `Transfer`, `Fanout`, `Improvement`, `Watch`,
  `Corpus`, `MCImprovement`).
  `ResolutionStaysRight`: each call of `visit` is of a unit its own, needed by the call
  below it, and what its unit needs is still to do, or finished, or being visited by the
  next call; what is finished needs only what is finished, and not in a circle; what is
  pinned was selected by a constraint of something pinned, up to the root. That the
  highest version exists, and that the carets and tildes of the code are the
  compatibility of `Compatible`, are lemmas. `TransferStaysExact` says agent by agent what a
  load leaves (`IsLoad`), from which two loads are one of both; weights extracted from a
  Definition are given back to it where no role is there twice, since a list onto its roles
  with as many places as roles is one to one. `BatchStaysAccounted`: a row is RUNNING
  exactly while its Run is at work or was dropped, and until the token is set the Runs
  are those of the items that were begun, in order, up to one whose `run_factory` raised. The bound on spend counts blown Runs
  by a cardinality. `ImprovementStaysExact`: one call at most writes, and between its
  writes the rows and the baseline are where it brought them; each clean trial is on the
  frontier or dominated by one that is, which, dominance being an order, keeps the
  frontier exact when a trial is added. `PromotionNeverRegresses` is an action property:
  on top of that invariant, a call about to advance the baseline has written a row whose
  scores are no regression from the baseline there is, because the baseline is read again
  when it decides and no other call writes until it is through. `HaltIsFinal` too: after
  a halt the ceiling is below what was spent, so the next charge raises before the answer
  of its call is emitted, and what else is emitted, stamped, capped or dropped, is no model call.
  `GainsStand` is the two of them as the run states them, over the components side by side.
  `MergeStaysFaithful` is about what flattening keeps: the paths of an agent's role and of its
  model are there together or not at all, what is rebuilt from leaves has the identities left
  among them, and flattening it again gives the leaves. `CorpusStaysSound`: a line of the
  corpus rests on corrections that were admitted, lifting a lifted value changes nothing, and
  a label nobody disturbed is in its line and in what every migration has still to write.
  The counts a certificate is made of are cardinalities, compared by numbering finite sets.

Trying to prove them told something about the model itself. A retry may
cost nothing, so whether a Run had one attempt is to be read off what that attempt cost
(`ReportIsFair`). A bar of no cases is met by none of them, which
`0 / 0` hid. An empty projection makes every field the model's own; two readers of a
confidence agree only up to a threshold of one. Guards of two alternatives of a CASE
overlapped, so that what it meant was left to the evaluator. `RoutingRuntime` pins a model
for every agent, and not only for those a rule matches: the model gave the others their list
to fail over in, and the claim that they keep it is now one of section 5. Each was put
right against the code before the proof went on.

Only model-checked:

* Liveness (`RunEnds`, `BatchEnds`, `EveryCallEnds`): out of the prover's reach, and ENABLED
  with it.
* `DemoIsHonest`: it is about one scenario with the costs of its constants, and says less
  of the code than the components it runs through, whose properties are proved.
## 5. Where the code and its documentation disagree

Two runs show a disagreement as a counterexample:

* `workflow_gap`: `checkpoint_step` marks the step done before `_save_state` stores
  what it produced (`workflow.py:268`); a death between the two resumes past the
  step with the Outputs from before it.
* `promotion_rejected`: `_cmd_reject` passes the rejected sha to `rollback`
  (`code/gate.py:583`), which activates the sha it is given. A version that was
  promoted and then rejected stays, or becomes, the active one.

The modules state the other claims we found not to hold, each under the heading
*Claims of the documentation that do not hold*. To see the counterexample, make a
claim the property of a configuration in place of the ones there. The runs check
the part of each that does hold.

| Claim | Where it breaks | What holds and is checked |
|---|---|---|
| `BatchExecutor!FailedIsReplayable` | `executor.py:242`: replay deletes the dead letters first, and a budget kill leaves FAILED items without one; `docs/reference/batch-and-execution.md:128` "re-runs only the dead-lettered items" | `ReplayableUnlessKilled` |
| `BatchExecutor!DeadLettersFailed` | `executor.py:205`: an item that succeeds in a resumed run stays dead-lettered | `LedgerAgrees` |
| `Workflow!ContentWrittenOnce` | `nodes/sink.py:111`: an aggregated Output has no lineage, so its key is new in every run; `nodes/sink.py:10-12` | `KeyWrittenOnce` |
| `Workflow!EffectsComplete` | `nodes/sink.py:161`: a death between claim and write | `EffectsCompleteBarGap` |
| `Loops!EndsTheSame` | `workflow.py:639`: replayed visits are not compared, so a resumed loop may make visits the original would not have | `EndsNoSooner` |
| `Loops!BestEvenIfStale` | `refine.py:328-370` with `verifier.py`'s streak kept across items: a stop test shared by several items ends later ones early, before their best | `BestReturned` |
| `RuntimeStack!QuorumKeepsCeiling` | `runtime/quorum.py:374` charges each sample again on top of the inner runtime, and `_can_afford` looks at the dearest sample so far only | `SpendIsForeseen` |
| `RuntimeStack!ReplayedSamplesFree` | `runtime/quorum.py:374` with `runtime/replay.py:134`: a replayed answer carries its recorded cost, and the quorum charges it | `SpendIsForeseen` |
| `RuntimeStack!TiesAreDefaults` | `runtime/quorum.py:35-36` against `_winning_sample`: with early stop a tie of the full sample is never seen | `VoteHasSupport` |
| `RuntimeStack!UnroutedKeepsItsList` | `routing.py:116` "the agent's own model field is then left intact"; `runtime/routing_runtime.py` `_route` pins the first model of every agent, and there is nothing left to fail over to | `SpendIsForeseen` |
| `Wiring!MistypedIsCaught` | `batch.py:213-219`: a single record is spread over the inputs named like its fields; `batch.py:5-7` "a mistyped wire is rejected before any model call" | `ValuesAreSound` |
| `Wiring!WiredInputsArrive` | `batch.py:213-219`; `docs/reference/output-and-wiring.md:16-20` | `ValuesAreSound` |
| `Answers!ConstrainedIsWellFormed` | `run.py:338` "a malformed output is an impossible state"; a list, a number or a single text is projected to an object, and a declared key need not be there | `ValuesAreSound` |
| `Answers!ConstrainedNeverRepairs` | `run.py:339` "the validate+_repair loop never runs" | `ValuesAreSound` |
| `Answers!GrammarReadsTheSame` | `grammar.py:229` "the same span the validator would look for"; not with a fence behind an object, nor in a list | `ValuesAreSound` |
| `Answers!ToolResultsTaint` | `run.py:268` "the run consumed any tool/MCP result"; the events are those of the agent that answered last | `ValuesAreSound` |
| `Answers!LabelsNeverChoose` | `alg3.py:81` "never CHOOSE"; a node in front of a Sink is no Sink | `ValuesAreSound` |
| `Answers!WholeValueStates` | `escalate.py:72` "if the whole value is itself numeric"; any text with a number in it | `ValuesAreSound` |
| `Answers!SureAbstainsAll` | `escalate.py:112` "abstain on everything"; a stated 1.0 is not below it | `ValuesAreSound` |
| `Answers!ProvenAssembles` | `prove.py:17`: the proof is of the Definition and does not look at the Sinks | `ValuesAreSound` |
| `TreeLock!Exclusive` | `code/treelock.py:128`: read, decide and write are not one step; `code/treelock.py:9` "a short exclusive lease" | `ExclusiveUnlessRaced` |
| `Library!HistoryAppendOnly` | `definition_store.py:237`: two saves take the same seq and one row overwrites the other; `definition_store.py:97` "append-only history" | `LibraryIsKept` |
| `Library!ParentIsBase` | `definition_store.py:324-325`: `modify` reads the head twice; `definition_store.py:109` "the version this one was derived from" | `LibraryIsKept` |
| `Storage!VersionNeverBack` | `store/migrations.py:179`: the version is read before the lock is taken; `store/migrations.py:177` "the second opener observes the bumped `user_version` and applies nothing": it stamps the file down to 1 and up again | `StorageIsSound` |
| `Storage!BaselineIsWhole` | `store/migrations.py:122`: `executescript` commits the BEGIN in front of it; `store/migrations.py:198` "commits/rolls back atomically with the migration body" | `StorageIsSound` |
| `Storage!IdleHoldsNoLock` | `store/sqlite.py:124`: after an INSERT that fails nothing rolls back; `store/sqlite.py:4` "without lock contention" | `StorageIsSound` |
| `Storage!ReadsAreCurrent` | `store/sqlite.py:98`: the transaction begun for a write that gave up stays open, reads from it are of an old snapshot and it never writes again; `store/sqlite.py:4` | `StorageIsSound` |
| `SingleFlight!MissesPaid` | `cache.py:145`: `_is_hit` leaves the org out of the cassette's key | `LocalMissesPaid` |
| `SingleFlight!LeaderServesAll` | `cache.py:165`: cancelling one waiter cancels the shared Future | `ServesAllUnlessCancelled` |
| `Fanout!BreachStopsTheRest` | `batch.py:189`: the token is set after `gather` has waited for every task; `batch.py:174` "a budget breach cancels the rest" | `BatchAccounts` |
| `Fanout!EveryAnomalyPointsRight` | `batch.py:139`: a `run_factory` that raises leaves no Run, and `batch.py:226` pairs tasks with Runs by position; `batch.py:223` "Surface failed runs as anomalies" (with `continue_on_error`, of the wrong tasks) | `BatchAccounts` |
| `Supervisor!RetryMeansDead` | `ledger.py:223`: reconcile marks the rows of live supervisors of the same Store | `LedgerAndInfoAgree` |
| `Supervisor!DeadMeansDead` | `deploy.py:120`: the entry is read again after the liveness test and overwritten | `RegistryTruthful` |
| `Supervisor!OrphansRetried` (under `FairSpec`) | `ledger.py:228`: nothing reads NEEDS_RETRY; `docs/guide/deploy.md:64-67` "resumes them" | `NoOrphanAfterBoot` |
| `CronLoop!NoTickSkipped` | `deploy.py:401`: the sleep is computed from the time before the cycle; `docs/guide/deploy.md:68` "never silently skipped" | `ShortCyclesMissNothing` |
| `Observer!SpendIsSeen` | `observer.py:73`: a run counts in the window it began in, its cost is known at its end; `docs/reference/observer.md:22` "total spend in a recent window" | `TroubleIsFound` |
| `Observer!StuckForEver` | `observer.py:214`: the context is bounded by the lookback; `docs/reference/observer.md:91` "scans all runs (not windowed)" | `TroubleIsFound` |
| `Supervisor!HandledOnce` | `deploy.py:366`: handled, then marked; `deploy.py:353` "exactly once across restarts" | `AgainOnlyAfterDeath` |
| `Promotion!OneActive` | `code/gate.py:378`: rows are flipped one at a time | `OneActiveInTurn` |
| `Improvement!GateSeesActive` | `learning.py:209` with `tuner.py:721-728`: an exhausted context returns the base unscored, and its empty scores become the baseline every later candidate passes | `NothingIsTakenBack` |
| `Improvement!OutcomeActive` | `learning.py`, `_not_promoted`: the outcome names the active version of another call's making | `BaselineTracksActive` |
| `Serving!ReplayExploresTheSame` | `docs/guide/train-and-tune.md:205` "A replay re-explores exactly the same items"; not once the budget has run out, in the run or in the replay | `QueryIsExact` |
| `Serving!LiftIsReal` | `docs/guide/train-and-tune.md:225` "only on a real lift"; without an outcome of the promoted best its mean is 0 | `GraduationIsEarned` |
| `Serving!FirstVerdictStands` | `learning.py:598` "controlling Type-I error under continuous peeking"; graduate may be asked again with each outcome, and the first yes counts | `GraduationIsEarned` |
| `Transfer!RoundTripIsIdentity` | `docs/reference/tuner-and-learning.md:754` "re-mints the same content sha"; of two agents of one role, the first takes the knobs of the last | `TransferMovesKnobs` |
| `Transfer!ArchitectureStays` | `learning.py:370` "never the architecture"; a load that is not strict takes the coordination along | `LoadsAreUndone` |
| `Transfer!SummonsArrive` | `docs/guide/train-and-tune.md:178`: units summoned by version are extracted, and never loaded | `AllArrives` |
| `Baselines!SeedIsStored` | `eval.py:467-479`: the verdict "no baseline — seeded" writes no baseline | `BarRises` |
| `RuntimeStack!FreePrimaryCovered` | `cost.py:423`: "a free primary) it degrades to the count-based 2x, never an undercount"; twice nothing is nothing | `SpendIsForeseen` |
| `RuntimeStack!UnpinnedQuorumCovered` | `cost.py:449`: without a pinned k the shape is `min_k`, `cost.py:447-448` "the most the sequential test could still draw"; the Definition's `sample_k` is what is drawn | `SpendIsForeseen` |
| `Corpus!SameLedgerSameSet` | `eval.py:148` "same ledger always yields the same set of cases"; rows of an earlier mining stay, and a death in `emit_correction` leaves the ledger ahead of the records | `AuthorityIsEarned` |
| `Corpus!LabelsNeverUndone` | `eval.py:171`: mining again writes the correction's own value over an operator's label | `LabelsHeld` |
| `Corpus!MissingFieldIsBenign` | `guard.py:134` "evaluates to a benign False"; `!=`, a negated membership and `not` are true of a missing field | `AuthorityIsEarned` |
| `Corpus!MalformedIsRejected` | `guard.py:539`: `bool("false")` is true; `guard.py:509` "malformed term raises" | `AuthorityIsEarned` |
| `Watch!StuckIsFound` | `anomaly.py:244-249`: a run started again has a finish in the window; `anomaly.py:229` | `HaltStands` |
| `Watch!FloodIsTheRuns` | `anomaly.py:266`: the findings of earlier guards are events of the run and count too | `HaltStands` |
| `Authoring!NothingLost` | `code/new.py:268-272`: the look is before the lease | `TreeIsStamped` |
| `Authoring!EveryCompileWhole` | `code/describe.py:240`, `code/map.py:149`, `code/consent.py:169` take no lease; `code/treelock.py:11` says they do | `SyncCompilesTree` |
| `Authoring!TornIsRefused` | `code/new.py:325`: an exception releases the lease over a file that is cut short, and the next sync compiles it; `code/treelock.py:6` "so a torn tree is *refused*, not compiled" | `TreeIsSound` |
| `Broker!RevokedLeasesNothing` | `secrets.py:410` "it can lease nothing afterward": the broker takes the grant it is handed, and does not look it up | `LeasesAreKept` |
| `Broker!PendingAwaits` | `secrets.py:662` "currently awaiting": each retry is listed, and a decision removes one of them | `LeasesAreKept` |
| `Resolver!CaretKeepsLeading` | `resolve.py:112-117`: `^0.0.2` takes 0.0.3; `resolve.py:101` "same leading non-zero" | `ResolutionIsRight` |
| `AgentDiff!DiffSeesTheSha` | `agentdiff.py:222`: order and derived fields reach the sha and not the diff; `agentdiff.py:13-15` "the diff is non-empty iff the sha moved", relied on in `code/gate.py:256` | `MergeIsBothChanges` |
| `Console!NothingUnlisted` | `manage.py`: one name is one entry, two `craw deploy` at once lose one, `craw code deploy` writes none; `docs/guide/manage.md:11` "list every deployed pipeline" | `OperatorIsServed` |
| `Console!TailSkipsTheSeen` | `inspector.py:162` "after_seq=0 skips the first event": it skips none | `OperatorIsServed` |
| `Console!ReportIsTotal` | `inspector.py:80` "total cost": that of the Run that was done last | `OperatorIsServed` |
| `Supervisor!RemainingIsLeft` | `deploy.py:306`: no supervisor sets the `items` that `craw code resume` subtracts from; `code/control.py:179` "the declared item count minus the completed set" | `OperatorIsServed` |
| `Control!CancelIsCooperative` | `deploy.py:505`: SIGTERM without a handler, and the run stays `running`; `code/control.py:10` "**never** a hard kill of host code" | `OperatorIsServed` |
| `Control!CancelsOnlyTheRun` | `code/control.py:133`: the whole supervisor is stopped, whatever it runs by then; `code/control.py:76` "cooperatively cancel a running pipeline" by `run_id` | `OperatorIsServed` |
| `Control!DeadAreShown` | `deploy.py:94`: a zombie answers, and a screen that restarted a pipeline is its parent; `manage.py:8` "Dead-process detection runs on every read" | `OperatorIsServed` |
| `Control!TenantHasItsRuns` | `deploy.py:529`: every supervisor runs as `local`; `docs/guide/manage.md` "Every row is scoped by `org_id`" | `OperatorIsServed` |
| `Control!RestartRereads` | `manage.py:135`: the schedule of the entry is passed on; `docs/guide/manage.md:16` "re-reads schedule" | `OperatorIsServed` |
| `Control!RestartComesBack` | `manage.py:131`: stopped, then `deploy` may refuse the schedule the project has by now | `OperatorIsServed` |
| `Control!OpenedIsShown` | `manage.py:445`: the pipeline that is shown is a position in a fresh list | `OperatorIsServed` |
| `Control!DoneMeansWorked` | `deploy.py:249`: a pipeline that does not import is a cycle that is done | `OperatorIsServed` |
| `Control!WatchedOnceDeployed` | `code/deploy.py:107`: one observer that was left halfway and none is added; `code/deploy.py:12` "watched by default" | `OperatorIsServed` |
| `Artifacts!PutIsAtomic` | `docs/reference/persistence.md:142` "writes them atomically": two puts of one content share the staged name | `ArtifactsAreKept` |
| `Artifacts!DedupIsFree` | `docs/reference/persistence.md:140` "dedupe for free": a put may raise because another moved its file, a persisted ref may dangle | `ArtifactsAreKept` |
| `Contexts!FullIsLossless` | `definition/types.py:107` "lossless default": the results of a sequential team share one name | `ContextIsKept` |
| `Contexts!WindowFits` | `runtime/context_strategy.py:96` "Prevents overflow": the recent turns alone may pass the limit | `ContextIsKept` |
| `Contexts!SummaryShrinks` | `runtime/context_strategy.py:119`: keeping none, it puts a summary of nothing in front of all turns | `ContextIsKept` |
| `AgentDiff!FlowNeedsBoth` | `agentdiff.py:319`: only a merge that makes an input fluid is stopped, one author alone may make it static; `agentdiff.py:28-29` "(or vice-versa) without both sides agreeing is reported as a conflict" | `MergeNeverWidens` |
| `AgentDiff!MergeReturns` | `agentdiff.py:126-133`: a merge that leaves an invalid Definition raises | `MergeIsBothChanges` |
| `Demo!ReplayIsFree` | `self_improve.py:1060` "a re-run replays them bit-identically at $0": the calibration is never replayed, `runtime/quorum.py:374` charges a replayed sample what it cost when it was recorded, and `self_improve.py:2618` counts every sample fresh because it asks without the seed they are recorded under | `ReplayPays` |
| `Demo!BoundDominates` | `self_improve.py:998` "so the bound strictly dominates real spend": only while a call costs no more than `per_call_usd`, and then because no call makes use of the repair factor | `DemoPasses` |

Three more are matters of reading. `refine.py:37` and `refine.py:413` say that the cassette
key folds `iter_index`; no code outside of `runtime/replay.py` sets that coordinate, so two
attempts that are given the same share one recording, and `Loops` lets a leaf be answered
from any visit at which it was given what it is given now. `emission.py:154` says of `ts`
that "emitters stamp it"; Run and the runtimes leave it at 0.0, so a windowed rule that is
asked about the present sees none of a run's calls, and about the latest `ts` there is, all
of them: `Watch` guards at either. And `docs/guide/cli.md:94` and
`docs/guide/optimize-from-the-cli.md:76` say a rollback is audited for the breaker;
it is written under the run id `rollback:<name>`, which the breaker does not read,
so `Improvement` leaves it out of `audit`.

## 6. Not modelled

* The bodies of model calls, prompts, providers, the command runtime and MCP: their
  outcomes are nondeterministic choices (an answer at a cost, an error, a breach).
* Reuse of process ids by the operating system and a wall clock that steps back.
* A Source as the branch of a Router, and a Router as the branch of a Router: the latter
  is taken for the branches it leads to. The sinks of one workflow are taken to differ in
  name or in static configuration, as otherwise they share their keys (`nodes/sink.py:106`).
* Edits of an authored component by anything but `craw code new` (`Authoring`).
* The in-memory LRU of `CachingRuntime`, the order in which the Store lists rows
  (left open in `Promotion`), parsing of cron fields.
* `BatchExecutor.schedule()`'s repeat loop; a `Program` without a back edge.
* Statistics of benchmarks (`metrics.py`, `experiment.py`) beyond mean, variance and
  noise band: numeric code. Elsewhere a score is a member of a small set, chosen anew
  at each benchmark.
* Of the cost preview, the parsing of prices and the meter; the stored shapes that
  `craw code estimate` does not pass.
* The Memory of an agent, embedding and retrieval: text.
* A lead's delegation by free text (`runtime/team.py`), critique prompts: text.
* Of the demo, the steps that call no model, and the arithmetic of its paired gate (over a
  few cases it promotes exactly when every case gained).
* The compiler, the jail's isolation: parsing, and the operating system's
  behaviour.
* The components without a module in `PROJECT.json`: parsing, rendering, numeric
  code or thin adapters.

## 7. Plan

1. Proofs: the part of `DemoIsHonest` that holds for every price.
2. Pure algorithms against reference definitions: the hook decision, topological
   order, `CronSchedule.next_after` over its fields.
3. Tuning and the confidence of answers.
