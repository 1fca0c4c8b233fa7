----------------------------- MODULE Supervisor -----------------------------
(***************************************************************************)
(* crawfish.deploy: the registry of deployments, the operator commands that *)
(* change it (deploy, stop, restart, and the list command's liveness pass), *)
(* and the detached supervisor processes, which reconcile the execution     *)
(* ledger when they start and then run cycles.                              *)
(*                                                                          *)
(* Commands and supervisors are processes of their own over one Store: an   *)
(* action is the code up to one access of the Store, a signal or a spawn.   *)
(* A signalled process is gone at once.                                     *)
(*                                                                          *)
(* And process_items, by which a cycle handles the items its ledger does    *)
(* not have as DONE, each marked DONE after its handler has returned: a     *)
(* call reads the ledger once, when it begins, its process can die anywhere, *)
(* and two supervisors of one name can call at the same time.               *)
(***************************************************************************)
EXTENDS Integers, FiniteSets

CONSTANTS Names,    \* deployments that share a project directory, so a Store
          Ops,      \* operator commands that can run at the same time
          MaxPid,   \* bound: processes spawned
          MaxRun,   \* bound: cycles run
          Callers,  \* processes that serve one deployment
          N,        \* its items 1 .. N
          MaxCalls  \* bound: calls of process_items begun

ASSUME SupervisorAssumption ==
    /\ Names # {} /\ MaxPid \in Nat /\ MaxRun \in Nat
    /\ N \in Nat \ {0} /\ MaxCalls \in Nat

VARIABLES entry,    \* registry: pid and status of each deployment
          pc,       \* where each supervisor process is
          serves,   \* the name it was spawned for
          stale,    \* the rows its reconcile has read as RUNNING
          spawned,  \* last pid
          op,       \* where each operator command is
          row,      \* ledger_run status of each run
          info,     \* run_info status of each run
          by,       \* the process of each run
          begun,    \* last run
          raced,    \* names on which commands overlapped or redeployed over a live process
          shared    \* a supervisor has booted while another one lived

registry == <<entry, op, raced>>
process == <<pc, serves, stale, spawned>>
ledger == <<row, info, by, begun>>
vars == <<registry, process, ledger, shared>>

Pids == 1 .. MaxPid
Runs == 1 .. MaxRun
Status == {"running", "stopped", "dead"}
NoEntry == [pid |-> 0, status |-> "none"]
Entry == [pid : Pids, status : Status] \cup {NoEntry}

\* an operator command: its place, its deployment, what it carries
Command == [at : {"idle", "spawn", "register", "get", "put"}, name : Names,
            pid : 0 .. MaxPid, status : Status, copy : Entry, again : BOOLEAN]
Live == {p \in Pids : pc[p] \notin {"unborn", "gone"}}
----------------------------------------------------------------------------
TypeOK ==
    /\ entry \in [Names -> Entry]
    /\ pc \in [Pids -> {"unborn", "boot", "reconcile", "idle", "info", "cycle", "done", "failed", "gone"}]
    /\ serves \in [Pids -> Names]
    /\ stale \in [Pids -> SUBSET Runs]
    /\ spawned \in 0 .. MaxPid /\ begun \in 0 .. MaxRun
    /\ op \in [Ops -> Command]
    /\ row \in [Runs -> {"none", "running", "done", "failed", "needs_retry"}]
    /\ info \in [Runs -> {"none", "running", "done", "failed"}]
    /\ by \in [Runs -> 0 .. MaxPid]
    /\ raced \subseteq Names /\ shared \in BOOLEAN

Idle == [at |-> "idle", name |-> CHOOSE n \in Names : TRUE, pid |-> 0,
         status |-> "running", copy |-> NoEntry, again |-> FALSE]

Init ==
    /\ entry = [n \in Names |-> NoEntry]
    /\ pc = [p \in Pids |-> "unborn"]
    /\ serves = [p \in Pids |-> CHOOSE n \in Names : TRUE]
    /\ stale = [p \in Pids |-> {}]
    /\ spawned = 0 /\ begun = 0
    /\ op = [o \in Ops |-> Idle]
    /\ row = [r \in Runs |-> "none"] /\ info = [r \in Runs |-> "none"]
    /\ by = [r \in Runs |-> 0]
    /\ raced = {} /\ shared = FALSE

----------------------------------------------------------------------------
(* Operator commands                                                        *)

Alive(p) == p \in Live   \* _pid_alive

Busy(n) == \E o \in Ops : op[o].at # "idle" /\ op[o].name = n

Race(n, condition) == raced' = IF condition THEN raced \cup {n} ELSE raced

Begin(o, n, c) ==
    /\ op[o].at = "idle"
    /\ op' = [op EXCEPT ![o] = c]

\* deploy: a live deployment of the name only gets a warning
Deploy(o, n) ==
    /\ Begin(o, n, [Idle EXCEPT !.at = "spawn", !.name = n])
    /\ Race(n, Busy(n) \/ \E p \in Live : serves[p] = n)
    /\ UNCHANGED <<entry, process, ledger, shared>>

Spawn(o) ==
    /\ op[o].at = "spawn" /\ spawned < MaxPid
    /\ spawned' = spawned + 1
    /\ pc' = [pc EXCEPT ![spawned'] = "boot"]
    /\ serves' = [serves EXCEPT ![spawned'] = op[o].name]
    /\ op' = [op EXCEPT ![o].at = "register", ![o].pid = spawned']
    /\ UNCHANGED <<entry, raced, stale, ledger, shared>>

Register(o) ==
    /\ op[o].at = "register"
    /\ entry' = [entry EXCEPT ![op[o].name] = [pid |-> op[o].pid, status |-> "running"]]
    /\ op' = [op EXCEPT ![o] = Idle]
    /\ UNCHANGED <<raced, process, ledger, shared>>

Signal(p) == pc' = [pc EXCEPT ![p] = IF Alive(p) THEN "gone" ELSE @]

\* stop, and restart, which deploys the name again afterwards
Stop(o, n, again) ==
    /\ entry[n] # NoEntry
    /\ Begin(o, n, [Idle EXCEPT !.at = "get", !.name = n, !.status = "stopped",
                                !.again = again])
    /\ Signal(entry[n].pid)
    /\ Race(n, Busy(n))
    /\ UNCHANGED <<entry, serves, stale, spawned, ledger, shared>>

Dead(p) == ~Alive(p)

\* reconcile_liveness, which every listing runs
List(o, n) ==
    /\ entry[n].status = "running" /\ Dead(entry[n].pid)
    /\ Begin(o, n, [Idle EXCEPT !.at = "get", !.name = n, !.status = "dead"])
    /\ Race(n, Busy(n))
    /\ UNCHANGED <<entry, process, ledger, shared>>

\* set_status: read the entry, then write all of it back
GetEntry(o) ==
    /\ op[o].at = "get"
    /\ op' = [op EXCEPT ![o].at = "put", ![o].copy = entry[op[o].name]]
    /\ UNCHANGED <<entry, raced, process, ledger, shared>>

PutEntry(o) ==
    /\ op[o].at = "put"
    /\ entry' = [entry EXCEPT ![op[o].name] = [op[o].copy EXCEPT !.status = op[o].status]]
    /\ op' = [op EXCEPT ![o] = IF op[o].again
                                 THEN [Idle EXCEPT !.at = "spawn", !.name = op[o].name]
                                 ELSE Idle]
    /\ UNCHANGED <<raced, process, ledger, shared>>

----------------------------------------------------------------------------
(* Supervisors                                                              *)

Goto(p, place) == pc' = [pc EXCEPT ![p] = place]

NoRuns == {}   \* mutated: nothing is reconciled

RunningRows == {r \in Runs : row[r] = "running"}

\* ExecutionLedger.reconcile: the rows it reads as RUNNING, every run is of an
\* ephemeral backend, whichever deployment started it
Boot(p) ==
    /\ pc[p] = "boot"
    /\ stale' = [stale EXCEPT ![p] = RunningRows]
    /\ Goto(p, "reconcile")
    /\ shared' = (shared \/ Live # {p})
    /\ UNCHANGED <<registry, serves, spawned, ledger>>

\* ... are written back as NEEDS_RETRY, one by one
MarkRow(p) ==
    /\ pc[p] = "reconcile"
    /\ \E r \in stale[p] :
          /\ row' = [row EXCEPT ![r] = "needs_retry"]
          /\ stale' = [stale EXCEPT ![p] = @ \ {r}]
    /\ UNCHANGED <<registry, pc, serves, spawned, info, by, begun, shared>>

Reconciled(p) ==
    /\ pc[p] = "reconcile" /\ stale[p] = {}
    /\ Goto(p, "idle")
    /\ UNCHANGED <<registry, serves, stale, spawned, ledger, shared>>

RunOf(p) == CHOOSE r \in Runs : by[r] = p /\ \A s \in Runs : by[s] = p => s <= r

\* run_cycle: put_run_info, record_run(RUNNING), the pipeline, record_run,
\* put_run_info
BeginCycle(p) ==
    /\ pc[p] = "idle" /\ begun < MaxRun
    /\ begun' = begun + 1
    /\ by' = [by EXCEPT ![begun'] = p]
    /\ info' = [info EXCEPT ![begun'] = "running"]
    /\ Goto(p, "info")
    /\ UNCHANGED <<registry, serves, stale, spawned, row, shared>>

Record(p, s) == row' = [row EXCEPT ![RunOf(p)] = s]

RecordRun(p) ==
    /\ pc[p] = "info"
    /\ Record(p, "running")
    /\ Goto(p, "cycle")
    /\ UNCHANGED <<registry, serves, stale, spawned, info, by, begun, shared>>

Outcome == {"done", "failed"}

EndCycle(p) ==
    /\ pc[p] = "cycle"
    /\ \E s \in Outcome : Record(p, s) /\ Goto(p, s)
    /\ UNCHANGED <<registry, serves, stale, spawned, info, by, begun, shared>>

Report(p) ==
    /\ pc[p] \in Outcome
    /\ info' = [info EXCEPT ![RunOf(p)] = pc[p]]
    /\ Goto(p, "idle")
    /\ UNCHANGED <<registry, serves, stale, spawned, row, by, begun, shared>>

\* a reboot, an out-of-memory kill
Crash(p) ==
    /\ p \in Live
    /\ Goto(p, "gone")
    /\ UNCHANGED <<registry, serves, stale, spawned, ledger, shared>>

----------------------------------------------------------------------------
Supervise(p) ==
    \/ Boot(p) \/ MarkRow(p) \/ Reconciled(p)
    \/ BeginCycle(p) \/ RecordRun(p) \/ EndCycle(p) \/ Report(p)

Proceed(o) == Spawn(o) \/ Register(o) \/ GetEntry(o) \/ PutEntry(o)

Operate(o) ==
    \E n \in Names : \/ Deploy(o, n) \/ List(o, n)
                     \/ \E again \in BOOLEAN : Stop(o, n, again)

Next ==
    \/ \E o \in Ops : Operate(o) \/ Proceed(o)
    \/ \E p \in Pids : Supervise(p) \/ Crash(p)

Spec == Init /\ [][Next]_vars

\* A supervisor that lives keeps serving, a command that has begun ends.
FairSpec == Spec /\ (\A p \in Pids : WF_vars(Supervise(p)))
                 /\ (\A o \in Ops : WF_vars(Proceed(o)))
----------------------------------------------------------------------------
(* process_items                                                            *)

VARIABLES feedPc,   \* where each call is
          done,     \* the items the call found DONE
          item,     \* the item it is at; N + 1 past the last
          marked,   \* ledger_item rows that are DONE
          handled,  \* how often the handler of each item has returned
          calls,
          deaths,   \* calls that died between a handler and its mark
          met,      \* calls have overlapped
          full      \* every call that returned left all items marked

feedVars == <<feedPc, done, item, marked, handled, calls, deaths, met, full>>
Items == 1 .. N

FeedTypeOK ==
    /\ feedPc \in [Callers -> {"idle", "next", "mark"}]
    /\ done \in [Callers -> SUBSET Items] /\ item \in [Callers -> 1 .. N + 1]
    /\ \A c \in Callers : feedPc[c] = "mark" => item[c] \in Items \ done[c]
    /\ marked \subseteq Items /\ handled \in [Items -> Nat]
    /\ calls \in 0 .. MaxCalls /\ deaths \in Nat /\ met \in BOOLEAN /\ full \in BOOLEAN

FeedInit ==
    /\ feedPc = [c \in Callers |-> "idle"]
    /\ done = [c \in Callers |-> {}] /\ item = [c \in Callers |-> 1]
    /\ marked = {} /\ handled = [i \in Items |-> 0]
    /\ calls = 0 /\ deaths = 0 /\ met = FALSE /\ full = TRUE

NoItems == {}   \* mutated: the ledger is not read

CompletedItems == marked

BeginFeed(c) ==
    /\ feedPc[c] = "idle" /\ calls < MaxCalls
    /\ calls' = calls + 1
    /\ feedPc' = [feedPc EXCEPT ![c] = "next"]
    /\ done' = [done EXCEPT ![c] = CompletedItems]
    /\ item' = [item EXCEPT ![c] = 1]
    /\ met' = (met \/ \E d \in Callers : feedPc[d] # "idle")
    /\ UNCHANGED <<marked, handled, deaths, full>>

Skip(c) ==
    /\ feedPc[c] = "next" /\ item[c] \in done[c]
    /\ item' = [item EXCEPT ![c] = @ + 1]
    /\ UNCHANGED <<feedPc, done, marked, handled, calls, deaths, met, full>>

Wanted(c) == item[c] \in Items \ done[c]

Handle(c) ==
    /\ feedPc[c] = "next" /\ Wanted(c)
    /\ handled' = [handled EXCEPT ![item[c]] = @ + 1]
    /\ feedPc' = [feedPc EXCEPT ![c] = "mark"]
    /\ UNCHANGED <<done, item, marked, calls, deaths, met, full>>

\* a handler that raises ends the call
Raise(c) ==
    /\ feedPc[c] = "next" /\ Wanted(c)
    /\ feedPc' = [feedPc EXCEPT ![c] = "idle"]
    /\ UNCHANGED <<done, item, marked, handled, calls, deaths, met, full>>

Mark(c) ==
    /\ feedPc[c] = "mark"
    /\ marked' = marked \cup {item[c]}
    /\ item' = [item EXCEPT ![c] = @ + 1]
    /\ feedPc' = [feedPc EXCEPT ![c] = "next"]
    /\ UNCHANGED <<done, handled, calls, deaths, met, full>>

Return(c) ==
    /\ feedPc[c] = "next" /\ item[c] = N + 1
    /\ feedPc' = [feedPc EXCEPT ![c] = "idle"]
    /\ full' = (full /\ marked = Items)
    /\ UNCHANGED <<done, item, marked, handled, calls, deaths, met>>

Die(c) ==
    /\ feedPc[c] # "idle"
    /\ feedPc' = [feedPc EXCEPT ![c] = "idle"]
    /\ deaths' = deaths + (IF feedPc[c] = "mark" THEN 1 ELSE 0)
    /\ UNCHANGED <<done, item, marked, handled, calls, met, full>>

FeedNext == \E c \in Callers :
    BeginFeed(c) \/ Skip(c) \/ Handle(c) \/ Raise(c) \/ Mark(c) \/ Return(c) \/ Die(c)

FeedSpec == FeedInit /\ [][FeedNext]_feedVars

\* craw code resume reads two numbers and runs nothing: the items the ledger has as DONE for
\* the pipeline, and what is left of those its run info declares, which no supervisor sets
ReplayedFree == Cardinality(marked)
Declared == 0
ItemsRemaining == IF ReplayedFree > Declared THEN 0 ELSE Declared - ReplayedFree

----------------------------------------------------------------------------
(* Properties                                                               *)

Settled(n) == ~Busy(n) /\ n \notin raced

\* Unless commands on it overlapped or one redeployed it alive, the process of
\* a deployment is the registered one, and there is none once it is stopped.
RegistryTruthful ==
    \A n \in Names : Settled(n) =>
        \A p \in Live : serves[p] = n => entry[n] = [pid |-> p, status |-> "running"]

\* A supervisor that boots alone leaves no orphan: from then on the RUNNING
\* rows are its own.
NoOrphanAfterBoot ==
    \A p \in Pids :
        ~shared /\ pc[p] \in {"idle", "info", "cycle", "done", "failed"} =>
            \A r \in Runs : row[r] = "running" => by[r] = p

\* What the ledger and run_info say of a run differs only while its process is
\* between two writes, or because that process is gone.
LedgerAndInfoAgree ==
    ~shared => \A r \in Runs : by[r] \in Live /\ pc[by[r]] \in {"idle", "boot", "reconcile"}
                                  => row[r] = info[r]

\* The records are right about the processes: the registry about what serves a name, the
\* two rows of a run about it, whoever crashes between which writes.
RecordsTruthful == RegistryTruthful /\ NoOrphanAfterBoot /\ LedgerAndInfoAgree

\* Calls that do not overlap handle an item again only because a call died
\* between its handler and its mark.
Repeats == UNION {{i} \X (2 .. handled[i]) : i \in Items}
AgainOnlyAfterDeath == ~met => Cardinality(Repeats) <= deaths

\* A call that returns leaves every item marked, whatever died before it.
ReturnsFull == full

\* process_items repeats no more and leaves no less than that.
FeedIsExact == AgainOnlyAfterDeath /\ ReturnsFull

(* Claims of the documentation that do not hold (README, 5).                *)

\* "Runs still RUNNING on an ephemeral backend (their subprocess died with the
\* engine) are marked NEEDS_RETRY": a run marked so has no process.
RetryMeansDead == \A r \in Runs : row[r] = "needs_retry" => by[r] \notin Live

\* reconcile_liveness "marks the vanished ones DEAD": no live process is DEAD.
DeadMeansDead == \A n \in Names : entry[n].status = "dead" => entry[n].pid \notin Live

\* A run found in flight is resumed: as long as a supervisor lives it does not
\* stay NEEDS_RETRY for ever.
OrphansRetried ==
    \A r \in Runs : (row[r] = "needs_retry" /\ by[r] \notin Live)
                        ~> (row[r] # "needs_retry" \/ Live = {})

\* "Process fan-out items exactly once across restarts".
HandledOnce == \A i \in Items : handled[i] <= 1

\* "items_remaining is the declared item count minus the completed set"
\* (code/control.py:179), so it is how many items a resume has to do.
RemainingIsLeft == ItemsRemaining = Cardinality(Items \ marked)
=============================================================================
