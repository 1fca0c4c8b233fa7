------------------------------ MODULE Control ------------------------------
(***************************************************************************)
(* Control over what is deployed (manage.py, code/control.py,               *)
(* code/deploy.py): the interactive craw manage, craw code cancel and       *)
(* fleet, and what the supervisors they act on run (deploy.py).  And the    *)
(* observers that craw code deploy leaves in a project without any.         *)
(*                                                                          *)
(* deploy, stop and reconcile_liveness are one step each here: Supervisor   *)
(* has what they are made of.  Each name is a project directory of its own. *)
(***************************************************************************)
EXTENDS Integers, Sequences, FiniteSets, SequencesExt

CONSTANTS Fleet,       \* names, as numbers: a listing is sorted by name
          Tenants,     \* organisations; the supervisors run as Local
          Local,
          MaxSpawned,  \* bound: supervisors spawned
          MaxCycles,   \* bound: cycles run
          MaxEdits,    \* bound: changes of pipeline.py
          Deployers,   \* craw code deploy at one time
          Rules,       \* default observers
          MaxScaffolds \* bound: craw code deploy run

ASSUME ControlAssumption ==
    /\ Fleet \subseteq Nat /\ IsFiniteSet(Fleet) /\ Local \in Tenants
    /\ {MaxSpawned, MaxCycles, MaxEdits, MaxScaffolds} \subseteq Nat

VARIABLES fleet,      \* tenant -> name -> entry of its registry
          child,      \* supervisor processes
          cycle,      \* run_info of the runs, and what is not in it: by whom, and if it worked
          source,     \* name -> its pipeline.py
          edits,
          screen,     \* craw manage in a terminal
          cancel,     \* craw code cancel
          cancelled,  \* runs it said it cancelled (history)
          astray,     \* something was stopped that nobody pointed at (history)
          collateral, \* a cancel ended another run (history)
          overlaid    \* names deployed by the local tenant over a process that lived (history)

VARIABLES observers,  \* rule -> who wrote its instructions
          scaffold,   \* craw code deploy -> its place
          scaffolds,
          overtaken,  \* one died, or its author wrote a rule meanwhile (history)
          lost        \* a rule of the author was overwritten (history)

controlVars == <<fleet, child, cycle, source, edits, screen, cancel, cancelled, astray,
                 collateral, overlaid>>
scaffoldVars == <<observers, scaffold, scaffolds, overtaken, lost>>

Absent == [pid |-> 0, status |-> "none", cadence |-> "none"]
Off == [at |-> "off", rows |-> <<>>, selected |-> 1, detail |-> FALSE, opened |-> 0]
NoCancel == [run |-> 0, name |-> 0]
Unborn == [at |-> "unborn", name |-> 0, tenant |-> Local, parent |-> "shell",
           loaded |-> "unknown", run |-> 0]

ControlInit ==
    /\ fleet = [t \in Tenants |-> [n \in Fleet |-> Absent]]
    /\ child = [p \in 1 .. MaxSpawned |-> Unborn]
    /\ cycle = <<>>
    /\ source = [n \in Fleet |-> [imports |-> TRUE, trigger |-> IF n % 2 = 1 THEN "hourly" ELSE "none"]]
    /\ edits = 0
    /\ screen = Off /\ cancel = NoCancel /\ cancelled = {}
    /\ astray = FALSE /\ collateral = FALSE /\ overlaid = {}
    /\ observers = [r \in Rules |-> "none"]
    /\ scaffold = [d \in Deployers |-> [at |-> "idle", left |-> {}]]
    /\ scaffolds = 0 /\ overtaken = FALSE /\ lost = FALSE

----------------------------------------------------------------------------
(* deploy, stop, restart                                                    *)

Born == {p \in DOMAIN child : child[p].at # "unborn"}
Up == {p \in DOMAIN child : child[p].at = "up"}

\* _pid_alive: a child nobody has waited for still answers
Answers(p) == p # 0 /\ child[p].at \in {"up", "zombie"}

\* _import_project: whatever a pipeline.py raises, it is as if there were none
Builds(n) == source[n].imports

\* the schedule that was asked for, else the one the project declares
LoadTrigger(n) == IF Builds(n) THEN source[n].trigger ELSE "none"
Resolved(n, asked) == IF asked = "none" THEN LoadTrigger(n) ELSE asked
Parses(cadence) == cadence # "bad"

\* who has started a process waits for it only when it starts the next
Perished(c) == [c EXCEPT !.at = IF c.parent = "screen" THEN "zombie" ELSE "gone", !.run = 0]
Terminated(children, p) ==
    [q \in DOMAIN children |-> IF q = p /\ children[q].at = "up" THEN Perished(children[q]) ELSE children[q]]
Reaped(children) ==
    [q \in DOMAIN children |-> IF children[q].at = "zombie" THEN [children[q] EXCEPT !.at = "gone"]
                               ELSE children[q]]
Spawned(children, t, n, parent) ==
    [(IF parent = "screen" THEN Reaped(children) ELSE children) EXCEPT ![Cardinality(Born) + 1] =
        [Unborn EXCEPT !.at = "up", !.name = n, !.tenant = t, !.parent = parent]]

CanSpawn == Cardinality(Born) < MaxSpawned

\* what stands in the registry after a deploy
Entered(n, cadence) == [pid |-> Cardinality(Born) + 1, status |-> "running", cadence |-> cadence]

\* craw code deploy of a tenant, craw deploy of the local one: a bad schedule changes nothing
DeployFor(t, n, asked) ==
    /\ CanSpawn /\ Parses(Resolved(n, asked))
    /\ child' = Spawned(child, t, n, "shell")
    /\ fleet' = [fleet EXCEPT ![t][n] = Entered(n, Resolved(n, asked))]
    /\ overlaid' = overlaid \cup {m \in {n} : t = Local /\ fleet[t][n].pid \in Up}
    /\ UNCHANGED <<cycle, source, edits, screen, cancel, cancelled, astray, collateral>>

\* a stop by t of n: who it meant, and whom the entry leads to
Strikes(t, n, meant) ==
    astray' = (astray \/ \E p \in Up \cap {fleet[t][n].pid} : child[p].name # meant \/ child[p].tenant # t)
StoppedEntry(t, n) == [fleet EXCEPT ![t][n].status = "stopped"]

StopByName(t, n, meant) ==
    /\ fleet[t][n] # Absent
    /\ child' = Terminated(child, fleet[t][n].pid)
    /\ fleet' = StoppedEntry(t, n)
    /\ Strikes(t, n, meant)

\* restart_target: with the schedule of the entry, and so the project's where that was none
Restarted(t, n) == Resolved(n, fleet[t][n].cadence)

RestartByName(t, n, meant, parent) ==
    /\ fleet[t][n] # Absent /\ CanSpawn
    /\ Strikes(t, n, meant)
    /\ LET down == Terminated(child, fleet[t][n].pid) IN
       IF Parses(Restarted(t, n))
         THEN /\ child' = Spawned(down, t, n, parent)
              /\ fleet' = [fleet EXCEPT ![t][n] = Entered(n, Restarted(t, n))]
         ELSE child' = down /\ fleet' = StoppedEntry(t, n)

\* craw code fleet, craw manage with a name
FleetCommand(t, n) ==
    /\ StopByName(t, n, n) \/ RestartByName(t, n, n, "shell")
    /\ UNCHANGED <<cycle, source, edits, screen, cancel, cancelled, collateral, overlaid>>

----------------------------------------------------------------------------
(* The interactive craw manage                                              *)

\* reconcile_liveness of a project
Relisted(n) ==
    IF fleet[Local][n].status = "running" /\ ~Answers(fleet[Local][n].pid)
      THEN [fleet[Local][n] EXCEPT !.status = "dead"] ELSE fleet[Local][n]

\* global_manage_list: a project whose Store cannot be read has no row
Sorted(S) == [i \in 1 .. Cardinality(S) |-> CHOOSE n \in S : Cardinality({m \in S : m < n}) = i - 1]
RowsOf(readable) == Sorted({n \in readable : fleet[Local][n] # Absent})

Shown == screen.rows # <<>>
RowsDrawn == screen.rows[screen.selected]
RowsLive == RowsOf(Fleet)[screen.selected]   \* mutated: the rows are read again
RowUnderCursor == RowsDrawn

StartScreen ==
    /\ screen = Off /\ screen' = [Off EXCEPT !.at = "draw"]
    /\ UNCHANGED <<fleet, child, astray>>

\* the cursor stays where it is, within the rows there are
Clamped(rows) == IF rows = <<>> THEN screen.selected
                 ELSE IF screen.selected > Len(rows) THEN Len(rows) ELSE screen.selected

\* rows_provider, which goes through every entry and marks the dead
Draw ==
    /\ screen.at = "draw"
    /\ \E readable \in SUBSET Fleet :
          /\ fleet' = [fleet EXCEPT ![Local] =
                         [n \in Fleet |-> IF n \in readable THEN Relisted(n) ELSE @[n]]]
          /\ screen' = [screen EXCEPT !.at = "key", !.rows = RowsOf(readable),
                                      !.selected = Clamped(RowsOf(readable))]
    /\ UNCHANGED <<child, astray>>

Redraw == [screen EXCEPT !.at = "draw"]

Move ==
    /\ screen.at = "key" /\ Shown /\ ~screen.detail
    /\ \E to \in {screen.selected - 1, screen.selected + 1} :
          /\ to \in DOMAIN screen.rows
          /\ screen' = [Redraw EXCEPT !.selected = to]
    /\ UNCHANGED <<fleet, child, astray>>

OpenOrClose ==
    /\ screen.at = "key" /\ Shown
    /\ screen' = [Redraw EXCEPT !.detail = ~@, !.opened = IF screen.detail THEN 0 ELSE RowUnderCursor]
    /\ UNCHANGED <<fleet, child, astray>>

StopKey ==
    /\ screen.at = "key" /\ Shown
    /\ StopByName(Local, RowUnderCursor, RowsDrawn)
    /\ screen' = Redraw

\* what deploy raises is caught nowhere: it ends the screen
RestartKey ==
    /\ screen.at = "key" /\ Shown
    /\ RestartByName(Local, RowUnderCursor, RowsDrawn, "screen")
    /\ screen' = IF Parses(Restarted(Local, RowUnderCursor)) THEN Redraw ELSE Off

\* getch gives up after 700 ms
NoKey ==
    /\ screen.at = "key" /\ screen' = Redraw
    /\ UNCHANGED <<fleet, child, astray>>

\* its children become those of init, which waits for them
Quit ==
    /\ screen.at = "key" /\ screen' = Off
    /\ child' = [p \in DOMAIN child |-> [Reaped(child)[p] EXCEPT !.parent = "shell"]]
    /\ UNCHANGED <<fleet, astray>>

ScreenStep ==
    /\ StartScreen \/ Draw \/ Move \/ OpenOrClose \/ StopKey \/ RestartKey \/ NoKey \/ Quit
    /\ UNCHANGED <<cycle, source, edits, cancel, cancelled, collateral, overlaid>>

----------------------------------------------------------------------------
(* craw code cancel                                                         *)

\* get_run_info: the runs of every supervisor are those of the local tenant
Reads(t, r) ==
    /\ cancel = NoCancel /\ t = Local
    /\ cycle[r].status = "running"
    /\ cancel' = [run |-> r, name |-> cycle[r].name]
    /\ UNCHANGED <<fleet, child, cancelled, astray, collateral>>

\* ... then stop for its pipeline, whatever that runs by now
StopForRun ==
    /\ cancel # NoCancel
    /\ cancel' = NoCancel
    /\ LET n == cancel.name
           p == fleet[Local][n].pid
       IN IF fleet[Local][n] = Absent
            THEN UNCHANGED <<fleet, child, cancelled, astray, collateral>>
            ELSE /\ child' = Terminated(child, p) /\ fleet' = StoppedEntry(Local, n)
                 /\ Strikes(Local, n, n)
                 /\ cancelled' = cancelled \cup {cancel.run}
                 /\ collateral' = (collateral \/ (p \in Up /\ child[p].run \notin {0, cancel.run}))

CancelStep ==
    /\ StopForRun \/ \E t \in Tenants, r \in DOMAIN cycle : Reads(t, r)
    /\ UNCHANGED <<cycle, source, edits, screen, overlaid>>

----------------------------------------------------------------------------
(* The supervisors                                                          *)

\* load_workflow when it starts: without a pipeline it runs the empty one, for good
Discover(p) ==
    /\ p \in Up /\ child[p].loaded = "unknown"
    /\ child' = [child EXCEPT ![p].loaded = IF Builds(child[p].name) THEN "yes" ELSE "no"]
    /\ UNCHANGED cycle

StartCycle(p) ==
    /\ p \in Up /\ child[p].loaded # "unknown" /\ child[p].run = 0 /\ Len(cycle) < MaxCycles
    /\ cycle' = Append(cycle, [name |-> child[p].name, pid |-> p, status |-> "running", worked |-> "no"])
    /\ child' = [child EXCEPT ![p].run = Len(cycle')]

\* load_workflow for each cycle: without a pipeline there is nothing to do, and that is done
CycleWorks(p) == child[p].loaded = "yes" /\ Builds(child[p].name)

FinishCycle(p) ==
    /\ p \in Up /\ child[p].run # 0
    /\ \E status \in {"done"} \cup (IF CycleWorks(p) THEN {"failed"} ELSE {}) :
          cycle' = [cycle EXCEPT ![child[p].run].status = status,
                                 ![child[p].run].worked = IF CycleWorks(p) THEN "yes"
                                    ELSE IF child[p].loaded = "no" THEN "never" ELSE "no"]
    /\ child' = [child EXCEPT ![p].run = 0]

Serve ==
    /\ \E p \in DOMAIN child : Discover(p) \/ StartCycle(p) \/ FinishCycle(p)
    /\ UNCHANGED <<fleet, source, edits, screen, cancel, cancelled, astray, collateral, overlaid>>

DieSuddenly ==
    /\ \E p \in Up : child' = Terminated(child, p)
    /\ UNCHANGED <<fleet, cycle, source, edits, screen, cancel, cancelled, astray, collateral, overlaid>>

\* the author edits pipeline.py
Edit ==
    /\ edits < MaxEdits /\ edits' = edits + 1
    /\ \E n \in Fleet :
          source' \in {[source EXCEPT ![n].imports = ~@]}
                         \cup {[source EXCEPT ![n].trigger = c] : c \in {"none", "bad"} \ {source[n].trigger}}
    /\ UNCHANGED <<fleet, child, cycle, screen, cancel, cancelled, astray, collateral, overlaid>>

Operation ==
    \/ \E t \in Tenants, n \in Fleet : FleetCommand(t, n) \/ DeployFor(t, n, "none")
    \/ DieSuddenly

ScreenNext == Operation \/ ScreenStep \/ Edit
CancelNext == Operation \/ CancelStep \/ Serve \/ Edit
----------------------------------------------------------------------------
(* Default observers                                                        *)

Written == {r \in Rules : observers[r] # "none"}
Scaffolding(d) == scaffold[d].at = "write"

\* scaffold_default_observers: only where there is nothing
CheckEmpty(d) ==
    /\ scaffold[d].at = "idle" /\ scaffolds < MaxScaffolds /\ scaffolds' = scaffolds + 1
    /\ scaffold' = [scaffold EXCEPT ![d] = IF Written = {} THEN [at |-> "write", left |-> Rules] ELSE @]
    /\ UNCHANGED <<observers, overtaken, lost>>

WriteRule(d) ==
    /\ Scaffolding(d)
    /\ \E r \in scaffold[d].left :
          /\ observers' = [observers EXCEPT ![r] = "default"]
          /\ lost' = (lost \/ observers[r] = "author")
          /\ scaffold' = [scaffold EXCEPT ![d] = IF scaffold[d].left = {r}
                            THEN [at |-> "idle", left |-> {}]
                            ELSE [at |-> "write", left |-> scaffold[d].left \ {r}]]
    /\ UNCHANGED <<scaffolds, overtaken>>

DeployerDies(d) ==
    /\ Scaffolding(d) /\ scaffold' = [scaffold EXCEPT ![d] = [at |-> "idle", left |-> {}]]
    /\ overtaken' = TRUE
    /\ UNCHANGED <<observers, scaffolds, lost>>

AuthorRule(r) ==
    /\ observers[r] # "author"
    /\ observers' = [observers EXCEPT ![r] = "author"]
    /\ overtaken' = (overtaken \/ \E d \in Deployers : Scaffolding(d))
    /\ UNCHANGED <<scaffold, scaffolds, lost>>

ScaffoldNext ==
    \/ \E d \in Deployers : CheckEmpty(d) \/ WriteRule(d) \/ DeployerDies(d)
    \/ \E r \in Rules : AuthorRule(r)
----------------------------------------------------------------------------
(* Properties                                                               *)

\* However listings, commands and keys interleave, what a stop or a restart ends is a
\* supervisor of the name that was asked for or under the cursor, and of that tenant.
StopsWhatIsMeant == ~astray

\* The cursor is on a row, as rows come and go.
CursorOnRow == screen.at = "key" /\ Shown => screen.selected \in DOMAIN screen.rows

\* A run that craw code cancel said it cancelled does not go on, if its supervisor was
\* deployed for the local tenant and no other over it.
CancelledRunsEnd ==
    \A r \in cancelled :
        child[cycle[r].pid].tenant = Local /\ cycle[r].name \notin overlaid => cycle[r].pid \notin Up

\* An authored observer is overwritten only if it was written while craw code deploy
\* scaffolded, and unless one died a project has all the default ones or its own.
ObserversKept ==
    /\ lost => overtaken
    /\ ~overtaken /\ ~(\E d \in Deployers : Scaffolding(d)) =>
          \/ Written \in {{}, Rules}
          \/ \A r \in Written : observers[r] = "author"

ControlHolds == StopsWhatIsMeant /\ CursorOnRow /\ CancelledRunsEnd /\ ObserversKept
----------------------------------------------------------------------------
(* Claims of the documentation that do not hold (README, 5).                *)

\* "It is **never** a hard kill of host code" (code/control.py:10): the supervisor is
\* terminated in the middle of the run, which stays as running.
CancelIsCooperative == \A r \in cancelled : cycle[r].pid \notin Up => cycle[r].status # "running"

\* "cooperatively cancel a running pipeline": what is cancelled is the run that was named.
CancelsOnlyTheRun == ~collateral

\* "Dead-process detection runs on every read" (manage.py:8): of a child of craw manage
\* that died, the row says that it runs.
DeadAreShown ==
    screen.at = "key" => \A n \in Range(screen.rows) : fleet[Local][n].pid # 0 =>
        ~(fleet[Local][n].status = "running" /\ child[fleet[Local][n].pid].at = "zombie")

\* "Every row is scoped by `org_id`" (docs/guide/manage.md): the runs of a pipeline deployed for a tenant
\* are those of the local one, so that tenant can neither see nor cancel them.
TenantHasItsRuns == \A r \in DOMAIN cycle : child[cycle[r].pid].tenant = Local

\* "restart the supervisor (re-reads schedule)" (docs/guide/manage.md:16)
RestartRereads ==
    [][\A n \in Fleet : RestartByName(Local, n, n, "shell") => fleet'[Local][n].cadence = LoadTrigger(n)]_controlVars

\* a restart leaves the pipeline running
RestartComesBack ==
    [][\A n \in Fleet : RestartByName(Local, n, n, "shell") => fleet'[Local][n].status = "running"]_controlVars

\* the pipeline that was opened is the one that is shown, and that x stops
OpenedIsShown ==
    screen.at = "key" /\ Shown /\ screen.detail => RowUnderCursor = screen.opened

\* a cycle that is done has run the pipeline
DoneMeansWorked == \A r \in DOMAIN cycle : cycle[r].status = "done" => cycle[r].worked = "yes"

\* "a freshly deployed pipeline is watched by default" (code/deploy.py:12)
WatchedOnceDeployed ==
    scaffolds > 0 /\ (\A d \in Deployers : ~Scaffolding(d)) => Written = Rules \/ "author" \in Range(observers)
=============================================================================
