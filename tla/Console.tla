------------------------------ MODULE Console ------------------------------
(***************************************************************************)
(* What an operator sees of many deployments and of one run: the global     *)
(* index of deployments.json (manage.py), read, truncated and written back  *)
(* by every craw deploy, and resolved by craw manage; and the event stream  *)
(* of a run that several Runs append to, as inspect_run sums it up and      *)
(* craw logs follows it (inspector.py).  deploy and stop are one step here: *)
(* Supervisor has what they are made of.                                    *)
(***************************************************************************)
EXTENDS Integers, Sequences, FiniteSets, SequencesExt

CONSTANTS Pipelines,   \* names to deploy under
          Projects,    \* directories, each with a Store of its own
          Operators,   \* commands that can run at the same time
          MaxDeployed, \* bound: deployments made
          Units,       \* Runs of the run that is looked at
          UnitPrices,
          MaxStream    \* bound: events of the run

ASSUME ConsoleAssumption ==
    UnitPrices \subseteq Nat /\ MaxDeployed \in Nat /\ MaxStream \in Nat

VARIABLES index,      \* what deployments.json holds: name -> directory, or torn
          deployed,   \* project -> names in its registry that run, and that were stopped
          operator,   \* where each command is
          latest,     \* name -> directory its last registration was for (history)
          deploys,
          contended,  \* registrations overlapped, or one died halfway (history)
          events,     \* of the run: [kind, cost]
          unit,       \* Run -> its place, and what its attempt so far has cost
          told        \* events the follower was given

indexVars == <<index, deployed, operator, latest, deploys, contended>>
streamVars == <<events, unit, told>>
consoleVars == <<indexVars, streamVars>>

NoOne == [at |-> "off"]
Holding(dirs) == [torn |-> FALSE, dirs |-> dirs]
Unreadable == [torn |-> TRUE, dirs |-> <<>>]

ConsoleInit ==
    /\ index = Holding(<<>>) /\ latest = <<>> /\ deploys = 0 /\ contended = FALSE
    /\ deployed = [d \in Projects |-> [running |-> {}, stopped |-> {}]]
    /\ operator = [o \in Operators |-> NoOne]
    /\ events = <<>> /\ told = <<>>
    /\ unit = [u \in Units |-> [at |-> "new", attempt |-> 0]]

----------------------------------------------------------------------------
(* deployments.json                                                         *)

\* read_deployments: a file that is missing, empty or cut short is no deployment
Readable == index.dirs

Registering(o) == operator[o].at \in {"read", "truncate", "write"}
Clash(o) == \E other \in Operators \ {o} : Registering(other)

NowRunning(d, n) == [deployed EXCEPT ![d].running = @ \cup {n}, ![d].stopped = @ \ {n}]
NowStopped(d, n) == [deployed EXCEPT ![d].running = @ \ {n},
                                ![d].stopped = IF n \in deployed[d].running THEN @ \cup {n} ELSE @]
Known(d) == deployed[d].running \cup deployed[d].stopped

\* craw deploy: the supervisor and the Store first, the index afterwards
CrawDeploy(o, n, d) ==
    /\ operator[o] = NoOne /\ deploys < MaxDeployed
    /\ deployed' = NowRunning(d, n) /\ deploys' = deploys + 1
    /\ operator' = [operator EXCEPT ![o] = [at |-> "read", name |-> n, dir |-> d]]
    /\ contended' = (contended \/ Clash(o))
    /\ UNCHANGED <<index, latest>>

\* register_deployment
ReadIndex(o) ==
    /\ operator[o].at = "read"
    /\ operator' = [operator EXCEPT ![o] =
          [at |-> "truncate", name |-> @.name, dir |-> @.dir, copy |-> Readable]]
    /\ UNCHANGED <<index, deployed, latest, deploys, contended>>

\* write_text opens the file, and so empties it, before it writes
Truncate(o) ==
    /\ operator[o].at = "truncate"
    /\ index' = Unreadable
    /\ operator' = [operator EXCEPT ![o].at = "write"]
    /\ UNCHANGED <<deployed, latest, deploys, contended>>

Put(old, n, d) == [m \in DOMAIN old \cup {n} |-> IF m = n THEN d ELSE old[m]]

OnlyOwn(old, n, d) == [m \in {n} |-> d]   \* mutated: the others are not written back

Merged(old, n, d) == Put(old, n, d)

\* over what another has written since the file was emptied, the end of it may be left
WriteIndex(o) ==
    /\ operator[o].at = "write"
    /\ index' \in {Holding(Merged(operator[o].copy, operator[o].name, operator[o].dir))}
                   \cup {t \in {Unreadable} : index # t}
    /\ latest' = Put(latest, operator[o].name, operator[o].dir)
    /\ operator' = [operator EXCEPT ![o] = NoOne]
    /\ UNCHANGED <<deployed, deploys, contended>>

OperatorDies(o) ==
    /\ Registering(o) /\ operator' = [operator EXCEPT ![o] = NoOne]
    /\ contended' = TRUE
    /\ UNCHANGED <<index, deployed, latest, deploys>>

\* craw code deploy has no part for the index
CodeDeploy(n, d) ==
    /\ deploys < MaxDeployed /\ deploys' = deploys + 1
    /\ deployed' = NowRunning(d, n)
    /\ UNCHANGED <<index, operator, latest, contended>>

\* craw manage stop: a directory for the name, then stop there
ResolveDir(o, n) ==
    /\ operator[o] = NoOne /\ n \in DOMAIN Readable
    /\ operator' = [operator EXCEPT ![o] = [at |-> "stop", name |-> n, dir |-> Readable[n]]]
    /\ UNCHANGED <<index, deployed, latest, deploys, contended>>

StopThere(o) ==
    /\ operator[o].at = "stop"
    /\ deployed' = NowStopped(operator[o].dir, operator[o].name)
    /\ operator' = [operator EXCEPT ![o] = NoOne]
    /\ UNCHANGED <<index, latest, deploys, contended>>

\* global_manage_list: all that each directory of the index has, once per directory
Listed == UNION {Known(d) \X {d} : d \in Range(Readable)}
----------------------------------------------------------------------------
(* The stream of one run                                                    *)

Emit(kind, cost) == events' = Append(events, [kind |-> kind, cost |-> cost])

\* an approval gate idles a Run before it begins, and finishes it in the stream
SuspendUnit(u) ==
    /\ unit[u].at = "new" /\ Len(events) < MaxStream
    /\ Emit("suspended", 0)
    /\ UNCHANGED <<unit, told>>

StartUnit(u) ==
    /\ unit[u].at = "new" /\ Len(events) < MaxStream
    /\ Emit("start", 0)
    /\ unit' = [unit EXCEPT ![u].at = "open"]
    /\ UNCHANGED told

\* a retry or a repair begins its count of what the result costs anew
CallOfUnit(u, price, again) ==
    /\ unit[u].at = "open" /\ Len(events) < MaxStream
    /\ again => unit[u].attempt > 0
    /\ Emit("model", price)
    /\ unit' = [unit EXCEPT ![u].attempt = price + IF again THEN 0 ELSE @]
    /\ UNCHANGED told

\* only a Run that is done says what it cost
FinishUnit(u, kind) ==
    /\ unit[u].at = "open" /\ Len(events) < MaxStream
    /\ Emit(kind, IF kind = "done" THEN unit[u].attempt ELSE 0)
    /\ unit' = [unit EXCEPT ![u].at = "over"]
    /\ UNCHANGED told

TailOver(after) ==   \* mutated: one too far
    IF after < 0 THEN events ELSE SubSeq(events, after + 2, Len(events))

TailEvents(after) ==
    IF after < 0 THEN events ELSE SubSeq(events, after + 1, Len(events))

\* craw logs --after, with the number of events seen so far
Follow ==
    /\ told' = told \o TailEvents(Len(told))
    /\ told' # told
    /\ UNCHANGED <<events, unit>>

Ended(kinds) == {i \in DOMAIN events : events[i].kind \in kinds}
Charges == UNION {{i} \X (1 .. events[i].cost) : i \in Ended({"model"})}
Charged == Cardinality(Charges)   \* the sum of the costs
LatestOf(places) == CHOOSE i \in places : \A j \in places : j <= i

Finishes == {"done", "failed", "suspended"}

\* inspect_run: the last end there is says how it went, the last that is done what it cost
ReportStatus ==
    IF Ended(Finishes) = {} THEN "unknown" ELSE events[LatestOf(Ended(Finishes))].kind
ReportCost ==
    IF Ended({"done"}) = {} THEN Charged ELSE events[LatestOf(Ended({"done"}))].cost

IndexNext ==
    /\ \E o \in Operators :
          \/ \E n \in Pipelines : ResolveDir(o, n) \/ \E d \in Projects : CrawDeploy(o, n, d)
          \/ ReadIndex(o) \/ Truncate(o) \/ WriteIndex(o) \/ OperatorDies(o) \/ StopThere(o)
       \/ \E n \in Pipelines, d \in Projects : CodeDeploy(n, d)
    /\ UNCHANGED streamVars

StreamNext ==
    /\ \E u \in Units :
          \/ StartUnit(u) \/ SuspendUnit(u)
          \/ \E price \in UnitPrices, again \in BOOLEAN : CallOfUnit(u, price, again)
          \/ \E kind \in {"done", "failed"} : FinishUnit(u, kind)
       \/ Follow
    /\ UNCHANGED indexVars

ConsoleNext == IndexNext \/ StreamNext
----------------------------------------------------------------------------
(* Properties                                                               *)

\* However registrations race or die, an entry of the index leads to a directory where the
\* name was deployed: craw manage never stops a pipeline it was not asked about.
IndexIsGrounded == \A n \in DOMAIN Readable : n \in Known(Readable[n])

\* Registrations one at a time lose nothing: the index is where each name was last deployed
\* with craw deploy.
IndexKept == ~contended /\ (\A o \in Operators : ~Registering(o)) => Readable = latest

\* A follower that polls with the number of events it has seen is told each once, in order.
FollowerInStep == IsPrefix(told, events)

\* inspect_run never says that a run cost more than its models charged, and of a run of one
\* Run and one attempt it says what they charged, however it went.
ReportIsFair ==
    /\ ReportCost <= Charged
    /\ (\E u \in Units : unit[u].attempt = Charged /\ \A v \in Units \ {u} : unit[v].at = "new")
           => ReportCost = Charged

ConsoleIsTrue == IndexIsGrounded /\ IndexKept /\ FollowerInStep /\ ReportIsFair
----------------------------------------------------------------------------
(* Claims of the documentation that do not hold (README, 5).                *)

\* "list every deployed pipeline" (docs/guide/manage.md:11): one that craw code deploy
\* deployed is in no index, one deployed elsewhere under the same name replaces the entry,
\* and of two craw deploy at once one may be lost.
NothingUnlisted ==
    (\A o \in Operators : operator[o] = NoOne) =>
        \A d \in Projects : deployed[d].running \subseteq {r[1] : r \in {l \in Listed : l[2] = d}}

\* "after_seq=0 skips the first event" (inspector.py:162): it skips none, so a caller that
\* polls with the index of the last event it saw is told that event again.
TailSkipsTheSeen == events # <<>> => TailEvents(0) = Tail(events)

\* "total cost" (inspector.py:80): the cost of the Run that was done last, not of the run.
ReportIsTotal == Ended({"done"}) # {} => ReportCost = Charged
=============================================================================
