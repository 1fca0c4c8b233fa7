------------------------------- MODULE Watch -------------------------------
(***************************************************************************)
(* crawfish.emission and crawfish.anomaly: the event stream of one run, the *)
(* cap emit can put on it, and the rules AnomalyEngine.guard reads it with. *)
(* Run and the runtimes emit with no ts and no cap; what else is emitted    *)
(* (Note) may have both.  A guard writes what it finds into the stream it   *)
(* watches, and a HALT trips the token and the budget of the run's calls in *)
(* flight.  emit and guard have no await: each is one step of the loop.     *)
(***************************************************************************)
EXTENDS Integers, Sequences, FiniteSetsExt

CONSTANTS Callers,     \* coroutines that make the run's model calls
          CallPrices,  \* what a call costs
          EventCap,    \* emit's max_per_run
          FloodMax, FloodWindow,  \* EmissionFloodRule: HALT
          SpikeUsd, SpikeWindow,  \* CostSpikeRule: FLAG
          FailPercent,            \* FailureRateRule over everything: FLAG
          StuckAfter,             \* StuckRunRule: FLAG
          WatchLimit,  \* the run's budget
          WatchEnd,    \* bound: last tick of the clock
          MaxEvents    \* bound: nothing begins once the stream has this many

ASSUME WatchAssumption == CallPrices \subseteq Nat /\ WatchLimit \in Nat

VARIABLES now,      \* the caller's clock
          stream,   \* the run's events: kind, ts, cost
          calling,  \* callers with a call in flight
          stopped,  \* callers that BudgetExceeded has ended
          outlay,   \* CostBudget.spent_usd
          ceiling,  \* CostBudget.limit_usd
          halted,   \* CancelToken
          open,     \* the run has started (again) and not finished
          found     \* rules that fired in the last guard, with what they saw

watchVars == <<now, stream, calling, stopped, outlay, ceiling, halted, open, found>>

Event(kind, at, cost) == [kind |-> kind, ts |-> at, cost |-> cost]
Unstamped == 0   \* the default of ts

WatchInit ==
    /\ now = 0 /\ stream = <<>> /\ calling = {} /\ stopped = {}
    /\ outlay = 0
    /\ ceiling = WatchLimit /\ halted = FALSE /\ open = FALSE
    /\ found = [rules |-> {}, own |-> FALSE]

Count(events, Test(_)) == Quantify(DOMAIN events, LAMBDA i : Test(events[i]))
Cost(events) == MapThenSumSet(LAMBDA i : IF events[i].kind = "model" THEN events[i].cost ELSE 0,
                              DOMAIN events)
IsWarning(e) == e.kind = "capped"
Room == Len(stream) < MaxEvents
----------------------------------------------------------------------------
(* emit                                                                     *)

FirstDrop == Count(stream, IsWarning) = 0

\* The cap counts every event of the run; the warning carries no ts.
Capped(e) ==
    IF Len(stream) < EventCap THEN Append(stream, e)
    ELSE IF FirstDrop THEN Append(stream, Event("capped", Unstamped, 0))
    ELSE stream

\* an event of the caller's own, stamped or not
Note ==
    /\ Room
    /\ \E at \in {Unstamped, now} : stream' = Capped(Event("metric", at, 0))
    /\ UNCHANGED <<now, calling, stopped, outlay, ceiling, halted, open, found>>

StartRun ==
    /\ Room /\ ~open /\ ~halted /\ open' = TRUE
    /\ stream' = Append(stream, Event("start", Unstamped, 0))
    /\ UNCHANGED <<now, calling, stopped, outlay, ceiling, halted, found>>

FinishRun ==
    /\ open /\ calling = {} /\ open' = FALSE
    /\ \E kind \in {"done", "failed"} : stream' = Append(stream, Event(kind, Unstamped, 0))
    /\ UNCHANGED <<now, calling, stopped, outlay, ceiling, halted, found>>

BeginCall(w) ==
    /\ Room /\ open /\ ~halted /\ w \notin calling \cup stopped
    /\ calling' = calling \cup {w}
    /\ UNCHANGED <<now, stream, stopped, outlay, ceiling, halted, open, found>>

\* CostBudget.charge raises once the ceiling is passed; then nothing is emitted
EndCall(w) ==
    /\ w \in calling /\ calling' = calling \ {w}
    /\ \E c \in CallPrices :
          /\ outlay' = outlay + c
          /\ stream' = IF outlay' > ceiling THEN stream
                       ELSE Append(stream, Event("model", Unstamped, c))
          /\ stopped' = IF outlay' > ceiling THEN stopped \cup {w} ELSE stopped
    /\ UNCHANGED <<now, ceiling, halted, open, found>>

Clock ==
    /\ now < WatchEnd /\ now' = now + 1
    /\ UNCHANGED <<stream, calling, stopped, outlay, ceiling, halted, open, found>>
----------------------------------------------------------------------------
(* AnomalyEngine.guard                                                      *)

\* the instant a guard is given, or else the latest ts there is
Stamps == {Unstamped} \cup {stream[i].ts : i \in DOMAIN stream}
Instants == {now} \cup {t \in Stamps : \A u \in Stamps : t >= u}

Window(length, at) == SelectSeq(stream, LAMBDA e : e.ts >= at - length)

FloodFires(at) == Len(Window(FloodWindow, at)) >= FloodMax
SpikeFires(at) == Cost(Window(SpikeWindow, at)) >= SpikeUsd

Ends == SelectSeq(stream, LAMBDA e : e.kind \in {"done", "failed"})
Failed(e) == e.kind = "failed"
FailureFires == Ends # <<>> /\ Count(Ends, Failed) * 100 > FailPercent * Len(Ends)

Starts == {i \in DOMAIN stream : stream[i].kind = "start"}

\* the run's last start, unless the run has any finish
StuckFires(at) ==
    Starts # {} /\ Ends = <<>> /\ at - stream[Max(Starts)].ts > StuckAfter

Fires(at) == [flood |-> FloodFires(at), spike |-> SpikeFires(at), failure |-> FailureFires,
              stuck |-> StuckFires(at)]
Firing(at) == {r \in DOMAIN Fires(at) : Fires(at)[r]}

\* strictly below what has been spent
HaltCeiling == outlay - 1

\* every finding becomes an OBSERVER event of the run, past the cap; HALT on a flood
Findings(at) == [i \in 1..Cardinality(Firing(at)) |-> Event("observer", at, 0)]
OwnIn(events) == \E i \in DOMAIN events : events[i].kind = "observer"

GuardAt(at) ==
    /\ Room /\ Firing(at) # {}
    /\ stream' = stream \o Findings(at)
    /\ found' = [rules |-> Firing(at), own |-> OwnIn(Window(FloodWindow, at))]
    /\ halted' = (halted \/ "flood" \in Firing(at))
    /\ ceiling' = IF "flood" \in Firing(at) THEN HaltCeiling ELSE ceiling
    /\ UNCHANGED <<now, calling, stopped, outlay, open>>

Guard == \E at \in Instants : GuardAt(at)

WatchNext ==
    \/ StartRun \/ FinishRun \/ Note \/ Clock \/ Guard
    \/ \E w \in Callers : BeginCall(w) \/ EndCall(w)

WatchSpec == WatchInit /\ [][WatchNext]_watchVars
----------------------------------------------------------------------------
(* Properties                                                               *)

\* the model calls of a stream, with their places in it
Models(s) == {<<i, s[i]>> : i \in {j \in DOMAIN s : s[j].kind = "model"}}

\* A halt is final for the calls already in flight too: whatever they cost, none of
\* them is taken for an answer.
HaltStands == halted => halted' /\ Models(stream') = Models(stream)
----------------------------------------------------------------------------
(* Claims of the documentation that do not hold                             *)

\* "a RUN_START but no RUN_FINISH after seconds" (anomaly.py:229): a run that was
\* suspended or failed and was started again has a finish already, and is never stuck.
StuckIsFound ==
    open /\ (\A i \in DOMAIN stream : stream[i].ts + StuckAfter < now) => StuckFires(now)

\* "a fan-out spinning in a loop emits a flood" (anomaly.py:266): the findings of
\* earlier guards count too, so a watched run can be halted by being watched.
FloodIsTheRuns == "flood" \in found.rules => ~found.own
=============================================================================
