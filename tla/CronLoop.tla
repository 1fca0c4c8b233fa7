------------------------------ MODULE CronLoop ------------------------------
(***************************************************************************)
(* crawfish.deploy.Supervisor.serve under a schedule of crawfish.triggers:  *)
(* the loop takes the time, runs a cycle if the schedule matches it, and    *)
(* sleeps until the next scheduled time.                                    *)
(*                                                                          *)
(* The clock advances by ticks, Minute of them a minute, while a cycle runs *)
(* and while the process sleeps; the other steps of the loop take no time.  *)
(* The wall clock never steps back here.                                    *)
(***************************************************************************)
EXTENDS Integers, FiniteSetsExt

CONSTANTS Minute,    \* ticks in a minute
          MinSleep,  \* ticks of the least sleep, 1 second in the code
          Period,    \* the cron schedule repeats after this many minutes
          Horizon,   \* bound: minutes the clock runs
          MaxCycle,  \* bound: ticks a cycle can take
          MaxLate    \* bound: ticks a process can wake too late

ASSUME CronAssumption ==
    /\ {Minute, MinSleep, Period} \subseteq Nat \ {0}
    /\ {Horizon, MaxCycle, MaxLate} \subseteq Nat

VARIABLES schedule,  \* a cron or an interval schedule
          clock,
          cronPc,        \* where the loop is
          now,       \* the time it last took
          until,     \* when its sleep is over
          fired,     \* cycles begun in each minute
          busy,      \* minutes in which a cycle was running
          slack      \* most ticks one round lost to its cycle and a late wake-up

cronVars == <<schedule, clock, cronPc, now, until, fired, busy, slack>>

Instants == 0 .. Horizon * Minute
Minutes == 0 .. Horizon
MinuteOf(t) == t \div Minute

\* the minutes of a period on which a cron expression matches, or an interval
Cron == [kind : {"cron"}, on : (SUBSET (0 .. Period - 1)) \ {{}}]
Interval == [kind : {"interval"}, every : {1, Minute, Minute + 1}]
----------------------------------------------------------------------------
\* CronSchedule.matches, IntervalSchedule.matches
Matches(t) ==
    schedule.kind = "cron" => MinuteOf(t) % Period \in schedule.on

FirstFrom(m) == Min({k \in m .. m + Period : k % Period \in schedule.on})

\* mutated: the next minute is counted from dt, its seconds are kept
NextAfterUntruncated(t) ==
    IF schedule.kind = "cron" THEN Minute * FirstFrom(MinuteOf(t) + 1) + (t % Minute)
                              ELSE t + schedule.every

\* next_after: strictly after the minute of dt
NextAfter(t) ==
    IF schedule.kind = "cron" THEN Minute * FirstFrom(MinuteOf(t) + 1)
                              ELSE t + schedule.every

Delay(t) == Max({MinSleep, NextAfter(t) - t})
----------------------------------------------------------------------------
CronTypeOK ==
    /\ schedule \in Cron \cup Interval
    /\ clock \in Instants /\ now \in Instants /\ now <= clock
    /\ cronPc \in {"check", "cycle", "sleep"}
    /\ until \in Nat
    /\ fired \in [Minutes -> Nat]
    /\ busy \subseteq Minutes
    /\ slack \in 0 .. MaxCycle + MaxLate

CronInit ==
    /\ schedule \in Cron \cup Interval
    /\ clock \in 0 .. Minute - 1
    /\ cronPc = "check"
    /\ now = clock /\ until = clock
    /\ fired = [m \in Minutes |-> 0]
    /\ busy = {} /\ slack = 0

\* due
Fire ==
    /\ cronPc = "check" /\ Matches(clock)
    /\ now' = clock
    /\ fired' = [fired EXCEPT ![MinuteOf(clock)] = @ + 1]
    /\ busy' = busy \cup {MinuteOf(clock)}
    /\ cronPc' = "cycle"
    /\ UNCHANGED <<schedule, clock, until, slack>>

NotDue ==
    /\ cronPc = "check" /\ ~Matches(clock)
    /\ now' = clock
    /\ until' = clock + Delay(clock)
    /\ cronPc' = "sleep"
    /\ UNCHANGED <<schedule, clock, fired, busy, slack>>

\* the delay is that of the time taken before the cycle
CycleOver ==
    /\ cronPc = "cycle"
    /\ until' = clock + Delay(now)
    /\ cronPc' = "sleep"
    /\ UNCHANGED <<schedule, clock, now, fired, busy, slack>>

SleepOver ==
    /\ cronPc = "sleep" /\ clock >= until
    /\ slack' = Max({slack, clock - (now + Delay(now))})
    /\ cronPc' = "check"
    /\ UNCHANGED <<schedule, clock, now, until, fired, busy>>

Tick ==
    /\ clock < Horizon * Minute
    /\ \/ cronPc = "cycle" /\ clock < now + MaxCycle
       \/ cronPc = "sleep" /\ clock < until + MaxLate
    /\ clock' = clock + 1
    /\ busy' = IF cronPc = "cycle" THEN busy \cup {MinuteOf(clock')} ELSE busy
    /\ UNCHANGED <<schedule, cronPc, now, until, fired, slack>>

CronNext == Fire \/ NotDue \/ CycleOver \/ SleepOver \/ Tick

CronSpec == CronInit /\ [][CronNext]_cronVars
----------------------------------------------------------------------------
(* Properties                                                               *)

Scheduled == {m \in Minutes : m % Period \in schedule.on}
Past == {m \in Minutes : m < MinuteOf(clock)}

\* A scheduled minute has at most one cycle, however short the cycle is.
OnceAMinute == schedule.kind = "cron" => \A m \in Minutes : fired[m] <= 1

\* As long as no cycle, with the late wake-up after it, has lasted a minute,
\* no scheduled minute has passed without its cycle.
Missed == {m \in Scheduled \cap Past : fired[m] = 0}
Lost == Max({slack, clock - (now + Delay(now))})
ShortCyclesMissNothing ==
    schedule.kind = "cron" /\ Lost + MinSleep <= Minute => Missed = {}

\* A schedule fires each of its minutes once, as long as the cycles are short.
MinutesFire == OnceAMinute /\ ShortCyclesMissNothing

(* Claims of the documentation that do not hold (README, 5).                *)

\* "The schedule is never silently skipped": a scheduled minute in which no
\* cycle of an earlier one was running has its cycle.
NoTickSkipped == schedule.kind = "cron" => Missed \subseteq busy
=============================================================================
