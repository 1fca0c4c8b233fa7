------------------------------- MODULE Serving -------------------------------
(***************************************************************************)
(* ServingLoop (learning.py): live items go to the promoted Definition, and *)
(* some of them to a trial, by a hash of their id against a rate that       *)
(* decays with the items served.  Items are routed one by one and their     *)
(* runs overlap; what a run is worth is recorded when it ends, and graduate *)
(* may be asked at any time.  The loop lives in one process; the recorded   *)
(* rewards outlive it.  Hashes and rates are in units of one over a common  *)
(* denominator.                                                             *)
(***************************************************************************)
EXTENDS Integers, Sequences, FiniteSets, FiniteSetsExt

CONSTANTS LiveItems,
          HashOf,        \* _explore_hash of an item, for the seed of the loop
          Epsilon, Decay,
          SampleSize, MinLift,
          RewardsOf,     \* what an item may be worth
          ServePrice, ServeLimit,
          MaxServed,     \* bound: items one process routes
          MaxOutcomes    \* bound: rewards of an arm

ASSUME ServingAssumption ==
    /\ HashOf \in [LiveItems -> Nat] /\ RewardsOf \subseteq Nat
    /\ {Epsilon, Decay, MinLift, ServePrice, ServeLimit, MaxServed, MaxOutcomes} \subseteq Nat
    /\ SampleSize \in Nat \ {0}

VARIABLES served,    \* the counter that drives the decay
          routed,    \* decisions of this process, in order: [item, explore]
          running,   \* positions in routed whose run has not ended
          bill,      \* spent in the context of this process
          rewards,   \* arm -> [n, sum, least, most] of its outcomes
          verdict,   \* the last GraduationVerdict, if any: on which rewards
          ruled      \* verdicts that were decided, as graduate or not (history)

servingVars == <<served, routed, running, bill, rewards, verdict, ruled>>

Arms == {"trial", "promoted"}
NoRewards == [n |-> 0, sum |-> 0, least |-> 0, most |-> 0]

ServingInit ==
    /\ served = 0 /\ routed = <<>> /\ running = {} /\ bill = 0
    /\ rewards = [arm \in Arms |-> NoRewards]
    /\ verdict = {} /\ ruled = {}
----------------------------------------------------------------------------
(* Routing                                                                  *)

\* the hash is below epsilon / (1 + decay * n)
UnderRate(item, n) == HashOf[item] * (1 + Decay * n) < Epsilon

HasRoom == ServeLimit - bill > 0

Explores(item, n) == HasRoom /\ UnderRate(item, n)

Route(item) ==
    /\ served < MaxServed
    /\ served' = served + 1
    /\ routed' = Append(routed, [item |-> item, explore |-> Explores(item, served)])
    /\ running' = running \cup {Len(routed) + 1}
    /\ UNCHANGED <<bill, rewards, verdict, ruled>>

ExploredFromNow(items) ==   \* mutated: the counter is not reset for the query
    {k \in DOMAIN items : Explores(items[k], served + k - 1)}

\* explored_items, as positions: routed again from nought, with the budget of now
ExploredItems(items) == {k \in DOMAIN items : Explores(items[k], k - 1)}
----------------------------------------------------------------------------
(* Outcomes                                                                 *)

ArmOf(k) == IF routed[k].explore THEN "trial" ELSE "promoted"

Rewarded(seen, r) ==
    [n |-> seen.n + 1, sum |-> seen.sum + r,
     least |-> IF seen.n = 0 THEN r ELSE Min({seen.least, r}), most |-> Max({seen.most, r})]

\* the run of an item is charged for; past the ceiling it has no outcome
RunOver(k, r) ==
    /\ k \in running /\ running' = running \ {k}
    /\ rewards[ArmOf(k)].n < MaxOutcomes
    /\ bill' = bill + ServePrice
    /\ rewards' = IF bill' > ServeLimit THEN rewards
                  ELSE [rewards EXCEPT ![ArmOf(k)] = Rewarded(@, r)]
    /\ UNCHANGED <<served, routed, verdict, ruled>>

\* the mean of the trial against that of the promoted best, which is 0 of none
Beats(trial, best) ==
    LET lift == trial.sum * Max({best.n, 1}) - best.sum * trial.n
    IN  lift > 0 /\ lift >= MinLift * trial.n * Max({best.n, 1})

Graduate ==
    /\ LET decided == rewards["trial"].n >= SampleSize
           graduate == decided /\ Beats(rewards["trial"], rewards["promoted"])
       IN  /\ verdict' = {[graduate |-> graduate, on |-> rewards]}
           /\ ruled' = IF decided THEN ruled \cup {graduate} ELSE ruled
    /\ UNCHANGED <<served, routed, running, bill, rewards>>

\* a new process begins with a loop and a context of its own
RestartServing ==
    /\ served' = 0 /\ routed' = <<>> /\ running' = {} /\ bill' = 0
    /\ UNCHANGED <<rewards, verdict, ruled>>

ServingNext ==
    \/ \E item \in LiveItems : Route(item)
    \/ \E k \in running, r \in RewardsOf : RunOver(k, r)
    \/ Graduate \/ RestartServing

ServingSpec == ServingInit /\ [][ServingNext]_servingVars
----------------------------------------------------------------------------
(* Properties                                                               *)

Explored == {k \in DOMAIN routed : routed[k].explore}

\* Exploration only ever shrinks in the life of a loop, budget and decay together: what is
\* explored would have been at any earlier place, and so would an item of no greater hash.
ExplorationShrinks ==
    \A k \in Explored : \A j \in 1 .. k - 1 :
        HashOf[routed[j].item] <= HashOf[routed[k].item] => j \in Explored

\* While the budget has room, explored_items over what has been routed is what was explored.
QueryIsExact ==
    HasRoom => ExploredItems([k \in DOMAIN routed |-> routed[k].item]) = Explored

\* A trial graduates on its sample at least, and never if each of its rewards is no better
\* than each of the promoted one's.
GraduationIsEarned ==
    \A v \in verdict : v.graduate =>
        /\ v.on["trial"].n >= SampleSize
        /\ v.on["promoted"].n > 0 => v.on["trial"].most > v.on["promoted"].least

ServingIsSound == ExplorationShrinks /\ QueryIsExact /\ GraduationIsEarned
----------------------------------------------------------------------------
(* Claims of the documentation that do not hold (README, 5).                *)

\* "A replay re-explores exactly the same items" (docs/guide/train-and-tune.md:205): not
\* once the budget has run out, in the run or in the replay.
ReplayExploresTheSame == ExploredItems([k \in DOMAIN routed |-> routed[k].item]) = Explored

\* "only on a real lift" (docs/guide/train-and-tune.md:225): without an outcome of the
\* promoted best its mean is taken as 0.
LiftIsReal == \A v \in verdict : v.graduate => v.on["promoted"].n > 0

\* "controlling Type-I error under continuous peeking" (learning.py:598): graduate may be
\* asked again with each further outcome, and the first yes counts.
FirstVerdictStands == Cardinality(ruled) <= 1
=============================================================================
