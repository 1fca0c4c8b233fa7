---------------------------- MODULE MCPromotion -----------------------------
(* What has to be passed before a version is the one that runs, each part     *)
(* checked by itself: a behaviour is one of Promotion (three contents of one  *)
(* component, two commands at a time) or of Baselines (two calls at a time).  *)
EXTENDS Promotion, Baselines, TLC
CONSTANTS s1, s2, s3, c1, c2
Symmetry == Permutations({s1, s2, s3}) \cup Permutations({c1, c2})

VARIABLE focus

\* better on the first metric, and without it
MCCandidates == {[x |-> 12, y |-> 6], [y |-> 12]}
MCFreshSamples == {<<>>, [x |-> 6]}

PromotionsInit ==
    /\ focus \in {"promotion", "baselines"}
    /\ Init /\ BaselinesInit

PromotionsNext ==
    /\ UNCHANGED focus
    /\ \/ focus = "promotion" /\ Next /\ UNCHANGED baselinesVars
       \/ focus = "baselines" /\ BaselinesNext /\ UNCHANGED vars

PromotionsSpec == PromotionsInit /\ [][PromotionsNext]_<<focus, vars, baselinesVars>>
=============================================================================
