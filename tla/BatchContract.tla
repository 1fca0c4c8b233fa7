--------------------------- MODULE BatchContract ---------------------------
(***************************************************************************)
(* What a caller of BatchExecutor.run may rely on, without workers, queue,  *)
(* retries or money: inside one run each item of the work list gets at most *)
(* one outcome, an outcome is final, and the pipeline is reported done only *)
(* when every item asked for has one.                                       *)
(***************************************************************************)
CONSTANT Items

VARIABLES work,     \* the items of the current run
          outcome,  \* ItemResult per item
          status    \* the pipeline's status in the ledger

vars == <<work, outcome, status>>

Init ==
    /\ work = {}
    /\ outcome = [i \in Items |-> "none"]
    /\ status = "none"

Begin ==
    /\ status # "running"
    /\ work' \in SUBSET Items
    /\ outcome' = [i \in Items |-> "none"]
    /\ status' = "running"

Settle(i) ==
    /\ status = "running"
    /\ i \in work /\ outcome[i] = "none"
    /\ \E r \in {"ok", "dead"} : outcome' = [outcome EXCEPT ![i] = r]
    /\ UNCHANGED <<work, status>>

Complete ==
    /\ status = "running"
    /\ \A i \in work : outcome[i] # "none"
    /\ status' = "done"
    /\ UNCHANGED <<work, outcome>>

Abort ==
    /\ status = "running"
    /\ status' = "failed"
    /\ UNCHANGED <<work, outcome>>

Next == Begin \/ (\E i \in work : Settle(i)) \/ Complete \/ Abort

Spec == Init /\ [][Next]_vars
=============================================================================
