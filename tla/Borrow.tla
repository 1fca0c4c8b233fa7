------------------------------- MODULE Borrow -------------------------------
(***************************************************************************)
(* crawfish.borrow: exclusive borrow of one Definition by tasks and         *)
(* processes that share a Store.  An acquisition reads the epoch from the   *)
(* borrow_lock record and claims the key of that epoch; the winner records  *)
(* that it holds; a release moves the record to the next epoch.  Each Store *)
(* operation is an action of its own, so holders interleave between them.   *)
(***************************************************************************)
EXTENDS Integers

CONSTANTS Procs,    \* the tasks and processes that borrow
          MaxEpoch  \* bound: acquisitions begin up to this epoch

ASSUME BorrowAssumption == MaxEpoch \in Nat

VARIABLES epoch,    \* borrow_lock record: epoch, 0 if there is no record
          held,     \* borrow_lock record: held
          claims,   \* epochs whose acquisition key has been claimed
          pc,       \* where each process is
          mine,     \* the epoch it has read, later the epoch of its handle
          orphaned  \* a process died with the borrow

vars == <<epoch, held, claims, pc, mine, orphaned>>

TypeOK ==
    /\ epoch \in Nat /\ held \in BOOLEAN
    /\ claims \subseteq Nat
    /\ pc \in [Procs -> {"idle", "read", "claimed", "holding"}]
    /\ mine \in [Procs -> Nat]
    /\ orphaned \in BOOLEAN

Init ==
    /\ epoch = 0 /\ held = FALSE /\ claims = {}
    /\ pc = [p \in Procs |-> "idle"]
    /\ mine = [p \in Procs |-> 0]
    /\ orphaned = FALSE
----------------------------------------------------------------------------
ReadEpoch(p) ==
    /\ pc[p] = "idle" /\ epoch <= MaxEpoch
    /\ mine' = [mine EXCEPT ![p] = epoch]
    /\ pc' = [pc EXCEPT ![p] = "read"]
    /\ UNCHANGED <<epoch, held, claims, orphaned>>

UnclaimedUnchecked(e) == TRUE   \* mutated: reads the record only

Unclaimed(e) == e \notin claims

\* claim_idempotency is the gate
Acquire(p) ==
    /\ pc[p] = "read"
    /\ Unclaimed(mine[p])
    /\ claims' = claims \cup {mine[p]}
    /\ pc' = [pc EXCEPT ![p] = "claimed"]
    /\ UNCHANGED <<epoch, held, mine, orphaned>>

\* ExclusiveBorrowError
Refused(p) ==
    /\ pc[p] = "read"
    /\ ~Unclaimed(mine[p])
    /\ pc' = [pc EXCEPT ![p] = "idle"]
    /\ UNCHANGED <<epoch, held, claims, mine, orphaned>>

RecordedEpoch(p) == mine[p]

RecordHeld(p) ==
    /\ pc[p] = "claimed"
    /\ held' = TRUE /\ epoch' = RecordedEpoch(p)
    /\ pc' = [pc EXCEPT ![p] = "holding"]
    /\ UNCHANGED <<claims, mine, orphaned>>

NextEpoch(p) == mine[p] + 1

\* the with block ends, normally or by an exception
Release(p) ==
    /\ pc[p] = "holding"
    /\ held' = FALSE /\ epoch' = NextEpoch(p)
    /\ pc' = [pc EXCEPT ![p] = "idle"]
    /\ UNCHANGED <<claims, mine, orphaned>>

\* the process dies; nothing expires, nobody else releases
Die(p) ==
    /\ pc[p] # "idle"
    /\ pc' = [pc EXCEPT ![p] = "idle"]
    /\ orphaned' = (orphaned \/ pc[p] \in {"claimed", "holding"})
    /\ UNCHANGED <<epoch, held, claims, mine>>

Next == \E p \in Procs :
    ReadEpoch(p) \/ Acquire(p) \/ Refused(p) \/ RecordHeld(p) \/ Release(p) \/ Die(p)

Spec == Init /\ [][Next]_vars
----------------------------------------------------------------------------
(* Properties                                                               *)

Holds(p) == pc[p] \in {"claimed", "holding"}

\* A mutable borrow never spans two holders, whatever they read and when
\* (ExclusiveBorrowError's promise).
MutualExclusion == \A p, q \in Procs : Holds(p) /\ Holds(q) => p = q

\* A borrow that was released can be acquired again: the epoch of the record is
\* free whenever nobody holds, unless a holder died.
Reacquirable == (\A p \in Procs : ~Holds(p)) /\ ~orphaned => epoch \notin claims

\* One holder at a time, and the borrow does not get stuck with nobody.
BorrowKept == MutualExclusion /\ Reacquirable

\* The record follows the holders in order: it never goes back to an epoch whose
\* borrow is over.
EpochMonotone == [][epoch' >= epoch]_vars
=============================================================================
