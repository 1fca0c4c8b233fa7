------------------------------ MODULE TreeLock ------------------------------
(***************************************************************************)
(* crawfish.code.treelock.TreeLock: an advisory read/write lock on the      *)
(* authored tree, kept in one key of the Store's kv space.  craw code new   *)
(* takes it for writing, craw code sync for reading, each in its own        *)
(* process.  The kv space has no atomic update: every operation reads the   *)
(* state, decides, and writes, and other processes run in between.          *)
(***************************************************************************)
EXTENDS Integers, FiniteSets

CONSTANTS TreeProcs,      \* the processes working on one tree
          NoToken,    \* the empty token
          MaxReaders  \* bound: no reader starts when the entry counts this many

ASSUME TreeLockAssumption ==
    IsFiniteSet(TreeProcs) /\ NoToken \notin TreeProcs /\ MaxReaders \in Nat

VARIABLES lock,   \* the kv entry: mode, token of the writer, number of readers
          treePc,     \* what each process is doing
          seen,   \* the state its last _read returned
          raced,  \* somebody wrote the entry between a _read and its _write
          dead    \* processes that died with a lease

treeVars == <<lock, treePc, seen, raced, dead>>

\* The token of a lease stands for new_id(): a process has one lease at a time.
LockState == [mode : {"", "read", "write"}, token : TreeProcs \cup {NoToken}, readers : Nat]
FreeState == [mode |-> "", token |-> NoToken, readers |-> 0]
ReadState(n) == [mode |-> "read", token |-> NoToken, readers |-> n]
IsFree(s) == s.mode = "" \/ (s.mode = "read" /\ s.readers = 0)

TreeTypeOK ==
    /\ lock \in LockState
    /\ lock.mode = "write" <=> lock.token # NoToken
    /\ lock.mode = "read" => lock.readers > 0
    /\ treePc \in [TreeProcs -> {"idle", "want_write", "want_read", "writing", "reading",
                         "end_write", "end_read"}]
    /\ seen \in [TreeProcs -> LockState]
    /\ raced \in BOOLEAN
    /\ dead \subseteq TreeProcs

TreeInit ==
    /\ lock = FreeState
    /\ treePc = [p \in TreeProcs |-> "idle"]
    /\ seen = [p \in TreeProcs |-> FreeState]
    /\ raced = FALSE /\ dead = {}
----------------------------------------------------------------------------
\* _read at the start of an operation
Look(p, from, to) ==
    /\ p \notin dead /\ treePc[p] = from
    /\ treePc' = [treePc EXCEPT ![p] = to]
    /\ seen' = [seen EXCEPT ![p] = lock]
    /\ UNCHANGED <<lock, raced, dead>>

\* _write at its end
Put(p, state, to) ==
    /\ lock' = state
    /\ raced' = (raced \/ lock # seen[p])
    /\ treePc' = [treePc EXCEPT ![p] = to]
    /\ UNCHANGED <<seen, dead>>

\* nothing to write, or TreeBusy
Leave(p) ==
    /\ treePc' = [treePc EXCEPT ![p] = "idle"]
    /\ UNCHANGED <<lock, seen, raced, dead>>

StartWrite(p) == Look(p, "idle", "want_write")
StartRead(p) == lock.readers < MaxReaders /\ Look(p, "idle", "want_read")
EndWrite(p) == Look(p, "writing", "end_write")
EndRead(p) == Look(p, "reading", "end_read")

WriterSeen(p) == seen[p].mode = "write"   \* mutated: readers do not stop a writer

BusyForWriter(p) == ~IsFree(seen[p])

AcquireWrite(p) ==
    /\ p \notin dead /\ treePc[p] = "want_write"
    /\ IF BusyForWriter(p)
         THEN Leave(p)
         ELSE Put(p, [mode |-> "write", token |-> p, readers |-> 0], "writing")

AcquireRead(p) ==
    /\ p \notin dead /\ treePc[p] = "want_read"
    /\ IF seen[p].mode = "write"
         THEN Leave(p)
         ELSE Put(p, ReadState(seen[p].readers + 1), "reading")

OwnLease(p) == seen[p].mode = "write" /\ seen[p].token = p

ReleaseWrite(p) ==
    /\ p \notin dead /\ treePc[p] = "end_write"
    /\ IF OwnLease(p) THEN Put(p, FreeState, "idle") ELSE Leave(p)

StateAfterReader(n) == IF n > 0 THEN ReadState(n) ELSE FreeState

ReleaseRead(p) ==
    /\ p \notin dead /\ treePc[p] = "end_read"
    /\ IF seen[p].mode = "read"
         THEN Put(p, StateAfterReader(IF seen[p].readers > 0 THEN seen[p].readers - 1 ELSE 0),
                  "idle")
         ELSE Leave(p)

\* killed between acquire and release: the entry stays as it is
LeaseDies(p) ==
    /\ p \notin dead /\ treePc[p] # "idle"
    /\ dead' = dead \cup {p}
    /\ UNCHANGED <<lock, treePc, seen, raced>>

TreeNext == \E p \in TreeProcs :
    \/ StartWrite(p) \/ AcquireWrite(p) \/ EndWrite(p) \/ ReleaseWrite(p)
    \/ StartRead(p) \/ AcquireRead(p) \/ EndRead(p) \/ ReleaseRead(p)
    \/ LeaseDies(p)

TreeSpec == TreeInit /\ [][TreeNext]_treeVars
----------------------------------------------------------------------------
(* Properties                                                               *)

Writes(p) == treePc[p] \in {"writing", "end_write"}
Reads(p) == treePc[p] \in {"reading", "end_read"}

\* A writer has the tree to itself.
Exclusive == \A p, q \in TreeProcs : Writes(p) /\ (Writes(q) \/ Reads(q)) => p = q

\* The decisions are right: exclusion is only lost to the missing atomicity.
ExclusiveUnlessRaced == ~raced => Exclusive

\* The entry tells who has the tree: the writer's token, or the number of
\* readers; and it is free when nobody has it.
EntryUnlessRaced ==
    ~raced =>
        /\ \A p \in TreeProcs : Writes(p) <=> lock.token = p
        /\ lock.readers = Cardinality({p \in TreeProcs : Reads(p)})

\* The lock keeps what it promises, whoever dies, until two operations overlap.
LockUnlessRaced == ExclusiveUnlessRaced /\ EntryUnlessRaced
=============================================================================
