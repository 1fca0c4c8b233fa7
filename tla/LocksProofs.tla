----------------------------- MODULE LocksProofs -----------------------------
(***************************************************************************)
(* Proofs about what several processes hold or share, for every number of    *)
(* them: the mutable borrow (Borrow), the lock of the authoring tree         *)
(* (TreeLock) and the commands that take it (Authoring), and the library of  *)
(* one name (Library).  Each part has its inductive invariant, a lemma for   *)
(* each action, and the theorem last.                                        *)
(***************************************************************************)
EXTENDS Borrow, TreeLock, Authoring, Library, FiniteSetTheorems, TLAPS

(* Borrow                                                                   *)

\* What the epoch scheme rests on.  Every epoch before the current one has been
\* claimed, so a process that read an old epoch is refused; a holder's epoch is
\* the current one and is claimed, so one that read the current epoch is too.
EpochInv ==
    /\ \A n \in Nat : n < epoch => n \in claims
    /\ \A n \in claims : n <= epoch
    /\ \A p \in Procs : pc[p] = "read" => mine[p] <= epoch
    /\ \A p \in Procs : Holds(p) => mine[p] = epoch /\ epoch \in claims

BorrowInv == TypeOK /\ EpochInv /\ MutualExclusion /\ Reacquirable

LEMMA BorrowInvInit == Init => BorrowInv
<1> SUFFICES ASSUME Init PROVE BorrowInv
  OBVIOUS
<1>1. held \in BOOLEAN /\ orphaned \in BOOLEAN
  BY Zenon DEF Init
<1>2. TypeOK
  BY <1>1 DEF Init, TypeOK
<1>3. EpochInv /\ MutualExclusion /\ Reacquirable
  BY DEF Init, EpochInv, MutualExclusion, Reacquirable, Holds
<1>4. QED BY <1>2, <1>3 DEF BorrowInv

LEMMA BorrowTypeStep == TypeOK /\ [Next]_vars => TypeOK'
<1> SUFFICES ASSUME TypeOK, [Next]_vars PROVE TypeOK'
  OBVIOUS
<1> USE DEF TypeOK
<1>1. ASSUME NEW p \in Procs, ReadEpoch(p) PROVE TypeOK'
  BY <1>1 DEF ReadEpoch
<1>2. ASSUME NEW p \in Procs, Acquire(p) PROVE TypeOK'
  BY <1>2 DEF Acquire
<1>3. ASSUME NEW p \in Procs, Refused(p) PROVE TypeOK'
  BY <1>3 DEF Refused
<1>4. ASSUME NEW p \in Procs, RecordHeld(p) PROVE TypeOK'
  <2>1. held' \in BOOLEAN
    BY <1>4, Zenon DEF RecordHeld
  <2>2. QED BY <1>4, <2>1 DEF RecordHeld, RecordedEpoch
<1>5. ASSUME NEW p \in Procs, Release(p) PROVE TypeOK'
  <2>1. held' \in BOOLEAN
    BY <1>5, Zenon DEF Release
  <2>2. QED BY <1>5, <2>1 DEF Release, NextEpoch
<1>6. ASSUME NEW p \in Procs, Die(p) PROVE TypeOK'
  BY <1>6 DEF Die
<1>7. CASE UNCHANGED vars
  BY <1>7 DEF vars
<1>8. QED BY <1>1, <1>2, <1>3, <1>4, <1>5, <1>6, <1>7 DEF Next

LEMMA BorrowInvStep == BorrowInv /\ [Next]_vars => BorrowInv'
<1> SUFFICES ASSUME BorrowInv, [Next]_vars PROVE BorrowInv'
  OBVIOUS
<1>0. TypeOK'
  BY BorrowTypeStep DEF BorrowInv
<1> USE <1>0 DEF BorrowInv, TypeOK, EpochInv, MutualExclusion, Reacquirable, Holds
<1>1. ASSUME NEW p \in Procs, ReadEpoch(p) PROVE BorrowInv'
  BY <1>1 DEF ReadEpoch
<1>2. ASSUME NEW p \in Procs, Acquire(p) PROVE BorrowInv'
  <2>1. mine[p] = epoch /\ epoch \notin claims
    BY <1>2 DEF Acquire, Unclaimed
  <2>2. \A q \in Procs : ~Holds(q)
    BY <2>1
  <2>3. QED BY <1>2, <2>1, <2>2 DEF Acquire
<1>3. ASSUME NEW p \in Procs, Refused(p) PROVE BorrowInv'
  BY <1>3 DEF Refused
<1>4. ASSUME NEW p \in Procs, RecordHeld(p) PROVE BorrowInv'
  <2>1. epoch' = epoch
    BY <1>4 DEF RecordHeld, RecordedEpoch
  <2>2. QED BY <1>4, <2>1 DEF RecordHeld
<1>5. ASSUME NEW p \in Procs, Release(p) PROVE BorrowInv'
  <2>1. epoch' = epoch + 1 /\ epoch \in claims /\ claims' = claims
    BY <1>5 DEF Release, NextEpoch
  <2>2. \A q \in Procs : Holds(q) <=> q = p
    BY <1>5 DEF Release
  <2>3. \A q \in Procs : ~Holds(q)'
    BY <1>5, <2>2 DEF Release
  <2>4. EpochInv'
    BY <1>5, <2>1, <2>3 DEF Release
  <2>5. epoch' \notin claims'
    BY <2>1
  <2>6. QED BY <2>3, <2>4, <2>5
<1>6. ASSUME NEW p \in Procs, Die(p) PROVE BorrowInv'
  <2>1. \A q \in Procs : Holds(q)' <=> Holds(q) /\ q # p
    BY <1>6 DEF Die
  <2>2. EpochInv' /\ MutualExclusion'
    BY <1>6, <2>1 DEF Die
  <2>3. Reacquirable'
    <3>1. CASE Holds(p)
      BY <1>6, <3>1 DEF Die
    <3>2. CASE ~Holds(p)
      BY <1>6, <2>1, <3>2 DEF Die
    <3>3. QED BY <3>1, <3>2
  <2>4. QED BY <2>2, <2>3
<1>7. CASE UNCHANGED vars
  BY <1>7 DEF vars
<1>8. QED BY <1>1, <1>2, <1>3, <1>4, <1>5, <1>6, <1>7 DEF Next

(* No two processes ever hold a mutable borrow of one definition, however     *)
(* their reads, claims, records and deaths interleave, and a released borrow  *)
(* can always be taken again: only the death of a holder makes it unavailable. *)
THEOREM BorrowIsKept == Spec => []BorrowKept
<1>1. BorrowInv => BorrowKept
  BY DEF BorrowInv, BorrowKept
<1>2. QED BY <1>1, BorrowInvInit, BorrowInvStep, PTL DEF Spec

(* The epoch in the record never goes back.                                   *)
THEOREM EpochNeverGoesBack == Spec => EpochMonotone
<1>1. BorrowInv /\ [Next]_vars => [epoch' >= epoch]_vars
  <2> SUFFICES ASSUME BorrowInv, Next PROVE epoch' >= epoch
    BY DEF vars
  <2> USE DEF BorrowInv, TypeOK, EpochInv, Holds
  <2>1. PICK p \in Procs : ReadEpoch(p) \/ Acquire(p) \/ Refused(p)
                           \/ RecordHeld(p) \/ Release(p) \/ Die(p)
    BY DEF Next
  <2>2. CASE RecordHeld(p)
    BY <2>2 DEF RecordHeld, RecordedEpoch
  <2>3. CASE Release(p)
    BY <2>3 DEF Release, NextEpoch
  <2>4. CASE epoch' = epoch
    BY <2>4
  <2>5. QED BY <2>1, <2>2, <2>3, <2>4 DEF ReadEpoch, Acquire, Refused, Die
<1>2. QED BY <1>1, BorrowInvInit, BorrowInvStep, PTL DEF Spec, EpochMonotone
----------------------------------------------------------------------------
(* TreeLock                                                                 *)

Readers == {p \in TreeProcs : Reads(p)}

\* Until two operations overlap the entry tells who has the tree, and who is about
\* to release has seen its own lease in it.
EntryIsExact ==
    /\ \A p \in TreeProcs : Writes(p) <=> lock.token = p
    /\ lock.readers = Cardinality(Readers)
    /\ \A p \in TreeProcs : treePc[p] = "end_write" => OwnLease(p)
    /\ \A p \in TreeProcs : treePc[p] = "end_read" => seen[p].mode = "read"

TreeInv ==
    /\ TreeTypeOK
    /\ lock.mode # "read" => lock.readers = 0
    /\ ~raced => EntryIsExact

LEMMA ReadersFinite == IsFiniteSet(Readers) /\ Cardinality(Readers) \in Nat
BY TreeLockAssumption, FS_Subset, FS_CardinalityType DEF Readers

LEMMA TreeInvInit == TreeInit => TreeInv
<1> SUFFICES ASSUME TreeInit PROVE TreeInv
  OBVIOUS
<1>1. lock \in LockState /\ FreeState \in LockState
  BY DEF TreeInit, LockState, FreeState
<1>2. raced \in BOOLEAN
  BY Zenon DEF TreeInit
<1>3. TreeTypeOK
  BY <1>1, <1>2 DEF TreeInit, TreeTypeOK, FreeState
<1>4. Readers = {}
  BY DEF TreeInit, Readers, Reads
<1>5. EntryIsExact
  BY <1>4, FS_EmptySet, TreeLockAssumption
     DEF TreeInit, EntryIsExact, Writes, FreeState, OwnLease
<1>6. QED BY <1>3, <1>5 DEF TreeInv, TreeInit, FreeState

\* An operation begins: it only looks.
LEMMA LookStep ==
  ASSUME TreeInv, NEW p \in TreeProcs, NEW from, NEW to, Look(p, from, to),
         \/ from = "idle" /\ to \in {"want_write", "want_read"}
         \/ from = "writing" /\ to = "end_write"
         \/ from = "reading" /\ to = "end_read"
  PROVE  TreeInv'
<1>1. /\ treePc[p] = from /\ treePc' = [treePc EXCEPT ![p] = to]
      /\ seen' = [seen EXCEPT ![p] = lock]
      /\ lock' = lock /\ raced' = raced /\ dead' = dead
  BY DEF Look
<1>2. TreeTypeOK'
  BY <1>1 DEF TreeInv, TreeTypeOK
<1>3. \A q \in TreeProcs : (Writes(q)' <=> Writes(q)) /\ (Reads(q)' <=> Reads(q))
  BY <1>1 DEF TreeInv, TreeTypeOK, Writes, Reads
<1>4. Readers' = Readers
  BY <1>3 DEF Readers
<1>5. ASSUME ~raced PROVE EntryIsExact'
  <2>1. EntryIsExact
    BY <1>5 DEF TreeInv
  <2>2. ASSUME NEW q \in TreeProcs, treePc'[q] = "end_write" PROVE OwnLease(q)'
    <3>1. CASE q = p
      <4>1. lock.token = p
        BY <1>1, <2>1, <2>2, <3>1 DEF EntryIsExact, Writes, TreeInv, TreeTypeOK
      <4>2. lock.mode = "write"
        BY <4>1, TreeLockAssumption DEF TreeInv, TreeTypeOK
      <4>3. QED BY <1>1, <3>1, <4>1, <4>2 DEF OwnLease, TreeInv, TreeTypeOK
    <3>2. CASE q # p
      BY <1>1, <2>1, <2>2, <3>2 DEF EntryIsExact, OwnLease, TreeInv, TreeTypeOK
    <3>3. QED BY <3>1, <3>2
  <2>3. ASSUME NEW q \in TreeProcs, treePc'[q] = "end_read" PROVE seen'[q].mode = "read"
    <3>1. CASE q = p
      <4>1. p \in Readers
        BY <1>1, <2>3, <3>1 DEF Readers, Reads, TreeInv, TreeTypeOK
      <4>2. lock.readers # 0
        BY <2>1, <4>1, ReadersFinite, FS_EmptySet DEF EntryIsExact
      <4>3. QED BY <1>1, <3>1, <4>2 DEF TreeInv, TreeTypeOK
    <3>2. CASE q # p
      BY <1>1, <2>1, <2>3, <3>2 DEF EntryIsExact, TreeInv, TreeTypeOK
    <3>3. QED BY <3>1, <3>2
  <2>4. QED BY <1>1, <1>3, <1>4, <2>1, <2>2, <2>3 DEF EntryIsExact
<1>6. QED BY <1>1, <1>2, <1>5 DEF TreeInv

\* A refused writer or reader, or a release with nothing to write.
LEMMA LeaveStep ==
  ASSUME TreeInv, NEW p \in TreeProcs, Leave(p), ~raced => ~Writes(p) /\ ~Reads(p)
  PROVE  TreeInv'
<1>1. /\ treePc' = [treePc EXCEPT ![p] = "idle"]
      /\ lock' = lock /\ seen' = seen /\ raced' = raced /\ dead' = dead
  BY DEF Leave
<1>2. TreeTypeOK'
  BY <1>1 DEF TreeInv, TreeTypeOK
<1>3. ASSUME ~raced PROVE EntryIsExact'
  <2>1. \A q \in TreeProcs : (Writes(q)' <=> Writes(q)) /\ (Reads(q)' <=> Reads(q))
    BY <1>1, <1>3 DEF TreeInv, TreeTypeOK, Writes, Reads
  <2>2. Readers' = Readers
    BY <2>1 DEF Readers
  <2>3. QED BY <1>1, <1>3, <2>1, <2>2 DEF EntryIsExact, OwnLease, TreeInv, TreeTypeOK
<1>4. QED BY <1>1, <1>2, <1>3 DEF TreeInv

\* The write at the end of an operation keeps the types, raced or not, ...
LEMMA PutType ==
  ASSUME TreeInv, NEW p \in TreeProcs, NEW s \in LockState, NEW to, Put(p, s, to),
         to \in {"idle", "writing", "reading"},
         s.mode = "write" <=> s.token # NoToken,
         s.mode = "read" => s.readers > 0,
         s.mode # "read" => s.readers = 0,
         ~raced' => EntryIsExact'
  PROVE  TreeInv'
<1>1. raced' \in BOOLEAN
  BY Zenon DEF Put
<1>2. TreeTypeOK'
  BY <1>1 DEF TreeInv, TreeTypeOK, Put
<1>3. QED BY <1>2 DEF TreeInv, Put

\* ... and an operation that nobody overlapped wrote what follows from the entry it saw.
LEMMA PutUnraced ==
  ASSUME TreeInv, NEW p \in TreeProcs, NEW s, NEW to, Put(p, s, to), ~raced'
  PROVE  ~raced /\ seen[p] = lock /\ EntryIsExact /\ lock \in LockState
BY DEF Put, TreeInv, TreeTypeOK

LEMMA AcquireWriteStep ==
  ASSUME TreeInv, NEW p \in TreeProcs, AcquireWrite(p)
  PROVE  TreeInv'
<1>1. treePc[p] = "want_write" /\ ~Writes(p) /\ ~Reads(p)
  BY DEF AcquireWrite, Writes, Reads
<1>2. CASE BusyForWriter(p)
  BY <1>1, <1>2, LeaveStep DEF AcquireWrite
<1>3. CASE ~BusyForWriter(p)
  <2> DEFINE s == [mode |-> "write", token |-> p, readers |-> 0]
  <2>1. Put(p, s, "writing")
    BY <1>3 DEF AcquireWrite
  <2>2. s \in LockState /\ s.token # NoToken
    BY TreeLockAssumption DEF LockState
  <2>3. ASSUME ~raced' PROVE EntryIsExact'
    <3>1. seen[p] = lock /\ EntryIsExact /\ lock \in LockState
      BY <2>1, <2>3, PutUnraced
    <3>2. lock.readers = 0 /\ lock.token = NoToken
      BY <1>3, <3>1 DEF BusyForWriter, IsFree, TreeInv, TreeTypeOK, LockState
    <3>3. Readers = {} /\ \A q \in TreeProcs : ~Writes(q)
      BY <3>1, <3>2, ReadersFinite, FS_EmptySet, TreeLockAssumption DEF EntryIsExact
    <3>4. /\ \A q \in TreeProcs : Writes(q)' <=> q = p
          /\ \A q \in TreeProcs : Reads(q)' <=> Reads(q)
      BY <1>1, <2>1, <3>3 DEF Put, Writes, Reads, TreeInv, TreeTypeOK
    <3>5. Readers' = {}
      BY <3>3, <3>4 DEF Readers
    <3>6. QED BY <1>1, <2>1, <3>1, <3>4, <3>5, FS_EmptySet
              DEF Put, EntryIsExact, OwnLease, TreeInv, TreeTypeOK
  <2>4. QED BY <2>1, <2>2, <2>3, PutType
<1>4. QED BY <1>2, <1>3

LEMMA AcquireReadStep ==
  ASSUME TreeInv, NEW p \in TreeProcs, AcquireRead(p)
  PROVE  TreeInv'
<1>1. treePc[p] = "want_read" /\ ~Writes(p) /\ ~Reads(p)
  BY DEF AcquireRead, Writes, Reads
<1>2. CASE seen[p].mode = "write"
  BY <1>1, <1>2, LeaveStep DEF AcquireRead
<1>3. CASE seen[p].mode # "write"
  <2> DEFINE s == ReadState(seen[p].readers + 1)
  <2>1. Put(p, s, "reading")
    BY <1>3 DEF AcquireRead
  <2>2. s \in LockState /\ s.mode = "read" /\ s.token = NoToken /\ s.readers > 0
    <3>1. seen[p] \in LockState
      BY DEF TreeInv, TreeTypeOK
    <3>2. seen[p].readers \in Nat
      BY <3>1 DEF LockState
    <3>3. QED BY <3>2 DEF LockState, ReadState
  <2>3. ASSUME ~raced' PROVE EntryIsExact'
    <3>1. seen[p] = lock /\ EntryIsExact /\ lock \in LockState
      BY <2>1, <2>3, PutUnraced
    <3>2. \A q \in TreeProcs : ~Writes(q)
      BY <1>3, <3>1, TreeLockAssumption DEF EntryIsExact, TreeInv, TreeTypeOK
    <3>3. /\ \A q \in TreeProcs : ~Writes(q)'
          /\ \A q \in TreeProcs : Reads(q)' <=> Reads(q) \/ q = p
      BY <1>1, <2>1, <3>2 DEF Put, Writes, Reads, TreeInv, TreeTypeOK
    <3>4. Readers' = Readers \cup {p} /\ p \notin Readers
      BY <1>1, <3>3 DEF Readers
    <3>5. Cardinality(Readers') = Cardinality(Readers) + 1
      BY <3>4, ReadersFinite, FS_AddElement
    <3>6. lock'.readers = lock.readers + 1 /\ lock'.token = NoToken
      BY <2>1, <3>1 DEF Put, ReadState
    <3>7. QED BY <1>1, <2>1, <3>1, <3>3, <3>5, <3>6, TreeLockAssumption
              DEF Put, EntryIsExact, OwnLease, TreeInv, TreeTypeOK
  <2>4. QED BY <2>1, <2>2, <2>3, PutType
<1>4. QED BY <1>2, <1>3

LEMMA ReleaseWriteStep ==
  ASSUME TreeInv, NEW p \in TreeProcs, ReleaseWrite(p)
  PROVE  TreeInv'
<1>1. treePc[p] = "end_write" /\ Writes(p) /\ ~Reads(p)
  BY DEF ReleaseWrite, Writes, Reads
<1>2. CASE ~OwnLease(p)
  <2>1. raced
    BY <1>1, <1>2 DEF TreeInv, EntryIsExact
  <2>2. QED BY <1>2, <2>1, LeaveStep DEF ReleaseWrite
<1>3. CASE OwnLease(p)
  <2>1. Put(p, FreeState, "idle")
    BY <1>3 DEF ReleaseWrite
  <2>2. FreeState \in LockState /\ FreeState.mode = "" /\ FreeState.token = NoToken
        /\ FreeState.readers = 0
    BY DEF LockState, FreeState
  <2>3. ASSUME ~raced' PROVE EntryIsExact'
    <3>1. EntryIsExact /\ lock \in LockState
      BY <2>1, <2>3, PutUnraced
    <3>2. lock.token = p /\ lock.readers = 0
      BY <1>1, <3>1, TreeLockAssumption DEF EntryIsExact, TreeInv, TreeTypeOK
    <3>3. \A q \in TreeProcs : Writes(q) => q = p
      BY <3>1, <3>2 DEF EntryIsExact
    <3>4. Readers = {}
      BY <3>1, <3>2, ReadersFinite, FS_EmptySet DEF EntryIsExact
    <3>5. /\ \A q \in TreeProcs : ~Writes(q)'
          /\ \A q \in TreeProcs : Reads(q)' <=> Reads(q)
      BY <1>1, <2>1, <3>3 DEF Put, Writes, Reads, TreeInv, TreeTypeOK
    <3>6. Readers' = {}
      BY <3>4, <3>5 DEF Readers
    <3>7. \A q \in TreeProcs : Writes(q)' <=> lock'.token = q
      BY <2>1, <2>2, <3>5, TreeLockAssumption DEF Put
    <3>8. lock'.readers = Cardinality(Readers')
      BY <2>1, <2>2, <3>6, FS_EmptySet DEF Put
    <3>9. \A q \in TreeProcs : treePc'[q] = IF q = p THEN "idle" ELSE treePc[q]
      BY <2>1 DEF Put, TreeInv, TreeTypeOK
    <3>10. \A q \in TreeProcs : treePc'[q] = "end_write" => OwnLease(q)'
      BY <2>1, <3>1, <3>9 DEF Put, EntryIsExact, OwnLease
    <3>11. \A q \in TreeProcs : treePc'[q] = "end_read" => seen'[q].mode = "read"
      BY <2>1, <3>1, <3>9 DEF Put, EntryIsExact
    <3>12. QED BY <3>7, <3>8, <3>10, <3>11 DEF EntryIsExact
  <2>4. QED BY <2>1, <2>2, <2>3, PutType
<1>4. QED BY <1>2, <1>3

LEMMA ReleaseReadStep ==
  ASSUME TreeInv, NEW p \in TreeProcs, ReleaseRead(p)
  PROVE  TreeInv'
<1>1. treePc[p] = "end_read" /\ ~Writes(p) /\ Reads(p)
  BY DEF ReleaseRead, Writes, Reads
<1>2. CASE seen[p].mode # "read"
  <2>1. raced
    BY <1>1, <1>2 DEF TreeInv, EntryIsExact
  <2>2. QED BY <1>2, <2>1, LeaveStep DEF ReleaseRead
<1>3. CASE seen[p].mode = "read"
  <2> DEFINE n == IF seen[p].readers > 0 THEN seen[p].readers - 1 ELSE 0
  <2>1. Put(p, StateAfterReader(n), "idle")
    BY <1>3 DEF ReleaseRead
  <2>2. n \in Nat
    <3>1. seen[p] \in LockState
      BY DEF TreeInv, TreeTypeOK
    <3>2. seen[p].readers \in Nat
      BY <3>1 DEF LockState
    <3>3. QED BY <3>2
  <2>3. /\ StateAfterReader(n) \in LockState /\ StateAfterReader(n).token = NoToken
        /\ StateAfterReader(n).mode # "write" /\ StateAfterReader(n).readers = n
        /\ StateAfterReader(n).mode = "read" <=> n > 0
    <3> HIDE DEF n
    <3> QED BY <2>2 DEF LockState, StateAfterReader, ReadState, FreeState
  <2>4. ASSUME ~raced' PROVE EntryIsExact'
    <3>1. seen[p] = lock /\ EntryIsExact /\ lock \in LockState
      BY <2>1, <2>4, PutUnraced
    <3>2. \A q \in TreeProcs : ~Writes(q)
      BY <1>3, <3>1, TreeLockAssumption DEF EntryIsExact, TreeInv, TreeTypeOK
    <3>3. /\ \A q \in TreeProcs : ~Writes(q)'
          /\ \A q \in TreeProcs : Reads(q)' <=> Reads(q) /\ q # p
      BY <1>1, <2>1, <3>2 DEF Put, Writes, Reads, TreeInv, TreeTypeOK
    <3>4. Readers' = Readers \ {p} /\ p \in Readers
      BY <1>1, <3>3 DEF Readers
    <3>5. Cardinality(Readers') = Cardinality(Readers) - 1 /\ Cardinality(Readers) # 0
      BY <3>4, ReadersFinite, FS_RemoveElement, FS_EmptySet
    <3>6. lock'.readers = Cardinality(Readers') /\ lock'.token = NoToken
      BY <2>1, <2>3, <3>1, <3>5, ReadersFinite DEF Put, EntryIsExact
    <3>7. QED BY <1>1, <2>1, <3>1, <3>3, <3>6, TreeLockAssumption
              DEF Put, EntryIsExact, OwnLease, TreeInv, TreeTypeOK
  <2>5. QED BY <2>1, <2>2, <2>3, <2>4, PutType
<1>4. QED BY <1>2, <1>3

LEMMA TreeInvStep == TreeInv /\ [TreeNext]_treeVars => TreeInv'
<1> SUFFICES ASSUME TreeInv, [TreeNext]_treeVars PROVE TreeInv'
  OBVIOUS
<1>1. ASSUME NEW p \in TreeProcs,
             StartWrite(p) \/ StartRead(p) \/ EndWrite(p) \/ EndRead(p)
      PROVE  TreeInv'
  BY <1>1, LookStep DEF StartWrite, StartRead, EndWrite, EndRead
<1>2. ASSUME NEW p \in TreeProcs, LeaseDies(p) PROVE TreeInv'
  <2>1. UNCHANGED <<lock, treePc, seen, raced>> /\ dead' \subseteq TreeProcs
    BY <1>2 DEF LeaseDies, TreeInv, TreeTypeOK
  <2>2. TreeTypeOK'
    BY <2>1 DEF TreeInv, TreeTypeOK
  <2>3. EntryIsExact' <=> EntryIsExact
    BY <2>1 DEF EntryIsExact, Readers, Writes, Reads, OwnLease
  <2>4. QED BY <2>1, <2>2, <2>3 DEF TreeInv
<1>3. CASE UNCHANGED treeVars
  <2>1. EntryIsExact' <=> EntryIsExact
    BY <1>3 DEF treeVars, EntryIsExact, Readers, Writes, Reads, OwnLease
  <2>2. QED BY <1>3, <2>1 DEF treeVars, TreeInv, TreeTypeOK
<1>4. QED
  BY <1>1, <1>2, <1>3, AcquireWriteStep, AcquireReadStep, ReleaseWriteStep, ReleaseReadStep
     DEF TreeNext

LEMMA TreeInvLock == TreeInv => LockUnlessRaced
<1> SUFFICES ASSUME TreeInv, ~raced PROVE Exclusive /\ EntryUnlessRaced
  BY Zenon DEF LockUnlessRaced, ExclusiveUnlessRaced, EntryUnlessRaced
<1>1. EntryIsExact
  BY DEF TreeInv
<1>2. ASSUME NEW p \in TreeProcs, NEW q \in TreeProcs, Writes(p), Reads(q) PROVE FALSE
  <2>1. lock.readers = 0
    BY <1>1, <1>2, TreeLockAssumption DEF EntryIsExact, TreeInv, TreeTypeOK
  <2>2. q \in Readers
    BY <1>2 DEF Readers
  <2>3. QED BY <1>1, <2>1, <2>2, ReadersFinite, FS_EmptySet DEF EntryIsExact
<1>3. Exclusive
  BY <1>1, <1>2 DEF Exclusive, EntryIsExact
<1>4. QED BY <1>1, <1>3 DEF EntryUnlessRaced, EntryIsExact, Readers

(* Whoever begins, is refused, releases or dies, in any order and number: as  *)
(* long as no operation on the entry overlapped another, a writer has the     *)
(* tree to itself and the entry says who holds the tree.                      *)
THEOREM TreeLockIsKept == TreeSpec => []LockUnlessRaced
BY TreeInvInit, TreeInvStep, TreeInvLock, PTL DEF TreeSpec
----------------------------------------------------------------------------
(* Authoring                                                                *)

FileContents == Drafts \cup {Absent, Torn}
CommandPlaces == Writing \cup Reading \cup Ended \cup {"start", "leasing"}
Stamped(f, d) == NewRow(f, d) \in stamps

AuthoringTypes ==
    /\ disk \in [Paths -> FileContents]
    /\ writer \subseteq Authors /\ readers \subseteq Authors /\ unfinished \subseteq Authors
    /\ step \in [Authors -> CommandPlaces]
    /\ cmd = [p \in Authors |-> cmd[p]]
    /\ tree \in [Authors -> [Paths -> FileContents]]

\* The write lease and the read lease exclude each other; who writes has the one, alone
\* or killed over it, and a sync the other from its start to its end.
LeasesAreHeld ==
    /\ writer = {} \/ readers = {}
    /\ \A p \in Authors : step[p] \in Writing => writer = {p}
    /\ \A p \in writer : step[p] \in Writing \cup {"killed"}
    /\ \A p \in Authors : cmd[p].kind = "sync" /\ step[p] \in Reading => p \in readers

\* A new has written, and stamped, the files up to the one it is at.
NewIsAt(p) ==
    /\ cmd[p] = [kind |-> "new", draft |-> cmd[p].draft, force |-> cmd[p].force, next |-> cmd[p].next]
    /\ cmd[p].draft \in Drafts /\ cmd[p].next \in 1 .. Len(Files)
    /\ step[p] = "leasing" => cmd[p].next = 1
    /\ step[p] \in Writing => \A i \in 1 .. cmd[p].next - 1 :
          disk[Files[i]] = cmd[p].draft /\ Stamped(Files[i], cmd[p].draft)
    /\ step[p] = "fill" => disk[Current(p)] = Torn
    /\ step[p] = "stamp" => disk[Current(p)] = cmd[p].draft

\* What a sync has compiled is what lies in the tree until it ends, and the files it
\* imported are stamped once it comes to the gate.
SyncIsAt(p) ==
    /\ step[p] \in {"start", "compile"} => tree[p] = NoTree
    /\ cmd[p].kind = "sync" =>
          /\ step[p] \in Reading \ {"compile"} => tree[p] = disk
          /\ step[p] \in {"regate", "recheck", "consent", "clean", "rejected", "consent_required"} =>
                \A f \in Imports(tree[p]) : CompileRow(f, tree[p][f]) \in stamps

\* A file without its provenance is the one a new raised at, or the one the writer is at
\* now: TreeIsStamped, as it is while somebody writes.  Over a killed writer it says
\* nothing, and needs not: the lease is never free again.
Settled(f) == disk[f] = Absent \/ Stamped(f, disk[f])
    \/ \E p \in unfinished : Current(p) = f /\ disk[f] \in {Torn, cmd[p].draft}
AtFile(p, f) == Current(p) = f /\ step[p] \in {"fill", "stamp"}

TreeIsSettled ==
    /\ \A p \in unfinished : step[p] = "raised"
    /\ (\A p \in writer : step[p] \in Writing) =>
          \A f \in Paths : Settled(f) \/ \E p \in writer : AtFile(p, f)
    /\ writer = {} /\ unfinished = {} => Whole(disk)

AuthoringInv ==
    /\ AuthoringTypes /\ LeasesAreHeld
    /\ \A p \in Authors : step[p] \in Writing \cup {"leasing"} => NewIsAt(p)
    /\ \A p \in Authors : SyncIsAt(p)
    /\ TreeIsSettled
----------------------------------------------------------------------------

LEMMA AuthoringInvInit == AuthoringInit => AuthoringInv
<1> SUFFICES ASSUME AuthoringInit PROVE AuthoringInv
  OBVIOUS
<1>1. PICK d \in FileContents :
         disk = WholeTree(d)
         /\ stamps = (IF d = Absent THEN {} ELSE {NewRow(f, d) : f \in Paths})
  BY DEF AuthoringInit, FileContents
<1>2. disk \in [Paths -> FileContents] /\ NoTree \in [Paths -> FileContents]
  BY <1>1 DEF WholeTree, NoTree, FileContents
<1>3. AuthoringTypes /\ LeasesAreHeld
  BY <1>2 DEF AuthoringInit, AuthoringTypes, LeasesAreHeld, CommandPlaces, Writing, Reading
<1>4. \A p \in Authors : step[p] \notin Writing \cup {"leasing"} /\ SyncIsAt(p)
  BY DEF AuthoringInit, SyncIsAt, Writing
<1>5. Whole(disk) /\ writer = {} /\ unfinished = {}
  BY <1>1 DEF AuthoringInit, Whole, WholeTree
<1>6. \A f \in Paths : Settled(f)
  BY <1>1 DEF Settled, Stamped, WholeTree
<1>7. TreeIsSettled
  BY <1>5, <1>6 DEF TreeIsSettled
<1>8. QED BY <1>3, <1>4, <1>7 DEF AuthoringInv

LEMMA ToIsPointwise ==
  ASSUME AuthoringTypes, NEW p \in Authors, NEW s \in CommandPlaces, To(p, s)
  PROVE  /\ step' \in [Authors -> CommandPlaces]
         /\ \A q \in Authors : step'[q] = IF q = p THEN s ELSE step[q]
BY DEF AuthoringTypes, To

\* What a command that stays away from the files leaves of the tree, and of the others.
LEMMA SettledStays ==
  ASSUME AuthoringInv, NEW p \in Authors, step[p] # "raised", stamps \subseteq stamps',
         \A q \in Authors \ {p} : cmd'[q] = cmd[q],
         unfinished \subseteq unfinished', NEW f \in Paths, disk'[f] = disk[f], Settled(f)
  PROVE  Settled(f)'
<1>1. p \notin unfinished /\ unfinished \subseteq Authors
  BY DEF AuthoringInv, TreeIsSettled, AuthoringTypes
<1>2. \A q \in unfinished : q \in unfinished' /\ cmd'[q] = cmd[q] /\ Current(q)' = Current(q)
  BY <1>1 DEF Current
<1>3. CASE disk[f] = Absent \/ Stamped(f, disk[f])
  BY <1>3 DEF Settled, Stamped, NewRow
<1>4. CASE \E q \in unfinished : Current(q) = f /\ disk[f] \in {Torn, cmd[q].draft}
  BY <1>2, <1>4 DEF Settled
<1>5. QED BY <1>3, <1>4 DEF Settled

LEMMA TreeStays ==
  ASSUME AuthoringInv, NEW p \in Authors, p \notin writer, step[p] # "raised",
         disk' = disk, writer' = writer, unfinished' = unfinished, stamps \subseteq stamps',
         \A q \in Authors \ {p} : step'[q] = step[q] /\ cmd'[q] = cmd[q]
  PROVE  TreeIsSettled'
<1>1. p \notin unfinished /\ unfinished \subseteq Authors /\ writer \subseteq Authors
  BY DEF AuthoringInv, TreeIsSettled, AuthoringTypes
<1>2. \A q \in unfinished \cup writer : step'[q] = step[q] /\ Current(q)' = Current(q)
  BY <1>1 DEF Current
<1>3. \A f \in Paths : Settled(f) => Settled(f)'
  BY SettledStays
<1>4. \A f \in Paths, q \in writer : AtFile(q, f) => AtFile(q, f)'
  BY <1>2 DEF AtFile
<1>5. Whole(disk)' <=> Whole(disk)
  BY DEF Whole
<1>6. (\A q \in unfinished : step'[q] = "raised") /\ (writer = {} /\ unfinished = {} => Whole(disk))
  BY <1>2 DEF AuthoringInv, TreeIsSettled
<1>7. (\A q \in writer : step'[q] \in Writing) =>
         \A f \in Paths : Settled(f)' \/ \E q \in writer : AtFile(q, f)'
  BY <1>2, <1>3, <1>4 DEF AuthoringInv, TreeIsSettled
<1>8. QED BY <1>5, <1>6, <1>7 DEF TreeIsSettled

LEMMA OthersStay ==
  ASSUME AuthoringInv, NEW p \in Authors, disk' = disk, stamps \subseteq stamps',
         \A q \in Authors \ {p} : step'[q] = step[q] /\ cmd'[q] = cmd[q] /\ tree'[q] = tree[q]
  PROVE  \A q \in Authors \ {p} :
            (step'[q] \in Writing \cup {"leasing"} => NewIsAt(q)') /\ SyncIsAt(q)'
<1> SUFFICES ASSUME NEW q \in Authors \ {p}
             PROVE  (step'[q] \in Writing \cup {"leasing"} => NewIsAt(q)') /\ SyncIsAt(q)'
  OBVIOUS
<1>1. SyncIsAt(q) /\ (step[q] \in Writing \cup {"leasing"} => NewIsAt(q))
  BY DEF AuthoringInv
<1>2. SyncIsAt(q)'
  BY <1>1 DEF SyncIsAt, NoTree, Imports, CompileRow
<1>3. step'[q] \in Writing \cup {"leasing"} => NewIsAt(q)'
  BY <1>1 DEF NewIsAt, Stamped, NewRow, Current
<1>4. QED BY <1>2, <1>3

\* An action of p that writes no file and has no write lease: what is left to show is
\* about p and the leases.
LEMMA QuietAction ==
  ASSUME AuthoringInv, NEW p \in Authors, NEW s \in CommandPlaces, To(p, s),
         step[p] \notin Writing \cup Ended,
         disk' = disk, stamps \subseteq stamps', writer' = writer, unfinished' = unfinished,
         AuthoringTypes', LeasesAreHeld',
         \A q \in Authors \ {p} : cmd'[q] = cmd[q] /\ tree'[q] = tree[q],
         (s \in Writing \cup {"leasing"} => NewIsAt(p)') /\ SyncIsAt(p)'
  PROVE  AuthoringInv'
<1>1. \A q \in Authors : step'[q] = IF q = p THEN s ELSE step[q]
  BY ToIsPointwise DEF AuthoringInv
<1>2. \A q \in Authors \ {p} :
         (step'[q] \in Writing \cup {"leasing"} => NewIsAt(q)') /\ SyncIsAt(q)'
  BY <1>1, OthersStay
<1>3. p \notin writer /\ step[p] # "raised"
  BY DEF AuthoringInv, LeasesAreHeld, Ended
<1>4. TreeIsSettled'
  BY <1>1, <1>3, TreeStays
<1>5. \A q \in Authors :
         (step'[q] \in Writing \cup {"leasing"} => NewIsAt(q)') /\ SyncIsAt(q)'
  BY <1>1, <1>2
<1>6. QED BY <1>4, <1>5 DEF AuthoringInv

LEMMA NewStep == ASSUME AuthoringInv, NEW p \in Authors, New(p) PROVE AuthoringInv'
<1>1. PICK d \in Drafts, force \in BOOLEAN :
         /\ Chosen(p, [kind |-> "new", draft |-> d, force |-> force, next |-> 1])
         /\ To(p, IF Existing /\ ~force THEN "refused" ELSE "leasing")
  BY DEF New
<1>2. PICK s \in {"refused", "leasing"} : To(p, s)
  BY <1>1
<1>3. s \in CommandPlaces /\ s \notin Writing /\ s \notin Reading /\ step[p] \notin Writing \cup Ended
  BY DEF New, CommandPlaces, Ended, Writing, Reading
<1>4. /\ step' \in [Authors -> CommandPlaces]
      /\ \A q \in Authors : step'[q] = IF q = p THEN s ELSE step[q]
  BY <1>2, <1>3, ToIsPointwise DEF AuthoringInv
<1>5. /\ cmd' = [q \in Authors |-> cmd'[q]]
      /\ cmd'[p] = [kind |-> "new", draft |-> d, force |-> force, next |-> 1]
      /\ \A q \in Authors \ {p} : cmd'[q] = cmd[q]
  BY <1>1 DEF Chosen, AuthoringInv, AuthoringTypes
<1>6. AuthoringTypes'
  BY <1>4, <1>5 DEF New, AuthoringInv, AuthoringTypes
<1>7. LeasesAreHeld'
  BY <1>3, <1>4, <1>5 DEF New, AuthoringInv, AuthoringTypes, LeasesAreHeld, Ended
<1>8. s \in Writing \cup {"leasing"} => NewIsAt(p)'
  BY <1>3, <1>4, <1>5, AuthoringAssumption DEF NewIsAt, Writing
<1>9. SyncIsAt(p)'
  BY <1>2, <1>4, <1>5 DEF SyncIsAt
<1>10. QED BY <1>2, <1>3, <1>5, <1>6, <1>7, <1>8, <1>9, QuietAction DEF New

LEMMA LeaseWriteStep == ASSUME AuthoringInv, NEW p \in Authors, LeaseWrite(p) PROVE AuthoringInv'
<1>1. /\ NewIsAt(p) /\ SyncIsAt(p) /\ step[p] = "leasing" /\ cmd[p].kind = "new"
      /\ step[p] \notin Writing \cup Ended
  BY DEF LeaseWrite, AuthoringInv, Writing, Ended
<1>2. CASE writer = {} /\ readers = {}
  <2>1. To(p, "write") /\ writer' = {p} /\ readers' = {}
    BY <1>2 DEF LeaseWrite
  <2>2. /\ step' \in [Authors -> CommandPlaces]
        /\ \A q \in Authors : step'[q] = IF q = p THEN "write" ELSE step[q]
    BY <2>1, ToIsPointwise DEF AuthoringInv, CommandPlaces, Writing
  <2>3. AuthoringTypes'
    BY <2>1, <2>2 DEF LeaseWrite, AuthoringInv, AuthoringTypes
  <2>4. \A q \in Authors : step[q] \notin Writing
    BY <1>2 DEF AuthoringInv, LeasesAreHeld
  <2>5. LeasesAreHeld'
    BY <1>2, <2>1, <2>2, <2>4 DEF LeaseWrite, AuthoringInv, LeasesAreHeld, Reading, Writing
  <2>6. NewIsAt(p)'
    BY <1>1, <2>2 DEF NewIsAt, LeaseWrite
  <2>7. SyncIsAt(p)'
    BY <1>1, <2>2 DEF SyncIsAt, LeaseWrite
  <2>8. \A q \in Authors \ {p} :
           (step'[q] \in Writing \cup {"leasing"} => NewIsAt(q)') /\ SyncIsAt(q)'
    BY <2>2, OthersStay DEF LeaseWrite
  <2>9. \A q \in Authors :
           (step'[q] \in Writing \cup {"leasing"} => NewIsAt(q)') /\ SyncIsAt(q)'
    BY <2>6, <2>7, <2>8
  <2>10. \A f \in Paths : Settled(f)'
    <3>1. \A f \in Paths : Settled(f)
      BY <1>2 DEF AuthoringInv, TreeIsSettled
    <3>2. QED BY <1>1, <3>1, SettledStays DEF LeaseWrite
  <2>11. \A q \in unfinished' : step'[q] = "raised"
    BY <1>1, <2>2 DEF LeaseWrite, AuthoringInv, AuthoringTypes, TreeIsSettled
  <2>12. TreeIsSettled'
    BY <2>1, <2>10, <2>11 DEF TreeIsSettled
  <2>13. QED BY <2>3, <2>5, <2>9, <2>12 DEF AuthoringInv
<1>3. CASE ~(writer = {} /\ readers = {})
  <2>1. To(p, "busy") /\ writer' = writer /\ "busy" \in CommandPlaces
    BY <1>3 DEF LeaseWrite, CommandPlaces, Ended
  <2>2. /\ step' \in [Authors -> CommandPlaces]
        /\ \A q \in Authors : step'[q] = IF q = p THEN "busy" ELSE step[q]
    BY <2>1, ToIsPointwise DEF AuthoringInv
  <2>3. AuthoringTypes'
    BY <2>1, <2>2 DEF LeaseWrite, AuthoringInv, AuthoringTypes
  <2>4. LeasesAreHeld'
    BY <1>1, <2>1, <2>2 DEF LeaseWrite, AuthoringInv, AuthoringTypes, LeasesAreHeld, Writing, Reading
  <2>5. SyncIsAt(p)'
    BY <1>1, <2>2 DEF SyncIsAt, LeaseWrite
  <2>6. QED BY <1>1, <2>1, <2>3, <2>4, <2>5, QuietAction DEF LeaseWrite, Writing
<1>4. QED BY <1>2, <1>3

\* A new puts c into the file it is at: what is left of the old content, or its draft.
LEMMA FileStep ==
  ASSUME AuthoringInv, NEW p \in Authors, NEW s \in {"fill", "stamp"}, NEW c, To(p, s),
         step[p] \in {"write", "fill"}, c = (IF s = "fill" THEN Torn ELSE cmd[p].draft),
         disk' = [disk EXCEPT ![Current(p)] = c],
         UNCHANGED <<stamps, writer, readers, cmd, tree, unfinished>>
  PROVE  AuthoringInv'
<1>1. NewIsAt(p) /\ SyncIsAt(p) /\ writer = {p} /\ readers = {} /\ step[p] \in Writing
  BY DEF AuthoringInv, LeasesAreHeld, Writing
<1>2. s \in CommandPlaces /\ s \in Writing
  BY DEF CommandPlaces, Writing
<1>3. /\ step' \in [Authors -> CommandPlaces]
      /\ \A q \in Authors : step'[q] = IF q = p THEN s ELSE step[q]
  BY <1>2, ToIsPointwise DEF AuthoringInv
<1>4. Current(p) \in Paths /\ c \in FileContents /\ Current(p)' = Current(p)
  BY <1>1, AuthoringAssumption DEF Current, NewIsAt, Paths, FileContents
<1>5. /\ disk' \in [Paths -> FileContents]
      /\ \A f \in Paths : disk'[f] = IF f = Current(p) THEN c ELSE disk[f]
  BY <1>4 DEF AuthoringInv, AuthoringTypes
<1>6. AuthoringTypes'
  BY <1>3, <1>5 DEF AuthoringInv, AuthoringTypes
<1>7. LeasesAreHeld'
  BY <1>1, <1>2, <1>3 DEF AuthoringInv, LeasesAreHeld, Writing, Reading
<1>8. NewIsAt(p)'
  <2>1. \A i \in 1 .. Len(Files) : Files[i] \in Paths
    BY AuthoringAssumption DEF Paths
  <2>2. cmd'[p] = cmd[p] /\ stamps' = stamps /\ cmd[p].next \in 1 .. Len(Files)
    BY <1>1 DEF NewIsAt
  <2>3. \A i \in 1 .. cmd[p].next - 1 :
           disk'[Files[i]] = cmd[p].draft /\ Stamped(Files[i], cmd[p].draft)
    <3>1. ASSUME NEW i \in 1 .. cmd[p].next - 1
          PROVE  disk'[Files[i]] = cmd[p].draft /\ Stamped(Files[i], cmd[p].draft)
      <4>1. disk[Files[i]] = cmd[p].draft /\ Stamped(Files[i], cmd[p].draft)
        BY <1>1 DEF NewIsAt
      <4>2. i \in 1 .. Len(Files) /\ i # cmd[p].next
        BY <2>2, AuthoringAssumption
      <4>3. Files[i] # Current(p)
        BY <2>2, <4>2, AuthoringAssumption DEF Current
      <4>4. QED BY <1>5, <2>1, <4>1, <4>2, <4>3
    <3>2. QED BY <3>1
  <2>4. disk'[Current(p)] = c
    BY <1>4, <1>5
  <2>5. QED BY <1>1, <1>3, <1>4, <2>2, <2>3, <2>4 DEF NewIsAt, Stamped, NewRow
<1>9. SyncIsAt(p)'
  BY <1>1, <1>3 DEF SyncIsAt, NewIsAt
<1>10. ASSUME NEW q \in Authors \ {p}
       PROVE  (step'[q] \in Writing \cup {"leasing"} => NewIsAt(q)') /\ SyncIsAt(q)'
  <2>1. step[q] \notin Writing /\ ~(cmd[q].kind = "sync" /\ step[q] \in Reading)
    BY <1>1 DEF AuthoringInv, LeasesAreHeld
  <2>2. SyncIsAt(q) /\ (step[q] = "leasing" => NewIsAt(q))
    BY DEF AuthoringInv
  <2>3. step'[q] = step[q] /\ cmd'[q] = cmd[q] /\ tree'[q] = tree[q] /\ stamps' = stamps
    BY <1>3
  <2>4. SyncIsAt(q)'
    BY <2>1, <2>2, <2>3 DEF SyncIsAt, NoTree, Imports, CompileRow
  <2>5. step[q] = "leasing" => NewIsAt(q)'
    BY <2>1, <2>2, <2>3 DEF NewIsAt, Writing
  <2>6. QED BY <2>1, <2>3, <2>4, <2>5
<1>11. TreeIsSettled'
  <2>1. \A q \in unfinished' : step'[q] = "raised"
    BY <1>3 DEF AuthoringInv, AuthoringTypes, TreeIsSettled
  <2>2. ASSUME NEW f \in Paths PROVE Settled(f)' \/ AtFile(p, f)'
    <3>1. CASE f = Current(p)
      BY <1>3, <1>4, <3>1 DEF AtFile
    <3>2. CASE f # Current(p)
      <4>1. Settled(f)
        BY <1>1, <3>2 DEF AuthoringInv, TreeIsSettled, AtFile
      <4>2. QED BY <1>5, <3>2, <4>1, SettledStays
    <3>3. QED BY <3>1, <3>2
  <2>3. QED BY <1>1, <2>1, <2>2 DEF TreeIsSettled
<1>12. QED BY <1>3, <1>6, <1>7, <1>8, <1>9, <1>10, <1>11 DEF AuthoringInv

LEMMA StampStep == ASSUME AuthoringInv, NEW p \in Authors, Stamp(p) PROVE AuthoringInv'
<1> DEFINE row == NewRow(StampPath(p), cmd[p].draft)
<1>1. /\ NewIsAt(p) /\ SyncIsAt(p) /\ step[p] = "stamp" /\ step[p] \in Writing
      /\ writer = {p} /\ readers = {}
  BY DEF Stamp, AuthoringInv, LeasesAreHeld, Writing
<1>2. stamps' = stamps \cup {row} /\ disk' = disk /\ tree' = tree
  BY DEF Stamp
<1>3. row = NewRow(Files[cmd[p].next], cmd[p].draft)
  BY DEF StampPath, Current
<1>4. \A i \in 1 .. cmd[p].next :
         disk[Files[i]] = cmd[p].draft /\ NewRow(Files[i], cmd[p].draft) \in stamps'
  <2>1. ASSUME NEW i \in 1 .. cmd[p].next
        PROVE  disk[Files[i]] = cmd[p].draft /\ NewRow(Files[i], cmd[p].draft) \in stamps'
    <3>1. CASE i = cmd[p].next
      BY <1>1, <1>2, <1>3, <3>1 DEF NewIsAt, Current
    <3>2. CASE i # cmd[p].next
      <4>1. i \in 1 .. cmd[p].next - 1
        BY <1>1, <3>2 DEF NewIsAt
      <4>2. QED BY <1>1, <1>2, <4>1 DEF NewIsAt, Stamped
    <3>3. QED BY <3>1, <3>2
  <2>2. QED BY <2>1
<1>5. \A f \in Paths : Settled(f) \/ f = Current(p)
  BY <1>1 DEF AuthoringInv, TreeIsSettled, AtFile
<1>6. disk[Current(p)] = cmd[p].draft /\ NewRow(Current(p), cmd[p].draft) \in stamps'
  BY <1>1, <1>4 DEF NewIsAt, Current
<1>7. \A q \in unfinished : step[q] = "raised" /\ q # p
  BY <1>1 DEF AuthoringInv, TreeIsSettled
<1> HIDE DEF row
<1>8. CASE cmd[p].next < Len(Files)
  <2>1. /\ To(p, "write") /\ "write" \in CommandPlaces /\ writer' = writer
        /\ unfinished' = unfinished /\ Chosen(p, [cmd[p] EXCEPT !.next = @ + 1])
    BY <1>8 DEF Stamp, CommandPlaces, Writing
  <2>2. /\ step' \in [Authors -> CommandPlaces]
        /\ \A q \in Authors : step'[q] = IF q = p THEN "write" ELSE step[q]
    BY <2>1, ToIsPointwise DEF AuthoringInv
  <2>3. /\ cmd' = [q \in Authors |-> cmd'[q]]
        /\ cmd'[p] = [kind |-> "new", draft |-> cmd[p].draft, force |-> cmd[p].force,
                      next |-> cmd[p].next + 1]
        /\ \A q \in Authors \ {p} : cmd'[q] = cmd[q]
    <3>1. cmd = [q \in Authors |-> cmd[q]]
      BY DEF AuthoringInv, AuthoringTypes
    <3>2. [cmd[p] EXCEPT !.next = @ + 1]
             = [kind |-> "new", draft |-> cmd[p].draft, force |-> cmd[p].force,
                next |-> cmd[p].next + 1]
      <4> DEFINE c == cmd[p]
      <4>1. c = [kind |-> "new", draft |-> c.draft, force |-> c.force, next |-> c.next]
        BY <1>1 DEF NewIsAt
      <4> HIDE DEF c
      <4>2. [c EXCEPT !.next = @ + 1]
               = [kind |-> "new", draft |-> c.draft, force |-> c.force, next |-> c.next + 1]
        BY <4>1
      <4>3. QED BY <4>2 DEF c
    <3>3. cmd' = [cmd EXCEPT ![p] = [cmd[p] EXCEPT !.next = @ + 1]]
      BY <2>1 DEF Chosen
    <3>4. QED BY <3>1, <3>2, <3>3
  <2>4. AuthoringTypes'
    BY <1>2, <2>1, <2>2, <2>3 DEF Stamp, AuthoringInv, AuthoringTypes
  <2>5. LeasesAreHeld'
    BY <1>1, <2>1, <2>2, <2>3 DEF Stamp, AuthoringInv, LeasesAreHeld, Writing, Reading
  <2>6. NewIsAt(p)'
    <3>1. cmd[p].next + 1 \in 1 .. Len(Files) /\ cmd[p].draft \in Drafts
      BY <1>1, <1>8, AuthoringAssumption DEF NewIsAt
    <3>2. \A i \in 1 .. cmd'[p].next - 1 : i \in 1 .. cmd[p].next
      BY <1>1, <2>3 DEF NewIsAt
    <3>3. \A i \in 1 .. cmd'[p].next - 1 :
             disk'[Files[i]] = cmd'[p].draft /\ NewRow(Files[i], cmd'[p].draft) \in stamps'
      BY <1>2, <1>4, <2>3, <3>2
    <3>4. QED BY <2>2, <2>3, <3>1, <3>3 DEF NewIsAt, Stamped, NewRow
  <2>7. SyncIsAt(p)'
    BY <2>2, <2>3 DEF SyncIsAt
  <2>8. \A q \in Authors \ {p} :
           (step'[q] \in Writing \cup {"leasing"} => NewIsAt(q)') /\ SyncIsAt(q)'
    BY <1>2, <2>2, <2>3, OthersStay
  <2>9. \A q \in Authors :
           (step'[q] \in Writing \cup {"leasing"} => NewIsAt(q)') /\ SyncIsAt(q)'
    BY <2>2, <2>6, <2>7, <2>8
  <2>10. \A f \in Paths : Settled(f)'
    <3>1. ASSUME NEW f \in Paths, Settled(f) PROVE Settled(f)'
      BY <1>1, <1>2, <2>1, <2>3, <3>1, SettledStays
    <3>2. ASSUME NEW f \in Paths, f = Current(p) PROVE Settled(f)'
      BY <1>2, <1>6, <3>2 DEF Settled, Stamped, NewRow
    <3>3. QED BY <1>5, <3>1, <3>2
  <2>11. TreeIsSettled'
    BY <1>1, <1>7, <2>1, <2>2, <2>10 DEF TreeIsSettled, AuthoringInv, AuthoringTypes
  <2>12. QED BY <2>4, <2>5, <2>9, <2>11 DEF AuthoringInv
<1>9. CASE ~(cmd[p].next < Len(Files))
  <2>1. /\ To(p, "done") /\ "done" \in CommandPlaces /\ "done" \notin Writing
        /\ writer' = {} /\ unfinished' = {} /\ cmd' = cmd
    BY <1>9 DEF Stamp, CommandPlaces, Ended, Writing
  <2>2. /\ step' \in [Authors -> CommandPlaces]
        /\ \A q \in Authors : step'[q] = IF q = p THEN "done" ELSE step[q]
    BY <2>1, ToIsPointwise DEF AuthoringInv
  <2>3. AuthoringTypes'
    BY <1>2, <2>1, <2>2 DEF Stamp, AuthoringInv, AuthoringTypes
  <2>4. LeasesAreHeld'
    BY <1>1, <2>1, <2>2 DEF Stamp, AuthoringInv, LeasesAreHeld, Writing, Reading
  <2>5. \A f \in Paths : disk[f] = cmd[p].draft /\ NewRow(f, disk[f]) \in stamps'
    <3>1. cmd[p].next = Len(Files)
      BY <1>1, <1>9, AuthoringAssumption DEF NewIsAt
    <3>2. \A f \in Paths : \E i \in 1 .. cmd[p].next : f = Files[i]
      BY <3>1, AuthoringAssumption DEF Paths
    <3>3. QED BY <1>4, <3>2
  <2>6. \A f \in Paths : Settled(f)'
    BY <1>2, <2>5 DEF Settled, Stamped, NewRow
  <2>7. Whole(disk)'
    BY <1>2, <2>5 DEF Whole
  <2>8. TreeIsSettled'
    BY <2>1, <2>6, <2>7 DEF TreeIsSettled
  <2>9. SyncIsAt(p)'
    BY <1>1, <2>1, <2>2 DEF SyncIsAt, NewIsAt
  <2>10. \A q \in Authors \ {p} :
           (step'[q] \in Writing \cup {"leasing"} => NewIsAt(q)') /\ SyncIsAt(q)'
    BY <1>2, <2>1, <2>2, OthersStay
  <2>11. \A q \in Authors :
           (step'[q] \in Writing \cup {"leasing"} => NewIsAt(q)') /\ SyncIsAt(q)'
    BY <2>1, <2>2, <2>9, <2>10
  <2>12. QED BY <2>3, <2>4, <2>8, <2>11 DEF AuthoringInv
<1>10. QED BY <1>8, <1>9

LEMMA SyncStep == ASSUME AuthoringInv, NEW p \in Authors, Sync(p) PROVE AuthoringInv'
<1>1. SyncIsAt(p) /\ step[p] = "start" /\ step[p] \notin Writing \cup Ended
  BY DEF Sync, AuthoringInv, Writing, Ended
<1>2. PICK s \in {"compile", "busy"} : To(p, s) /\ (s = "compile" => MayRead /\ readers' = readers \cup {p})
                                       /\ (s = "busy" => readers' = readers)
  BY DEF Sync
<1>3. s \in CommandPlaces /\ s \notin Writing /\ s # "leasing"
  BY DEF CommandPlaces, Ended, Writing, Reading
<1>4. /\ step' \in [Authors -> CommandPlaces]
      /\ \A q \in Authors : step'[q] = IF q = p THEN s ELSE step[q]
  BY <1>2, <1>3, ToIsPointwise DEF AuthoringInv
<1>5. /\ cmd' = [q \in Authors |-> cmd'[q]] /\ cmd'[p] = [kind |-> "sync"]
      /\ \A q \in Authors \ {p} : cmd'[q] = cmd[q]
  BY DEF Sync, Chosen, AuthoringInv, AuthoringTypes
<1>6. AuthoringTypes'
  BY <1>2, <1>4, <1>5 DEF Sync, AuthoringInv, AuthoringTypes
<1>7. LeasesAreHeld'
  BY <1>1, <1>2, <1>3, <1>4, <1>5 DEF Sync, MayRead, AuthoringInv, AuthoringTypes, LeasesAreHeld, Reading, Ended
<1>8. SyncIsAt(p)'
  BY <1>1, <1>2, <1>4 DEF SyncIsAt, Sync, Reading
<1>9. QED BY <1>1, <1>2, <1>3, <1>5, <1>6, <1>7, <1>8, QuietAction DEF Sync

LEMMA ReaderStep ==
  ASSUME AuthoringInv, NEW p \in Authors, Describe(p) \/ Grant(p)
  PROVE  AuthoringInv'
<1>1. /\ SyncIsAt(p) /\ step[p] = "start" /\ To(p, "compile") /\ "compile" \in CommandPlaces
      /\ step[p] \notin Writing \cup Ended
  BY DEF Describe, Grant, Do, AuthoringInv, CommandPlaces, Reading, Writing, Ended
<1>2. PICK c \in {[kind |-> kind] : kind \in {"describe", "map"}}
             \cup {[kind |-> "grant", yes |-> yes] : yes \in BOOLEAN} :
         Chosen(p, c)
  BY DEF Describe, Grant
<1>3. /\ step' \in [Authors -> CommandPlaces]
      /\ \A q \in Authors : step'[q] = IF q = p THEN "compile" ELSE step[q]
  BY <1>1, ToIsPointwise DEF AuthoringInv
<1>4. /\ cmd' = [q \in Authors |-> cmd'[q]] /\ cmd'[p] = c
      /\ \A q \in Authors \ {p} : cmd'[q] = cmd[q]
  BY <1>2 DEF Chosen, AuthoringInv, AuthoringTypes
<1>5. /\ disk' = disk /\ stamps' = stamps /\ writer' = writer
      /\ readers' = readers /\ tree' = tree /\ unfinished' = unfinished
  BY DEF Describe, Grant
<1>6. AuthoringTypes'
  BY <1>3, <1>4, <1>5 DEF AuthoringInv, AuthoringTypes
<1>7. c.kind # "sync"
  BY <1>2
<1>8. LeasesAreHeld'
  BY <1>1, <1>3, <1>4, <1>5, <1>7 DEF AuthoringInv, AuthoringTypes, LeasesAreHeld, Writing, Ended
<1>9. SyncIsAt(p)'
  BY <1>1, <1>3, <1>4, <1>5, <1>7 DEF SyncIsAt, NoTree
<1>10. QED BY <1>1, <1>4, <1>5, <1>6, <1>8, <1>9, QuietAction DEF Writing

LEMMA CompileStep == ASSUME AuthoringInv, NEW p \in Authors, Compile(p) PROVE AuthoringInv'
<1>1. SyncIsAt(p) /\ step[p] = "compile" /\ tree[p] = NoTree /\ step[p] \notin Writing \cup Ended
  BY DEF Compile, AuthoringInv, SyncIsAt, Writing, Ended
<1>2. PICK s \in {"rehash", "done"} :
         /\ To(p, s)
         /\ s = "rehash" => tree' = [tree EXCEPT ![p] = disk] /\ readers' = readers
         /\ s = "done" => tree' = tree /\ readers' = readers \ {p}
  BY DEF Compile
<1>3. s \in CommandPlaces /\ s \notin Writing /\ s # "leasing"
  BY DEF CommandPlaces, Ended, Writing, Reading
<1>4. /\ step' \in [Authors -> CommandPlaces]
      /\ \A q \in Authors : step'[q] = IF q = p THEN s ELSE step[q]
  BY <1>2, <1>3, ToIsPointwise DEF AuthoringInv
<1>5. /\ tree' \in [Authors -> [Paths -> FileContents]]
      /\ tree'[p] = IF s = "rehash" THEN disk ELSE NoTree
      /\ \A q \in Authors \ {p} : tree'[q] = tree[q]
  BY <1>1, <1>2 DEF AuthoringInv, AuthoringTypes
<1>6. AuthoringTypes'
  BY <1>2, <1>4, <1>5 DEF Compile, AuthoringInv, AuthoringTypes
<1>7. LeasesAreHeld'
  BY <1>1, <1>2, <1>3, <1>4 DEF Compile, AuthoringInv, AuthoringTypes, LeasesAreHeld, Reading, Ended
<1>8. SyncIsAt(p)'
  BY <1>2, <1>4, <1>5 DEF Compile, SyncIsAt, Reading
<1>9. QED BY <1>1, <1>2, <1>3, <1>5, <1>6, <1>7, <1>8, QuietAction DEF Compile

LEMMA RehashStep == ASSUME AuthoringInv, NEW p \in Authors, Rehash(p) PROVE AuthoringInv'
<1>1. SyncIsAt(p) /\ step[p] = "rehash" /\ step[p] \notin Writing \cup Ended
  BY DEF Rehash, AuthoringInv, Writing, Ended
<1>2. PICK s \in {"done", "regate"} : To(p, s)
  BY DEF Rehash
<1>3. s \in CommandPlaces /\ s \notin Writing /\ s # "leasing"
  BY DEF CommandPlaces, Ended, Writing, Reading
<1>4. /\ step' \in [Authors -> CommandPlaces]
      /\ \A q \in Authors : step'[q] = IF q = p THEN s ELSE step[q]
  BY <1>2, <1>3, ToIsPointwise DEF AuthoringInv
<1>5. AuthoringTypes'
  BY <1>4 DEF Rehash, AuthoringInv, AuthoringTypes
<1>6. LeasesAreHeld'
  BY <1>1, <1>3, <1>4 DEF Rehash, AuthoringInv, AuthoringTypes, LeasesAreHeld, Reading, Ended
<1>7. SyncIsAt(p)'
  <2>1. cmd[p].kind = "sync" => tree[p] = disk
    BY <1>1 DEF SyncIsAt, Reading
  <2>2. cmd[p].kind = "sync" =>
           \A f \in Imports(tree[p]) : CompileRow(f, tree[p][f]) \in stamps'
    BY <2>1 DEF Rehash, CompileRows
  <2>3. cmd' = cmd /\ tree' = tree /\ disk' = disk
    BY DEF Rehash
  <2>4. QED BY <1>1, <1>2, <1>4, <2>1, <2>2, <2>3 DEF SyncIsAt, Imports, CompileRow
<1>8. stamps \subseteq stamps'
  BY DEF Rehash
<1>9. QED BY <1>1, <1>2, <1>3, <1>5, <1>6, <1>7, <1>8, QuietAction DEF Rehash

\* What is left only moves a reader on, and gives back its read lease at the end, or when
\* it raises.
LEMMA MoveOn ==
  ASSUME AuthoringInv, NEW p \in Authors, NEW s \in Reading \cup Ended, To(p, s),
         step[p] \in Reading \cup {"leasing"},
         s \in Reading => step[p] \in {"regate", "recheck"} /\ s \in {"recheck", "consent"},
         s \in {"clean", "rejected", "consent_required"} => step[p] \in {"regate", "recheck", "consent"},
         readers' = readers \/ (s \in Ended /\ readers' = readers \ {p}),
         stamps \subseteq stamps', UNCHANGED <<disk, writer, cmd, tree, unfinished>>
  PROVE  AuthoringInv'
<1>1. SyncIsAt(p) /\ step[p] \notin Writing \cup Ended
  BY DEF AuthoringInv, Writing, Reading, Ended
<1>2. s \in CommandPlaces /\ s \notin Writing /\ s # "leasing"
  BY DEF CommandPlaces, Ended, Writing, Reading
<1>3. /\ step' \in [Authors -> CommandPlaces]
      /\ \A q \in Authors : step'[q] = IF q = p THEN s ELSE step[q]
  BY <1>2, ToIsPointwise DEF AuthoringInv
<1>4. AuthoringTypes'
  BY <1>3 DEF AuthoringInv, AuthoringTypes
<1>5. LeasesAreHeld'
  <2>1. writer = {} \/ readers' = {}
    BY DEF AuthoringInv, LeasesAreHeld
  <2>2. \A q \in Authors : step'[q] \in Writing => writer = {q}
    BY <1>2, <1>3 DEF AuthoringInv, LeasesAreHeld
  <2>3. p \notin writer /\ writer \subseteq Authors
    BY <1>1 DEF AuthoringInv, AuthoringTypes, LeasesAreHeld, Ended
  <2>4. \A q \in writer : step'[q] \in Writing \cup {"killed"}
    BY <1>3, <2>3 DEF AuthoringInv, LeasesAreHeld
  <2>5. \A q \in Authors \ {p} : cmd[q].kind = "sync" /\ step'[q] \in Reading => q \in readers'
    BY <1>3 DEF AuthoringInv, LeasesAreHeld
  <2>6. cmd[p].kind = "sync" /\ step'[p] \in Reading => p \in readers'
    BY <1>3 DEF AuthoringInv, LeasesAreHeld, Reading, Ended
  <2>7. QED BY <2>1, <2>2, <2>4, <2>5, <2>6 DEF LeasesAreHeld
<1>6. SyncIsAt(p)'
  BY <1>1, <1>2, <1>3 DEF SyncIsAt, Reading, Ended, Imports, CompileRow
<1>7. QED BY <1>1, <1>2, <1>4, <1>5, <1>6, QuietAction

LEMMA GateStep ==
  ASSUME AuthoringInv, NEW p \in Authors,
         Rejected(p) \/ Regated(p) \/ Generated(p) \/ StillNew(p) \/ Consent(p) \/ Declined(p)
  PROVE  AuthoringInv'
<1>1. CASE Rejected(p)
  BY <1>1, MoveOn DEF Rejected, Do, Reading, Ended
<1>2. CASE Regated(p)
  BY <1>2, MoveOn DEF Regated, Reading, Ended
<1>3. CASE Generated(p)
  BY <1>3, MoveOn DEF Generated, Do, Reading, Ended
<1>4. CASE StillNew(p)
  BY <1>4, MoveOn DEF StillNew, Do, Reading, Ended
<1>5. CASE Consent(p)
  BY <1>5, MoveOn DEF Consent, Do, Reading, Ended
<1>6. CASE Declined(p)
  BY <1>6, MoveOn DEF Declined, Do, Reading, Ended
<1>7. QED BY <1>1, <1>2, <1>3, <1>4, <1>5, <1>6

LEMMA StampedInPartAdds == ASSUME NEW p \in Authors, StampedInPart(p) PROVE stamps \subseteq stamps'
BY DEF StampedInPart

\* Where a new stops: the file it is at, if it has touched it, is the one left unsettled.
LEMMA StopStep ==
  ASSUME AuthoringInv, NEW p \in Authors, NEW s \in {"raised", "killed"}, To(p, s),
         step[p] \in Writing, StampedInPart(p),
         s = "raised" => writer' = writer \ {p} /\ unfinished' = unfinished \cup {p},
         s = "killed" => writer' = writer /\ unfinished' = unfinished,
         readers' = readers \/ readers' = readers \ {p}, UNCHANGED <<disk, cmd, tree>>
  PROVE  AuthoringInv'
<1>1. /\ NewIsAt(p) /\ SyncIsAt(p) /\ writer = {p} /\ readers = {} /\ readers' = {}
      /\ stamps \subseteq stamps' /\ step[p] # "raised"
  BY StampedInPartAdds DEF AuthoringInv, LeasesAreHeld, Writing
<1>2. s \in CommandPlaces /\ s \notin Writing /\ s # "leasing" /\ s \notin Reading
  BY DEF CommandPlaces, Ended, Writing, Reading
<1>3. /\ step' \in [Authors -> CommandPlaces]
      /\ \A q \in Authors : step'[q] = IF q = p THEN s ELSE step[q]
  BY <1>2, ToIsPointwise DEF AuthoringInv
<1>4. AuthoringTypes'
  BY <1>1, <1>3 DEF AuthoringInv, AuthoringTypes
<1>5. LeasesAreHeld'
  BY <1>1, <1>2, <1>3 DEF AuthoringInv, LeasesAreHeld
<1>6. SyncIsAt(p)'
  BY <1>1, <1>3 DEF SyncIsAt, NewIsAt
<1>7. \A q \in Authors \ {p} :
         (step'[q] \in Writing \cup {"leasing"} => NewIsAt(q)') /\ SyncIsAt(q)'
  BY <1>1, <1>3, OthersStay
<1>8. \A q \in Authors :
         (step'[q] \in Writing \cup {"leasing"} => NewIsAt(q)') /\ SyncIsAt(q)'
  BY <1>2, <1>3, <1>6, <1>7
<1>9. \A q \in unfinished : step'[q] = "raised"
  BY <1>1, <1>3 DEF AuthoringInv, AuthoringTypes, TreeIsSettled
<1>10. CASE s = "killed"
  <2>1. TreeIsSettled'
    BY <1>1, <1>2, <1>3, <1>9, <1>10 DEF TreeIsSettled
  <2>2. QED BY <1>4, <1>5, <1>8, <2>1 DEF AuthoringInv
<1>11. CASE s = "raised"
  <2>1. writer' = {} /\ unfinished' = unfinished \cup {p} /\ Current(p)' = Current(p)
    BY <1>1, <1>11 DEF Current
  <2>2. ASSUME NEW f \in Paths PROVE Settled(f)'
    <3>1. Settled(f) \/ AtFile(p, f)
      BY <1>1 DEF AuthoringInv, TreeIsSettled
    <3>2. CASE Settled(f)
      BY <1>1, <2>1, <3>2, SettledStays
    <3>3. CASE AtFile(p, f)
      <4>1. Current(p) = f /\ disk[f] \in {Torn, cmd[p].draft}
        BY <1>1, <3>3 DEF AtFile, NewIsAt
      <4>2. QED BY <2>1, <4>1 DEF Settled
    <3>4. QED BY <3>1, <3>2, <3>3
  <2>3. TreeIsSettled'
    BY <1>3, <1>9, <1>11, <2>1, <2>2 DEF TreeIsSettled
  <2>4. QED BY <1>4, <1>5, <1>8, <2>3 DEF AuthoringInv
<1>12. QED BY <1>10, <1>11

LEMMA RaisesStep == ASSUME AuthoringInv, NEW p \in Authors, Raises(p) PROVE AuthoringInv'
<1>1. To(p, "raised") /\ StampedInPart(p) /\ stamps \subseteq stamps' /\ UNCHANGED <<disk, cmd, tree>>
  BY StampedInPartAdds DEF Raises
<1>2. CASE step[p] \in Writing
  <2>1. /\ writer' = writer \ {p} /\ unfinished' = unfinished \cup {p}
        /\ readers' = readers \ {p} /\ "raised" \in {"raised", "killed"} /\ "raised" # "killed"
    BY <1>2 DEF Raises
  <2>2. QED BY <1>1, <1>2, <2>1, StopStep
<1>3. CASE step[p] \in Reading
  <2>1. step[p] \notin Writing \cup {"killed"}
    BY <1>3 DEF Reading, Writing
  <2>2. p \notin writer
    BY <2>1 DEF AuthoringInv, LeasesAreHeld
  <2>3. writer' = writer /\ unfinished' = unfinished /\ readers' = readers \ {p}
    BY <2>1, <2>2 DEF Raises
  <2>4. QED BY <1>1, <1>3, <2>3, MoveOn DEF Reading, Ended
<1>4. QED BY <1>2, <1>3 DEF Raises

LEMMA KillStep == ASSUME AuthoringInv, NEW p \in Authors, KillCommand(p) PROVE AuthoringInv'
<1>1. /\ To(p, "killed") /\ StampedInPart(p) /\ stamps \subseteq stamps'
      /\ UNCHANGED <<disk, writer, readers, cmd, tree, unfinished>>
  BY StampedInPartAdds DEF KillCommand
<1>2. CASE step[p] \in Writing
  BY <1>1, <1>2, StopStep
<1>3. CASE step[p] \in Reading \cup {"leasing"}
  BY <1>1, <1>3, MoveOn DEF Reading, Ended
<1>4. QED BY <1>2, <1>3 DEF KillCommand

LEMMA AuthoringInvStep == AuthoringInv /\ [AuthoringNext]_authoringVars => AuthoringInv'
<1>1. ASSUME AuthoringInv, UNCHANGED authoringVars PROVE AuthoringInv'
  <2>1. UNCHANGED <<disk, stamps, writer, readers, step, cmd, tree, unfinished>>
    BY <1>1 DEF authoringVars
  <2>2. AuthoringTypes' /\ LeasesAreHeld'
    BY <1>1, <2>1 DEF AuthoringInv, AuthoringTypes, LeasesAreHeld
  <2>3. \A p \in Authors : step'[p] \in Writing \cup {"leasing"} => NewIsAt(p)'
    BY <1>1, <2>1 DEF AuthoringInv, NewIsAt, Stamped, NewRow, Current
  <2>4. \A p \in Authors : SyncIsAt(p)'
    BY <1>1, <2>1 DEF AuthoringInv, SyncIsAt, NoTree, Imports, CompileRow
  <2>5. \A f \in Paths : Settled(f) => Settled(f)'
    BY <2>1 DEF Settled, Stamped, NewRow, Current
  <2>6. \A f \in Paths, p \in writer : AtFile(p, f) => AtFile(p, f)'
    BY <2>1 DEF AtFile, Current
  <2>7. TreeIsSettled'
    BY <1>1, <2>1, <2>5, <2>6 DEF AuthoringInv, TreeIsSettled, Whole
  <2>8. QED BY <2>2, <2>3, <2>4, <2>7 DEF AuthoringInv
<1>2. ASSUME NEW p \in Authors, OpenFile(p), AuthoringInv PROVE AuthoringInv'
  <2>1. "fill" \in {"fill", "stamp"}
    OBVIOUS
  <2>2. QED BY <1>2, <2>1, FileStep DEF OpenFile, Do
<1>3. ASSUME NEW p \in Authors, WriteFile(p), AuthoringInv PROVE AuthoringInv'
  <2>1. "stamp" \in {"fill", "stamp"} /\ "stamp" # "fill"
    OBVIOUS
  <2>2. QED BY <1>3, <2>1, FileStep DEF WriteFile, Do
<1>4. QED
  BY <1>1, <1>2, <1>3, NewStep, LeaseWriteStep, StampStep, SyncStep, ReaderStep, CompileStep,
     RehashStep, GateStep, RaisesStep, KillStep DEF AuthoringNext

(* Any number of commands of craw code on a component of any number of files,  *)
(* whoever raises or is killed where: what a sync compiles is what lies in the *)
(* tree, stamped with the content it was compiled from; and whenever nobody    *)
(* holds the write lease, a file without its provenance is one that a new      *)
(* raised at, until the next new to go through leaves the tree whole and       *)
(* stamped.                                                                    *)
THEOREM TreeStaysSound == AuthoringSpec => []TreeIsSound
<1>1. AuthoringInv => TreeIsSound
  <2> SUFFICES ASSUME AuthoringInv PROVE TreeIsSound
    OBVIOUS
  <2>1. SyncCompilesTree
    <3> SUFFICES ASSUME NEW p \in Authors, cmd[p].kind = "sync", tree[p] # NoTree
                 PROVE  /\ step[p] \in Reading =>
                              tree[p] = disk /\ (unfinished = {} => Whole(tree[p]))
                        /\ step[p] \in {"regate", "recheck", "consent", "clean", "rejected", "consent_required"} =>
                              \A f \in Imports(tree[p]) : CompileRow(f, tree[p][f]) \in stamps
      BY DEF SyncCompilesTree
    <3>1. SyncIsAt(p)
      BY DEF AuthoringInv
    <3>2. ASSUME step[p] \in Reading
          PROVE  tree[p] = disk /\ (unfinished = {} => Whole(tree[p]))
      <4>1. tree[p] = disk
        BY <3>1, <3>2 DEF SyncIsAt, Reading
      <4>2. writer = {}
        BY <3>2 DEF AuthoringInv, LeasesAreHeld
      <4>3. QED BY <4>1, <4>2 DEF AuthoringInv, TreeIsSettled
    <3>3. QED BY <3>1, <3>2 DEF SyncIsAt
  <2>2. TreeIsStamped
    BY DEF AuthoringInv, TreeIsSettled, Settled, Stamped, TreeIsStamped
  <2>3. QED BY <2>1, <2>2 DEF TreeIsSound
<1>2. QED BY <1>1, AuthoringInvInit, AuthoringInvStep, PTL DEF AuthoringSpec

(* A command ends clean only over a grant that covers what it compiled, and    *)
(* only a grant that says --yes changes what is granted (regate_definition,    *)
(* consent_install).                                                          *)
THEOREM CleanStaysCovered == AuthoringSpec => CleanIsCovered
<1> DEFINE Covering ==
       /\ granted' # granted => \E p \in Authors : Approves(p) /\ step[p] = "consent"
       /\ \A p \in Authors : step[p] # "clean" /\ step'[p] = "clean" =>
             /\ Declared(tree[p]).secrets \subseteq granted'.secrets
             /\ Declared(tree[p]).egress \subseteq granted'.egress
<1>1. AuthoringInv /\ [AuthoringNext]_authoringVars => [Covering]_authoringVars
  <2> SUFFICES ASSUME AuthoringInv, AuthoringNext PROVE Covering
    BY DEF authoringVars
  <2>1. PICK p \in Authors :
           \/ New(p) \/ LeaseWrite(p) \/ OpenFile(p) \/ WriteFile(p) \/ Stamp(p)
           \/ Sync(p) \/ Describe(p) \/ Grant(p) \/ Compile(p) \/ Rehash(p) \/ Rejected(p)
           \/ Regated(p) \/ Generated(p) \/ StillNew(p) \/ Consent(p) \/ Declined(p)
           \/ Raises(p) \/ KillCommand(p)
    BY DEF AuthoringNext
  <2>2. ASSUME NEW s, To(p, s)
        PROVE  \A q \in Authors : step'[q] = IF q = p THEN s ELSE step[q]
    BY <2>2 DEF To, AuthoringInv, AuthoringTypes
  <2>3. CASE Consent(p)
    BY <2>2, <2>3 DEF Consent, Do
  <2>4. CASE Regated(p)
    BY <2>2, <2>4 DEF Regated, Covered
  <2>5. ASSUME NEW s, To(p, s), s # "clean", granted' = granted
        PROVE  Covering
    BY <2>2, <2>5
  <2>6. QED
    BY <2>1, <2>3, <2>4, <2>5 DEF New, LeaseWrite, OpenFile, WriteFile, Stamp, Sync, Describe, Grant,
       Compile, Rehash, Rejected, Generated, StillNew, Declined, Raises, KillCommand, Do
<1>2. QED BY <1>1, AuthoringInvInit, AuthoringInvStep, PTL DEF AuthoringSpec, CleanIsCovered
----------------------------------------------------------------------------
(* Library                                                                  *)

Places == {"idle", "put", "number", "append", "point", "recall"}
Shas == Contents \cup {NoContent}

LibraryTypes ==
    /\ versions \subseteq Row /\ objects \subseteq Contents /\ head \in Shas
    /\ at \in [Savers -> Places]
    /\ job \in [Savers -> [sha : Shas, parent : Shas, base : Shas, seq : Nat]]
    /\ \A p \in Savers : at[p] \in {"put", "number", "append", "point"} => job[p].sha \in Contents

\* The numbers of the log are 0 .. n - 1 however often one was written twice, and a save
\* that has its number is to write one of them or the next.
LogIsNumbered ==
    \E n \in Nat :
        /\ {r.seq : r \in versions} = 0 .. n - 1
        /\ \A p \in Savers : at[p] = "append" => job[p].seq <= n

\* Every sha that is logged, or that a process is about to log or point to, has its object.
ObjectsAreThere ==
    /\ \A r \in versions : r.sha \in objects
    /\ \A p \in Savers : at[p] \in {"number", "append", "point"} => job[p].sha \in objects
    /\ head # NoContent => head \in objects

\* As long as no two saves took one number: no save is about to replace a row, so what is
\* logged stays logged, and that is the head, every parent, and what a process goes on with.
HistoryIsKept ==
    /\ head # NoContent => Logged(head)
    /\ \A r \in versions : r.parent # NoContent => Logged(r.parent)
    /\ \A p \in Savers : at[p] \in {"recall", "put", "number", "append"} =>
                            job[p].parent = NoContent \/ Logged(job[p].parent)
    /\ \A p \in Savers : at[p] = "point" => Logged(job[p].sha)
    /\ \A p \in Savers : at[p] = "append" => \A r \in versions : r.seq # job[p].seq

LibraryInv ==
    LibraryTypes /\ LogIsNumbered /\ ObjectsAreThere /\ (~collided => HistoryIsKept)

\* The greatest of an interval that begins at 0.
LEMMA MaxOfLog ==
  ASSUME NEW n \in Nat, n > 0
  PROVE  Max(0 .. n - 1) = n - 1
BY DEF Max

\* The next number is the length of the log.
LEMMA NextSeqIsLength ==
  ASSUME NEW n \in Nat, {r.seq : r \in versions} = 0 .. n - 1
  PROVE  NextSeq = n
<1>1. CASE n = 0
  <2>1. ASSUME NEW r \in versions PROVE FALSE
    <3>1. r.seq \in {s.seq : s \in versions}
      BY <2>1
    <3>2. r.seq \in 0 .. n - 1
      BY <3>1
    <3>3. QED BY <1>1, <3>2
  <2>2. versions = {}
    BY <2>1
  <2>3. QED BY <1>1, <2>2 DEF NextSeq
<1>2. CASE n > 0
  <2>1. versions # {}
    BY <1>2
  <2>2. Max({r.seq : r \in versions}) = n - 1
    BY <1>2, MaxOfLog
  <2>3. QED BY <2>1, <2>2 DEF NextSeq
<1>3. QED BY <1>1, <1>2

LEMMA LibraryInvInit == LibraryInit => LibraryInv
<1> SUFFICES ASSUME LibraryInit PROVE LibraryInv
  OBVIOUS
<1> USE DEF LibraryInit
<1>1. LibraryTypes
  BY DEF LibraryTypes, Places, Shas, NoJob
<1>2. LogIsNumbered
  <2>1. {r.seq : r \in versions} = 0 .. 0 - 1
    OBVIOUS
  <2>2. QED BY <2>1 DEF LogIsNumbered
<1>3. ObjectsAreThere /\ HistoryIsKept
  BY DEF ObjectsAreThere, HistoryIsKept
<1>4. QED BY <1>1, <1>2, <1>3 DEF LibraryInv

\* An access that leaves log, objects and head alone: what holds of the process that makes it
\* is left to show.
LEMMA QuietStep ==
  ASSUME LibraryInv, NEW p \in Savers, NEW to \in Places,
         at' = [at EXCEPT ![p] = to],
         UNCHANGED <<objects, versions, head, collided>>,
         NEW j \in [sha : Shas, parent : Shas, base : Shas, seq : Nat],
         job' = [job EXCEPT ![p] = j],
         to \in {"put", "number", "append", "point"} => j.sha \in Contents,
         to \in {"number", "append", "point"} => j.sha \in objects,
         to = "append" => j.seq = NextSeq,
         ~collided /\ to \in {"recall", "put", "number", "append"} =>
             j.parent = NoContent \/ Logged(j.parent),
         ~collided /\ to = "point" => Logged(j.sha)
  PROVE  LibraryInv'
<1>1. /\ \A q \in Savers : at'[q] = (IF q = p THEN to ELSE at[q])
      /\ \A q \in Savers : job'[q] = (IF q = p THEN j ELSE job[q])
  BY DEF LibraryInv, LibraryTypes
<1>2. LibraryTypes'
  <2>1. at' \in [Savers -> Places]
    BY DEF LibraryInv, LibraryTypes
  <2>2. job' \in [Savers -> [sha : Shas, parent : Shas, base : Shas, seq : Nat]]
    BY DEF LibraryInv, LibraryTypes
  <2>3. QED BY <1>1, <2>1, <2>2 DEF LibraryInv, LibraryTypes
<1>3. PICK n \in Nat : /\ {r.seq : r \in versions} = 0 .. n - 1
                       /\ \A q \in Savers : at[q] = "append" => job[q].seq <= n
  BY DEF LibraryInv, LogIsNumbered
<1>4. NextSeq = n
  BY <1>3, NextSeqIsLength
<1>5. LogIsNumbered'
  <2>1. \A q \in Savers : at'[q] = "append" => job'[q].seq <= n
    BY <1>1, <1>3, <1>4
  <2>2. {r.seq : r \in versions'} = 0 .. n - 1
    BY <1>3
  <2>3. QED BY <2>1, <2>2 DEF LogIsNumbered
<1>6. ObjectsAreThere'
  BY <1>1 DEF LibraryInv, ObjectsAreThere
<1>7. ASSUME ~collided PROVE HistoryIsKept'
  <2>1. HistoryIsKept
    BY <1>7 DEF LibraryInv
  <2>2. \A c : Logged(c)' <=> Logged(c)
    BY DEF Logged
  <2>3. \A r \in versions : r.seq # n
    BY <1>3
  <2>4. QED BY <1>1, <1>4, <1>7, <2>1, <2>2, <2>3 DEF HistoryIsKept
<1>8. QED BY <1>2, <1>5, <1>6, <1>7 DEF LibraryInv

\* The row goes into the log; of the rows there were, only one of its number goes.
LEMMA AppendVersionStep ==
  ASSUME LibraryInv, NEW p \in Savers, AppendVersion(p)
  PROVE  LibraryInv' /\ (~collided' => versions \subseteq versions')
<1> DEFINE s == job[p].seq
<1>1. /\ at[p] = "append" /\ at' = [at EXCEPT ![p] = "point"]
      /\ versions' = {r \in versions : r.seq # s} \cup {RowOf(p)}
      /\ collided' = (collided \/ \E q \in Savers \ {p} : at[q] = "append" /\ job[q].seq = s)
      /\ UNCHANGED <<objects, head, job>>
  BY DEF AppendVersion, Goto
<1>2. job[p] \in [sha : Shas, parent : Shas, base : Shas, seq : Nat] /\ job[p].sha \in Contents
  BY <1>1 DEF LibraryInv, LibraryTypes
<1>3. RowOf(p) \in Row /\ RowOf(p).seq = s /\ RowOf(p).sha = job[p].sha
      /\ RowOf(p).parent = job[p].parent
  BY <1>2 DEF RowOf, Row, Shas
<1>4. \A q \in Savers : at'[q] = (IF q = p THEN "point" ELSE at[q])
  BY <1>1 DEF LibraryInv, LibraryTypes
<1>5. LibraryTypes'
  <2>1. at' \in [Savers -> Places]
    BY <1>1 DEF LibraryInv, LibraryTypes, Places
  <2>2. QED BY <1>1, <1>2, <1>3, <1>4, <2>1 DEF LibraryInv, LibraryTypes
<1>6. LogIsNumbered'
  <2>1. PICK n \in Nat : /\ {r.seq : r \in versions} = 0 .. n - 1
                         /\ \A q \in Savers : at[q] = "append" => job[q].seq <= n
    BY DEF LibraryInv, LogIsNumbered
  <2>2. s \in Nat /\ s <= n
    BY <1>1, <1>2, <2>1
  <2>3. ASSUME NEW x PROVE x \in {r.seq : r \in versions'} <=> x \in 0 .. n - 1 \/ x = s
    <3>1. x \in 0 .. n - 1 <=> \E r \in versions : r.seq = x
      BY <2>1
    <3>2. x \in {r.seq : r \in versions'} <=> \E r \in versions' : r.seq = x
      OBVIOUS
    <3>3. QED BY <1>1, <1>3, <3>1, <3>2
  <2> DEFINE m == IF s = n THEN n + 1 ELSE n
  <2>4. m \in Nat /\ {r.seq : r \in versions'} = 0 .. m - 1
    BY <2>2, <2>3
  <2>5. \A q \in Savers : at'[q] = "append" => job'[q].seq <= m
    <3>1. ASSUME NEW q \in Savers, at'[q] = "append" PROVE job'[q].seq <= m
      <4>1. job[q].seq \in Nat /\ job[q].seq <= n /\ job' = job
        BY <1>1, <1>4, <2>1, <3>1 DEF LibraryInv, LibraryTypes
      <4>2. QED BY <4>1
    <3>2. QED BY <3>1
  <2>6. QED BY <2>4, <2>5 DEF LogIsNumbered
<1>7. ObjectsAreThere'
  BY <1>1, <1>3, <1>4 DEF LibraryInv, ObjectsAreThere
<1>8. ASSUME ~collided' PROVE HistoryIsKept' /\ versions \subseteq versions'
  <2>1. HistoryIsKept
    BY <1>1, <1>8 DEF LibraryInv
  <2>2. \A r \in versions : r.seq # s
    BY <1>1, <2>1 DEF HistoryIsKept
  <2>3. versions' = versions \cup {RowOf(p)}
    BY <1>1, <2>2
  <2>4. \A c : Logged(c) \/ c = job[p].sha <=> Logged(c)'
    BY <1>3, <2>3 DEF Logged
  <2>5. \A q \in Savers : at'[q] = "append" => job[q].seq # s
    <3>1. ~\E q \in Savers \ {p} : at[q] = "append" /\ job[q].seq = s
      BY <1>1, <1>8, Zenon
    <3>2. QED BY <1>4, <3>1
  <2>6. QED BY <1>1, <1>3, <1>4, <2>1, <2>3, <2>4, <2>5 DEF HistoryIsKept
<1>9. QED BY <1>5, <1>6, <1>7, <1>8 DEF LibraryInv

LEMMA MovePointerStep ==
  ASSUME LibraryInv, NEW p \in Savers, MovePointer(p)
  PROVE  LibraryInv'
<1>1. /\ at[p] = "point" /\ at' = [at EXCEPT ![p] = "idle"]
      /\ head' = job[p].sha
      /\ UNCHANGED <<objects, versions, job, collided>>
  BY DEF MovePointer, Goto
<1>2. /\ \A q \in Savers : at'[q] = (IF q = p THEN "idle" ELSE at[q])
      /\ at' \in [Savers -> Places]
  BY <1>1 DEF LibraryInv, LibraryTypes, Places
<1>3. LibraryTypes'
  BY <1>1, <1>2 DEF LibraryInv, LibraryTypes, Shas
<1>4. LogIsNumbered' /\ ObjectsAreThere'
  BY <1>1, <1>2 DEF LibraryInv, LogIsNumbered, ObjectsAreThere
<1>5. ASSUME ~collided PROVE HistoryIsKept'
  BY <1>1, <1>2, <1>5 DEF LibraryInv, HistoryIsKept, Logged
<1>6. QED BY <1>1, <1>3, <1>4, <1>5 DEF LibraryInv

LEMMA LibraryStep ==
  LibraryInv /\ [LibraryNext]_libraryVars => LibraryInv' /\ (~collided' => versions \subseteq versions')
<1> SUFFICES ASSUME LibraryInv, [LibraryNext]_libraryVars
             PROVE  LibraryInv' /\ (~collided' => versions \subseteq versions')
  OBVIOUS
<1> DEFINE Job == [sha : Shas, parent : Shas, base : Shas, seq : Nat]
<1>1. ASSUME NEW p \in Savers, Save(p) PROVE LibraryInv' /\ versions' = versions
  <2>1. PICK c \in Contents : job' = [job EXCEPT ![p] = [NoJob EXCEPT !.sha = c]]
    BY <1>1 DEF Save
  <2>2. [NoJob EXCEPT !.sha = c] \in Job /\ [NoJob EXCEPT !.sha = c].parent = NoContent
        /\ [NoJob EXCEPT !.sha = c].sha = c
    BY DEF NoJob, Shas
  <2>3. QED BY <1>1, <2>1, <2>2, QuietStep DEF Save, Goto, Places
<1>2. ASSUME NEW p \in Savers, PutObject(p) PROVE LibraryInv' /\ versions' = versions
  <2>1. /\ at[p] = "put" /\ at' = [at EXCEPT ![p] = "number"]
        /\ objects' = objects \cup {job[p].sha}
        /\ UNCHANGED <<versions, head, job, collided>>
    BY <1>2 DEF PutObject, Goto
  <2>2. /\ \A q \in Savers : at'[q] = (IF q = p THEN "number" ELSE at[q])
        /\ at' \in [Savers -> Places]
    BY <2>1 DEF LibraryInv, LibraryTypes, Places
  <2>3. LibraryTypes'
    BY <2>1, <2>2 DEF LibraryInv, LibraryTypes
  <2>4. LogIsNumbered' /\ ObjectsAreThere'
    BY <2>1, <2>2 DEF LibraryInv, LogIsNumbered, ObjectsAreThere
  <2>5. ~collided => HistoryIsKept'
    BY <2>1, <2>2 DEF LibraryInv, HistoryIsKept, Logged
  <2>6. QED BY <2>1, <2>3, <2>4, <2>5 DEF LibraryInv
<1>3. ASSUME NEW p \in Savers, Number(p) PROVE LibraryInv' /\ versions' = versions
  <2> DEFINE j == [job[p] EXCEPT !.seq = NextSeq]
  <2>1. /\ at[p] = "number" /\ at' = [at EXCEPT ![p] = "append"] /\ job' = [job EXCEPT ![p] = j]
        /\ UNCHANGED <<objects, versions, head, collided>>
    BY <1>3 DEF Number, Goto
  <2>2. NextSeq \in Nat
    BY NextSeqIsLength DEF LibraryInv, LogIsNumbered
  <2>3. /\ j \in Job /\ j.sha = job[p].sha /\ j.parent = job[p].parent /\ j.seq = NextSeq
        /\ j.sha \in Contents /\ j.sha \in objects
        /\ ~collided => j.parent = NoContent \/ Logged(j.parent)
    <3>1. job[p] \in Job
      BY DEF LibraryInv, LibraryTypes
    <3>2. j \in Job /\ j.sha = job[p].sha /\ j.parent = job[p].parent /\ j.seq = NextSeq
      BY <2>2, <3>1
    <3>3. QED BY <2>1, <3>2 DEF LibraryInv, LibraryTypes, ObjectsAreThere, HistoryIsKept
  <2>4. QED
    <3> HIDE DEF j
    <3> QED BY <2>1, <2>3, QuietStep DEF Places
<1>4. ASSUME NEW p \in Savers, AppendVersion(p)
      PROVE  LibraryInv' /\ (~collided' => versions \subseteq versions')
  BY <1>4, AppendVersionStep
<1>5. ASSUME NEW p \in Savers, MovePointer(p) PROVE LibraryInv' /\ versions' = versions
  BY <1>5, MovePointerStep DEF MovePointer
<1>6. ASSUME NEW p \in Savers, ReadHead(p) PROVE LibraryInv' /\ versions' = versions
  <2> DEFINE j == [NoJob EXCEPT !.parent = head]
  <2>1. j \in Job /\ j.parent = head
    BY DEF NoJob, Shas, LibraryInv, LibraryTypes
  <2>2. ~collided => Logged(j.parent)
    BY <1>6, <2>1 DEF ReadHead, LibraryInv, HistoryIsKept
  <2>3. QED
    <3>1. job' = [job EXCEPT ![p] = j]
      BY <1>6 DEF ReadHead
    <3> HIDE DEF j
    <3> QED BY <1>6, <2>1, <2>2, <3>1, QuietStep DEF ReadHead, Goto, Places
<1>7. ASSUME NEW p \in Savers, Recall(p) PROVE LibraryInv' /\ versions' = versions
  <2>1. PICK c \in Contents : job' = [job EXCEPT ![p].sha = c, ![p].base = head]
    BY <1>7 DEF Recall
  <2> DEFINE j == [job[p] EXCEPT !.sha = c, !.base = head]
  <2>2. job' = [job EXCEPT ![p] = j] /\ j \in Job /\ j.sha = c /\ j.parent = job[p].parent
    BY <2>1 DEF LibraryInv, LibraryTypes, Shas
  <2>3. ~collided => j.parent = NoContent \/ Logged(j.parent)
    BY <1>7, <2>2 DEF Recall, Goto, LibraryInv, HistoryIsKept
  <2>4. QED
    <3> HIDE DEF j
    <3> QED BY <1>7, <2>2, <2>3, QuietStep DEF Recall, Goto, Places
<1>8. ASSUME NEW p \in Savers, Reset(p) PROVE LibraryInv' /\ versions' = versions
  <2>1. PICK c \in Contents : Logged(c) /\ job' = [job EXCEPT ![p] = [NoJob EXCEPT !.sha = c]]
    BY <1>8 DEF Reset, Reachable
  <2> DEFINE j == [NoJob EXCEPT !.sha = c]
  <2>2. j \in Job /\ j.sha = c
    BY DEF NoJob, Shas
  <2>3. c \in objects
    BY <2>1 DEF Logged, LibraryInv, ObjectsAreThere
  <2>4. QED
    <3>1. job' = [job EXCEPT ![p] = j]
      BY <2>1
    <3> HIDE DEF j
    <3> QED BY <1>8, <2>1, <2>2, <2>3, <3>1, QuietStep DEF Reset, Goto, Places
<1>9. ASSUME NEW p \in Savers, Killed(p) PROVE LibraryInv' /\ versions' = versions
  <2>1. job' = [job EXCEPT ![p] = job[p]] /\ job[p] \in Job
    BY <1>9 DEF Killed, LibraryInv, LibraryTypes
  <2>2. QED BY <1>9, <2>1, QuietStep DEF Killed, Places
<1>10. CASE UNCHANGED libraryVars
  BY <1>10 DEF libraryVars, LibraryInv, LibraryTypes, LogIsNumbered, ObjectsAreThere,
               HistoryIsKept, Logged
<1>11. QED
  BY <1>1, <1>2, <1>3, <1>4, <1>5, <1>6, <1>7, <1>8, <1>9, <1>10 DEF LibraryNext

LEMMA LibraryInvHead == LibraryInv => HeadIsLogged
<1> SUFFICES ASSUME LibraryInv PROVE HeadIsLogged
  OBVIOUS
<1>1. head # NoContent => head \in objects
  BY DEF LibraryInv, ObjectsAreThere
<1>2. ASSUME ~collided, NEW c \in {head} \cup {r.parent : r \in versions}, c # NoContent
      PROVE  Logged(c)
  BY <1>2 DEF LibraryInv, HistoryIsKept
<1>3. QED BY <1>1, <1>2 DEF HeadIsLogged

(* However saves, modifications, resets and deaths of any number of processes *)
(* interleave, the head has its object, and as long as no two saves took one  *)
(* number the log is append-only and holds the head and every parent.         *)
THEOREM LibraryStaysWhole == LibrarySpec => LibraryIsKept
<1>1. LibraryInv /\ HeadIsLogged' /\ [LibraryNext]_libraryVars
        => [/\ HeadIsLogged'
            /\ ~collided' => versions \subseteq versions']_libraryVars
  BY LibraryStep
<1>2. LibraryInv /\ [LibraryNext]_libraryVars => LibraryInv'
  BY LibraryStep
<1>3. QED BY <1>1, <1>2, LibraryInvInit, LibraryInvHead, PTL DEF LibrarySpec, LibraryIsKept
=============================================================================
