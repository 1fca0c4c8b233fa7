------------------------------ MODULE Storage ------------------------------
(***************************************************************************)
(* SqliteStore (store/sqlite.py) on one file, opened by several processes    *)
(* of older and newer builds: apply_migrations statement by statement       *)
(* (store/migrations.py), append_event as its SELECT and its INSERT, the     *)
(* other writes as the one statement they are.  The other modules take an   *)
(* operation of the Store as one step; this one says when that is so.       *)
(*                                                                          *)
(* Of SQLite in WAL mode: one connection at a time writes; the driver       *)
(* begins a transaction before an INSERT, and only commit() or rollback()   *)
(* ends it, also after the INSERT has failed; a SELECT inside fixes what    *)
(* the transaction sees; it cannot write once another has committed since.  *)
(* A writer waits for another's operation, and gives up (5 seconds) on one  *)
(* that holds the lock between two operations.                              *)
(***************************************************************************)
EXTENDS Integers, Sequences, FiniteSets, SequencesExt

CONSTANTS Openers,     \* processes
          NoOpener,
          Releases,    \* CURRENT_SCHEMA_VERSION of the builds in use
          Tables,      \* statements of the baseline schema
          Claimable,   \* idempotency keys
          MaxEvents,   \* bound: rows of events
          MaxOpens     \* bound: times the file is opened

ASSUME StorageAssumption ==
    /\ Releases \subseteq Nat \ {0} /\ NoOpener \notin Openers
    /\ {Tables, MaxEvents, MaxOpens} \subseteq Nat

VARIABLES disk,      \* committed: [version, tables, indexes, events, claims, row]
          writeLock, \* the connection that may write, or NoOpener
          conn,      \* each connection: [at, release, next, tx, seen, stale]
          opens,
          acked,     \* events of each process whose append returned (history)
          winners,   \* key -> processes whose claim returned True (history)
          crowded,   \* two processes have been migrating at once (history)
          clashed    \* two appends to the run have met (history)

storageVars == <<disk, writeLock, conn, opens, acked, winners, crowded, clashed>>

NothingSeen == [seen |-> FALSE]
Closed == [at |-> "closed", release |-> 0, next |-> 0, tx |-> FALSE, seen |-> NothingSeen, stale |-> FALSE]

StorageInit ==
    /\ disk = [version |-> 0, tables |-> 0, indexes |-> {}, events |-> <<>>,
              claims |-> {}, row |-> NoOpener]
    /\ writeLock = NoOpener
    /\ conn = [p \in Openers |-> Closed]
    /\ opens = 0
    /\ acked = [p \in Openers |-> 0] /\ winners = [k \in Claimable |-> {}]
    /\ crowded = FALSE /\ clashed = FALSE

Migrating(p) == conn[p].at \in {"migrate", "stamp"}

\* A transaction that has read sees what it saw first, everyone else what is committed.
View(p) == IF conn[p].seen = NothingSeen THEN disk ELSE conn[p].seen

Free(p) == writeLock \in {NoOpener, p}
HeldIdle(p) == ~Free(p) /\ conn[writeLock].at = "open"

\* What a commit of p leaves of the others' transactions.
Committed(p, mine) ==
    [q \in Openers |-> IF q = p THEN mine
                       ELSE [conn[q] EXCEPT !.stale = @ \/ conn[q].seen # NothingSeen]]

\* p's transaction is over.
Done(p, at) == [conn[p] EXCEPT !.at = at, !.tx = FALSE, !.seen = NothingSeen, !.stale = FALSE]
----------------------------------------------------------------------------
(* Opening                                                                  *)

\* connect, and the version is read; a version newer than the build is refused
Open(p, release) ==
    /\ conn[p].at = "closed" /\ opens < MaxOpens /\ disk.version <= release
    /\ opens' = opens + 1
    /\ conn' = [conn EXCEPT ![p] = [Closed EXCEPT
          !.at = IF disk.version = release THEN "open" ELSE "migrate",
          !.release = release, !.next = disk.version + 1]]
    /\ crowded' = \/ crowded
                  \/ disk.version # release /\ \E q \in Openers : Migrating(q)
    /\ UNCHANGED <<disk, writeLock, acked, winners, clashed>>

\* the version stamped next, or none is left
Migrated(p) ==
    IF conn[p].next = conn[p].release THEN Done(p, "open")
    ELSE [Done(p, "migrate") EXCEPT !.next = @ + 1]

\* executescript commits the BEGIN in front of it: CREATE TABLE IF NOT EXISTS, one by one
CreateTable(p) ==
    /\ conn[p].at = "migrate" /\ conn[p].next = 1
    /\ IF disk.tables < Tables
       THEN Free(p) /\ disk' = [disk EXCEPT !.tables = @ + 1] /\ conn' = Committed(p, conn[p])
       ELSE conn' = [conn EXCEPT ![p].at = "stamp"] /\ UNCHANGED disk
    /\ UNCHANGED <<writeLock, opens, acked, winners, crowded, clashed>>

\* PRAGMA user_version = 1, a transaction of its own
StampBaseline(p) ==
    /\ conn[p].at = "stamp" /\ conn[p].next = 1 /\ Free(p)
    /\ disk' = [disk EXCEPT !.version = 1]
    /\ conn' = Committed(p, Migrated(p))
    /\ UNCHANGED <<writeLock, opens, acked, winners, crowded, clashed>>

\* BEGIN; CREATE INDEX IF NOT EXISTS takes the lock, or only reads if the index is there
CreateIndex(p) ==
    /\ conn[p].at = "migrate" /\ conn[p].next > 1
    /\ IF conn[p].next \in disk.indexes
       THEN /\ conn' = [conn EXCEPT ![p].at = "stamp", ![p].tx = TRUE, ![p].seen = disk]
            /\ UNCHANGED writeLock
       ELSE /\ Free(p) /\ writeLock' = p
            /\ conn' = [conn EXCEPT ![p].at = "stamp", ![p].tx = TRUE]
    /\ UNCHANGED <<disk, opens, acked, winners, crowded, clashed>>

VersionOnly(p) == [disk EXCEPT !.version = conn[p].next]   \* mutated: the index is left out

\* index and version, as one transaction
Upgraded(p) == [disk EXCEPT !.version = conn[p].next, !.indexes = @ \cup {conn[p].next}]

StampAndCommit(p) ==
    /\ conn[p].at = "stamp" /\ conn[p].next > 1 /\ ~conn[p].stale /\ Free(p)
    /\ disk' = Upgraded(p) /\ writeLock' = NoOpener
    /\ conn' = Committed(p, Migrated(p))
    /\ UNCHANGED <<opens, acked, winners, crowded, clashed>>

\* The lock is not to be had, or another has committed since the transaction's first read:
\* "database is locked", rollback, the Store is not opened.
OpenFails(p) ==
    /\ Migrating(p) /\ (HeldIdle(p) \/ conn[p].stale)
    /\ conn' = [conn EXCEPT ![p] = Closed]
    /\ UNCHANGED <<disk, writeLock, opens, acked, winners, crowded, clashed>>
----------------------------------------------------------------------------
(* Operations of an open Store                                              *)

\* append_event: the next seq is read
ReadSeq(p) ==
    /\ conn[p].at = "open" /\ Len(disk.events) < MaxEvents
    /\ conn' = [conn EXCEPT ![p] = [conn[p] EXCEPT
          !.at = "append", !.next = Len(View(p).events),
          !.seen = IF conn[p].tx THEN View(p) ELSE conn[p].seen]]
    /\ UNCHANGED <<disk, writeLock, opens, acked, winners, crowded, clashed>>

\* The INSERT: another has the row, and the transaction stays open with the lock ...
Collides(p) ==
    /\ conn[p].at = "append" /\ Free(p) /\ ~conn[p].stale /\ conn[p].next # Len(disk.events)
    /\ writeLock' = p /\ clashed' = TRUE
    /\ conn' = [conn EXCEPT ![p] = [@ EXCEPT !.at = "open", !.tx = TRUE, !.seen = disk]]
    /\ UNCHANGED <<disk, opens, acked, winners, crowded>>

\* ... or it is inserted and committed.
AppendEvent(p) ==
    /\ conn[p].at = "append" /\ Free(p) /\ ~conn[p].stale /\ conn[p].next = Len(disk.events)
    /\ disk' = [disk EXCEPT !.events = Append(@, <<p, acked[p] + 1>>)]
    /\ acked' = [acked EXCEPT ![p] = @ + 1]
    /\ writeLock' = NoOpener /\ conn' = Committed(p, Done(p, "open"))
    /\ UNCHANGED <<opens, winners, crowded, clashed>>

\* put_record, kv_set, delete_record: one statement and its commit
PutRow(p) ==
    /\ conn[p].at = "open" /\ Free(p) /\ ~conn[p].stale
    /\ disk' = [disk EXCEPT !.row = p]
    /\ writeLock' = NoOpener /\ conn' = Committed(p, Done(p, "open"))
    /\ UNCHANGED <<opens, acked, winners, crowded, clashed>>

\* claim_idempotency: INSERT OR IGNORE, which writes nothing if the key is there
Claim(p, k) ==
    /\ conn[p].at = "open" /\ Free(p) /\ ~conn[p].stale
    /\ writeLock' = NoOpener
    /\ IF k \in disk.claims
       THEN conn' = [conn EXCEPT ![p] = Done(p, "open")] /\ UNCHANGED <<disk, winners>>
       ELSE /\ disk' = [disk EXCEPT !.claims = @ \cup {k}]
            /\ winners' = [winners EXCEPT ![k] = @ \cup {p}]
            /\ conn' = Committed(p, Done(p, "open"))
    /\ UNCHANGED <<opens, acked, crowded, clashed>>

\* "database is locked": the write raises, and the transaction begun for it stays open
LockedOut(p) ==
    /\ conn[p].at \in {"open", "append"} /\ (HeldIdle(p) \/ conn[p].stale)
    /\ conn' = [conn EXCEPT ![p].at = "open", ![p].tx = TRUE]
    /\ UNCHANGED <<disk, writeLock, opens, acked, winners, crowded, clashed>>

\* get_record, kv_get, events: a SELECT
ReadRows(p) ==
    /\ conn[p].at = "open" /\ conn[p].tx
    /\ conn' = [conn EXCEPT ![p].seen = View(p)]
    /\ UNCHANGED <<disk, writeLock, opens, acked, winners, crowded, clashed>>

\* close, or a death anywhere: what is not committed is rolled back
CloseStore(p) ==
    /\ conn[p].at # "closed"
    /\ conn' = [conn EXCEPT ![p] = Closed]
    /\ writeLock' = IF writeLock = p THEN NoOpener ELSE writeLock
    /\ UNCHANGED <<disk, opens, acked, winners, crowded, clashed>>

StorageNext ==
    \E p \in Openers :
        \/ \E release \in Releases : Open(p, release)
        \/ CreateTable(p) \/ StampBaseline(p) \/ CreateIndex(p) \/ StampAndCommit(p) \/ OpenFails(p)
        \/ ReadSeq(p) \/ Collides(p) \/ AppendEvent(p) \/ PutRow(p)
        \/ \E k \in Claimable : Claim(p, k)
        \/ LockedOut(p) \/ ReadRows(p) \/ CloseStore(p)

StorageSpec == StorageInit /\ [][StorageNext]_storageVars
----------------------------------------------------------------------------
(* Properties                                                               *)

\* Whatever openers meet or die on the way: the schema never lags behind its version, an
\* open Store has all that its build needs, and what was migrated stays stamped unless two
\* openers migrated at once.
SchemaIsThere ==
    LET has(v) == disk.tables = Tables /\ 2 .. v \subseteq disk.indexes
    IN /\ disk.version > 0 => has(disk.version)
       /\ \A p \in Openers : conn[p].at \in {"open", "append"} => has(conn[p].release)
       /\ ~crowded => disk.indexes = 2 .. disk.version

\* Appends of several processes lose nothing and keep each process's order: the events are
\* those whose append returned.
EventsAreWhole ==
    LET events == disk.events
        of(p) == {i \in DOMAIN events : events[i][1] = p}
    IN \A p \in Openers :
          /\ {events[i][2] : i \in of(p)} = 1 .. acked[p]
          /\ \A i, j \in of(p) : i < j => events[i][2] < events[j][2]

\* One process ever wins a key, whoever dies; as long as no two appends have met, no open
\* Store is between two operations with a transaction open, so each operation is one step.
OperationsAreAtomic ==
    /\ \A k \in Claimable : Cardinality(winners[k]) <= 1
    /\ ~clashed => \A p \in Openers : conn[p].at = "open" => ~conn[p].tx /\ writeLock # p

\* A process whose transaction is stale is done writing: only closing the Store ends it.
\* Whatever it reads is a prefix of what there is.
StaleIsBehind ==
    \A p \in Openers :
        /\ conn[p].stale => conn[p].tx /\ writeLock # p
        /\ IsPrefix(View(p).events, disk.events) /\ View(p).claims \subseteq disk.claims

StorageIsSound == SchemaIsThere /\ EventsAreWhole /\ OperationsAreAtomic /\ StaleIsBehind
----------------------------------------------------------------------------
(* Claims of the documentation that do not hold (README, 5).                *)

\* "the second opener observes the bumped user_version and applies nothing"
\* (store/migrations.py:177): it has read the version before, and stamps it down again.
VersionNeverBack == [][disk'.version >= disk.version]_storageVars

\* "the version bump commits/rolls back atomically with the migration body"
\* (store/migrations.py:198): executescript commits first, so the baseline's tables come
\* one by one.
BaselineIsWhole == disk.tables \in {0, Tables}

\* "concurrently without lock contention" (store/sqlite.py:4): after two appends have met,
\* the one that lost keeps the lock until its next write.
IdleHoldsNoLock == \A p \in Openers : conn[p].at = "open" => writeLock # p

\* One that then gives up waiting and reads, never writes again and reads old rows.
ReadsAreCurrent == \A p \in Openers : ~conn[p].stale
=============================================================================
