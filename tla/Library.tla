------------------------------ MODULE Library ------------------------------
(***************************************************************************)
(* crawfish.definition_store: the git-like library of one name.  An object  *)
(* table by content sha, a log of versions numbered by seq, and a pointer   *)
(* to the head.  save is four Store accesses, modify and reset are a few    *)
(* more, and several processes work on the same Store.                      *)
(***************************************************************************)
EXTENDS Integers, FiniteSetsExt

CONSTANTS Savers,     \* processes with a DefinitionStore on one Store
          Contents,   \* content shas of frozen Definitions
          NoContent,  \* no pointer, no parent
          MaxVersions \* bound: no save begins once this many are under way or logged

ASSUME LibraryAssumption == NoContent \notin Contents /\ MaxVersions \in Nat

VARIABLES objects,  \* definition_object records
          versions, \* definition_version records, the one of each seq
          head,     \* the definition_name record
          at,       \* where each process is
          job,      \* its locals: sha to save, parent, base, seq
          begun,    \* saves begun
          collided, \* two saves took the same seq
          slipped   \* the head moved between modify's head and its recall

libraryVars == <<objects, versions, head, at, job, begun, collided, slipped>>

Row == [seq : Nat, sha : Contents, parent : Contents \cup {NoContent},
        base : Contents \cup {NoContent}]
NoJob == [sha |-> NoContent, parent |-> NoContent, base |-> NoContent, seq |-> 0]

LibraryInit ==
    /\ objects = {} /\ versions = {} /\ head = NoContent
    /\ at = [p \in Savers |-> "idle"]
    /\ job = [p \in Savers |-> NoJob]
    /\ begun = 0 /\ collided = FALSE /\ slipped = FALSE

Logged(c) == \E r \in versions : r.sha = c
Goto(p, from, to) == at[p] = from /\ at' = [at EXCEPT ![p] = to]
----------------------------------------------------------------------------
(* save                                                                     *)

\* DefinitionStore.save(name, definition)
Save(p) ==
    /\ begun < MaxVersions /\ begun' = begun + 1
    /\ Goto(p, "idle", "put")
    /\ \E c \in Contents : job' = [job EXCEPT ![p] = [NoJob EXCEPT !.sha = c]]
    /\ UNCHANGED <<objects, versions, head, collided, slipped>>

PutObject(p) ==
    /\ Goto(p, "put", "number")
    /\ objects' = objects \cup {job[p].sha}
    /\ UNCHANGED <<versions, head, job, begun, collided, slipped>>

LastSeq == Max({r.seq : r \in versions} \cup {0})   \* mutated: the last row's own number

NextSeq == IF versions = {} THEN 0 ELSE Max({r.seq : r \in versions}) + 1

Number(p) ==
    /\ Goto(p, "number", "append")
    /\ job' = [job EXCEPT ![p].seq = NextSeq]
    /\ UNCHANGED <<objects, versions, head, begun, collided, slipped>>

RowOf(p) == [seq |-> job[p].seq, sha |-> job[p].sha, parent |-> job[p].parent,
             base |-> job[p].base]

\* put_record under the id of (name, seq): the row of that seq is replaced
AppendVersion(p) ==
    /\ Goto(p, "append", "point")
    /\ versions' = {r \in versions : r.seq # job[p].seq} \cup {RowOf(p)}
    /\ collided' = (collided \/ \E q \in Savers \ {p} :
                        at[q] = "append" /\ job[q].seq = job[p].seq)
    /\ UNCHANGED <<objects, head, job, begun, slipped>>

MovePointer(p) ==
    /\ Goto(p, "point", "idle")
    /\ head' = job[p].sha
    /\ UNCHANGED <<objects, versions, job, begun, collided, slipped>>
----------------------------------------------------------------------------
(* modify                                                                   *)

ReadHead(p) ==
    /\ head # NoContent /\ begun < MaxVersions /\ begun' = begun + 1
    /\ Goto(p, "idle", "recall")
    /\ job' = [job EXCEPT ![p] = [NoJob EXCEPT !.parent = head]]
    /\ UNCHANGED <<objects, versions, head, collided, slipped>>

\* recall(name), then fn on what it returned.  recall reads the pointer again.
Recall(p) ==
    /\ head \in objects
    /\ Goto(p, "recall", "put")
    /\ \E c \in Contents : job' = [job EXCEPT ![p].sha = c, ![p].base = head]
    /\ slipped' = (slipped \/ head # job[p].parent)
    /\ UNCHANGED <<objects, versions, head, begun, collided>>
----------------------------------------------------------------------------
(* reset                                                                    *)

Reachable(c) == Logged(c)

\* reset(store, name, to): the log is read, then the pointer moved
Reset(p) ==
    /\ head # NoContent
    /\ Goto(p, "idle", "point")
    /\ \E c \in Contents : Reachable(c) /\ job' = [job EXCEPT ![p] = [NoJob EXCEPT !.sha = c]]
    /\ UNCHANGED <<objects, versions, head, begun, collided, slipped>>

\* the process dies between two accesses
Killed(p) ==
    /\ at[p] # "idle" /\ at' = [at EXCEPT ![p] = "idle"]
    /\ UNCHANGED <<objects, versions, head, job, begun, collided, slipped>>

LibraryNext == \E p \in Savers :
    \/ Save(p) \/ PutObject(p) \/ Number(p) \/ AppendVersion(p) \/ MovePointer(p)
    \/ ReadHead(p) \/ Recall(p) \/ Reset(p) \/ Killed(p)

LibrarySpec == LibraryInit /\ [][LibraryNext]_libraryVars
----------------------------------------------------------------------------
(* Properties                                                               *)

\* Whoever dies where, the head has its object and is one of the logged versions,
\* and the parent of every logged version is logged too; a log entry is lost only
\* to a save that took the same number.
HeadIsLogged ==
    /\ head # NoContent => head \in objects
    /\ ~collided => \A c \in {head} \cup {r.parent : r \in versions} :
                        c # NoContent => Logged(c)

\* No step takes the head off the history, and while no two saves take the same number
\* the history is append-only.
LibraryIsKept == [][/\ HeadIsLogged'
                    /\ ~collided' => versions \subseteq versions']_libraryVars
----------------------------------------------------------------------------
(* Claims of the documentation that do not hold                             *)

\* "append-only history" (definition_store.py:97): _next_seq and the put are two
\* accesses, so two saves can write the row of one seq.
HistoryAppendOnly == [][versions \subseteq versions']_libraryVars

\* "the version this one was derived from" (definition_store.py:109): modify reads
\* the pointer for the parent and again for the Definition fn gets.
ParentIsBase == \A r \in versions : r.parent = r.base
=============================================================================
