----------------------------- MODULE Artifacts -----------------------------
(***************************************************************************)
(* LocalArtifactStore (artifacts/local.py) under several processes, and the *)
(* Contexts whose large values are moved into it, persisted with a ref and  *)
(* hydrated (runtime/context_artifact.py).  Each access of the file system  *)
(* is a step.  A file is a name for an inode: put stages to <sha>.tmp and   *)
(* renames it, and a process that has the staged file open goes on writing  *)
(* to its inode wherever it is moved.                                       *)
(***************************************************************************)
EXTENDS Integers, Sequences, FiniteSets

CONSTANTS Putters,    \* processes that offload a Context
          Blobs,      \* contents, named by their sha256
          MaxInodes   \* bound: files created

ASSUME ArtifactsAssumption == MaxInodes \in Nat

VARIABLES inodes,     \* whether each file created holds all of its bytes
          stored,     \* sha -> inode at its path, or 0
          staged,     \* sha -> inode at <sha>.tmp, or 0
          putter,     \* where each process is
          persisted,  \* shas that a persisted Context refers to
          sweep,      \* what a gc in progress takes for live, and has still to visit
          mixed,      \* shas with overlapping puts, or swept or deleted on the way (history)
          failed,     \* shas of which a put raised (history)
          abandoned   \* inodes a process died writing (history)

artifactVars == <<inodes, stored, staged, putter, persisted, sweep, mixed, failed, abandoned>>

AtRest == [at |-> "rest"]
NoSweep == [on |-> FALSE, live |-> {}, left |-> {}]

ArtifactsInit ==
    /\ inodes = <<>>
    /\ stored = [b \in Blobs |-> 0] /\ staged = [b \in Blobs |-> 0]
    /\ putter = [p \in Putters |-> AtRest]
    /\ persisted = {} /\ sweep = NoSweep
    /\ mixed = {} /\ failed = {} /\ abandoned = {}

Offloading(b) == {p \in Putters : putter[p].at # "rest" /\ putter[p].blob = b}
Writing(i) == {p \in Putters : putter[p].at = "write" /\ putter[p].inode = i}
Staging(b) == {p \in Offloading(b) : putter[p].at \in {"write", "rename"}}

PresentOrStaged(b) == stored[b] # 0 \/ staged[b] # 0   \* mutated: a staged file will do

Present(b) == stored[b] # 0

\* offload_large calls put, and put hands out a ref at once if the path exists
PutLooks(p, b) ==
    /\ putter[p] = AtRest
    /\ putter' = [putter EXCEPT ![p] = [at |-> IF Present(b) THEN "holds" ELSE "stage", blob |-> b]]
    /\ mixed' = IF sweep.on THEN mixed \cup {b} ELSE mixed
    /\ UNCHANGED <<inodes, stored, staged, persisted, sweep, failed, abandoned>>

\* write_bytes opens <sha>.tmp, and empties it if another has made it; who writes there
\* already may end with a hole
Stage(p) ==
    LET b == putter[p].blob
        i == IF staged[b] = 0 THEN Len(inodes) + 1 ELSE staged[b]
    IN /\ putter[p].at = "stage" /\ i <= MaxInodes
       /\ inodes' = IF staged[b] = 0 THEN Append(inodes, FALSE) ELSE [inodes EXCEPT ![i] = FALSE]
       /\ staged' = [staged EXCEPT ![b] = i]
       /\ putter' = [q \in Putters |->
            IF q = p THEN [at |-> "write", blob |-> b, inode |-> i, clobbered |-> FALSE]
            ELSE IF q \in Writing(i) THEN [putter[q] EXCEPT !.clobbered = TRUE] ELSE putter[q]]
       /\ mixed' = IF Staging(b) # {} THEN mixed \cup {b} ELSE mixed
       /\ UNCHANGED <<stored, persisted, sweep, failed, abandoned>>

WriteStaged(p) ==
    /\ putter[p].at = "write"
    /\ \E whole \in {TRUE} \cup {w \in {inodes[putter[p].inode]} : putter[p].clobbered} :
          inodes' = [inodes EXCEPT ![putter[p].inode] = whole]
    /\ putter' = [putter EXCEPT ![p] = [at |-> "rename", blob |-> @.blob]]
    /\ UNCHANGED <<stored, staged, persisted, sweep, mixed, failed, abandoned>>

\* replace moves whatever is staged under the name by now, or raises
Rename(p) ==
    LET b == putter[p].blob
    IN /\ putter[p].at = "rename"
       /\ IF staged[b] = 0
          THEN /\ putter' = [putter EXCEPT ![p] = AtRest] /\ failed' = failed \cup {b}
               /\ UNCHANGED <<stored, staged>>
          ELSE /\ stored' = [stored EXCEPT ![b] = staged[b]]
               /\ staged' = [staged EXCEPT ![b] = 0]
               /\ putter' = [putter EXCEPT ![p] = [at |-> "holds", blob |-> b]]
               /\ UNCHANGED failed
       /\ UNCHANGED <<inodes, persisted, sweep, mixed, abandoned>>

PersistContext(p) ==
    /\ putter[p].at = "holds"
    /\ persisted' = persisted \cup {putter[p].blob}
    /\ putter' = [putter EXCEPT ![p] = AtRest]
    /\ UNCHANGED <<inodes, stored, staged, sweep, mixed, failed, abandoned>>

PutterDies(p) ==
    /\ putter[p].at # "rest"
    /\ abandoned' = abandoned \cup {i \in 1 .. Len(inodes) : p \in Writing(i)}
    /\ putter' = [putter EXCEPT ![p] = AtRest]
    /\ UNCHANGED <<inodes, stored, staged, persisted, sweep, mixed, failed>>

\* a caller of gc has read which refs the records hold
GcBegins ==
    /\ ~sweep.on
    /\ sweep' = [on |-> TRUE, live |-> persisted, left |-> Blobs]
    /\ mixed' = mixed \cup {b \in Blobs : Offloading(b) # {}}
    /\ UNCHANGED <<inodes, stored, staged, putter, persisted, failed, abandoned>>

\* a staged file's name is in no set of live refs
GcVisits(b) ==
    /\ sweep.on /\ b \in sweep.left
    /\ stored' = IF b \in sweep.live THEN stored ELSE [stored EXCEPT ![b] = 0]
    /\ staged' = [staged EXCEPT ![b] = 0]
    /\ sweep' = IF sweep.left = {b} THEN NoSweep ELSE [sweep EXCEPT !.left = @ \ {b}]
    /\ UNCHANGED <<inodes, putter, persisted, mixed, failed, abandoned>>

\* who drops a Context may delete its blob, which others may share
DeleteBlob(b) ==
    /\ b \in persisted
    /\ stored' = [stored EXCEPT ![b] = 0]
    /\ persisted' = persisted \ {b}
    /\ mixed' = IF Offloading(b) # {} THEN mixed \cup {b} ELSE mixed
    /\ UNCHANGED <<inodes, staged, putter, sweep, failed, abandoned>>

\* what the one deref point finds
Hydrated(b) ==
    CASE stored[b] = 0 -> "missing"
      [] stored[b] # 0 /\ inodes[stored[b]] -> "whole"
      [] OTHER -> "torn"

ArtifactsNext ==
    \/ \E p \in Putters :
          \/ \E b \in Blobs : PutLooks(p, b)
          \/ Stage(p) \/ WriteStaged(p) \/ Rename(p) \/ PersistContext(p) \/ PutterDies(p)
    \/ GcBegins
    \/ \E b \in Blobs : GcVisits(b) \/ DeleteBlob(b)

ArtifactsSpec == ArtifactsInit /\ [][ArtifactsNext]_artifactVars
----------------------------------------------------------------------------
(* Properties                                                               *)

\* However puts die, a persisted Context hydrates to what was offloaded, unless puts of the
\* content overlapped, or a gc or a deletion came in between.
PersistedHydrates == \A b \in persisted \ mixed : Hydrated(b) = "whole"

\* However puts overlap, what can be read in part has a writer that is about to complete it,
\* or that died.
TornIsBeingWritten ==
    \A b \in Blobs : Hydrated(b) = "torn" =>
        Writing(stored[b]) # {} \/ stored[b] \in abandoned

\* A put raises only if another put of the content, or a gc, was under way.
PutRaisesOnlyMixed == failed \subseteq mixed

ArtifactsAreKept == PersistedHydrates /\ TornIsBeingWritten /\ PutRaisesOnlyMixed
----------------------------------------------------------------------------
(* Claims of the documentation that do not hold (README, 5).                *)

\* "writes them atomically (stage to a .tmp file, then replace into place)"
\* (docs/reference/persistence.md:142): of two puts of one content the first to rename moves
\* the file that the other has just emptied.
PutIsAtomic == \A b \in Blobs : Hydrated(b) # "torn"

\* "dedupe for free" (docs/reference/persistence.md:140): the price is that a put may raise
\* because another has moved the staged file, and that a persisted ref may dangle.
DedupIsFree == failed = {} /\ \A b \in persisted : Hydrated(b) = "whole"
=============================================================================
