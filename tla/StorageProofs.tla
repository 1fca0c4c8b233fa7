---------------------------- MODULE StorageProofs ----------------------------
(***************************************************************************)
(* Proofs about what is kept on disk and who acts on it, for every number of  *)
(* processes: the blobs of the artifact store (Artifacts), the database of   *)
(* the Store (Storage), the rows by which deployments know their supervisors *)
(* and runs, and the items they process (Supervisor), the index of           *)
(* deployments and the stream of a run (Console), and the commands and       *)
(* screens that act on them (Control), as MCDeployments puts them together.  *)
(* Each part has its inductive invariant, a lemma for each action, and the   *)
(* theorem last.                                                             *)
(***************************************************************************)
EXTENDS Artifacts, Storage, MCDeployments, FiniteSetTheorems, SequenceTheorems,
        WellFoundedInduction, TLAPS

(* Artifacts                                                                *)

PutterState ==
    {AtRest} \cup [at : {"holds", "stage", "rename"}, blob : Blobs]
             \cup [at : {"write"}, blob : Blobs, inode : Nat, clobbered : BOOLEAN]

ArtifactTypes ==
    /\ inodes \in Seq(BOOLEAN)
    /\ stored \in [Blobs -> 0 .. Len(inodes)] /\ staged \in [Blobs -> 0 .. Len(inodes)]
    /\ putter \in [Putters -> PutterState]
    /\ \A p \in Putters : putter[p].at = "write" => putter[p].inode \in 1 .. Len(inodes)
    /\ sweep \in [on : BOOLEAN, live : SUBSET Blobs, left : SUBSET Blobs]
    /\ persisted \subseteq Blobs

\* A staged file is staged under one name, is nowhere stored, and who writes to it is
\* putting that name's content.
StagedIsOwned ==
    /\ \A a, b \in Blobs : staged[a] # 0 =>
           stored[b] # staged[a] /\ (staged[b] = staged[a] => a = b)
    /\ \A p \in Putters, b \in Blobs :
           putter[p].at = "write" /\ staged[b] = putter[p].inode => putter[p].blob = b

\* The last to have emptied a file that has a hole is still at it, or died.
TornHasWriter ==
    \A i \in 1 .. Len(inodes) : ~inodes[i] =>
        i \in abandoned \/ \E p \in Writing(i) : ~putter[p].clobbered

\* Of a content whose puts did not overlap, and that nobody swept or deleted meanwhile, one
\* process at most has a staged file, that file is its own, and what is stored is whole and
\* there for who holds a ref.
Untouched(b) ==
    /\ \A p, q \in Staging(b) : p = q
    /\ \A p \in Staging(b) :
          /\ staged[b] # 0
          /\ putter[p].at = "write" => staged[b] = putter[p].inode /\ ~putter[p].clobbered
          /\ putter[p].at = "rename" => inodes[staged[b]]
    /\ stored[b] # 0 => inodes[stored[b]]
    /\ \A p \in Offloading(b) : putter[p].at = "holds" => stored[b] # 0
    /\ sweep.on => Offloading(b) = {} /\ (b \in persisted => b \in sweep.live)
    /\ b \in persisted => stored[b] # 0
    /\ b \notin failed

ArtifactsInv ==
    /\ ArtifactTypes /\ StagedIsOwned /\ TornHasWriter
    /\ \A b \in Blobs \ mixed : Untouched(b)
    /\ failed \subseteq Blobs

LEMMA ArtifactsInvInit == ArtifactsInit => ArtifactsInv
<1> SUFFICES ASSUME ArtifactsInit PROVE ArtifactsInv
  OBVIOUS
<1> USE DEF ArtifactsInit
<1>1. ArtifactTypes
  BY DEF ArtifactTypes, PutterState, AtRest, NoSweep
<1>2. StagedIsOwned /\ TornHasWriter
  BY DEF StagedIsOwned, TornHasWriter, AtRest
<1>3. \A b \in Blobs : Untouched(b)
  BY DEF Untouched, Offloading, Staging, AtRest, NoSweep
<1>4. QED BY <1>1, <1>2, <1>3 DEF ArtifactsInv

\* What is known of a putter, by where it is.
LEMMA PutterFields ==
  ASSUME ArtifactTypes, NEW p \in Putters
  PROVE  /\ putter[p].at \in {"rest", "holds", "stage", "rename", "write"}
         /\ putter[p].at # "rest" => putter[p].blob \in Blobs
         /\ putter[p].at = "rest" => putter[p] = AtRest
         /\ putter[p].at = "write" => putter[p].clobbered \in BOOLEAN /\ putter[p].inode \in Nat
<1>1. putter[p] \in PutterState
  BY DEF ArtifactTypes
<1>2. QED BY <1>1 DEF PutterState, AtRest

LEMMA PutLooksStep ==
  ASSUME ArtifactsInv, NEW p \in Putters, NEW b \in Blobs, PutLooks(p, b)
  PROVE  ArtifactsInv'
<1> DEFINE at == IF Present(b) THEN "holds" ELSE "stage"
<1>1. /\ putter[p].at = "rest" /\ putter' = [putter EXCEPT ![p] = [at |-> at, blob |-> b]]
      /\ UNCHANGED <<inodes, stored, staged, persisted, sweep, failed, abandoned>>
      /\ at \in {"holds", "stage"}
  BY DEF PutLooks, AtRest
<1>2. \A q \in Putters : putter'[q] = (IF q = p THEN [at |-> at, blob |-> b] ELSE putter[q])
  BY <1>1 DEF ArtifactsInv, ArtifactTypes
<1>3. [at |-> at, blob |-> b] \in PutterState
  BY <1>1 DEF PutterState
<1>4. ArtifactTypes'
  <2>1. putter' \in [Putters -> PutterState]
    BY <1>1, <1>3 DEF ArtifactsInv, ArtifactTypes
  <2>2. QED BY <1>1, <1>2, <2>1 DEF ArtifactsInv, ArtifactTypes
<1>5. StagedIsOwned'
  BY <1>1, <1>2 DEF ArtifactsInv, StagedIsOwned
<1>6. \A i : Writing(i)' = Writing(i)
  BY <1>1, <1>2 DEF Writing
<1>7. TornHasWriter'
  BY <1>1, <1>2, <1>6 DEF ArtifactsInv, TornHasWriter, Writing
<1>8. ASSUME NEW c \in Blobs \ mixed' PROVE Untouched(c)'
  <2>1. c \notin mixed /\ (sweep.on => c # b)
    BY <1>8 DEF PutLooks
  <2>2. Untouched(c)
    BY <2>1 DEF ArtifactsInv
  <2>3. Staging(c)' = Staging(c)
    BY <1>1, <1>2 DEF Staging, Offloading
  <2>4. Offloading(c)' = (IF c = b THEN Offloading(c) \cup {p} ELSE Offloading(c))
    BY <1>1, <1>2 DEF Offloading
  <2>5. p \notin Staging(c)
    BY <1>1 DEF Staging, Offloading
  <2>6. \A q \in Staging(c) : putter'[q] = putter[q]
    BY <1>2, <2>5 DEF Staging, Offloading
  <2>7. \A q \in Offloading(c)' : putter'[q].at = "holds" => stored[c] # 0
    <3>1. CASE c = b
      BY <1>1, <1>2, <2>2, <2>4, <3>1 DEF Untouched, Present
    <3>2. CASE c # b
      BY <1>1, <1>2, <2>2, <2>4, <3>2 DEF Untouched, Offloading
    <3>3. QED BY <3>1, <3>2
  <2>8. sweep.on => Offloading(c)' = {} /\ (c \in persisted => c \in sweep.live)
    BY <2>1, <2>2, <2>4 DEF Untouched
  <2>9. \A q \in Staging(c) :
          /\ staged[c] # 0
          /\ putter'[q].at = "write" => staged[c] = putter'[q].inode /\ ~putter'[q].clobbered
          /\ putter'[q].at = "rename" => inodes[staged[c]]
    BY <2>2, <2>6 DEF Untouched
  <2>10. QED BY <1>1, <2>2, <2>3, <2>7, <2>8, <2>9 DEF Untouched
<1>9. QED BY <1>1, <1>4, <1>5, <1>7, <1>8 DEF ArtifactsInv

\* A content keeps what is known of it where nothing of it is moved.
LEMMA Elsewhere ==
  ASSUME NEW c \in Blobs, Untouched(c),
         Offloading(c)' = Offloading(c), \A q \in Offloading(c) : putter'[q] = putter[q],
         stored'[c] = stored[c], staged'[c] = staged[c],
         stored[c] # 0 /\ inodes[stored[c]] => inodes'[stored[c]],
         staged[c] # 0 /\ inodes[staged[c]] => inodes'[staged[c]],
         sweep'.on => sweep.on /\ sweep'.live = sweep.live,
         c \in persisted' => c \in persisted, c \notin failed'
  PROVE  Untouched(c)'
<1>1. Staging(c)' = Staging(c) /\ \A q \in Staging(c) : putter'[q] = putter[q]
  BY DEF Staging
<1>2. /\ \A p, q \in Staging(c) : p = q
      /\ \A p \in Staging(c) :
            /\ staged'[c] # 0
            /\ putter'[p].at = "write" => staged'[c] = putter'[p].inode /\ ~putter'[p].clobbered
            /\ putter'[p].at = "rename" => inodes'[staged'[c]]
  BY <1>1 DEF Untouched
<1>3. \A p \in Offloading(c) : putter'[p].at = "holds" => stored'[c] # 0
  BY DEF Untouched
<1>4. QED BY <1>1, <1>2, <1>3 DEF Untouched

LEMMA StageStep ==
  ASSUME ArtifactsInv, NEW p \in Putters, Stage(p)
  PROVE  ArtifactsInv'
<1> DEFINE b == putter[p].blob
           i == IF staged[b] = 0 THEN Len(inodes) + 1 ELSE staged[b]
           opened == [at |-> "write", blob |-> b, inode |-> i, clobbered |-> FALSE]
<1>1. /\ putter[p].at = "stage" /\ staged' = [staged EXCEPT ![b] = i]
      /\ inodes' = IF staged[b] = 0 THEN Append(inodes, FALSE) ELSE [inodes EXCEPT ![i] = FALSE]
      /\ mixed' = IF Staging(b) # {} THEN mixed \cup {b} ELSE mixed
      /\ UNCHANGED <<stored, persisted, sweep, failed, abandoned>>
  BY DEF Stage
<1>2. \A q \in Putters : putter'[q] = IF q = p THEN opened
                         ELSE IF q \in Writing(i) THEN [putter[q] EXCEPT !.clobbered = TRUE]
                         ELSE putter[q]
  BY DEF Stage
<1>3. b \in Blobs /\ ArtifactTypes
  BY <1>1, PutterFields DEF ArtifactsInv
<1>4. /\ inodes' \in Seq(BOOLEAN) /\ Len(inodes) <= Len(inodes') /\ i \in 1 .. Len(inodes')
      /\ \A j \in 1 .. Len(inodes') : j # i => j \in 1 .. Len(inodes) /\ inodes'[j] = inodes[j]
      /\ ~inodes'[i]
  <2>1. CASE staged[b] = 0
    BY <1>1, <1>3, <2>1 DEF ArtifactTypes
  <2>2. CASE staged[b] # 0
    <3>1. i \in 1 .. Len(inodes)
      BY <1>3, <2>2 DEF ArtifactTypes
    <3>2. QED BY <1>1, <1>3, <2>2, <3>1, ExceptSeq DEF ArtifactTypes
  <2>3. QED BY <2>1, <2>2
<1>5. \A a \in Blobs : stored[a] # i /\ (staged[a] = i => a = b)
  BY <1>3 DEF ArtifactsInv, ArtifactTypes, StagedIsOwned
<1>6. \A q \in Writing(i) : q \in Putters /\ putter[q].at = "write" /\ putter[q].inode = i
                            /\ putter[q].blob = b /\ staged[b] = i
  BY <1>3 DEF ArtifactsInv, ArtifactTypes, StagedIsOwned, Writing
<1>7. \A q \in Putters \ {p} : /\ putter'[q].at = putter[q].at
                               /\ putter[q].at # "rest" => putter'[q].blob = putter[q].blob
                               /\ putter[q].at = "write" => putter'[q].inode = putter[q].inode
                               /\ putter[q].at # "write" => putter'[q] = putter[q]
  <2> SUFFICES ASSUME NEW q \in Putters \ {p}
               PROVE /\ putter'[q].at = putter[q].at
                     /\ putter[q].at # "rest" => putter'[q].blob = putter[q].blob
                     /\ putter[q].at = "write" => putter'[q].inode = putter[q].inode
                     /\ putter[q].at # "write" => putter'[q] = putter[q]
    OBVIOUS
  <2>1. CASE q \in Writing(i)
    <3>1. putter[q] \in PutterState /\ putter[q].at = "write"
      BY <1>3, <1>6, <2>1 DEF ArtifactTypes
    <3>2. QED BY <1>2, <2>1, <3>1 DEF PutterState, AtRest
  <2>2. CASE q \notin Writing(i)
    BY <1>2, <2>2
  <2>3. QED BY <2>1, <2>2
<1>8. putter'[p] = opened
  BY <1>2
<1>9. ArtifactTypes'
  <2>1. opened \in PutterState
    BY <1>3, <1>4 DEF PutterState
  <2>2. ASSUME NEW q \in Writing(i)
        PROVE  [putter[q] EXCEPT !.clobbered = TRUE] \in PutterState
    <3>1. putter[q] \in PutterState /\ putter[q].at = "write"
      BY <1>3, <1>6 DEF ArtifactTypes
    <3>2. QED BY <3>1 DEF PutterState, AtRest
  <2>3. putter' \in [Putters -> PutterState]
    BY <1>3, <2>1, <2>2 DEF Stage, ArtifactTypes
  <2>4. staged' \in [Blobs -> 0 .. Len(inodes')] /\ stored' \in [Blobs -> 0 .. Len(inodes')]
    BY <1>1, <1>3, <1>4 DEF ArtifactTypes
  <2>5. \A q \in Putters : putter'[q].at = "write" => putter'[q].inode \in 1 .. Len(inodes')
    <3>1. \A q \in Putters \ {p} : putter'[q].at = "write" => putter'[q].inode \in 1 .. Len(inodes)
      BY <1>3, <1>7 DEF ArtifactTypes
    <3>2. putter'[p].inode \in 1 .. Len(inodes')
      BY <1>4, <1>8
    <3>3. QED BY <1>3, <1>4, <3>1, <3>2 DEF ArtifactTypes
  <2>6. QED BY <1>1, <1>3, <1>4, <2>3, <2>4, <2>5 DEF ArtifactTypes
<1>10. \A a \in Blobs : staged'[a] = IF a = b THEN i ELSE staged[a]
  BY <1>1, <1>3 DEF ArtifactTypes
<1>11. StagedIsOwned'
  <2>1. \A a, c \in Blobs : staged'[a] # 0 =>
            stored'[c] # staged'[a] /\ (staged'[c] = staged'[a] => a = c)
    BY <1>1, <1>5, <1>10 DEF ArtifactsInv, StagedIsOwned
  <2>2. ASSUME NEW q \in Putters, NEW c \in Blobs,
               putter'[q].at = "write", staged'[c] = putter'[q].inode
        PROVE  putter'[q].blob = c
    <3>1. CASE q = p
      BY <1>5, <1>8, <1>10, <2>2, <3>1
    <3>2. CASE q # p
      <4>1. putter[q].at = "write" /\ putter'[q].blob = putter[q].blob
            /\ staged'[c] = putter[q].inode
        BY <1>7, <2>2, <3>2
      <4>2. CASE c = b
        BY <1>6, <1>10, <4>1, <4>2 DEF Writing
      <4>3. CASE c # b
        BY <1>10, <4>1, <4>3 DEF ArtifactsInv, StagedIsOwned
      <4>4. QED BY <4>2, <4>3
    <3>3. QED BY <3>1, <3>2
  <2>3. QED BY <2>1, <2>2 DEF StagedIsOwned
<1>12. TornHasWriter'
  <2> SUFFICES ASSUME NEW j \in 1 .. Len(inodes'), ~inodes'[j]
               PROVE  j \in abandoned' \/ \E q \in Writing(j)' : ~putter'[q].clobbered
    BY DEF TornHasWriter
  <2>1. CASE j = i
    BY <1>8, <2>1 DEF Writing
  <2>2. CASE j # i
    <3>1. j \in abandoned \/ \E q \in Writing(j) : ~putter[q].clobbered
      BY <1>4, <2>2 DEF ArtifactsInv, TornHasWriter
    <3>2. \A q \in Writing(j) : q \in Writing(j)' /\ putter'[q] = putter[q]
      <4> SUFFICES ASSUME NEW q \in Writing(j) PROVE q \in Writing(j)' /\ putter'[q] = putter[q]
        OBVIOUS
      <4>1. q \in Putters /\ q # p /\ q \notin Writing(i)
        BY <1>1, <2>2 DEF Writing
      <4>2. putter'[q] = putter[q]
        BY <1>2, <4>1
      <4>3. QED BY <4>2 DEF Writing
    <3>3. QED BY <1>1, <3>1, <3>2
  <2>3. QED BY <2>1, <2>2
<1>13. ASSUME NEW c \in Blobs \ mixed' PROVE Untouched(c)'
  <2>1. Untouched(c)
    BY <1>1, <1>13 DEF ArtifactsInv
  <2>2. Offloading(c)' = Offloading(c)
    BY <1>1, <1>7, <1>8 DEF Offloading
  <2>3. stored[c] # 0 => stored[c] \in 1 .. Len(inodes') /\ stored[c] # i
    BY <1>3, <1>4, <1>5 DEF ArtifactTypes
  <2>4. CASE c # b
    <3>1. \A q \in Offloading(c) : putter'[q] = putter[q]
      BY <1>1, <1>2, <1>6, <2>4 DEF Offloading
    <3>2. staged'[c] = staged[c]
      BY <1>10, <2>4
    <3>3. staged[c] # 0 => staged[c] \in 1 .. Len(inodes') /\ staged[c] # i
      BY <1>3, <1>4, <1>5, <2>4 DEF ArtifactTypes
    <3>4. c \notin failed
      BY <2>1 DEF Untouched
    <3>5. QED BY <1>1, <1>4, <2>1, <2>2, <2>3, <3>1, <3>2, <3>3, <3>4, Elsewhere
  <2>5. CASE c = b
    <3>1. Staging(c) = {} /\ p \in Offloading(c)
      BY <1>1, <1>13, <2>5 DEF Offloading
    <3>2. \A q \in Offloading(c) : q # p => putter'[q] = putter[q]
      BY <1>7, <3>1 DEF Offloading, Staging
    <3>3. Staging(c)' = {p}
      BY <1>8, <2>2, <3>1, <3>2 DEF Staging
    <3>4. staged'[c] = i /\ i # 0
      BY <1>4, <1>10, <2>5
    <3>5. stored[c] # 0 => inodes'[stored[c]]
      BY <1>4, <2>1, <2>3 DEF Untouched
    <3>6. \A q \in Offloading(c)' : putter'[q].at = "holds" => stored[c] # 0
      BY <1>8, <2>1, <2>2, <3>2 DEF Untouched
    <3>7. ~sweep.on
      BY <2>1, <3>1 DEF Untouched
    <3>8. /\ putter'[p].at = "write" /\ putter'[p].inode = i /\ ~putter'[p].clobbered
          /\ putter'[p].at # "rename"
      BY <1>8
    <3> HIDE DEF i, opened
    <3>9. /\ \A q, r \in Staging(c)' : q = r
          /\ \A q \in Staging(c)' :
                /\ staged'[c] # 0
                /\ putter'[q].at = "write" => staged'[c] = putter'[q].inode /\ ~putter'[q].clobbered
                /\ putter'[q].at = "rename" => inodes'[staged'[c]]
      BY <3>3, <3>4, <3>8
    <3>10. QED BY <1>1, <2>1, <3>5, <3>6, <3>7, <3>9 DEF Untouched
  <2>6. QED BY <2>4, <2>5
<1>14. failed' \subseteq Blobs
  BY <1>1 DEF ArtifactsInv
<1>15. QED BY <1>9, <1>11, <1>12, <1>13, <1>14 DEF ArtifactsInv

LEMMA WriteStagedStep ==
  ASSUME ArtifactsInv, NEW p \in Putters, WriteStaged(p)
  PROVE  ArtifactsInv'
<1> DEFINE b == putter[p].blob
           i == putter[p].inode
           moved == [at |-> "rename", blob |-> b]
<1>1. PICK whole \in {TRUE} \cup {w \in {inodes[i]} : putter[p].clobbered} :
          inodes' = [inodes EXCEPT ![i] = whole]
  BY DEF WriteStaged
<1>2. /\ putter[p].at = "write" /\ putter' = [putter EXCEPT ![p] = moved]
      /\ UNCHANGED <<stored, staged, persisted, sweep, mixed, failed, abandoned>>
  BY DEF WriteStaged
<1>3. b \in Blobs /\ ArtifactTypes /\ i \in 1 .. Len(inodes)
  BY <1>2, PutterFields DEF ArtifactsInv, ArtifactTypes
<1>4. \A q \in Putters : putter'[q] = (IF q = p THEN moved ELSE putter[q])
  BY <1>2, <1>3 DEF ArtifactTypes
<1>5. inodes[i] \in BOOLEAN /\ whole \in BOOLEAN
  <2>1. inodes[i] \in BOOLEAN
    BY <1>3 DEF ArtifactTypes
  <2>2. whole = TRUE \/ whole = inodes[i]
    BY <1>1
  <2> HIDE DEF i
  <2>3. QED BY <2>1, <2>2
<1>6. /\ inodes' \in Seq(BOOLEAN) /\ Len(inodes') = Len(inodes)
      /\ \A j \in 1 .. Len(inodes) : inodes'[j] = (IF j = i THEN whole ELSE inodes[j])
  BY <1>1, <1>3, <1>5, ExceptSeq DEF ArtifactTypes
<1>7. \A j \in 1 .. Len(inodes) : inodes[j] => inodes'[j]
  BY <1>1, <1>6
<1>8. ArtifactTypes'
  <2>1. moved \in PutterState
    BY <1>3 DEF PutterState
  <2>2. putter' \in [Putters -> PutterState]
    BY <1>2, <1>3, <2>1 DEF ArtifactTypes
  <2>3. \A q \in Putters : putter'[q].at = "write" => putter'[q].inode \in 1 .. Len(inodes')
    BY <1>3, <1>4, <1>6, moved.at # "write" DEF ArtifactTypes
  <2>4. QED BY <1>2, <1>3, <1>6, <2>2, <2>3 DEF ArtifactTypes
<1>9. StagedIsOwned'
  BY <1>2, <1>4 DEF ArtifactsInv, StagedIsOwned
<1>10. TornHasWriter'
  <2> SUFFICES ASSUME NEW j \in 1 .. Len(inodes), ~inodes'[j]
               PROVE  j \in abandoned \/ \E q \in Writing(j)' : ~putter'[q].clobbered
    BY <1>2, <1>6 DEF TornHasWriter
  <2>1. ~inodes[j] /\ (j = i => putter[p].clobbered)
    BY <1>1, <1>6, <1>7
  <2>2. j \in abandoned \/ \E q \in Writing(j) : ~putter[q].clobbered
    BY <2>1 DEF ArtifactsInv, TornHasWriter
  <2>3. \A q \in Writing(j) : ~putter[q].clobbered => q \in Writing(j)' /\ ~putter'[q].clobbered
    BY <1>4, <2>1 DEF Writing
  <2>4. QED BY <2>2, <2>3
<1>11. ASSUME NEW c \in Blobs \ mixed' PROVE Untouched(c)'
  <2>1. Untouched(c)
    BY <1>2, <1>11 DEF ArtifactsInv
  <2>2. Offloading(c)' = Offloading(c)
    BY <1>2, <1>4 DEF Offloading
  <2>3. /\ stored[c] # 0 => stored[c] \in 1 .. Len(inodes)
        /\ staged[c] # 0 => staged[c] \in 1 .. Len(inodes)
    BY <1>3 DEF ArtifactTypes
  <2>4. CASE c # b
    <3>1. \A q \in Offloading(c) : putter'[q] = putter[q]
      BY <1>4, <2>4 DEF Offloading
    <3>2. c \notin failed
      BY <2>1 DEF Untouched
    <3>3. QED BY <1>2, <1>7, <2>1, <2>2, <2>3, <3>1, <3>2, Elsewhere
  <2>5. CASE c = b
    <3>1. p \in Staging(c)
      BY <1>2, <2>5 DEF Staging, Offloading
    <3>2. staged[c] = i /\ ~putter[p].clobbered /\ \A q \in Staging(c) : q = p
      BY <1>2, <2>1, <3>1 DEF Untouched
    <3>3. inodes'[staged[c]]
      BY <1>1, <1>3, <1>6, <3>2
    <3>4. \A q \in Staging(c)' : q = p
      <4>1. \A q \in Staging(c)' : q # p => q \in Staging(c)
        BY <1>4 DEF Staging, Offloading
      <4>2. QED BY <3>2, <4>1
    <3>5. putter'[p].at = "rename" /\ staged'[c] # 0
      BY <1>2, <1>3, <1>4, <3>2
    <3>6. \A q \in Offloading(c)' : putter'[q].at = "holds" => stored[c] # 0
      <4>1. \A q \in Offloading(c) : q # p => putter'[q] = putter[q]
        BY <1>4 DEF Offloading
      <4>2. putter'[p].at # "holds"
        BY <3>5
      <4>3. QED BY <2>1, <2>2, <4>1, <4>2 DEF Untouched
    <3>7. stored[c] # 0 => inodes'[stored[c]]
      BY <1>7, <2>1, <2>3 DEF Untouched
    <3>8. QED BY <1>2, <2>1, <2>2, <3>3, <3>4, <3>5, <3>6, <3>7 DEF Untouched
  <2>6. QED BY <2>4, <2>5
<1>12. QED BY <1>2, <1>8, <1>9, <1>10, <1>11 DEF ArtifactsInv

LEMMA RenameStep ==
  ASSUME ArtifactsInv, NEW p \in Putters, Rename(p)
  PROVE  ArtifactsInv'
<1> DEFINE b == putter[p].blob
<1>1. /\ putter[p].at = "rename" /\ UNCHANGED <<inodes, persisted, sweep, mixed, abandoned>>
  BY DEF Rename
<1>2. b \in Blobs /\ ArtifactTypes /\ p \in Staging(b) /\ p \in Offloading(b)
  BY <1>1, PutterFields DEF ArtifactsInv, Staging, Offloading
<1>3. \A c \in Blobs : stored[c] \in 0 .. Len(inodes) /\ staged[c] \in 0 .. Len(inodes)
  BY <1>2 DEF ArtifactTypes
<1>4. CASE staged[b] = 0
  <2>1. /\ putter' = [putter EXCEPT ![p] = AtRest] /\ failed' = failed \cup {b}
        /\ UNCHANGED <<stored, staged>>
    BY <1>4 DEF Rename
  <2>2. \A q \in Putters : putter'[q] = (IF q = p THEN AtRest ELSE putter[q])
    BY <1>2, <2>1 DEF ArtifactTypes
  <2>3. b \in mixed
    BY <1>2, <1>4 DEF ArtifactsInv, Untouched
  <2>4. ArtifactTypes'
    <3>1. AtRest \in PutterState /\ AtRest.at = "rest"
      BY DEF PutterState, AtRest
    <3>2. putter' \in [Putters -> PutterState]
      BY <1>2, <2>1, <3>1 DEF ArtifactTypes
    <3>3. \A q \in Putters : putter'[q].at = "write" => putter'[q].inode \in 1 .. Len(inodes')
      BY <1>1, <1>2, <2>2, <3>1 DEF ArtifactTypes
    <3>4. QED BY <1>1, <1>2, <2>1, <3>2, <3>3 DEF ArtifactTypes
  <2>5. StagedIsOwned'
    BY <1>1, <2>1, <2>2 DEF ArtifactsInv, StagedIsOwned, AtRest
  <2>6. \A i : Writing(i)' = Writing(i) /\ \A q \in Writing(i) : putter'[q] = putter[q]
    BY <1>1, <2>2 DEF Writing, AtRest
  <2>7. TornHasWriter'
    BY <1>1, <2>1, <2>6 DEF ArtifactsInv, TornHasWriter
  <2>8. ASSUME NEW c \in Blobs \ mixed' PROVE Untouched(c)'
    <3>1. Untouched(c) /\ c # b
      BY <1>1, <2>3, <2>8 DEF ArtifactsInv
    <3>2. Offloading(c)' = Offloading(c) /\ \A q \in Offloading(c) : putter'[q] = putter[q]
      BY <1>1, <2>2, <3>1 DEF Offloading, AtRest
    <3>3. c \notin failed'
      BY <2>1, <3>1 DEF Untouched
    <3>4. QED BY <1>1, <2>1, <3>1, <3>2, <3>3, Elsewhere
  <2>9. QED BY <1>1, <1>2, <2>1, <2>4, <2>5, <2>7, <2>8 DEF ArtifactsInv
<1>5. CASE staged[b] # 0
  <2> DEFINE held == [at |-> "holds", blob |-> b]
  <2>1. /\ putter' = [putter EXCEPT ![p] = held] /\ failed' = failed
        /\ stored' = [stored EXCEPT ![b] = staged[b]] /\ staged' = [staged EXCEPT ![b] = 0]
    BY <1>5 DEF Rename
  <2>2. /\ \A q \in Putters : putter'[q] = (IF q = p THEN held ELSE putter[q])
        /\ \A c \in Blobs : /\ stored'[c] = (IF c = b THEN staged[b] ELSE stored[c])
                            /\ staged'[c] = (IF c = b THEN 0 ELSE staged[c])
    BY <1>2, <2>1 DEF ArtifactTypes
  <2>3. ArtifactTypes'
    <3>1. held \in PutterState
      BY <1>2 DEF PutterState
    <3>2. putter' \in [Putters -> PutterState]
      BY <1>2, <2>1, <3>1 DEF ArtifactTypes
    <3>3. \A q \in Putters : putter'[q].at = "write" => putter'[q].inode \in 1 .. Len(inodes')
      BY <1>1, <1>2, <2>2 DEF ArtifactTypes
    <3>4. stored' \in [Blobs -> 0 .. Len(inodes)] /\ staged' \in [Blobs -> 0 .. Len(inodes)]
      BY <1>2, <1>3, <2>1 DEF ArtifactTypes
    <3>5. QED BY <1>1, <1>2, <3>2, <3>3, <3>4 DEF ArtifactTypes
  <2>4. StagedIsOwned'
    <3>1. \A a, c \in Blobs : staged'[a] # 0 =>
              stored'[c] # staged'[a] /\ (staged'[c] = staged'[a] => a = c)
      BY <1>2, <2>2 DEF ArtifactsInv, StagedIsOwned
    <3>2. ASSUME NEW q \in Putters, NEW c \in Blobs,
                 putter'[q].at = "write", staged'[c] = putter'[q].inode
          PROVE  putter'[q].blob = c
      <4>1. q # p /\ putter'[q] = putter[q]
        BY <2>2, <3>2
      <4>2. putter[q].inode # 0
        BY <1>2, <3>2, <4>1 DEF ArtifactTypes
      <4>3. staged[c] = putter[q].inode
        BY <2>2, <3>2, <4>1, <4>2
      <4>4. QED BY <3>2, <4>1, <4>3 DEF ArtifactsInv, StagedIsOwned
    <3>3. QED BY <3>1, <3>2 DEF StagedIsOwned
  <2>5. \A i : Writing(i)' = Writing(i) /\ \A q \in Writing(i) : putter'[q] = putter[q]
    BY <1>1, <2>2 DEF Writing
  <2>6. TornHasWriter'
    BY <1>1, <2>1, <2>5 DEF ArtifactsInv, TornHasWriter
  <2>7. ASSUME NEW c \in Blobs \ mixed' PROVE Untouched(c)'
    <3>1. Untouched(c)
      BY <1>1, <2>7 DEF ArtifactsInv
    <3>2. Offloading(c)' = Offloading(c)
      BY <1>1, <2>2 DEF Offloading
    <3>3. CASE c # b
      <4>1. \A q \in Offloading(c) : putter'[q] = putter[q]
        BY <2>2, <3>3 DEF Offloading
      <4>2. c \notin failed'
        BY <2>1, <3>1 DEF Untouched
      <4>3. QED BY <1>1, <2>2, <3>1, <3>2, <3>3, <4>1, <4>2, Elsewhere
    <3>4. CASE c = b
      <4>1. inodes[staged[b]] /\ \A q \in Staging(b) : q = p
        BY <1>1, <1>2, <3>1, <3>4 DEF Untouched
      <4>2. Staging(b)' = {}
        <5>1. \A q \in Staging(b)' : q \in Staging(b) /\ q # p
          BY <2>2 DEF Staging, Offloading
        <5>2. QED BY <4>1, <5>1
      <4>3. stored'[b] = staged[b]
        BY <1>2, <2>2
      <4>4. QED BY <1>1, <1>5, <2>1, <3>1, <3>2, <3>4, <4>1, <4>2, <4>3 DEF Untouched
    <3>5. QED BY <3>3, <3>4
  <2>8. QED BY <1>1, <2>1, <2>3, <2>4, <2>6, <2>7 DEF ArtifactsInv
<1>6. QED BY <1>4, <1>5

\* A process that leaves what it was doing, with or without a persisted Context, leaves the
\* rest as it was.
LEMMA Rests ==
  ASSUME ArtifactsInv, NEW p \in Putters, putter[p].at # "rest",
         putter' = [putter EXCEPT ![p] = AtRest],
         UNCHANGED <<inodes, stored, staged, sweep, mixed, failed>>,
         \A i \in 1 .. Len(inodes) : i \in abandoned \/ p \in Writing(i) => i \in abandoned',
         \/ persisted' = persisted
         \/ putter[p].at = "holds" /\ persisted' = persisted \cup {putter[p].blob}
  PROVE  ArtifactsInv'
<1>1. \A q \in Putters : putter'[q] = (IF q = p THEN AtRest ELSE putter[q])
  BY DEF ArtifactsInv, ArtifactTypes
<1>2. putter[p].blob \in Blobs /\ ArtifactTypes
  BY PutterFields DEF ArtifactsInv
<1>3. ArtifactTypes'
  <2>1. AtRest \in PutterState /\ AtRest.at = "rest"
    BY DEF PutterState, AtRest
  <2>2. putter' \in [Putters -> PutterState]
    BY <1>2, <2>1 DEF ArtifactTypes
  <2>3. QED BY <1>1, <1>2, <2>1, <2>2 DEF ArtifactTypes
<1>4. StagedIsOwned'
  BY <1>1 DEF ArtifactsInv, StagedIsOwned, AtRest
<1>5. TornHasWriter'
  <2> SUFFICES ASSUME NEW i \in 1 .. Len(inodes), ~inodes[i], i \notin abandoned'
               PROVE  \E q \in Writing(i)' : ~putter'[q].clobbered
    BY DEF TornHasWriter
  <2>1. PICK q \in Writing(i) : ~putter[q].clobbered
    BY DEF ArtifactsInv, TornHasWriter
  <2>2. q # p
    BY <2>1
  <2>3. QED BY <1>1, <2>1, <2>2 DEF Writing
<1>6. ASSUME NEW c \in Blobs \ mixed' PROVE Untouched(c)'
  <2>1. Untouched(c)
    BY <1>6 DEF ArtifactsInv
  <2>2. /\ \A q \in Offloading(c)' : q \in Offloading(c) /\ putter'[q] = putter[q]
        /\ \A q \in Staging(c)' : q \in Staging(c) /\ putter'[q] = putter[q]
    BY <1>1 DEF Offloading, Staging, AtRest
  <2>3. /\ \A q, r \in Staging(c)' : q = r
        /\ \A q \in Staging(c)' :
              /\ staged[c] # 0
              /\ putter'[q].at = "write" => staged[c] = putter'[q].inode /\ ~putter'[q].clobbered
              /\ putter'[q].at = "rename" => inodes[staged[c]]
    BY <2>1, <2>2 DEF Untouched
  <2>4. c \in persisted' =>
            c \in persisted \/ (p \in Offloading(c) /\ putter[p].at = "holds")
    <3>1. CASE persisted' = persisted
      BY <3>1
    <3>2. CASE putter[p].at = "holds" /\ persisted' = persisted \cup {putter[p].blob}
      BY <3>2 DEF Offloading
    <3>3. QED BY <3>1, <3>2
  <2>5. (sweep.on => Offloading(c)' = {} /\ (c \in persisted' => c \in sweep.live))
        /\ (c \in persisted' => stored[c] # 0)
    BY <2>1, <2>2, <2>4 DEF Untouched
  <2>6. \A q \in Offloading(c)' : putter'[q].at = "holds" => stored[c] # 0
    BY <2>1, <2>2 DEF Untouched
  <2>7. QED BY <2>1, <2>3, <2>5, <2>6 DEF Untouched
<1>7. QED BY <1>3, <1>4, <1>5, <1>6 DEF ArtifactsInv

\* A gc, or a deletion, moves names and no process.
LEMMA GcBeginsStep == ArtifactsInv /\ GcBegins => ArtifactsInv'
<1> SUFFICES ASSUME ArtifactsInv, GcBegins PROVE ArtifactsInv'
  OBVIOUS
<1>1. /\ sweep' = [on |-> TRUE, live |-> persisted, left |-> Blobs]
      /\ mixed' = mixed \cup {b \in Blobs : Offloading(b) # {}}
      /\ UNCHANGED <<inodes, stored, staged, putter, persisted, failed, abandoned>>
  BY DEF GcBegins
<1>2. ArtifactTypes' /\ StagedIsOwned'
  BY <1>1 DEF ArtifactsInv, ArtifactTypes, StagedIsOwned
<1>3. TornHasWriter'
  BY <1>1 DEF ArtifactsInv, TornHasWriter, Writing
<1>4. ASSUME NEW c \in Blobs \ mixed' PROVE Untouched(c)'
  <2>1. Untouched(c) /\ Offloading(c) = {} /\ Offloading(c)' = {} /\ Staging(c)' = {}
    BY <1>1, <1>4 DEF ArtifactsInv, Offloading, Staging
  <2>2. QED BY <1>1, <2>1 DEF Untouched
<1>5. QED BY <1>1, <1>2, <1>3, <1>4 DEF ArtifactsInv

LEMMA GcVisitsStep ==
  ASSUME ArtifactsInv, NEW b \in Blobs, GcVisits(b)
  PROVE  ArtifactsInv'
<1>1. /\ sweep.on /\ staged' = [staged EXCEPT ![b] = 0]
      /\ stored' = (IF b \in sweep.live THEN stored ELSE [stored EXCEPT ![b] = 0])
      /\ sweep' = (IF sweep.left = {b} THEN NoSweep ELSE [sweep EXCEPT !.left = @ \ {b}])
      /\ UNCHANGED <<inodes, putter, persisted, mixed, failed, abandoned>>
  BY DEF GcVisits
<1>2. /\ ArtifactTypes
      /\ \A c \in Blobs : stored[c] \in 0 .. Len(inodes) /\ staged[c] \in 0 .. Len(inodes)
  BY DEF ArtifactsInv, ArtifactTypes
<1>3. \A c \in Blobs :
          /\ staged'[c] = (IF c = b THEN 0 ELSE staged[c])
          /\ stored'[c] = (IF c = b /\ b \notin sweep.live THEN 0 ELSE stored[c])
  BY <1>1, <1>2 DEF ArtifactTypes
<1>4. /\ sweep' \in [on : BOOLEAN, live : SUBSET Blobs, left : SUBSET Blobs]
      /\ sweep'.on => sweep'.live = sweep.live
  BY <1>1, <1>2 DEF ArtifactTypes, NoSweep
<1>5. ArtifactTypes'
  <2>1. stored' \in [Blobs -> 0 .. Len(inodes)] /\ staged' \in [Blobs -> 0 .. Len(inodes)]
    BY <1>1, <1>2 DEF ArtifactTypes
  <2>2. QED BY <1>1, <1>2, <1>4, <2>1 DEF ArtifactTypes
<1>6. StagedIsOwned'
  <2>1. \A a, c \in Blobs : staged'[a] # 0 =>
            stored'[c] # staged'[a] /\ (staged'[c] = staged'[a] => a = c)
    BY <1>3 DEF ArtifactsInv, StagedIsOwned
  <2>2. \A q \in Putters, c \in Blobs :
            putter[q].at = "write" /\ staged'[c] = putter[q].inode => putter[q].blob = c
    BY <1>2, <1>3 DEF ArtifactsInv, ArtifactTypes, StagedIsOwned
  <2>3. QED BY <1>1, <2>1, <2>2 DEF StagedIsOwned
<1>7. TornHasWriter'
  BY <1>1 DEF ArtifactsInv, TornHasWriter, Writing
<1>8. ASSUME NEW c \in Blobs \ mixed' PROVE Untouched(c)'
  <2>1. Untouched(c) /\ Offloading(c) = {} /\ Offloading(c)' = {} /\ Staging(c)' = {}
    BY <1>1, <1>8 DEF ArtifactsInv, Untouched, Offloading, Staging
  <2>2. c \in persisted => stored'[c] = stored[c]
    BY <1>1, <1>3, <2>1 DEF Untouched
  <2>3. stored'[c] # 0 => stored'[c] = stored[c]
    BY <1>3
  <2>4. QED BY <1>1, <1>4, <2>1, <2>2, <2>3 DEF Untouched
<1>9. QED BY <1>1, <1>5, <1>6, <1>7, <1>8 DEF ArtifactsInv

LEMMA DeleteBlobStep ==
  ASSUME ArtifactsInv, NEW b \in Blobs, DeleteBlob(b)
  PROVE  ArtifactsInv'
<1>1. /\ stored' = [stored EXCEPT ![b] = 0] /\ persisted' = persisted \ {b}
      /\ mixed' = (IF Offloading(b) # {} THEN mixed \cup {b} ELSE mixed)
      /\ UNCHANGED <<inodes, staged, putter, sweep, failed, abandoned>>
  BY DEF DeleteBlob
<1>2. /\ ArtifactTypes
      /\ \A c \in Blobs : stored'[c] = (IF c = b THEN 0 ELSE stored[c])
  BY <1>1 DEF ArtifactsInv, ArtifactTypes
<1>3. ArtifactTypes'
  BY <1>1, <1>2 DEF ArtifactTypes
<1>4. StagedIsOwned' /\ TornHasWriter'
  BY <1>1, <1>2 DEF ArtifactsInv, StagedIsOwned, TornHasWriter, Writing
<1>5. ASSUME NEW c \in Blobs \ mixed' PROVE Untouched(c)'
  <2>1. Untouched(c)
    BY <1>1, <1>5 DEF ArtifactsInv
  <2>2. Offloading(c)' = Offloading(c) /\ Staging(c)' = Staging(c)
    BY <1>1 DEF Offloading, Staging
  <2>3. c = b => Offloading(c) = {}
    BY <1>1, <1>5
  <2>4. QED BY <1>1, <1>2, <2>1, <2>2, <2>3 DEF Untouched, Staging
<1>6. QED BY <1>1, <1>3, <1>4, <1>5 DEF ArtifactsInv

LEMMA ArtifactsInvStep == ArtifactsInv /\ [ArtifactsNext]_artifactVars => ArtifactsInv'
<1> SUFFICES ASSUME ArtifactsInv, [ArtifactsNext]_artifactVars PROVE ArtifactsInv'
  OBVIOUS
<1>1. ASSUME NEW p \in Putters, PersistContext(p) PROVE ArtifactsInv'
  BY <1>1, Rests DEF PersistContext, Writing
<1>2. ASSUME NEW p \in Putters, PutterDies(p) PROVE ArtifactsInv'
  BY <1>2, Rests DEF PutterDies
<1>3. CASE UNCHANGED artifactVars
  BY <1>3 DEF artifactVars, ArtifactsInv, ArtifactTypes, StagedIsOwned, TornHasWriter,
              Untouched, Offloading, Staging, Writing
<1>4. QED
  BY <1>1, <1>2, <1>3, PutLooksStep, StageStep, WriteStagedStep, RenameStep, GcBeginsStep,
     GcVisitsStep, DeleteBlobStep DEF ArtifactsNext

LEMMA ArtifactsInvSuffices == ArtifactsInv => ArtifactsAreKept
<1> SUFFICES ASSUME ArtifactsInv PROVE ArtifactsAreKept
  OBVIOUS
<1>1. PersistedHydrates
  BY DEF ArtifactsInv, ArtifactTypes, Untouched, PersistedHydrates, Hydrated
<1>2. TornIsBeingWritten
  <2> SUFFICES ASSUME NEW b \in Blobs, Hydrated(b) = "torn"
               PROVE  Writing(stored[b]) # {} \/ stored[b] \in abandoned
    BY DEF TornIsBeingWritten
  <2>1. stored[b] # 0 /\ ~inodes[stored[b]]
    BY DEF Hydrated
  <2>2. QED BY <2>1 DEF ArtifactsInv, ArtifactTypes, TornHasWriter
<1>3. PutRaisesOnlyMixed
  BY DEF ArtifactsInv, Untouched, PutRaisesOnlyMixed
<1>4. QED BY <1>1, <1>2, <1>3 DEF ArtifactsAreKept

\* What a persisted Context refers to hydrates whole unless puts of it were mixed, what can be
\* read in part has its writer, and put raises over mixed puts only, of any number of processes
\* and contents.
THEOREM ArtifactsStayKept == ArtifactsSpec => []ArtifactsAreKept
<1>1. QED BY ArtifactsInvInit, ArtifactsInvStep, ArtifactsInvSuffices, PTL DEF ArtifactsSpec
----------------------------------------------------------------------------
(* Storage                                                                  *)

Events == Seq(Openers \X (Nat \ {0}))
Disk == [version : Nat, tables : Nat, indexes : SUBSET Nat, events : Events,
         claims : SUBSET Claimable, row : Openers \cup {NoOpener}]
Connection == [at : {"closed", "migrate", "stamp", "open", "append"}, release : Nat, next : Nat,
               tx : BOOLEAN, seen : Disk \cup {NothingSeen}, stale : BOOLEAN]

StorageTypes ==
    /\ disk \in Disk /\ disk.tables <= Tables
    /\ writeLock \in Openers \cup {NoOpener}
    /\ conn \in [Openers -> Connection]
    /\ acked \in [Openers -> Nat] /\ winners \in [Claimable -> SUBSET Openers]
    /\ crowded \in BOOLEAN /\ clashed \in BOOLEAN

Has(v, d) == d.tables = Tables /\ 2 .. v \subseteq d.indexes

Begins(s, t) == Len(s) <= Len(t) /\ \A i \in 1 .. Len(s) : s[i] = t[i]

\* What is true of one connection and the file, whatever the others do: when it is in a
\* transaction, what it has seen, and what its migration has done so far.
Sane(c, d) ==
    /\ c.stale => c.tx
    /\ c.seen # NothingSeen => c.tx /\ Begins(c.seen.events, d.events) /\ c.seen.claims \subseteq d.claims
    /\ c.at \in {"closed", "migrate"} => ~c.tx
    /\ c.at = "stamp" /\ c.next = 1 => ~c.tx /\ d.tables = Tables
    /\ c.at \in {"migrate", "stamp"} => c.next > 0 /\ (c.next > 1 => Has(c.next - 1, d))
    /\ c.at \in {"open", "append"} => Has(c.release, d)

\* Who has the lock is in a transaction that no one has overtaken.
LockHeld == \A p \in Openers : writeLock = p => conn[p].tx /\ ~conn[p].stale

\* Until two appends meet, nobody is in a transaction between two operations.
Quiet == ~clashed => \A p \in Openers : conn[p].at \in {"open", "append"} => ~conn[p].tx

\* Until two openers migrate at once, the one that does is at the version that comes next.
InTurn ==
    ~crowded =>
        /\ disk.indexes = 2 .. disk.version
        /\ \A p, q \in Openers : Migrating(p) /\ Migrating(q) => p = q
        /\ \A p \in Openers : Migrating(p) => conn[p].next = disk.version + 1

OneWinner ==
    \A k \in Claimable :
        winners[k] = {} \/ (k \in disk.claims /\ \E p \in Openers : winners[k] = {p})

StorageInv ==
    /\ StorageTypes /\ LockHeld /\ Quiet /\ InTurn /\ OneWinner /\ EventsAreWhole
    /\ \A p \in Openers : Sane(conn[p], disk)
    /\ disk.version > 0 => Has(disk.version, disk)
----------------------------------------------------------------------------
(* The file and the connections                                             *)

\* What no commit takes back, whatever becomes of the version.
Grown(d, e) ==
    /\ d.tables <= e.tables /\ e.tables <= Tables
    /\ d.indexes \subseteq e.indexes /\ d.claims \subseteq e.claims
    /\ Begins(d.events, e.events)

Overtaken(c) == [c EXCEPT !.stale = @ \/ c.seen # NothingSeen]

LEMMA GrownIsReflexive ==
  ASSUME StorageTypes PROVE Grown(disk, disk)
BY DEF StorageTypes, Disk, Events, Grown, Begins

LEMMA HasPersists ==
  ASSUME NEW d \in Disk, NEW e \in Disk, Grown(d, e), NEW v, Has(v, d)
  PROVE  Has(v, e)
BY StorageAssumption DEF Grown, Has, Disk

LEMMA BeginsPersists ==
  ASSUME NEW r \in Events, NEW s \in Events, NEW t \in Events, Begins(r, s), Begins(s, t)
  PROVE  Begins(r, t)
BY DEF Begins, Events

LEMMA SanePersists ==
  ASSUME NEW c \in Connection, NEW d \in Disk, NEW e \in Disk, Grown(d, e), Sane(c, d)
  PROVE  Sane(c, e) /\ Overtaken(c) \in Connection /\ Sane(Overtaken(c), e)
<1>1. c.seen # NothingSeen => Begins(c.seen.events, e.events) /\ c.seen.claims \subseteq e.claims
  <2> SUFFICES ASSUME c.seen # NothingSeen
               PROVE  Begins(c.seen.events, e.events) /\ c.seen.claims \subseteq e.claims
    OBVIOUS
  <2>1. c.seen \in Disk
    BY DEF Connection
  <2>2. c.seen.events \in Events /\ d.events \in Events /\ e.events \in Events
    BY <2>1 DEF Disk
  <2>3. QED BY <2>2, BeginsPersists DEF Sane, Grown
<1>2. d.tables = Tables => e.tables = Tables
  BY StorageAssumption DEF Grown, Disk
<1>3. Sane(c, e)
  BY <1>1, <1>2, HasPersists DEF Sane
<1>4. Overtaken(c) \in Connection
  BY DEF Connection, Overtaken
<1>5. /\ Overtaken(c).at = c.at /\ Overtaken(c).tx = c.tx /\ Overtaken(c).seen = c.seen
      /\ Overtaken(c).next = c.next /\ Overtaken(c).release = c.release
      /\ Overtaken(c).stale => c.stale \/ c.seen # NothingSeen
  BY DEF Connection, Overtaken
<1>6. QED BY <1>3, <1>4, <1>5 DEF Sane

\* A step of one opener, that leaves the others' transactions as they are, or overtakes them.
LEMMA StepOf ==
  ASSUME StorageInv, NEW p \in Openers,
         disk' \in Disk, Grown(disk, disk'), conn' \in [Openers -> Connection],
         Sane(conn'[p], disk'),
         \A q \in Openers \ {p} :
            conn'[q] = conn[q] \/ (Free(p) /\ conn'[q] = Overtaken(conn[q])),
         writeLock' \in {NoOpener, writeLock, p},
         writeLock' = p => conn'[p].tx /\ ~conn'[p].stale,
         clashed' \in BOOLEAN, crowded' \in BOOLEAN,
         ~clashed' => ~clashed /\ (conn'[p].at \in {"open", "append"} => ~conn'[p].tx),
         ~crowded' =>
            /\ ~crowded /\ disk'.indexes = 2 .. disk'.version
            /\ disk'.version = disk.version \/ Migrating(p)
            /\ conn'[p].at \in {"migrate", "stamp"} =>
                   conn'[p].next = disk'.version + 1 /\ \A q \in Openers \ {p} : ~Migrating(q),
         acked' \in [Openers -> Nat], winners' \in [Claimable -> SUBSET Openers],
         OneWinner', EventsAreWhole', disk'.version > 0 => Has(disk'.version, disk')
  PROVE  StorageInv'
<1>1. StorageTypes /\ \A q \in Openers : conn[q] \in Connection /\ Sane(conn[q], disk)
  BY DEF StorageInv, StorageTypes
<1>2. StorageTypes'
  BY <1>1 DEF StorageTypes, Grown
<1>3. \A q \in Openers \ {p} :
          /\ conn'[q].at = conn[q].at /\ conn'[q].tx = conn[q].tx /\ conn'[q].next = conn[q].next
          /\ conn'[q].stale => conn[q].stale \/ Free(p)
  BY <1>1 DEF Overtaken, Connection
<1>4. \A q \in Openers : Sane(conn'[q], disk')
  <2> SUFFICES ASSUME NEW q \in Openers \ {p} PROVE Sane(conn'[q], disk')
    OBVIOUS
  <2>1. Sane(conn[q], disk') /\ Sane(Overtaken(conn[q]), disk')
    BY <1>1, SanePersists DEF StorageTypes
  <2>2. QED BY <2>1
<1>5. LockHeld'
  <2> SUFFICES ASSUME NEW q \in Openers \ {p}, writeLock' = q
               PROVE  conn'[q].tx /\ ~conn'[q].stale
    BY DEF LockHeld
  <2>1. writeLock = q /\ ~Free(p)
    BY StorageAssumption DEF Free
  <2>2. QED BY <1>3, <2>1 DEF StorageInv, LockHeld
<1>6. Quiet'
  BY <1>3 DEF StorageInv, Quiet
<1>7. InTurn'
  <2> SUFFICES ASSUME ~crowded'
               PROVE  /\ \A q, r \in Openers : Migrating(q)' /\ Migrating(r)' => q = r
                      /\ \A q \in Openers : Migrating(q)' => conn'[q].next = disk'.version + 1
    BY DEF InTurn
  <2>1. \A q \in Openers \ {p} : Migrating(q)' = Migrating(q)
    BY <1>3 DEF Migrating
  <2>2. \A q \in Openers \ {p} : Migrating(q) =>
            ~Migrating(p) /\ ~Migrating(p)' /\ conn'[q].next = disk'.version + 1
    BY <1>3 DEF StorageInv, InTurn, Migrating
  <2>3. Migrating(p)' => conn'[p].next = disk'.version + 1
    BY DEF Migrating
  <2>4. \A q, r \in Openers \ {p} : Migrating(q) /\ Migrating(r) => q = r
    BY DEF StorageInv, InTurn
  <2>5. QED BY <2>1, <2>2, <2>3, <2>4
<1>8. QED BY <1>2, <1>4, <1>5, <1>6, <1>7 DEF StorageInv

\* A step that commits nothing.
LEMMA StepInside ==
  ASSUME StorageInv, NEW p \in Openers, NEW c \in Connection,
         conn' = [conn EXCEPT ![p] = c], Sane(c, disk), UNCHANGED <<disk, acked, winners>>,
         writeLock' \in {NoOpener, writeLock, p}, writeLock' = p => c.tx /\ ~c.stale,
         clashed' \in BOOLEAN, crowded' \in BOOLEAN,
         ~clashed' => ~clashed /\ (c.at \in {"open", "append"} => ~c.tx),
         ~crowded' => ~crowded,
         ~crowded' /\ c.at \in {"migrate", "stamp"} =>
            \/ Migrating(p) /\ c.next = conn[p].next
            \/ c.next = disk.version + 1 /\ \A q \in Openers \ {p} : ~Migrating(q)
  PROVE  StorageInv'
<1>1. /\ StorageTypes /\ conn' \in [Openers -> Connection] /\ conn'[p] = c
      /\ \A q \in Openers \ {p} : conn'[q] = conn[q]
  BY DEF StorageInv, StorageTypes
<1>2. OneWinner' /\ EventsAreWhole' /\ (disk'.version > 0 => Has(disk'.version, disk'))
  BY DEF StorageInv, OneWinner, EventsAreWhole
<1>3. ~crowded' =>
          /\ ~crowded /\ disk'.indexes = 2 .. disk'.version /\ disk'.version = disk.version
          /\ conn'[p].at \in {"migrate", "stamp"} =>
                 conn'[p].next = disk'.version + 1 /\ \A q \in Openers \ {p} : ~Migrating(q)
  BY <1>1 DEF StorageInv, InTurn
<1>4. disk' \in Disk /\ Grown(disk, disk') /\ acked' \in [Openers -> Nat]
      /\ winners' \in [Claimable -> SUBSET Openers]
  BY <1>1, GrownIsReflexive DEF StorageTypes
<1>5. QED BY <1>1, <1>2, <1>3, <1>4, StepOf

\* A step that commits, and leaves its opener outside of any transaction.
LEMMA StepCommits ==
  ASSUME StorageInv, NEW p \in Openers, NEW mine \in Connection, Free(p), ~mine.tx,
         conn' = Committed(p, mine), Sane(mine, disk'), disk' \in Disk, Grown(disk, disk'),
         writeLock' \in {NoOpener, writeLock}, writeLock' # p, UNCHANGED <<crowded, clashed>>,
         ~crowded =>
            /\ disk'.indexes = 2 .. disk'.version
            /\ disk'.version = disk.version \/ Migrating(p)
            /\ mine.at \in {"migrate", "stamp"} => Migrating(p) /\ mine.next = disk'.version + 1,
         acked' \in [Openers -> Nat], winners' \in [Claimable -> SUBSET Openers],
         OneWinner', EventsAreWhole', disk'.version > 0 => Has(disk'.version, disk')
  PROVE  StorageInv'
<1>1. StorageTypes
  BY DEF StorageInv
<1>2. \A q \in Openers : Overtaken(conn[q]) \in Connection
  BY <1>1, GrownIsReflexive, SanePersists DEF StorageInv, StorageTypes
<1>3. /\ conn'[p] = mine /\ \A q \in Openers \ {p} : conn'[q] = Overtaken(conn[q])
      /\ conn' \in [Openers -> Connection]
  BY <1>2 DEF Committed, Overtaken
<1>4. ~crowded' => /\ ~crowded /\ disk'.indexes = 2 .. disk'.version
                   /\ disk'.version = disk.version \/ Migrating(p)
                   /\ conn'[p].at \in {"migrate", "stamp"} =>
                          conn'[p].next = disk'.version + 1 /\ \A q \in Openers \ {p} : ~Migrating(q)
  BY <1>3 DEF StorageInv, InTurn
<1>5. ~clashed' => ~clashed /\ (conn'[p].at \in {"open", "append"} => ~conn'[p].tx)
  BY <1>3
<1>6. clashed' \in BOOLEAN /\ crowded' \in BOOLEAN
  BY <1>1 DEF StorageTypes
<1>7. QED BY <1>1, <1>3, <1>4, <1>5, <1>6, StepOf

\* What is known of an opener.
LEMMA ConnFields ==
  ASSUME StorageInv, NEW p \in Openers
  PROVE  /\ StorageTypes /\ conn[p] \in Connection /\ Sane(conn[p], disk)
         /\ conn[p].at \in {"closed", "migrate", "stamp", "open", "append"}
         /\ conn[p].release \in Nat /\ conn[p].next \in Nat
         /\ conn[p].tx \in BOOLEAN /\ conn[p].stale \in BOOLEAN
         /\ conn[p].seen \in Disk \cup {NothingSeen}
         /\ writeLock = p => conn[p].tx /\ ~conn[p].stale
BY DEF StorageInv, StorageTypes, Connection, LockHeld

LEMMA DoneFields ==
  ASSUME StorageInv, NEW p \in Openers, NEW at \in {"migrate", "open"}
  PROVE  /\ Done(p, at) \in Connection
         /\ Done(p, at).at = at /\ ~Done(p, at).tx /\ ~Done(p, at).stale
         /\ Done(p, at).seen = NothingSeen /\ Done(p, at).next = conn[p].next
         /\ Done(p, at).release = conn[p].release
BY ConnFields DEF Done, Connection
----------------------------------------------------------------------------
(* Opening                                                                  *)

LEMMA OpenStep ==
  ASSUME StorageInv, NEW p \in Openers, NEW release \in Releases, Open(p, release)
  PROVE  StorageInv'
<1> DEFINE at == IF disk.version = release THEN "open" ELSE "migrate"
           c == [Closed EXCEPT !.at = at, !.release = release, !.next = disk.version + 1]
<1>1. /\ conn[p].at = "closed" /\ disk.version <= release
      /\ conn' = [conn EXCEPT ![p] = c]
      /\ crowded' = (crowded \/ (disk.version # release /\ \E q \in Openers : Migrating(q)))
      /\ UNCHANGED <<disk, writeLock, acked, winners, clashed>>
  BY DEF Open
<1>2. /\ StorageTypes /\ release \in Nat /\ release > 0 /\ disk.version \in Nat
      /\ writeLock # p
  BY <1>1, ConnFields, StorageAssumption DEF StorageTypes, Disk, Sane
<1>3. /\ c.at = at /\ c.release = release /\ c.next = disk.version + 1
      /\ c.tx = FALSE /\ c.stale = FALSE /\ c.seen = NothingSeen
  BY DEF Closed
<1>4. c \in Connection
  <2>1. Closed \in Connection
    BY DEF Closed, Connection
  <2>2. at \in {"migrate", "open"} /\ disk.version + 1 \in Nat
    BY <1>2
  <2> HIDE DEF at
  <2>3. QED BY <1>2, <2>1, <2>2 DEF Connection
<1>5. Sane(c, disk)
  <2>1. disk.version > 0 => Has(disk.version, disk)
    BY DEF StorageInv
  <2>2. QED BY <1>2, <1>3, <2>1 DEF Sane
<1>6. clashed' \in BOOLEAN /\ crowded' \in BOOLEAN
  BY <1>1, <1>2 DEF StorageTypes
<1>7. ~crowded' => ~crowded /\ (c.at \in {"migrate", "stamp"} =>
                                  c.next = disk.version + 1 /\ \A q \in Openers \ {p} : ~Migrating(q))
  <2>1. c.at \in {"migrate", "stamp"} => disk.version # release
    BY <1>3
  <2> HIDE DEF c, at
  <2>2. QED BY <1>1, <1>3, <2>1, Zenon
<1> HIDE DEF c, at
<1>8. QED BY <1>1, <1>2, <1>3, <1>4, <1>5, <1>6, <1>7, StepInside

LEMMA CreateTableStep ==
  ASSUME StorageInv, NEW p \in Openers, CreateTable(p)
  PROVE  StorageInv'
<1>1. /\ conn[p].at = "migrate" /\ conn[p].next = 1
      /\ UNCHANGED <<writeLock, opens, acked, winners, crowded, clashed>>
  BY DEF CreateTable
<1>2. /\ StorageTypes /\ ~conn[p].tx /\ writeLock # p /\ Migrating(p)
      /\ disk.tables \in Nat /\ Tables \in Nat
  BY <1>1, ConnFields, StorageAssumption DEF StorageTypes, Disk, Sane, Migrating
<1>3. CASE disk.tables < Tables
  <2>1. Free(p) /\ disk' = [disk EXCEPT !.tables = @ + 1] /\ conn' = Committed(p, conn[p])
    BY <1>3 DEF CreateTable
  <2>2. /\ disk' \in Disk /\ disk'.version = disk.version /\ disk'.indexes = disk.indexes
        /\ disk'.events = disk.events /\ disk'.claims = disk.claims
        /\ disk'.tables = disk.tables + 1
    BY <1>2, <2>1 DEF StorageTypes, Disk
  <2>3. Grown(disk, disk')
    BY <1>2, <1>3, <2>2, GrownIsReflexive DEF Grown
  <2>4. Sane(conn[p], disk')
    BY <1>2, <2>2, <2>3, ConnFields, SanePersists DEF StorageTypes
  <2>5. OneWinner' /\ EventsAreWhole' /\ (disk'.version > 0 => Has(disk'.version, disk'))
    BY <1>1, <1>2, <2>2, <2>3, HasPersists DEF StorageInv, StorageTypes, OneWinner, EventsAreWhole
  <2>6. ~crowded => /\ disk'.indexes = 2 .. disk'.version
                    /\ disk'.version = disk.version \/ Migrating(p)
                    /\ conn[p].at \in {"migrate", "stamp"} =>
                           Migrating(p) /\ conn[p].next = disk'.version + 1
    BY <1>2, <2>2 DEF StorageInv, InTurn
  <2>7. QED
    BY <1>1, <1>2, <2>1, <2>2, <2>3, <2>4, <2>5, <2>6, ConnFields, StepCommits DEF StorageTypes
<1>4. CASE ~(disk.tables < Tables)
  <2> DEFINE c == [conn[p] EXCEPT !.at = "stamp"]
  <2>1. conn' = [conn EXCEPT ![p] = c] /\ UNCHANGED disk
    BY <1>4 DEF CreateTable
  <2>2. /\ c \in Connection /\ c.at = "stamp" /\ c.next = conn[p].next /\ c.tx = conn[p].tx
        /\ c.seen = conn[p].seen /\ c.stale = conn[p].stale
    BY ConnFields DEF Connection
  <2>3. disk.tables = Tables
    BY <1>2, <1>4 DEF StorageTypes
  <2>4. Sane(c, disk)
    BY <1>1, <1>2, <2>2, <2>3, ConnFields DEF Sane
  <2> HIDE DEF c
  <2>5. QED BY <1>1, <1>2, <2>1, <2>2, <2>4, StepInside DEF StorageTypes
<1>5. QED BY <1>3, <1>4

\* the record a migration leaves
LEMMA MigratedFields ==
  ASSUME StorageInv, NEW p \in Openers
  PROVE  /\ Migrated(p) \in Connection /\ ~Migrated(p).tx /\ ~Migrated(p).stale
         /\ Migrated(p).seen = NothingSeen /\ Migrated(p).release = conn[p].release
         /\ \/ Migrated(p).at = "open" /\ conn[p].next = conn[p].release
            \/ Migrated(p).at = "migrate" /\ Migrated(p).next = conn[p].next + 1
<1>1. CASE conn[p].next = conn[p].release
  BY <1>1, DoneFields DEF Migrated
<1>2. CASE conn[p].next # conn[p].release
  <2>1. Migrated(p) = [Done(p, "migrate") EXCEPT !.next = @ + 1]
    BY <1>2 DEF Migrated
  <2>2. Done(p, "migrate") \in Connection /\ Done(p, "migrate").next = conn[p].next
    BY DoneFields
  <2>3. QED BY <2>1, <2>2, DoneFields DEF Connection
<1>3. QED BY <1>1, <1>2

\* A version is stamped over a schema that has it.
LEMMA Stamps ==
  ASSUME StorageInv, NEW p \in Openers, conn[p].at = "stamp", Free(p),
         writeLock' \in {NoOpener, writeLock}, writeLock' # p,
         UNCHANGED <<acked, winners, crowded, clashed>>,
         disk' \in Disk, disk'.version = conn[p].next, disk'.tables = disk.tables,
         disk'.events = disk.events, disk'.claims = disk.claims,
         disk'.indexes = disk.indexes \cup 2 .. conn[p].next,
         disk.tables = Tables, conn' = Committed(p, Migrated(p))
  PROVE  StorageInv'
<1>1. StorageTypes /\ Migrating(p) /\ conn[p].next \in Nat /\ conn[p].next > 0 /\ disk \in Disk
  BY ConnFields DEF StorageTypes, Migrating, Sane
<1>2. Grown(disk, disk')
  BY <1>1, GrownIsReflexive DEF Grown
<1>3. Has(conn[p].next, disk')
  BY DEF Has
<1>4. Sane(Migrated(p), disk')
  BY <1>1, <1>3, MigratedFields DEF Sane
<1>5. OneWinner' /\ EventsAreWhole' /\ (disk'.version > 0 => Has(disk'.version, disk'))
  BY <1>3 DEF StorageInv, OneWinner, EventsAreWhole
<1>6. ~crowded => /\ disk'.indexes = 2 .. disk'.version
                  /\ disk'.version = disk.version \/ Migrating(p)
                  /\ Migrated(p).at \in {"migrate", "stamp"} =>
                         Migrating(p) /\ Migrated(p).next = disk'.version + 1
  <2> SUFFICES ASSUME ~crowded PROVE disk'.indexes = 2 .. disk'.version
    BY <1>1, MigratedFields
  <2>1. disk.indexes = 2 .. disk.version /\ conn[p].next = disk.version + 1 /\ disk.version \in Nat
    BY <1>1 DEF StorageInv, InTurn, Disk
  <2>2. QED BY <2>1
<1>7. acked' \in [Openers -> Nat] /\ winners' \in [Claimable -> SUBSET Openers]
  BY <1>1 DEF StorageTypes
<1>8. QED BY <1>2, <1>4, <1>5, <1>6, <1>7, MigratedFields, StepCommits

LEMMA StampBaselineStep ==
  ASSUME StorageInv, NEW p \in Openers, StampBaseline(p)
  PROVE  StorageInv'
<1>1. /\ conn[p].at = "stamp" /\ conn[p].next = 1 /\ Free(p)
      /\ disk' = [disk EXCEPT !.version = 1] /\ conn' = Committed(p, Migrated(p))
      /\ UNCHANGED <<writeLock, acked, winners, crowded, clashed>>
  BY DEF StampBaseline
<1>2. disk.tables = Tables /\ writeLock # p /\ disk \in Disk
  BY <1>1, ConnFields DEF Sane, StorageTypes
<1>3. /\ disk' \in Disk /\ disk'.version = conn[p].next /\ disk'.tables = disk.tables
      /\ disk'.events = disk.events /\ disk'.claims = disk.claims
      /\ disk'.indexes = disk.indexes \cup 2 .. conn[p].next
  <2>1. 2 .. 1 = {}
    OBVIOUS
  <2>2. QED BY <1>1, <1>2, <2>1 DEF Disk
<1>4. QED BY <1>1, <1>2, <1>3, Stamps

LEMMA CreateIndexStep ==
  ASSUME StorageInv, NEW p \in Openers, CreateIndex(p)
  PROVE  StorageInv'
<1>1. /\ conn[p].at = "migrate" /\ conn[p].next > 1
      /\ UNCHANGED <<disk, acked, winners, crowded, clashed>>
  BY DEF CreateIndex
<1>2. /\ StorageTypes /\ ~conn[p].tx /\ ~conn[p].stale /\ conn[p].seen = NothingSeen
      /\ writeLock # p /\ Migrating(p) /\ disk \in Disk
  BY <1>1, ConnFields DEF StorageTypes, Sane, Migrating
<1>3. CASE conn[p].next \in disk.indexes
  <2> DEFINE c == [conn[p] EXCEPT !.at = "stamp", !.tx = TRUE, !.seen = disk]
  <2>1. conn' = [conn EXCEPT ![p] = c] /\ UNCHANGED writeLock
    BY <1>3 DEF CreateIndex
  <2>2. /\ c \in Connection /\ c.at = "stamp" /\ c.next = conn[p].next /\ c.tx
        /\ c.seen = disk /\ c.stale = conn[p].stale
    BY <1>2, ConnFields DEF Connection
  <2> HIDE DEF c
  <2>3. Sane(c, disk)
    BY <1>1, <1>2, <2>2, ConnFields, GrownIsReflexive DEF Sane, Grown
  <2>4. QED BY <1>1, <1>2, <2>1, <2>2, <2>3, StepInside DEF StorageTypes
<1>4. CASE conn[p].next \notin disk.indexes
  <2> DEFINE c == [conn[p] EXCEPT !.at = "stamp", !.tx = TRUE]
  <2>1. conn' = [conn EXCEPT ![p] = c] /\ writeLock' = p
    BY <1>4 DEF CreateIndex
  <2>2. /\ c \in Connection /\ c.at = "stamp" /\ c.next = conn[p].next /\ c.tx
        /\ c.seen = conn[p].seen /\ c.stale = conn[p].stale
    BY ConnFields DEF Connection
  <2> HIDE DEF c
  <2>3. Sane(c, disk)
    BY <1>1, <1>2, <2>2, ConnFields DEF Sane
  <2>4. QED BY <1>1, <1>2, <2>1, <2>2, <2>3, StepInside DEF StorageTypes
<1>5. QED BY <1>3, <1>4

LEMMA StampAndCommitStep ==
  ASSUME StorageInv, NEW p \in Openers, StampAndCommit(p)
  PROVE  StorageInv'
<1>1. /\ conn[p].at = "stamp" /\ conn[p].next > 1 /\ Free(p)
      /\ disk' = Upgraded(p) /\ writeLock' = NoOpener /\ conn' = Committed(p, Migrated(p))
      /\ UNCHANGED <<acked, winners, crowded, clashed>>
  BY DEF StampAndCommit
<1>2. /\ Has(conn[p].next - 1, disk) /\ disk \in Disk /\ conn[p].next \in Nat
      /\ writeLock' # p
  BY <1>1, ConnFields, StorageAssumption DEF Sane, StorageTypes
<1>3. disk.indexes \cup {conn[p].next} = disk.indexes \cup 2 .. conn[p].next
  BY <1>1, <1>2 DEF Has
<1>4. /\ disk' \in Disk /\ disk'.version = conn[p].next /\ disk'.tables = disk.tables
      /\ disk'.events = disk.events /\ disk'.claims = disk.claims
      /\ disk'.indexes = disk.indexes \cup {conn[p].next}
  BY <1>1, <1>2 DEF Disk, Upgraded
<1>5. disk.tables = Tables
  BY <1>2 DEF Has
<1>6. QED BY <1>1, <1>2, <1>3, <1>4, <1>5, Stamps

LEMMA OpenFailsStep ==
  ASSUME StorageInv, NEW p \in Openers, OpenFails(p)
  PROVE  StorageInv'
<1>1. /\ Migrating(p) /\ (~Free(p) \/ conn[p].stale) /\ conn' = [conn EXCEPT ![p] = Closed]
      /\ UNCHANGED <<disk, writeLock, acked, winners, crowded, clashed>>
  BY DEF OpenFails, HeldIdle
<1>2. StorageTypes /\ writeLock # p
  BY <1>1, ConnFields DEF Free
<1>3. Closed \in Connection /\ Closed.at = "closed" /\ Sane(Closed, disk)
  BY DEF Closed, Connection, Sane
<1>4. QED BY <1>1, <1>2, <1>3, StepInside DEF StorageTypes

LEMMA CloseStoreStep ==
  ASSUME StorageInv, NEW p \in Openers, CloseStore(p)
  PROVE  StorageInv'
<1>1. /\ conn' = [conn EXCEPT ![p] = Closed]
      /\ writeLock' = (IF writeLock = p THEN NoOpener ELSE writeLock)
      /\ UNCHANGED <<disk, acked, winners, crowded, clashed>>
  BY DEF CloseStore
<1>2. StorageTypes /\ writeLock' # p /\ writeLock' \in {NoOpener, writeLock}
  BY <1>1, ConnFields, StorageAssumption
<1>3. Closed \in Connection /\ Closed.at = "closed" /\ Sane(Closed, disk)
  BY DEF Closed, Connection, Sane
<1>4. QED BY <1>1, <1>2, <1>3, StepInside DEF StorageTypes
----------------------------------------------------------------------------
(* Operations of an open Store                                              *)

LEMMA ViewIsBehind ==
  ASSUME StorageInv, NEW p \in Openers
  PROVE  /\ View(p) \in Disk /\ Begins(View(p).events, disk.events)
         /\ View(p).claims \subseteq disk.claims
BY ConnFields, GrownIsReflexive DEF View, Sane, StorageTypes, Grown

LEMMA ReadSeqStep ==
  ASSUME StorageInv, NEW p \in Openers, ReadSeq(p)
  PROVE  StorageInv'
<1> DEFINE seen == IF conn[p].tx THEN View(p) ELSE conn[p].seen
           c == [conn[p] EXCEPT !.at = "append", !.next = Len(View(p).events), !.seen = seen]
<1>1. /\ conn[p].at = "open" /\ UNCHANGED <<disk, writeLock, acked, winners, crowded, clashed>>
      /\ conn' = [conn EXCEPT ![p] = c]
  BY DEF ReadSeq
<1>2. StorageTypes /\ Len(View(p).events) \in Nat /\ seen \in Disk \cup {NothingSeen}
  <2>1. View(p).events \in Events
    BY ViewIsBehind DEF Disk
  <2>2. Len(View(p).events) \in Nat
    BY <2>1 DEF Events
  <2>3. QED BY <2>2, ConnFields, ViewIsBehind
<1>3. seen # NothingSeen =>
         conn[p].tx /\ Begins(seen.events, disk.events) /\ seen.claims \subseteq disk.claims
  BY ConnFields, ViewIsBehind DEF Sane
<1> HIDE DEF seen
<1>4. /\ c \in Connection /\ c.at = "append" /\ c.tx = conn[p].tx /\ c.release = conn[p].release
      /\ c.stale = conn[p].stale /\ c.seen = seen
  BY <1>2, ConnFields DEF Connection
<1> HIDE DEF c
<1>5. Sane(c, disk)
  BY <1>1, <1>3, <1>4, ConnFields DEF Sane
<1>6. ~clashed' => ~clashed /\ ~c.tx
  BY <1>1, <1>4 DEF StorageInv, Quiet
<1>7. writeLock' = p => c.tx /\ ~c.stale
  BY <1>1, <1>4, ConnFields
<1>8. QED BY <1>1, <1>2, <1>4, <1>5, <1>6, <1>7, StepInside DEF StorageTypes

LEMMA CollidesStep ==
  ASSUME StorageInv, NEW p \in Openers, Collides(p)
  PROVE  StorageInv'
<1> DEFINE c == [conn[p] EXCEPT !.at = "open", !.tx = TRUE, !.seen = disk]
<1>1. /\ conn[p].at = "append" /\ ~conn[p].stale /\ writeLock' = p /\ clashed' = TRUE
      /\ conn' = [conn EXCEPT ![p] = c] /\ UNCHANGED <<disk, acked, winners, crowded>>
  BY DEF Collides
<1>2. /\ StorageTypes /\ c \in Connection /\ c.at = "open" /\ c.tx /\ c.seen = disk
      /\ c.stale = conn[p].stale /\ c.release = conn[p].release
  BY ConnFields DEF Connection, StorageTypes
<1> HIDE DEF c
<1>3. Sane(c, disk)
  BY <1>1, <1>2, ConnFields, GrownIsReflexive DEF Sane, Grown
<1>4. QED BY <1>1, <1>2, <1>3, StepInside DEF StorageTypes

LEMMA LockedOutStep ==
  ASSUME StorageInv, NEW p \in Openers, LockedOut(p)
  PROVE  StorageInv'
<1> DEFINE c == [conn[p] EXCEPT !.at = "open", !.tx = TRUE]
<1>1. /\ conn[p].at \in {"open", "append"} /\ (HeldIdle(p) \/ conn[p].stale)
      /\ conn' = [conn EXCEPT ![p] = c]
      /\ UNCHANGED <<disk, writeLock, acked, winners, crowded, clashed>>
  BY DEF LockedOut
<1>2. /\ StorageTypes /\ c \in Connection /\ c.at = "open" /\ c.tx /\ c.seen = conn[p].seen
      /\ c.stale = conn[p].stale /\ c.release = conn[p].release
  BY ConnFields DEF Connection
<1> HIDE DEF c
<1>3. Sane(c, disk)
  BY <1>1, <1>2, ConnFields DEF Sane
<1>4. clashed
  <2>1. CASE conn[p].stale
    BY <1>1, <2>1, ConnFields DEF Sane, StorageInv, Quiet
  <2>2. CASE HeldIdle(p)
    <3>1. writeLock \in Openers /\ conn[writeLock].at = "open"
      BY <1>2, <2>2 DEF HeldIdle, Free, StorageTypes
    <3>2. conn[writeLock].tx
      BY <3>1 DEF StorageInv, LockHeld
    <3>3. QED BY <3>1, <3>2 DEF StorageInv, Quiet
  <2>3. QED BY <1>1, <2>1, <2>2
<1>5. writeLock' = p => c.tx /\ ~c.stale
  BY <1>1, <1>2, ConnFields
<1>6. QED BY <1>1, <1>2, <1>3, <1>4, <1>5, StepInside DEF StorageTypes

LEMMA ReadRowsStep ==
  ASSUME StorageInv, NEW p \in Openers, ReadRows(p)
  PROVE  StorageInv'
<1> DEFINE c == [conn[p] EXCEPT !.seen = View(p)]
<1>1. /\ conn[p].at = "open" /\ conn[p].tx /\ conn' = [conn EXCEPT ![p] = c]
      /\ UNCHANGED <<disk, writeLock, acked, winners, crowded, clashed>>
  BY DEF ReadRows
<1>2. /\ StorageTypes /\ c \in Connection /\ c.at = "open" /\ c.tx /\ c.seen = View(p)
      /\ c.stale = conn[p].stale /\ c.release = conn[p].release
  BY <1>1, ConnFields, ViewIsBehind DEF Connection
<1> HIDE DEF c
<1>3. Sane(c, disk)
  BY <1>1, <1>2, ConnFields, ViewIsBehind DEF Sane
<1>4. clashed
  BY <1>1 DEF StorageInv, Quiet
<1>5. writeLock' = p => c.tx /\ ~c.stale
  BY <1>1, <1>2, ConnFields
<1>6. QED BY <1>1, <1>2, <1>3, <1>4, <1>5, StepInside DEF StorageTypes

\* One statement and its commit: the schema stays what it is.
LEMMA Writes ==
  ASSUME StorageInv, NEW p \in Openers, conn[p].at \in {"open", "append"}, Free(p),
         writeLock' = NoOpener, conn' = Committed(p, Done(p, "open")),
         disk' \in Disk, Grown(disk, disk'), disk'.version = disk.version,
         disk'.tables = disk.tables, disk'.indexes = disk.indexes, UNCHANGED <<crowded, clashed>>,
         acked' \in [Openers -> Nat], winners' \in [Claimable -> SUBSET Openers],
         OneWinner', EventsAreWhole'
  PROVE  StorageInv'
<1>1. disk \in Disk /\ writeLock' # p
  BY StorageAssumption DEF StorageInv, StorageTypes
<1>2. Has(conn[p].release, disk')
  BY <1>1, ConnFields, HasPersists DEF Sane
<1>3. Sane(Done(p, "open"), disk')
  BY <1>2, DoneFields DEF Sane
<1>4. disk'.version > 0 => Has(disk'.version, disk')
  BY <1>1, HasPersists DEF StorageInv
<1>5. ~crowded => /\ disk'.indexes = 2 .. disk'.version
                  /\ Done(p, "open").at \notin {"migrate", "stamp"}
  BY DoneFields DEF StorageInv, InTurn
<1>6. QED BY <1>1, <1>3, <1>4, <1>5, DoneFields, StepCommits

LEMMA AppendEventStep ==
  ASSUME StorageInv, NEW p \in Openers, AppendEvent(p)
  PROVE  StorageInv'
<1> DEFINE event == <<p, acked[p] + 1>>
<1>1. /\ conn[p].at = "append" /\ Free(p)
      /\ disk' = [disk EXCEPT !.events = Append(@, event)]
      /\ acked' = [acked EXCEPT ![p] = @ + 1]
      /\ writeLock' = NoOpener /\ conn' = Committed(p, Done(p, "open"))
      /\ UNCHANGED <<opens, winners, crowded, clashed>>
  BY DEF AppendEvent
<1>2. /\ disk \in Disk /\ disk.events \in Events /\ acked \in [Openers -> Nat]
      /\ winners \in [Claimable -> SUBSET Openers] /\ acked' \in [Openers -> Nat]
      /\ disk.tables <= Tables
  BY <1>1 DEF StorageInv, StorageTypes, Disk
<1>3. event \in Openers \X (Nat \ {0}) /\ event[1] = p /\ event[2] = acked[p] + 1
  BY <1>2
<1> HIDE DEF event
<1>4. /\ Append(disk.events, event) \in Events
      /\ Len(Append(disk.events, event)) = Len(disk.events) + 1
      /\ \A i \in 1 .. Len(disk.events) : Append(disk.events, event)[i] = disk.events[i]
      /\ Append(disk.events, event)[Len(disk.events) + 1] = event
  BY <1>2, <1>3 DEF Events
<1>5. /\ disk' \in Disk /\ disk'.version = disk.version /\ disk'.tables = disk.tables
      /\ disk'.indexes = disk.indexes /\ disk'.claims = disk.claims
      /\ disk'.events = Append(disk.events, event)
  BY <1>1, <1>2, <1>4 DEF Disk
<1>6. Grown(disk, disk')
  <2>1. Begins(disk.events, disk'.events)
    BY <1>2, <1>4, <1>5 DEF Begins, Events
  <2>2. disk.tables <= disk'.tables
    BY <1>2, <1>5 DEF Disk
  <2>3. QED BY <1>2, <1>5, <2>1, <2>2 DEF Grown
<1>7. EventsAreWhole'
  <2> DEFINE n == Len(disk.events)
             of(q) == {i \in DOMAIN disk.events : disk.events[i][1] = q}
             then(q) == {i \in DOMAIN disk'.events : disk'.events[i][1] = q}
  <2>1. /\ n \in Nat /\ DOMAIN disk.events = 1 .. n /\ DOMAIN disk'.events = 1 .. n + 1
        /\ \A i \in 1 .. n : disk'.events[i] = disk.events[i]
        /\ disk'.events[n + 1] = event
    BY <1>2, <1>4, <1>5 DEF Events
  <2>2. \A q \in Openers : /\ {disk.events[i][2] : i \in of(q)} = 1 .. acked[q]
                           /\ \A i, j \in of(q) : i < j => disk.events[i][2] < disk.events[j][2]
    BY DEF StorageInv, EventsAreWhole
  <2>3. ASSUME NEW q \in Openers
        PROVE  /\ {disk'.events[i][2] : i \in then(q)} = 1 .. acked'[q]
               /\ \A i, j \in then(q) : i < j => disk'.events[i][2] < disk'.events[j][2]
    <3> HIDE DEF n
    <3>1. CASE q # p
      <4>1. then(q) = of(q) /\ acked'[q] = acked[q]
        BY <1>1, <1>2, <1>3, <2>1, <3>1
      <4>2. \A i \in of(q) : disk'.events[i] = disk.events[i]
        BY <2>1
      <4>3. {disk'.events[i][2] : i \in then(q)} = {disk.events[i][2] : i \in of(q)}
        BY <4>1, <4>2
      <4>4. QED BY <2>2, <4>1, <4>2, <4>3
    <3>2. CASE q = p
      <4>1. then(q) = of(q) \cup {n + 1} /\ acked'[q] = acked[q] + 1 /\ acked[q] \in Nat
        BY <1>1, <1>2, <1>3, <2>1, <3>2
      <4>2. \A i \in of(q) : disk'.events[i] = disk.events[i] /\ i \in 1 .. n
        BY <2>1
      <4>3. disk'.events[n + 1][2] = acked[q] + 1
        BY <1>3, <2>1, <3>2
      <4>4. {disk'.events[i][2] : i \in then(q)} =
                {disk.events[i][2] : i \in of(q)} \cup {acked[q] + 1}
        BY <4>1, <4>2, <4>3
      <4>5. {disk'.events[i][2] : i \in then(q)} = 1 .. acked'[q]
        <5>1. {disk.events[i][2] : i \in of(q)} = 1 .. acked[q]
          BY <2>2
        <5>2. 1 .. acked[q] \cup {acked[q] + 1} = 1 .. acked[q] + 1
          BY <4>1
        <5>3. QED BY <4>1, <4>4, <5>1, <5>2
      <4>6. ASSUME NEW i \in then(q), NEW j \in then(q), i < j
            PROVE  disk'.events[i][2] < disk'.events[j][2]
        <5>1. i \in of(q)
          BY <2>1, <4>1, <4>2, <4>6
        <5>2. CASE j \in of(q)
          BY <2>2, <4>2, <4>6, <5>1, <5>2
        <5>3. CASE j = n + 1
          <6>1. disk.events[i][2] \in 1 .. acked[q]
            BY <2>2, <5>1
          <6>2. QED BY <4>1, <4>2, <4>3, <5>1, <5>3, <6>1
        <5>4. QED BY <4>1, <5>2, <5>3
      <4>7. QED BY <4>5, <4>6
    <3>3. QED BY <3>1, <3>2
  <2>4. QED BY <2>3 DEF EventsAreWhole
<1>8. OneWinner'
  BY <1>1, <1>5 DEF StorageInv, OneWinner
<1>9. QED BY <1>1, <1>2, <1>5, <1>6, <1>7, <1>8, Writes

LEMMA PutRowStep ==
  ASSUME StorageInv, NEW p \in Openers, PutRow(p)
  PROVE  StorageInv'
<1>1. /\ conn[p].at = "open" /\ Free(p) /\ disk' = [disk EXCEPT !.row = p]
      /\ writeLock' = NoOpener /\ conn' = Committed(p, Done(p, "open"))
      /\ UNCHANGED <<acked, winners, crowded, clashed>>
  BY DEF PutRow
<1>2. StorageTypes
  BY DEF StorageInv
<1>3. /\ disk' \in Disk /\ disk'.version = disk.version /\ disk'.tables = disk.tables
      /\ disk'.indexes = disk.indexes /\ disk'.claims = disk.claims
      /\ disk'.events = disk.events
  BY <1>1, <1>2 DEF StorageTypes, Disk
<1>4. Grown(disk, disk')
  BY <1>2, <1>3, GrownIsReflexive DEF Grown
<1>5. OneWinner' /\ EventsAreWhole'
  BY <1>1, <1>3 DEF StorageInv, OneWinner, EventsAreWhole
<1>6. QED BY <1>1, <1>2, <1>3, <1>4, <1>5, Writes DEF StorageTypes

LEMMA ClaimStep ==
  ASSUME StorageInv, NEW p \in Openers, NEW k \in Claimable, Claim(p, k)
  PROVE  StorageInv'
<1>1. /\ conn[p].at = "open" /\ Free(p) /\ writeLock' = NoOpener
      /\ UNCHANGED <<acked, crowded, clashed>>
  BY DEF Claim
<1>2. StorageTypes
  BY DEF StorageInv
<1>3. CASE k \in disk.claims
  <2>1. conn' = [conn EXCEPT ![p] = Done(p, "open")] /\ UNCHANGED <<disk, winners>>
    BY <1>3 DEF Claim
  <2>2. Sane(Done(p, "open"), disk)
    BY <1>1, ConnFields, DoneFields DEF Sane
  <2>3. p # NoOpener
    BY StorageAssumption
  <2>4. QED BY <1>1, <1>2, <2>1, <2>2, <2>3, DoneFields, StepInside DEF StorageTypes
<1>4. CASE k \notin disk.claims
  <2>1. /\ disk' = [disk EXCEPT !.claims = @ \cup {k}]
        /\ winners' = [winners EXCEPT ![k] = @ \cup {p}]
        /\ conn' = Committed(p, Done(p, "open"))
    BY <1>4 DEF Claim
  <2>2. /\ disk' \in Disk /\ disk'.version = disk.version /\ disk'.tables = disk.tables
        /\ disk'.indexes = disk.indexes /\ disk'.claims = disk.claims \cup {k}
        /\ disk'.events = disk.events
    BY <1>2, <2>1 DEF StorageTypes, Disk
  <2>3. Grown(disk, disk')
    BY <1>2, <2>2, GrownIsReflexive DEF Grown
  <2>4. winners' \in [Claimable -> SUBSET Openers]
    BY <1>2, <2>1 DEF StorageTypes
  <2>5. \A l \in Claimable : winners'[l] = (IF l = k THEN winners[k] \cup {p} ELSE winners[l])
    BY <1>2, <2>1 DEF StorageTypes
  <2>6. winners[k] = {}
    BY <1>4 DEF StorageInv, OneWinner
  <2>7. OneWinner'
    BY <2>2, <2>5, <2>6 DEF StorageInv, OneWinner
  <2>8. EventsAreWhole'
    BY <1>1, <2>2 DEF StorageInv, EventsAreWhole
  <2>9. QED
    BY <1>1, <1>2, <2>1, <2>2, <2>3, <2>4, <2>7, <2>8, Writes DEF StorageTypes
<1>5. QED BY <1>3, <1>4
----------------------------------------------------------------------------

LEMMA StorageInvInit == StorageInit => StorageInv
<1> SUFFICES ASSUME StorageInit PROVE StorageInv
  OBVIOUS
<1> USE DEF StorageInit
<1>1. <<>> \in Events /\ Len(<<>>) = 0
  BY DEF Events
<1>2. StorageTypes
  <2>1. disk \in Disk /\ disk.tables <= Tables
    BY <1>1, StorageAssumption DEF Disk
  <2>2. Closed \in Connection
    BY DEF Closed, Connection
  <2>3. QED BY <2>1, <2>2 DEF StorageTypes
<1>3. \A p \in Openers : Sane(conn[p], disk)
  BY DEF Closed, Sane
<1>4. LockHeld /\ Quiet
  BY StorageAssumption DEF LockHeld, Quiet, Closed
<1>5. InTurn
  BY DEF InTurn, Migrating, Closed
<1>6. OneWinner
  BY DEF OneWinner
<1>7. EventsAreWhole
  <2>1. DOMAIN disk.events = {} /\ \A p \in Openers : acked[p] = 0
    OBVIOUS
  <2>2. QED BY <2>1 DEF EventsAreWhole
<1>8. ~(disk.version > 0)
  <2>1. disk.version = 0
    OBVIOUS
  <2>2. QED BY <2>1, SMT
<1>9. disk.version > 0 => Has(disk.version, disk)
  BY <1>8
<1> HIDE DEF StorageInit
<1>10. QED BY <1>2, <1>3, <1>4, <1>5, <1>6, <1>7, <1>9 DEF StorageInv

LEMMA StorageInvStep == StorageInv /\ [StorageNext]_storageVars => StorageInv'
<1> SUFFICES ASSUME StorageInv, [StorageNext]_storageVars PROVE StorageInv'
  OBVIOUS
<1>1. CASE UNCHANGED storageVars
  BY <1>1 DEF storageVars, StorageInv, StorageTypes, LockHeld, Quiet, InTurn, Migrating,
              OneWinner, EventsAreWhole
<1>2. QED
  BY <1>1, OpenStep, CreateTableStep, StampBaselineStep, CreateIndexStep, StampAndCommitStep,
     OpenFailsStep, ReadSeqStep, CollidesStep, AppendEventStep, PutRowStep, ClaimStep,
     LockedOutStep, ReadRowsStep, CloseStoreStep DEF StorageNext

LEMMA BeginsIsPrefix ==
  ASSUME NEW s \in Events, NEW t \in Events, Begins(s, t)
  PROVE  IsPrefix(s, t)
<1>1. Len(s) \in Nat /\ Len(t) \in Nat /\ Len(s) <= Len(t)
  BY DEF Begins, Events
<1>2. SubSeq(s, 1, Len(s)) = SubSeq(t, 1, Len(s))
  BY <1>1 DEF Begins, Events
<1>3. QED BY <1>1, <1>2 DEF IsPrefix

LEMMA StorageInvSuffices == StorageInv => StorageIsSound
<1> SUFFICES ASSUME StorageInv PROVE StorageIsSound
  OBVIOUS
<1>1. SchemaIsThere
  BY DEF StorageInv, Sane, InTurn, Has, SchemaIsThere
<1>2. EventsAreWhole
  BY DEF StorageInv
<1>3. OperationsAreAtomic
  <2>1. \A k \in Claimable : Cardinality(winners[k]) <= 1
    <3> SUFFICES ASSUME NEW k \in Claimable PROVE Cardinality(winners[k]) <= 1
      OBVIOUS
    <3>1. CASE winners[k] = {}
      BY <3>1, FS_EmptySet
    <3>2. CASE \E p \in Openers : winners[k] = {p}
      BY <3>2, FS_Singleton
    <3>3. QED BY <3>1, <3>2 DEF StorageInv, OneWinner
  <2>2. ~clashed => \A p \in Openers : conn[p].at = "open" => ~conn[p].tx /\ writeLock # p
    BY DEF StorageInv, Quiet, LockHeld
  <2>3. QED BY <2>1, <2>2 DEF OperationsAreAtomic
<1>4. StaleIsBehind
  <2> SUFFICES ASSUME NEW p \in Openers
               PROVE  /\ conn[p].stale => conn[p].tx /\ writeLock # p
                      /\ IsPrefix(View(p).events, disk.events)
                      /\ View(p).claims \subseteq disk.claims
    BY DEF StaleIsBehind
  <2>1. View(p).events \in Events /\ disk.events \in Events
    BY ViewIsBehind DEF StorageInv, StorageTypes, Disk
  <2>2. IsPrefix(View(p).events, disk.events)
    BY <2>1, ViewIsBehind, BeginsIsPrefix
  <2>3. QED BY <2>2, ConnFields, ViewIsBehind DEF Sane
<1>5. QED BY <1>1, <1>2, <1>3, <1>4 DEF StorageIsSound

\* Of any number of processes and builds: the schema has what its version says, appends lose
\* nothing, a key is won once, an operation is one step until two appends have met, and what a
\* process reads is a prefix of what there is.
THEOREM StorageStaysSound == StorageSpec => []StorageIsSound
<1>1. QED BY StorageInvInit, StorageInvStep, StorageInvSuffices, PTL DEF StorageSpec
----------------------------------------------------------------------------
(* Supervisor: the inductive invariant                                      *)

\* Where a process has begun a cycle and not yet reported it, and where it has not read the
\* ledger to its end.
InCycle == {"info", "cycle"} \cup Outcome
Before == {"unborn", "boot", "reconcile"}
Processes == Before \cup InCycle \cup {"idle", "gone"}

\* Beside the types: an entry that is to be written back is one.
OperatorTypes ==
    /\ entry \in [Names -> Entry] /\ op \in [Ops -> Command] /\ raced \subseteq Names
    /\ \A o \in Ops : op[o].at \in {"get", "put"} => entry[op[o].name] # NoEntry
    /\ \A o \in Ops : op[o].at = "put" => op[o].copy # NoEntry
    /\ \A o \in Ops : op[o].at = "register" => op[o].pid \in Pids

\* What has a number was given it, and who is in a cycle has begun one.
ProcessTypes ==
    /\ pc \in [Pids -> Processes] /\ serves \in [Pids -> Names]
    /\ stale \in [Pids -> SUBSET Runs] /\ spawned \in 0 .. MaxPid
    /\ \A p \in Pids : p > spawned => pc[p] = "unborn"
LedgerTypes ==
    /\ begun \in 0 .. MaxRun /\ by \in [Runs -> 0 .. MaxPid] /\ shared \in BOOLEAN
    /\ row \in [Runs -> {"none", "running", "done", "failed", "needs_retry"}]
    /\ info \in [Runs -> {"none", "running", "done", "failed"}]
    /\ \A r \in Runs : r > begun => by[r] = 0 /\ row[r] = "none" /\ info[r] = "none"
    /\ \A p \in Pids : \A r \in stale[p] : r <= begun
    /\ \A r \in Runs : by[r] \in Pids => pc[by[r]] \notin Before
    /\ \A p \in Pids : pc[p] \in InCycle => \E r \in Runs : by[r] = p
RecordTypes == OperatorTypes /\ ProcessTypes /\ LedgerTypes

\* A name whose commands did not overlap: one command at most is on it, and until that ends
\* it knows what is alive.
Serving(n) == {p \in Live : serves[p] = n}
InCommand(o, n) == op[o].at # "idle" /\ op[o].name = n
NameIsKept(n) ==
    /\ \A o, q \in Ops : InCommand(o, n) /\ InCommand(q, n) => o = q
    /\ ~Busy(n) => \A p \in Serving(n) : entry[n] = [pid |-> p, status |-> "running"]
    /\ \A o \in Ops : InCommand(o, n) =>
          IF op[o].at = "register" THEN Serving(n) \subseteq {op[o].pid} ELSE Serving(n) = {}

\* As long as a supervisor booted alone: one at most has booted, RUNNING rows are its own once
\* it has reconciled, and its runs but for the last, while it is at it, are reported.
Booted == {p \in Live : pc[p] # "boot"}
Reported(p) ==
    \A r \in Runs : by[r] = p =>
        IF pc[p] \in InCycle /\ \A s \in Runs : by[s] = p => s <= r
        THEN pc[p] \in Outcome => row[r] = pc[p]
        ELSE row[r] = info[r]
LedgerIsKept ==
    /\ \A p, q \in Booted : p = q
    /\ \A p \in Booted : /\ \A r \in Runs : row[r] = "running" =>
                               IF pc[p] = "reconcile" THEN r \in stale[p] ELSE by[r] = p
                         /\ pc[p] # "reconcile" => Reported(p)

RecordsInv ==
    /\ RecordTypes
    /\ \A n \in Names : n \notin raced => NameIsKept(n)
    /\ ~shared => LedgerIsKept
----------------------------------------------------------------------------
(* Supervisor: the operator's commands                                     *)

LEMMA IdleFields ==
  /\ Idle = [at |-> "idle", name |-> Idle.name, pid |-> 0, status |-> "running",
             copy |-> NoEntry, again |-> FALSE]
  /\ Idle.name \in Names /\ Idle \in Command
<1>1. (CHOOSE n \in Names : TRUE) \in Names
  BY SupervisorAssumption
<1>2. QED BY <1>1, SupervisorAssumption DEF Idle, Command, Entry, Status

LEMMA Entries ==
  /\ \A p \in Pids, s \in Status : [pid |-> p, status |-> s] \in Entry \ {NoEntry}
  /\ \A e \in Entry \ {NoEntry}, s \in Status : [e EXCEPT !.status = s] \in Entry \ {NoEntry}
  /\ \A e \in Entry \ {NoEntry} : e.pid \in Pids
  /\ \A e \in Entry : e.status = "running" => e # NoEntry
  /\ NoEntry \in Entry
BY SupervisorAssumption DEF Entry, NoEntry, Status, Pids

\* A command moves its own place, what it goes on with is there, and no entry is taken back.
Commanded(o, c) ==
    /\ op' = [op EXCEPT ![o] = c]
    /\ c \in Command
    /\ entry' \in [Names -> Entry] /\ \A n \in Names : entry[n] # NoEntry => entry'[n] # NoEntry
    /\ c.at \in {"get", "put"} => entry[c.name] # NoEntry
    /\ c.at = "put" => c.copy # NoEntry
    /\ c.at = "register" => c.pid \in Pids
    /\ raced' \subseteq Names

LEMMA CommandedTypes ==
  ASSUME OperatorTypes, NEW o \in Ops, NEW c, Commanded(o, c)
  PROVE  OperatorTypes'
<1>1. \A q \in Ops : op'[q] = IF q = o THEN c ELSE op[q]
  BY DEF OperatorTypes, Commanded
<1>2. op' \in [Ops -> Command]
  BY DEF OperatorTypes, Commanded
<1>3. \A q \in Ops : op[q].name \in Names /\ c.name \in Names
  BY DEF OperatorTypes, Commanded, Command
<1>4. \A q \in Ops : op'[q].at \in {"get", "put"} => entry'[op'[q].name] # NoEntry
  BY <1>1, <1>3 DEF OperatorTypes, Commanded
<1>5. QED BY <1>1, <1>2, <1>4 DEF OperatorTypes, Commanded

LEMMA DeployCommands ==
  ASSUME OperatorTypes, NEW o \in Ops, NEW n \in Names, Deploy(o, n)
  PROVE  Commanded(o, [Idle EXCEPT !.at = "spawn", !.name = n])
<1>1. [Idle EXCEPT !.at = "spawn", !.name = n] \in Command
  BY IdleFields DEF Command
<1>2. [Idle EXCEPT !.at = "spawn", !.name = n].at = "spawn"
  BY IdleFields
<1>3. raced' \subseteq Names
  BY DEF Deploy, Race, OperatorTypes
<1>4. QED BY <1>1, <1>2, <1>3 DEF Deploy, Begin, Commanded, OperatorTypes

LEMMA StopCommands ==
  ASSUME OperatorTypes, NEW o \in Ops, NEW n \in Names, NEW again \in BOOLEAN, Stop(o, n, again)
  PROVE  Commanded(o, [Idle EXCEPT !.at = "get", !.name = n, !.status = "stopped", !.again = again])
<1> DEFINE c == [Idle EXCEPT !.at = "get", !.name = n, !.status = "stopped", !.again = again]
<1>1. c \in Command /\ c.at = "get" /\ c.name = n
  BY IdleFields DEF Command, Status
<1>2. raced' \subseteq Names
  BY DEF Stop, Race, OperatorTypes
<1>3. op' = [op EXCEPT ![o] = c]
  BY DEF Stop, Begin
<1> HIDE DEF c
<1>4. Commanded(o, c)
  BY <1>1, <1>2, <1>3 DEF Stop, Commanded, OperatorTypes
<1>5. QED BY <1>4 DEF c

LEMMA ListCommands ==
  ASSUME OperatorTypes, NEW o \in Ops, NEW n \in Names, List(o, n)
  PROVE  Commanded(o, [Idle EXCEPT !.at = "get", !.name = n, !.status = "dead"])
<1> DEFINE c == [Idle EXCEPT !.at = "get", !.name = n, !.status = "dead"]
<1>1. c \in Command /\ c.at = "get" /\ c.name = n
  BY IdleFields DEF Command, Status
<1>2. raced' \subseteq Names
  BY DEF List, Race, OperatorTypes
<1>3. op' = [op EXCEPT ![o] = c]
  BY DEF List, Begin
<1>4. entry[n] # NoEntry
  BY Entries DEF List, OperatorTypes
<1> HIDE DEF c
<1>5. Commanded(o, c)
  BY <1>1, <1>2, <1>3, <1>4 DEF List, Commanded, OperatorTypes
<1>6. QED BY <1>5 DEF c

LEMMA SpawnCommands ==
  ASSUME OperatorTypes, ProcessTypes, NEW o \in Ops, Spawn(o)
  PROVE  /\ Commanded(o, [op[o] EXCEPT !.at = "register", !.pid = spawned'])
         /\ spawned' \in Pids
<1> DEFINE c == [op[o] EXCEPT !.at = "register", !.pid = spawned']
<1>1. spawned' \in Pids /\ spawned' \in 0 .. MaxPid
  BY SupervisorAssumption DEF Spawn, ProcessTypes, Pids
<1>2. c \in Command /\ c.at = "register" /\ c.pid = spawned'
  BY <1>1 DEF OperatorTypes, Command
<1>3. op' = [op EXCEPT ![o] = c]
  BY DEF Spawn, OperatorTypes
<1> HIDE DEF c
<1>4. Commanded(o, c)
  BY <1>1, <1>2, <1>3 DEF Spawn, Commanded, OperatorTypes
<1>5. QED BY <1>1, <1>4 DEF c

LEMMA RegisterCommands ==
  ASSUME OperatorTypes, NEW o \in Ops, Register(o)
  PROVE  /\ Commanded(o, Idle)
         /\ \A n \in Names : entry'[n] = IF n = op[o].name
                THEN [pid |-> op[o].pid, status |-> "running"] ELSE entry[n]
<1>1. op[o].name \in Names /\ op[o].pid \in Pids
  BY DEF OperatorTypes, Command, Register
<1>2. [pid |-> op[o].pid, status |-> "running"] \in Entry \ {NoEntry}
  BY <1>1, Entries DEF Status
<1>3. \A n \in Names : entry'[n] = IF n = op[o].name
                THEN [pid |-> op[o].pid, status |-> "running"] ELSE entry[n]
  BY DEF Register, OperatorTypes
<1>4. entry' \in [Names -> Entry]
  BY <1>2 DEF Register, OperatorTypes
<1>5. Idle \in Command /\ Idle.at = "idle"
  BY IdleFields
<1>6. QED BY <1>2, <1>3, <1>4, <1>5 DEF Register, Commanded, OperatorTypes

LEMMA GetEntryCommands ==
  ASSUME OperatorTypes, NEW o \in Ops, GetEntry(o)
  PROVE  Commanded(o, [op[o] EXCEPT !.at = "put", !.copy = entry[op[o].name]])
<1> DEFINE c == [op[o] EXCEPT !.at = "put", !.copy = entry[op[o].name]]
<1>1. op[o].name \in Names /\ entry[op[o].name] \in Entry \ {NoEntry}
  BY DEF OperatorTypes, Command, GetEntry
<1>2. c \in Command /\ c.at = "put" /\ c.name = op[o].name /\ c.copy = entry[op[o].name]
  BY <1>1 DEF OperatorTypes, Command
<1>3. op' = [op EXCEPT ![o] = c]
  BY DEF GetEntry, OperatorTypes
<1> HIDE DEF c
<1>4. Commanded(o, c)
  BY <1>1, <1>2, <1>3 DEF GetEntry, Commanded, OperatorTypes
<1>5. QED BY <1>4 DEF c

PutBack(o) == IF op[o].again THEN [Idle EXCEPT !.at = "spawn", !.name = op[o].name] ELSE Idle
LEMMA PutEntryCommands ==
  ASSUME OperatorTypes, NEW o \in Ops, PutEntry(o)
  PROVE  /\ Commanded(o, PutBack(o))
         /\ PutBack(o).at = "idle" \/ (PutBack(o).at = "spawn" /\ PutBack(o).name = op[o].name)
         /\ \A n \in Names : n # op[o].name => entry'[n] = entry[n]
<1>1. op[o].name \in Names /\ op[o].copy \in Entry \ {NoEntry} /\ op[o].status \in Status
  BY DEF OperatorTypes, Command, PutEntry
<1>2. [op[o].copy EXCEPT !.status = op[o].status] \in Entry \ {NoEntry}
  BY <1>1, Entries
<1>3. \A n \in Names : entry'[n] = IF n = op[o].name
                THEN [op[o].copy EXCEPT !.status = op[o].status] ELSE entry[n]
  BY DEF PutEntry, OperatorTypes
<1>4. entry' \in [Names -> Entry]
  BY <1>2 DEF PutEntry, OperatorTypes
<1>5. PutBack(o) \in Command /\ (PutBack(o).at = "idle" \/ (PutBack(o).at = "spawn" /\ PutBack(o).name = op[o].name))
  <2>1. [Idle EXCEPT !.at = "spawn", !.name = op[o].name] \in Command
    BY <1>1, IdleFields DEF Command
  <2>2. [Idle EXCEPT !.at = "spawn", !.name = op[o].name].at = "spawn"
    BY IdleFields
  <2>3. [Idle EXCEPT !.at = "spawn", !.name = op[o].name].name = op[o].name
    BY IdleFields
  <2>4. CASE op[o].again
    BY <2>1, <2>2, <2>3, <2>4 DEF PutBack
  <2>5. CASE ~op[o].again
    BY <2>5, IdleFields DEF PutBack
  <2>6. QED BY <2>4, <2>5
<1>6. op' = [op EXCEPT ![o] = PutBack(o)]
  BY DEF PutEntry, PutBack
<1>7. QED BY <1>2, <1>3, <1>4, <1>5, <1>6 DEF PutEntry, Commanded, OperatorTypes

LEMMA RecordTypesInit == Init => RecordTypes
<1> SUFFICES ASSUME Init PROVE RecordTypes
  OBVIOUS
<1>1. OperatorTypes
  BY IdleFields, Entries DEF Init, OperatorTypes
<1>2. (CHOOSE n \in Names : TRUE) \in Names
  BY SupervisorAssumption
<1>3. ProcessTypes
  BY <1>2, SupervisorAssumption DEF Init, ProcessTypes, Processes, Before
<1>4. LedgerTypes
  <2>1. by = [r \in Runs |-> 0] /\ row = [r \in Runs |-> "none"] /\ info = [r \in Runs |-> "none"]
    BY DEF Init
  <2>2. by \in [Runs -> 0 .. MaxPid] /\ \A r \in Runs : by[r] = 0 /\ by[r] \notin Pids
    BY <2>1, SupervisorAssumption DEF Pids
  <2>3. \A p \in Pids : pc[p] \notin InCycle
    BY DEF Init, InCycle, Outcome
  <2>4. begun \in 0 .. MaxRun
    BY SupervisorAssumption DEF Init
  <2>6. shared \in BOOLEAN
    BY DEF Init
  <2>5. /\ row \in [Runs -> {"none", "running", "done", "failed", "needs_retry"}]
        /\ info \in [Runs -> {"none", "running", "done", "failed"}]
        /\ \A r \in Runs : row[r] = "none" /\ info[r] = "none"
    BY <2>1
  <2>7. \A p \in Pids : stale[p] = {}
    BY DEF Init
  <2>8. QED BY <2>2, <2>3, <2>4, <2>5, <2>6, <2>7 DEF LedgerTypes
<1>5. QED BY <1>1, <1>3, <1>4 DEF RecordTypes
----------------------------------------------------------------------------
(* Supervisor: the processes                                               *)

\* What ends a process leaves the rest as it is.
LEMMA EndsProcess ==
  ASSUME ProcessTypes, LedgerTypes, NEW p, UNCHANGED <<serves, stale, spawned, ledger, shared>>,
         pc' = [pc EXCEPT ![p] = IF Alive(p) THEN "gone" ELSE @]
  PROVE  /\ ProcessTypes' /\ LedgerTypes'
         /\ \A q \in Pids : pc'[q] = IF q = p /\ p \in Live THEN "gone" ELSE pc[q]
         /\ Live' = Live \ {p}
<1>1. \A q \in Pids : pc'[q] = IF q = p /\ p \in Live THEN "gone" ELSE pc[q]
  BY DEF ProcessTypes, Alive, Live
<1>2. pc' \in [Pids -> Processes]
  BY <1>1 DEF ProcessTypes, Processes
<1>3. ProcessTypes'
  BY <1>1, <1>2 DEF ProcessTypes, Live
<1>4. \A r \in Runs : by[r] \in Pids => pc'[by[r]] \notin Before
  BY <1>1 DEF LedgerTypes, Before, Live
<1>5. \A q \in Pids : pc'[q] \in InCycle => \E r \in Runs : by[r] = q
  BY <1>1 DEF LedgerTypes, InCycle, Outcome
<1>6. LedgerTypes'
  BY <1>4, <1>5 DEF LedgerTypes, ledger
<1>7. Live' = Live \ {p}
  BY <1>1 DEF Live
<1>8. QED BY <1>1, <1>3, <1>6, <1>7

LEMMA SpawnProcess ==
  ASSUME RecordTypes, NEW o \in Ops, Spawn(o)
  PROVE  /\ ProcessTypes' /\ LedgerTypes'
         /\ pc[spawned'] = "unborn" /\ spawned' \in Pids
         /\ \A q \in Pids : pc'[q] = IF q = spawned' THEN "boot" ELSE pc[q]
         /\ \A q \in Pids : serves'[q] = IF q = spawned' THEN op[o].name ELSE serves[q]
         /\ \A r \in Runs : by[r] # spawned'
<1> USE DEF RecordTypes
<1>1. spawned' \in Pids /\ spawned' \in 0 .. MaxPid /\ pc[spawned'] = "unborn"
  BY SupervisorAssumption DEF Spawn, ProcessTypes, Pids
<1>2. \A q \in Pids : pc'[q] = IF q = spawned' THEN "boot" ELSE pc[q]
  BY DEF Spawn, ProcessTypes
<1>3. \A q \in Pids : serves'[q] = IF q = spawned' THEN op[o].name ELSE serves[q]
  BY DEF Spawn, ProcessTypes
<1>4. op[o].name \in Names
  BY DEF OperatorTypes, Command
<1>5. pc' \in [Pids -> Processes] /\ serves' \in [Pids -> Names]
  BY <1>4 DEF Spawn, ProcessTypes, Processes, Before
<1>6. \A q \in Pids : q > spawned' => pc'[q] = "unborn"
  BY <1>2, SupervisorAssumption DEF Spawn, ProcessTypes, Pids
<1>7. ProcessTypes'
  BY <1>1, <1>5, <1>6 DEF Spawn, ProcessTypes
<1>8. \A r \in Runs : by[r] # spawned'
  BY <1>1 DEF LedgerTypes, Before
<1>9. \A r \in Runs : by[r] \in Pids => pc'[by[r]] \notin Before
  BY <1>2, <1>8 DEF LedgerTypes
<1>10. \A q \in Pids : pc'[q] \in InCycle => \E r \in Runs : by[r] = q
  BY <1>2 DEF LedgerTypes, InCycle, Outcome
<1>11. LedgerTypes'
  BY <1>9, <1>10 DEF Spawn, LedgerTypes, ledger
<1>12. QED BY <1>1, <1>2, <1>3, <1>7, <1>8, <1>11

LEMMA OperatorTypesStep ==
  ASSUME RecordTypes, NEW o \in Ops, Operate(o) \/ Proceed(o)
  PROVE  RecordTypes'
<1>1. OperatorTypes /\ ProcessTypes /\ LedgerTypes
  BY DEF RecordTypes
<1>2. ASSUME NEW n \in Names, Deploy(o, n) PROVE RecordTypes'
  <2>1. OperatorTypes'
    BY <1>1, <1>2, DeployCommands, CommandedTypes
  <2>2. ProcessTypes' /\ LedgerTypes'
    BY <1>1, <1>2 DEF Deploy, ProcessTypes, LedgerTypes, process, ledger
  <2>3. QED BY <2>1, <2>2 DEF RecordTypes
<1>3. ASSUME NEW n \in Names, NEW again \in BOOLEAN, Stop(o, n, again) PROVE RecordTypes'
  <2>1. OperatorTypes'
    BY <1>1, <1>3, StopCommands, CommandedTypes
  <2>2. ProcessTypes' /\ LedgerTypes'
    BY <1>1, <1>3, EndsProcess DEF Stop, Signal
  <2>3. QED BY <2>1, <2>2 DEF RecordTypes
<1>4. ASSUME NEW n \in Names, List(o, n) PROVE RecordTypes'
  <2>1. OperatorTypes'
    BY <1>1, <1>4, ListCommands, CommandedTypes
  <2>2. ProcessTypes' /\ LedgerTypes'
    BY <1>1, <1>4 DEF List, ProcessTypes, LedgerTypes, process, ledger
  <2>3. QED BY <2>1, <2>2 DEF RecordTypes
<1>5. CASE Spawn(o)
  <2>1. OperatorTypes'
    BY <1>1, <1>5, SpawnCommands, CommandedTypes
  <2>2. QED BY <1>5, <2>1, SpawnProcess DEF RecordTypes
<1>6. CASE Register(o)
  <2>1. OperatorTypes'
    BY <1>1, <1>6, RegisterCommands, CommandedTypes
  <2>2. ProcessTypes' /\ LedgerTypes'
    BY <1>1, <1>6 DEF Register, ProcessTypes, LedgerTypes, process, ledger
  <2>3. QED BY <2>1, <2>2 DEF RecordTypes
<1>7. CASE GetEntry(o)
  <2>1. OperatorTypes'
    BY <1>1, <1>7, GetEntryCommands, CommandedTypes
  <2>2. ProcessTypes' /\ LedgerTypes'
    BY <1>1, <1>7 DEF GetEntry, ProcessTypes, LedgerTypes, process, ledger
  <2>3. QED BY <2>1, <2>2 DEF RecordTypes
<1>8. CASE PutEntry(o)
  <2>1. OperatorTypes'
    BY <1>1, <1>8, PutEntryCommands, CommandedTypes
  <2>2. ProcessTypes' /\ LedgerTypes'
    BY <1>1, <1>8 DEF PutEntry, ProcessTypes, LedgerTypes, process, ledger
  <2>3. QED BY <2>1, <2>2 DEF RecordTypes
<1>9. QED BY <1>2, <1>3, <1>4, <1>5, <1>6, <1>7, <1>8 DEF Operate, Proceed

\* A supervisor moves from one place to another and neither ends nor is born.
LEMMA SuperviseMoves ==
  ASSUME RecordTypes, NEW p \in Pids, Supervise(p)
  PROVE  /\ pc[p] \notin {"unborn", "gone"}
         /\ \E to \in Processes \ {"unborn", "boot", "gone"} : pc' = [pc EXCEPT ![p] = to]
         /\ UNCHANGED <<registry, serves, spawned>> /\ stale' \in [Pids -> SUBSET Runs]
<1>1. stale \in [Pids -> SUBSET Runs] /\ pc \in [Pids -> Processes]
  BY DEF RecordTypes, ProcessTypes
<1>2. ASSUME Boot(p) PROVE stale' \in [Pids -> SUBSET Runs]
  BY <1>1, <1>2 DEF Boot, RunningRows
<1>3. ASSUME MarkRow(p) PROVE stale' \in [Pids -> SUBSET Runs] /\ pc' = [pc EXCEPT ![p] = "reconcile"]
  BY <1>1, <1>3 DEF MarkRow
<1>4. QED
  BY <1>1, <1>2, <1>3
     DEF Supervise, Boot, MarkRow, Reconciled, BeginCycle, RecordRun, EndCycle, Report, Goto,
         Processes, Before, InCycle, Outcome

LEMMA Unmoved ==
  ASSUME ProcessTypes, NEW p \in Pids, pc[p] \notin {"unborn", "gone"},
         NEW to \in Processes \ {"unborn", "boot", "gone"}, pc' = [pc EXCEPT ![p] = to],
         stale' \in [Pids -> SUBSET Runs], UNCHANGED <<registry, serves, spawned>>
  PROVE  /\ ProcessTypes' /\ Live' = Live
         /\ \A q \in Pids : pc'[q] = IF q = p THEN to ELSE pc[q]
<1>1. \A q \in Pids : pc'[q] = IF q = p THEN to ELSE pc[q]
  BY DEF ProcessTypes
<1>2. QED BY <1>1 DEF ProcessTypes, Live

\* A finite set that an order leaves room in has a maximal element: the one with the fewest
\* above it, a strict subset being a smaller set.
LEMMA HasMaximal ==
  ASSUME NEW T, IsFiniteSet(T), T # {}, NEW R,
         \A x, y, z \in T : <<x, y>> \in R /\ <<y, z>> \in R => <<x, z>> \in R,
         \A x \in T : <<x, x>> \notin R
  PROVE  \E m \in T : \A y \in T : <<m, y>> \notin R
<1> DEFINE Upper(x) == {y \in T : <<x, y>> \in R}
           Ups == {Upper(x) : x \in T}
<1>1. IsWellFoundedOn(StrictSubsetOrdering(T), SUBSET T)
  BY FS_StrictSubsetOrderingWellFounded, FS_FiniteSubsetsOfFinite
<1>2. Ups \subseteq SUBSET T /\ Ups # {}
  <2>1. \A x \in T : Upper(x) \in SUBSET T
    OBVIOUS
  <2>2. PICK x \in T : TRUE
    OBVIOUS
  <2>3. Upper(x) \in Ups
    OBVIOUS
  <2>4. ASSUME NEW V \in Ups PROVE V \in SUBSET T
    <3>1. PICK z \in T : V = Upper(z)
      BY <2>4
    <3> QED BY <3>1, <2>1
  <2> HIDE DEF Ups, Upper
  <2> QED BY <2>3, <2>4
<1>3. PICK U \in Ups : \A V \in Ups : ~ (<<V, U>> \in StrictSubsetOrdering(T))
  <2> HIDE DEF Ups
  <2> QED BY <1>1, <1>2, WFMin
<1>4. PICK m \in T : U = Upper(m)
  BY <1>3
<1>5. ASSUME NEW y \in T, <<m, y>> \in R PROVE FALSE
  <2>1. Upper(y) \subseteq Upper(m)
    BY <1>5
  <2>2. y \in Upper(m) /\ y \notin Upper(y)
    BY <1>5
  <2>3. <<Upper(y), Upper(m)>> \in StrictSubsetOrdering(T)
    BY <2>1, <2>2 DEF StrictSubsetOrdering
  <2> QED BY <1>3, <1>4, <2>3
<1> QED BY <1>5

\* The run a process is at is the last it has begun.
LEMMA RunOfIsLast ==
  ASSUME LedgerTypes, NEW p \in Pids, NEW r \in Runs, by[r] = p
  PROVE  /\ RunOf(p) \in Runs /\ by[RunOf(p)] = p
         /\ \A s \in Runs : by[s] = p => s <= RunOf(p)
<1> DEFINE mine == {s \in Runs : by[s] = p}
           lt == {q \in mine \X mine : q[1] < q[2]}
<1>1. mine \subseteq Nat /\ mine # {} /\ \A s \in mine : s \in Int /\ s <= MaxRun
  BY DEF Runs
<1>2. IsFiniteSet(mine)
  BY <1>1, SupervisorAssumption, FS_BoundedSetOfNaturals
<1>3. \A x, y \in mine : <<x, y>> \in lt <=> x < y
  OBVIOUS
<1> HIDE DEF mine, lt
<1>4. PICK m \in mine : \A s \in mine : <<m, s>> \notin lt
  <2>1. \A x, y, z \in mine : <<x, y>> \in lt /\ <<y, z>> \in lt => <<x, z>> \in lt
    BY <1>1, <1>3
  <2>2. \A x \in mine : <<x, x>> \notin lt
    BY <1>1, <1>3
  <2>3. QED BY <1>1, <1>2, <2>1, <2>2, HasMaximal
<1>5. \A s \in mine : s <= m
  <2> SUFFICES ASSUME NEW s \in mine PROVE s <= m
    OBVIOUS
  <2>1. ~(m < s)
    BY <1>3, <1>4
  <2>2. QED BY <1>1, <2>1
<1>6. QED BY <1>5 DEF RunOf, mine

LEMMA LedgerTypesStep ==
  ASSUME RecordTypes, NEW p \in Pids, Supervise(p)
  PROVE  LedgerTypes'
<1>1. ProcessTypes /\ LedgerTypes
  BY DEF RecordTypes
<1> DEFINE Rows == {"none", "running", "done", "failed", "needs_retry"}
<1>2. CASE Boot(p) \/ Reconciled(p)
  <2>1. PICK to \in {"reconcile", "idle"} : pc' = [pc EXCEPT ![p] = to]
    BY <1>2 DEF Boot, Reconciled, Goto
  <2>2. \A q \in Pids : pc'[q] = IF q = p THEN to ELSE pc[q]
    BY <1>1, <2>1 DEF ProcessTypes
  <2>3. pc[p] \in Before
    BY <1>2 DEF Boot, Reconciled, Before
  <2>4. \A r \in Runs : by[r] \in Pids => pc'[by[r]] \notin Before
    BY <1>1, <2>2, <2>3 DEF LedgerTypes
  <2>5. \A q \in Pids : pc'[q] \in InCycle => \E r \in Runs : by[r] = q
    BY <1>1, <2>2 DEF LedgerTypes, InCycle, Outcome
  <2>6. UNCHANGED ledger /\ shared' \in BOOLEAN
    BY <1>1, <1>2 DEF Boot, Reconciled, LedgerTypes
  <2>7. \A q \in Pids : \A r \in stale'[q] : r <= begun
    <3>1. \A r \in RunningRows : r <= begun
      BY <1>1 DEF RunningRows, LedgerTypes, Runs
    <3>2. QED BY <1>1, <1>2, <3>1 DEF Boot, Reconciled, LedgerTypes, ProcessTypes
  <2>8. QED BY <1>1, <2>4, <2>5, <2>6, <2>7 DEF LedgerTypes, ledger
<1>3. CASE MarkRow(p)
  <2>1. PICK r \in stale[p] : /\ row' = [row EXCEPT ![r] = "needs_retry"]
                              /\ stale' = [stale EXCEPT ![p] = @ \ {r}]
    BY <1>3 DEF MarkRow
  <2>2. row' \in [Runs -> Rows] /\ \A s \in Runs : row'[s] # row[s] => s = r
    BY <1>1, <2>1 DEF LedgerTypes
  <2>3. r <= begun
    BY <1>1 DEF LedgerTypes
  <2>4. \A q \in Pids : stale'[q] \subseteq stale[q]
    BY <1>1, <2>1 DEF ProcessTypes
  <2>5. UNCHANGED <<pc, begun, by, info, shared>>
    BY <1>3 DEF MarkRow
  <2>6. \A s \in Runs : s > begun => row'[s] = "none"
    BY <1>1, <2>2, <2>3 DEF LedgerTypes, Runs
  <2>7. QED BY <1>1, <2>2, <2>4, <2>5, <2>6 DEF LedgerTypes
<1>4. CASE BeginCycle(p)
  <2>1. begun' \in Runs /\ begun' = begun + 1 /\ begun' \in 0 .. MaxRun
    BY <1>1, <1>4, SupervisorAssumption DEF BeginCycle, LedgerTypes, Runs
  <2>2. \A r \in Runs : by'[r] = IF r = begun' THEN p ELSE by[r]
    BY <1>1, <1>4 DEF BeginCycle, LedgerTypes
  <2>3. \A r \in Runs : info'[r] = IF r = begun' THEN "running" ELSE info[r]
    BY <1>1, <1>4 DEF BeginCycle, LedgerTypes
  <2>4. \A q \in Pids : pc'[q] = IF q = p THEN "info" ELSE pc[q]
    BY <1>1, <1>4 DEF BeginCycle, Goto, ProcessTypes
  <2>5. by' \in [Runs -> 0 .. MaxPid]
    <3>1. p \in 0 .. MaxPid
      BY SupervisorAssumption DEF Pids
    <3>2. QED BY <1>1, <1>4, <3>1 DEF BeginCycle, LedgerTypes
  <2>6. info' \in [Runs -> {"none", "running", "done", "failed"}]
    BY <1>1, <1>4 DEF BeginCycle, LedgerTypes
  <2>7. UNCHANGED <<stale, row, shared>>
    BY <1>4 DEF BeginCycle
  <2>8. \A r \in Runs : by'[r] \in Pids => pc'[by'[r]] \notin Before
    BY <1>1, <2>2, <2>4 DEF LedgerTypes, Before
  <2>9. \A q \in Pids : pc'[q] \in InCycle => \E r \in Runs : by'[r] = q
    <3>1. by[begun'] = 0 /\ 0 \notin Pids
      BY <1>1, <2>1 DEF LedgerTypes, Runs, Pids
    <3>2. ASSUME NEW q \in Pids, q # p, pc[q] \in InCycle PROVE \E r \in Runs : by'[r] = q
      <4>1. PICK r \in Runs : by[r] = q
        BY <1>1, <3>2 DEF LedgerTypes
      <4>2. QED BY <2>2, <3>1, <4>1
    <3>3. QED BY <2>1, <2>2, <2>4, <3>2
  <2>10. \A q \in Pids : \A r \in stale[q] : r <= begun'
    BY <1>1, <2>1 DEF LedgerTypes, ProcessTypes, Runs
  <2>11. \A r \in Runs : r > begun' => by'[r] = 0 /\ row[r] = "none" /\ info'[r] = "none"
    BY <1>1, <2>1, <2>2, <2>3 DEF LedgerTypes, Runs
  <2>12. QED BY <1>1, <2>1, <2>5, <2>6, <2>7, <2>8, <2>9, <2>10, <2>11 DEF LedgerTypes
<1>5. ASSUME pc[p] \in InCycle PROVE RunOf(p) \in Runs /\ by[RunOf(p)] = p /\ RunOf(p) <= begun
  <2>1. PICK r \in Runs : by[r] = p
    BY <1>1, <1>5 DEF LedgerTypes
  <2>2. RunOf(p) \in Runs /\ by[RunOf(p)] = p
    BY <1>1, <2>1, RunOfIsLast
  <2>3. RunOf(p) <= begun
    BY <1>1, <2>2 DEF LedgerTypes, Runs, Pids
  <2>4. QED BY <2>2, <2>3
<1>6. CASE RecordRun(p) \/ EndCycle(p)
  <2>1. PICK s \in {"running"} \cup Outcome, to \in {"cycle"} \cup Outcome :
            Record(p, s) /\ pc' = [pc EXCEPT ![p] = to]
    BY <1>6 DEF RecordRun, EndCycle, Goto
  <2>2. pc[p] \in InCycle
    BY <1>6 DEF RecordRun, EndCycle, InCycle
  <2>3. row' \in [Runs -> Rows] /\ \A r \in Runs : row'[r] # row[r] => r = RunOf(p)
    BY <1>1, <1>5, <2>1, <2>2 DEF Record, LedgerTypes, Outcome
  <2>4. \A q \in Pids : pc'[q] = IF q = p THEN to ELSE pc[q]
    BY <1>1, <2>1 DEF ProcessTypes
  <2>5. UNCHANGED <<stale, info, by, begun, shared>>
    BY <1>6 DEF RecordRun, EndCycle
  <2>6. \A r \in Runs : r > begun => row'[r] = "none"
    BY <1>1, <1>5, <2>2, <2>3 DEF LedgerTypes, Runs
  <2>7. \A r \in Runs : by[r] \in Pids => pc'[by[r]] \notin Before
    BY <1>1, <2>4 DEF LedgerTypes, Before, Outcome
  <2>8. \A q \in Pids : pc'[q] \in InCycle => \E r \in Runs : by[r] = q
    BY <1>1, <2>2, <2>4 DEF LedgerTypes
  <2>9. QED BY <1>1, <2>3, <2>5, <2>6, <2>7, <2>8 DEF LedgerTypes
<1>7. CASE Report(p)
  <2>1. pc[p] \in InCycle /\ pc[p] \in Outcome
    BY <1>7 DEF Report, InCycle
  <2>2. info' \in [Runs -> {"none", "running", "done", "failed"}]
    BY <1>1, <1>7, <2>1 DEF Report, LedgerTypes, Outcome
  <2>3. \A r \in Runs : info'[r] # info[r] => r = RunOf(p)
    BY <1>1, <1>5, <1>7, <2>1 DEF Report, LedgerTypes
  <2>4. \A q \in Pids : pc'[q] = IF q = p THEN "idle" ELSE pc[q]
    BY <1>1, <1>7 DEF Report, Goto, ProcessTypes
  <2>5. UNCHANGED <<stale, row, by, begun, shared>>
    BY <1>7 DEF Report
  <2>6. \A r \in Runs : r > begun => info'[r] = "none"
    BY <1>1, <1>5, <2>1, <2>3 DEF LedgerTypes, Runs
  <2>7. \A r \in Runs : by[r] \in Pids => pc'[by[r]] \notin Before
    BY <1>1, <2>4 DEF LedgerTypes, Before
  <2>8. \A q \in Pids : pc'[q] \in InCycle => \E r \in Runs : by[r] = q
    BY <1>1, <2>1, <2>4 DEF LedgerTypes
  <2>9. QED BY <1>1, <2>2, <2>5, <2>6, <2>7, <2>8 DEF LedgerTypes
<1>8. QED BY <1>2, <1>3, <1>4, <1>6, <1>7 DEF Supervise

LEMMA RecordTypesStep == RecordTypes /\ [Next]_vars => RecordTypes'
<1> SUFFICES ASSUME RecordTypes, [Next]_vars PROVE RecordTypes'
  OBVIOUS
<1>1. OperatorTypes /\ ProcessTypes /\ LedgerTypes
  BY DEF RecordTypes
<1>2. ASSUME NEW p \in Pids, Supervise(p) PROVE RecordTypes'
  <2>1. ProcessTypes'
    BY <1>1, <1>2, SuperviseMoves, Unmoved
  <2>2. LedgerTypes'
    BY <1>2, LedgerTypesStep
  <2>3. UNCHANGED registry
    BY <1>2, SuperviseMoves
  <2>4. OperatorTypes'
    BY <1>1, <2>3 DEF OperatorTypes, registry
  <2>5. QED BY <2>1, <2>2, <2>4 DEF RecordTypes
<1>3. ASSUME NEW p \in Pids, Crash(p) PROVE RecordTypes'
  <2>1. pc' = [pc EXCEPT ![p] = IF Alive(p) THEN "gone" ELSE @]
    BY <1>3 DEF Crash, Goto, Alive
  <2>2. ProcessTypes' /\ LedgerTypes'
    BY <1>1, <1>3, <2>1, EndsProcess DEF Crash
  <2>3. OperatorTypes'
    BY <1>1, <1>3 DEF Crash, OperatorTypes, registry
  <2>4. QED BY <2>2, <2>3 DEF RecordTypes
<1>4. CASE UNCHANGED vars
  BY <1>1, <1>4 DEF vars, registry, process, ledger, RecordTypes, OperatorTypes, ProcessTypes, LedgerTypes
<1>5. QED BY <1>2, <1>3, <1>4, OperatorTypesStep DEF Next
----------------------------------------------------------------------------
(* Supervisor: the registry                                                *)

\* What a command leaves of the names it is not on.
LEMMA OtherNames ==
  ASSUME OperatorTypes, NEW o \in Ops, NEW c, op' = [op EXCEPT ![o] = c], NEW n \in Names, NameIsKept(n),
         ~InCommand(o, n), ~(c.at # "idle" /\ c.name = n), Serving(n)' \subseteq Serving(n),
         entry'[n] = entry[n]
  PROVE  NameIsKept(n)'
<1>1. \A q \in Ops : op'[q] = IF q = o THEN c ELSE op[q]
  BY DEF OperatorTypes
<1>2. \A q \in Ops : InCommand(q, n)' <=> InCommand(q, n)
  BY <1>1 DEF InCommand
<1>3. \A q \in Ops : InCommand(q, n) => op'[q] = op[q]
  BY <1>1
<1>4. Busy(n)' <=> Busy(n)
  BY <1>2 DEF Busy, InCommand
<1>5. QED BY <1>2, <1>3, <1>4 DEF NameIsKept

\* A command that is alone on its name goes on, or ends.
LEMMA OwnName ==
  ASSUME OperatorTypes, NEW o \in Ops, NEW c, op' = [op EXCEPT ![o] = c], NEW n \in Names,
         \A q \in Ops : InCommand(q, n) => q = o,
         IF c.at = "idle" THEN \A p \in Serving(n)' : entry'[n] = [pid |-> p, status |-> "running"]
         ELSE c.name = n /\ IF c.at = "register" THEN Serving(n)' \subseteq {c.pid} ELSE Serving(n)' = {}
  PROVE  NameIsKept(n)'
<1>1. \A q \in Ops : op'[q] = IF q = o THEN c ELSE op[q]
  BY DEF OperatorTypes
<1>2. \A q \in Ops : InCommand(q, n)' => q = o /\ c.at # "idle"
  BY <1>1 DEF InCommand
<1>3. ~Busy(n)' => c.at = "idle"
  BY <1>1 DEF Busy
<1>4. QED BY <1>1, <1>2, <1>3 DEF NameIsKept

LEMMA NameStep ==
  ASSUME RecordTypes, NEW o \in Ops, Operate(o) \/ Proceed(o), NEW n \in Names,
         n \notin raced', n \notin raced => NameIsKept(n)
  PROVE  NameIsKept(n)'
<1>1. OperatorTypes /\ ProcessTypes /\ LedgerTypes
  BY DEF RecordTypes
<1>2. n \notin raced
  BY DEF Operate, Proceed, Deploy, Stop, List, Spawn, Register, GetEntry, PutEntry, Race, registry
<1>3. NameIsKept(n)
  BY <1>2
<1>4. ASSUME NEW m \in Names, Deploy(o, m) PROVE NameIsKept(n)'
  <2> DEFINE c == [Idle EXCEPT !.at = "spawn", !.name = m]
  <2>1. op' = [op EXCEPT ![o] = c] /\ op[o].at = "idle"
    BY <1>4 DEF Deploy, Begin
  <2>2. c.at = "spawn" /\ c.name = m
    BY IdleFields
  <2>3. Serving(n)' = Serving(n) /\ entry' = entry
    BY <1>4 DEF Deploy, process, Serving, Live
  <2> HIDE DEF c
  <2>4. CASE m = n
    <3>1. ~Busy(n) /\ Serving(n) = {}
      BY <1>4, <2>4, <1>2 DEF Deploy, Race, Serving
    <3>2. \A q \in Ops : InCommand(q, n) => q = o
      BY <3>1 DEF Busy, InCommand
    <3>3. QED BY <1>1, <2>1, <2>2, <2>3, <2>4, <3>1, <3>2, OwnName
  <2>5. CASE m # n
    <3>1. ~InCommand(o, n)
      BY <2>1 DEF InCommand
    <3>2. QED BY <1>1, <1>3, <2>1, <2>2, <2>3, <2>5, <3>1, OtherNames
  <2>6. QED BY <2>4, <2>5
<1>5. ASSUME NEW m \in Names, NEW again \in BOOLEAN, Stop(o, m, again) PROVE NameIsKept(n)'
  <2> DEFINE c == [Idle EXCEPT !.at = "get", !.name = m, !.status = "stopped", !.again = again]
  <2>1. op' = [op EXCEPT ![o] = c] /\ op[o].at = "idle"
    BY <1>5 DEF Stop, Begin
  <2>2. c.at = "get" /\ c.name = m
    BY IdleFields
  <2>3. Live' = Live \ {entry[m].pid} /\ serves' = serves /\ entry' = entry
    BY <1>1, <1>5, EndsProcess DEF Stop, Signal
  <2>4. Serving(n)' = Serving(n) \ {entry[m].pid}
    BY <2>3 DEF Serving
  <2> HIDE DEF c
  <2>5. CASE m = n
    <3>1. ~Busy(n)
      BY <1>5, <2>5, <1>2 DEF Stop, Race
    <3>2. \A q \in Ops : InCommand(q, n) => q = o
      BY <3>1 DEF Busy, InCommand
    <3>3. ASSUME NEW p \in Serving(n) PROVE p = entry[m].pid
      <4>1. entry[m] = [pid |-> p, status |-> "running"]
        BY <1>3, <2>5, <3>1 DEF NameIsKept
      <4>2. QED BY <4>1
    <3>4. Serving(n)' = {}
      BY <2>4, <3>3
    <3>5. QED BY <1>1, <2>1, <2>2, <2>5, <3>2, <3>4, OwnName
  <2>6. CASE m # n
    <3>1. ~InCommand(o, n)
      BY <2>1 DEF InCommand
    <3>2. QED BY <1>1, <1>3, <2>1, <2>2, <2>3, <2>4, <2>6, <3>1, OtherNames
  <2>7. QED BY <2>5, <2>6
<1>6. ASSUME NEW m \in Names, List(o, m) PROVE NameIsKept(n)'
  <2> DEFINE c == [Idle EXCEPT !.at = "get", !.name = m, !.status = "dead"]
  <2>1. op' = [op EXCEPT ![o] = c] /\ op[o].at = "idle"
    BY <1>6 DEF List, Begin
  <2>2. c.at = "get" /\ c.name = m
    BY IdleFields
  <2>3. Serving(n)' = Serving(n) /\ entry' = entry
    BY <1>6 DEF List, process, Serving, Live
  <2> HIDE DEF c
  <2>4. CASE m = n
    <3>1. ~Busy(n)
      BY <1>6, <2>4, <1>2 DEF List, Race
    <3>2. \A q \in Ops : InCommand(q, n) => q = o
      BY <3>1 DEF Busy, InCommand
    <3>3. ASSUME NEW p \in Serving(n) PROVE p = entry[m].pid /\ Alive(p)
      <4>1. entry[m] = [pid |-> p, status |-> "running"]
        BY <1>3, <2>4, <3>1 DEF NameIsKept
      <4>2. QED BY <4>1 DEF Serving, Alive
    <3>4. Serving(n) = {}
      BY <1>6, <3>3 DEF List, Dead
    <3>5. QED BY <1>1, <2>1, <2>2, <2>3, <2>4, <3>2, <3>4, OwnName
  <2>5. CASE m # n
    <3>1. ~InCommand(o, n)
      BY <2>1 DEF InCommand
    <3>2. QED BY <1>1, <1>3, <2>1, <2>2, <2>3, <2>5, <3>1, OtherNames
  <2>6. QED BY <2>4, <2>5
<1>7. ASSUME InCommand(o, n) PROVE \A q \in Ops : InCommand(q, n) => q = o
  BY <1>3, <1>7 DEF NameIsKept
<1>8. CASE Spawn(o)
  <2> DEFINE c == [op[o] EXCEPT !.at = "register", !.pid = spawned']
  <2>1. op' = [op EXCEPT ![o] = c] /\ op[o].at = "spawn" /\ spawned' \in Pids
    BY <1>1, <1>8, SpawnCommands DEF Commanded, Spawn
  <2>2. c.at = "register" /\ c.name = op[o].name /\ c.pid = spawned'
    BY <1>1 DEF OperatorTypes, Command
  <2>3. Live' \subseteq Live \cup {spawned'} /\ entry' = entry
    BY <1>8, SpawnProcess DEF Live, Spawn
  <2>4. Serving(n)' \subseteq Serving(n) \cup (IF op[o].name = n THEN {spawned'} ELSE {})
    BY <1>8, <2>3, SpawnProcess DEF Serving, Live
  <2> HIDE DEF c
  <2>5. CASE op[o].name = n
    <3>1. InCommand(o, n) /\ Serving(n) = {}
      BY <1>3, <2>1, <2>5 DEF InCommand, NameIsKept
    <3>2. QED BY <1>1, <1>7, <2>1, <2>2, <2>4, <2>5, <3>1, OwnName
  <2>6. CASE op[o].name # n
    BY <1>1, <1>3, <2>1, <2>2, <2>3, <2>4, <2>6, OtherNames DEF InCommand
  <2>7. QED BY <2>5, <2>6
<1>9. CASE Register(o)
  <2>1. op' = [op EXCEPT ![o] = Idle] /\ op[o].at = "register" /\ Idle.at = "idle"
    BY <1>9, IdleFields DEF Register
  <2>2. Serving(n)' = Serving(n)
    BY <1>9 DEF Register, process, Serving, Live
  <2>3. entry'[n] = IF n = op[o].name THEN [pid |-> op[o].pid, status |-> "running"] ELSE entry[n]
    BY <1>1, <1>9, RegisterCommands
  <2>4. CASE op[o].name = n
    <3>1. InCommand(o, n) /\ Serving(n) \subseteq {op[o].pid}
      BY <1>3, <2>1, <2>4 DEF InCommand, NameIsKept
    <3>2. QED BY <1>1, <1>7, <2>1, <2>2, <2>3, <2>4, <3>1, OwnName
  <2>5. CASE op[o].name # n
    BY <1>1, <1>3, <2>1, <2>2, <2>3, <2>5, OtherNames DEF InCommand
  <2>6. QED BY <2>4, <2>5
<1>10. CASE GetEntry(o)
  <2> DEFINE c == [op[o] EXCEPT !.at = "put", !.copy = entry[op[o].name]]
  <2>1. op' = [op EXCEPT ![o] = c] /\ op[o].at = "get"
    BY <1>1, <1>10, GetEntryCommands DEF Commanded, GetEntry
  <2>2. c.at = "put" /\ c.name = op[o].name
    BY <1>1 DEF OperatorTypes, Command
  <2>3. Serving(n)' = Serving(n) /\ entry' = entry
    BY <1>10 DEF GetEntry, process, Serving, Live
  <2> HIDE DEF c
  <2>4. CASE op[o].name = n
    <3>1. InCommand(o, n) /\ Serving(n) = {}
      BY <1>3, <2>1, <2>4 DEF InCommand, NameIsKept
    <3>2. QED BY <1>1, <1>7, <2>1, <2>2, <2>3, <2>4, <3>1, OwnName
  <2>5. CASE op[o].name # n
    BY <1>1, <1>3, <2>1, <2>2, <2>3, <2>5, OtherNames DEF InCommand
  <2>6. QED BY <2>4, <2>5
<1>11. CASE PutEntry(o)
  <2>1. op' = [op EXCEPT ![o] = PutBack(o)] /\ op[o].at = "put"
    BY <1>1, <1>11, PutEntryCommands DEF Commanded, PutEntry
  <2>2. PutBack(o).at = "idle" \/ (PutBack(o).at = "spawn" /\ PutBack(o).name = op[o].name)
    BY <1>1, <1>11, PutEntryCommands
  <2>3. Serving(n)' = Serving(n)
    BY <1>11 DEF PutEntry, process, Serving, Live
  <2>4. CASE op[o].name = n
    <3>1. InCommand(o, n) /\ Serving(n) = {}
      BY <1>3, <2>1, <2>4 DEF InCommand, NameIsKept
    <3>2. QED BY <1>1, <1>7, <2>1, <2>2, <2>3, <2>4, <3>1, OwnName
  <2>5. CASE op[o].name # n
    <3>1. entry'[n] = entry[n]
      BY <1>1, <1>11, <2>5, PutEntryCommands
    <3>2. ~(PutBack(o).at # "idle" /\ PutBack(o).name = n) /\ ~InCommand(o, n)
      BY <2>2, <2>5 DEF InCommand
    <3>3. QED BY <1>1, <1>3, <2>1, <2>3, <3>1, <3>2, OtherNames
  <2>6. QED BY <2>4, <2>5
<1>12. QED
  BY <1>4, <1>5, <1>6, <1>8, <1>9, <1>10, <1>11 DEF Operate, Proceed

LEMMA RegistryInvStep ==
  ASSUME RecordTypes, [Next]_vars, \A n \in Names : n \notin raced => NameIsKept(n)
  PROVE  \A n \in Names : n \notin raced' => NameIsKept(n)'
<1>1. OperatorTypes /\ ProcessTypes /\ LedgerTypes
  BY DEF RecordTypes
<1>2. SUFFICES ASSUME NEW n \in Names, n \notin raced' PROVE NameIsKept(n)'
  OBVIOUS
<1>3. ASSUME UNCHANGED registry, Serving(n)' \subseteq Serving(n) PROVE NameIsKept(n)'
  <2>1. NameIsKept(n)
    BY <1>2, <1>3 DEF registry
  <2>2. QED BY <1>3, <2>1 DEF NameIsKept, InCommand, Busy, registry
<1>4. ASSUME NEW p \in Pids, Supervise(p) PROVE NameIsKept(n)'
  <2>1. Live' = Live /\ UNCHANGED <<registry, serves>>
    BY <1>1, <1>4, SuperviseMoves, Unmoved
  <2>2. QED BY <1>3, <2>1 DEF Serving
<1>5. ASSUME NEW p \in Pids, Crash(p) PROVE NameIsKept(n)'
  <2>1. pc' = [pc EXCEPT ![p] = IF Alive(p) THEN "gone" ELSE @]
    BY <1>5 DEF Crash, Goto, Alive
  <2>2. Live' \subseteq Live /\ UNCHANGED <<registry, serves>>
    BY <1>1, <1>5, <2>1, EndsProcess DEF Crash
  <2>3. QED BY <1>3, <2>2 DEF Serving
<1>6. CASE UNCHANGED vars
  BY <1>3, <1>6 DEF vars, process, Serving, Live
<1>7. QED BY <1>2, <1>4, <1>5, <1>6, NameStep DEF Next
----------------------------------------------------------------------------
(* Supervisor: the ledger                                                  *)

\* A process that has booted has the ledger for itself, and goes on with it.
LEMMA OwnLedger ==
  ASSUME RecordTypes, NEW p \in Pids, Supervise(p), LedgerIsKept, ~shared', ~shared
  PROVE  /\ \A q \in Booted' : q = p
         /\ pc[p] # "boot" => \A r \in Runs : row[r] = "running" =>
                               IF pc[p] = "reconcile" THEN r \in stale[p] ELSE by[r] = p
         /\ pc[p] \notin {"boot", "reconcile"} => Reported(p)
<1>1. ProcessTypes /\ pc[p] \notin {"unborn", "gone"}
  BY SuperviseMoves DEF RecordTypes
<1>2. PICK to : pc' = [pc EXCEPT ![p] = to]
  BY SuperviseMoves
<1>3. \A q \in Pids : q # p => pc'[q] = pc[q]
  BY <1>1, <1>2 DEF ProcessTypes
<1>4. \A q \in Booted' : q # p => q \in Booted
  BY <1>3 DEF Booted, Live
<1>5. CASE pc[p] = "boot"
  <2>1. Boot(p)
    BY <1>5 DEF Supervise, Boot, MarkRow, Reconciled, BeginCycle, RecordRun, EndCycle, Report, Outcome
  <2>2. Live = {p}
    BY <2>1 DEF Boot
  <2>3. QED BY <1>4, <1>5, <2>2 DEF Booted
<1>6. CASE pc[p] # "boot"
  <2>1. p \in Booted
    BY <1>1, <1>6 DEF Booted, Live
  <2>2. QED BY <1>4, <2>1 DEF LedgerIsKept
<1>7. QED BY <1>5, <1>6

\* A run that is not of the process, or not its last, is not changed.
LEMMA SuperviseLedger ==
  ASSUME RecordTypes, NEW p \in Pids, Supervise(p), LedgerIsKept, ~shared', ~shared
  PROVE  LedgerIsKept'
<1>1. ProcessTypes /\ LedgerTypes
  BY DEF RecordTypes
<1>2. \A q \in Booted' : q = p
  BY OwnLedger
<1>3. SUFFICES /\ \A r \in Runs : row'[r] = "running" =>
                       IF pc'[p] = "reconcile" THEN r \in stale'[p] ELSE by'[r] = p
               /\ pc'[p] # "reconcile" => Reported(p)'
  BY <1>2 DEF LedgerIsKept
<1>4. pc[p] # "boot" => \A r \in Runs : row[r] = "running" =>
                               IF pc[p] = "reconcile" THEN r \in stale[p] ELSE by[r] = p
  BY OwnLedger
<1>5. pc[p] \notin {"boot", "reconcile"} => Reported(p)
  BY OwnLedger
<1>6. CASE Boot(p)
  <2>1. pc'[p] = "reconcile" /\ stale'[p] = RunningRows /\ row' = row
    BY <1>1, <1>6 DEF Boot, Goto, ProcessTypes, ledger
  <2>2. QED BY <2>1 DEF RunningRows
<1>7. CASE MarkRow(p)
  <2>1. PICK r \in stale[p] : /\ row' = [row EXCEPT ![r] = "needs_retry"]
                              /\ stale' = [stale EXCEPT ![p] = @ \ {r}]
    BY <1>7 DEF MarkRow
  <2>2. pc'[p] = "reconcile" /\ pc[p] = "reconcile" /\ stale'[p] = stale[p] \ {r}
    BY <1>1, <1>7, <2>1 DEF MarkRow, ProcessTypes
  <2>3. \A s \in Runs : row'[s] = "running" => s # r /\ row[s] = "running"
    BY <1>1, <2>1 DEF LedgerTypes
  <2>4. QED BY <1>4, <2>2, <2>3
<1>8. CASE Reconciled(p)
  <2>1. pc[p] = "reconcile" /\ pc'[p] = "idle" /\ stale[p] = {} /\ row' = row /\ by' = by
    BY <1>1, <1>8 DEF Reconciled, Goto, ProcessTypes, ledger
  <2>2. \A r \in Runs : by[r] # p
    BY <1>1, <2>1 DEF LedgerTypes, Before
  <2>3. QED BY <1>4, <2>1, <2>2 DEF Reported
<1>9. CASE BeginCycle(p)
  <2>1. pc[p] = "idle" /\ pc'[p] = "info" /\ row' = row /\ begun' \in Runs /\ begun' = begun + 1
    BY <1>1, <1>9, SupervisorAssumption DEF BeginCycle, Goto, ProcessTypes, LedgerTypes, Runs
  <2>2. \A r \in Runs : by'[r] = IF r = begun' THEN p ELSE by[r]
    BY <1>1, <1>9 DEF BeginCycle, LedgerTypes
  <2>3. \A r \in Runs : info'[r] = IF r = begun' THEN "running" ELSE info[r]
    BY <1>1, <1>9 DEF BeginCycle, LedgerTypes
  <2>4. \A r \in Runs : row[r] = "running" => by'[r] = p
    BY <1>4, <2>1, <2>2
  <2>5. ASSUME NEW r \in Runs, by'[r] = p, r # begun' PROVE row'[r] = info'[r]
    BY <1>5, <2>1, <2>2, <2>3, <2>5 DEF Reported, InCycle, Outcome
  <2>6. ASSUME NEW r \in Runs, by'[r] = p, r # begun' PROVE ~(begun' <= r)
    <3>1. by[r] # 0
      BY <2>2, <2>6 DEF Pids
    <3>2. QED BY <1>1, <2>1, <3>1 DEF LedgerTypes, Runs
  <2>7. by'[begun'] = p
    BY <2>1, <2>2
  <2>8. ASSUME NEW r \in Runs, by'[r] = p, \A s \in Runs : by'[s] = p => s <= r PROVE r = begun'
    BY <2>1, <2>6, <2>7, <2>8
  <2>9. \A s \in Runs : by'[s] = p => s <= begun'
    <3>1. \A a, b \in Runs : ~(a <= b) => b <= a
      BY DEF Runs
    <3>2. begun' <= begun'
      BY <2>1 DEF Runs
    <3> QED BY <2>1, <2>6, <3>1, <3>2
  <2>10. ASSUME NEW r \in Runs, by'[r] = p
         PROVE  IF pc'[p] \in InCycle /\ \A t \in Runs : by'[t] = p => t <= r
                THEN pc'[p] \in Outcome => row'[r] = pc'[p]
                ELSE row'[r] = info'[r]
    BY <2>1, <2>5, <2>8, <2>9, <2>10 DEF InCycle, Outcome
  <2>11. Reported(p)'
    BY <2>10 DEF Reported
  <2>12. QED BY <2>1, <2>4, <2>11
<1>10. ASSUME pc[p] \in InCycle
       PROVE  /\ RunOf(p) \in Runs /\ by[RunOf(p)] = p
              /\ \A r \in Runs : by[r] = p => (r = RunOf(p) <=> \A s \in Runs : by[s] = p => s <= r)
  <2>1. PICK r \in Runs : by[r] = p
    BY <1>1, <1>10 DEF LedgerTypes
  <2>2. RunOf(p) \in Runs /\ by[RunOf(p)] = p /\ \A s \in Runs : by[s] = p => s <= RunOf(p)
    BY <1>1, <2>1, RunOfIsLast
  <2>3. \A x, y \in Runs : x <= y /\ y <= x => x = y
    BY DEF Runs
  <2>4. QED BY <2>2, <2>3
<1>11. ASSUME pc[p] \in InCycle, NEW r \in Runs, by[r] = p, r # RunOf(p) PROVE row[r] = info[r]
  BY <1>5, <1>10, <1>11 DEF Reported, InCycle, Outcome
<1>12. CASE RecordRun(p) \/ EndCycle(p)
  <2>1. PICK s \in {"running"} \cup Outcome, to \in {"cycle"} \cup Outcome :
            /\ Record(p, s) /\ pc' = [pc EXCEPT ![p] = to]
            /\ to \in Outcome => s = to
    BY <1>12 DEF RecordRun, EndCycle, Goto, Outcome
  <2>2. pc[p] \in InCycle /\ by' = by /\ info' = info
    BY <1>12 DEF RecordRun, EndCycle, InCycle
  <2>3. \A r \in Runs : row'[r] = IF r = RunOf(p) THEN s ELSE row[r]
    BY <1>1, <1>10, <2>1, <2>2 DEF Record, LedgerTypes
  <2>4. pc'[p] = to /\ to \in InCycle /\ to # "reconcile"
    BY <1>1, <2>1 DEF ProcessTypes, InCycle, Outcome
  <2>5. \A r \in Runs : row'[r] = "running" => by[r] = p
    BY <1>4, <1>10, <2>2, <2>3 DEF InCycle, Outcome
  <2>6. ASSUME NEW r \in Runs, by[r] = p, r # RunOf(p) PROVE row'[r] = info'[r]
    BY <1>11, <2>2, <2>3, <2>6
  <2>7. to \in Outcome => row'[RunOf(p)] = to
    BY <1>10, <2>1, <2>2, <2>3
  <2>8. ASSUME NEW r \in Runs, by'[r] = p
        PROVE  IF pc'[p] \in InCycle /\ \A t \in Runs : by'[t] = p => t <= r
               THEN pc'[p] \in Outcome => row'[r] = pc'[p]
               ELSE row'[r] = info'[r]
    <3>1. CASE r = RunOf(p)
      <4>1. \A t \in Runs : by[t] = p => t <= r
        BY <1>10, <2>2, <3>1
      <4> QED BY <2>2, <2>4, <2>7, <3>1, <4>1
    <3>2. CASE r # RunOf(p)
      <4>1. ~ \A t \in Runs : by[t] = p => t <= r
        BY <1>10, <2>2, <2>8, <3>2
      <4> QED BY <2>2, <2>6, <2>8, <3>2, <4>1
    <3> QED BY <3>1, <3>2
  <2>9. Reported(p)'
    BY <2>8 DEF Reported
  <2>10. QED BY <2>2, <2>4, <2>5, <2>9
<1>13. CASE Report(p)
  <2>1. pc[p] \in InCycle /\ pc[p] \in Outcome /\ by' = by /\ row' = row
    BY <1>13 DEF Report, InCycle
  <2>2. \A r \in Runs : info'[r] = IF r = RunOf(p) THEN pc[p] ELSE info[r]
    BY <1>1, <1>10, <1>13, <2>1 DEF Report, LedgerTypes
  <2>3. pc'[p] = "idle"
    BY <1>1, <1>13 DEF Report, Goto, ProcessTypes
  <2>4. row[RunOf(p)] = pc[p]
    BY <1>5, <1>10, <2>1 DEF Reported, Outcome
  <2>5. Reported(p)'
    BY <1>11, <2>1, <2>2, <2>3, <2>4 DEF Reported, InCycle, Outcome
  <2>6. QED BY <1>4, <2>1, <2>3, <2>5 DEF Outcome
<1>14. QED BY <1>6, <1>7, <1>8, <1>9, <1>12, <1>13 DEF Supervise

\* Ending a process, or a new one that has not booted, leaves the ledger as it is.
LEMMA LedgerStands ==
  ASSUME LedgerIsKept, UNCHANGED <<row, info, by, stale>>,
         \A q \in Pids : pc'[q] = pc[q] \/ pc'[q] \in {"gone", "boot"}
  PROVE  LedgerIsKept'
<1>1. \A q \in Booted' : q \in Booted /\ pc'[q] = pc[q]
  BY DEF Booted, Live
<1>2. \A q \in Booted' : pc[q] # "reconcile" => Reported(q)'
  BY <1>1 DEF LedgerIsKept, Reported
<1>3. QED BY <1>1, <1>2 DEF LedgerIsKept

LEMMA LedgerInvStep ==
  ASSUME RecordTypes, [Next]_vars, ~shared => LedgerIsKept
  PROVE  ~shared' => LedgerIsKept'
<1>1. OperatorTypes /\ ProcessTypes /\ LedgerTypes
  BY DEF RecordTypes
<1>2. SUFFICES ASSUME ~shared' PROVE LedgerIsKept'
  OBVIOUS
<1>3. ASSUME NEW o \in Ops, NEW n \in Names, Deploy(o, n) \/ List(o, n) PROVE LedgerIsKept'
  BY <1>2, <1>3, LedgerStands DEF Deploy, List, process, ledger
<1>4. ASSUME NEW o \in Ops, NEW n \in Names, NEW again \in BOOLEAN, Stop(o, n, again) PROVE LedgerIsKept'
  BY <1>1, <1>2, <1>4, LedgerStands, EndsProcess DEF Stop, Signal, ledger
<1>5. ASSUME NEW o \in Ops, Spawn(o) PROVE LedgerIsKept'
  BY <1>2, <1>5, LedgerStands, SpawnProcess DEF Spawn, ledger
<1>6. ASSUME NEW o \in Ops, Register(o) \/ GetEntry(o) \/ PutEntry(o) PROVE LedgerIsKept'
  BY <1>2, <1>6, LedgerStands DEF Register, GetEntry, PutEntry, process, ledger
<1>7. ASSUME NEW p \in Pids, Crash(p) PROVE LedgerIsKept'
  <2>1. pc' = [pc EXCEPT ![p] = IF Alive(p) THEN "gone" ELSE @]
    BY <1>7 DEF Crash, Goto, Alive
  <2>2. QED BY <1>1, <1>2, <1>7, <2>1, LedgerStands, EndsProcess DEF Crash, ledger
<1>8. ASSUME NEW p \in Pids, Supervise(p) PROVE LedgerIsKept'
  <2>1. ~shared
    BY <1>2, <1>8 DEF Supervise, Boot, MarkRow, Reconciled, BeginCycle, RecordRun, EndCycle, Report
  <2>2. QED BY <1>2, <1>8, <2>1, SuperviseLedger
<1>9. CASE UNCHANGED vars
  BY <1>2, <1>9, LedgerStands DEF vars, process, ledger
<1>10. QED BY <1>2, <1>3, <1>4, <1>5, <1>6, <1>7, <1>8, <1>9 DEF Next, Operate, Proceed
----------------------------------------------------------------------------
LEMMA RecordsInvInit == Init => RecordsInv
<1> SUFFICES ASSUME Init PROVE RecordsInv
  OBVIOUS
<1>1. RecordTypes
  BY RecordTypesInit
<1>2. Live = {}
  BY DEF Init, Live
<1>3. LedgerIsKept
  BY <1>2 DEF LedgerIsKept, Booted
<1>4. \A o \in Ops : op[o].at = "idle"
  BY IdleFields DEF Init
<1>5. \A n \in Names : NameIsKept(n)
  BY <1>2, <1>4 DEF NameIsKept, InCommand, Serving
<1>6. QED BY <1>1, <1>3, <1>5 DEF RecordsInv

LEMMA RecordsInvStep == RecordsInv /\ [Next]_vars => RecordsInv'
<1> SUFFICES ASSUME RecordsInv, [Next]_vars PROVE RecordsInv'
  OBVIOUS
<1>1. RecordTypes'
  BY RecordTypesStep DEF RecordsInv
<1>2. \A n \in Names : n \notin raced' => NameIsKept(n)'
  BY RegistryInvStep DEF RecordsInv
<1>3. ~shared' => LedgerIsKept'
  BY LedgerInvStep DEF RecordsInv
<1>4. QED BY <1>1, <1>2, <1>3 DEF RecordsInv

LEMMA RecordsInvSuffices == RecordsInv => RecordsTruthful
<1> SUFFICES ASSUME RecordsInv PROVE RecordsTruthful
  OBVIOUS
<1>1. RegistryTruthful
  BY DEF RecordsInv, RegistryTruthful, Settled, NameIsKept, Serving
<1>2. NoOrphanAfterBoot
  BY DEF RecordsInv, LedgerIsKept, Booted, Live, NoOrphanAfterBoot
<1>3. ASSUME ~shared, NEW r \in Runs, by[r] \in Live, pc[by[r]] \in {"idle", "boot", "reconcile"}
      PROVE  row[r] = info[r]
  <2>1. pc[by[r]] = "idle" /\ by[r] \in Booted
    BY <1>3 DEF RecordsInv, RecordTypes, LedgerTypes, Before, Live, Booted
  <2>2. Reported(by[r])
    BY <1>3, <2>1 DEF RecordsInv, LedgerIsKept
  <2>3. QED BY <2>1, <2>2 DEF Reported, InCycle, Outcome
<1>4. QED BY <1>1, <1>2, <1>3 DEF RecordsTruthful, LedgerAndInfoAgree

\* Of any number of deployments, commands, processes and runs: unless commands on a name
\* overlapped, the registered process of it is the one that serves it; and as long as a
\* supervisor boots alone, RUNNING rows are its own and the two rows of a run agree.
THEOREM RecordsStayTruthful == Spec => []RecordsTruthful
<1>1. QED BY RecordsInvInit, RecordsInvStep, RecordsInvSuffices, PTL DEF Spec
----------------------------------------------------------------------------
(* Supervisor: process_items                                                *)

\* Each return of a handler, and the items that have one which no death has lost: the marked
\* ones, and those a call is about to mark.
Handlings == {x \in Items \X (Nat \ {0}) : x[2] <= handled[x[1]]}
Accounted == marked \cup {item[c] : c \in {d \in Callers : feedPc[d] = "mark"}}

Feeding == {c \in Callers : feedPc[c] # "idle"}
Passed(c) == done[c] \cup {i \in Items : i < item[c]}

\* What a call has passed over is marked, and as long as no two calls overlapped that is all
\* there is, and a handler returned once for each item accounted for and each death.
FeedInv ==
    /\ FeedTypeOK
    /\ IsFiniteSet(Handlings)
    /\ \A c \in Feeding : Passed(c) \subseteq marked
    /\ \A i \in Accounted : handled[i] >= 1
    /\ full
    /\ ~met =>
          /\ \A c, d \in Feeding : c = d
          /\ \A c \in Feeding : marked \subseteq Passed(c)
          /\ Cardinality(Handlings) = deaths + Cardinality(Accounted)

LEMMA AccountedItems ==
    ASSUME FeedTypeOK
    PROVE  /\ Accounted \subseteq Items
           /\ IsFiniteSet(Accounted)
           /\ Cardinality(Accounted) \in Nat
<1>1. Accounted \subseteq Items
  BY DEF FeedTypeOK, Accounted
<1>2. IsFiniteSet(Items)
  BY SupervisorAssumption, FS_Interval DEF Items
<1>3. IsFiniteSet(Accounted)
  BY <1>1, <1>2, FS_Subset
<1>4. QED BY <1>1, <1>3, FS_CardinalityType

LEMMA FeedInvInit == FeedInit => FeedInv
<1> SUFFICES ASSUME FeedInit PROVE FeedInv
  OBVIOUS
<1>1. FeedTypeOK
  <2>1. 1 \in 1 .. N + 1 /\ 0 \in 0 .. MaxCalls
    BY SupervisorAssumption
  <2>2. item \in [Callers -> 1 .. N + 1] /\ calls \in 0 .. MaxCalls
    BY <2>1 DEF FeedInit
  <2>3. QED BY <2>2 DEF FeedInit, FeedTypeOK
<1>2. Handlings = {} /\ Accounted = {} /\ Feeding = {}
  BY DEF FeedInit, Handlings, Accounted, Feeding
<1>3. IsFiniteSet({}) /\ Cardinality({}) = 0
  BY FS_EmptySet
<1>4. full /\ deaths = 0
  BY DEF FeedInit
<1>5. QED BY <1>1, <1>2, <1>3, <1>4 DEF FeedInv

LEMMA BeginFeedStep ==
    ASSUME FeedInv, NEW c \in Callers, BeginFeed(c)
    PROVE  FeedInv'
<1>1. FeedTypeOK'
  BY SupervisorAssumption DEF FeedInv, FeedTypeOK, BeginFeed, CompletedItems, Items
<1>2. Handlings' = Handlings /\ Accounted' = Accounted
  BY DEF FeedInv, FeedTypeOK, BeginFeed, Handlings, Accounted
<1>3. Feeding' = Feeding \cup {c} /\ c \notin Feeding
  BY DEF FeedInv, FeedTypeOK, BeginFeed, Feeding
<1>4. ~met' => ~met /\ Feeding = {}
  BY DEF BeginFeed, Feeding
<1>5. Passed(c)' = marked
  BY SupervisorAssumption DEF FeedInv, FeedTypeOK, BeginFeed, CompletedItems, Passed, Items
<1>6. \A d \in Feeding : Passed(d)' = Passed(d)
  BY <1>3 DEF FeedInv, FeedTypeOK, BeginFeed, Passed, Feeding, Items
<1>7. UNCHANGED <<marked, handled, deaths, full>>
  BY DEF BeginFeed
<1>8. QED BY <1>1, <1>2, <1>3, <1>4, <1>5, <1>6, <1>7 DEF FeedInv

LEMMA SkipStep ==
    ASSUME FeedInv, NEW c \in Callers, Skip(c)
    PROVE  FeedInv'
<1>1. FeedTypeOK'
  BY SupervisorAssumption DEF FeedInv, FeedTypeOK, Skip, Items
<1>2. Handlings' = Handlings /\ Accounted' = Accounted
  BY DEF FeedInv, FeedTypeOK, Skip, Handlings, Accounted
<1>3. Feeding' = Feeding
  BY DEF Skip, Feeding
<1>4. \A d \in Callers : Passed(d)' = Passed(d)
  <2>1. item[c] \in done[c] /\ item[c] \in Int
    BY DEF FeedInv, FeedTypeOK, Skip, Items
  <2>2. Passed(c)' = Passed(c)
    BY <2>1 DEF FeedInv, FeedTypeOK, Skip, Passed, Items
  <2>3. \A d \in Callers \ {c} : Passed(d)' = Passed(d)
    BY DEF FeedInv, FeedTypeOK, Skip, Passed, Items
  <2>4. QED BY <2>2, <2>3
<1>5. UNCHANGED <<marked, handled, deaths, full, met>>
  BY DEF Skip
<1>6. QED BY <1>1, <1>2, <1>3, <1>4, <1>5 DEF FeedInv, Feeding

LEMMA HandleStep ==
    ASSUME FeedInv, NEW c \in Callers, Handle(c)
    PROVE  FeedInv'
<1> DEFINE i == item[c]
           x == <<i, handled[i] + 1>>
<1>1. i \in Items /\ i \notin done[c] /\ handled[i] \in Nat /\ feedPc[c] = "next"
  BY DEF FeedInv, FeedTypeOK, Handle, Wanted
<1>2. FeedTypeOK'
  BY <1>1, SupervisorAssumption DEF FeedInv, FeedTypeOK, Handle, Wanted
<1>3. Handlings' = Handlings \cup {x} /\ x \notin Handlings
  BY <1>1 DEF FeedInv, FeedTypeOK, Handle, Handlings
<1>4. Accounted' = Accounted \cup {i}
  BY <1>1 DEF FeedInv, FeedTypeOK, Handle, Accounted
<1>5. Feeding' = Feeding /\ c \in Feeding
  BY <1>1 DEF FeedInv, FeedTypeOK, Handle, Feeding
<1>6. \A d \in Callers : Passed(d)' = Passed(d)
  BY DEF Handle, Passed
<1>7. UNCHANGED <<marked, deaths, full, met>>
  BY DEF Handle
<1>8. IsFiniteSet(Handlings')
      /\ Cardinality(Handlings') = Cardinality(Handlings) + 1
  <2> HIDE DEF x
  <2>1. IsFiniteSet(Handlings)
    BY DEF FeedInv
  <2>2. QED BY <1>3, <2>1, FS_AddElement
<1>9. ~met => i \notin Accounted
  <2> SUFFICES ASSUME ~met PROVE i \notin Accounted
    OBVIOUS
  <2>1. marked \subseteq Passed(c) /\ \A d \in Feeding : d = c
    BY <1>5 DEF FeedInv
  <2>2. i \notin Passed(c)
    BY <1>1 DEF Passed, Items
  <2>3. \A d \in Callers : feedPc[d] # "mark"
    BY <1>1, <2>1 DEF Feeding
  <2>4. QED BY <2>1, <2>2, <2>3 DEF Accounted
<1>10. ~met => Cardinality(Accounted') = Cardinality(Accounted) + 1
  <2>1. IsFiniteSet(Accounted)
    BY AccountedItems DEF FeedInv
  <2>2. QED BY <1>4, <1>9, <2>1, FS_AddElement
<1>11. \A j \in Accounted' : handled'[j] >= 1
  BY <1>1, <1>4, AccountedItems DEF FeedInv, FeedTypeOK, Handle
<1>12. ~met => Cardinality(Handlings') = deaths + Cardinality(Accounted')
  <2>1. Cardinality(Accounted) \in Nat /\ deaths \in Nat
    BY AccountedItems DEF FeedInv, FeedTypeOK
  <2>2. ~met => Cardinality(Handlings) = deaths + Cardinality(Accounted)
    BY DEF FeedInv
  <2>3. QED BY <1>8, <1>10, <2>1, <2>2
<1>13. QED BY <1>2, <1>5, <1>6, <1>7, <1>8, <1>11, <1>12 DEF FeedInv, Feeding

LEMMA FeedEndStep ==
    ASSUME FeedInv, NEW c \in Callers, Raise(c) \/ Return(c) \/ (Die(c) /\ feedPc[c] = "next")
    PROVE  FeedInv'
<1>0. feedPc[c] = "next"
  BY DEF Raise, Return
<1>1. full'
  <2>1. CASE Return(c)
    <3>1. Items \subseteq Passed(c)
      BY <2>1, SupervisorAssumption DEF Return, Passed, Items
    <3>2. marked = Items
      BY <1>0, <3>1 DEF FeedInv, FeedTypeOK, Feeding
    <3>3. QED BY <2>1, <3>2 DEF Return, FeedInv
  <2>2. CASE Raise(c) \/ Die(c)
    BY <2>2 DEF Raise, Die, FeedInv
  <2>3. QED BY <2>1, <2>2
<1>2. UNCHANGED <<done, item, marked, handled, calls, met>>
      /\ feedPc' = [feedPc EXCEPT ![c] = "idle"] /\ deaths' = deaths
  <2>1. CASE Raise(c) \/ Return(c)
    BY <2>1 DEF Raise, Return
  <2>2. CASE Die(c)
    <3>1. deaths \in Nat
      BY DEF FeedInv, FeedTypeOK
    <3>2. deaths' = deaths
      BY <1>0, <2>2, <3>1 DEF Die
    <3>3. QED BY <2>2, <3>2 DEF Die
  <2>3. QED BY <2>1, <2>2
<1>3. FeedTypeOK'
  BY <1>1, <1>2 DEF FeedInv, FeedTypeOK
<1>4. Accounted' = Accounted /\ Handlings' = Handlings
  BY <1>0, <1>2 DEF FeedInv, FeedTypeOK, Accounted, Handlings
<1>5. Feeding' = Feeding \ {c}
  BY <1>0, <1>2 DEF FeedInv, FeedTypeOK, Feeding
<1>6. \A d \in Callers : Passed(d)' = Passed(d)
  BY <1>2 DEF Passed
<1>7. QED BY <1>1, <1>3, <1>4, <1>5, <1>6, <1>2 DEF FeedInv, Feeding

LEMMA AtMark ==
    ASSUME FeedInv, NEW c \in Callers, feedPc[c] = "mark"
    PROVE  /\ c \in Feeding /\ item[c] \in Items /\ item[c] \notin done[c]
           /\ item[c] \in Accounted
           /\ ~met => item[c] \notin marked
<1>1. c \in Feeding /\ item[c] \in Items /\ item[c] \notin done[c] /\ item[c] \in Accounted
  BY DEF FeedInv, FeedTypeOK, Feeding, Accounted
<1>2. item[c] \notin Passed(c)
  BY <1>1 DEF Passed, Items
<1>3. QED BY <1>1, <1>2 DEF FeedInv

LEMMA MarkStep ==
    ASSUME FeedInv, NEW c \in Callers, Mark(c)
    PROVE  FeedInv'
<1> DEFINE i == item[c]
<1>1. feedPc[c] = "mark" /\ c \in Feeding /\ i \in Items /\ i \in Accounted
  BY AtMark DEF Mark
<1>2. FeedTypeOK'
  <2>1. item[c] + 1 \in 1 .. N + 1
    BY <1>1, SupervisorAssumption DEF Items
  <2>2. item' \in [Callers -> 1 .. N + 1] /\ feedPc' \in [Callers -> {"idle", "next", "mark"}]
        /\ marked' \subseteq Items
    BY <1>1, <2>1 DEF FeedInv, FeedTypeOK, Mark
  <2>3. \A d \in Callers : feedPc'[d] = "mark" => item'[d] \in Items \ done'[d]
    BY <1>1 DEF FeedInv, FeedTypeOK, Mark
  <2>4. QED BY <2>2, <2>3 DEF FeedInv, FeedTypeOK, Mark
<1>3. Accounted' = Accounted
  <2>1. \A d \in Callers : feedPc'[d] = "mark" <=> feedPc[d] = "mark" /\ d # c
    BY <1>1 DEF FeedInv, FeedTypeOK, Mark
  <2>2. \A d \in Callers \ {c} : item'[d] = item[d]
    BY DEF FeedInv, FeedTypeOK, Mark
  <2>3. QED BY <1>1, <2>1, <2>2 DEF Mark, Accounted
<1>4. Feeding' = Feeding /\ Handlings' = Handlings
  BY <1>1 DEF FeedInv, FeedTypeOK, Mark, Feeding, Handlings
<1>5. Passed(c)' = Passed(c) \cup {i}
  BY <1>1 DEF FeedInv, FeedTypeOK, Mark, Passed, Items
<1>6. \A d \in Callers \ {c} : Passed(d)' = Passed(d)
  BY DEF FeedInv, FeedTypeOK, Mark, Passed
<1>7. UNCHANGED <<handled, deaths, full, met>> /\ marked' = marked \cup {i}
  BY DEF Mark
<1>8. \A d \in Feeding' : Passed(d)' \subseteq marked'
  BY <1>4, <1>5, <1>6, <1>7 DEF FeedInv, Feeding
<1>9. ~met' => \A d \in Feeding' : d = c
  BY <1>1, <1>4, <1>7 DEF FeedInv
<1>10. ~met' => \A d \in Feeding' : marked' \subseteq Passed(d)'
  <2>1. ~met' => marked' \subseteq Passed(c)'
    BY <1>1, <1>5, <1>7 DEF FeedInv
  <2>2. QED BY <1>9, <2>1
<1>11. QED BY <1>2, <1>3, <1>4, <1>7, <1>8, <1>9, <1>10 DEF FeedInv

LEMMA DieStep ==
    ASSUME FeedInv, NEW c \in Callers, Die(c), feedPc[c] = "mark"
    PROVE  FeedInv'
<1> DEFINE i == item[c]
<1>1. c \in Feeding /\ i \in Items /\ i \in Accounted /\ (~met => i \notin marked)
  BY AtMark
<1>2. FeedTypeOK'
  BY DEF FeedInv, FeedTypeOK, Die
<1>3. Handlings' = Handlings /\ deaths' = deaths + 1
  BY DEF Die, Handlings
<1>4. Feeding' = Feeding \ {c}
  BY DEF FeedInv, FeedTypeOK, Die, Feeding
<1>5. \A d \in Callers : Passed(d)' = Passed(d)
  BY DEF Die, Passed
<1>6. UNCHANGED <<marked, handled, met, full>>
  BY DEF Die
<1>7. \A d \in Callers : feedPc'[d] = "mark" => feedPc[d] = "mark"
  BY DEF FeedInv, FeedTypeOK, Die
<1>8. Accounted' \subseteq Accounted
  BY <1>7, <1>6 DEF Accounted, Die
<1>9. ~met => Accounted' = Accounted \ {i}
  <2> SUFFICES ASSUME ~met PROVE Accounted' = Accounted \ {i}
    OBVIOUS
  <2>1. \A d \in Callers : feedPc[d] = "mark" => d = c
    BY <1>1 DEF FeedInv, Feeding
  <2>2. \A d \in Callers : feedPc'[d] # "mark"
    BY <1>7, <2>1 DEF FeedInv, FeedTypeOK, Die
  <2>3. Accounted' = marked
    BY <1>6, <2>2 DEF Accounted
  <2>4. Accounted = marked \cup {i}
    BY <2>1 DEF Accounted
  <2>5. QED BY <1>1, <2>3, <2>4
<1>10. ~met => Cardinality(Handlings') = deaths' + Cardinality(Accounted')
  <2> SUFFICES ASSUME ~met PROVE Cardinality(Handlings') = deaths' + Cardinality(Accounted')
    OBVIOUS
  <2>1. IsFiniteSet(Accounted) /\ Cardinality(Accounted) \in Nat /\ deaths \in Nat
    BY AccountedItems DEF FeedInv, FeedTypeOK
  <2>2. Cardinality(Accounted') = Cardinality(Accounted) - 1
    BY <1>1, <1>9, <2>1, FS_RemoveElement
  <2>3. Cardinality(Handlings) = deaths + Cardinality(Accounted)
    BY DEF FeedInv
  <2>4. QED BY <1>3, <2>1, <2>2, <2>3
<1>11. QED BY <1>2, <1>3, <1>4, <1>5, <1>6, <1>8, <1>10 DEF FeedInv, Feeding

LEMMA FeedInvStep == FeedInv /\ [FeedNext]_feedVars => FeedInv'
<1> SUFFICES ASSUME FeedInv, [FeedNext]_feedVars PROVE FeedInv'
  OBVIOUS
<1>1. CASE FeedNext
  <2>1. PICK c \in Callers :
            BeginFeed(c) \/ Skip(c) \/ Handle(c) \/ Raise(c) \/ Mark(c) \/ Return(c) \/ Die(c)
    BY <1>1 DEF FeedNext
  <2>2. CASE BeginFeed(c)
    BY <2>2, BeginFeedStep
  <2>3. CASE Skip(c)
    BY <2>3, SkipStep
  <2>4. CASE Handle(c)
    BY <2>4, HandleStep
  <2>5. CASE Raise(c) \/ Return(c)
    BY <2>5, FeedEndStep
  <2>6. CASE Mark(c)
    BY <2>6, MarkStep
  <2>7. CASE Die(c)
    <3>1. feedPc[c] \in {"next", "mark"}
      BY <2>7 DEF Die, FeedInv, FeedTypeOK
    <3>2. QED BY <2>7, <3>1, DieStep, FeedEndStep
  <2>8. QED BY <2>1, <2>2, <2>3, <2>4, <2>5, <2>6, <2>7
<1>2. CASE UNCHANGED feedVars
  BY <1>2 DEF feedVars, FeedInv, FeedTypeOK, Handlings, Accounted, Feeding, Passed
<1>3. QED BY <1>1, <1>2

\* The first returns of the accounted items and the repeats are different handlings.
LEMMA FeedInvSuffices == FeedInv => FeedIsExact
<1> SUFFICES ASSUME FeedInv, ~met PROVE Cardinality(Repeats) <= deaths
  BY DEF FeedIsExact, AgainOnlyAfterDeath, ReturnsFull, FeedInv
<1> DEFINE Firsts == {x \in Handlings : x[2] = 1 /\ x[1] \in Accounted}
<1>1. Repeats \subseteq Handlings
  BY DEF Repeats, Handlings, FeedInv, FeedTypeOK
<1>2. Repeats \cap Firsts = {}
  BY DEF Repeats, Handlings
<1>3. IsFiniteSet(Handlings) /\ IsFiniteSet(Repeats) /\ IsFiniteSet(Firsts)
  <2>1. IsFiniteSet(Handlings)
    BY DEF FeedInv
  <2>2. QED BY <2>1, <1>1, FS_Subset
<1>4. Cardinality(Accounted) <= Cardinality(Firsts)
  <2> DEFINE f == [x \in Firsts |-> x[1]]
  <2>1. f \in [Firsts -> Accounted]
    OBVIOUS
  <2>2. \A i \in Accounted : \E x \in Firsts : f[x] = i
    <3> SUFFICES ASSUME NEW i \in Accounted PROVE \E x \in Firsts : f[x] = i
      OBVIOUS
    <3>1. i \in Items /\ handled[i] >= 1 /\ handled[i] \in Nat
      BY AccountedItems DEF FeedInv, FeedTypeOK
    <3>2. <<i, 1>> \in Firsts
      BY <3>1 DEF Handlings
    <3>3. f[<<i, 1>>] = i
      BY <3>2
    <3>4. QED BY <3>2, <3>3
  <2> HIDE DEF f, Firsts
  <2>3. f \in Surjection(Firsts, Accounted)
    BY <2>1, <2>2 DEF Surjection
  <2>4. QED BY <1>3, <2>3, FS_Surjection
<1>5. Cardinality(Repeats) \in Nat /\ Cardinality(Accounted) \in Nat /\ Cardinality(Firsts) \in Nat
      /\ deaths \in Nat
  BY <1>3, FS_CardinalityType, AccountedItems DEF FeedInv, FeedTypeOK
<1>6. Cardinality(Repeats) + Cardinality(Firsts) <= Cardinality(Handlings)
  <2> HIDE DEF Firsts
  <2>1. Cardinality(Repeats \cup Firsts) = Cardinality(Repeats) + Cardinality(Firsts)
    <3>1. Cardinality(Repeats \cup Firsts)
              = Cardinality(Repeats) + Cardinality(Firsts) - Cardinality(Repeats \cap Firsts)
      BY <1>3, FS_Union
    <3>2. Cardinality(Repeats \cap Firsts) = 0
      BY <1>2, FS_EmptySet
    <3>3. QED BY <1>5, <3>1, <3>2
  <2>2. Repeats \cup Firsts \subseteq Handlings
    BY <1>1 DEF Firsts
  <2>3. QED BY <1>3, <2>1, <2>2, FS_Subset
<1>7. Cardinality(Handlings) = deaths + Cardinality(Accounted)
  BY DEF FeedInv
<1> HIDE DEF Firsts
<1>8. QED BY <1>4, <1>6, <1>5, <1>7

\* process_items handles an item again only because a call died between its handler and its
\* mark, as long as calls do not overlap, and a call that returns leaves no item unmarked.
THEOREM FeedStaysExact == FeedSpec => []FeedIsExact
<1>1. FeedInit => FeedInv
  BY FeedInvInit
<1>2. FeedInv /\ [FeedNext]_feedVars => FeedInv'
  BY FeedInvStep
<1>3. FeedInv => FeedIsExact
  BY FeedInvSuffices
<1>4. QED BY <1>1, <1>2, <1>3, PTL DEF FeedSpec

----------------------------------------------------------------------------
(* Console: the index of deployments                                        *)

Placements == UNION {[D -> Projects] : D \in SUBSET Pipelines}

OperatorState ==
    {NoOne} \cup [at : {"read", "stop"}, name : Pipelines, dir : Projects]
            \cup [at : {"truncate", "write"}, name : Pipelines, dir : Projects, copy : Placements]

IndexTypes ==
    /\ index \in [torn : BOOLEAN, dirs : Placements]
    /\ latest \in Placements
    /\ deployed \in [Projects -> [running : SUBSET Pipelines, stopped : SUBSET Pipelines]]
    /\ operator \in [Operators -> OperatorState]

Grounded(dirs) == \A n \in DOMAIN dirs : n \in Known(dirs[n])
Carrying(o) == operator[o].at \in {"truncate", "write"}

\* What is written somewhere, or about to be, was deployed where it says; and without a
\* registration that overlapped or died, the one at work carries all there was.
IndexInv ==
    /\ IndexTypes
    /\ Grounded(index.dirs)
    /\ \A o \in Operators :
          /\ operator[o] # NoOne => operator[o].name \in Known(operator[o].dir)
          /\ Carrying(o) => Grounded(operator[o].copy)
    /\ ~contended =>
          /\ \A o, p \in Operators : Registering(o) /\ Registering(p) => o = p
          /\ \A o \in Operators : Carrying(o) => operator[o].copy = latest
          /\ \A o \in Operators : operator[o].at = "write" => index = Unreadable
          /\ (\A o \in Operators : operator[o].at # "write") => index.dirs = latest

LEMMA EmptyPlacement == <<>> \in Placements /\ DOMAIN <<>> = {}
<1>1. DOMAIN <<>> = {} /\ <<>> = [n \in {} |-> n]
  OBVIOUS
<1>2. [n \in {} |-> n] \in [{} -> Projects]
  OBVIOUS
<1>3. QED BY <1>1, <1>2 DEF Placements

LEMMA PutPlaces ==
    ASSUME NEW old \in Placements, NEW n \in Pipelines, NEW d \in Projects
    PROVE  /\ Put(old, n, d) \in Placements
           /\ DOMAIN Put(old, n, d) = DOMAIN old \cup {n}
           /\ \A m \in DOMAIN Put(old, n, d) : Put(old, n, d)[m] = IF m = n THEN d ELSE old[m]
<1>1. PICK D \in SUBSET Pipelines : old \in [D -> Projects]
  BY DEF Placements
<1>2. Put(old, n, d) \in [D \cup {n} -> Projects]
  BY <1>1 DEF Put
<1>3. Put(old, n, d) \in Placements
  BY <1>2 DEF Placements
<1>4. QED BY <1>1, <1>2, <1>3 DEF Put

LEMMA OperatorFields ==
    ASSUME NEW c \in OperatorState
    PROVE  /\ c.at \in {"off", "read", "stop", "truncate", "write"}
           /\ c.at = "off" <=> c = NoOne
           /\ c # NoOne => c.name \in Pipelines /\ c.dir \in Projects
           /\ c.at \in {"truncate", "write"} => c.copy \in Placements
           /\ c.at = "truncate" =>
                 c \in [at : {"truncate", "write"}, name : Pipelines, dir : Projects, copy : Placements]
BY DEF OperatorState, NoOne

\* What was deployed once is known for good.
LEMMA KnownGrows ==
    ASSUME IndexTypes, NEW n \in Pipelines, NEW d \in Projects,
           deployed' \in {deployed, NowRunning(d, n), NowStopped(d, n)}
    PROVE  /\ deployed' \in [Projects -> [running : SUBSET Pipelines, stopped : SUBSET Pipelines]]
           /\ \A e \in Projects : Known(e) \subseteq Known(e)'
           /\ deployed' = NowRunning(d, n) => n \in Known(d)'
<1>1. CASE deployed' = deployed
  BY <1>1 DEF IndexTypes, Known, NowRunning
<1>2. CASE deployed' = NowRunning(d, n)
  <2>1. deployed' \in [Projects -> [running : SUBSET Pipelines, stopped : SUBSET Pipelines]]
    <3> DEFINE up == deployed[d].running \cup {n}
               off == deployed[d].stopped \ {n}
    <3>1. up \in SUBSET Pipelines /\ off \in SUBSET Pipelines
      BY DEF IndexTypes
    <3>2. deployed'[d] = [running |-> up, stopped |-> off]
      <4>1. deployed'[d].running = up /\ deployed'[d].stopped = off
        BY <1>2 DEF IndexTypes, NowRunning
      <4>2. deployed'[d] = [f \in {"running", "stopped"} |-> deployed'[d][f]]
        BY <1>2 DEF IndexTypes, NowRunning
      <4> HIDE DEF up, off
      <4>3. QED BY <4>1, <4>2
    <3>3. \A e \in Projects \ {d} : deployed'[e] = deployed[e]
      BY <1>2 DEF IndexTypes, NowRunning
    <3>4. deployed' = [e \in Projects |-> deployed'[e]]
      BY <1>2 DEF IndexTypes, NowRunning
    <3> HIDE DEF up, off
    <3>5. \A e \in Projects : deployed'[e] \in [running : SUBSET Pipelines, stopped : SUBSET Pipelines]
      BY <3>1, <3>2, <3>3 DEF IndexTypes
    <3>6. QED BY <3>4, <3>5
  <2>2. /\ deployed'[d].running = deployed[d].running \cup {n}
        /\ deployed'[d].stopped = deployed[d].stopped \ {n}
    BY <1>2 DEF IndexTypes, NowRunning
  <2>3. \A e \in Projects \ {d} : deployed'[e] = deployed[e]
    BY <1>2 DEF IndexTypes, NowRunning
  <2>4. QED BY <2>1, <2>2, <2>3 DEF Known
<1>3. CASE deployed' = NowStopped(d, n)
  <2>1. deployed' \in [Projects -> [running : SUBSET Pipelines, stopped : SUBSET Pipelines]]
    <3> DEFINE once == [deployed EXCEPT ![d].running = @ \ {n}]
               left == IF n \in deployed[d].running THEN deployed[d].stopped \cup {n}
                       ELSE deployed[d].stopped
    <3>1. once \in [Projects -> [running : SUBSET Pipelines, stopped : SUBSET Pipelines]]
      BY DEF IndexTypes
    <3>2. left \in SUBSET Pipelines
      BY DEF IndexTypes
    <3>3. deployed' = [once EXCEPT ![d].stopped = left]
      BY <1>3 DEF NowStopped, IndexTypes
    <3> HIDE DEF once, left
    <3>4. QED BY <3>1, <3>2, <3>3
  <2>2. /\ deployed'[d].running = deployed[d].running \ {n}
        /\ deployed'[d].stopped = IF n \in deployed[d].running THEN deployed[d].stopped \cup {n}
                                  ELSE deployed[d].stopped
    BY <1>3 DEF IndexTypes, NowStopped
  <2>3. \A e \in Projects \ {d} : deployed'[e] = deployed[e]
    BY <1>3 DEF IndexTypes, NowStopped
  <2>4. Known(d) \subseteq Known(d)'
    BY <2>2 DEF Known
  <2>5. \A e \in Projects \ {d} : Known(e) = Known(e)'
    BY <2>3 DEF Known
  <2>6. deployed' = NowRunning(d, n) => n \in Known(d)'
    <3>1. deployed' = NowRunning(d, n) => n \in deployed'[d].running
      BY DEF IndexTypes, NowRunning
    <3>2. QED BY <3>1 DEF Known
  <2>7. QED BY <2>1, <2>4, <2>5, <2>6
<1>4. QED BY <1>1, <1>2, <1>3

LEMMA GroundedStays ==
    ASSUME NEW dirs \in Placements, Grounded(dirs),
           \A e \in Projects : Known(e) \subseteq Known(e)'
    PROVE  \A n \in DOMAIN dirs : n \in Known(dirs[n])'
<1>1. \A n \in DOMAIN dirs : dirs[n] \in Projects
  BY DEF Placements
<1>2. QED BY <1>1 DEF Grounded

LEMMA IndexInvInit == ConsoleInit => IndexInv
<1> SUFFICES ASSUME ConsoleInit PROVE IndexInv
  OBVIOUS
<1>1. index = [torn |-> FALSE, dirs |-> <<>>] /\ latest = <<>>
  BY DEF ConsoleInit, Holding
<1>2. \A o \in Operators : operator[o] = NoOne
  BY DEF ConsoleInit
<1>3. operator \in [Operators -> OperatorState]
  BY DEF ConsoleInit, OperatorState
<1>4. IndexTypes
  <2>1. index \in [torn : BOOLEAN, dirs : Placements] /\ latest \in Placements
    BY <1>1, EmptyPlacement
  <2>2. deployed \in [Projects -> [running : SUBSET Pipelines, stopped : SUBSET Pipelines]]
    BY DEF ConsoleInit
  <2>3. QED BY <1>3, <2>1, <2>2 DEF IndexTypes
<1>5. Grounded(index.dirs)
  BY <1>1, EmptyPlacement DEF Grounded
<1>6. \A o \in Operators : ~Registering(o) /\ ~Carrying(o) /\ operator[o].at # "write"
  BY <1>2 DEF NoOne, Registering, Carrying
<1>7. QED BY <1>1, <1>2, <1>4, <1>5, <1>6 DEF IndexInv

\* A step of one command: it goes to a place of its own, what is deployed only grows.
LEMMA OperatorMoves ==
    ASSUME IndexInv, NEW o \in Operators, NEW c \in OperatorState,
           operator' = [operator EXCEPT ![o] = c],
           deployed' \in [Projects -> [running : SUBSET Pipelines, stopped : SUBSET Pipelines]],
           \A e \in Projects : Known(e) \subseteq Known(e)',
           index' \in [torn : BOOLEAN, dirs : Placements], latest' \in Placements,
           Grounded(index.dirs)',
           c # NoOne => c.name \in Known(c.dir)',
           c.at \in {"truncate", "write"} => Grounded(c.copy)',
           ~contended' =>
               /\ ~contended
               /\ c.at \in {"read", "truncate", "write"} =>
                      \A p \in Operators \ {o} : ~Registering(p)
               /\ c.at \in {"truncate", "write"} => c.copy = latest'
               /\ c.at = "write" => index' = Unreadable
               /\ (\A p \in Operators \ {o} : operator[p].at # "write") /\ c.at # "write"
                      => index'.dirs = latest'
               /\ latest' = latest \/ \A p \in Operators \ {o} : ~Registering(p)
               /\ index' = index \/ \A p \in Operators \ {o} : ~Registering(p)
    PROVE  IndexInv'
<1>1. operator' \in [Operators -> OperatorState] /\ operator'[o] = c
      /\ \A p \in Operators \ {o} : operator'[p] = operator[p] /\ operator[p] \in OperatorState
  BY DEF IndexInv, IndexTypes
<1>2. IndexTypes'
  BY <1>1 DEF IndexTypes
<1>3. (Registering(o)' <=> c.at \in {"read", "truncate", "write"})
      /\ (Carrying(o)' <=> c.at \in {"truncate", "write"})
  BY <1>1 DEF Registering, Carrying
<1>4. \A p \in Operators \ {o} : (Registering(p)' <=> Registering(p)) /\ (Carrying(p)' <=> Carrying(p))
  BY <1>1 DEF Registering, Carrying
<1>5. \A p \in Operators : Carrying(p) => Registering(p)
  BY DEF Registering, Carrying
<1>6. ASSUME NEW p \in Operators
      PROVE  /\ (operator[p] # NoOne => operator[p].name \in Known(operator[p].dir))'
             /\ (Carrying(p) => Grounded(operator[p].copy))'
  <2>1. CASE p = o
    <3>1. operator'[p] = c
      BY <1>1, <2>1
    <3>2. (operator[p] # NoOne => operator[p].name \in Known(operator[p].dir))'
      BY <3>1 DEF Known, NoOne
    <3>3. (Carrying(p) => Grounded(operator[p].copy))'
      BY <1>3, <2>1, <3>1 DEF Grounded, Known
    <3>4. QED BY <3>2, <3>3
  <2>2. CASE p # o
    <3>1. operator'[p] = operator[p] /\ operator[p] \in OperatorState
      BY <1>1, <2>2
    <3>2. PICK k \in OperatorState : k = operator[p]
      BY <3>1
    <3>3. k # NoOne => k.dir \in Projects /\ k.name \in Known(k.dir)
      BY <3>2, OperatorFields DEF IndexInv
    <3>4. k # NoOne => k.name \in Known(k.dir)'
      BY <3>3
    <3>5. Carrying(p)' => k.copy \in Placements /\ Grounded(k.copy)
      BY <1>4, <2>2, <3>2, OperatorFields DEF IndexInv, Carrying
    <3>6. Carrying(p)' => \A n \in DOMAIN k.copy : n \in Known(k.copy[n])'
      BY <3>5, GroundedStays
    <3>7. (operator[p] # NoOne => operator[p].name \in Known(operator[p].dir))'
      BY <3>1, <3>2, <3>4 DEF Known, NoOne
    <3>8. (Carrying(p) => Grounded(operator[p].copy))'
      BY <3>1, <3>2, <3>6 DEF Grounded, Known
    <3>9. QED BY <3>7, <3>8
  <2>3. QED BY <2>1, <2>2
<1>7. ~contended' =>
          /\ \A p, q \in Operators : Registering(p)' /\ Registering(q)' => p = q
          /\ \A p \in Operators : Carrying(p)' => operator'[p].copy = latest'
          /\ \A p \in Operators : operator'[p].at = "write" => index' = Unreadable
          /\ (\A p \in Operators : operator'[p].at # "write") => index'.dirs = latest'
  <2> SUFFICES ASSUME ~contended'
               PROVE  /\ \A p, q \in Operators : Registering(p)' /\ Registering(q)' => p = q
                      /\ \A p \in Operators : Carrying(p)' => operator'[p].copy = latest'
                      /\ \A p \in Operators : operator'[p].at = "write" => index' = Unreadable
                      /\ (\A p \in Operators : operator'[p].at # "write") => index'.dirs = latest'
    OBVIOUS
  <2>1. /\ \A p, q \in Operators : Registering(p) /\ Registering(q) => p = q
        /\ \A p \in Operators : Carrying(p) => operator[p].copy = latest
        /\ \A p \in Operators : operator[p].at = "write" => index = Unreadable
    BY DEF IndexInv
  <2>2. \A p, q \in Operators : Registering(p)' /\ Registering(q)' => p = q
    BY <1>3, <1>4, <2>1
  <2>3. ASSUME NEW p \in Operators, Carrying(p)' PROVE operator'[p].copy = latest'
    <3>1. CASE p = o
      BY <1>1, <1>3, <2>3, <3>1
    <3>2. CASE p # o
      BY <1>1, <1>4, <1>5, <2>1, <2>3, <3>2
    <3>3. QED BY <3>1, <3>2
  <2>4. ASSUME NEW p \in Operators, operator'[p].at = "write" PROVE index' = Unreadable
    <3>1. CASE p = o
      BY <1>1, <2>4, <3>1
    <3>2. CASE p # o
      <4>1. operator[p].at = "write" /\ Registering(p)
        BY <1>1, <2>4, <3>2 DEF Registering
      <4>2. QED BY <2>1, <3>2, <4>1
    <3>3. QED BY <3>1, <3>2
  <2>5. (\A p \in Operators : operator'[p].at # "write") => index'.dirs = latest'
    BY <1>1
  <2>6. QED BY <2>2, <2>3, <2>4, <2>5
<1>8. Unreadable' = Unreadable
  BY DEF Unreadable
<1>9. QED BY <1>2, <1>6, <1>7, <1>8 DEF IndexInv

LEMMA KnownStays ==
    ASSUME IndexInv, UNCHANGED deployed
    PROVE  /\ deployed' \in [Projects -> [running : SUBSET Pipelines, stopped : SUBSET Pipelines]]
           /\ \A e \in Projects : Known(e) \subseteq Known(e)'
           /\ \A dirs \in Placements : Grounded(dirs) => Grounded(dirs)'
BY DEF IndexInv, IndexTypes, Known, Grounded

\* Where nothing overlapped, nobody registers next to one that does.
LEMMA Alone ==
    ASSUME IndexInv, ~contended, NEW o \in Operators, Registering(o)
    PROVE  \A p \in Operators \ {o} : ~Registering(p) /\ operator[p].at # "write"
BY DEF IndexInv, Registering

LEMMA CrawDeployStep ==
    ASSUME IndexInv, NEW o \in Operators, NEW n \in Pipelines, NEW d \in Projects,
           CrawDeploy(o, n, d)
    PROVE  IndexInv'
<1>1. PICK c \in OperatorState : c = [at |-> "read", name |-> n, dir |-> d]
  BY DEF OperatorState
<1>2. operator[o] = NoOne /\ operator' = [operator EXCEPT ![o] = c] /\ UNCHANGED <<index, latest>>
  BY <1>1 DEF CrawDeploy
<1>3. /\ deployed' \in [Projects -> [running : SUBSET Pipelines, stopped : SUBSET Pipelines]]
      /\ \A e \in Projects : Known(e) \subseteq Known(e)'
      /\ n \in Known(d)'
  BY KnownGrows DEF CrawDeploy, IndexInv
<1>4. /\ index \in [torn : BOOLEAN, dirs : Placements] /\ latest \in Placements
      /\ Grounded(index.dirs)
  BY DEF IndexInv, IndexTypes
<1>5. Grounded(index.dirs)'
  BY <1>2, <1>3, <1>4, GroundedStays DEF Grounded
<1>6. c # NoOne => c.name \in Known(c.dir)'
  BY <1>1, <1>3
<1>7. ~contended' => ~contended /\ \A p \in Operators \ {o} : ~Registering(p)
  BY DEF CrawDeploy, Clash
<1>8. (\A p \in Operators \ {o} : operator[p].at # "write") /\ ~contended => index'.dirs = latest'
  BY <1>2 DEF IndexInv, NoOne
<1>9. c.at = "read"
  BY <1>1
<1>10. QED BY <1>2, <1>3, <1>4, <1>5, <1>6, <1>7, <1>8, <1>9, OperatorMoves

LEMMA ReadIndexStep ==
    ASSUME IndexInv, NEW o \in Operators, ReadIndex(o)
    PROVE  IndexInv'
<1>1. PICK k \in OperatorState : k = operator[o]
  BY DEF IndexInv, IndexTypes
<1>2. k.at = "read" /\ k.name \in Pipelines /\ k.dir \in Projects /\ k.name \in Known(k.dir)
  BY <1>1, OperatorFields DEF ReadIndex, IndexInv, NoOne
<1>3. /\ index \in [torn : BOOLEAN, dirs : Placements] /\ latest \in Placements
      /\ Grounded(index.dirs) /\ UNCHANGED <<index, deployed, latest, contended>>
  BY DEF IndexInv, IndexTypes, ReadIndex
<1>4. PICK was \in Placements : was = index.dirs
  BY <1>3
<1>5. PICK c \in OperatorState :
          c = [at |-> "truncate", name |-> k.name, dir |-> k.dir, copy |-> was]
  BY <1>2 DEF OperatorState
<1>6. operator' = [operator EXCEPT ![o] = c]
  BY <1>1, <1>4, <1>5 DEF ReadIndex, Readable
<1>7. /\ deployed' \in [Projects -> [running : SUBSET Pipelines, stopped : SUBSET Pipelines]]
      /\ \A e \in Projects : Known(e) \subseteq Known(e)'
      /\ Grounded(was)'
  BY <1>3, <1>4, KnownStays
<1>8. Grounded(index.dirs)'
  BY <1>3, <1>4, <1>7 DEF Grounded, Known
<1>9. c.name \in Known(c.dir)' /\ Grounded(c.copy)'
  BY <1>2, <1>5, <1>7
<1>10. ~contended => /\ \A p \in Operators \ {o} : ~Registering(p)
                     /\ index.dirs = latest /\ was = latest
  <2> SUFFICES ASSUME ~contended
               PROVE  (\A p \in Operators \ {o} : ~Registering(p)) /\ index.dirs = latest
    BY <1>4
  <2>1. Registering(o) /\ operator[o].at # "write"
    BY <1>1, <1>2 DEF Registering
  <2>2. \A p \in Operators \ {o} : ~Registering(p) /\ operator[p].at # "write"
    BY <2>1, Alone
  <2>3. QED BY <2>1, <2>2 DEF IndexInv
<1>11. c.at = "truncate" /\ c.copy = was
  BY <1>5
<1>12. QED BY <1>3, <1>6, <1>7, <1>8, <1>9, <1>10, <1>11, OperatorMoves

LEMMA TruncateStep ==
    ASSUME IndexInv, NEW o \in Operators, Truncate(o)
    PROVE  IndexInv'
<1>1. PICK k \in OperatorState : k = operator[o]
  BY DEF IndexInv, IndexTypes
<1>2. /\ k.at = "truncate" /\ k.name \in Known(k.dir)
      /\ k \in [at : {"truncate", "write"}, name : Pipelines, dir : Projects, copy : Placements]
      /\ Grounded(k.copy)
  BY <1>1, OperatorFields DEF Truncate, IndexInv, NoOne, Carrying
<1>3. PICK c \in OperatorState : c = [k EXCEPT !.at = "write"]
  BY <1>2 DEF OperatorState
<1>4. operator' = [operator EXCEPT ![o] = c]
  BY <1>1, <1>3 DEF Truncate
<1>5. c.at = "write" /\ c.name = k.name /\ c.dir = k.dir /\ c.copy = k.copy /\ k.copy \in Placements
  BY <1>2, <1>3
<1>6. UNCHANGED <<deployed, latest, contended>> /\ index' = Unreadable
  BY DEF Truncate
<1>7. /\ deployed' \in [Projects -> [running : SUBSET Pipelines, stopped : SUBSET Pipelines]]
      /\ \A e \in Projects : Known(e) \subseteq Known(e)'
      /\ Grounded(k.copy)'
  BY <1>2, <1>5, <1>6, KnownStays
<1>8. latest' \in Placements /\ index' \in [torn : BOOLEAN, dirs : Placements]
  BY <1>6, EmptyPlacement DEF IndexInv, IndexTypes, Unreadable
<1>9. Grounded(index.dirs)'
  BY <1>6, EmptyPlacement DEF Grounded, Unreadable
<1>10. c.name \in Known(c.dir)' /\ Grounded(c.copy)'
  BY <1>2, <1>5, <1>7
<1>11. ~contended => (\A p \in Operators \ {o} : ~Registering(p)) /\ k.copy = latest
  <2>1. Registering(o) /\ Carrying(o)
    BY <1>1, <1>2 DEF Registering, Carrying
  <2>2. QED BY <1>1, <2>1, Alone DEF IndexInv
<1>12. QED BY <1>4, <1>5, <1>6, <1>7, <1>8, <1>9, <1>10, <1>11, OperatorMoves

LEMMA WriteIndexStep ==
    ASSUME IndexInv, NEW o \in Operators, WriteIndex(o)
    PROVE  IndexInv'
<1>1. PICK k \in OperatorState : k = operator[o]
  BY DEF IndexInv, IndexTypes
<1>2. /\ k.at = "write" /\ k.name \in Known(k.dir) /\ k.name \in Pipelines /\ k.dir \in Projects
      /\ k.copy \in Placements /\ Grounded(k.copy)
  BY <1>1, OperatorFields DEF WriteIndex, IndexInv, NoOne, Carrying
<1>3. PICK new \in Placements : new = Put(k.copy, k.name, k.dir)
  BY <1>2, PutPlaces
<1>4. \A n \in DOMAIN new : n \in Known(new[n])
  <2>1. PICK was \in Placements, m \in Pipelines, d \in Projects :
            was = k.copy /\ m = k.name /\ d = k.dir
    BY <1>2
  <2>2. /\ DOMAIN Put(was, m, d) = DOMAIN was \cup {m}
        /\ \A n \in DOMAIN Put(was, m, d) : Put(was, m, d)[n] = IF n = m THEN d ELSE was[n]
    BY DEF Put
  <2>3. new = Put(was, m, d)
    BY <1>3, <2>1
  <2>4. \A n \in DOMAIN new : (n \in DOMAIN was \/ n = m) /\ new[n] = IF n = m THEN d ELSE was[n]
    BY <2>2, <2>3
  <2>5. QED BY <1>2, <2>1, <2>4 DEF Grounded
<1>5. /\ index' = [torn |-> FALSE, dirs |-> new] \/ (index' = Unreadable /\ index # Unreadable)
      /\ latest' = Put(latest, k.name, k.dir) /\ operator' = [operator EXCEPT ![o] = NoOne]
      /\ UNCHANGED <<deployed, contended>>
  BY <1>1, <1>3 DEF WriteIndex, Merged, Holding
<1>6. /\ deployed' \in [Projects -> [running : SUBSET Pipelines, stopped : SUBSET Pipelines]]
      /\ \A e \in Projects : Known(e) \subseteq Known(e)'
      /\ Grounded(new)'
  BY <1>4, <1>5, KnownStays DEF Grounded
<1>7. index' \in [torn : BOOLEAN, dirs : Placements] /\ Grounded(index.dirs)'
  <2>1. CASE index' = [torn |-> FALSE, dirs |-> new]
    <3>1. index' \in [torn : BOOLEAN, dirs : Placements] /\ index'.dirs = new
      BY <2>1
    <3>2. QED BY <1>6, <3>1 DEF Grounded
  <2>2. CASE index' = Unreadable
    BY <2>2, EmptyPlacement DEF Grounded, Unreadable
  <2>3. QED BY <1>5, <2>1, <2>2
<1>8. latest' \in Placements
  BY <1>2, <1>5, PutPlaces DEF IndexInv, IndexTypes
<1>9. NoOne \in OperatorState /\ NoOne.at = "off"
  BY DEF OperatorState, NoOne
<1>10. ~contended => (\A p \in Operators \ {o} : ~Registering(p)) /\ index'.dirs = latest'
  <2> SUFFICES ASSUME ~contended
               PROVE  (\A p \in Operators \ {o} : ~Registering(p)) /\ index'.dirs = latest'
    OBVIOUS
  <2>1. Registering(o) /\ Carrying(o) /\ operator[o].at = "write"
    BY <1>1, <1>2 DEF Registering, Carrying
  <2>2. k.copy = latest /\ index = Unreadable
    BY <1>1, <2>1 DEF IndexInv
  <2>3. index'.dirs = new /\ new = latest'
    BY <1>3, <1>5, <2>2
  <2>4. QED BY <2>1, <2>3, Alone
<1>11. QED BY <1>5, <1>6, <1>7, <1>8, <1>9, <1>10, OperatorMoves

LEMMA OperatorDiesStep ==
    ASSUME IndexInv, NEW o \in Operators, OperatorDies(o)
    PROVE  IndexInv'
<1>1. operator' = [operator EXCEPT ![o] = NoOne] /\ contended' = TRUE
      /\ UNCHANGED <<index, deployed, latest>>
  BY DEF OperatorDies
<1>2. /\ index \in [torn : BOOLEAN, dirs : Placements] /\ latest \in Placements
      /\ Grounded(index.dirs)
  BY DEF IndexInv, IndexTypes
<1>3. /\ deployed' \in [Projects -> [running : SUBSET Pipelines, stopped : SUBSET Pipelines]]
      /\ \A e \in Projects : Known(e) \subseteq Known(e)'
      /\ Grounded(index.dirs)'
  BY <1>1, <1>2, KnownStays DEF Grounded, Known
<1>4. NoOne \in OperatorState /\ NoOne.at = "off"
  BY DEF OperatorState, NoOne
<1>5. QED BY <1>1, <1>2, <1>3, <1>4, OperatorMoves

LEMMA CodeDeployStep ==
    ASSUME IndexInv, NEW n \in Pipelines, NEW d \in Projects, CodeDeploy(n, d)
    PROVE  IndexInv'
<1>1. /\ deployed' \in [Projects -> [running : SUBSET Pipelines, stopped : SUBSET Pipelines]]
      /\ \A e \in Projects : Known(e) \subseteq Known(e)'
  BY KnownGrows DEF IndexInv, CodeDeploy
<1>2. UNCHANGED <<index, operator, latest, contended>>
  BY DEF CodeDeploy
<1>3. IndexTypes'
  BY <1>1, <1>2 DEF IndexInv, IndexTypes
<1>4. \A dirs \in Placements : Grounded(dirs) => \A m \in DOMAIN dirs : m \in Known(dirs[m])'
  BY <1>1, GroundedStays
<1>5. Grounded(index.dirs)'
  BY <1>2, <1>4 DEF IndexInv, IndexTypes, Grounded
<1>6. ASSUME NEW p \in Operators
      PROVE  /\ (operator[p] # NoOne => operator[p].name \in Known(operator[p].dir))'
             /\ (Carrying(p) => Grounded(operator[p].copy))'
  <2>1. PICK k \in OperatorState : k = operator[p]
    BY DEF IndexInv, IndexTypes
  <2>2. k # NoOne => k.name \in Known(k.dir)'
    BY <1>1, <2>1, OperatorFields DEF IndexInv
  <2>3. k.at \in {"truncate", "write"} => \A m \in DOMAIN k.copy : m \in Known(k.copy[m])'
    BY <1>4, <2>1, OperatorFields DEF IndexInv, Carrying
  <2>4. (operator[p] # NoOne => operator[p].name \in Known(operator[p].dir))'
    BY <1>2, <2>1, <2>2 DEF Known, NoOne
  <2>5. (Carrying(p) => Grounded(operator[p].copy))'
    BY <1>2, <2>1, <2>3 DEF Carrying, Grounded, Known
  <2>6. QED BY <2>4, <2>5
<1>7. QED BY <1>2, <1>3, <1>5, <1>6 DEF IndexInv, Registering, Carrying, Unreadable

LEMMA ResolveDirStep ==
    ASSUME IndexInv, NEW o \in Operators, NEW n \in Pipelines, ResolveDir(o, n)
    PROVE  IndexInv'
<1>1. /\ operator[o] = NoOne /\ n \in DOMAIN index.dirs
      /\ UNCHANGED <<index, deployed, latest, contended>>
  BY DEF ResolveDir, Readable
<1>2. /\ index \in [torn : BOOLEAN, dirs : Placements] /\ latest \in Placements
      /\ Grounded(index.dirs)
  BY DEF IndexInv, IndexTypes
<1>3. PICK d \in Projects : d = index.dirs[n]
  BY <1>1, <1>2 DEF Placements
<1>4. PICK c \in OperatorState : c = [at |-> "stop", name |-> n, dir |-> d]
  BY DEF OperatorState
<1>5. operator' = [operator EXCEPT ![o] = c] /\ c.at = "stop"
  BY <1>3, <1>4 DEF ResolveDir, Readable
<1>6. /\ deployed' \in [Projects -> [running : SUBSET Pipelines, stopped : SUBSET Pipelines]]
      /\ \A e \in Projects : Known(e) \subseteq Known(e)'
      /\ Grounded(index.dirs)'
  BY <1>1, <1>2, KnownStays DEF Grounded, Known
<1>7. n \in Known(d)
  BY <1>1, <1>2, <1>3 DEF Grounded
<1>8. c.name \in Known(c.dir)'
  BY <1>4, <1>6, <1>7
<1>9. ~contended /\ (\A p \in Operators \ {o} : operator[p].at # "write") => index'.dirs = latest'
  BY <1>1 DEF IndexInv, NoOne
<1>10. QED BY <1>1, <1>2, <1>5, <1>6, <1>8, <1>9, OperatorMoves

LEMMA StopThereStep ==
    ASSUME IndexInv, NEW o \in Operators, StopThere(o)
    PROVE  IndexInv'
<1>1. PICK k \in OperatorState : k = operator[o]
  BY DEF IndexInv, IndexTypes
<1>2. k.at = "stop" /\ k.name \in Pipelines /\ k.dir \in Projects
  BY <1>1, OperatorFields DEF StopThere, NoOne
<1>3. operator' = [operator EXCEPT ![o] = NoOne] /\ UNCHANGED <<index, latest, contended>>
  BY DEF StopThere
<1>4. /\ deployed' \in [Projects -> [running : SUBSET Pipelines, stopped : SUBSET Pipelines]]
      /\ \A e \in Projects : Known(e) \subseteq Known(e)'
  BY <1>1, <1>2, KnownGrows DEF StopThere, IndexInv
<1>5. /\ index \in [torn : BOOLEAN, dirs : Placements] /\ latest \in Placements
      /\ Grounded(index.dirs)
  BY DEF IndexInv, IndexTypes
<1>6. Grounded(index.dirs)'
  BY <1>3, <1>4, <1>5, GroundedStays DEF Grounded
<1>7. NoOne \in OperatorState /\ NoOne.at = "off"
  BY DEF OperatorState, NoOne
<1>8. ~contended /\ (\A p \in Operators \ {o} : operator[p].at # "write") => index'.dirs = latest'
  BY <1>1, <1>2, <1>3 DEF IndexInv
<1>9. QED BY <1>3, <1>4, <1>5, <1>6, <1>7, <1>8, OperatorMoves

LEMMA IndexInvStep == IndexInv /\ [IndexNext]_indexVars => IndexInv'
<1> SUFFICES ASSUME IndexInv, [IndexNext]_indexVars PROVE IndexInv'
  OBVIOUS
<1>1. CASE IndexNext
  <2>1. CASE \E n \in Pipelines, d \in Projects : CodeDeploy(n, d)
    BY <2>1, CodeDeployStep
  <2>2. CASE \E o \in Operators, n \in Pipelines :
                 ResolveDir(o, n) \/ \E d \in Projects : CrawDeploy(o, n, d)
    BY <2>2, ResolveDirStep, CrawDeployStep
  <2>3. CASE \E o \in Operators :
                 ReadIndex(o) \/ Truncate(o) \/ WriteIndex(o) \/ OperatorDies(o) \/ StopThere(o)
    BY <2>3, ReadIndexStep, TruncateStep, WriteIndexStep, OperatorDiesStep, StopThereStep
  <2>4. QED BY <1>1, <2>1, <2>2, <2>3 DEF IndexNext
<1>2. CASE UNCHANGED indexVars
  BY <1>2 DEF indexVars, IndexInv, IndexTypes, Grounded, Known, Carrying, Registering, Unreadable
<1>3. QED BY <1>1, <1>2

LEMMA IndexInvSuffices == IndexInv => IndexIsGrounded /\ IndexKept
BY DEF IndexInv, IndexIsGrounded, IndexKept, Readable, Grounded, Registering

----------------------------------------------------------------------------
(* Console: the stream of a run                                             *)

EventState == [kind : {"suspended", "start", "model", "done", "failed"}, cost : Nat]

\* No attempt has cost more than all models charged, and who is done has told what its last
\* attempt cost.
StreamInv ==
    /\ events \in Seq(EventState)
    /\ unit \in [Units -> [at : {"new", "open", "over"}, attempt : Nat]]
    /\ told \in Seq(EventState) /\ IsPrefix(told, events)
    /\ IsFiniteSet(Charges)
    /\ \A u \in Units : unit[u].attempt <= Charged
    /\ \A i \in Ended({"done"}) : \E u \in Units :
           unit[u].at = "over" /\ unit[u].attempt = events[i].cost

LEMMA PriceOf ==
    ASSUME NEW x, NEW price \in Nat
    PROVE  IsFiniteSet({x} \X (1 .. price)) /\ Cardinality({x} \X (1 .. price)) = price
<1> DEFINE S == 1 .. price
           T == {x} \X S
           f == [k \in S |-> <<x, k>>]
<1>1. IsFiniteSet(S) /\ Cardinality(S) = price
  <2>1. 1 \in Int /\ price \in Int /\ (1 > price => price = 0)
    OBVIOUS
  <2>2. QED BY <2>1, FS_Interval
<1>2. f \in Injection(S, T)
  <2>1. f \in [S -> T]
    OBVIOUS
  <2>2. \A k, m \in S : f[k] = f[m] => k = m
    OBVIOUS
  <2> HIDE DEF f, S, T
  <2>3. QED BY <2>1, <2>2 DEF Injection, IsInjective
<1>3. f \in Surjection(S, T)
  <2>1. f \in [S -> T]
    OBVIOUS
  <2>2. \A t \in T : \E k \in S : f[k] = t
    OBVIOUS
  <2> HIDE DEF f, S, T
  <2>3. QED BY <2>1, <2>2 DEF Surjection
<1> HIDE DEF f, S, T
<1>4. ExistsBijection(S, T)
  BY <1>2, <1>3 DEF ExistsBijection, Bijection
<1>5. IsFiniteSet(T) /\ Cardinality(T) = Cardinality(S)
  BY <1>1, <1>4, FS_Bijection
<1>6. QED BY <1>1, <1>5 DEF S, T

\* The charges of a stream grow by the price of a model call, and by nothing else.
LEMMA EmitCharges ==
    ASSUME StreamInv, NEW kind \in {"suspended", "start", "model", "done", "failed"},
           NEW cost \in Nat, Emit(kind, cost)
    PROVE  /\ events' \in Seq(EventState)
           /\ IsFiniteSet(Charges') /\ Charged \in Nat
           /\ Charged' = Charged + (IF kind = "model" THEN cost ELSE 0)
           /\ \A i \in Ended({"done"})' :
                 \/ i \in Ended({"done"}) /\ events'[i] = events[i]
                 \/ kind = "done" /\ events'[i].cost = cost
           /\ \A s \in Seq(EventState) : IsPrefix(s, events) => IsPrefix(s, events')
<1> DEFINE n == Len(events) + 1
           e == [kind |-> kind, cost |-> cost]
<1>1. e \in EventState /\ events \in Seq(EventState) /\ events' = Append(events, e)
  BY DEF EventState, StreamInv, Emit
<1>2. Len(events) \in Nat
  BY <1>1
<1>3. events' \in Seq(EventState) /\ Len(events') = n /\ events'[n] = e
      /\ \A i \in 1 .. Len(events) : events'[i] = events[i]
  BY <1>1
<1>4. DOMAIN events = 1 .. Len(events) /\ DOMAIN events' = DOMAIN events \cup {n}
  <2>1. DOMAIN events = 1 .. Len(events) /\ DOMAIN events' = 1 .. n
    BY <1>1, <1>3
  <2>2. 1 .. n = 1 .. Len(events) \cup {n}
    BY <1>2
  <2>3. QED BY <2>1, <2>2
<1>5. n \notin DOMAIN events
  BY <1>2, <1>4
<1>6. Charges' = Charges \cup (IF kind = "model" THEN {n} \X (1 .. cost) ELSE {})
  <2> DEFINE old == {i \in DOMAIN events : events[i].kind \in {"model"}}
             new == {i \in DOMAIN events' : events'[i].kind \in {"model"}}
  <2>1. new = old \cup (IF kind = "model" THEN {n} ELSE {})
    BY <1>3, <1>4
  <2>2. Charges = UNION {{i} \X (1 .. events[i].cost) : i \in old}
    BY DEF Charges, Ended
  <2>3. Charges' = UNION {{i} \X (1 .. events'[i].cost) : i \in new}
    BY DEF Charges, Ended
  <2>4. \A i \in old : events'[i].cost = events[i].cost
    BY <1>3, <1>4
  <2>5. kind = "model" => events'[n].cost = cost
    BY <1>3
  <2> HIDE DEF old, new, n
  <2>6. QED BY <2>1, <2>2, <2>3, <2>4, <2>5
<1>7. Charges \cap ({n} \X (1 .. cost)) = {}
  BY <1>5 DEF Charges, Ended
<1>8. IsFiniteSet(Charges) /\ Charged \in Nat
  BY FS_CardinalityType DEF StreamInv, Charged
<1>9. IsFiniteSet(Charges') /\ Charged' = Charged + (IF kind = "model" THEN cost ELSE 0)
  <2>1. CASE kind = "model"
    <3> DEFINE P == {n} \X (1 .. cost)
    <3>1. IsFiniteSet(P) /\ Cardinality(P) = cost
      BY PriceOf
    <3> HIDE DEF P
    <3>2. Charges' = Charges \cup P /\ Charges \cap P = {}
      BY <1>6, <1>7, <2>1 DEF P
    <3>3. IsFiniteSet(Charges \cup P)
          /\ Cardinality(Charges \cup P) = Cardinality(Charges) + cost - Cardinality(Charges \cap P)
      BY <1>8, <3>1, FS_Union
    <3>4. Cardinality(Charges \cap P) = 0
      BY <3>2, FS_EmptySet
    <3>5. Cardinality(Charges') = Cardinality(Charges) + cost
      BY <1>8, <3>2, <3>3, <3>4 DEF Charged
    <3>6. QED BY <2>1, <3>2, <3>3, <3>5 DEF Charged
  <2>2. CASE kind # "model"
    <3>1. Charges' = Charges
      BY <1>6, <2>2
    <3>2. QED BY <1>8, <2>2, <3>1 DEF Charged
  <2>3. QED BY <2>1, <2>2
<1>10. ASSUME NEW i \in Ended({"done"})'
       PROVE  \/ i \in Ended({"done"}) /\ events'[i] = events[i]
              \/ kind = "done" /\ events'[i].cost = cost
  <2>1. i \in DOMAIN events' /\ events'[i].kind = "done"
    BY <1>10 DEF Ended
  <2>2. CASE i = n
    BY <1>3, <2>1, <2>2
  <2>3. CASE i \in DOMAIN events
    BY <1>3, <1>4, <2>1, <2>3 DEF Ended
  <2>4. QED BY <1>4, <2>1, <2>2, <2>3
<1>11. ASSUME NEW s \in Seq(EventState), IsPrefix(s, events) PROVE IsPrefix(s, events')
  <2>1. Len(s) \in Nat /\ Len(s) <= Len(events) /\ SubSeq(s, 1, Len(s)) = SubSeq(events, 1, Len(s))
    BY <1>11 DEF IsPrefix
  <2>2. SubSeq(events', 1, Len(s)) = SubSeq(events, 1, Len(s))
    BY <1>1, <1>2, <1>3, <2>1
  <2>3. QED BY <1>2, <1>3, <2>1, <2>2 DEF IsPrefix
<1>12. QED BY <1>3, <1>8, <1>9, <1>10, <1>11

LEMMA StreamInvInit == ConsoleInit => StreamInv
<1> SUFFICES ASSUME ConsoleInit PROVE StreamInv
  OBVIOUS
<1>1. events = <<>> /\ told = <<>> /\ unit = [u \in Units |-> [at |-> "new", attempt |-> 0]]
  BY DEF ConsoleInit
<1>2. events \in Seq(EventState) /\ told \in Seq(EventState) /\ IsPrefix(told, events)
  BY <1>1 DEF IsPrefix
<1>3. DOMAIN events = {}
  BY <1>1
<1>4. Charges = {} /\ Ended({"done"}) = {}
  BY <1>3 DEF Charges, Ended
<1>5. IsFiniteSet(Charges) /\ Charged = 0
  BY <1>4, FS_EmptySet DEF Charged
<1>6. unit \in [Units -> [at : {"new", "open", "over"}, attempt : Nat]]
  BY <1>1
<1>7. \A u \in Units : unit[u].attempt <= Charged
  BY <1>1, <1>5
<1>8. QED BY <1>2, <1>4, <1>5, <1>6, <1>7 DEF StreamInv

\* A step of one Run: it emits an event, its attempt stays within what is charged.
LEMMA UnitMoves ==
    ASSUME StreamInv, NEW u \in Units, NEW kind \in {"suspended", "start", "model", "done", "failed"},
           NEW cost \in Nat, Emit(kind, cost), UNCHANGED told,
           NEW c \in [at : {"new", "open", "over"}, attempt : Nat],
           unit' = [unit EXCEPT ![u] = c],
           unit[u].at # "over",
           c.attempt <= Charged + (IF kind = "model" THEN cost ELSE 0),
           kind = "done" => c.at = "over" /\ cost = c.attempt
    PROVE  StreamInv'
<1>1. /\ events' \in Seq(EventState)
      /\ IsFiniteSet(Charges') /\ Charged \in Nat
      /\ Charged' = Charged + (IF kind = "model" THEN cost ELSE 0)
      /\ \A i \in Ended({"done"})' :
            \/ i \in Ended({"done"}) /\ events'[i] = events[i]
            \/ kind = "done" /\ events'[i].cost = cost
      /\ \A s \in Seq(EventState) : IsPrefix(s, events) => IsPrefix(s, events')
  BY EmitCharges
<1>2. unit' \in [Units -> [at : {"new", "open", "over"}, attempt : Nat]] /\ unit'[u] = c
      /\ \A v \in Units \ {u} : unit'[v] = unit[v]
  BY DEF StreamInv
<1>3. Charged' \in Nat /\ Charged <= Charged'
  BY <1>1
<1>4. \A v \in Units : unit'[v].attempt <= Charged'
  <2>1. unit'[u].attempt <= Charged'
    BY <1>1, <1>2
  <2>2. ASSUME NEW v \in Units \ {u} PROVE unit'[v].attempt <= Charged'
    <3>1. unit'[v].attempt = unit[v].attempt /\ unit[v].attempt \in Nat
          /\ unit[v].attempt <= Charged
      BY <1>2 DEF StreamInv
    <3>2. QED BY <1>1, <1>3, <3>1
  <2>3. QED BY <2>1, <2>2
<1>5. ASSUME NEW i \in Ended({"done"})'
      PROVE  \E v \in Units : unit'[v].at = "over" /\ unit'[v].attempt = events'[i].cost
  <2>1. CASE i \in Ended({"done"}) /\ events'[i] = events[i]
    <3>1. PICK v \in Units : unit[v].at = "over" /\ unit[v].attempt = events[i].cost
      BY <2>1 DEF StreamInv
    <3>2. QED BY <1>2, <2>1, <3>1
  <2>2. CASE kind = "done" /\ events'[i].cost = cost
    BY <1>2, <2>2
  <2>3. QED BY <1>1, <1>5, <2>1, <2>2
<1>6. (told \in Seq(EventState) /\ IsPrefix(told, events))'
  <2>1. told \in Seq(EventState) /\ IsPrefix(told, events)
    BY DEF StreamInv
  <2>2. PICK s \in Seq(EventState) : s = told
    BY <2>1
  <2>3. IsPrefix(s, events')
    BY <1>1, <2>1, <2>2
  <2>4. told' = s
    BY <2>2
  <2>5. QED BY <2>3, <2>4
<1>7. QED BY <1>1, <1>2, <1>4, <1>5, <1>6 DEF StreamInv

LEMMA UnitSteps ==
    ASSUME StreamInv, NEW u \in Units,
           \/ StartUnit(u) \/ SuspendUnit(u)
           \/ \E price \in UnitPrices, again \in BOOLEAN : CallOfUnit(u, price, again)
           \/ \E kind \in {"done", "failed"} : FinishUnit(u, kind)
    PROVE  StreamInv'
<1>1. PICK k \in [at : {"new", "open", "over"}, attempt : Nat] : k = unit[u]
  BY DEF StreamInv
<1>2. k.attempt \in Nat /\ k.attempt <= Charged /\ Charged \in Nat
  BY <1>1, FS_CardinalityType DEF StreamInv, Charged
<1>3. CASE SuspendUnit(u)
  <2>1. k.at = "new" /\ unit' = [unit EXCEPT ![u] = k] /\ Emit("suspended", 0) /\ UNCHANGED told
    BY <1>1, <1>3 DEF SuspendUnit, StreamInv
  <2>2. k.attempt <= Charged + (IF "suspended" = "model" THEN 0 ELSE 0)
    BY <1>2
  <2>3. QED BY <1>1, <2>1, <2>2, UnitMoves
<1>4. CASE StartUnit(u)
  <2>1. PICK c \in [at : {"new", "open", "over"}, attempt : Nat] : c = [k EXCEPT !.at = "open"]
    OBVIOUS
  <2>2. k.at = "new" /\ unit' = [unit EXCEPT ![u] = c] /\ Emit("start", 0) /\ UNCHANGED told
    BY <1>1, <1>4, <2>1 DEF StartUnit, StreamInv
  <2>3. c.attempt <= Charged + (IF "start" = "model" THEN 0 ELSE 0)
    BY <1>2, <2>1
  <2>4. QED BY <1>1, <2>2, <2>3, UnitMoves
<1>5. ASSUME NEW price \in UnitPrices, NEW again \in BOOLEAN, CallOfUnit(u, price, again)
      PROVE  StreamInv'
  <2>1. price \in Nat
    BY ConsoleAssumption
  <2>2. PICK sum \in Nat : sum = price + IF again THEN 0 ELSE k.attempt
    BY <1>2, <2>1
  <2>3. PICK c \in [at : {"new", "open", "over"}, attempt : Nat] : c = [k EXCEPT !.attempt = sum]
    OBVIOUS
  <2>4. k.at = "open" /\ unit' = [unit EXCEPT ![u] = c] /\ Emit("model", price) /\ UNCHANGED told
    BY <1>1, <1>5, <2>2, <2>3 DEF CallOfUnit, StreamInv
  <2>5. c.attempt <= Charged + price
    BY <1>2, <2>1, <2>2, <2>3
  <2>6. QED BY <1>1, <2>1, <2>4, <2>5, UnitMoves
<1>6. ASSUME NEW kind \in {"done", "failed"}, FinishUnit(u, kind)
      PROVE  StreamInv'
  <2>1. PICK c \in [at : {"new", "open", "over"}, attempt : Nat] : c = [k EXCEPT !.at = "over"]
    OBVIOUS
  <2>2. c.attempt = k.attempt /\ c.at = "over"
    BY <2>1
  <2>3. PICK cost \in Nat : cost = IF kind = "done" THEN k.attempt ELSE 0
    BY <1>2
  <2>4. k.at = "open" /\ unit' = [unit EXCEPT ![u] = c] /\ Emit(kind, cost) /\ UNCHANGED told
    BY <1>1, <1>6, <2>1, <2>3 DEF FinishUnit, StreamInv
  <2>5. c.attempt <= Charged + (IF kind = "model" THEN cost ELSE 0)
    BY <1>2, <2>2
  <2>6. kind = "done" => c.at = "over" /\ cost = c.attempt
    BY <2>2, <2>3
  <2>7. kind \in {"suspended", "start", "model", "done", "failed"} /\ unit[u].at # "over"
    BY <1>1, <2>4
  <2>8. Emit(kind, cost) /\ UNCHANGED told /\ unit' = [unit EXCEPT ![u] = c]
    BY <2>4
  <2>9. QED BY <2>5, <2>6, <2>7, <2>8, UnitMoves
<1>7. QED BY <1>3, <1>4, <1>5, <1>6

LEMMA FollowStep == StreamInv /\ Follow => StreamInv'
<1> SUFFICES ASSUME StreamInv, Follow PROVE StreamInv'
  OBVIOUS
<1>1. /\ told \in Seq(EventState) /\ events \in Seq(EventState) /\ IsPrefix(told, events)
      /\ told' = told \o SubSeq(events, Len(told) + 1, Len(events)) /\ UNCHANGED <<events, unit>>
  BY DEF StreamInv, Follow, TailEvents
<1>2. told' = events
  <2> DEFINE m == Len(told)
             n == Len(events)
             rest == SubSeq(events, m + 1, n)
  <2>1. m \in Nat /\ n \in Nat /\ m <= n
    BY <1>1 DEF IsPrefix
  <2>2. \A i \in 1 .. m : told[i] = events[i]
    BY <1>1, <2>1 DEF IsPrefix
  <2>3. rest \in Seq(EventState) /\ Len(rest) = n - m /\ \A i \in 1 .. n - m : rest[i] = events[m + i]
    BY <1>1, <2>1
  <2> HIDE DEF rest
  <2>4. Len(told \o rest) = n /\ told \o rest \in Seq(EventState)
    BY <1>1, <2>1, <2>3
  <2>5. \A i \in 1 .. n : (told \o rest)[i] = events[i]
    <3> SUFFICES ASSUME NEW i \in 1 .. n PROVE (told \o rest)[i] = events[i]
      OBVIOUS
    <3>1. CASE i <= m
      BY <1>1, <2>1, <2>2, <2>3, <3>1
    <3>2. CASE i > m
      <4>1. (told \o rest)[i] = rest[i - m]
        BY <1>1, <2>1, <2>3, <3>2
      <4>2. i - m \in 1 .. n - m /\ m + (i - m) = i
        BY <2>1, <3>2
      <4>3. QED BY <2>3, <4>1, <4>2
    <3>3. i \in Nat /\ m \in Nat
      BY <2>1
    <3>4. i <= m \/ i > m
      BY <3>3
    <3>5. QED BY <3>1, <3>2, <3>4, Zenon
  <2>6. told \o rest = events
    BY <1>1, <2>4, <2>5, SeqEqual
  <2>7. QED BY <1>1, <2>6 DEF rest
<1>3. (told \in Seq(EventState) /\ IsPrefix(told, events))'
  BY <1>1, <1>2 DEF IsPrefix
<1>4. Charges' = Charges /\ Charged' = Charged /\ Ended({"done"})' = Ended({"done"})
  BY <1>1 DEF Charges, Charged, Ended
<1>5. QED BY <1>1, <1>3, <1>4 DEF StreamInv

LEMMA StreamInvStep == StreamInv /\ [StreamNext]_streamVars => StreamInv'
<1> SUFFICES ASSUME StreamInv, [StreamNext]_streamVars PROVE StreamInv'
  OBVIOUS
<1>1. CASE StreamNext
  BY <1>1, UnitSteps, FollowStep DEF StreamNext
<1>2. CASE UNCHANGED streamVars
  BY <1>2 DEF streamVars, StreamInv, Charges, Charged, Ended
<1>3. QED BY <1>1, <1>2

LEMMA LatestOfMany ==
    ASSUME NEW n \in Nat, NEW T \in SUBSET (1 .. n), T # {}
    PROVE  LatestOf(T) \in T
<1> DEFINE R == {p \in T \X T : p[1] < p[2]}
<1>1. IsFiniteSet(T) /\ T \subseteq Nat
  <2>1. IsFiniteSet(1 .. n)
    BY FS_Interval
  <2>2. IsFiniteSet(T)
    BY <2>1, FS_Subset
  <2>3. QED BY <2>2
<1>2. /\ \A x, y, z \in T : <<x, y>> \in R /\ <<y, z>> \in R => <<x, z>> \in R
      /\ \A x \in T : <<x, x>> \notin R
  OBVIOUS
<1>3. PICK m \in T : \A y \in T : <<m, y>> \notin R
  <2> HIDE DEF R
  <2>1. QED BY <1>1, <1>2, HasMaximal
<1>4. \A y \in T : y <= m
  <2> SUFFICES ASSUME NEW y \in T PROVE y <= m
    OBVIOUS
  <2>1. y \in Nat /\ m \in Nat /\ ~(m < y)
    BY <1>1, <1>3
  <2>2. QED BY <2>1
<1>5. QED BY <1>4 DEF LatestOf

LEMMA StreamInvSuffices == StreamInv => FollowerInStep /\ ReportIsFair
<1> SUFFICES ASSUME StreamInv PROVE ReportIsFair
  BY DEF StreamInv, FollowerInStep
<1>1. Charged \in Nat
  BY FS_CardinalityType DEF StreamInv, Charged
<1>2. CASE Ended({"done"}) = {}
  BY <1>1, <1>2 DEF ReportIsFair, ReportCost
<1>3. CASE Ended({"done"}) # {}
  <2> DEFINE i == LatestOf(Ended({"done"}))
  <2>1. Ended({"done"}) \subseteq 1 .. Len(events) /\ Len(events) \in Nat
    BY DEF Ended, StreamInv
  <2>2. i \in Ended({"done"})
    BY <1>3, <2>1, LatestOfMany
  <2>3. PICK v \in Units : unit[v].at = "over" /\ unit[v].attempt = events[i].cost
    BY <2>2 DEF StreamInv
  <2>4. ReportCost = unit[v].attempt
    BY <1>3, <2>3 DEF ReportCost
  <2>5. unit[v].attempt <= Charged
    BY DEF StreamInv
  <2>6. ASSUME NEW u \in Units, unit[u].attempt = Charged,
               \A w \in Units \ {u} : unit[w].at = "new"
        PROVE  ReportCost = Charged
    <3>1. v = u
      BY <2>3, <2>6
    <3>2. QED BY <2>4, <2>6, <3>1
  <2>7. QED BY <2>4, <2>5, <2>6 DEF ReportIsFair
<1>4. QED BY <1>2, <1>3

----------------------------------------------------------------------------
(* Control: what is deployed                                                *)

Kids == 1 .. MaxSpawned
Cadences == {"none", "hourly", "bad"}

ChildState ==
    [at : {"unborn", "up", "zombie", "gone"}, name : Fleet \cup {0}, tenant : Tenants,
     parent : {"shell", "screen"}, loaded : {"unknown", "yes", "no"}, run : Nat]
EntryState ==
    [pid : 0 .. MaxSpawned, status : {"none", "running", "stopped", "dead"}, cadence : Cadences]
CycleState ==
    [name : Fleet, pid : Kids, status : {"running", "done", "failed"}, worked : {"no", "yes", "never"}]

RosterTypes ==
    /\ child \in [Kids -> ChildState]
    /\ fleet \in [Tenants -> [Fleet -> EntryState]]
    /\ cycle \in Seq(CycleState)
    /\ source \in [Fleet -> [imports : BOOLEAN, trigger : Cadences]]

\* An entry leads to a process of its name and tenant, a cycle to one of its pipeline, and
\* of a name nothing was deployed over the local process is the one in the registry.
Roster ==
    /\ RosterTypes
    /\ \E k \in 0 .. MaxSpawned : Born = 1 .. k
    /\ \A p \in Born : child[p].name \in Fleet
    /\ \A t \in Tenants, n \in Fleet : fleet[t][n].pid # 0 =>
           /\ fleet[t][n].pid \in Born
           /\ child[fleet[t][n].pid].name = n /\ child[fleet[t][n].pid].tenant = t
    /\ \A r \in DOMAIN cycle :
           cycle[r].pid \in Born /\ child[cycle[r].pid].name = cycle[r].name
    /\ \A p \in Up : child[p].tenant = Local /\ child[p].name \notin overlaid =>
           fleet[Local][child[p].name].pid = p

Ends(r) == child[cycle[r].pid].tenant = Local /\ cycle[r].name \notin overlaid => cycle[r].pid \notin Up

Cancels ==
    /\ cancelled \subseteq DOMAIN cycle
    /\ cancel # NoCancel => cancel.run \in DOMAIN cycle /\ cancel.name = cycle[cancel.run].name
    /\ \A r \in cancelled : Ends(r)

ScreenState ==
    [at : {"off", "draw", "key"}, rows : Seq(Fleet), selected : Nat \ {0}, detail : BOOLEAN,
     opened : Fleet \cup {0}]
ScreenInv == screen \in ScreenState /\ CursorOnRow

ControlInv == Roster /\ Cancels /\ ScreenInv /\ ~astray

\* Processes that are the same ones, of which some may have ended.
Aged(children) ==
    /\ children \in [Kids -> ChildState]
    /\ \A p \in Kids :
          /\ children[p].at = "unborn" <=> child[p].at = "unborn"
          /\ children[p].at = "up" => child[p].at = "up"
          /\ children[p].name = child[p].name /\ children[p].tenant = child[p].tenant

LEMMA BornAre ==
    ASSUME RosterTypes
    PROVE  /\ Born = {p \in Kids : child[p].at # "unborn"}
           /\ Up = {p \in Kids : child[p].at = "up"} /\ Up \subseteq Born
           /\ Kids \subseteq Nat /\ 0 \notin Kids
BY ControlAssumption DEF RosterTypes, Born, Up, Kids

LEMMA BornCount ==
    ASSUME Roster
    PROVE  /\ Cardinality(Born) \in 0 .. MaxSpawned /\ Born = 1 .. Cardinality(Born)
           /\ Cardinality(Born) + 1 \notin Born
           /\ CanSpawn => Cardinality(Born) + 1 \in Kids
<1>1. PICK k \in 0 .. MaxSpawned : Born = 1 .. k
  BY DEF Roster
<1>2. k \in Nat /\ MaxSpawned \in Nat
  BY ControlAssumption
<1>3. Cardinality(1 .. k) = k
  <2>1. 1 \in Int /\ k \in Int /\ (1 > k => k = 0)
    BY <1>2
  <2>2. QED BY <2>1, FS_Interval
<1>4. Cardinality(Born) = k
  BY <1>1, <1>3
<1>5. QED BY <1>1, <1>2, <1>4 DEF CanSpawn, Kids

LEMMA PerishedIs ==
    ASSUME NEW c \in ChildState
    PROVE  /\ Perished(c) \in ChildState /\ Perished(c).at \in {"zombie", "gone"}
           /\ Perished(c).name = c.name /\ Perished(c).tenant = c.tenant
BY DEF ChildState, Perished

LEMMA TerminatedAges ==
    ASSUME RosterTypes, NEW p
    PROVE  /\ Aged(Terminated(child, p))
           /\ p \in Kids => Terminated(child, p)[p].at # "up"
<1> DEFINE c == Terminated(child, p)
<1>1. DOMAIN child = Kids /\ \A q \in Kids : child[q] \in ChildState
  BY DEF RosterTypes
<1>2. c = [q \in Kids |-> IF q = p /\ child[q].at = "up" THEN Perished(child[q]) ELSE child[q]]
  BY <1>1 DEF Terminated
<1>3. \A q \in Kids : c[q] \in ChildState
  BY <1>1, <1>2, PerishedIs
<1>4. \A q \in Kids : /\ c[q].at = "unborn" <=> child[q].at = "unborn"
                      /\ c[q].at = "up" => child[q].at = "up"
                      /\ c[q].name = child[q].name /\ c[q].tenant = child[q].tenant
  BY <1>1, <1>2, PerishedIs
<1>5. p \in Kids => c[p].at # "up"
  BY <1>1, <1>2, PerishedIs
<1>6. c \in [Kids -> ChildState]
  BY <1>2, <1>3
<1>7. QED BY <1>4, <1>5, <1>6 DEF Aged

LEMMA ReapedAges ==
    ASSUME RosterTypes, NEW c, Aged(c)
    PROVE  Aged(Reaped(c)) /\ \A p \in Kids : Reaped(c)[p].at = "up" => c[p].at = "up"
<1>1. DOMAIN c = Kids /\ \A q \in Kids : c[q] \in ChildState
  BY DEF Aged
<1>2. Reaped(c) = [q \in Kids |-> IF c[q].at = "zombie" THEN [c[q] EXCEPT !.at = "gone"] ELSE c[q]]
  BY <1>1 DEF Reaped
<1>3. \A q \in Kids : [c[q] EXCEPT !.at = "gone"] \in ChildState
                      /\ [c[q] EXCEPT !.at = "gone"].at = "gone"
                      /\ [c[q] EXCEPT !.at = "gone"].name = c[q].name
                      /\ [c[q] EXCEPT !.at = "gone"].tenant = c[q].tenant
  BY <1>1 DEF ChildState
<1>4. Reaped(c) \in [Kids -> ChildState]
  BY <1>1, <1>2, <1>3
<1>5. \A q \in Kids : /\ Reaped(c)[q].at = "unborn" <=> c[q].at = "unborn"
                      /\ Reaped(c)[q].at = "up" => c[q].at = "up"
                      /\ Reaped(c)[q].name = c[q].name /\ Reaped(c)[q].tenant = c[q].tenant
  BY <1>1, <1>2, <1>3
<1>6. QED BY <1>4, <1>5 DEF Aged

\* Without a new process, all stays as it was in the registry and in the runs.
LEMMA StayPut ==
    ASSUME Roster, Aged(child'),
           fleet' \in [Tenants -> [Fleet -> EntryState]],
           \A t \in Tenants, n \in Fleet : fleet'[t][n].pid = fleet[t][n].pid,
           cycle' \in Seq(CycleState),
           source' \in [Fleet -> [imports : BOOLEAN, trigger : Cadences]],
           DOMAIN cycle \subseteq DOMAIN cycle',
           \A r \in DOMAIN cycle : cycle'[r].name = cycle[r].name /\ cycle'[r].pid = cycle[r].pid,
           \A r \in DOMAIN cycle' \ DOMAIN cycle :
               cycle'[r].pid \in Born /\ cycle'[r].name = child[cycle'[r].pid].name,
           overlaid' = overlaid
    PROVE  /\ Roster'
           /\ \A r \in DOMAIN cycle : Ends(r) => Ends(r)'
<1>1. RosterTypes' /\ RosterTypes
  BY DEF RosterTypes, Aged, Roster
<1>2. Born' = Born /\ Up' \subseteq Up /\ Born \subseteq Kids /\ Up \subseteq Born
  <2>1. /\ Born = {p \in Kids : child[p].at # "unborn"}
        /\ Up = {p \in Kids : child[p].at = "up"} /\ Up \subseteq Born
    BY <1>1, BornAre
  <2>2. /\ Born' = {p \in Kids : child'[p].at # "unborn"}
        /\ Up' = {p \in Kids : child'[p].at = "up"}
    BY <1>1 DEF RosterTypes, Born, Up
  <2>3. QED BY <2>1, <2>2 DEF Aged
<1>3. \A p \in Kids : child'[p].name = child[p].name /\ child'[p].tenant = child[p].tenant
  BY DEF Aged
<1>4. (\E k \in 0 .. MaxSpawned : Born = 1 .. k)'
  BY <1>2 DEF Roster
<1>5. \A p \in Born' : child'[p].name \in Fleet
  BY <1>2, <1>3 DEF Roster
<1>6. \A t \in Tenants, n \in Fleet : fleet'[t][n].pid # 0 =>
           /\ fleet'[t][n].pid \in Born'
           /\ child'[fleet'[t][n].pid].name = n /\ child'[fleet'[t][n].pid].tenant = t
  <2> SUFFICES ASSUME NEW t \in Tenants, NEW n \in Fleet, fleet'[t][n].pid # 0
               PROVE  /\ fleet'[t][n].pid \in Born'
                      /\ child'[fleet'[t][n].pid].name = n /\ child'[fleet'[t][n].pid].tenant = t
    OBVIOUS
  <2>1. PICK p \in Born : p = fleet[t][n].pid /\ child[p].name = n /\ child[p].tenant = t
    BY DEF Roster
  <2>2. p = fleet'[t][n].pid /\ p \in Kids /\ p \in Born'
    BY <1>2, <2>1
  <2>3. QED BY <1>3, <2>1, <2>2
<1>7. ASSUME NEW r \in DOMAIN cycle'
      PROVE  cycle'[r].pid \in Born' /\ child'[cycle'[r].pid].name = cycle'[r].name
  BY <1>2, <1>3 DEF Roster
<1>8. ASSUME NEW p \in Up', child'[p].tenant = Local, child'[p].name \notin overlaid'
      PROVE  fleet'[Local][child'[p].name].pid = p
  <2>1. p \in Up /\ p \in Kids /\ p \in Born
    BY <1>2
  <2>2. child'[p].name = child[p].name /\ child[p].tenant = Local /\ child[p].name \in Fleet
        /\ child[p].name \notin overlaid
    BY <1>3, <1>8, <2>1 DEF Roster
  <2>3. fleet[Local][child[p].name].pid = p
    BY <2>1, <2>2 DEF Roster
  <2>4. QED BY <2>2, <2>3, ControlAssumption
<1>9. ASSUME NEW r \in DOMAIN cycle, Ends(r) PROVE Ends(r)'
  <2>1. cycle[r].pid \in Kids
    BY <1>2 DEF Roster
  <2>2. QED BY <1>2, <1>3, <1>9, <2>1 DEF Ends
<1>10. QED BY <1>1, <1>4, <1>5, <1>6, <1>7, <1>8, <1>9 DEF Roster

Joins(c, new) == child' = [c EXCEPT ![Cardinality(Born) + 1] = new]
EntersAs(t, n, e) == fleet' = [fleet EXCEPT ![t][n] = e]

\* A new process is the one its entry leads to, in place of the one before.
LEMMA SpawnedOne ==
    ASSUME Roster, CanSpawn, NEW t \in Tenants, NEW n \in Fleet, NEW c, Aged(c),
           NEW new \in ChildState, new.at = "up", new.name = n, new.tenant = t,
           NEW e \in EntryState, e.pid = Cardinality(Born) + 1,
           Joins(c, new), EntersAs(t, n, e),
           cycle' = cycle, source' = source, overlaid \subseteq overlaid',
           t = Local /\ n \notin overlaid' /\ fleet[t][n].pid # 0 =>
               c[fleet[t][n].pid].at # "up"
    PROVE  /\ Roster'
           /\ \A r \in DOMAIN cycle : Ends(r) => Ends(r)'
<1> DEFINE k == Cardinality(Born)
<1>0. RosterTypes
  BY DEF Roster
<1>1. k \in Nat /\ Born = 1 .. k /\ k + 1 \notin Born /\ k + 1 \in Kids
  BY BornCount DEF Kids
<1>2. RosterTypes'
  BY <1>0, <1>1 DEF RosterTypes, Aged, Joins, EntersAs
<1>3. /\ child'[k + 1] = new
      /\ \A p \in Kids \ {k + 1} : child'[p] = c[p]
  BY <1>1 DEF Aged, Joins
<1>4. \A p \in Kids \ {k + 1} :
          /\ child'[p].at = "unborn" <=> child[p].at = "unborn"
          /\ child'[p].at = "up" => child[p].at = "up" /\ c[p].at = "up"
          /\ child'[p].name = child[p].name /\ child'[p].tenant = child[p].tenant
  BY <1>3 DEF Aged
<1>5. Born \subseteq Kids /\ Up \subseteq Born
  BY <1>0, BornAre
<1>6. Born' = Born \cup {k + 1}
  <2>1. Born = {p \in Kids : child[p].at # "unborn"}
    BY <1>0, BornAre
  <2>2. Born' = {p \in Kids : child'[p].at # "unborn"}
    BY <1>2 DEF RosterTypes, Born, Up
  <2>3. child'[k + 1].at # "unborn"
    BY <1>3
  <2> HIDE DEF k
  <2>4. QED BY <1>1, <1>4, <2>1, <2>2, <2>3
<1>7. Up' \subseteq {p \in Up : c[p].at = "up"} \cup {k + 1}
  <2>1. Up = {p \in Kids : child[p].at = "up"}
    BY <1>0, BornAre
  <2>2. Up' = {p \in Kids : child'[p].at = "up"}
    BY <1>2 DEF RosterTypes, Born, Up
  <2> HIDE DEF k
  <2>3. QED BY <1>4, <2>1, <2>2
<1>8. /\ fleet'[t][n].pid = k + 1
      /\ \A s \in Tenants, m \in Fleet : <<s, m>> # <<t, n>> => fleet'[s][m] = fleet[s][m]
  BY <1>0 DEF RosterTypes, EntersAs
<1>9. (\E b \in 0 .. MaxSpawned : Born = 1 .. b)'
  <2>1. k + 1 \in 0 .. MaxSpawned /\ 1 .. k \cup {k + 1} = 1 .. k + 1
    BY <1>1 DEF Kids
  <2>2. QED BY <1>1, <1>6, <2>1
<1> HIDE DEF k
<1>10. \A p \in Born' : child'[p].name \in Fleet
  BY <1>1, <1>3, <1>4, <1>5, <1>6 DEF Roster
<1>11. ASSUME NEW s \in Tenants, NEW m \in Fleet, fleet'[s][m].pid # 0
       PROVE  /\ fleet'[s][m].pid \in Born'
              /\ child'[fleet'[s][m].pid].name = m /\ child'[fleet'[s][m].pid].tenant = s
  <2>1. CASE s = t /\ m = n
    BY <1>3, <1>6, <1>8, <2>1
  <2>2. CASE ~(s = t /\ m = n)
    <3>1. fleet'[s][m] = fleet[s][m]
      BY <1>8, <2>2
    <3>2. PICK p \in Born : p = fleet[s][m].pid /\ child[p].name = m /\ child[p].tenant = s
      BY <1>11, <3>1 DEF Roster
    <3>3. p \in Kids \ {k + 1}
      BY <1>1, <1>5
    <3>4. QED BY <1>4, <1>6, <3>1, <3>2, <3>3
  <2>3. QED BY <2>1, <2>2
<1>12. ASSUME NEW r \in DOMAIN cycle'
       PROVE  cycle'[r].pid \in Born' /\ child'[cycle'[r].pid].name = cycle'[r].name
  <2>1. PICK p \in Born : p = cycle[r].pid /\ child[p].name = cycle[r].name
    BY DEF Roster
  <2>2. p \in Kids \ {k + 1}
    BY <1>1, <1>5
  <2>3. QED BY <1>4, <1>6, <2>1, <2>2
<1>13. ASSUME NEW p \in Up', child'[p].tenant = Local, child'[p].name \notin overlaid'
       PROVE  fleet'[Local][child'[p].name].pid = p
  <2>1. CASE p = k + 1
    BY <1>3, <1>8, <1>13, <2>1
  <2>2. CASE p # k + 1
    <3>1. p \in Up /\ c[p].at = "up" /\ p \in Kids \ {k + 1}
      BY <1>5, <1>7, <2>2
    <3>2. child[p].name = child'[p].name /\ child[p].tenant = Local /\ child[p].name \in Fleet
      BY <1>4, <1>5, <1>13, <3>1 DEF Roster
    <3>3. fleet[Local][child[p].name].pid = p
      BY <1>13, <3>1, <3>2 DEF Roster
    <3>4. p # 0
      BY <1>0, <3>1, BornAre
    <3>5. ~(t = Local /\ child[p].name = n)
      BY <1>13, <3>1, <3>2, <3>3, <3>4
    <3>6. Local \in Tenants /\ <<Local, child[p].name>> # <<t, n>>
      BY <3>5, ControlAssumption
    <3>7. fleet'[Local][child[p].name] = fleet[Local][child[p].name]
      BY <1>8, <3>2, <3>6
    <3>8. QED BY <3>2, <3>3, <3>7
  <2>3. QED BY <2>1, <2>2
<1>14. ASSUME NEW r \in DOMAIN cycle, Ends(r) PROVE Ends(r)'
  <2>1. PICK p \in Born : p = cycle[r].pid
    BY DEF Roster
  <2>2. p \in Kids \ {k + 1}
    BY <1>1, <1>5
  <2>3. QED BY <1>4, <1>7, <1>14, <2>1, <2>2 DEF Ends
<1>15. QED BY <1>2, <1>9, <1>10, <1>11, <1>12, <1>13, <1>14 DEF Roster

\* Of a name that is stopped or restarted, only the process in the registry is told to end.
LEMMA NothingStrays ==
    ASSUME Roster, NEW t \in Tenants, NEW n \in Fleet, Strikes(t, n, n), ~astray
    PROVE  ~astray'
<1>1. \A p \in Up \cap {fleet[t][n].pid} : child[p].name = n /\ child[p].tenant = t
  <2>1. 0 \notin Up
    BY BornAre DEF Roster
  <2>2. QED BY <2>1 DEF Roster
<1>2. QED BY <1>1 DEF Strikes

LEMMA StoppedIs ==
    ASSUME RosterTypes, NEW t \in Tenants, NEW n \in Fleet
    PROVE  /\ StoppedEntry(t, n) \in [Tenants -> [Fleet -> EntryState]]
           /\ \A s \in Tenants, m \in Fleet : StoppedEntry(t, n)[s][m].pid = fleet[s][m].pid
<1>1. fleet[t][n] \in EntryState
  BY DEF RosterTypes
<1>2. PICK e \in EntryState : e = [fleet[t][n] EXCEPT !.status = "stopped"] /\ e.pid = fleet[t][n].pid
  <2> DEFINE e == [fleet[t][n] EXCEPT !.status = "stopped"]
  <2>1. e \in EntryState /\ e.pid = fleet[t][n].pid
    BY <1>1 DEF EntryState
  <2>2. QED BY <2>1
<1>3. StoppedEntry(t, n) = [fleet EXCEPT ![t][n] = e]
  BY <1>2 DEF StoppedEntry, RosterTypes
<1>4. StoppedEntry(t, n) \in [Tenants -> [Fleet -> EntryState]]
  BY <1>3 DEF RosterTypes
<1>5. \A s \in Tenants, m \in Fleet : StoppedEntry(t, n)[s][m].pid = fleet[s][m].pid
  BY <1>2, <1>3 DEF RosterTypes
<1>6. QED BY <1>4, <1>5

LEMMA StopByNameStep ==
    ASSUME Roster, NEW t \in Tenants, NEW n \in Fleet, StopByName(t, n, n), ~astray,
           UNCHANGED <<cycle, source, overlaid>>
    PROVE  /\ Roster' /\ ~astray'
           /\ \A r \in DOMAIN cycle : Ends(r) => Ends(r)'
<1>1. RosterTypes
  BY DEF Roster
<1>2. PICK p : p = fleet[t][n].pid
  OBVIOUS
<1>3. child' = Terminated(child, p) /\ fleet' = StoppedEntry(t, n)
  BY <1>2 DEF StopByName
<1>4. Aged(child')
  BY <1>1, <1>3, TerminatedAges
<1>5. /\ fleet' \in [Tenants -> [Fleet -> EntryState]]
      /\ \A s \in Tenants, m \in Fleet : fleet'[s][m].pid = fleet[s][m].pid
  BY <1>1, <1>3, StoppedIs
<1>6. ~astray'
  BY NothingStrays DEF StopByName
<1>7. cycle' \in Seq(CycleState) /\ source' \in [Fleet -> [imports : BOOLEAN, trigger : Cadences]]
  BY <1>1 DEF RosterTypes
<1>8. QED BY <1>4, <1>5, <1>6, <1>7, StayPut

LEMMA CadenceOf ==
    ASSUME RosterTypes, NEW n \in Fleet, NEW asked \in Cadences
    PROVE  Resolved(n, asked) \in Cadences
BY DEF RosterTypes, Resolved, LoadTrigger, Cadences

LEMMA EnteredIs ==
    ASSUME Roster, CanSpawn, NEW n \in Fleet, NEW cadence \in Cadences
    PROVE  /\ Entered(n, cadence) \in EntryState
           /\ Entered(n, cadence).pid = Cardinality(Born) + 1
<1>1. Cardinality(Born) + 1 \in 0 .. MaxSpawned
  BY BornCount, ControlAssumption DEF Kids
<1>2. QED BY <1>1 DEF Entered, EntryState

LEMMA SpawnedFrom ==
    ASSUME RosterTypes, NEW c, Aged(c), NEW t \in Tenants, NEW n \in Fleet,
           NEW parent \in {"shell", "screen"}
    PROVE  \E d, new :
              /\ Aged(d) /\ new \in ChildState
              /\ new.at = "up" /\ new.name = n /\ new.tenant = t
              /\ Spawned(c, t, n, parent) = [d EXCEPT ![Cardinality(Born) + 1] = new]
              /\ \A p \in Kids : d[p].at = "up" => c[p].at = "up"
<1> DEFINE d == IF parent = "screen" THEN Reaped(c) ELSE c
           new == [Unborn EXCEPT !.at = "up", !.name = n, !.tenant = t, !.parent = parent]
<1>1. Aged(d) /\ \A p \in Kids : d[p].at = "up" => c[p].at = "up"
  <2>1. Aged(Reaped(c)) /\ \A p \in Kids : Reaped(c)[p].at = "up" => c[p].at = "up"
    BY ReapedAges
  <2>2. CASE parent = "screen"
    BY <2>1, <2>2
  <2>3. CASE parent # "screen"
    BY <2>3
  <2>4. QED BY <2>2, <2>3
<1>2. Unborn \in ChildState
  BY ControlAssumption DEF Unborn, ChildState
<1>3. new \in ChildState /\ new.at = "up" /\ new.name = n /\ new.tenant = t
  BY <1>2 DEF ChildState
<1>4. Spawned(c, t, n, parent) = [d EXCEPT ![Cardinality(Born) + 1] = new]
  BY DEF Spawned
<1> HIDE DEF d, new
<1>5. QED BY <1>1, <1>3, <1>4

LEMMA RestartByNameStep ==
    ASSUME Roster, NEW t \in Tenants, NEW n \in Fleet, NEW parent \in {"shell", "screen"},
           RestartByName(t, n, n, parent), ~astray, UNCHANGED <<cycle, source, overlaid>>
    PROVE  /\ Roster' /\ ~astray'
           /\ \A r \in DOMAIN cycle : Ends(r) => Ends(r)'
<1>1. RosterTypes
  BY DEF Roster
<1>2. PICK p : p = fleet[t][n].pid
  OBVIOUS
<1>3. PICK down : down = Terminated(child, p)
  OBVIOUS
<1>4. Aged(down) /\ (p \in Kids => down[p].at # "up")
  BY <1>1, <1>3, TerminatedAges
<1>5. ~astray'
  BY NothingStrays DEF RestartByName
<1>6. cycle' \in Seq(CycleState) /\ source' \in [Fleet -> [imports : BOOLEAN, trigger : Cadences]]
  BY <1>1 DEF RosterTypes
<1>7. CASE ~Parses(Restarted(t, n))
  <2>1. child' = down /\ fleet' = StoppedEntry(t, n)
    BY <1>2, <1>3, <1>7 DEF RestartByName
  <2>2. /\ fleet' \in [Tenants -> [Fleet -> EntryState]]
        /\ \A s \in Tenants, m \in Fleet : fleet'[s][m].pid = fleet[s][m].pid
    BY <1>1, <2>1, StoppedIs
  <2>3. Aged(child')
    BY <1>4, <2>1
  <2>4. QED BY <1>5, <1>6, <2>2, <2>3, StayPut
<1>8. CASE Parses(Restarted(t, n))
  <2>1. PICK cadence \in Cadences : cadence = Restarted(t, n)
    BY <1>1, CadenceOf DEF Restarted, RosterTypes, EntryState
  <2>2. /\ CanSpawn /\ child' = Spawned(down, t, n, parent)
        /\ fleet' = [fleet EXCEPT ![t][n] = Entered(n, cadence)]
    BY <1>2, <1>3, <1>8, <2>1 DEF RestartByName
  <2>3. PICK d, new :
          /\ Aged(d) /\ new \in ChildState
          /\ new.at = "up" /\ new.name = n /\ new.tenant = t
          /\ Spawned(down, t, n, parent) = [d EXCEPT ![Cardinality(Born) + 1] = new]
          /\ \A q \in Kids : d[q].at = "up" => down[q].at = "up"
    BY <1>1, <1>4, SpawnedFrom
  <2>4. PICK e \in EntryState : e = Entered(n, cadence) /\ e.pid = Cardinality(Born) + 1
    BY <2>2, EnteredIs
  <2>5. fleet[t][n].pid # 0 => d[fleet[t][n].pid].at # "up"
    <3>1. p # 0 => p \in Kids
      BY <1>1, <1>2, BornAre DEF Roster
    <3>2. QED BY <1>2, <1>4, <2>3, <3>1
  <2>6. /\ Joins(d, new) /\ EntersAs(t, n, e)
        /\ cycle' = cycle /\ source' = source /\ overlaid \subseteq overlaid'
        /\ (t = Local /\ n \notin overlaid' /\ fleet[t][n].pid # 0 =>
               d[fleet[t][n].pid].at # "up")
    BY <2>2, <2>3, <2>4, <2>5 DEF Joins, EntersAs
  <2>7. Roster' /\ \A r \in DOMAIN cycle : Ends(r) => Ends(r)'
    BY <2>2, <2>3, <2>4, <2>6, SpawnedOne
  <2>8. QED BY <1>5, <2>7
<1>9. QED BY <1>7, <1>8

LEMMA DeployForStep ==
    ASSUME Roster, NEW t \in Tenants, NEW n \in Fleet, DeployFor(t, n, "none")
    PROVE  /\ Roster'
           /\ \A r \in DOMAIN cycle : Ends(r) => Ends(r)'
<1>1. RosterTypes /\ "none" \in Cadences /\ "shell" \in {"shell", "screen"}
  BY DEF Roster, Cadences
<1>2. PICK cadence \in Cadences : cadence = Resolved(n, "none")
  BY <1>1, CadenceOf
<1>3. /\ CanSpawn /\ child' = Spawned(child, t, n, "shell")
      /\ fleet' = [fleet EXCEPT ![t][n] = Entered(n, cadence)]
      /\ cycle' = cycle /\ source' = source /\ overlaid \subseteq overlaid'
      /\ (t = Local /\ fleet[t][n].pid \in Up => n \in overlaid')
  BY <1>2 DEF DeployFor
<1>4. Aged(child)
  BY <1>1 DEF Aged, RosterTypes
<1>5. PICK d, new :
        /\ Aged(d) /\ new \in ChildState
        /\ new.at = "up" /\ new.name = n /\ new.tenant = t
        /\ Spawned(child, t, n, "shell") = [d EXCEPT ![Cardinality(Born) + 1] = new]
        /\ \A q \in Kids : d[q].at = "up" => child[q].at = "up"
  BY <1>1, <1>4, SpawnedFrom
<1>6. PICK e \in EntryState : e = Entered(n, cadence) /\ e.pid = Cardinality(Born) + 1
  BY <1>3, EnteredIs
<1>7. t = Local /\ n \notin overlaid' /\ fleet[t][n].pid # 0 => d[fleet[t][n].pid].at # "up"
  <2>1. fleet[t][n].pid # 0 => fleet[t][n].pid \in Kids
    BY <1>1, BornAre DEF Roster
  <2>2. \A q \in Kids : child[q].at = "up" => q \in Up
    BY <1>1, BornAre
  <2>3. QED BY <1>3, <1>5, <2>1, <2>2
<1>8. Joins(d, new) /\ EntersAs(t, n, e)
  BY <1>3, <1>5, <1>6 DEF Joins, EntersAs
<1>9. QED BY <1>3, <1>5, <1>6, <1>7, <1>8, SpawnedOne

LEMMA CancelsStand ==
    ASSUME Roster, Cancels, \A r \in DOMAIN cycle : Ends(r) => Ends(r)',
           cancel' = cancel, cancelled' = cancelled, DOMAIN cycle \subseteq DOMAIN cycle',
           \A r \in DOMAIN cycle : cycle'[r].name = cycle[r].name
    PROVE  Cancels'
<1>1. NoCancel' = NoCancel
  BY DEF NoCancel
<1>2. cancel' # NoCancel => cancel'.run \in DOMAIN cycle' /\ cancel'.name = cycle'[cancel'.run].name
  BY DEF Cancels
<1>3. \A r \in cancelled' : Ends(r)'
  BY DEF Cancels
<1>4. QED BY <1>1, <1>2, <1>3 DEF Cancels

LEMMA OperationStep ==
    ASSUME ControlInv, Operation, screen' = screen, cancel' = cancel, cancelled' = cancelled
    PROVE  ControlInv'
<1>1. Roster /\ RosterTypes /\ Cancels /\ ScreenInv /\ ~astray
  BY DEF ControlInv, Roster
<1>2. ScreenInv'
  BY <1>1 DEF ScreenInv, CursorOnRow, Shown
<1>3. ASSUME NEW t \in Tenants, NEW n \in Fleet, FleetCommand(t, n) PROVE ControlInv'
  <2>1. UNCHANGED <<cycle, source, overlaid>> /\ cycle' = cycle
    BY <1>3 DEF FleetCommand
  <2>2. Roster' /\ ~astray' /\ \A r \in DOMAIN cycle : Ends(r) => Ends(r)'
    <3>1. CASE StopByName(t, n, n)
      BY <1>1, <2>1, <3>1, StopByNameStep
    <3>2. CASE RestartByName(t, n, n, "shell")
      BY <1>1, <2>1, <3>2, RestartByNameStep
    <3>3. QED BY <1>3, <3>1, <3>2 DEF FleetCommand
  <2>3. Cancels'
    BY <1>1, <2>1, <2>2, CancelsStand
  <2>4. QED BY <1>2, <2>2, <2>3 DEF ControlInv
<1>4. ASSUME NEW t \in Tenants, NEW n \in Fleet, DeployFor(t, n, "none") PROVE ControlInv'
  <2>1. Roster' /\ \A r \in DOMAIN cycle : Ends(r) => Ends(r)'
    BY <1>1, <1>4, DeployForStep
  <2>2. cycle' = cycle /\ ~astray'
    BY <1>1, <1>4 DEF DeployFor
  <2>3. Cancels'
    BY <1>1, <2>1, <2>2, CancelsStand
  <2>4. QED BY <1>2, <2>1, <2>2, <2>3 DEF ControlInv
<1>5. CASE DieSuddenly
  <2>1. PICK p \in Up : child' = Terminated(child, p)
    BY <1>5 DEF DieSuddenly
  <2>2. /\ cycle' = cycle /\ fleet' = fleet /\ source' = source /\ overlaid' = overlaid /\ ~astray'
    BY <1>1, <1>5 DEF DieSuddenly
  <2>3. Aged(child')
    BY <1>1, <2>1, TerminatedAges
  <2>4. /\ cycle' \in Seq(CycleState) /\ fleet' \in [Tenants -> [Fleet -> EntryState]]
        /\ source' \in [Fleet -> [imports : BOOLEAN, trigger : Cadences]]
    BY <1>1, <2>2 DEF RosterTypes
  <2>5. Roster' /\ \A r \in DOMAIN cycle : Ends(r) => Ends(r)'
    BY <1>1, <2>2, <2>3, <2>4, StayPut
  <2>6. Cancels'
    BY <1>1, <2>2, <2>5, CancelsStand
  <2>7. QED BY <1>2, <2>2, <2>5, <2>6 DEF ControlInv
<1>6. QED BY <1>3, <1>4, <1>5 DEF Operation

LEMMA EditStep ==
    ASSUME ControlInv, Edit
    PROVE  ControlInv'
<1>1. Roster /\ RosterTypes /\ Cancels /\ ScreenInv /\ ~astray
  BY DEF ControlInv, Roster
<1>2. /\ child' = child /\ fleet' = fleet /\ cycle' = cycle /\ overlaid' = overlaid
      /\ screen' = screen /\ cancel' = cancel /\ cancelled' = cancelled /\ astray' = astray
  BY DEF Edit
<1>3. source' \in [Fleet -> [imports : BOOLEAN, trigger : Cadences]]
  <2>1. PICK n \in Fleet :
            source' \in {[source EXCEPT ![n].imports = ~@]}
                 \cup {[source EXCEPT ![n].trigger = c] : c \in {"none", "bad"} \ {source[n].trigger}}
    BY DEF Edit
  <2>2. PICK o \in [imports : BOOLEAN, trigger : Cadences] : o = source[n]
    BY <1>1 DEF RosterTypes
  <2>3. CASE source' = [source EXCEPT ![n].imports = ~@]
    <3>1. [o EXCEPT !.imports = ~@] \in [imports : BOOLEAN, trigger : Cadences]
      <4>1. o.trigger \in Cadences /\ (~o.imports) \in BOOLEAN
        OBVIOUS
      <4>2. [o EXCEPT !.imports = ~@] = [imports |-> ~o.imports, trigger |-> o.trigger]
        OBVIOUS
      <4>3. QED BY <4>1, <4>2, Zenon
    <3>2. source' = [source EXCEPT ![n] = [o EXCEPT !.imports = ~@]]
      BY <2>2, <2>3
    <3>3. QED BY <1>1, <3>1, <3>2 DEF RosterTypes
  <2>4. CASE source' # [source EXCEPT ![n].imports = ~@]
    <3>1. PICK c \in Cadences : source' = [source EXCEPT ![n].trigger = c]
      BY <2>1, <2>4 DEF Cadences
    <3>2. [o EXCEPT !.trigger = c] \in [imports : BOOLEAN, trigger : Cadences]
      OBVIOUS
    <3>3. source' = [source EXCEPT ![n] = [o EXCEPT !.trigger = c]]
      BY <2>2, <3>1
    <3>4. QED BY <1>1, <3>2, <3>3 DEF RosterTypes
  <2>5. QED BY <2>3, <2>4
<1>4. Aged(child')
  BY <1>1, <1>2 DEF Aged, RosterTypes
<1>5. cycle' \in Seq(CycleState) /\ fleet' \in [Tenants -> [Fleet -> EntryState]]
  BY <1>1, <1>2 DEF RosterTypes
<1>6. Roster' /\ \A r \in DOMAIN cycle : Ends(r) => Ends(r)'
  BY <1>1, <1>2, <1>3, <1>4, <1>5, StayPut
<1>7. Cancels'
  BY <1>1, <1>2, <1>6, CancelsStand
<1>8. ScreenInv'
  BY <1>1, <1>2 DEF ScreenInv, CursorOnRow, Shown
<1>9. QED BY <1>1, <1>2, <1>6, <1>7, <1>8 DEF ControlInv

----------------------------------------------------------------------------
(* Control: cancelling, and what supervisors do                             *)

LEMMA CancelSteps ==
    ASSUME ControlInv, CancelStep
    PROVE  ControlInv'
<1>1. Roster /\ RosterTypes /\ Cancels /\ ScreenInv /\ ~astray
  BY DEF ControlInv, Roster
<1>2. cycle' = cycle /\ source' = source /\ overlaid' = overlaid /\ screen' = screen
      /\ UNCHANGED <<cycle, source, overlaid>>
  BY DEF CancelStep
<1>3. ScreenInv'
  BY <1>1, <1>2 DEF ScreenInv, CursorOnRow, Shown
<1>4. NoCancel' = NoCancel
  BY DEF NoCancel
<1>5. CASE child' = child /\ fleet' = fleet /\ cancelled' = cancelled /\ astray' = astray
           /\ (cancel' # NoCancel => cancel'.run \in DOMAIN cycle
                                     /\ cancel'.name = cycle[cancel'.run].name)
  <2>1. Aged(child')
    BY <1>1, <1>5 DEF Aged, RosterTypes
  <2>2. /\ cycle' \in Seq(CycleState) /\ fleet' \in [Tenants -> [Fleet -> EntryState]]
        /\ source' \in [Fleet -> [imports : BOOLEAN, trigger : Cadences]]
    BY <1>1, <1>2, <1>5 DEF RosterTypes
  <2>3. Roster' /\ \A r \in DOMAIN cycle : Ends(r) => Ends(r)'
    BY <1>1, <1>2, <1>5, <2>1, <2>2, StayPut
  <2>4. Cancels'
    <3>1. \A r \in cancelled' : Ends(r)'
      BY <1>1, <1>5, <2>3 DEF Cancels
    <3>2. QED BY <1>1, <1>2, <1>4, <1>5, <3>1 DEF Cancels
  <2>5. QED BY <1>1, <1>3, <1>5, <2>3, <2>4 DEF ControlInv
<1>6. ASSUME NEW t \in Tenants, NEW r \in DOMAIN cycle, Reads(t, r) PROVE ControlInv'
  <2>1. cancel' = [run |-> r, name |-> cycle[r].name]
    BY <1>6 DEF Reads
  <2>2. cancel'.run = r /\ cancel'.name = cycle[r].name
    BY <2>1
  <2>3. child' = child /\ fleet' = fleet /\ cancelled' = cancelled /\ astray' = astray
    BY <1>6 DEF Reads
  <2>4. QED BY <1>5, <1>6, <2>2, <2>3
<1>7. CASE StopForRun
  <2>1. PICK r \in DOMAIN cycle : r = cancel.run /\ cancel.name = cycle[r].name
    BY <1>1, <1>7 DEF StopForRun, Cancels
  <2>2. PICK n \in Fleet : n = cancel.name
    <3>1. cycle \in Seq(CycleState)
      BY <1>1 DEF RosterTypes
    <3>2. cycle[r] \in CycleState
      BY <3>1
    <3>3. QED BY <2>1, <3>2 DEF CycleState
  <2>3. CASE fleet[Local][n] = Absent
    BY <1>5, <1>7, <2>2, <2>3 DEF StopForRun
  <2>4. CASE fleet[Local][n] # Absent
    <3>1. StopByName(Local, n, n) /\ cancelled' = cancelled \cup {r} /\ cancel' = NoCancel
      BY <1>7, <2>1, <2>2, <2>4 DEF StopForRun, StopByName
    <3>2. Roster' /\ ~astray' /\ \A q \in DOMAIN cycle : Ends(q) => Ends(q)'
      BY <1>1, <1>2, <3>1, ControlAssumption, StopByNameStep
    <3>3. Ends(r)'
      <4>1. PICK p : p = fleet[Local][n].pid
        OBVIOUS
      <4>2. child' = Terminated(child, p)
        BY <3>1, <4>1 DEF StopByName
      <4>3. Aged(child') /\ (p \in Kids => child'[p].at # "up")
        BY <1>1, <4>2, TerminatedAges
      <4>4. PICK q \in Born : q = cycle[r].pid /\ child[q].name = n
        BY <1>1, <2>1, <2>2 DEF Roster
      <4>5. q \in Kids /\ (child[q].at = "up" => q \in Up)
        BY <1>1, <4>4, BornAre
      <4>6. child'[q].at = "up" => child[q].at = "up"
        BY <4>3, <4>5 DEF Aged
      <4>7. child'[q].name = n /\ child'[q].tenant = child[q].tenant
        BY <4>3, <4>4, <4>5 DEF Aged
      <4>8. child'[q].tenant = Local /\ cycle[r].name \notin overlaid => child'[q].at # "up"
        <5> SUFFICES ASSUME child'[q].tenant = Local, cycle[r].name \notin overlaid, q \in Up
                     PROVE  child'[q].at # "up"
          BY <4>5, <4>6
        <5>1. child[q].tenant = Local /\ child[q].name \notin overlaid
          BY <2>1, <2>2, <4>4, <4>7
        <5>2. fleet[Local][child[q].name].pid = q
          BY <1>1, <5>1 DEF Roster
        <5>3. q = p
          BY <4>1, <4>4, <5>2
        <5>4. QED BY <4>3, <4>5, <5>3
      <4>9. QED BY <1>2, <4>4, <4>8 DEF Ends, Up
    <3>4. Cancels'
      <4>1. \A q \in cancelled' : Ends(q)'
        BY <1>1, <3>1, <3>2, <3>3 DEF Cancels
      <4>2. cancelled' \subseteq DOMAIN cycle'
        BY <1>1, <1>2, <3>1 DEF Cancels
      <4>3. QED BY <1>4, <3>1, <4>1, <4>2 DEF Cancels
    <3>5. QED BY <1>3, <3>2, <3>4 DEF ControlInv
  <2>5. QED BY <2>3, <2>4
<1>8. QED BY <1>6, <1>7 DEF CancelStep

LEMMA ServeStep ==
    ASSUME ControlInv, Serve
    PROVE  ControlInv'
<1>1. Roster /\ RosterTypes /\ Cancels /\ ScreenInv /\ ~astray
  BY DEF ControlInv, Roster
<1>2. /\ fleet' = fleet /\ source' = source /\ overlaid' = overlaid
      /\ screen' = screen /\ cancel' = cancel /\ cancelled' = cancelled /\ astray' = astray
  BY DEF Serve
<1>3. ScreenInv'
  BY <1>1, <1>2 DEF ScreenInv, CursorOnRow, Shown
<1>4. /\ fleet' \in [Tenants -> [Fleet -> EntryState]]
      /\ source' \in [Fleet -> [imports : BOOLEAN, trigger : Cadences]]
  BY <1>1, <1>2 DEF RosterTypes
<1>5. ASSUME Aged(child'), cycle' \in Seq(CycleState), DOMAIN cycle \subseteq DOMAIN cycle',
             \A r \in DOMAIN cycle : cycle'[r].name = cycle[r].name /\ cycle'[r].pid = cycle[r].pid,
             \A r \in DOMAIN cycle' \ DOMAIN cycle :
                 cycle'[r].pid \in Born /\ cycle'[r].name = child[cycle'[r].pid].name
      PROVE  ControlInv'
  <2>1. Roster' /\ \A r \in DOMAIN cycle : Ends(r) => Ends(r)'
    BY <1>1, <1>2, <1>4, <1>5, StayPut
  <2>2. Cancels'
    BY <1>1, <1>2, <1>5, <2>1, CancelsStand
  <2>3. QED BY <1>1, <1>2, <1>3, <2>1, <2>2 DEF ControlInv
<1>6. PICK p \in DOMAIN child : Discover(p) \/ StartCycle(p) \/ FinishCycle(p)
  BY DEF Serve
<1>7. p \in Up /\ p \in Kids /\ p \in Born /\ child[p] \in ChildState
  BY <1>1, <1>6, BornAre DEF RosterTypes, Discover, StartCycle, FinishCycle
<1>8. cycle \in Seq(CycleState) /\ Len(cycle) \in Nat /\ DOMAIN cycle = 1 .. Len(cycle)
  BY <1>1 DEF RosterTypes
<1>9. \A c \in ChildState : c.at = child[p].at /\ c.name = child[p].name /\ c.tenant = child[p].tenant
          => Aged([child EXCEPT ![p] = c])
  BY <1>1, <1>7 DEF Aged, RosterTypes
<1>10. CASE Discover(p)
  <2>1. PICK c \in ChildState : c = [child[p] EXCEPT !.loaded = IF Builds(child[p].name) THEN "yes" ELSE "no"]
    BY <1>7 DEF ChildState
  <2>2. child' = [child EXCEPT ![p] = c] /\ cycle' = cycle
    BY <1>10, <2>1 DEF Discover
  <2>3. Aged(child')
    BY <1>7, <1>9, <2>1, <2>2 DEF ChildState
  <2>4. QED BY <1>5, <1>8, <2>2, <2>3
<1>11. CASE StartCycle(p)
  <2> DEFINE e == [name |-> child[p].name, pid |-> p, status |-> "running", worked |-> "no"]
             n == Len(cycle) + 1
  <2>1. child[p].name \in Fleet
    BY <1>1, <1>7 DEF Roster
  <2>2. e \in CycleState
    BY <1>7, <2>1 DEF CycleState
  <2>3. cycle' = Append(cycle, e)
    BY <1>11 DEF StartCycle
  <2>4. /\ cycle' \in Seq(CycleState) /\ Len(cycle') = n /\ cycle'[n] = e
        /\ DOMAIN cycle' = 1 .. n /\ \A r \in DOMAIN cycle : cycle'[r] = cycle[r]
    BY <1>8, <2>2, <2>3
  <2>5. PICK c \in ChildState : c = [child[p] EXCEPT !.run = n]
    <3>1. n \in Nat
      BY <1>8
    <3> HIDE DEF n
    <3>2. [child[p] EXCEPT !.run = n] \in ChildState
      BY <1>7, <3>1 DEF ChildState
    <3>3. QED BY <3>2
  <2>6. child' = [child EXCEPT ![p] = c]
    BY <1>11, <2>4, <2>5 DEF StartCycle
  <2>7. Aged(child')
    BY <1>7, <1>9, <2>5, <2>6 DEF ChildState
  <2>8. \A r \in DOMAIN cycle' \ DOMAIN cycle : r = n
    BY <1>8, <2>4
  <2>9. cycle'[n].pid = p /\ cycle'[n].name = child[p].name
    BY <2>4
  <2>10. DOMAIN cycle \subseteq DOMAIN cycle'
    BY <1>8, <2>4
  <2> HIDE DEF e, n
  <2>11. QED BY <1>5, <1>7, <2>4, <2>7, <2>8, <2>9, <2>10
<1>12. CASE FinishCycle(p)
  <2>1. PICK c \in ChildState : c = [child[p] EXCEPT !.run = 0]
    BY <1>7 DEF ChildState
  <2>2. child' = [child EXCEPT ![p] = c]
    BY <1>12, <2>1 DEF FinishCycle
  <2>3. Aged(child')
    BY <1>7, <1>9, <2>1, <2>2 DEF ChildState
  <2> DEFINE Over(i, status, worked) ==
                 cycle' = [cycle EXCEPT ![i].status = status, ![i].worked = worked]
  <2>4. \E i, status, worked :
            /\ status \in {"done", "failed"} /\ worked \in {"no", "yes", "never"}
            /\ Over(i, status, worked)
    <3>1. PICK status \in {"done"} \cup (IF CycleWorks(p) THEN {"failed"} ELSE {}) :
              cycle' = [cycle EXCEPT ![child[p].run].status = status,
                                     ![child[p].run].worked = IF CycleWorks(p) THEN "yes"
                                        ELSE IF child[p].loaded = "no" THEN "never" ELSE "no"]
      BY <1>12 DEF FinishCycle
    <3>2. PICK i, worked : i = child[p].run /\ worked = IF CycleWorks(p) THEN "yes"
                              ELSE IF child[p].loaded = "no" THEN "never" ELSE "no"
      OBVIOUS
    <3>3. status \in {"done", "failed"} /\ worked \in {"no", "yes", "never"}
      BY <3>2
    <3>4. Over(i, status, worked)
      BY <3>1, <3>2
    <3> HIDE DEF Over
    <3>5. QED BY <3>3, <3>4
  <2> PICK i, status, worked :
            /\ status \in {"done", "failed"} /\ worked \in {"no", "yes", "never"}
            /\ Over(i, status, worked)
    BY <2>4
  <2>5. /\ DOMAIN cycle' = DOMAIN cycle
        /\ \A r \in DOMAIN cycle : cycle'[r] =
               IF r = i THEN [[cycle[r] EXCEPT !.status = status] EXCEPT !.worked = worked]
               ELSE cycle[r]
    OBVIOUS
  <2>6. \A r \in DOMAIN cycle :
            /\ cycle'[r] \in CycleState
            /\ cycle'[r].name = cycle[r].name /\ cycle'[r].pid = cycle[r].pid
    <3> SUFFICES ASSUME NEW r \in DOMAIN cycle
                 PROVE  /\ cycle'[r] \in CycleState
                        /\ cycle'[r].name = cycle[r].name /\ cycle'[r].pid = cycle[r].pid
      OBVIOUS
    <3>1. PICK e \in CycleState : e = cycle[r]
      BY <1>8
    <3>2. PICK f \in CycleState : f = [[e EXCEPT !.status = status] EXCEPT !.worked = worked]
                                  /\ f.name = e.name /\ f.pid = e.pid
      <4> DEFINE f == [[e EXCEPT !.status = status] EXCEPT !.worked = worked]
      <4>1. f \in CycleState /\ f.name = e.name /\ f.pid = e.pid
        BY DEF CycleState
      <4>2. QED BY <4>1
    <3>3. QED BY <2>5, <3>1, <3>2
  <2>7. cycle' \in Seq(CycleState)
    <3>1. PICK k \in Nat : k = Len(cycle) /\ DOMAIN cycle = 1 .. k
      BY <1>8
    <3>2. cycle' = [r \in 1 .. k |-> cycle'[r]]
      BY <2>5, <3>1
    <3>3. \A r \in 1 .. k : cycle'[r] \in CycleState
      BY <2>6, <3>1
    <3> HIDE DEF Over
    <3>4. cycle' \in [1 .. k -> CycleState]
      BY <3>2, <3>3
    <3>5. QED BY <3>4
  <2>8. QED BY <1>5, <2>3, <2>5, <2>6, <2>7
<1>13. QED BY <1>6, <1>10, <1>11, <1>12

----------------------------------------------------------------------------
(* Control: the screen                                                      *)

\* The rank of each element is its own, so each rank has its element.
LEMMA SortedIs ==
    ASSUME NEW S, S \subseteq Nat, IsFiniteSet(S)
    PROVE  Sorted(S) \in Seq(S) /\ Len(Sorted(S)) = Cardinality(S)
<1> DEFINE k == Cardinality(S)
           Below(n) == {m \in S : m < n}
           rank == [n \in S |-> Cardinality(Below(n)) + 1]
<1>1. k \in Nat
  BY FS_CardinalityType
<1>2. \A n \in S : /\ IsFiniteSet(Below(n)) /\ Cardinality(Below(n)) \in Nat
                   /\ Cardinality(Below(n)) < k
  <2> SUFFICES ASSUME NEW n \in S
               PROVE  /\ IsFiniteSet(Below(n)) /\ Cardinality(Below(n)) \in Nat
                      /\ Cardinality(Below(n)) < k
    OBVIOUS
  <2>1. Below(n) \subseteq S /\ n \notin Below(n)
    OBVIOUS
  <2> HIDE DEF Below
  <2>2. IsFiniteSet(Below(n)) /\ Cardinality(Below(n)) <= k
        /\ (k = Cardinality(Below(n)) => S = Below(n))
    BY <2>1, FS_Subset
  <2>3. Cardinality(Below(n)) \in Nat
    BY <2>2, FS_CardinalityType
  <2>4. Cardinality(Below(n)) # k
    BY <2>1, <2>2
  <2> HIDE DEF k
  <2>5. QED BY <1>1, <2>2, <2>3, <2>4
<1>3. \A m, n \in S : m < n => Cardinality(Below(m)) < Cardinality(Below(n))
  <2> SUFFICES ASSUME NEW m \in S, NEW n \in S, m < n
               PROVE  Cardinality(Below(m)) < Cardinality(Below(n))
    OBVIOUS
  <2> HIDE DEF rank, k
  <2>1. Below(m) \subseteq Below(n) /\ m \in Below(n) /\ m \notin Below(m)
    <3>1. m \in Nat /\ n \in Nat /\ \A x \in S : x \in Nat
      OBVIOUS
    <3>2. \A x \in S : x < m => x < n
      BY <3>1
    <3>3. m < n /\ ~(m < m)
      BY <3>1
    <3>4. QED BY <3>2, <3>3
  <2> HIDE DEF Below
  <2>2. /\ Cardinality(Below(m)) <= Cardinality(Below(n))
        /\ Cardinality(Below(n)) = Cardinality(Below(m)) => Below(n) = Below(m)
    BY <1>2, <2>1, FS_Subset
  <2>3. Cardinality(Below(m)) # Cardinality(Below(n))
    BY <2>1, <2>2
  <2>4. QED BY <1>2, <2>2, <2>3
<1>4. rank \in Injection(S, 1 .. k)
  <2>1. rank \in [S -> 1 .. k]
    <3> HIDE DEF Below, k
    <3>1. \A n \in S : Cardinality(Below(n)) + 1 \in 1 .. k
      BY <1>1, <1>2
    <3>2. QED BY <3>1
  <2>2. \A m, n \in S : rank[m] = rank[n] => m = n
    <3> SUFFICES ASSUME NEW m \in S, NEW n \in S, rank[m] = rank[n], m # n PROVE FALSE
      OBVIOUS
    <3>1. m < n \/ n < m
      OBVIOUS
    <3> HIDE DEF Below, k
    <3>2. Cardinality(Below(m)) = Cardinality(Below(n))
      BY <1>2
    <3>3. QED BY <1>2, <1>3, <3>1, <3>2
  <2> HIDE DEF rank, k
  <2>3. QED BY <2>1, <2>2 DEF Injection, IsInjective
<1>5. rank \in Surjection(S, 1 .. k)
  <2> HIDE DEF rank
  <2>1. IsFiniteSet(1 .. k) /\ Cardinality(1 .. k) = k
    <3>1. 1 \in Int /\ k \in Int /\ (1 > k => k = 0)
      BY <1>1
    <3>2. QED BY <3>1, FS_Interval
  <2>2. QED BY <1>4, <2>1, FS_Injection
<1>6. \A i \in 1 .. k : \E n \in S : Cardinality({m \in S : m < n}) = i - 1
  <2> SUFFICES ASSUME NEW i \in 1 .. k PROVE \E n \in S : Cardinality(Below(n)) = i - 1
    OBVIOUS
  <2>1. PICK n \in S : rank[n] = i
    BY <1>5 DEF Surjection
  <2>2. rank[n] = Cardinality(Below(n)) + 1
    OBVIOUS
  <2> HIDE DEF Below, rank, k
  <2>3. Cardinality(Below(n)) = i - 1
    BY <1>1, <1>2, <2>1, <2>2
  <2>4. QED BY <2>3
<1> HIDE DEF k, rank, Below
<1>7. Sorted(S) = [i \in 1 .. k |-> CHOOSE n \in S : Cardinality({m \in S : m < n}) = i - 1]
  BY DEF Sorted, k
<1>8. \A i \in 1 .. k : (CHOOSE n \in S : Cardinality({m \in S : m < n}) = i - 1) \in S
  <2> DEFINE At(i, n) == Cardinality({m \in S : m < n}) = i - 1
  <2>1. \A i \in 1 .. k : \E n \in S : At(i, n)
    BY <1>6
  <2> HIDE DEF At
  <2>2. \A i \in 1 .. k : (CHOOSE n \in S : At(i, n)) \in S
    BY <2>1
  <2>3. QED BY <2>2 DEF At
<1>9. Sorted(S) \in [1 .. k -> S]
  <2> DEFINE Which(i) == CHOOSE n \in S : Cardinality({m \in S : m < n}) = i - 1
  <2>1. Sorted(S) = [i \in 1 .. k |-> Which(i)] /\ \A i \in 1 .. k : Which(i) \in S
    BY <1>7, <1>8
  <2> HIDE DEF Which
  <2>2. QED BY <2>1
<1>10. QED BY <1>1, <1>9 DEF k

LEMMA RowsAre ==
    ASSUME NEW readable \in SUBSET Fleet
    PROVE  RowsOf(readable) \in Seq(Fleet)
<1> DEFINE S == {n \in readable : fleet[Local][n] # Absent}
<1>1. S \subseteq Fleet
  OBVIOUS
<1> HIDE DEF S
<1>2. S \subseteq Nat /\ IsFiniteSet(S)
  BY <1>1, ControlAssumption, FS_Subset
<1>3. Sorted(S) \in Seq(S)
  BY <1>2, SortedIs
<1>4. Sorted(S) \in Seq(Fleet)
  BY <1>1, <1>3
<1>5. QED BY <1>4 DEF RowsOf, S

\* The other parts of the invariant do not see the screen.
LEMMA ScreenOnly ==
    ASSUME ControlInv, Roster', \A r \in DOMAIN cycle : Ends(r) => Ends(r)', ~astray',
           cycle' = cycle, cancel' = cancel, cancelled' = cancelled, ScreenInv'
    PROVE  ControlInv'
<1>1. Cancels'
  BY CancelsStand DEF ControlInv
<1>2. QED BY <1>1 DEF ControlInv

LEMMA RelistedIs ==
    ASSUME RosterTypes, NEW n \in Fleet
    PROVE  Relisted(n) \in EntryState /\ Relisted(n).pid = fleet[Local][n].pid
<1>1. PICK e \in EntryState : e = fleet[Local][n]
  BY ControlAssumption DEF RosterTypes
<1>2. [e EXCEPT !.status = "dead"] \in EntryState /\ [e EXCEPT !.status = "dead"].pid = e.pid
  BY DEF EntryState
<1>3. QED BY <1>1, <1>2 DEF Relisted

LEMMA ScreenStepKeeps ==
    ASSUME ControlInv, ScreenStep
    PROVE  ControlInv'
<1>1. Roster /\ RosterTypes /\ Cancels /\ ScreenInv /\ ~astray /\ screen \in ScreenState
  BY DEF ControlInv, Roster, ScreenInv
<1>2. /\ cycle' = cycle /\ source' = source /\ overlaid' = overlaid
      /\ cancel' = cancel /\ cancelled' = cancelled /\ UNCHANGED <<cycle, source, overlaid>>
  BY DEF ScreenStep
<1>3. /\ Off \in ScreenState /\ Off.at = "off" /\ Redraw \in ScreenState /\ Redraw.at = "draw"
      /\ [Off EXCEPT !.at = "draw"] \in ScreenState /\ [Off EXCEPT !.at = "draw"].at = "draw"
  <2>1. <<>> \in Seq(Fleet)
    OBVIOUS
  <2>2. Off \in ScreenState /\ Off.at = "off"
    BY <2>1 DEF Off, ScreenState
  <2>3. Redraw \in ScreenState /\ Redraw.at = "draw"
    BY <1>1 DEF Redraw, ScreenState
  <2>4. [Off EXCEPT !.at = "draw"] \in ScreenState /\ [Off EXCEPT !.at = "draw"].at = "draw"
    BY <2>2 DEF ScreenState
  <2>5. QED BY <2>2, <2>3, <2>4
<1>4. screen' \in ScreenState /\ screen'.at # "key" => ScreenInv'
  BY DEF ScreenInv, CursorOnRow
<1>5. ASSUME Aged(child'), fleet' \in [Tenants -> [Fleet -> EntryState]],
             \A t \in Tenants, n \in Fleet : fleet'[t][n].pid = fleet[t][n].pid,
             astray' = astray, ScreenInv'
      PROVE  ControlInv'
  <2>1. cycle' \in Seq(CycleState) /\ source' \in [Fleet -> [imports : BOOLEAN, trigger : Cadences]]
    BY <1>1, <1>2 DEF RosterTypes
  <2>2. Roster' /\ \A r \in DOMAIN cycle : Ends(r) => Ends(r)'
    BY <1>1, <1>2, <1>5, <2>1, StayPut
  <2>3. QED BY <1>1, <1>2, <1>5, <2>2, ScreenOnly
<1>6. ASSUME child' = child, fleet' = fleet, astray' = astray, ScreenInv' PROVE ControlInv'
  BY <1>1, <1>5, <1>6 DEF Aged, RosterTypes
<1>7. Shown /\ screen.at = "key" => RowsDrawn \in Fleet /\ RowUnderCursor = RowsDrawn
  BY <1>1 DEF ScreenInv, CursorOnRow, ScreenState, RowUnderCursor, RowsDrawn
<1>8. CASE StartScreen
  BY <1>3, <1>4, <1>6, <1>8 DEF StartScreen
<1>9. CASE Draw
  <2>1. PICK readable \in SUBSET Fleet :
          /\ fleet' = [fleet EXCEPT ![Local] =
                         [n \in Fleet |-> IF n \in readable THEN Relisted(n) ELSE @[n]]]
          /\ screen' = [screen EXCEPT !.at = "key", !.rows = RowsOf(readable),
                                      !.selected = Clamped(RowsOf(readable))]
    BY <1>9 DEF Draw
  <2>2. PICK rows \in Seq(Fleet) : rows = RowsOf(readable)
    BY RowsAre
  <2>3. /\ Clamped(rows) \in Nat \ {0}
        /\ rows # <<>> => Clamped(rows) \in DOMAIN rows
    <3>1. Len(rows) \in Nat /\ DOMAIN rows = 1 .. Len(rows) /\ (rows # <<>> => Len(rows) > 0)
      OBVIOUS
    <3>2. screen.selected \in Nat \ {0}
      BY <1>1 DEF ScreenState
    <3>3. QED BY <3>1, <3>2 DEF Clamped
  <2>4. screen' \in ScreenState /\ screen'.rows = rows /\ screen'.selected = Clamped(rows)
    BY <1>1, <2>1, <2>2, <2>3 DEF ScreenState
  <2>5. ScreenInv'
    BY <2>3, <2>4 DEF ScreenInv, CursorOnRow, Shown
  <2>6. PICK listed \in [Fleet -> EntryState] :
            /\ fleet' = [fleet EXCEPT ![Local] = listed]
            /\ \A n \in Fleet : listed[n].pid = fleet[Local][n].pid
    <3> DEFINE listed == [n \in Fleet |-> IF n \in readable THEN Relisted(n) ELSE fleet[Local][n]]
    <3>1. \A n \in Fleet : fleet[Local][n] \in EntryState
      BY <1>1, ControlAssumption DEF RosterTypes
    <3>2. \A n \in Fleet : Relisted(n) \in EntryState /\ Relisted(n).pid = fleet[Local][n].pid
      BY <1>1, RelistedIs
    <3>3. listed \in [Fleet -> EntryState] /\ \A n \in Fleet : listed[n].pid = fleet[Local][n].pid
      BY <3>1, <3>2
    <3>4. fleet' = [fleet EXCEPT ![Local] = listed]
      BY <2>1
    <3> HIDE DEF listed
    <3>5. QED BY <3>3, <3>4
  <2>7. /\ fleet' \in [Tenants -> [Fleet -> EntryState]]
        /\ \A t \in Tenants, n \in Fleet : fleet'[t][n].pid = fleet[t][n].pid
    BY <1>1, <2>6, ControlAssumption DEF RosterTypes
  <2>8. Aged(child') /\ astray' = astray
    BY <1>1, <1>9 DEF Draw, Aged, RosterTypes
  <2>9. QED BY <1>5, <2>5, <2>7, <2>8
<1>10. CASE Move
  <2>1. PICK to \in DOMAIN screen.rows : screen' = [Redraw EXCEPT !.selected = to]
    BY <1>10 DEF Move
  <2>2. to \in Nat \ {0}
    BY <1>1 DEF ScreenState
  <2>3. screen' \in ScreenState /\ screen'.at = "draw"
    BY <1>3, <2>1, <2>2 DEF ScreenState
  <2>4. QED BY <1>4, <1>6, <1>10, <2>3 DEF Move
<1>11. CASE OpenOrClose
  <2>1. PICK opened \in Fleet \cup {0} : opened = IF screen.detail THEN 0 ELSE RowUnderCursor
    BY <1>7, <1>11 DEF OpenOrClose
  <2>2. screen' = [[Redraw EXCEPT !.detail = ~@] EXCEPT !.opened = opened]
    BY <1>11, <2>1 DEF OpenOrClose
  <2>3. PICK detail \in BOOLEAN : detail = ~Redraw.detail
    OBVIOUS
  <2>4. screen' = [[Redraw EXCEPT !.detail = detail] EXCEPT !.opened = opened]
    BY <2>2, <2>3, Zenon
  <2>5. screen' \in ScreenState /\ screen'.at = "draw"
    BY <1>3, <2>4 DEF ScreenState
  <2>6. QED BY <1>4, <1>6, <1>11, <2>5 DEF OpenOrClose
<1>12. CASE StopKey
  <2>1. PICK n \in Fleet : n = RowsDrawn /\ n = RowUnderCursor
    BY <1>7, <1>12 DEF StopKey
  <2>2. StopByName(Local, n, n) /\ screen' = Redraw
    BY <1>12, <2>1 DEF StopKey
  <2>3. Roster' /\ ~astray' /\ \A r \in DOMAIN cycle : Ends(r) => Ends(r)'
    BY <1>1, <1>2, <2>2, ControlAssumption, StopByNameStep
  <2>4. ScreenInv'
    BY <1>3, <1>4, <2>2
  <2>5. QED BY <1>1, <1>2, <2>3, <2>4, ScreenOnly
<1>13. CASE RestartKey
  <2>1. PICK n \in Fleet : n = RowsDrawn /\ n = RowUnderCursor
    BY <1>7, <1>13 DEF RestartKey
  <2>2. RestartByName(Local, n, n, "screen") /\ screen' \in {Redraw, Off}
    BY <1>13, <2>1 DEF RestartKey
  <2>3. Roster' /\ ~astray' /\ \A r \in DOMAIN cycle : Ends(r) => Ends(r)'
    BY <1>1, <1>2, <2>2, ControlAssumption, RestartByNameStep
  <2>4. ScreenInv'
    BY <1>3, <1>4, <2>2
  <2>5. QED BY <1>1, <1>2, <2>3, <2>4, ScreenOnly
<1>14. CASE NoKey
  BY <1>3, <1>4, <1>6, <1>14 DEF NoKey
<1>15. CASE Quit
  <2>1. ScreenInv'
    BY <1>3, <1>4, <1>15 DEF Quit
  <2>2. Aged(child)
    BY <1>1 DEF Aged, RosterTypes
  <2>3. PICK reaped : reaped = Reaped(child) /\ Aged(reaped)
    BY <1>1, <2>2, ReapedAges
  <2>4. child' = [p \in Kids |-> [reaped[p] EXCEPT !.parent = "shell"]]
    BY <1>1, <1>15, <2>3 DEF Quit, RosterTypes
  <2>5. \A c \in ChildState : /\ [c EXCEPT !.parent = "shell"] \in ChildState
                              /\ [c EXCEPT !.parent = "shell"].at = c.at
                              /\ [c EXCEPT !.parent = "shell"].name = c.name
                              /\ [c EXCEPT !.parent = "shell"].tenant = c.tenant
    BY DEF ChildState
  <2>6. \A p \in Kids : reaped[p] \in ChildState
    BY <2>3 DEF Aged
  <2>7. Aged(child')
    <3>1. \A p \in Kids : /\ child'[p] \in ChildState /\ child'[p].at = reaped[p].at
                          /\ child'[p].name = reaped[p].name /\ child'[p].tenant = reaped[p].tenant
      BY <2>4, <2>5, <2>6
    <3>2. child' \in [Kids -> ChildState]
      BY <2>4, <3>1
    <3>3. \A p \in Kids :
            /\ reaped[p].at = "unborn" <=> child[p].at = "unborn"
            /\ reaped[p].at = "up" => child[p].at = "up"
            /\ reaped[p].name = child[p].name /\ reaped[p].tenant = child[p].tenant
      BY <2>3 DEF Aged
    <3>4. QED BY <3>1, <3>2, <3>3 DEF Aged
  <2>8. fleet' = fleet /\ astray' = astray
    BY <1>15 DEF Quit
  <2>9. QED BY <1>1, <1>5, <2>1, <2>7, <2>8 DEF RosterTypes
<1>16. QED BY <1>8, <1>9, <1>10, <1>11, <1>12, <1>13, <1>14, <1>15 DEF ScreenStep

LEMMA ControlInvInit == ControlInit => ControlInv
<1> SUFFICES ASSUME ControlInit PROVE ControlInv
  OBVIOUS
<1>1. /\ fleet = [t \in Tenants |-> [n \in Fleet |-> Absent]]
      /\ child = [p \in Kids |-> Unborn] /\ cycle = <<>>
      /\ source = [n \in Fleet |-> [imports |-> TRUE, trigger |-> IF n % 2 = 1 THEN "hourly" ELSE "none"]]
      /\ screen = Off /\ cancel = NoCancel /\ cancelled = {} /\ ~astray
  BY DEF ControlInit, Kids
<1>2. MaxSpawned \in Nat /\ Local \in Tenants
  BY ControlAssumption
<1>3. Unborn \in ChildState /\ Unborn.at = "unborn"
  BY <1>2 DEF Unborn, ChildState
<1>4. Absent \in EntryState /\ Absent.pid = 0
  BY <1>2 DEF Absent, EntryState, Cadences
<1>5. RosterTypes
  <2>1. <<>> \in Seq(CycleState)
    OBVIOUS
  <2>2. source \in [Fleet -> [imports : BOOLEAN, trigger : Cadences]]
    BY <1>1 DEF Cadences
  <2>3. QED BY <1>1, <1>3, <1>4, <2>1, <2>2 DEF RosterTypes
<1>6. Born = {} /\ Up = {}
  BY <1>1, <1>3, <1>5, BornAre
<1>7. Born = 1 .. 0 /\ 0 \in 0 .. MaxSpawned
  BY <1>2, <1>6
<1>8. Roster
  <2>1. \A t \in Tenants, n \in Fleet : fleet[t][n].pid = 0
    BY <1>1, <1>4
  <2>2. DOMAIN cycle = {}
    BY <1>1
  <2>3. QED BY <1>5, <1>6, <1>7, <2>1, <2>2 DEF Roster
<1>9. ScreenInv
  <2>1. <<>> \in Seq(Fleet) /\ Off \in ScreenState /\ Off.at = "off"
    BY DEF Off, ScreenState
  <2>2. QED BY <1>1, <2>1 DEF ScreenInv, CursorOnRow
<1>10. Cancels
  BY <1>1 DEF Cancels
<1>11. QED BY <1>1, <1>8, <1>9, <1>10 DEF ControlInv

\* What an operation leaves alone, which its disjuncts say one by one.
LEMMA OperationLeaves ==
    ASSUME Operation
    PROVE  screen' = screen /\ cancel' = cancel /\ cancelled' = cancelled
BY DEF Operation, FleetCommand, DeployFor, DieSuddenly

LEMMA ControlUnmoved ==
    ASSUME ControlInv, UNCHANGED controlVars
    PROVE  ControlInv'
<1>1. ScreenInv'
  BY DEF controlVars, ControlInv, ScreenInv, CursorOnRow, Shown
<1>2. Aged(child) /\ RosterTypes
  BY DEF ControlInv, Roster, RosterTypes, Aged
<1>3. /\ child' = child /\ fleet' = fleet /\ cycle' = cycle /\ source' = source /\ overlaid' = overlaid
      /\ cancel' = cancel /\ cancelled' = cancelled /\ astray' = astray
  BY DEF controlVars
<1>4. Aged(child')
  BY <1>2, <1>3
<1>5. Roster' /\ \A r \in DOMAIN cycle : Ends(r) => Ends(r)'
  BY <1>2, <1>3, <1>4, StayPut DEF ControlInv, RosterTypes
<1>6. QED BY <1>1, <1>3, <1>5, ScreenOnly DEF ControlInv

LEMMA ControlInvStep == ControlInv /\ (ScreenNext \/ CancelNext \/ UNCHANGED controlVars) => ControlInv'
BY OperationLeaves, OperationStep, ScreenStepKeeps, CancelSteps, ServeStep, EditStep, ControlUnmoved
   DEF ScreenNext, CancelNext

LEMMA ControlInvSuffices == ControlInv => StopsWhatIsMeant /\ CursorOnRow /\ CancelledRunsEnd
BY DEF ControlInv, Cancels, ScreenInv, Ends, StopsWhatIsMeant, CancelledRunsEnd

----------------------------------------------------------------------------
(* Control: the default observers                                           *)

ScaffoldState == [at : {"idle", "write"}, left : SUBSET Rules]

\* As long as nobody died or wrote meanwhile, who scaffolds finds no rule of the author, and
\* has written all the rules that it has not left to do.
ObserversInv ==
    /\ observers \in [Rules -> {"none", "default", "author"}]
    /\ scaffold \in [Deployers -> ScaffoldState]
    /\ overtaken \in BOOLEAN /\ lost \in BOOLEAN
    /\ ~overtaken =>
          \A d \in Deployers : Scaffolding(d) =>
              /\ \A r \in Rules : observers[r] # "author"
              /\ Rules \subseteq Written \cup scaffold[d].left
    /\ ObserversKept

LEMMA ObserversInvInit == ControlInit => ObserversInv
<1> SUFFICES ASSUME ControlInit PROVE ObserversInv
  OBVIOUS
<1>1. /\ observers = [r \in Rules |-> "none"]
      /\ scaffold = [d \in Deployers |-> [at |-> "idle", left |-> {}]]
      /\ overtaken = FALSE /\ lost = FALSE
  BY DEF ControlInit
<1>2. Written = {} /\ \A d \in Deployers : ~Scaffolding(d)
  BY <1>1 DEF Written, Scaffolding
<1>3. [at |-> "idle", left |-> {}] \in ScaffoldState
  BY DEF ScaffoldState
<1>4. scaffold \in [Deployers -> ScaffoldState] /\ observers \in [Rules -> {"none", "default", "author"}]
  BY <1>1, <1>3
<1>5. QED BY <1>1, <1>2, <1>4 DEF ObserversInv, ObserversKept

LEMMA CheckEmptyStep ==
    ASSUME ObserversInv, NEW d \in Deployers, CheckEmpty(d)
    PROVE  ObserversInv'
<1>1. observers' = observers /\ overtaken' = overtaken /\ lost' = lost /\ Written' = Written
  BY DEF CheckEmpty, Written
<1>2. CASE Written # {}
  <2>1. scaffold' = scaffold
    BY <1>2 DEF CheckEmpty, ObserversInv
  <2>2. QED BY <1>1, <2>1 DEF ObserversInv, ObserversKept, Scaffolding
<1>3. CASE Written = {}
  <2>1. PICK s \in ScaffoldState : s = [at |-> "write", left |-> Rules]
    BY DEF ScaffoldState
  <2>2. scaffold' = [scaffold EXCEPT ![d] = s]
    BY <1>3, <2>1 DEF CheckEmpty
  <2>3. /\ scaffold' \in [Deployers -> ScaffoldState] /\ scaffold'[d] = s
        /\ \A c \in Deployers \ {d} : scaffold'[c] = scaffold[c]
    BY <2>2 DEF ObserversInv
  <2>4. \A r \in Rules : observers[r] = "none"
    BY <1>3 DEF Written
  <2>5. s.at = "write" /\ s.left = Rules
    BY <2>1
  <2>6. Scaffolding(d)'
    BY <2>3, <2>5 DEF Scaffolding
  <2>7. ASSUME NEW c \in Deployers, ~overtaken', Scaffolding(c)'
        PROVE  /\ \A r \in Rules : observers'[r] # "author"
               /\ Rules \subseteq Written' \cup scaffold'[c].left
    <3>1. CASE c = d
      BY <1>1, <2>3, <2>4, <2>5, <3>1
    <3>2. CASE c # d
      <4>1. Scaffolding(c) /\ ~overtaken /\ scaffold'[c] = scaffold[c]
        BY <1>1, <2>3, <2>7, <3>2 DEF Scaffolding
      <4>2. QED BY <1>1, <4>1 DEF ObserversInv
    <3>3. QED BY <3>1, <3>2
  <2>8. ObserversKept'
    BY <1>1, <2>6 DEF ObserversInv, ObserversKept
  <2>9. QED BY <1>1, <2>3, <2>7, <2>8 DEF ObserversInv
<1>4. QED BY <1>2, <1>3

LEMMA WriteRuleStep ==
    ASSUME ObserversInv, NEW d \in Deployers, WriteRule(d)
    PROVE  ObserversInv'
<1>1. overtaken' = overtaken /\ Scaffolding(d) /\ scaffold[d].left \subseteq Rules
  BY DEF WriteRule, ObserversInv, ScaffoldState
<1>2. PICK r \in scaffold[d].left :
          /\ observers' = [observers EXCEPT ![r] = "default"]
          /\ lost' = (lost \/ observers[r] = "author")
          /\ scaffold' = [scaffold EXCEPT ![d] = IF scaffold[d].left = {r}
                            THEN [at |-> "idle", left |-> {}]
                            ELSE [at |-> "write", left |-> scaffold[d].left \ {r}]]
  BY DEF WriteRule
<1>3. PICK s \in ScaffoldState : s = IF scaffold[d].left = {r} THEN [at |-> "idle", left |-> {}]
                                     ELSE [at |-> "write", left |-> scaffold[d].left \ {r}]
  <2>1. [at |-> "idle", left |-> {}] \in ScaffoldState
        /\ [at |-> "write", left |-> scaffold[d].left \ {r}] \in ScaffoldState
    BY <1>1 DEF ScaffoldState
  <2>2. QED BY <2>1
<1>4. s.left = scaffold[d].left \ {r} /\ (s.at # "write" => s.left = {})
  BY <1>3
<1>5. /\ scaffold' \in [Deployers -> ScaffoldState] /\ scaffold'[d] = s
      /\ \A c \in Deployers \ {d} : scaffold'[c] = scaffold[c]
  BY <1>2, <1>3 DEF ObserversInv
<1>6. /\ observers' \in [Rules -> {"none", "default", "author"}]
      /\ r \in Rules /\ observers'[r] = "default"
      /\ \A q \in Rules \ {r} : observers'[q] = observers[q]
  BY <1>1, <1>2 DEF ObserversInv
<1>7. Written' = Written \cup {r}
  BY <1>6 DEF Written
<1>8. lost' \in BOOLEAN
  BY <1>2
<1>9. ASSUME ~overtaken PROVE /\ \A q \in Rules : observers[q] # "author" /\ observers'[q] # "author"
                              /\ Rules \subseteq Written' \cup s.left
                              /\ lost' = lost
  <2>1. (\A q \in Rules : observers[q] # "author") /\ Rules \subseteq Written \cup scaffold[d].left
    BY <1>1, <1>9 DEF ObserversInv
  <2>2. lost' = lost
    BY <1>2, <1>6, <2>1 DEF ObserversInv
  <2>3. QED BY <1>4, <1>6, <1>7, <2>1, <2>2
<1>10. ASSUME NEW c \in Deployers, ~overtaken', Scaffolding(c)'
       PROVE  /\ \A q \in Rules : observers'[q] # "author"
              /\ Rules \subseteq Written' \cup scaffold'[c].left
  <2>1. CASE c = d
    BY <1>1, <1>5, <1>9, <1>10, <2>1
  <2>2. CASE c # d
    <3>1. Scaffolding(c) /\ ~overtaken /\ scaffold'[c] = scaffold[c]
      BY <1>1, <1>5, <1>10, <2>2 DEF Scaffolding
    <3>2. Rules \subseteq Written \cup scaffold[c].left
      BY <3>1 DEF ObserversInv
    <3>3. QED BY <1>7, <1>9, <3>1, <3>2
  <2>3. QED BY <2>1, <2>2
<1>11. ASSUME ~overtaken', ~(\E c \in Deployers : Scaffolding(c))' PROVE Written' = Rules
  <2>1. ~Scaffolding(d)'
    BY <1>11
  <2>2. s.left = {}
    BY <1>4, <1>5, <2>1 DEF Scaffolding
  <2>3. QED BY <1>1, <1>9, <1>11, <2>2 DEF Written
<1>12. lost' => overtaken'
  BY <1>1, <1>9 DEF ObserversInv, ObserversKept
<1>13. ObserversKept'
  BY <1>11, <1>12 DEF ObserversKept
<1>14. QED BY <1>1, <1>5, <1>6, <1>8, <1>10, <1>13 DEF ObserversInv

LEMMA OthersSteps ==
    ASSUME ObserversInv,
           \/ \E d \in Deployers : DeployerDies(d)
           \/ \E r \in Rules : AuthorRule(r)
    PROVE  ObserversInv'
<1>1. ASSUME NEW d \in Deployers, DeployerDies(d) PROVE ObserversInv'
  <2>1. PICK s \in ScaffoldState : s = [at |-> "idle", left |-> {}]
    BY DEF ScaffoldState
  <2>2. scaffold' = [scaffold EXCEPT ![d] = s] /\ overtaken' /\ observers' = observers /\ lost' = lost
        /\ overtaken' = TRUE
    BY <1>1, <2>1 DEF DeployerDies
  <2>3. scaffold' \in [Deployers -> ScaffoldState]
    BY <2>2 DEF ObserversInv
  <2>4. QED BY <2>2, <2>3 DEF ObserversInv, ObserversKept
<1>2. ASSUME NEW r \in Rules, AuthorRule(r) PROVE ObserversInv'
  <2>1. /\ observers' = [observers EXCEPT ![r] = "author"]
        /\ overtaken' = (overtaken \/ \E d \in Deployers : Scaffolding(d))
        /\ scaffold' = scaffold /\ lost' = lost
    BY <1>2 DEF AuthorRule
  <2>2. /\ observers' \in [Rules -> {"none", "default", "author"}] /\ observers'[r] = "author"
        /\ \A q \in Rules \ {r} : observers'[q] = observers[q]
    BY <2>1 DEF ObserversInv
  <2>3. Written' = Written \cup {r} /\ Written \subseteq Rules
    BY <2>2 DEF Written
  <2>4. \A d \in Deployers : Scaffolding(d)' <=> Scaffolding(d)
    BY <2>1 DEF Scaffolding
  <2>5. overtaken' \in BOOLEAN /\ (lost' => overtaken')
    BY <2>1 DEF ObserversInv, ObserversKept
  <2>6. ASSUME ~overtaken'
        PROVE  /\ \A d \in Deployers : ~Scaffolding(d)' /\ ~Scaffolding(d)
               /\ ~overtaken
               /\ Written' \in {{}, Rules} \/ \A q \in Written' : observers'[q] = "author"
    <3>1. ~overtaken /\ \A d \in Deployers : ~Scaffolding(d)
      BY <2>1, <2>6
    <3>2. Written \in {{}, Rules} \/ \A q \in Written : observers[q] = "author"
      BY <3>1 DEF ObserversInv, ObserversKept
    <3>3. CASE Written = {}
      BY <2>2, <2>3, <2>4, <3>1, <3>3
    <3>4. CASE Written = Rules
      BY <2>3, <2>4, <3>1, <3>4
    <3>5. CASE \A q \in Written : observers[q] = "author"
      BY <2>2, <2>3, <2>4, <3>1, <3>5
    <3>6. QED BY <3>2, <3>3, <3>4, <3>5
  <2>7. ObserversKept'
    BY <2>5, <2>6 DEF ObserversKept
  <2>8. QED BY <2>1, <2>2, <2>5, <2>6, <2>7 DEF ObserversInv
<1>3. QED BY <1>1, <1>2

LEMMA ObserversInvStep == ObserversInv /\ [ScaffoldNext]_scaffoldVars => ObserversInv'
<1>1. ASSUME ObserversInv, UNCHANGED scaffoldVars PROVE ObserversInv'
  BY <1>1 DEF scaffoldVars, ObserversInv, ObserversKept, Scaffolding, Written
<1>2. QED BY <1>1, CheckEmptyStep, WriteRuleStep, OthersSteps DEF ScaffoldNext

----------------------------------------------------------------------------
(* The parts of a deployment together                                       *)

\* Whatever part is at work, the others stand still, and each keeps its own invariant.
OperatorInv == IndexInv /\ StreamInv /\ ControlInv /\ ObserversInv

LEMMA OperatorInvStep ==
    OperatorInv
    /\ [DeploymentsNext]_<<focus, vars, feedVars, consoleVars, controlVars, scaffoldVars>> => OperatorInv'
<1> SUFFICES ASSUME OperatorInv,
                    [DeploymentsNext]_<<focus, vars, feedVars, consoleVars, controlVars, scaffoldVars>>
             PROVE  OperatorInv'
  OBVIOUS
<1>1. [IndexNext]_indexVars /\ [StreamNext]_streamVars /\ [ScaffoldNext]_scaffoldVars
      /\ (ScreenNext \/ CancelNext \/ UNCHANGED controlVars)
  <2>1. CASE UNCHANGED <<focus, vars, feedVars, consoleVars, controlVars, scaffoldVars>>
    BY <2>1 DEF consoleVars
  <2>2. CASE DeploymentsNext
    BY <2>2 DEF DeploymentsNext, OnlyConsole, OnlyControl, consoleVars, IndexNext, StreamNext
  <2>3. QED BY <2>1, <2>2
<1>2. QED BY <1>1, IndexInvStep, StreamInvStep, ControlInvStep, ObserversInvStep DEF OperatorInv

\* What an operator sees and does is true to what there is: the index and what is pointed at in it,
\* the stream of a run and its report, the rows of craw manage, what a stop or a cancel ends,
\* and the default observers (code/deploy.py, runtime/projection.py, manage.py, code/control.py).
THEOREM OperatorStaysServed == DeploymentsSpec => []OperatorIsServed
<1>1. DeploymentsInit => OperatorInv
  BY IndexInvInit, StreamInvInit, ControlInvInit, ObserversInvInit DEF DeploymentsInit, OperatorInv
<1>2. OperatorInv => OperatorIsServed
  BY IndexInvSuffices, StreamInvSuffices, ControlInvSuffices
     DEF OperatorInv, OperatorIsServed, ConsoleIsTrue, ControlHolds, ObserversInv
<1>3. QED BY <1>1, <1>2, OperatorInvStep, PTL DEF DeploymentsSpec
=============================================================================
