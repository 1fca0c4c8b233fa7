----------------------------- MODULE Authoring -----------------------------
(***************************************************************************)
(* Commands of craw code on one component of an authored tree, each in its  *)
(* own process: new writes the component's files under the tree's write     *)
(* lease and stamps each with its provenance, sync compiles them under the  *)
(* read lease and checks the capabilities they declare against the grant,   *)
(* describe, map and grant compile them without a lease.  Any of them may   *)
(* end by an exception, which gives a lease back, or be killed, which does  *)
(* not.  The lease is taken here as it decides when operations do not       *)
(* overlap; TreeLock has the steps it is made of.                           *)
(***************************************************************************)
EXTENDS Integers, Sequences, FiniteSets

CONSTANTS Authors,   \* processes, one command each
          Files,     \* the files of the component, in the order new writes them
          Imported,  \* those a compile imports: definition.py and the modules beside it
          Drafts,    \* contents a file can have: one per rendering of the template
          Absent,    \* no file
          Torn,      \* opened for writing and not written to the end
          SecretsOf, EgressOf  \* what an imported file declares, by its content

ASSUME AuthoringAssumption ==
    /\ Absent \notin Drafts /\ Torn \notin Drafts /\ Torn # Absent
    /\ Files \in Seq({Files[i] : i \in DOMAIN Files}) /\ Len(Files) > 0
    /\ \A i, j \in DOMAIN Files : Files[i] = Files[j] => i = j
    /\ Imported \subseteq {Files[i] : i \in DOMAIN Files}

Paths == {Files[i] : i \in DOMAIN Files}

VARIABLES disk,     \* content by file
          stamps,   \* file_provenance rows of the project's ledger
          writer,   \* who holds the write lease
          readers,  \* who holds the read lease
          granted,  \* capability_grant record: secrets and egress
          generated,\* generated_provenance records, by component content
          step,     \* where each command is
          cmd,      \* its kind and arguments
          tree,     \* the component as it compiled it
          lost,     \* files overwritten by a new without --force
          unfinished \* news that ended by an exception since one went through

authoringVars == <<disk, stamps, writer, readers, granted, generated, step, cmd, tree, lost,
                   unfinished>>

NoTree == [f \in Paths |-> Absent]   \* also: nothing compiled
NoGrant == [secrets |-> {}, egress |-> {}]
Imports(t) == {f \in Imported : t[f] # Absent}
Declared(t) == [secrets |-> UNION {SecretsOf[t[f]] : f \in Imports(t)},
                egress |-> UNION {EgressOf[t[f]] : f \in Imports(t)}]

\* A row is keyed by path and content.  new names a file by its path from the project's
\* root, a compile by its path from the Definition's directory: rows of their own.
NewRow(f, d) == <<"craw-code-new", f, d>>
CompileRow(f, d) == <<"craw-code", f, d>>

WholeTree(d) == [f \in Paths |-> d]

\* nothing yet, or what an earlier session wrote and perhaps granted
AuthoringInit ==
    /\ \E d \in Drafts \cup {Absent} :
          /\ disk = WholeTree(d)
          /\ stamps = IF d = Absent THEN {} ELSE {NewRow(f, d) : f \in Paths}
          /\ granted \in {NoGrant, Declared(WholeTree(d))}
    /\ writer = {} /\ readers = {} /\ generated = {}
    /\ step = [p \in Authors |-> "start"]
    /\ cmd = [p \in Authors |-> [kind |-> "none"]]
    /\ tree = [p \in Authors |-> NoTree]
    /\ lost = {} /\ unfinished = {}

To(p, s) == step' = [step EXCEPT ![p] = s]
Do(p, from, to) == step[p] = from /\ To(p, to)
Chosen(p, c) == cmd' = [cmd EXCEPT ![p] = c]
----------------------------------------------------------------------------
(* craw code new                                                            *)

Existing == \E f \in Paths : disk[f] # Absent

\* the files are looked at before the lease is asked for
New(p) ==
    /\ step[p] = "start"
    /\ \E d \in Drafts, force \in BOOLEAN :
          /\ Chosen(p, [kind |-> "new", draft |-> d, force |-> force, next |-> 1])
          /\ To(p, IF Existing /\ ~force THEN "refused" ELSE "leasing")
    /\ UNCHANGED <<disk, stamps, writer, readers, granted, generated, tree, lost, unfinished>>

\* acquire_write, or TreeBusy
LeaseWrite(p) ==
    /\ step[p] = "leasing" /\ cmd[p].kind = "new"
    /\ IF writer = {} /\ readers = {}
         THEN writer' = {p} /\ To(p, "write")
         ELSE To(p, "busy") /\ UNCHANGED writer
    /\ UNCHANGED <<disk, stamps, readers, granted, generated, cmd, tree, lost, unfinished>>

Current(p) == Files[cmd[p].next]

\* mkdir and open: the file is cut short before anything is written to it
OpenFile(p) ==
    /\ Do(p, "write", "fill")
    /\ disk' = [disk EXCEPT ![Current(p)] = Torn]
    /\ lost' = IF cmd[p].force \/ disk[Current(p)] = Absent THEN lost
               ELSE lost \cup {Current(p)}
    /\ UNCHANGED <<stamps, writer, readers, granted, generated, cmd, tree, unfinished>>

WriteFile(p) ==
    /\ Do(p, "fill", "stamp")
    /\ disk' = [disk EXCEPT ![Current(p)] = cmd[p].draft]
    /\ UNCHANGED <<stamps, writer, readers, granted, generated, cmd, tree, lost, unfinished>>

FirstPath(p) == Files[1]   \* mutated: every stamp names the first file

StampPath(p) == Current(p)

\* record_file_provenance, then the next file or the end of the lease
Stamp(p) ==
    /\ step[p] = "stamp"
    /\ stamps' = stamps \cup {NewRow(StampPath(p), cmd[p].draft)}
    /\ IF cmd[p].next < Len(Files)
         THEN /\ To(p, "write") /\ Chosen(p, [cmd[p] EXCEPT !.next = @ + 1])
              /\ UNCHANGED <<writer, unfinished>>
         ELSE To(p, "done") /\ writer' = {} /\ unfinished' = {} /\ UNCHANGED cmd
    /\ UNCHANGED <<disk, readers, granted, generated, tree, lost>>
----------------------------------------------------------------------------
(* Compiling: sync, describe, grant                                         *)

MayRead == writer = {}

Sync(p) ==
    /\ step[p] = "start" /\ Chosen(p, [kind |-> "sync"])
    /\ IF MayRead THEN readers' = readers \cup {p} /\ To(p, "compile")
                  ELSE To(p, "busy") /\ UNCHANGED readers
    /\ UNCHANGED <<disk, stamps, writer, granted, generated, tree, lost, unfinished>>

\* the ledger describe opens is the component's own, map's is the project's
Describe(p) ==
    /\ Do(p, "start", "compile")
    /\ \E kind \in {"describe", "map"} : Chosen(p, [kind |-> kind])
    /\ UNCHANGED <<disk, stamps, writer, readers, granted, generated, tree, lost, unfinished>>

Grant(p) ==
    /\ Do(p, "start", "compile")
    /\ \E yes \in BOOLEAN : Chosen(p, [kind |-> "grant", yes |-> yes])
    /\ UNCHANGED <<disk, stamps, writer, readers, granted, generated, tree, lost, unfinished>>

\* load_definition_jailed: list and import the files; or a DefinitionLoadError, or, for
\* describe, a projection cached before
Compile(p) ==
    /\ step[p] = "compile"
    /\ \/ Existing /\ tree' = [tree EXCEPT ![p] = disk] /\ To(p, "rehash")
          /\ UNCHANGED readers
       \/ To(p, "done") /\ readers' = readers \ {p} /\ UNCHANGED tree
    /\ UNCHANGED <<disk, stamps, writer, granted, generated, cmd, lost, unfinished>>

CompileRows(p) ==
    IF cmd[p].kind = "describe" THEN {}
    ELSE {CompileRow(f, disk[f]) : f \in Imports(tree[p])}

\* ... and then stamp each file it imported with the sha the file has by now
Rehash(p) ==
    /\ step[p] = "rehash"
    /\ stamps' = stamps \cup CompileRows(p)
    /\ To(p, IF cmd[p].kind \in {"describe", "map"} THEN "done" ELSE "regate")
    /\ UNCHANGED <<disk, writer, readers, granted, generated, cmd, tree, lost, unfinished>>

\* assert_build_safe, which is sync's alone, rejects a wiring
Rejected(p) ==
    /\ Do(p, "regate", "rejected") /\ cmd[p].kind = "sync"
    /\ readers' = readers \ {p}
    /\ UNCHANGED <<disk, stamps, writer, granted, generated, cmd, tree, lost, unfinished>>

SecretsCovered(caps) == caps.secrets \subseteq granted.secrets   \* mutated: egress is not compared

Covered(caps) == caps.secrets \subseteq granted.secrets /\ caps.egress \subseteq granted.egress

\* regate_definition finds nothing new, or regate_generated, which looks again
Regated(p) ==
    /\ step[p] \in {"regate", "recheck"} /\ Covered(Declared(tree[p]))
    /\ To(p, "clean") /\ readers' = readers \ {p}
    /\ UNCHANGED <<disk, stamps, writer, granted, generated, cmd, tree, lost, unfinished>>

\* something new is declared: provenance is recorded before the second look
Generated(p) ==
    /\ Do(p, "regate", "recheck") /\ ~Covered(Declared(tree[p]))
    /\ generated' = generated \cup {tree[p]}
    /\ UNCHANGED <<disk, stamps, writer, readers, granted, cmd, tree, lost, unfinished>>

StillNew(p) ==
    /\ Do(p, "recheck", "consent") /\ ~Covered(Declared(tree[p]))
    /\ UNCHANGED <<disk, stamps, writer, readers, granted, generated, cmd, tree, lost, unfinished>>

Approves(p) == cmd[p].kind = "grant" /\ cmd[p].yes

\* consent_install: the grant is replaced by what the component declares
Consent(p) ==
    /\ Do(p, "consent", "clean") /\ Approves(p)
    /\ granted' = Declared(tree[p])
    /\ UNCHANGED <<disk, stamps, writer, readers, generated, cmd, tree, lost, unfinished>>

\* ConsentDeclined: sync and a grant without --yes never grant
Declined(p) ==
    /\ Do(p, "consent", "consent_required") /\ ~Approves(p)
    /\ readers' = readers \ {p}
    /\ UNCHANGED <<disk, stamps, writer, granted, generated, cmd, tree, lost, unfinished>>
----------------------------------------------------------------------------
(* Ends nobody asked for                                                    *)

Writing == {"write", "fill", "stamp"}
Reading == {"compile", "rehash", "regate", "recheck", "consent"}
Ended == {"refused", "busy", "done", "clean", "rejected", "consent_required", "raised", "killed"}

\* what a command that ends inside a step may have recorded in it
StampedInPart(p) ==
    \E rows \in SUBSET (IF step[p] = "stamp" THEN {NewRow(StampPath(p), cmd[p].draft)}
                       ELSE IF step[p] = "rehash" THEN CompileRows(p) ELSE {}) :
        stamps' = stamps \cup rows

GeneratedInPart(p) ==
    generated' \in {generated}
        \cup (IF step[p] = "regate" /\ ~Covered(Declared(tree[p])) THEN {generated \cup {tree[p]}} ELSE {})

\* an OSError, a Ctrl-C or an error of the Store: finally gives the lease back
Raises(p) ==
    /\ step[p] \in Writing \cup Reading /\ To(p, "raised")
    /\ writer' = writer \ {p} /\ readers' = readers \ {p}
    /\ unfinished' = IF step[p] \in Writing THEN unfinished \cup {p} ELSE unfinished
    /\ StampedInPart(p) /\ GeneratedInPart(p)
    /\ UNCHANGED <<disk, granted, cmd, tree, lost>>

\* killed: a lease it had is never released
KillCommand(p) ==
    /\ step[p] \in Writing \cup Reading \cup {"leasing"} /\ To(p, "killed")
    /\ StampedInPart(p) /\ GeneratedInPart(p)
    /\ UNCHANGED <<disk, writer, readers, granted, cmd, tree, lost, unfinished>>

AuthoringNext == \E p \in Authors :
    \/ New(p) \/ LeaseWrite(p) \/ OpenFile(p) \/ WriteFile(p) \/ Stamp(p)
    \/ Sync(p) \/ Describe(p) \/ Grant(p) \/ Compile(p) \/ Rehash(p) \/ Rejected(p)
    \/ Regated(p) \/ Generated(p) \/ StillNew(p) \/ Consent(p) \/ Declined(p)
    \/ Raises(p) \/ KillCommand(p)

AuthoringSpec == AuthoringInit /\ [][AuthoringNext]_authoringVars
----------------------------------------------------------------------------
(* Properties                                                               *)

Whole(t) == \A f, g \in Paths : t[f] = t[g]

\* While a sync has its lease, what it compiled is what lies in the tree: whole unless a
\* new has ended by an exception since one went through; and every file it imported is
\* stamped with the content it was compiled from, whatever becomes of the tree later.
SyncCompilesTree == \A p \in Authors :
    cmd[p].kind = "sync" /\ tree[p] # NoTree =>
        /\ step[p] \in Reading =>
              tree[p] = disk /\ (unfinished = {} => Whole(tree[p]))
        /\ step[p] \in {"regate", "recheck", "consent", "clean", "rejected", "consent_required"} =>
              \A f \in Imports(tree[p]) : CompileRow(f, tree[p][f]) \in stamps

\* Whenever nobody holds the write lease, a file without the provenance of what it holds
\* is the one a new was at when it raised, and holds what that new was writing: an
\* exception costs that file its row, and no other.  The next new to go through leaves
\* the tree whole and stamped, whatever it found.
TreeIsStamped == writer = {} =>
    /\ \A f \in Paths : disk[f] = Absent \/ NewRow(f, disk[f]) \in stamps
          \/ \E p \in unfinished : Current(p) = f /\ disk[f] \in {Torn, cmd[p].draft}
    /\ unfinished = {} => Whole(disk)

\* What new and sync leave behind each other, whoever is killed or raises where.
TreeIsSound == SyncCompilesTree /\ TreeIsStamped

\* A sync that ends clean found everything it compiled covered; what it found
\* uncovered is on record as generated, and only a grant that says --yes grants.
CleanIsCovered == [][
    /\ granted' # granted => \E p \in Authors : Approves(p) /\ step[p] = "consent"
    /\ \A p \in Authors : step[p] # "clean" /\ step'[p] = "clean" =>
          /\ Declared(tree[p]).secrets \subseteq granted'.secrets
          /\ Declared(tree[p]).egress \subseteq granted'.egress]_authoringVars

----------------------------------------------------------------------------
(* Claims of the documentation that do not hold                             *)

\* "path exists; pass --force to overwrite" (code/new.py:272): the look is before the
\* lease, so of two news without --force the second overwrites what the first wrote.
NothingLost == lost = {}

\* "so a torn tree is refused, not compiled" (code/treelock.py:6): a new that raises gives
\* the lease back over a tree it has half written, and the next sync compiles it.
TornIsRefused == \A p \in Authors :
    cmd[p].kind = "sync" /\ tree[p] # NoTree => Whole(tree[p])

\* "A reader (sync/describe/map) takes a shared lease around load_definition"
\* (code/treelock.py:11): describe, map and grant take none.
EveryCompileWhole == \A p \in Authors : tree[p] # NoTree => Whole(tree[p])
=============================================================================
