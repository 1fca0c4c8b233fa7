----------------------------- MODULE Promotion ------------------------------
(***************************************************************************)
(* crawfish.code.gate: the propose, approve, apply gate of one component    *)
(* and the lineage of its versions, of which one is active.                 *)
(*                                                                          *)
(* Commands are processes over one Store: a step is the code up to one      *)
(* access of the Store or of the component's files.  A command may die.     *)
(* The order in which the Store lists the rows (their last writes) is left  *)
(* open.                                                                    *)
(***************************************************************************)
EXTENDS Naturals, FiniteSets

CONSTANTS Shas,      \* content shas the component's files can have
          Cmds,      \* commands that can run at the same time
          NoSha,
          MaxCmds,   \* bound: commands begun
          MaxEdits   \* bound: edits of the component's files

ASSUME PromotionAssumption == NoSha \notin Shas /\ MaxCmds \in Nat /\ MaxEdits \in Nat

VARIABLES source,    \* content sha of the component's files
          staged,    \* shas with a proposal
          decision,  \* the human's latest decision on each sha
          rows,      \* the shas in the lineage
          active,    \* the active flag of each row
          parent,    \* parent_sha of each row
          baseline,  \* the sha whose scores are the regression baseline
          cmd,       \* where each command is
          edits, begun,
          granted,   \* shas on which an approval has ever been recorded
          raced      \* commands on the lineage have overlapped, or one died

store == <<staged, decision, rows, active, parent, baseline>>
ghosts == <<edits, begun, granted, raced>>
vars == <<source, store, cmd, ghosts>>

Active == {s \in Shas : active[s]}

\* what a command carries: its sha, the parent it found, the rows it will write
Command ==
    [at : {"idle", "compile", "find", "base", "record", "history", "flip", "baseline"},
     sha : Shas \cup {NoSha}, parent : Shas \cup {NoSha},
     todo : SUBSET Shas, reject : BOOLEAN]

Idle == [at |-> "idle", sha |-> NoSha, parent |-> NoSha, todo |-> {}, reject |-> FALSE]
----------------------------------------------------------------------------
TypeOK ==
    /\ source \in Shas /\ staged \subseteq Shas /\ granted \subseteq Shas
    /\ decision \in [Shas -> {"none", "approve", "reject"}]
    /\ rows \subseteq Shas
    /\ active \in [Shas -> BOOLEAN] /\ parent \in [Shas -> Shas \cup {NoSha}]
    /\ \A s \in Shas : active[s] => s \in rows
    /\ baseline \in rows \cup {NoSha}
    /\ cmd \in [Cmds -> Command]
    /\ edits \in 0 .. MaxEdits /\ begun \in 0 .. MaxCmds /\ raced \in BOOLEAN

Init ==
    /\ source \in Shas /\ staged = {}
    /\ decision = [s \in Shas |-> "none"]
    /\ rows = {} /\ active = [s \in Shas |-> FALSE]
    /\ parent = [s \in Shas |-> NoSha] /\ baseline = NoSha
    /\ cmd = [c \in Cmds |-> Idle]
    /\ edits = 0 /\ begun = 0 /\ granted = {} /\ raced = FALSE
----------------------------------------------------------------------------
Edit ==
    /\ edits < MaxEdits
    /\ edits' = edits + 1
    /\ source' \in Shas \ {source}
    /\ UNCHANGED <<store, cmd, begun, granted, raced>>

\* stage_proposal: the base it diffs against is read and only printed
Propose ==
    /\ staged' = staged \cup {source}
    /\ UNCHANGED <<source, decision, rows, active, parent, baseline, cmd, ghosts>>

\* record_decision by the human
Approve(s) ==
    /\ s \in staged
    /\ decision' = [decision EXCEPT ![s] = "approve"]
    /\ granted' = granted \cup {s}
    /\ UNCHANGED <<source, staged, rows, active, parent, baseline, cmd, edits, begun, raced>>

Begin(c, at, s) ==
    /\ cmd[c].at = "idle" /\ begun < MaxCmds
    /\ begun' = begun + 1
    /\ cmd' = [cmd EXCEPT ![c] = [Idle EXCEPT !.at = at, !.sha = s,
                                             !.reject = (at = "find")]]
    /\ raced' = (raced \/ \E d \in Cmds : cmd[d].at # "idle")

Goto(c, at) == cmd' = [cmd EXCEPT ![c].at = at]

IsApproved(s) == decision[s] = "approve"

\* _cmd_apply; with no proposal, no approval or no budget left it is refused
Apply(c, s) ==
    /\ s \in staged /\ IsApproved(s)
    /\ Begin(c, "compile", s)
    /\ UNCHANGED <<source, store, edits, granted>>

\* mutated: what the files hold now is promoted
CompileWhatever(c) ==
    /\ cmd[c].at = "compile"
    /\ cmd' = [cmd EXCEPT ![c].at = "find", ![c].sha = source]
    /\ UNCHANGED <<source, store, ghosts>>

\* the files still are what was approved, or it is refused
Compile(c) ==
    /\ cmd[c].at = "compile"
    /\ Goto(c, IF source = cmd[c].sha THEN "find" ELSE "idle")
    /\ UNCHANGED <<source, store, ghosts>>

\* _cmd_reject: the decision, then rollback
Reject(c, s) ==
    /\ decision' = [decision EXCEPT ![s] = "reject"]
    /\ Begin(c, "find", s)
    /\ UNCHANGED <<source, staged, rows, active, parent, baseline, edits, granted>>

\* _promote and rollback read the row of the sha
Find(c) ==
    /\ cmd[c].at = "find"
    /\ Goto(c, IF cmd[c].sha \in rows THEN "history"
               ELSE IF cmd[c].reject THEN "idle" ELSE "base")
    /\ UNCHANGED <<source, store, ghosts>>

\* active: the first row that says so
Base(c) ==
    /\ cmd[c].at = "base"
    /\ \E s \in IF Active = {} THEN {NoSha} ELSE Active :
          cmd' = [cmd EXCEPT ![c].at = "record", ![c].parent = s]
    /\ UNCHANGED <<source, store, ghosts>>

ParentFound(c) == cmd[c].parent

Record(c) ==
    /\ cmd[c].at = "record"
    /\ rows' = rows \cup {cmd[c].sha}
    /\ active' = [active EXCEPT ![cmd[c].sha] = FALSE]
    /\ parent' = [parent EXCEPT ![cmd[c].sha] = ParentFound(c)]
    /\ Goto(c, "history")
    /\ UNCHANGED <<source, staged, decision, baseline, ghosts>>

\* mutated: only the row to activate is written
OnlyOn(s) == {t \in rows : t = s /\ ~active[t]}

\* set_active reads every row; those whose flag is wrong are to be written
Wrong(s) == {t \in rows : active[t] # (t = s)}

History(c) ==
    /\ cmd[c].at = "history"
    /\ cmd' = [cmd EXCEPT ![c].at = "flip", ![c].todo = Wrong(cmd[c].sha)]
    /\ UNCHANGED <<source, store, ghosts>>

Flip(c) ==
    /\ cmd[c].at = "flip"
    /\ \E s \in cmd[c].todo :
          /\ active' = [active EXCEPT ![s] = (s = cmd[c].sha)]
          /\ cmd' = [cmd EXCEPT ![c].todo = @ \ {s}]
    /\ UNCHANGED <<source, staged, decision, rows, parent, baseline, ghosts>>

\* an apply is done, a rollback resets the baseline
Flipped(c) ==
    /\ cmd[c].at = "flip" /\ cmd[c].todo = {}
    /\ Goto(c, IF cmd[c].reject THEN "baseline" ELSE "idle")
    /\ UNCHANGED <<source, store, ghosts>>

SaveBaseline(c) ==
    /\ cmd[c].at = "baseline"
    /\ baseline' = cmd[c].sha
    /\ Goto(c, "idle")
    /\ UNCHANGED <<source, staged, decision, rows, active, parent, ghosts>>

\* interrupted, or an error of the Store
Die(c) ==
    /\ cmd[c].at # "idle"
    /\ Goto(c, "idle")
    /\ raced' = TRUE
    /\ UNCHANGED <<source, store, edits, begun, granted>>

Run(c) == \/ Compile(c) \/ Find(c) \/ Base(c) \/ Record(c)
          \/ History(c) \/ Flip(c) \/ Flipped(c) \/ SaveBaseline(c)

Next ==
    \/ Edit \/ Propose
    \/ \E s \in Shas : Approve(s)
    \/ \E c \in Cmds : \/ Run(c) \/ Die(c)
                       \/ \E s \in Shas : Apply(c, s) \/ Reject(c, s)

Spec == Init /\ [][Next]_vars
----------------------------------------------------------------------------
(* Properties                                                               *)

AtRest == \A c \in Cmds : cmd[c].at = "idle"

\* Whatever overlaps or dies, no version is in the lineage, let alone active,
\* that no human ever approved; a decision to reject does not let it in.
OnlyApprovedIn == \A s \in Shas : s \in rows => s \in granted

\* Commands that run one after the other leave exactly one version active, as
\* soon as the lineage has any.
OneActiveInTurn == AtRest /\ ~raced /\ rows # {} => \E s \in Shas : Active = {s}

(* Claims of the documentation that do not hold (README, 5).                *)

\* "Exactly one active version at a time": at least when no command runs.
OneActive == AtRest => \A s, t \in Active : s = t

\* A rejection "returns the component to its prior state": a rejected version
\* that has a prior one is not left active.
RejectedNotActive ==
    AtRest /\ ~raced => \A s \in Active : decision[s] = "reject" => parent[s] = NoSha
=============================================================================
