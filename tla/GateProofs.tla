----------------------------- MODULE GateProofs -----------------------------
(***************************************************************************)
(* Proofs about what has to be passed: the gate of a proposed version       *)
(* (Promotion), the baseline of a Definition (Baselines), the live trial    *)
(* (Serving), and the consent a secret is leased on (Broker).  They hold    *)
(* for any contents, scores and rewards, any number of commands and calls,  *)
(* and any bounds.                                                          *)
(***************************************************************************)
EXTENDS Promotion, Baselines, Serving, Broker, FiniteSetTheorems, TLAPS

(* Promotion                                                                *)

\* What a command that is under way knows.
CommandInv ==
    \A c \in Cmds :
        /\ cmd[c].todo \subseteq rows
        /\ cmd[c].at # "idle" => cmd[c].sha \in Shas
        /\ cmd[c].at \in {"history", "flip", "baseline"} => cmd[c].sha \in rows
        /\ cmd[c].at \in {"compile", "base", "record"} => ~cmd[c].reject
        /\ cmd[c].at # "idle" /\ ~cmd[c].reject => cmd[c].sha \in granted

GrantedInv == \A s \in Shas : decision[s] = "approve" => s \in granted

SafeInv == TypeOK /\ CommandInv /\ GrantedInv /\ OnlyApprovedIn

LEMMA SafeInit == Init => SafeInv
<1> SUFFICES ASSUME Init PROVE SafeInv
  OBVIOUS
<1>1. Idle \in Command
  BY DEF Idle, Command
<1>2. TypeOK
  <2>1. cmd \in [Cmds -> Command] /\ decision \in [Shas -> {"none", "approve", "reject"}]
    BY <1>1 DEF Init
  <2>2. active \in [Shas -> BOOLEAN] /\ \A s \in Shas : ~active[s]
    BY DEF Init
  <2>3. edits \in 0 .. MaxEdits /\ begun \in 0 .. MaxCmds
    BY PromotionAssumption DEF PromotionAssumption, Init
  <2> QED BY <2>1, <2>2, <2>3 DEF Init, TypeOK
<1>3. CommandInv
  BY DEF Init, CommandInv, Idle
<1>4. GrantedInv /\ OnlyApprovedIn
  BY DEF Init, GrantedInv, OnlyApprovedIn
<1> QED BY <1>2, <1>3, <1>4 DEF SafeInv

\* A command that moves keeps the type of every command.
LEMMA GotoType ==
  ASSUME cmd \in [Cmds -> Command], NEW c \in Cmds,
         NEW at \in {"idle", "compile", "find", "base", "record", "history", "flip", "baseline"},
         Goto(c, at)
  PROVE  /\ cmd' \in [Cmds -> Command]
         /\ \A d \in Cmds : d # c => cmd'[d] = cmd[d]
         /\ cmd'[c].at = at /\ cmd'[c].sha = cmd[c].sha /\ cmd'[c].todo = cmd[c].todo
         /\ cmd'[c].reject = cmd[c].reject /\ cmd'[c].parent = cmd[c].parent
  BY DEF Goto, Command

LEMMA BeginType ==
  ASSUME cmd \in [Cmds -> Command], begun \in 0 .. MaxCmds, NEW c \in Cmds,
         NEW at \in {"compile", "find"}, NEW s \in Shas, Begin(c, at, s)
  PROVE  /\ cmd' \in [Cmds -> Command]
         /\ \A d \in Cmds : d # c => cmd'[d] = cmd[d]
         /\ cmd'[c].at = at /\ cmd'[c].sha = s /\ cmd'[c].todo = {}
         /\ (at = "compile" => ~cmd'[c].reject) /\ (at = "find" => cmd'[c].reject)
         /\ cmd[c].at = "idle" /\ begun' \in 0 .. MaxCmds
<1> DEFINE new == [Idle EXCEPT !.at = at, !.sha = s, !.reject = (at = "find")]
<1>1. /\ new \in Command /\ new.at = at /\ new.sha = s /\ new.todo = {}
      /\ (at = "compile" => ~new.reject) /\ (at = "find" => new.reject)
  BY DEF Idle, Command
<1>2. cmd' = [cmd EXCEPT ![c] = new] /\ cmd[c].at = "idle"
  BY DEF Begin
<1>3. begun' \in 0 .. MaxCmds
  BY PromotionAssumption DEF PromotionAssumption, Begin
<1> HIDE DEF new
<1> QED BY <1>1, <1>2, <1>3

\* The steps of a command, one by one.
LEMMA SafeRun ==
  ASSUME SafeInv, NEW c \in Cmds, Run(c) \/ Die(c)
  PROVE  SafeInv'
<1> USE DEF SafeInv, TypeOK, CommandInv, GrantedInv, OnlyApprovedIn, store, ghosts
<1>1. CASE Compile(c)
  <2>1. PICK at \in {"find", "idle"} : Goto(c, at)
    BY <1>1 DEF Compile
  <2> QED BY <1>1, <2>1, GotoType DEF Compile
<1>2. CASE Find(c)
  <2>1. CASE cmd[c].sha \in rows
    <3>1. Goto(c, "history")
      BY <1>2, <2>1 DEF Find
    <3> QED BY <1>2, <2>1, <3>1, GotoType DEF Find
  <2>2. CASE cmd[c].sha \notin rows /\ cmd[c].reject
    <3>1. Goto(c, "idle")
      BY <1>2, <2>2 DEF Find
    <3> QED BY <1>2, <2>2, <3>1, GotoType DEF Find
  <2>3. CASE cmd[c].sha \notin rows /\ ~cmd[c].reject
    <3>1. Goto(c, "base")
      BY <1>2, <2>3 DEF Find
    <3> QED BY <1>2, <2>3, <3>1, GotoType DEF Find
  <2> QED BY <2>1, <2>2, <2>3
<1>3. CASE Base(c)
  <2>1. PICK s \in Shas \cup {NoSha} :
           cmd' = [cmd EXCEPT ![c].at = "record", ![c].parent = s]
    BY <1>3 DEF Base, Active
  <2>2. /\ cmd' \in [Cmds -> Command]
        /\ \A d \in Cmds : d # c => cmd'[d] = cmd[d]
        /\ cmd'[c].at = "record" /\ cmd'[c].sha = cmd[c].sha
        /\ cmd'[c].todo = cmd[c].todo /\ cmd'[c].reject = cmd[c].reject
    <3> cmd \in [Cmds -> Command]
      OBVIOUS
    <3> HIDE DEF SafeInv, TypeOK, CommandInv, GrantedInv, OnlyApprovedIn
    <3> QED BY <2>1 DEF Command
  <2> QED BY <1>3, <2>2 DEF Base
<1>4. CASE Record(c)
  <2>1. Goto(c, "history") /\ cmd[c].at = "record"
    BY <1>4 DEF Record
  <2>2. cmd[c].sha \in Shas /\ cmd[c].sha \in granted
    BY <2>1
  <2>3. parent' \in [Shas -> Shas \cup {NoSha}]
    BY <1>4 DEF Record, ParentFound, Command
  <2>4. active' \in [Shas -> BOOLEAN] /\ \A s \in Shas : active'[s] => s \in rows'
    BY <1>4, <2>2 DEF Record
  <2> QED BY <1>4, <2>1, <2>2, <2>3, <2>4, GotoType DEF Record
<1>5. CASE History(c)
  <2>1. /\ cmd' \in [Cmds -> Command]
        /\ \A d \in Cmds : d # c => cmd'[d] = cmd[d]
        /\ cmd'[c].at = "flip" /\ cmd'[c].sha = cmd[c].sha
        /\ cmd'[c].todo \subseteq rows /\ cmd'[c].reject = cmd[c].reject
    <3> DEFINE todo == Wrong(cmd[c].sha)
    <3>1. todo \subseteq rows
      BY DEF Wrong
    <3>2. cmd' = [cmd EXCEPT ![c].at = "flip", ![c].todo = todo] /\ todo \in SUBSET Shas
      BY <1>5, <3>1 DEF History
    <3> HIDE DEF todo
    <3>3. cmd' \in [Cmds -> Command]
      <4>1. cmd \in [Cmds -> Command]
        OBVIOUS
      <4> HIDE DEF SafeInv, TypeOK, CommandInv, GrantedInv, OnlyApprovedIn
      <4>2. [cmd[c] EXCEPT !.at = "flip", !.todo = todo] \in Command
        BY <3>2, <4>1 DEF Command
      <4>3. cmd' = [cmd EXCEPT ![c] = [cmd[c] EXCEPT !.at = "flip", !.todo = todo]]
        BY <3>2, <4>1
      <4>4. QED BY <4>1, <4>2, <4>3
    <3>4. QED BY <3>1, <3>2, <3>3 DEF Command
  <2> QED BY <1>5, <2>1 DEF History
<1>6. CASE Flip(c)
  <2>1. PICK s \in cmd[c].todo :
           /\ active' = [active EXCEPT ![s] = (s = cmd[c].sha)]
           /\ cmd' = [cmd EXCEPT ![c].todo = @ \ {s}]
    BY <1>6 DEF Flip
  <2>2. /\ cmd' \in [Cmds -> Command]
        /\ \A d \in Cmds : d # c => cmd'[d] = cmd[d]
        /\ cmd'[c].at = cmd[c].at /\ cmd'[c].sha = cmd[c].sha
        /\ cmd'[c].todo \subseteq cmd[c].todo /\ cmd'[c].reject = cmd[c].reject
    BY <2>1 DEF Command
  <2>3. s \in rows /\ active' \in [Shas -> BOOLEAN]
    BY <2>1
  <2> QED BY <1>6, <2>1, <2>2, <2>3 DEF Flip
<1>7. CASE Flipped(c)
  <2>1. PICK at \in {"baseline", "idle"} : Goto(c, at)
    BY <1>7 DEF Flipped
  <2> QED BY <1>7, <2>1, GotoType DEF Flipped
<1>8. CASE SaveBaseline(c)
  <2>1. Goto(c, "idle") /\ cmd[c].sha \in rows
    BY <1>8 DEF SaveBaseline
  <2> QED BY <1>8, <2>1, GotoType DEF SaveBaseline
<1>9. CASE Die(c)
  <2>1. Goto(c, "idle")
    BY <1>9 DEF Die
  <2> QED BY <1>9, <2>1, GotoType DEF Die
<1> QED BY <1>1, <1>2, <1>3, <1>4, <1>5, <1>6, <1>7, <1>8, <1>9 DEF Run

LEMMA SafeNext == SafeInv /\ [Next]_vars => SafeInv'
<1> SUFFICES ASSUME SafeInv, [Next]_vars PROVE SafeInv'
  OBVIOUS
<1> USE DEF SafeInv, TypeOK, CommandInv, GrantedInv, OnlyApprovedIn, store, ghosts
<1>1. CASE Edit
  BY <1>1, PromotionAssumption DEF PromotionAssumption, Edit
<1>2. CASE Propose
  BY <1>2 DEF Propose
<1>3. ASSUME NEW s \in Shas, Approve(s) PROVE SafeInv'
  BY <1>3 DEF Approve
<1>4. ASSUME NEW c \in Cmds, Run(c) \/ Die(c) PROVE SafeInv'
  BY <1>4, SafeRun
<1>5. ASSUME NEW c \in Cmds, NEW s \in Shas, Apply(c, s) PROVE SafeInv'
  <2>1. Begin(c, "compile", s) /\ s \in granted
    BY <1>5 DEF Apply, IsApproved
  <2>2. raced' \in BOOLEAN
    BY <2>1 DEF Begin
  <2>3. /\ cmd' \in [Cmds -> Command] /\ begun' \in 0 .. MaxCmds
        /\ \A d \in Cmds : d # c => cmd'[d] = cmd[d]
        /\ cmd'[c].at = "compile" /\ cmd'[c].sha = s /\ cmd'[c].todo = {}
        /\ ~cmd'[c].reject
    BY <2>1, BeginType
  <2> QED BY <1>5, <2>1, <2>2, <2>3 DEF Apply
<1>6. ASSUME NEW c \in Cmds, NEW s \in Shas, Reject(c, s) PROVE SafeInv'
  <2>1. Begin(c, "find", s)
    BY <1>6 DEF Reject
  <2>2. raced' \in BOOLEAN
    BY <2>1 DEF Begin
  <2>3. /\ cmd' \in [Cmds -> Command] /\ begun' \in 0 .. MaxCmds
        /\ \A d \in Cmds : d # c => cmd'[d] = cmd[d]
        /\ cmd'[c].at = "find" /\ cmd'[c].sha = s /\ cmd'[c].todo = {}
        /\ cmd'[c].reject
    BY <2>1, BeginType
  <2> QED BY <1>6, <2>2, <2>3 DEF Reject
<1>7. CASE UNCHANGED vars
  BY <1>7 DEF vars
<1> QED BY <1>1, <1>2, <1>3, <1>4, <1>5, <1>6, <1>7 DEF Next

\* The state of the gate keeps its type, whatever commands overlap or die.
THEOREM TypeCorrect == Spec => []TypeOK
<1>1. SafeInv => TypeOK
  BY DEF SafeInv
<1> QED BY <1>1, SafeInit, SafeNext, PTL DEF Spec

\* No version is in the lineage that no human ever approved, whatever commands
\* overlap or die and whatever is edited after the approval.
THEOREM NothingUnapproved == Spec => []OnlyApprovedIn
<1>1. SafeInv => OnlyApprovedIn
  BY DEF SafeInv
<1> QED BY <1>1, SafeInit, SafeNext, PTL DEF Spec
----------------------------------------------------------------------------
(* One active version, when commands run in turn                            *)

Quiet == rows # {} => \E s \in Shas : Active = {s}

\* As long as no command has overlapped another or died there is one at most
\* under way; the lineage has its one active version until that command flips
\* rows, and what it has still to flip is exactly what is wrong.
TurnInv ==
    ~raced =>
        /\ \A c, d \in Cmds : cmd[c].at # "idle" /\ cmd[d].at # "idle" => c = d
        /\ AtRest => Quiet
        /\ \A c \in Cmds :
              /\ cmd[c].at \in {"compile", "find", "base"} => Quiet
              /\ cmd[c].at = "flip" => cmd[c].todo = Wrong(cmd[c].sha)
              /\ cmd[c].at = "baseline" => Active = {cmd[c].sha}

LEMMA TurnInit == Init => TurnInv
  BY DEF Init, TurnInv, Idle, AtRest, Quiet

\* A command that has flipped every wrong row leaves its own sha active.
LEMMA NothingWrong ==
  ASSUME TypeOK, NEW s \in rows, Wrong(s) = {}
  PROVE  Active = {s}
<1>1. \A t \in rows : active[t] = (t = s)
  BY DEF TypeOK, Wrong
<1>2. \A t \in Shas : active[t] => t \in rows
  BY DEF TypeOK
<1>3. s \in Shas
  BY DEF TypeOK
<1> QED BY <1>1, <1>2, <1>3 DEF Active

LEMMA TurnRun ==
  ASSUME SafeInv, TurnInv, NEW c \in Cmds, Run(c)
  PROVE  TurnInv'
<1> SUFFICES ASSUME ~raced' PROVE TurnInv'
  BY DEF TurnInv
<1>1. ~raced /\ cmd[c].at # "idle"
  BY DEF Run, Compile, Find, Base, Record, History, Flip, Flipped, SaveBaseline, ghosts
<1>2. /\ cmd \in [Cmds -> Command] /\ TypeOK
      /\ \A d \in Cmds : d # c => cmd[d].at = "idle"
  BY <1>1 DEF SafeInv, TypeOK, TurnInv
<1>3. CommandInv
  BY DEF SafeInv
<1>4. /\ cmd[c].at \in {"compile", "find", "base"} => Quiet
      /\ cmd[c].at = "flip" => cmd[c].todo = Wrong(cmd[c].sha)
      /\ cmd[c].at = "baseline" => Active = {cmd[c].sha}
  BY <1>1 DEF TurnInv
<1> DEFINE Rest(at) == /\ \A d \in Cmds : d # c => cmd'[d].at = "idle"
                       /\ cmd'[c].at = at
<1>5. ASSUME NEW at, Rest(at), at \in {"idle", "compile", "find", "base"} => Quiet',
             at = "flip" => cmd'[c].todo = Wrong(cmd[c].sha)',
             at = "baseline" => Active' = {cmd[c].sha} /\ cmd'[c].sha = cmd[c].sha
      PROVE  TurnInv'
  <2>1. AtRest' => Quiet'
    BY <1>5 DEF AtRest
  <2> QED BY <1>5, <2>1 DEF TurnInv
<1>6. CASE Compile(c)
  <2>1. PICK at \in {"find", "idle"} : Goto(c, at)
    BY <1>6 DEF Compile
  <2>2. Rest(at)
    BY <1>2, <2>1, GotoType
  <2>3. Quiet'
    BY <1>4, <1>6 DEF Compile, Quiet, Active, store
  <2> QED BY <2>2, <2>3, <1>5
<1>7. CASE Find(c)
  <2>1. PICK at \in {"history", "base", "idle"} : Goto(c, at)
    BY <1>7 DEF Find
  <2>2. Rest(at)
    BY <1>2, <2>1, GotoType
  <2>3. Quiet'
    BY <1>4, <1>7 DEF Find, Quiet, Active, store
  <2> QED BY <2>2, <2>3, <1>5
<1>8. CASE Base(c)
  <2>1. Rest("record")
    BY <1>2, <1>8 DEF Base, Command
  <2> QED BY <2>1, <1>5
<1>9. CASE Record(c)
  <2>1. Rest("history")
    BY <1>2, <1>9, GotoType DEF Record
  <2> QED BY <2>1, <1>5
<1>10. CASE History(c)
  <2>1. Rest("flip") /\ cmd'[c].sha = cmd[c].sha /\ cmd'[c].todo = Wrong(cmd[c].sha)
    BY <1>2, <1>10 DEF History, Command
  <2>2. cmd'[c].todo = Wrong(cmd[c].sha)'
    BY <1>10, <2>1 DEF History, store, Wrong
  <2> QED BY <2>1, <2>2, <1>5
<1>11. CASE Flip(c)
  <2>1. PICK s \in cmd[c].todo :
           /\ active' = [active EXCEPT ![s] = (s = cmd[c].sha)]
           /\ cmd' = [cmd EXCEPT ![c].todo = @ \ {s}]
    BY <1>11 DEF Flip
  <2>2. cmd[c].at = "flip" /\ cmd[c].todo = Wrong(cmd[c].sha) /\ rows' = rows
    BY <1>4, <1>11 DEF Flip
  <2>3. Rest("flip") /\ cmd'[c].sha = cmd[c].sha /\ cmd'[c].todo = Wrong(cmd[c].sha) \ {s}
    BY <1>2, <2>1, <2>2 DEF Command
  <2>4. s \in rows /\ rows \subseteq Shas /\ active \in [Shas -> BOOLEAN]
    BY <1>2, <2>2 DEF Wrong, TypeOK
  <2>5. cmd'[c].todo = Wrong(cmd[c].sha)'
    BY <2>1, <2>2, <2>3, <2>4 DEF Wrong
  <2> QED BY <2>3, <2>5, <1>5
<1>12. CASE Flipped(c)
  <2>1. PICK at \in {"baseline", "idle"} : Goto(c, at)
    BY <1>12 DEF Flipped
  <2>2. Rest(at) /\ cmd'[c].sha = cmd[c].sha
    BY <1>2, <2>1, GotoType
  <2>3. cmd[c].sha \in rows /\ Wrong(cmd[c].sha) = {}
    BY <1>3, <1>4, <1>12 DEF Flipped, CommandInv
  <2>4. Active = {cmd[c].sha} /\ cmd[c].sha \in Shas
    BY <1>2, <2>3, NothingWrong DEF TypeOK
  <2>5. Active' = {cmd[c].sha}
    BY <1>12, <2>4 DEF Flipped, store, Active
  <2>6. Quiet'
    BY <2>4, <2>5 DEF Quiet
  <2> QED BY <2>2, <2>5, <2>6, <1>5
<1>13. CASE SaveBaseline(c)
  <2>1. Rest("idle")
    BY <1>2, <1>13, GotoType DEF SaveBaseline
  <2>2. Active = {cmd[c].sha} /\ cmd[c].sha \in Shas
    BY <1>3, <1>4, <1>13 DEF SaveBaseline, CommandInv
  <2>3. Quiet'
    BY <1>13, <2>2 DEF SaveBaseline, Quiet, Active
  <2> QED BY <2>1, <2>3, <1>5
<1> QED BY <1>6, <1>7, <1>8, <1>9, <1>10, <1>11, <1>12, <1>13 DEF Run

LEMMA TurnNext == SafeInv /\ TurnInv /\ [Next]_vars => TurnInv'
<1> SUFFICES ASSUME SafeInv, TurnInv, [Next]_vars PROVE TurnInv'
  OBVIOUS
<1>1. ASSUME UNCHANGED <<rows, active, cmd, raced>> PROVE TurnInv'
  BY <1>1 DEF TurnInv, AtRest, Quiet, Active, Wrong
<1>2. CASE Edit \/ Propose \/ UNCHANGED vars
  BY <1>1, <1>2 DEF Edit, Propose, vars, store, ghosts
<1>3. ASSUME NEW s \in Shas, Approve(s) PROVE TurnInv'
  BY <1>1, <1>3 DEF Approve
<1>4. ASSUME NEW c \in Cmds, Run(c) PROVE TurnInv'
  BY <1>4, TurnRun
<1>5. ASSUME NEW c \in Cmds, Die(c) PROVE TurnInv'
  BY <1>5 DEF Die, TurnInv
<1>6. ASSUME NEW c \in Cmds, NEW s \in Shas, Apply(c, s) \/ Reject(c, s) PROVE TurnInv'
  <2> SUFFICES ASSUME ~raced' PROVE TurnInv'
    BY DEF TurnInv
  <2>1. PICK at \in {"compile", "find"} : Begin(c, at, s)
    BY <1>6 DEF Apply, Reject
  <2>2. ~raced /\ AtRest
    BY <2>1 DEF Begin, AtRest
  <2>3. cmd \in [Cmds -> Command] /\ begun \in 0 .. MaxCmds
    BY DEF SafeInv, TypeOK
  <2>4. cmd'[c].at = at /\ \A d \in Cmds : d # c => cmd'[d].at = "idle"
    BY <2>1, <2>2, <2>3, BeginType DEF AtRest
  <2>5. Quiet'
    BY <1>6, <2>2 DEF TurnInv, Quiet, Active, Apply, Reject, store
  <2> QED BY <2>4, <2>5 DEF TurnInv
<1> QED BY <1>2, <1>3, <1>4, <1>5, <1>6 DEF Next

\* Commands that run one after the other leave exactly one version active:
\* set_active of code/gate.py keeps what its comment promises then.
THEOREM OneActiveWhenInTurn == Spec => []OneActiveInTurn
<1>1. TurnInv => OneActiveInTurn
  BY DEF TurnInv, OneActiveInTurn, Quiet
<1> QED BY <1>1, SafeInit, SafeNext, TurnInit, TurnNext, PTL DEF Spec
----------------------------------------------------------------------------
(* Baselines                                                                *)

\* Where a call is between two accesses of the records.
Midway == {"band", "gate", "decide", "carry"}
Measuring == [at : {"measure", "running", "report"}, report : Nat, done : Nat, hits : [Metrics -> Nat]]

BaselinesTypes ==
    /\ bench = [b \in Benchers |-> bench[b]]
    /\ charged \in Nat /\ made \in Nat /\ reports \in Nat
    /\ overtaken \in BOOLEAN /\ fell \in BOOLEAN
    /\ \A b \in Benchers : bench[b].at \in {"measure", "running", "report"} => bench[b] \in Measuring
    /\ \A b \in Benchers : bench[b].at \in {"gate", "decide"} =>
          IsVector(bench[b].candidate) /\ IsVector(bench[b].fresh)

\* One record of scores at most.
ScoresAreOne ==
    /\ \A s \in scores : IsVector(s.of)
    /\ \A s, t \in scores : s = t

\* The budget knows every run until it is breached, and no run is made after that.
PaidInv ==
    /\ charged <= CalibrationLimit => charged = made * RunPrice
    /\ RunsArePaid

\* Calls that come one after the other: what one has read is what is there, and the band
\* that it still has to write is that of the scores.
Matches(of, noise) == \A s \in of : s.from # 0 => \E n \in noise : n.from = s.from
TurnsInv ==
    /\ \A b, c \in Benchers : bench[b].at \in Midway /\ bench[c].at \in Midway => b = c
    /\ \A b \in Benchers : bench[b].at \in {"gate", "decide"} => bench[b].scores = scores
    /\ \A b \in Benchers : bench[b].at = "decide" => bench[b].band = band
    /\ \A b \in Benchers : bench[b].at \in {"band", "carry"} => Matches(scores, bench[b].band)
    /\ (\A b \in Benchers : bench[b].at \notin {"band", "carry"}) => Matches(scores, band)
    /\ ~fell

BaselinesInv == BaselinesTypes /\ ScoresAreOne /\ PaidInv /\ (~overtaken => TurnsInv)
----------------------------------------------------------------------------

LEMMA BaselinesInvInit == BaselinesInit => BaselinesInv
<1> SUFFICES ASSUME BaselinesInit PROVE BaselinesInv
  OBVIOUS
<1>1. overtaken \in BOOLEAN /\ fell \in BOOLEAN
  BY Zenon DEF BaselinesInit
<1>2. \A b \in Benchers : bench[b].at = "off"
  BY DEF BaselinesInit, Off
<1>3. BaselinesTypes
  BY <1>1, <1>2 DEF BaselinesInit, BaselinesTypes
<1>4. PaidInv
  BY BaselinesAssumption DEF BaselinesInit, PaidInv, RunsArePaid
<1>5. TurnsInv /\ ScoresAreOne
  BY <1>2 DEF BaselinesInit, TurnsInv, Midway, Matches, ScoresAreOne
<1>6. QED BY <1>3, <1>4, <1>5 DEF BaselinesInv

\* Calibrating, and whatever else leaves the records and whoever is halfway alone.
LEMMA RecordsStay ==
  ASSUME BaselinesInv, NEW b \in Benchers, NEW to,
         bench' = [bench EXCEPT ![b] = to], bench[b].at \notin Midway,
         to.at \notin Midway, to.at \in {"measure", "running", "report"} => to \in Measuring,
         scores' = scores, band' = band, overtaken' = overtaken, fell' = fell,
         charged' \in Nat, made' \in Nat, reports' \in Nat, PaidInv'
  PROVE  BaselinesInv'
<1>1. /\ bench' = [c \in Benchers |-> bench'[c]]
      /\ \A c \in Benchers : bench'[c] = IF c = b THEN to ELSE bench[c]
  BY DEF BaselinesInv, BaselinesTypes
<1>2. BaselinesTypes' /\ ScoresAreOne'
  BY <1>1 DEF BaselinesInv, BaselinesTypes, ScoresAreOne, Midway
<1>3. ASSUME TurnsInv PROVE TurnsInv'
  BY <1>1, <1>3 DEF TurnsInv, Midway, Matches
<1>4. QED BY <1>2, <1>3 DEF BaselinesInv

LEMMA BeginCalibrationStep ==
  ASSUME BaselinesInv, NEW b \in Benchers, BeginCalibration(b) PROVE BaselinesInv'
<1> DEFINE to == [at |-> "measure", report |-> reports', done |-> 0, hits |-> [m \in Metrics |-> 0]]
<1>1. reports' \in Nat /\ bench' = [bench EXCEPT ![b] = to] /\ bench[b].at = "off"
  BY DEF BeginCalibration, BaselinesInv, BaselinesTypes, Off
<1>2. to \in Measuring /\ to.at = "measure"
  BY <1>1 DEF Measuring
<1>3. PaidInv' /\ charged' \in Nat /\ made' \in Nat
  BY DEF BeginCalibration, BaselinesInv, PaidInv, RunsArePaid, BaselinesTypes
<1> HIDE DEF to
<1>4. QED BY <1>1, <1>2, <1>3, RecordsStay DEF BeginCalibration, Midway

LEMMA StartMeasurementStep ==
  ASSUME BaselinesInv, NEW b \in Benchers, StartMeasurement(b) PROVE BaselinesInv'
<1> DEFINE breached == stopped \/ charged' > CalibrationLimit
           to == [bench[b] EXCEPT !.at = IF breached THEN "report" ELSE "running"]
<1>1. bench[b] \in Measuring /\ bench[b].at = "measure"
  BY DEF StartMeasurement, BaselinesInv, BaselinesTypes
<1>2. bench' = [bench EXCEPT ![b] = to]
  BY DEF StartMeasurement
<1>3. to \in Measuring /\ to.at \notin Midway
  BY <1>1 DEF Measuring, Midway
<1>4. charged' \in Nat /\ made' \in Nat
  BY BaselinesAssumption DEF StartMeasurement, BaselinesInv, BaselinesTypes
<1>5. PaidInv'
  <2>1. made * RunPrice \in Nat /\ (made + 1) * RunPrice = made * RunPrice + RunPrice
    BY BaselinesAssumption DEF BaselinesInv, BaselinesTypes
  <2>2. CASE breached
    BY <2>1, <2>2, BaselinesAssumption
       DEF StartMeasurement, BaselinesInv, PaidInv, RunsArePaid, BaselinesTypes
  <2>3. CASE ~breached
    <3>1. charged' = charged + RunPrice /\ charged' <= CalibrationLimit /\ made' = made + 1
      BY <1>4, <2>3, BaselinesAssumption DEF StartMeasurement
    <3>2. charged = made * RunPrice
      BY <3>1, BaselinesAssumption DEF BaselinesInv, PaidInv, BaselinesTypes
    <3>3. QED BY <2>1, <3>1, <3>2 DEF PaidInv, RunsArePaid
  <2>4. QED BY <2>2, <2>3
<1> HIDE DEF to
<1>6. QED BY <1>1, <1>2, <1>3, <1>4, <1>5, RecordsStay
          DEF StartMeasurement, Midway, BaselinesInv, BaselinesTypes

LEMMA MeasuredStep ==
  ASSUME BaselinesInv, NEW b \in Benchers, NEW hit \in SUBSET Metrics, Measured(b, hit)
  PROVE  BaselinesInv'
<1> DEFINE more == [m \in Metrics |-> bench[b].hits[m] + IF m \in hit THEN 1 ELSE 0]
           to == [at |-> IF bench[b].done + 1 = Measurements THEN "report" ELSE "measure",
                  report |-> bench[b].report, done |-> bench[b].done + 1, hits |-> more]
<1>1. bench[b] \in Measuring /\ bench[b].at = "running"
  BY DEF Measured, BaselinesInv, BaselinesTypes
<1>2. more \in [Metrics -> Nat]
  BY <1>1 DEF Measuring
<1>3. to \in Measuring /\ to.at \notin Midway
  BY <1>1, <1>2 DEF Measuring, Midway
<1>4. bench' = [bench EXCEPT ![b] = to]
  <2> DEFINE at == IF bench[b].done + 1 = Measurements THEN "report" ELSE "measure"
             one == [bench EXCEPT ![b].at = at]
             two == [one EXCEPT ![b].done = @ + 1]
             three == [two EXCEPT ![b].hits = [m \in Metrics |-> @[m] + IF m \in hit THEN 1 ELSE 0]]
  <2>1. bench' = three
    BY DEF Measured
  <2>2. \A c \in Benchers \ {b} : three[c] = bench[c]
    BY DEF BaselinesInv, BaselinesTypes
  <2>3. one[b] = [at |-> at, report |-> bench[b].report, done |-> bench[b].done, hits |-> bench[b].hits]
    BY <1>1 DEF Measuring, BaselinesInv, BaselinesTypes
  <2>4. two[b] = [at |-> at, report |-> bench[b].report, done |-> bench[b].done + 1,
                  hits |-> bench[b].hits]
    BY <2>3 DEF BaselinesInv, BaselinesTypes
  <2>5. three[b] = to
    BY <2>4 DEF BaselinesInv, BaselinesTypes
  <2>6. three = [c \in Benchers |-> three[c]] /\ bench = [c \in Benchers |-> bench[c]]
    BY DEF BaselinesInv, BaselinesTypes
  <2> HIDE DEF three, to
  <2>7. QED BY <2>1, <2>2, <2>5, <2>6
<1>5. PaidInv' /\ charged' \in Nat /\ made' \in Nat /\ reports' \in Nat
  BY DEF Measured, BaselinesInv, PaidInv, RunsArePaid, BaselinesTypes
<1> HIDE DEF to
<1>6. QED BY <1>1, <1>3, <1>4, <1>5, RecordsStay DEF Measured, Midway

LEMMA LeaveStep ==
  ASSUME BaselinesInv, NEW b \in Benchers, MeasurementRaises(b) \/ DiscardReport(b)
  PROVE  BaselinesInv'
<1>1. bench' = [bench EXCEPT ![b] = Off] /\ bench[b].at \in {"running", "report"}
  BY DEF MeasurementRaises, DiscardReport
<1>2. PaidInv' /\ charged' \in Nat /\ made' \in Nat /\ reports' \in Nat
  BY DEF MeasurementRaises, DiscardReport, BaselinesInv, PaidInv, RunsArePaid, BaselinesTypes
<1>3. QED BY <1>1, <1>2, RecordsStay DEF MeasurementRaises, DiscardReport, Midway, Off

\* An access of the records, by a call that makes one step.
LEMMA AccessAlone ==
  ASSUME BaselinesInv, NEW b \in Benchers, Access(b)
  PROVE  /\ overtaken' \in BOOLEAN
         /\ ~overtaken' => ~overtaken /\ \A c \in Benchers \ {b} : bench[c].at \notin Midway
<1>1. overtaken' \in BOOLEAN
  BY Zenon DEF Access
<1>2. ~overtaken' => ~overtaken /\ ~Between(b)
  BY Zenon DEF Access
<1>3. QED BY <1>1, <1>2 DEF Between, Midway

LEMMA PaidStays ==
  ASSUME BaselinesInv, charged' = charged, made' = made, reports' = reports
  PROVE  PaidInv' /\ charged' \in Nat /\ made' \in Nat /\ reports' \in Nat
BY DEF BaselinesInv, PaidInv, RunsArePaid, BaselinesTypes

LEMMA SaveReportStep ==
  ASSUME BaselinesInv, NEW b \in Benchers, SaveReport(b) PROVE BaselinesInv'
<1> DEFINE noise == {[of |-> ReportBand(bench[b]), from |-> bench[b].report]}
<1>1. bench[b] \in Measuring
  BY DEF SaveReport, BaselinesInv, BaselinesTypes
<1>2. /\ bench' = [bench EXCEPT ![b] = [at |-> "band", band |-> noise]]
      /\ scores' = {[of |-> ReportScores(bench[b]), from |-> bench[b].report]}
      /\ band' = band /\ fell' = fell
  BY DEF SaveReport
<1>3. /\ bench' = [c \in Benchers |-> bench'[c]]
      /\ bench'[b] = [at |-> "band", band |-> noise]
      /\ \A c \in Benchers \ {b} : bench'[c] = bench[c]
  BY <1>2 DEF BaselinesInv, BaselinesTypes
<1>4. IsVector(ReportScores(bench[b]))
  <2>1. \A m \in Metrics : MeanOf(bench[b].hits[m], bench[b].done) \in Int
    <3>1. \A n \in Nat : n # 0 => Unit \div n \in Int
      BY BaselinesAssumption
    <3>2. QED BY <1>1, <3>1 DEF MeanOf, Measuring
  <2>2. QED BY <2>1 DEF ReportScores, IsVector
<1>5. ScoresAreOne'
  BY <1>2, <1>4 DEF ScoresAreOne
<1>6. BaselinesTypes' /\ PaidInv'
  BY <1>2, <1>3, AccessAlone, PaidStays DEF SaveReport, BaselinesInv, BaselinesTypes
<1>7. ASSUME ~overtaken' PROVE TurnsInv'
  <2>1. TurnsInv /\ \A c \in Benchers \ {b} : bench'[c].at \notin Midway
    BY <1>3, <1>7, AccessAlone DEF SaveReport, BaselinesInv
  <2>2. Matches(scores', noise)
    BY <1>2 DEF Matches
  <2>3. bench'[b].at = "band" /\ bench'[b].band = noise
    BY <1>3
  <2> HIDE DEF noise
  <2>4. Matches(scores', bench'[b].band)
    BY <2>2, <2>3
  <2>5. QED BY <1>2, <2>1, <2>3, <2>4 DEF TurnsInv, Midway
<1>8. QED BY <1>5, <1>6, <1>7 DEF BaselinesInv

\* The band is written: by the call that saved a report, or that promoted.
LEMMA WriteBandStep ==
  ASSUME BaselinesInv, NEW b \in Benchers, SaveBand(b) \/ CarryBand(b) PROVE BaselinesInv'
<1>1. /\ bench[b].at \in {"band", "carry"} /\ Access(b)
      /\ band' = bench[b].band /\ bench' = [bench EXCEPT ![b] = Off]
      /\ scores' = scores /\ fell' = fell
  BY DEF SaveBand, CarryBand
<1>2. /\ bench' = [c \in Benchers |-> bench'[c]] /\ bench'[b].at = "off"
      /\ \A c \in Benchers \ {b} : bench'[c] = bench[c]
  BY <1>1 DEF BaselinesInv, BaselinesTypes, Off
<1>3. BaselinesTypes' /\ PaidInv' /\ ScoresAreOne'
  BY <1>1, <1>2, AccessAlone, PaidStays
     DEF SaveBand, CarryBand, BaselinesInv, BaselinesTypes, ScoresAreOne
<1>4. ASSUME ~overtaken' PROVE TurnsInv'
  <2>1. TurnsInv /\ \A c \in Benchers : bench'[c].at \notin Midway
    BY <1>1, <1>2, <1>4, AccessAlone DEF BaselinesInv, Midway
  <2>2. Matches(scores, bench[b].band)
    BY <1>1, <2>1 DEF TurnsInv
  <2>3. Matches(scores', band')
    BY <1>1, <2>2 DEF Matches
  <2>4. QED BY <1>1, <2>1, <2>3 DEF TurnsInv, Midway
<1>5. QED BY <1>3, <1>4 DEF BaselinesInv

LEMMA SetBaselineStep ==
  ASSUME BaselinesInv, NEW b \in Benchers, NEW vector \in Candidates, SetBaseline(b, vector)
  PROVE  BaselinesInv'
<1>1. scores' = {[of |-> vector, from |-> 0]} /\ IsVector(vector) /\ bench[b].at = "off"
  BY BaselinesAssumption DEF SetBaseline, Off
<1>2. bench' = bench /\ band' = band /\ fell' = fell
  BY DEF SetBaseline
<1>3. BaselinesTypes' /\ PaidInv' /\ ScoresAreOne'
  BY <1>1, <1>2, AccessAlone, PaidStays DEF SetBaseline, BaselinesInv, BaselinesTypes, ScoresAreOne
<1>4. ASSUME ~overtaken' PROVE TurnsInv'
  <2>1. TurnsInv /\ \A c \in Benchers : bench'[c].at \notin Midway
    BY <1>1, <1>2, <1>4, AccessAlone DEF SetBaseline, BaselinesInv, Midway
  <2>2. Matches(scores', band')
    BY <1>1 DEF Matches
  <2>3. QED BY <1>2, <2>1, <2>2 DEF TurnsInv, Midway
<1>5. QED BY <1>3, <1>4 DEF BaselinesInv

LEMMA BeginPromotionStep ==
  ASSUME BaselinesInv, NEW b \in Benchers, NEW candidate \in Candidates,
         NEW fresh \in FreshSamples, BeginPromotion(b, candidate, fresh)
  PROVE  BaselinesInv'
<1>1. /\ bench' = [c \in Benchers |-> bench'[c]] /\ bench[b].at = "off"
      /\ bench'[b] = [at |-> "gate", candidate |-> candidate, fresh |-> fresh, scores |-> scores]
      /\ \A c \in Benchers \ {b} : bench'[c] = bench[c]
  BY DEF BeginPromotion, BaselinesInv, BaselinesTypes, Off
<1>2. scores' = scores /\ band' = band /\ fell' = fell
  BY DEF BeginPromotion
<1>3. IsVector(candidate) /\ IsVector(fresh)
  BY BaselinesAssumption
<1>4. BaselinesTypes' /\ PaidInv' /\ ScoresAreOne'
  BY <1>1, <1>2, <1>3, AccessAlone, PaidStays
     DEF BeginPromotion, BaselinesInv, BaselinesTypes, ScoresAreOne
<1>5. ASSUME ~overtaken' PROVE TurnsInv'
  <2>1. TurnsInv /\ \A c \in Benchers \ {b} : bench'[c].at \notin Midway
    BY <1>1, <1>5, AccessAlone DEF BeginPromotion, BaselinesInv
  <2>2. Matches(scores', band')
    BY <1>1, <1>2, <2>1 DEF TurnsInv, Matches, Midway
  <2>3. QED BY <1>1, <1>2, <2>1, <2>2 DEF TurnsInv, Midway
<1>6. QED BY <1>4, <1>5 DEF BaselinesInv

LEMMA ReadBandStep ==
  ASSUME BaselinesInv, NEW b \in Benchers, ReadBand(b) PROVE BaselinesInv'
<1>1. /\ bench' = [c \in Benchers |-> bench'[c]] /\ bench[b].at = "gate"
      /\ bench'[b] = [at |-> "decide", candidate |-> bench[b].candidate, fresh |-> bench[b].fresh,
                      scores |-> bench[b].scores, band |-> band]
      /\ \A c \in Benchers \ {b} : bench'[c] = bench[c]
  BY DEF ReadBand, BaselinesInv, BaselinesTypes
<1>2. scores' = scores /\ band' = band /\ fell' = fell
  BY DEF ReadBand
<1>3. BaselinesTypes' /\ PaidInv' /\ ScoresAreOne'
  BY <1>1, <1>2, AccessAlone, PaidStays
     DEF ReadBand, BaselinesInv, BaselinesTypes, ScoresAreOne
<1>4. ASSUME ~overtaken' PROVE TurnsInv'
  <2>1. TurnsInv /\ \A c \in Benchers \ {b} : bench'[c].at \notin Midway
    BY <1>1, <1>4, AccessAlone DEF ReadBand, BaselinesInv
  <2>2. Matches(scores', band')
    BY <1>1, <1>2, <2>1 DEF TurnsInv, Matches, Midway
  <2>3. QED BY <1>1, <1>2, <2>1, <2>2 DEF TurnsInv, Midway
<1>5. QED BY <1>3, <1>4 DEF BaselinesInv

LEMMA RefusalStep ==
  ASSUME BaselinesInv, NEW b \in Benchers, DecideAgainst(b), bench' = [bench EXCEPT ![b] = Off],
         UNCHANGED <<scores, overtaken, fell>>
  PROVE  BaselinesInv'
<1>1. /\ bench' = [c \in Benchers |-> bench'[c]] /\ bench'[b].at = "off" /\ bench[b].at = "decide"
      /\ \A c \in Benchers \ {b} : bench'[c] = bench[c]
  BY DEF DecideAgainst, BaselinesInv, BaselinesTypes, Off
<1>2. scores' = scores /\ band' = band /\ fell' = fell /\ overtaken' = overtaken
  BY DEF DecideAgainst
<1>3. BaselinesTypes' /\ PaidInv' /\ ScoresAreOne'
  BY <1>1, <1>2, PaidStays DEF DecideAgainst, BaselinesInv, BaselinesTypes, ScoresAreOne
<1>4. ASSUME TurnsInv PROVE TurnsInv'
  <2>1. \A c \in Benchers : bench'[c].at \notin Midway
    BY <1>1, <1>4 DEF TurnsInv, Midway
  <2>2. Matches(scores', band')
    BY <1>1, <1>2, <1>4 DEF TurnsInv, Matches, Midway
  <2>3. QED BY <1>2, <1>4, <2>1, <2>2 DEF TurnsInv, Midway
<1>5. QED BY <1>2, <1>3, <1>4 DEF BaselinesInv

LEMMA PromotionStep ==
  ASSUME BaselinesInv, NEW b \in Benchers, DecideAgainst(b), NEW s \in bench[b].scores,
         Promoted(s.of, bench[b].candidate, bench[b].band), Access(b),
         scores' = {[of |-> Shrunk(bench[b].candidate, bench[b].fresh), from |-> s.from]},
         fell' = (fell \/ /\ DOMAIN bench[b].fresh = {}
                          /\ \E old \in scores, new \in scores' :
                                 new.of[Primary] <= ScoreOf(old.of, Primary)),
         bench' = [bench EXCEPT ![b] =
            IF bench[b].band = {} THEN Off ELSE [at |-> "carry", band |-> bench[b].band]]
  PROVE  BaselinesInv'
<1> DEFINE now == Shrunk(bench[b].candidate, bench[b].fresh)
<1>1. IsVector(bench[b].candidate) /\ IsVector(bench[b].fresh) /\ bench[b].at = "decide"
  BY DEF DecideAgainst, BaselinesInv, BaselinesTypes
<1>2. /\ bench' = [c \in Benchers |-> bench'[c]]
      /\ \A c \in Benchers \ {b} : bench'[c] = bench[c]
      /\ bench[b].band = {} => bench'[b].at = "off"
      /\ bench[b].band # {} => bench'[b].at = "carry" /\ bench'[b].band = bench[b].band
  BY DEF BaselinesInv, BaselinesTypes, Off
<1>3. IsVector(now)
  BY <1>1 DEF Shrunk, IsVector
<1>4. ScoresAreOne'
  BY <1>3 DEF ScoresAreOne
<1>5. fell' \in BOOLEAN
  BY Zenon
<1>6. BaselinesTypes' /\ PaidInv' /\ band' = band
  BY <1>2, <1>5, AccessAlone, PaidStays DEF DecideAgainst, BaselinesInv, BaselinesTypes
<1>7. ASSUME ~overtaken' PROVE TurnsInv'
  <2>1. TurnsInv /\ \A c \in Benchers \ {b} : bench'[c].at \notin Midway
    BY <1>2, <1>7, AccessAlone DEF BaselinesInv
  <2>2. s \in scores /\ bench[b].band = band /\ Matches(scores, band)
    BY <1>1, <1>2, <2>1 DEF TurnsInv, Midway
  <2>3. \A t \in scores' : t.from = s.from
    OBVIOUS
  <2>4. Matches(scores', band')
    BY <1>6, <2>2, <2>3 DEF Matches
  <2>5. ~fell'
    <3>1. ASSUME DOMAIN bench[b].fresh = {}, NEW old \in scores, NEW new \in scores'
          PROVE  ~(new.of[Primary] <= ScoreOf(old.of, Primary))
      <4>1. old = s /\ IsVector(s.of) /\ Primary \in DOMAIN s.of /\ Primary \in DOMAIN bench[b].candidate
        BY <2>2 DEF BaselinesInv, ScoresAreOne, Promoted
      <4>2. new.of = now /\ now[Primary] = bench[b].candidate[Primary]
        BY <3>1, <4>1 DEF Shrunk
      <4>3. bench[b].candidate[Primary] - s.of[Primary] > 0
        BY DEF Promoted, Clears
      <4>4. bench[b].candidate[Primary] \in Int /\ s.of[Primary] \in Int
        BY <1>1, <4>1 DEF IsVector
      <4> HIDE DEF now
      <4>5. QED BY <4>1, <4>2, <4>3, <4>4 DEF ScoreOf
    <3>2. ~fell
      BY <2>1 DEF TurnsInv
    <3>3. QED BY <3>1, <3>2, Zenon
  <2>6. CASE bench[b].band = {}
    BY <1>2, <2>1, <2>4, <2>5, <2>6 DEF TurnsInv, Midway
  <2>7. CASE bench[b].band # {}
    <3>1. Matches(scores', bench'[b].band)
      BY <1>2, <2>2, <2>4, <2>7, <1>6 DEF Matches
    <3>2. QED BY <1>2, <2>1, <2>5, <2>7, <3>1 DEF TurnsInv, Midway
  <2>8. QED BY <2>6, <2>7
<1>8. QED BY <1>4, <1>6, <1>7 DEF BaselinesInv

LEMMA DecideAgainstStep ==
  ASSUME BaselinesInv, NEW b \in Benchers, DecideAgainst(b) PROVE BaselinesInv'
<1>1. CASE bench' = [bench EXCEPT ![b] = Off] /\ UNCHANGED <<scores, overtaken, fell>>
  BY <1>1, RefusalStep
<1>2. CASE \E s \in bench[b].scores :
             /\ Promoted(s.of, bench[b].candidate, bench[b].band) /\ Access(b)
             /\ scores' = {[of |-> Shrunk(bench[b].candidate, bench[b].fresh), from |-> s.from]}
             /\ fell' = (fell \/ /\ DOMAIN bench[b].fresh = {}
                                 /\ \E old \in scores, new \in scores' :
                                        new.of[Primary] <= ScoreOf(old.of, Primary))
             /\ bench' = [bench EXCEPT ![b] =
                   IF bench[b].band = {} THEN Off ELSE [at |-> "carry", band |-> bench[b].band]]
  BY <1>2, PromotionStep
<1>3. QED BY <1>1, <1>2 DEF DecideAgainst

LEMMA BaselinesInvStep == BaselinesInv /\ [BaselinesNext]_baselinesVars => BaselinesInv'
<1> SUFFICES ASSUME BaselinesInv, [BaselinesNext]_baselinesVars PROVE BaselinesInv'
  OBVIOUS
<1>1. CASE StopAll \/ UNCHANGED baselinesVars
  <2>1. UNCHANGED <<scores, band, bench, charged, made, reports, overtaken, fell>>
    BY <1>1 DEF StopAll, baselinesVars
  <2>2. QED BY <2>1 DEF BaselinesInv, BaselinesTypes, ScoresAreOne, PaidInv, RunsArePaid, TurnsInv, Matches
<1>2. ASSUME NEW b \in Benchers, BencherDies(b) PROVE BaselinesInv'
  <2>1. overtaken' /\ bench' = [c \in Benchers |-> bench'[c]]
        /\ \A c \in Benchers : bench'[c] = IF c = b THEN Off ELSE bench[c]
    BY <1>2 DEF BencherDies, BaselinesInv, BaselinesTypes
  <2>2. overtaken' \in BOOLEAN
    BY <1>2, Zenon DEF BencherDies
  <2>3. QED BY <1>2, <2>1, <2>2, PaidStays DEF BencherDies, BaselinesInv, BaselinesTypes, ScoresAreOne, Off
<1>3. QED
  BY <1>1, <1>2, BeginCalibrationStep, StartMeasurementStep, MeasuredStep, LeaveStep,
     SaveReportStep, WriteBandStep, SetBaselineStep, BeginPromotionStep, ReadBandStep,
     DecideAgainstStep DEF BaselinesNext

(* Any number of calls, over any metrics and any scores: every run of a        *)
(* calibration is within the ceiling they share (calibrate), and as long as    *)
(* calls come one after the other the scores stand beside their own band and   *)
(* a promotion that was not measured again raises the primary score            *)
(* (promote_against_baseline).                                                 *)
THEOREM BaselinesStaySound == BaselinesSpec => []BaselinesAreSound
<1>1. BaselinesInv => BaselinesAreSound
  BY DEF BaselinesInv, BaselinesAreSound, PaidInv, TurnsInv, BandBelongs, Matches, BarRises
<1>2. QED BY <1>1, BaselinesInvInit, BaselinesInvStep, PTL DEF BaselinesSpec
----------------------------------------------------------------------------
(* Serving                                                                  *)

Arm == [n : Nat, sum : Nat, least : Nat, most : Nat]
Due(j) == UnderRate(routed[j].item, j - 1)

\* An item is explored only if it is due at its place; up to the last one explored every
\* item that is due is, and every one of all while the budget has room.
RoutedInv ==
    /\ routed \in Seq([item : LiveItems, explore : BOOLEAN])
    /\ served = Len(routed) /\ bill \in Nat
    /\ \A j \in DOMAIN routed : routed[j].explore => Due(j)
    /\ \A k \in Explored : \A j \in 1 .. k - 1 : Due(j) => routed[j].explore
    /\ HasRoom => \A j \in DOMAIN routed : Due(j) => routed[j].explore

\* The sum of what an arm was worth is between its least and its most, each time.
Bounded(arm) == arm.n * arm.least <= arm.sum /\ arm.sum <= arm.n * arm.most
RewardsInv == rewards \in [Arms -> Arm] /\ \A arm \in Arms : Bounded(rewards[arm])

ServingInv == RoutedInv /\ RewardsInv /\ GraduationIsEarned

LEMMA TimesIsMonotone ==
  ASSUME NEW a \in Nat, NEW b \in Nat, NEW c \in Nat, NEW d \in Nat, a <= b, c <= d
  PROVE  a * c \in Nat /\ b * d \in Nat /\ a * c <= b * d
<1>1. PICK x \in Nat : b = a + x
  <2>1. b - a \in Nat /\ b = a + (b - a)
    OBVIOUS
  <2>2. QED BY <2>1
<1>2. PICK y \in Nat : d = c + y
  <2>1. d - c \in Nat /\ d = c + (d - c)
    OBVIOUS
  <2>2. QED BY <2>1
<1>3. b * d = a * c + a * y + x * c + x * y
  BY <1>1, <1>2
<1>4. a * c \in Nat /\ a * y \in Nat /\ x * c \in Nat /\ x * y \in Nat
  OBVIOUS
<1>5. QED BY <1>3, <1>4

LEMMA MinAndMax ==
  ASSUME NEW a \in Nat, NEW b \in Nat
  PROVE  /\ Max({a, b}) = (IF a <= b THEN b ELSE a)
         /\ Min({a, b}) = (IF a <= b THEN a ELSE b)
BY DEF Max, Min

LEMMA ServingInvInit == ServingInit => ServingInv
<1> SUFFICES ASSUME ServingInit PROVE ServingInv
  OBVIOUS
<1>1. RoutedInv
  BY DEF ServingInit, RoutedInv, Explored
<1>2. RewardsInv
  BY DEF ServingInit, RewardsInv, Bounded, NoRewards, Arm
<1>3. QED BY <1>1, <1>2 DEF ServingInit, GraduationIsEarned, ServingInv

LEMMA RouteStep ==
  ASSUME ServingInv, NEW item \in LiveItems, Route(item) PROVE ServingInv'
<1>0. PICK n \in Nat : n = Len(routed)
  BY DEF ServingInv, RoutedInv
<1> DEFINE new == [item |-> item, explore |-> Explores(item, n)]
<1>1. Len(routed) = n /\ served = n /\ routed' = Append(routed, new) /\ bill' = bill
  BY <1>0 DEF Route, ServingInv, RoutedInv
<1>2. new \in [item : LiveItems, explore : BOOLEAN]
  BY DEF Explores, HasRoom, UnderRate
<1>3. /\ routed' \in Seq([item : LiveItems, explore : BOOLEAN]) /\ Len(routed') = n + 1
      /\ DOMAIN routed = 1 .. n /\ DOMAIN routed' = 1 .. n + 1
      /\ routed'[n + 1] = new /\ \A j \in 1 .. n : routed'[j] = routed[j]
  BY <1>1, <1>2 DEF ServingInv, RoutedInv
<1>4. \A j \in 1 .. n : Due(j)' <=> Due(j)
  BY <1>3 DEF Due, UnderRate
<1>5. routed'[n + 1].explore <=> HasRoom /\ Due(n + 1)'
  <2>1. routed'[n + 1].item = item /\ routed'[n + 1].explore = Explores(item, n) /\ n + 1 - 1 = n
    BY <1>1, <1>3
  <2>2. Due(n + 1)' <=> UnderRate(item, n)
    BY <2>1 DEF Due, UnderRate
  <2>3. QED BY <2>1, <2>2 DEF Explores
<1>6. HasRoom' <=> HasRoom
  BY <1>1 DEF HasRoom
<1>7. ASSUME NEW k \in Explored', NEW j \in 1 .. k - 1, Due(j)' PROVE routed'[j].explore
  <2>1. k \in 1 .. n + 1 /\ routed'[k].explore /\ j \in 1 .. n
    BY <1>1, <1>3 DEF Explored
  <2>2. CASE k = n + 1
    BY <1>3, <1>4, <1>5, <1>7, <2>1, <2>2 DEF ServingInv, RoutedInv
  <2>3. CASE k # n + 1
    <3>1. k \in Explored
      BY <1>1, <1>3, <2>1, <2>3 DEF Explored
    <3>2. QED BY <1>3, <1>4, <1>7, <2>1, <3>1 DEF ServingInv, RoutedInv
  <2>4. QED BY <2>2, <2>3
<1>8. \A j \in DOMAIN routed' : j = n + 1 \/ (j \in DOMAIN routed /\ j \in 1 .. n)
  BY <1>1, <1>3
<1>9. ASSUME NEW j \in DOMAIN routed'
      PROVE  (routed'[j].explore => Due(j)') /\ (HasRoom' => (Due(j)' => routed'[j].explore))
  <2>1. CASE j = n + 1
    BY <1>5, <1>6, <2>1
  <2>2. CASE j \in DOMAIN routed /\ j \in 1 .. n
    <3>1. (routed[j].explore => Due(j)) /\ (HasRoom => (Due(j) => routed[j].explore))
      BY <2>2 DEF ServingInv, RoutedInv
    <3>2. QED BY <1>3, <1>4, <1>6, <2>2, <3>1
  <2>3. QED BY <1>8, <2>1, <2>2
<1>10. RoutedInv'
  BY <1>1, <1>3, <1>7, <1>9 DEF RoutedInv, ServingInv, Route
<1>11. QED BY <1>10 DEF Route, ServingInv, RewardsInv, GraduationIsEarned

\* One more reward keeps the sum between the bounds.
LEMMA RewardedIsBounded ==
  ASSUME NEW seen \in Arm, Bounded(seen), NEW r \in Nat
  PROVE  Rewarded(seen, r) \in Arm /\ Bounded(Rewarded(seen, r))
<1> DEFINE next == Rewarded(seen, r)
<1>1. /\ next.n = seen.n + 1 /\ next.sum = seen.sum + r
      /\ next.most = (IF seen.most <= r THEN r ELSE seen.most)
      /\ next.least = (IF seen.n = 0 THEN r ELSE IF seen.least <= r THEN seen.least ELSE r)
      /\ next \in Arm
  <2>1. /\ seen.n \in Nat /\ seen.sum \in Nat /\ seen.most \in Nat /\ seen.least \in Nat
    BY DEF Arm
  <2>2. /\ Max({seen.most, r}) = (IF seen.most <= r THEN r ELSE seen.most)
        /\ Min({seen.least, r}) = (IF seen.least <= r THEN seen.least ELSE r)
    BY <2>1, MinAndMax
  <2>3. QED BY <2>1, <2>2 DEF Rewarded, Arm
<1> HIDE DEF next
<1>2. next.most \in Nat /\ next.least \in Nat /\ seen.n \in Nat /\ seen.most \in Nat /\ seen.sum \in Nat
      /\ seen.least \in Nat /\ next.n \in Nat
  BY <1>1 DEF Arm
<1>3. /\ next.n * next.most = seen.n * next.most + next.most
      /\ next.n * next.least = seen.n * next.least + next.least
  <2>1. \A a, b \in Nat : (a + 1) * b = a * b + b
    OBVIOUS
  <2>2. next.n = seen.n + 1
    BY <1>1
  <2>3. QED BY <1>2, <2>1, <2>2
<1>4. seen.sum <= seen.n * next.most
  <2>1. seen.most <= next.most
    BY <1>1, <1>2
  <2>2. seen.n * seen.most <= seen.n * next.most /\ seen.n * seen.most \in Nat /\ seen.n * next.most \in Nat
    BY <1>2, <2>1, TimesIsMonotone
  <2>3. QED BY <1>2, <2>2 DEF Bounded
<1>5. seen.n * next.least <= seen.sum
  <2>1. CASE seen.n = 0
    BY <1>2, <2>1
  <2>2. CASE seen.n # 0
    <3>1. next.least <= seen.least
      BY <1>1, <1>2, <2>2
    <3>2. /\ seen.n * next.least <= seen.n * seen.least
          /\ seen.n * seen.least \in Nat /\ seen.n * next.least \in Nat
      BY <1>2, <3>1, TimesIsMonotone
    <3>3. QED BY <1>2, <3>2 DEF Bounded
  <2>3. QED BY <2>1, <2>2
<1>6. next.least <= r /\ r <= next.most
  BY <1>1, <1>2
<1>7. seen.n * next.most \in Nat /\ seen.n * next.least \in Nat
  BY <1>2
<1>8. Bounded(next)
  BY <1>1, <1>2, <1>3, <1>4, <1>5, <1>6, <1>7 DEF Bounded
<1>9. QED BY <1>1, <1>8 DEF next

LEMMA RunOverStep ==
  ASSUME ServingInv, NEW k \in running, NEW r \in RewardsOf, RunOver(k, r) PROVE ServingInv'
<1>1. r \in Nat /\ ServePrice \in Nat /\ ServeLimit \in Nat
  BY ServingAssumption
<1>2. bill' \in Nat /\ bill <= bill' /\ served' = served /\ routed' = routed /\ verdict' = verdict
  BY <1>1 DEF RunOver, ServingInv, RoutedInv
<1>3. HasRoom' => HasRoom
  <2>1. bill \in Nat
    BY DEF ServingInv, RoutedInv
  <2>2. \A l, a, b \in Nat : a <= b /\ l - b > 0 => l - a > 0
    OBVIOUS
  <2>3. QED BY <1>1, <1>2, <2>1, <2>2 DEF HasRoom
<1>4. RoutedInv'
  BY <1>2, <1>3 DEF RoutedInv, ServingInv, Explored, Due, UnderRate
<1>5. RewardsInv'
  <2>1. CASE rewards' = rewards
    BY <2>1 DEF ServingInv, RewardsInv
  <2>2. CASE rewards' = [rewards EXCEPT ![ArmOf(k)] = Rewarded(@, r)]
    <3>1. ArmOf(k) \in Arms
      BY DEF ArmOf, Arms
    <3>2. Rewarded(rewards[ArmOf(k)], r) \in Arm /\ Bounded(Rewarded(rewards[ArmOf(k)], r))
      BY <1>1, <3>1, RewardedIsBounded DEF ServingInv, RewardsInv
    <3>3. QED BY <2>2, <3>1, <3>2 DEF ServingInv, RewardsInv
  <2>3. QED BY <2>1, <2>2 DEF RunOver
<1>6. QED BY <1>2, <1>4, <1>5 DEF ServingInv, GraduationIsEarned

\* A trial that beats the promoted best has a reward above the least of its rewards.
LEMMA BeatsIsEarned ==
  ASSUME NEW trial \in Arm, NEW best \in Arm, Bounded(trial), Bounded(best),
         Beats(trial, best), best.n > 0
  PROVE  trial.most > best.least
<1>1. /\ trial.n \in Nat /\ trial.sum \in Nat /\ trial.most \in Nat
      /\ best.n \in Nat /\ best.sum \in Nat /\ best.least \in Nat
  BY DEF Arm
<1>2. Max({best.n, 1}) = best.n
  BY <1>1, MinAndMax
<1>3. trial.sum * best.n > best.sum * trial.n
  <2>1. trial.sum * best.n - best.sum * trial.n > 0
    BY <1>2 DEF Beats
  <2>2. trial.sum * best.n \in Nat /\ best.sum * trial.n \in Nat
    BY <1>1
  <2>3. QED BY <2>1, <2>2
<1>4. SUFFICES ASSUME trial.most <= best.least PROVE FALSE
  BY <1>1
<1>5. trial.n * trial.most <= trial.n * best.least /\ trial.n * best.least \in Nat
      /\ trial.n * trial.most \in Nat
  BY <1>1, <1>4, TimesIsMonotone
<1>6. trial.sum <= trial.n * best.least
  BY <1>1, <1>5 DEF Bounded
<1>7. trial.sum * best.n <= (trial.n * best.least) * best.n
  BY <1>1, <1>5, <1>6, TimesIsMonotone
<1>8. (best.n * best.least) * trial.n <= best.sum * trial.n
  <2>1. best.n * best.least \in Nat
    BY <1>1
  <2>2. QED BY <1>1, <2>1, TimesIsMonotone DEF Bounded
<1>9. (trial.n * best.least) * best.n = (best.n * best.least) * trial.n
  BY <1>1
<1>10. trial.sum * best.n \in Nat /\ best.sum * trial.n \in Nat
       /\ (trial.n * best.least) * best.n \in Nat
  BY <1>1
<1>11. QED BY <1>3, <1>7, <1>8, <1>9, <1>10

LEMMA GraduateStep == ASSUME ServingInv, Graduate PROVE ServingInv'
<1> DEFINE trial == rewards["trial"]
           best == rewards["promoted"]
           decided == trial.n >= SampleSize
           v == [graduate |-> decided /\ Beats(trial, best), on |-> rewards]
<1>1. verdict' = {v}
  BY DEF Graduate
<1>2. trial \in Arm /\ best \in Arm /\ Bounded(trial) /\ Bounded(best)
  BY DEF ServingInv, RewardsInv, Arms
<1>3. best.n > 0 /\ Beats(trial, best) => trial.most > best.least
  BY <1>2, BeatsIsEarned
<1>4. GraduationIsEarned'
  <2>1. /\ v.on["trial"] = trial /\ v.on["promoted"] = best
        /\ v.graduate => trial.n >= SampleSize /\ Beats(trial, best)
    OBVIOUS
  <2> HIDE DEF v, trial, best
  <2>2. QED BY <1>1, <1>3, <2>1 DEF GraduationIsEarned
<1>5. RoutedInv' /\ RewardsInv'
  BY DEF Graduate, ServingInv, RoutedInv, RewardsInv, Explored, Due, HasRoom
<1>6. QED BY <1>4, <1>5 DEF ServingInv

LEMMA ServingInvStep == ServingInv /\ [ServingNext]_servingVars => ServingInv'
<1> SUFFICES ASSUME ServingInv, [ServingNext]_servingVars PROVE ServingInv'
  OBVIOUS
<1>1. CASE RestartServing
  <2>1. RoutedInv'
    BY <1>1 DEF RestartServing, RoutedInv, Explored
  <2>2. QED BY <1>1, <2>1 DEF RestartServing, ServingInv, RewardsInv, GraduationIsEarned
<1>2. CASE UNCHANGED servingVars
  BY <1>2 DEF servingVars, ServingInv, RoutedInv, RewardsInv, GraduationIsEarned, Explored, Due, HasRoom
<1>3. QED BY <1>1, <1>2, RouteStep, RunOverStep, GraduateStep DEF ServingNext

\* What the invariant says of routing is what the properties ask.
LEMMA RoutedIsSound == ServingInv => ExplorationShrinks /\ QueryIsExact
<1> SUFFICES ASSUME ServingInv PROVE ExplorationShrinks /\ QueryIsExact
  OBVIOUS
<1>1. DOMAIN routed = 1 .. Len(routed) /\ Len(routed) \in Nat
  BY DEF ServingInv, RoutedInv
<1>2. ASSUME NEW k \in Explored, NEW j \in 1 .. k - 1,
             HashOf[routed[j].item] <= HashOf[routed[k].item]
      PROVE  j \in Explored
  <2>1. k \in Nat /\ j \in Nat /\ j <= k /\ j \in DOMAIN routed /\ k \in DOMAIN routed /\ 1 <= j
    BY <1>1 DEF Explored
  <2>2. /\ HashOf[routed[j].item] \in Nat /\ HashOf[routed[k].item] \in Nat
        /\ Decay \in Nat /\ Epsilon \in Nat
    <3>1. routed[j].item \in LiveItems /\ routed[k].item \in LiveItems
      <4> DEFINE Decision == [item : LiveItems, explore : BOOLEAN]
      <4>1. routed \in Seq(Decision)
        BY DEF ServingInv, RoutedInv
      <4>2. \A d \in Decision : d.item \in LiveItems
        OBVIOUS
      <4> HIDE DEF Decision
      <4>3. routed[j] \in Decision /\ routed[k] \in Decision
        BY <2>1, <4>1
      <4>4. QED BY <4>2, <4>3
    <3>2. QED BY <3>1, ServingAssumption
  <2>3. Decay * (j - 1) <= Decay * (k - 1) /\ Decay * (j - 1) \in Nat /\ Decay * (k - 1) \in Nat
    BY <2>1, <2>2, TimesIsMonotone
  <2>4. /\ HashOf[routed[j].item] * (1 + Decay * (j - 1))
              <= HashOf[routed[k].item] * (1 + Decay * (k - 1))
        /\ HashOf[routed[j].item] * (1 + Decay * (j - 1)) \in Nat
        /\ HashOf[routed[k].item] * (1 + Decay * (k - 1)) \in Nat
    <3> DEFINE c == 1 + Decay * (j - 1)
               d == 1 + Decay * (k - 1)
    <3>1. c \in Nat /\ d \in Nat /\ c <= d
      BY <2>3
    <3> HIDE DEF c, d
    <3>2. /\ HashOf[routed[j].item] * c <= HashOf[routed[k].item] * d
          /\ HashOf[routed[j].item] * c \in Nat /\ HashOf[routed[k].item] * d \in Nat
      BY <1>2, <2>2, <3>1, TimesIsMonotone
    <3>3. QED BY <3>2 DEF c, d
  <2>5. HashOf[routed[k].item] * (1 + Decay * (k - 1)) < Epsilon
    BY DEF ServingInv, RoutedInv, Explored, Due, UnderRate
  <2>6. Due(j)
    BY <2>2, <2>4, <2>5 DEF Due, UnderRate
  <2>7. QED BY <2>1, <2>6 DEF ServingInv, RoutedInv, Explored
<1>3. QueryIsExact
  BY DEF QueryIsExact, ExploredItems, Explores, ServingInv, RoutedInv, Explored, Due
<1>4. QED BY <1>2, <1>3 DEF ExplorationShrinks

(* Any items, hashes, rates and rewards, any number of processes one after the *)
(* other: exploration only shrinks in the life of a loop, explored_items gives *)
(* what was explored while the budget has room, and a trial graduates on its   *)
(* sample at least and on a reward above the least of the promoted one's.      *)
THEOREM ServingStaysSound == ServingSpec => []ServingIsSound
<1>1. ServingInv => ServingIsSound
  BY RoutedIsSound DEF ServingInv, ServingIsSound
<1>2. QED BY <1>1, ServingInvInit, ServingInvStep, PTL DEF ServingSpec
----------------------------------------------------------------------------
(* Broker                                                                   *)

Issued == handles \cup building.made
IssuedFor(s) == {id \in Issued : given[id].scope = s}

\* What was looked up was consented to, or grants nothing.
GrantsAreConsented ==
    /\ manifest \subseteq consented
    /\ inHand = Unapproved \/ inHand \in consented

\* Every lease, and every handle of one, is one that was given.
LeasesWereGiven ==
    /\ asked \in Nat /\ DOMAIN given \subseteq 0 .. asked - 1
    /\ Issued \subseteq DOMAIN given
    /\ \A id \in DOMAIN given : given[id].scope \in Scopes
    /\ \A id \in DOMAIN leases : id \in DOMAIN given /\ leases[id].dest = given[id].scope.dest
    /\ \A call \in sent : call.id \in DOMAIN given /\ call.host = given[call.id].scope.dest

\* What is to be leased next is a request.
BuildingFromRequests ==
    /\ building.todo \in Seq(LeaseRequests)
    /\ building = [todo |-> building.todo, made |-> building.made]

\* The queue decides what was last ruled of the same node, reference and destination.
DecisionsAreRulings ==
    /\ approvals = [kind |-> approvals.kind, pending |-> approvals.pending,
                    decisions |-> approvals.decisions]
    /\ approvals.kind \in {"auto", "deny", "permit"}
    /\ \A id \in DOMAIN approvals.pending : approvals.pending[id] \in Scopes
    /\ \A s \in Scopes : Undecided(s) <=> s \notin DOMAIN rulings
    /\ \A s \in Scopes \cap DOMAIN rulings :
          rulings[s] \in BOOLEAN /\ approvals.decisions[Identity(s)] = rulings[s]

\* What has a handle, or may get one, has been written down.
HandlesAreAudited ==
    /\ audits \in [Scopes -> Nat]
    /\ \A s \in Scopes : Cardinality(IssuedFor(s)) <= audits[s]

BrokerInv ==
    /\ GrantsAreConsented /\ LeasesWereGiven /\ BuildingFromRequests
    /\ DecisionsAreRulings /\ HandlesAreAudited /\ LeaseIsCovered
----------------------------------------------------------------------------

LEMMA ScopesAreIdentified ==
  /\ \A r \in LeaseRequests : Scope(r) \in Scopes
  /\ \A s, t \in Scopes : Identity(s) = Identity(t) => s = t
BY DEF Scopes, Scope, Identity

\* What has been issued for a scope is finite, and one more lease is at most one more.
LEMMA IssuedIsFinite ==
  ASSUME LeasesWereGiven, NEW s
  PROVE  IsFiniteSet(IssuedFor(s)) /\ Cardinality(IssuedFor(s)) \in Nat
<1>1. IssuedFor(s) \subseteq 0 .. asked - 1 /\ asked - 1 \in Int
  BY DEF LeasesWereGiven, IssuedFor
<1>2. IsFiniteSet(0 .. asked - 1)
  BY <1>1, FS_Interval
<1>3. QED BY <1>1, <1>2, FS_Subset, FS_CardinalityType

LEMMA BrokerInvInit == BrokerInit => BrokerInv
<1> SUFFICES ASSUME BrokerInit PROVE BrokerInv
  OBVIOUS
<1>1. /\ manifest = {} /\ inHand = Unapproved /\ building = Resting /\ handles = {} /\ asked = 0
      /\ DOMAIN leases = {} /\ DOMAIN given = {} /\ DOMAIN rulings = {} /\ sent = {}
      /\ audits = [s \in Scopes |-> 0]
  BY DEF BrokerInit
<1>2. Issued = {} /\ building.todo = <<>>
  BY <1>1 DEF Issued, Resting
<1>3. PICK kind \in {"auto", "deny", "permit"} :
          approvals = [kind |-> kind, pending |-> <<>>, decisions |-> <<>>]
  BY DEF BrokerInit
<1>4. GrantsAreConsented /\ LeasesWereGiven /\ BuildingFromRequests /\ LeaseIsCovered
  BY <1>1, <1>2 DEF GrantsAreConsented, LeasesWereGiven, BuildingFromRequests, LeaseIsCovered, Resting
<1>5. DecisionsAreRulings
  BY <1>1, <1>3 DEF DecisionsAreRulings, Undecided
<1>6. HandlesAreAudited
  <2>1. \A s \in Scopes : IssuedFor(s) = {} /\ audits[s] = 0
    BY <1>1, <1>2 DEF IssuedFor
  <2>2. \A s \in Scopes : Cardinality(IssuedFor(s)) = 0
    BY <2>1, FS_EmptySet
  <2>3. QED BY <1>1, <2>1, <2>2 DEF HandlesAreAudited
<1>7. QED BY <1>4, <1>5, <1>6 DEF BrokerInv

\* Steps that issue nothing: what a handle is for, and what was written down, stand.
LEMMA NothingIssued ==
  ASSUME BrokerInv, Issued' \subseteq Issued, UNCHANGED <<given, audits>>
  PROVE  HandlesAreAudited'
<1> SUFFICES ASSUME NEW s \in Scopes PROVE Cardinality(IssuedFor(s)') <= audits[s]
  BY DEF BrokerInv, HandlesAreAudited
<1>1. IssuedFor(s)' \subseteq IssuedFor(s)
  BY DEF IssuedFor
<1>2. IsFiniteSet(IssuedFor(s)) /\ Cardinality(IssuedFor(s)) <= audits[s] /\ audits[s] \in Nat
      /\ Cardinality(IssuedFor(s)) \in Nat
  BY IssuedIsFinite DEF BrokerInv, HandlesAreAudited
<1>3. /\ IsFiniteSet(IssuedFor(s)') /\ Cardinality(IssuedFor(s)') <= Cardinality(IssuedFor(s))
      /\ Cardinality(IssuedFor(s)') \in Nat
  BY <1>1, <1>2, FS_Subset, FS_CardinalityType
<1>4. QED BY <1>2, <1>3

LEMMA ConsentStep ==
  ASSUME BrokerInv, NEW caps \in Declarations, Consent(caps)
  PROVE  BrokerInv'
<1>1. /\ manifest' = {caps} /\ consented' = consented \cup {caps}
      /\ UNCHANGED <<inHand, building, handles, leases, approvals, asked, audits, rulings, given, sent>>
  BY DEF Consent
<1>2. GrantsAreConsented' /\ BuildingFromRequests' /\ LeaseIsCovered'
  BY <1>1 DEF BrokerInv, GrantsAreConsented, BuildingFromRequests, LeaseIsCovered
<1>3. LeasesWereGiven' /\ DecisionsAreRulings' /\ HandlesAreAudited'
  BY <1>1 DEF BrokerInv, LeasesWereGiven, DecisionsAreRulings, HandlesAreAudited, Issued,
              IssuedFor, Undecided
<1>4. QED BY <1>2, <1>3 DEF BrokerInv

\* Steps on the manifest, and those that only take handles, leases or calls away from what
\* there is.
LEMMA OtherSteps ==
  ASSUME BrokerInv,
         RevokeGrant \/ LookUp \/ (\E connections \in Connections : BeginConfig(connections))
         \/ UNCHANGED brokerVars
  PROVE  BrokerInv'
<1>1. UNCHANGED <<handles, leases, approvals, asked, audits, consented, rulings, given, sent>>
  BY DEF RevokeGrant, LookUp, BeginConfig, brokerVars
<1>2. GrantsAreConsented'
  BY <1>1 DEF BrokerInv, GrantsAreConsented, RevokeGrant, LookUp, BeginConfig, brokerVars
<1>3. BuildingFromRequests' /\ Issued' \subseteq Issued
  <2>1. CASE \E connections \in Connections : BeginConfig(connections)
    BY <1>1, <2>1, BrokerAssumption DEF BeginConfig, BuildingFromRequests, Issued, Resting
  <2>2. CASE UNCHANGED building
    BY <1>1, <2>2 DEF BrokerInv, BuildingFromRequests, Issued
  <2>3. QED BY <2>1, <2>2 DEF RevokeGrant, LookUp, brokerVars
<1>4. LeasesWereGiven' /\ DecisionsAreRulings' /\ LeaseIsCovered'
  BY <1>1, <1>3 DEF BrokerInv, LeasesWereGiven, DecisionsAreRulings, LeaseIsCovered, Undecided
<1>5. QED BY <1>1, <1>2, <1>3, <1>4, NothingIssued DEF BrokerInv

LEMMA ResolveApprovalStep ==
  ASSUME BrokerInv, NEW id, NEW approve \in BOOLEAN, ResolveApproval(id, approve)
  PROVE  BrokerInv'
<1> DEFINE scope == approvals.pending[id]
<1>1. /\ id \in DOMAIN approvals.pending /\ scope \in Scopes
      /\ approvals' = [approvals EXCEPT !.pending = Except(approvals.pending, id),
                          !.decisions = Also(approvals.decisions, Identity(scope), approve)]
      /\ rulings' = Also(rulings, scope, approve)
      /\ UNCHANGED <<manifest, inHand, building, handles, leases, asked, audits, consented, given, sent>>
  BY DEF ResolveApproval, BrokerInv, DecisionsAreRulings
<1> HIDE DEF scope
<1>2. approvals' = [kind |-> approvals.kind, pending |-> Except(approvals.pending, id),
                    decisions |-> Also(approvals.decisions, Identity(scope), approve)]
  BY <1>1 DEF BrokerInv, DecisionsAreRulings
<1>3. \A i \in DOMAIN approvals'.pending : approvals'.pending[i] \in Scopes
  <2>1. /\ DOMAIN approvals'.pending = DOMAIN approvals.pending \ {id}
        /\ \A i \in DOMAIN approvals'.pending : approvals'.pending[i] = approvals.pending[i]
    BY <1>2 DEF Except
  <2>2. QED BY <2>1 DEF BrokerInv, DecisionsAreRulings
<1>4. ASSUME NEW s \in Scopes
      PROVE  /\ Undecided(s)' <=> s \notin DOMAIN rulings'
             /\ s \in DOMAIN rulings' =>
                    rulings'[s] \in BOOLEAN /\ approvals'.decisions[Identity(s)] = rulings'[s]
  <2>1. /\ DOMAIN approvals'.decisions = DOMAIN approvals.decisions \cup {Identity(scope)}
        /\ approvals'.decisions[Identity(scope)] = approve
        /\ \A i \in DOMAIN approvals.decisions \ {Identity(scope)} :
              approvals'.decisions[i] = approvals.decisions[i]
    BY <1>2 DEF Also
  <2>2. /\ DOMAIN rulings' = DOMAIN rulings \cup {scope} /\ rulings'[scope] = approve
        /\ \A i \in DOMAIN rulings \ {scope} : rulings'[i] = rulings[i]
    BY <1>1 DEF Also
  <2>3. Identity(s) = Identity(scope) <=> s = scope
    BY <1>1, ScopesAreIdentified
  <2>4. Undecided(s) <=> s \notin DOMAIN rulings
    BY DEF BrokerInv, DecisionsAreRulings
  <2>5. s \in DOMAIN rulings => rulings[s] \in BOOLEAN /\ approvals.decisions[Identity(s)] = rulings[s]
    BY DEF BrokerInv, DecisionsAreRulings
  <2>6. QED BY <2>1, <2>2, <2>3, <2>4, <2>5 DEF Undecided
<1>5. DecisionsAreRulings'
  <2>1. approvals'.kind = approvals.kind
    BY <1>2
  <2>2. QED BY <1>2, <1>3, <1>4, <2>1 DEF BrokerInv, DecisionsAreRulings
<1>6. LeaseIsCovered'
  BY <1>1, <1>2 DEF BrokerInv, LeaseIsCovered
<1>7. LeasesWereGiven' /\ GrantsAreConsented' /\ BuildingFromRequests' /\ Issued' = Issued
  BY <1>1 DEF BrokerInv, LeasesWereGiven, GrantsAreConsented, BuildingFromRequests, Issued
<1>8. QED BY <1>1, <1>5, <1>6, <1>7, NothingIssued DEF BrokerInv

\* A request that reaches the queue is put there, and changes no decision.
LEMMA EnqueuedKeeps ==
  ASSUME BrokerInv, NEW s \in Scopes, approvals' = Enqueued(s), rulings' = rulings
  PROVE  DecisionsAreRulings' /\ approvals'.kind = approvals.kind
<1>1. CASE Enqueued(s) = approvals
  BY <1>1 DEF BrokerInv, DecisionsAreRulings, Undecided
<1>2. CASE Enqueued(s) = [approvals EXCEPT !.pending = Also(approvals.pending, asked, s)]
  <2>1. approvals' = [kind |-> approvals.kind, pending |-> Also(approvals.pending, asked, s),
                      decisions |-> approvals.decisions]
    BY <1>2 DEF BrokerInv, DecisionsAreRulings
  <2>2. \A i \in DOMAIN approvals'.pending : approvals'.pending[i] \in Scopes
    <3>1. /\ DOMAIN approvals'.pending = DOMAIN approvals.pending \cup {asked}
          /\ \A i \in DOMAIN approvals'.pending :
                approvals'.pending[i] = IF i = asked THEN s ELSE approvals.pending[i]
      BY <2>1 DEF Also
    <3>2. QED BY <3>1 DEF BrokerInv, DecisionsAreRulings
  <2>3. /\ approvals'.kind = approvals.kind /\ approvals'.decisions = approvals.decisions
        /\ approvals' = [kind |-> approvals'.kind, pending |-> approvals'.pending,
                         decisions |-> approvals'.decisions]
    BY <2>1
  <2>4. QED BY <2>2, <2>3 DEF BrokerInv, DecisionsAreRulings, Undecided
<1>3. QED BY <1>1, <1>2 DEF Enqueued

LEMMA RefusedStep ==
  ASSUME BrokerInv, NEW request \in LeaseRequests,
         LeaseRefused(request) \/ Disapproved(request), Issued' \subseteq Issued,
         BuildingFromRequests', UNCHANGED <<manifest, inHand, consented, rulings, sent>>
  PROVE  BrokerInv'
<1>1. UNCHANGED <<leases, audits, given>> /\ asked' \in {asked, asked + 1}
      /\ (approvals' = approvals \/ approvals' = Enqueued(Scope(request)))
  BY DEF LeaseRefused, Disapproved
<1>2. DecisionsAreRulings' /\ approvals'.kind = approvals.kind
  BY <1>1, EnqueuedKeeps, ScopesAreIdentified DEF BrokerInv, DecisionsAreRulings, Undecided
<1>3. GrantsAreConsented' /\ LeaseIsCovered'
  BY <1>1, <1>2 DEF BrokerInv, GrantsAreConsented, LeaseIsCovered
<1>4. LeasesWereGiven'
  BY <1>1 DEF BrokerInv, LeasesWereGiven
<1>5. QED BY <1>1, <1>2, <1>3, <1>4, NothingIssued DEF BrokerInv

\* The ruling a lease is given under is the one the queue has.
LEMMA ApprovedIsRuled ==
  ASSUME BrokerInv, NEW s \in Scopes, Approved(s)
  PROVE  LET lastRuled == {rulings[t] : t \in {s} \cap DOMAIN rulings}
         IN /\ approvals.kind = "deny" => lastRuled = {TRUE}
            /\ approvals.kind = "permit" => lastRuled # {FALSE}
<1> DEFINE lastRuled == {rulings[t] : t \in {s} \cap DOMAIN rulings}
<1>1. CASE Undecided(s)
  <2>1. lastRuled = {}
    BY <1>1 DEF BrokerInv, DecisionsAreRulings
  <2>2. approvals.kind # "deny"
    BY <1>1 DEF Approved
  <2>3. QED BY <2>1, <2>2
<1>2. CASE ~Undecided(s) /\ approvals.kind # "auto"
  <2>1. s \in DOMAIN rulings /\ rulings[s] \in BOOLEAN /\ approvals.decisions[Identity(s)] = rulings[s]
    BY <1>2 DEF BrokerInv, DecisionsAreRulings
  <2>2. approvals.decisions[Identity(s)]
    BY <1>2 DEF Approved
  <2>3. rulings[s] = TRUE
    BY <2>1, <2>2, Zenon
  <2>4. lastRuled = {TRUE}
    BY <2>1, <2>3
  <2>5. QED BY <2>4
<1>3. QED BY <1>1, <1>2

LEMMA LeasedStep ==
  ASSUME BrokerInv, NEW request \in LeaseRequests, NEW written \in BOOLEAN,
         Leased(request, written),
         Issued' \subseteq Issued \cup {i \in {asked} : written},
         BuildingFromRequests', UNCHANGED <<manifest, inHand, consented, rulings, sent>>
  PROVE  BrokerInv'
<1> DEFINE scope == Scope(request)
           lastRuled == {rulings[t] : t \in {scope} \cap DOMAIN rulings}
           lease == [scope |-> scope, grant |-> inHand, revoked |-> manifest = {}, ruled |-> lastRuled]
           handed == [ref |-> request.ref, dest |-> request.dest]
<1>1. /\ Leasable(request) /\ Approved(scope) /\ asked' = asked + 1
      /\ approvals' = Enqueued(scope)
      /\ leases' = Also(leases, asked, handed) /\ given' = Also(given, asked, lease)
      /\ audits' = (IF written THEN [audits EXCEPT ![scope] = @ + 1] ELSE audits)
  BY DEF Leased
<1>2. scope \in Scopes /\ scope.ref = request.ref /\ scope.dest = request.dest
  BY ScopesAreIdentified DEF Scope
<1>3. /\ asked \in Nat /\ asked \notin DOMAIN given
      /\ Issued \subseteq DOMAIN given
  BY DEF BrokerInv, LeasesWereGiven
<1>4. /\ lease.scope = scope /\ lease.grant = inHand /\ lease.ruled = lastRuled
      /\ handed.dest = scope.dest
  BY <1>2
<1>5. /\ approvals.kind = "deny" => lastRuled = {TRUE}
      /\ approvals.kind = "permit" => lastRuled # {FALSE}
  BY <1>1, <1>2, ApprovedIsRuled
<1>6. /\ inHand \in consented /\ scope.ref \in inHand.secrets /\ scope.dest \in inHand.egress
  BY <1>1, <1>2 DEF Leasable, Unapproved, BrokerInv, GrantsAreConsented
<1> HIDE DEF lease, scope, handed, lastRuled
<1>7. /\ DOMAIN given' = DOMAIN given \cup {asked}
      /\ \A i \in DOMAIN given' : given'[i] = IF i = asked THEN lease ELSE given[i]
  BY <1>1 DEF Also
<1>8. /\ DOMAIN leases' = DOMAIN leases \cup {asked}
      /\ \A i \in DOMAIN leases' : leases'[i] = IF i = asked THEN handed ELSE leases[i]
  BY <1>1 DEF Also
<1>9. DecisionsAreRulings' /\ approvals'.kind = approvals.kind
  BY <1>1, <1>2, EnqueuedKeeps
<1>10. GrantsAreConsented'
  BY DEF BrokerInv, GrantsAreConsented
<1>11. LeaseIsCovered'
  BY <1>3, <1>4, <1>5, <1>6, <1>7, <1>9 DEF BrokerInv, LeaseIsCovered
<1>12. LeasesWereGiven'
  <2>1. DOMAIN given' \subseteq 0 .. asked' - 1 /\ asked' \in Nat
    BY <1>1, <1>3, <1>7 DEF BrokerInv, LeasesWereGiven
  <2>2. Issued' \subseteq DOMAIN given'
    BY <1>3, <1>7
  <2>3. \A i \in DOMAIN given' : given'[i].scope \in Scopes
    BY <1>2, <1>4, <1>7 DEF BrokerInv, LeasesWereGiven
  <2>4. \A i \in DOMAIN leases' : i \in DOMAIN given' /\ leases'[i].dest = given'[i].scope.dest
    BY <1>3, <1>4, <1>7, <1>8 DEF BrokerInv, LeasesWereGiven
  <2>5. \A call \in sent : call.id \in DOMAIN given' /\ call.host = given'[call.id].scope.dest
    BY <1>3, <1>7 DEF BrokerInv, LeasesWereGiven
  <2>6. QED BY <2>1, <2>2, <2>3, <2>4, <2>5 DEF LeasesWereGiven
<1>13. HandlesAreAudited'
  <2>1. audits \in [Scopes -> Nat] /\ audits' \in [Scopes -> Nat]
    BY <1>1, <1>2 DEF BrokerInv, HandlesAreAudited
  <2>2. ASSUME NEW s \in Scopes PROVE Cardinality(IssuedFor(s)') <= audits'[s]
    <3>1. /\ IsFiniteSet(IssuedFor(s)) /\ Cardinality(IssuedFor(s)) \in Nat
          /\ Cardinality(IssuedFor(s)) <= audits[s] /\ audits[s] \in Nat
      BY <2>1, IssuedIsFinite DEF BrokerInv, HandlesAreAudited
    <3>2. CASE written /\ s = scope
      <4>1. IssuedFor(s)' \subseteq IssuedFor(s) \cup {asked}
        BY <1>3, <1>7 DEF IssuedFor
      <4>2. /\ IsFiniteSet(IssuedFor(s) \cup {asked})
            /\ Cardinality(IssuedFor(s) \cup {asked}) <= Cardinality(IssuedFor(s)) + 1
            /\ Cardinality(IssuedFor(s) \cup {asked}) \in Nat
        <5>1. /\ IsFiniteSet(IssuedFor(s) \cup {asked})
              /\ Cardinality(IssuedFor(s) \cup {asked}) =
                    IF asked \in IssuedFor(s) THEN Cardinality(IssuedFor(s))
                    ELSE Cardinality(IssuedFor(s)) + 1
          BY <3>1, FS_AddElement
        <5>2. QED BY <3>1, <5>1
      <4>3. Cardinality(IssuedFor(s)') <= Cardinality(IssuedFor(s) \cup {asked})
            /\ Cardinality(IssuedFor(s)') \in Nat
        BY <4>1, <4>2, FS_Subset, FS_CardinalityType
      <4>4. audits'[s] = audits[s] + 1
        BY <1>1, <2>1, <3>2
      <4>5. QED BY <3>1, <4>2, <4>3, <4>4
    <3>3. CASE ~(written /\ s = scope)
      <4>1. IssuedFor(s)' \subseteq IssuedFor(s)
        BY <1>3, <1>4, <1>7, <3>3 DEF IssuedFor
      <4>2. Cardinality(IssuedFor(s)') <= Cardinality(IssuedFor(s))
            /\ Cardinality(IssuedFor(s)') \in Nat
        BY <3>1, <4>1, FS_Subset, FS_CardinalityType
      <4>3. audits'[s] = audits[s]
        BY <1>1, <1>2, <2>1, <3>3
      <4>4. QED BY <3>1, <4>2, <4>3
    <3>4. QED BY <3>2, <3>3
  <2>3. QED BY <2>1, <2>2 DEF HandlesAreAudited
<1>14. QED BY <1>9, <1>10, <1>11, <1>12, <1>13 DEF BrokerInv

LEMMA AskForLeaseStep ==
  ASSUME BrokerInv, NEW request \in LeaseRequests, AskForLease(request)
  PROVE  BrokerInv'
<1>1. UNCHANGED <<manifest, inHand, building, consented, rulings, sent>>
  BY DEF AskForLease
<1>2. BuildingFromRequests'
  BY <1>1 DEF BrokerInv, BuildingFromRequests
<1>3. CASE (LeaseRefused(request) \/ Disapproved(request)) /\ UNCHANGED handles
  BY <1>1, <1>2, <1>3, RefusedStep DEF Issued
<1>4. CASE Leased(request, FALSE) /\ UNCHANGED handles
  BY <1>1, <1>2, <1>4, LeasedStep DEF Issued
<1>5. CASE Leased(request, TRUE) /\ handles' = handles \cup {asked}
  BY <1>1, <1>2, <1>5, LeasedStep DEF Issued
<1>6. QED BY <1>3, <1>4, <1>5 DEF AskForLease

LEMMA ConfigNextStep ==
  ASSUME BrokerInv, ConfigNext
  PROVE  BrokerInv'
<1> DEFINE request == Head(building.todo)
           rest == Tail(building.todo)
           issuing == building.made \cup {asked}
<1>1. building.todo # <<>> /\ UNCHANGED <<manifest, inHand, consented, rulings, sent>>
  BY DEF ConfigNext
<1>2. request \in LeaseRequests /\ rest \in Seq(LeaseRequests)
  BY <1>1 DEF BrokerInv, BuildingFromRequests
<1>3. <<>> \in Seq(LeaseRequests) /\ Resting.todo = <<>> /\ Resting.made = {}
      /\ Resting = [todo |-> Resting.todo, made |-> Resting.made]
  BY DEF Resting
<1>4. CASE /\ LeaseRefused(request) \/ Disapproved(request) \/ Leased(request, FALSE)
           /\ building' = Resting /\ UNCHANGED handles
  <2>1. BuildingFromRequests' /\ Issued' \subseteq Issued
    BY <1>3, <1>4 DEF BuildingFromRequests, Issued
  <2>2. QED BY <1>1, <1>2, <1>4, <2>1, RefusedStep, LeasedStep
<1>5. CASE /\ Leased(request, TRUE)
           /\ building' = IF rest = <<>> THEN Resting ELSE [todo |-> rest, made |-> issuing]
           /\ handles' = IF rest = <<>> THEN handles \cup issuing ELSE handles
  <2>1. BuildingFromRequests' /\ Issued' \subseteq Issued \cup {asked}
    <3>1. CASE rest = <<>>
      BY <1>3, <1>5, <3>1 DEF BuildingFromRequests, Issued
    <3>2. CASE rest # <<>>
      BY <1>2, <1>5, <3>2 DEF BuildingFromRequests, Issued
    <3>3. QED BY <3>1, <3>2
  <2>2. QED BY <1>1, <1>2, <1>5, <2>1, LeasedStep
<1>6. QED BY <1>4, <1>5 DEF ConfigNext

LEMMA SendStep ==
  ASSUME BrokerInv, NEW id, NEW host, Send(id, host)
  PROVE  BrokerInv'
<1>1. /\ id \in DOMAIN leases /\ host = leases[id].dest /\ sent' = {[id |-> id, host |-> host]}
      /\ UNCHANGED <<manifest, inHand, building, handles, leases, approvals, asked, audits,
                     consented, rulings, given>>
  BY DEF Send, Destined
<1>2. LeasesWereGiven' /\ Issued' = Issued
  BY <1>1 DEF BrokerInv, LeasesWereGiven, Issued
<1>3. GrantsAreConsented' /\ BuildingFromRequests' /\ DecisionsAreRulings' /\ LeaseIsCovered'
  BY <1>1 DEF BrokerInv, GrantsAreConsented, BuildingFromRequests, DecisionsAreRulings,
              LeaseIsCovered, Undecided
<1>4. QED BY <1>1, <1>2, <1>3, NothingIssued DEF BrokerInv

LEMMA RevokeLeaseStep ==
  ASSUME BrokerInv, NEW id, RevokeLease(id)
  PROVE  BrokerInv'
<1>1. /\ leases' = Except(leases, id)
      /\ UNCHANGED <<manifest, inHand, building, handles, approvals, asked, audits, consented,
                     rulings, given, sent>>
  BY DEF RevokeLease
<1>2. /\ DOMAIN leases' = DOMAIN leases \ {id}
      /\ \A i \in DOMAIN leases' : leases'[i] = leases[i]
  BY <1>1 DEF Except
<1>3. LeasesWereGiven' /\ Issued' = Issued
  BY <1>1, <1>2 DEF BrokerInv, LeasesWereGiven, Issued
<1>4. GrantsAreConsented' /\ BuildingFromRequests' /\ DecisionsAreRulings' /\ LeaseIsCovered'
  BY <1>1 DEF BrokerInv, GrantsAreConsented, BuildingFromRequests, DecisionsAreRulings,
              LeaseIsCovered, Undecided
<1>5. QED BY <1>1, <1>3, <1>4, NothingIssued DEF BrokerInv

LEMMA BrokerInvStep == BrokerInv /\ [BrokerNext]_brokerVars => BrokerInv'
BY ConsentStep, OtherSteps, AskForLeaseStep, ConfigNextStep, ResolveApprovalStep, SendStep,
   RevokeLeaseStep DEF BrokerNext

LEMMA BrokerInvSuffices == BrokerInv => LeasesAreKept
BY DEF BrokerInv, LeasesWereGiven, HandlesAreAudited, IssuedFor, Issued, CallsAreAudited,
       LeasesAreKept

\* Whatever is declared, asked for and decided, in whichever order: a lease is covered by a grant
\* somebody consented to and by the last ruling about it, no call goes elsewhere, and no handle
\* is unaccounted for.
THEOREM LeasesStayKept == BrokerSpec => []LeasesAreKept
<1>1. QED BY BrokerInvInit, BrokerInvStep, BrokerInvSuffices, PTL DEF BrokerSpec
=============================================================================
