------------------------------ MODULE AgentDiff ------------------------------
(***************************************************************************)
(* crawfish.agentdiff: two authors edit their own copy of a Definition       *)
(* (derive.py, or the package on disk), the copies are compared over their   *)
(* flattened payload and merged over the common ancestor.  A Definition is   *)
(* its agents and its inputs; a path is a tuple.                             *)
(***************************************************************************)
EXTENDS Integers, Sequences, FiniteSets, SequencesExt

CONSTANTS Roles, Slots, ModelNames, ToolNames,
          Ancestors,  \* the Definitions the authors may start from
          DiffEdits   \* bound: edits by each author

VARIABLES common, mine, theirs,  \* base, a, b
          edits,    \* edits made: by the first and by the second author
          merged    \* what merge returned or raised

diffVars == <<common, mine, theirs, edits, merged>>

AgentSpecs == [role : Roles, model : ModelNames, tools : {<<>>} \cup {<<t>> : t \in ToolNames}]
Inputs == [name : Slots, flow : {"static", "fluid"}]
Payloads == [agents : Seq([role : Roles, model : ModelNames, tools : Seq(ToolNames)]), inputs : Seq(Inputs)]
Unmerged == [kind |-> "none"]
Missing == "missing"

\* what stands for no leaf is an object of its own
ASSUME AgentDiffAssumption ==
    Ancestors \subseteq Payloads /\ Missing \notin Roles \cup ModelNames \cup ToolNames \cup Slots
----------------------------------------------------------------------------
(* Flattening: keyed lists by identity, other lists by position              *)

AgentPaths(agent) ==
    {<<"agents", agent.role, field>> : field \in {"role", "model"}}
    \cup {<<"agents", agent.role, "tools", k>> : k \in DOMAIN agent.tools}
AgentAt(agent, path) ==
    IF path[3] = "tools" THEN agent.tools[path[4]]
    ELSE IF path[3] = "role" THEN agent.role ELSE agent.model

InputPaths(input) == {<<"inputs", input.name, field>> : field \in {"name", "flow"}}
InputAt(input, path) == IF path[3] = "name" THEN input.name ELSE input.flow

AgentsAt(def, path) == {k \in DOMAIN def.agents : path \in AgentPaths(def.agents[k])}
InputsAt(def, path) == {k \in DOMAIN def.inputs : path \in InputPaths(def.inputs[k])}
PathsOf(def) ==
    UNION ({AgentPaths(agent) : agent \in Range(def.agents)} \cup {InputPaths(input) : input \in Range(def.inputs)})

\* later leaves replace earlier ones of their path
Flat(def) ==
    [p \in PathsOf(def) |->
        IF AgentsAt(def, p) # {} THEN AgentAt(def.agents[Max(AgentsAt(def, p))], p)
        ELSE InputAt(def.inputs[Max(InputsAt(def, p))], p)]

At(flat, path) == IF path \in DOMAIN flat THEN flat[path] ELSE Missing

\* diff: the paths that moved, with what they moved to
Diff(before, after) ==
    LET fa == Flat(before)  fb == Flat(after)
    IN  {<<p, At(fb, p)>> : p \in {q \in DOMAIN fa \cup DOMAIN fb : At(fa, q) # At(fb, q)}}
----------------------------------------------------------------------------
(* Merging                                                                  *)

Moved(base, side, path) == At(side, path) # At(base, path)

\* both sides moved it, to different values
Contested(base, a, b, path) ==
    Moved(base, a, path) /\ Moved(base, b, path) /\ At(a, path) # At(b, path)
Resolved(base, a, b, path) == IF Moved(base, a, path) THEN At(a, path) ELSE At(b, path)

\* The leaves that stay, over all three payloads
Leaves(base, a, b) ==
    LET paths == DOMAIN base \cup DOMAIN a \cup DOMAIN b
    IN  [p \in {q \in paths : ~Contested(base, a, b, q) /\ Resolved(base, a, b, q) # Missing} |->
            Resolved(base, a, b, p)]

NeverWidened(base, leaves) == {}   \* mutated: only two-sided moves of a flow conflict

\* an input that would become fluid, whoever moved it
Widened(base, leaves) ==
    {p \in DOMAIN leaves : p[3] = "flow" /\ leaves[p] = "fluid" /\ At(base, p) # "fluid"}

Idents(leaves, container) == {p[2] : p \in {q \in DOMAIN leaves : q[1] = container}}

\* what s has at these places, in its order
Kept(s, places) ==
    [n \in 1..Cardinality(places) |->
        s[CHOOSE i \in places : Cardinality({j \in places : j < i}) = n - 1]]

\* _member_order: the first longest side, then what the others add
MemberOrder(sides) ==
    LET spine == CHOOSE j \in 1..3 : /\ \A i \in 1..3 : Len(sides[i]) <= Len(sides[j])
                                     /\ \A i \in 1..(j - 1) : Len(sides[i]) < Len(sides[j])
        all == sides[1] \o sides[2] \o sides[3]
    IN  sides[spine] \o Kept(all, {i \in DOMAIN all : /\ all[i] \notin Range(sides[spine])
                                                    /\ \A j \in 1..(i - 1) : all[j] # all[i]})

RolesOf(def) == [k \in DOMAIN def.agents |-> def.agents[k].role]
NamesOf(def) == [k \in DOMAIN def.inputs |-> def.inputs[k].name]
Present(order, idents) == Kept(order, {i \in DOMAIN order : order[i] \in idents})

\* Positions left of a plain list
Positions(leaves, role) == {p[4] : p \in {q \in DOMAIN leaves : q[3] = "tools" /\ q[2] = role}}

\* model_validate: every member has its key, a list has no holes
Valid(leaves) ==
    /\ \A role \in Idents(leaves, "agents") :
          /\ <<"agents", role, "role">> \in DOMAIN leaves
          /\ Positions(leaves, role) = 1..Cardinality(Positions(leaves, role))
    /\ \A name \in Idents(leaves, "inputs") : <<"inputs", name, "name">> \in DOMAIN leaves

\* _rebuild
Rebuilt(leaves) ==
    [agents |->
        LET order == Present(MemberOrder(<<RolesOf(common), RolesOf(mine), RolesOf(theirs)>>),
                             Idents(leaves, "agents"))
        IN  [k \in DOMAIN order |->
                [role |-> order[k], model |-> leaves[<<"agents", order[k], "model">>],
                 tools |-> [j \in Positions(leaves, order[k]) |->
                                leaves[<<"agents", order[k], "tools", j>>]]]],
     inputs |->
        LET order == Present(MemberOrder(<<NamesOf(common), NamesOf(mine), NamesOf(theirs)>>),
                             Idents(leaves, "inputs"))
        IN  [k \in DOMAIN order |->
                [name |-> order[k], flow |-> leaves[<<"inputs", order[k], "flow">>]]]]

MergeResult ==
    LET base == Flat(common)  a == Flat(mine)  b == Flat(theirs)
        leaves == Leaves(base, a, b)
        paths == DOMAIN base \cup DOMAIN a \cup DOMAIN b
        contested == {p \in paths : Contested(base, a, b, p)} \cup Widened(base, leaves)
    IN  IF contested # {} THEN [kind |-> "conflict", paths |-> contested]
        ELSE IF ~Valid(leaves) THEN [kind |-> "raised"]
        ELSE [kind |-> "clean", def |-> Rebuilt(leaves)]
----------------------------------------------------------------------------
(* Editing                                                                  *)

Drop(s, k) == SubSeq(s, 1, k - 1) \o SubSeq(s, k + 1, Len(s))

\* with_agent: replace the agents of the role, or append
WithAgent(def, agent, replace) ==
    IF replace /\ \E k \in DOMAIN def.agents : def.agents[k].role = agent.role
    THEN [def EXCEPT !.agents =
            [k \in DOMAIN @ |-> IF @[k].role = agent.role THEN agent ELSE @[k]]]
    ELSE [def EXCEPT !.agents = Append(@, agent)]

\* with_agents (any list: here, one left out or the order turned), with_inputs, and
\* an edit of the package on disk
Edited(def) ==
    {WithAgent(def, agent, replace) : agent \in AgentSpecs, replace \in BOOLEAN}
    \cup {[def EXCEPT !.agents = Drop(@, k)] : k \in DOMAIN def.agents}
    \cup {[def EXCEPT !.agents = Reverse(@)]}
    \cup {[def EXCEPT !.agents[k].tools = Append(@, t)] : k \in DOMAIN def.agents, t \in ToolNames}
    \cup {[def EXCEPT !.inputs = Append(@, i)] : i \in Inputs}
    \cup {[def EXCEPT !.inputs[k].flow = f] : k \in DOMAIN def.inputs, f \in {"static", "fluid"}}
    \cup {[def EXCEPT !.inputs = Drop(@, k)] : k \in DOMAIN def.inputs}

DiffInit ==
    /\ common \in Ancestors /\ mine = common /\ theirs = common
    /\ edits = <<0, 0>> /\ merged = Unmerged

EditMine ==
    /\ merged = Unmerged /\ edits[1] < DiffEdits /\ edits[2] = 0
    /\ mine' \in Edited(mine) \ {mine}
    /\ edits' = [edits EXCEPT ![1] = @ + 1]
    /\ UNCHANGED <<common, theirs, merged>>

EditTheirs ==
    /\ merged = Unmerged /\ edits[2] < DiffEdits
    /\ theirs' \in Edited(theirs) \ {theirs}
    /\ edits' = [edits EXCEPT ![2] = @ + 1]
    /\ UNCHANGED <<common, mine, merged>>

Merge ==
    /\ merged = Unmerged /\ edits # <<0, 0>>
    /\ merged' = MergeResult
    /\ UNCHANGED <<common, mine, theirs, edits>>

DiffNext == EditMine \/ EditTheirs \/ Merge
DiffSpec == DiffInit /\ [][DiffNext]_diffVars
----------------------------------------------------------------------------
(* Properties                                                               *)

\* A clean merge is both authors' changes and nothing else, as diff itself reports them
\* on the rebuilt Definition: no member is lost or made up on the way through the paths.
MergeIsBothChanges ==
    merged.kind = "clean" =>
        Diff(common, merged.def) = Diff(common, mine) \cup Diff(common, theirs)

\* No merge makes an input fluid that the ancestor did not have fluid, whichever of the
\* authors asked for it.
MergeNeverWidens ==
    merged.kind = "clean" =>
        \A k \in DOMAIN merged.def.inputs :
            merged.def.inputs[k].flow = "fluid" =>
                \E j \in DOMAIN common.inputs : common.inputs[j] = merged.def.inputs[k]

\* A merge that reports no conflict is the two edits put together and nothing wider.
MergeIsFaithful == MergeIsBothChanges /\ MergeNeverWidens

(* Claims of the documentation that do not hold (README, 5).                *)

\* "Diffing what the hash sees means the diff is non-empty iff the sha moved"
DiffSeesTheSha == Diff(common, mine) = {} => mine = common

\* A failed merge is "returned (not raised)"
MergeReturns == merged.kind # "raised"

\* "widen an input from static to fluid (or vice-versa) without both sides agreeing is
\* reported as a conflict" (agentdiff.py:28): one author alone may narrow it.
FlowNeedsBoth ==
    merged.kind = "clean" =>
        \A p \in {q \in PathsOf(common) : q[3] = "flow"} \cap PathsOf(merged.def) :
            Flat(merged.def)[p] # Flat(common)[p] =>
                At(Flat(mine), p) = At(Flat(theirs), p)
=============================================================================
