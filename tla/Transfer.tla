------------------------------- MODULE Transfer -------------------------------
(***************************************************************************)
(* state_dict and load_state (learning.py): the tunable knobs of one        *)
(* Definition are extracted as weights and loaded onto another, of the same *)
(* architecture or, when not strict, onto what the two share.  A knob of a  *)
(* role is a value of its group; the groups are those that "only" names.    *)
(***************************************************************************)
EXTENDS Integers, Sequences, FiniteSets, Functions

CONSTANTS Blueprints,    \* Definitions to begin with: [agents, io, deps, coordination, fewshots]
          RoleGroups     \* groups of knobs a role has

\* a Definition as it is: a list of agents, each a role and its knobs, and the rest
IsDefinition(definition) ==
    /\ definition = [agents |-> definition.agents, io |-> definition.io, deps |-> definition.deps,
                     coordination |-> definition.coordination, fewshots |-> definition.fewshots]
    /\ definition.agents \in Seq(Range(definition.agents))
    /\ \A agent \in Range(definition.agents) :
          agent = [role |-> agent.role, knobs |-> [g \in RoleGroups |-> agent.knobs[g]]]

ASSUME TransferAssumption == \A definition \in Blueprints : IsDefinition(definition)

VARIABLES sibling,  \* the Definition that is loaded onto, as it is now
          weights   \* the StateDict at hand, if any

transferVars == <<sibling, weights>>

KnobGroups == RoleGroups \cup {"fewshots", "coordination"}

RolesIn(definition) == {agent.role : agent \in Range(definition.agents)}

\* _structure_sha: the roles with repetition, the typed parameters, ids of dependencies
Structure(definition) ==
    [roles |-> [role \in RolesIn(definition) |->
                  Cardinality({k \in DOMAIN definition.agents : definition.agents[k].role = role})],
     io |-> definition.io, deps |-> {d.id : d \in definition.deps},
     coordination |-> definition.coordination]

\* the knobs of a role are those of the last agent of that role
KnobsOf(definition, role) ==
    LET Has(k) == definition.agents[k].role = role
        last == CHOOSE k \in DOMAIN definition.agents :
                    Has(k) /\ \A j \in DOMAIN definition.agents : Has(j) => j <= k
    IN  definition.agents[last].knobs

StateDict(definition) ==
    [roles |-> [role \in RolesIn(definition) |-> KnobsOf(definition, role)],
     coordination |-> definition.coordination, fewshots |-> definition.fewshots,
     summons |-> definition.deps, structure |-> Structure(definition)]

TransferInit == sibling \in Blueprints /\ weights = {}

\* of another Definition, or of the sibling itself
Extract(definition) == weights' = {StateDict(definition)} /\ UNCHANGED sibling
----------------------------------------------------------------------------
(* load_state                                                               *)

Incompatible(definition, state) == state.structure # Structure(definition)

LoadedAgent(agent, state, only) ==
    IF agent.role \in DOMAIN state.roles
    THEN [agent EXCEPT !.knobs = [g \in RoleGroups |->
             IF g \in only THEN state.roles[agent.role][g] ELSE agent.knobs[g]]]
    ELSE agent

FewshotsAppended(definition, state, only) ==   \* mutated: appended to what is there
    IF "fewshots" \in only THEN definition.fewshots \o state.fewshots ELSE definition.fewshots

LoadedFewshots(definition, state, only) ==
    IF "fewshots" \in only THEN state.fewshots ELSE definition.fewshots

\* the new Definition; its version is the hash of what it holds
Loaded(definition, state, only) ==
    [ agents |-> [k \in DOMAIN definition.agents |->
                    LoadedAgent(definition.agents[k], state, only)],
      coordination |-> IF "coordination" \in only THEN state.coordination
                       ELSE definition.coordination,
      fewshots |-> LoadedFewshots(definition, state, only),
      io |-> definition.io, deps |-> definition.deps ]

\* strict and of another architecture, it raises
Loadable(definition, state, strict) == ~(strict /\ Incompatible(definition, state))

LoadState(only, strict) ==
    \E state \in weights :
        /\ Loadable(sibling, state, strict)
        /\ sibling' = Loaded(sibling, state, only)
        /\ UNCHANGED weights

TransferNext ==
    \/ \E definition \in Blueprints \cup {sibling} : Extract(definition)
    \/ \E only \in SUBSET KnobGroups, strict \in BOOLEAN : LoadState(only, strict)

TransferSpec == TransferInit /\ [][TransferNext]_transferVars
----------------------------------------------------------------------------
(* Properties: of any load of the weights at hand onto the sibling          *)

OneOfEachRole(definition) == Cardinality(RolesIn(definition)) = Len(definition.agents)
Knobs(state) == [roles |-> state.roles, coordination |-> state.coordination,
                 fewshots |-> state.fewshots]

\* A strict load of everything makes the knobs of the sibling those of the weights.
AllArrives(state) ==
    Loadable(sibling, state, TRUE) =>
        Knobs(StateDict(Loaded(sibling, state, KnobGroups))) = Knobs(state)

\* Loading the same again changes nothing, and loading group by group is loading them all.
LoadsCompose(state, only) ==
    LET result == Loaded(sibling, state, only) IN
        /\ Loaded(result, state, only) = result
        /\ \A group \in only :
              Loaded(Loaded(sibling, state, {group}), state, only \ {group}) = result

\* Loading what the sibling was gives it back, and nothing of the architecture moves but
\* the coordination, and that only when a load that is not strict asks for it.
LoadsAreUndone(state, only) ==
    LET result == Loaded(sibling, state, only) IN
        /\ OneOfEachRole(sibling) => Loaded(result, StateDict(sibling), only) = sibling
        /\ Loadable(sibling, state, TRUE) \/ "coordination" \notin only =>
              Structure(result) = Structure(sibling)

TransferMovesKnobs ==
    \A state \in weights :
        /\ AllArrives(state)
        /\ \A only \in SUBSET KnobGroups : LoadsCompose(state, only) /\ LoadsAreUndone(state, only)
----------------------------------------------------------------------------
(* Claims of the documentation that do not hold (README, 5).                *)

\* "d.load_state(d.state_dict()) re-mints the same content sha"
\* (docs/reference/tuner-and-learning.md:754): of two agents of one role, the first takes
\* the knobs of the last.
RoundTripIsIdentity == Loaded(sibling, StateDict(sibling), KnobGroups) = sibling

\* "never the architecture (team topology, ...)" (learning.py:370): a load that is not
\* strict takes the coordination along, and the next strict one is refused.
ArchitectureStays ==
    \A state \in weights : Structure(Loaded(sibling, state, KnobGroups)) = Structure(sibling)

\* "summoned units referenced by version" are part of the weights
\* (docs/guide/train-and-tune.md:178): they are extracted, and never loaded.
SummonsArrive ==
    \A state \in weights : Loadable(sibling, state, TRUE) =>
        StateDict(Loaded(sibling, state, KnobGroups)).summons = state.summons
=============================================================================
