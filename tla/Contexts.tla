------------------------------ MODULE Contexts ------------------------------
(***************************************************************************)
(* What an agent is given of what went before: a transcript that            *)
(* manage_context compacts with one of the four strategies                  *)
(* (runtime/context_strategy.py), and the Context that run_team threads     *)
(* from agent to agent (runtime/team.py, runtime/context_artifact.py),      *)
(* reduced by the carry strategy of the team.  A turn is its size and the   *)
(* turns it stands for, a value the agents whose words are in it.           *)
(***************************************************************************)
EXTENDS Integers, Sequences, FiniteSets, SequencesExt

CONSTANTS Styles,       \* context strategies: [name, limit, keep]
          Sizes,        \* tokens of a turn
          DigestSize,   \* tokens of a summary turn
          MaxTurns,     \* bound: turns said
          Teams,        \* [coordination, carry, roles, inputs]
          StaticNames,  \* declared inputs of flow static
          CarryKeep     \* CarryRecency's keep

ASSUME ContextsAssumption ==
    /\ Sizes \subseteq Nat \ {0} /\ DigestSize \in Nat \ {0}
    /\ MaxTurns \in Nat /\ CarryKeep \in Nat
    /\ \A s \in Styles : s.limit \in Nat /\ s.keep \in Nat
    /\ \A t \in Teams : t.roles \in Seq(Range(t.roles))

VARIABLES style,       \* the strategy in use
          shifted,     \* keep_recent >> passes of ExponentialCompact
          transcript,  \* turns: [fluid, tokens, holds]
          said,        \* the turns as they were said (history)
          team,        \* the team in hand
          context,     \* entries: [key, says, tainted, of]
          asked,       \* agents that have run
          received     \* what the agent that ran last was given, by name

transcriptVars == <<style, shifted, transcript, said>>
teamVars == <<team, context, asked, received>>
contextsVars == <<transcriptVars, teamVars>>

ContextsInit ==
    /\ style \in Styles /\ shifted = style.keep /\ transcript = <<>> /\ said = <<>>
    /\ team \in Teams /\ context = <<>> /\ asked = 0 /\ received = <<>>

----------------------------------------------------------------------------
(* Compaction of a transcript                                               *)

Tokens(turns) == FoldSeq(LAMBDA turn, sum : turn.tokens + sum, 0, turns)

\* list[-n:] and list[:-n], where nothing of a list is all of it
Recent(list, n) ==
    IF n = 0 \/ n >= Len(list) THEN list ELSE SubSeq(list, Len(list) - n + 1, Len(list))
Older(list, n) == IF n = 0 THEN <<>> ELSE SubSeq(list, 1, Len(list) - n)

\* mutated: the digest of what is fluid is taken for trusted
TrustedDigest(turns) ==
    [fluid |-> FALSE, tokens |-> DigestSize, holds |-> UNION {turn.holds : turn \in Range(turns)}]

SummaryTurn(turns) ==
    [ fluid |-> \E turn \in Range(turns) : turn.fluid,
      tokens |-> DigestSize,
      holds |-> UNION {turn.holds : turn \in Range(turns)} ]

\* the oldest turns go until the rest fit, but never the most recent ones
Windowed(turns) ==
    LET Enough(n) == n = Len(turns) \/ Len(turns) - n <= style.keep
                     \/ Tokens(SubSeq(turns, n + 1, Len(turns))) <= style.limit
        dropped == CHOOSE n \in 0 .. Len(turns) : Enough(n) /\ \A m \in 0 .. n - 1 : ~Enough(m)
    IN SubSeq(turns, dropped + 1, Len(turns))

Digested(turns, keep) ==
    IF Len(turns) <= keep THEN turns ELSE <<SummaryTurn(Older(turns, keep))>> \o Recent(turns, keep)

\* ExponentialCompact keeps half as many at each pass, and two at the least
KeepRecent ==
    CASE style.name = "exponential_compact" -> IF shifted < 2 THEN 2 ELSE shifted
      [] style.name = "summarize" -> 1
      [] OTHER -> style.keep

Compacted(turns) == IF style.name = "max_tokens" THEN Windowed(turns) ELSE Digested(turns, KeepRecent)

ShouldCompact == Tokens(transcript) > style.limit

Speak(fluid, tokens) ==
    /\ Len(said) < MaxTurns
    /\ LET turn == [fluid |-> fluid, tokens |-> tokens, holds |-> {Len(said) + 1}]
       IN said' = Append(said, turn) /\ transcript' = Append(transcript, turn)
    /\ UNCHANGED <<style, shifted>>

ManageContext ==
    /\ ShouldCompact /\ Len(transcript) <= MaxTurns
    /\ transcript' = Compacted(transcript)
    /\ shifted' = IF style.name = "exponential_compact" THEN shifted \div 2 ELSE shifted
    /\ UNCHANGED <<style, said>>

TranscriptNext ==
    /\ \/ \E fluid \in BOOLEAN, tokens \in Sizes : Speak(fluid, tokens)
       \/ ManageContext
    /\ UNCHANGED teamVars
----------------------------------------------------------------------------
(* The Context of a team                                                    *)

Keys(entries) == {entry.key : entry \in Range(entries)}

\* to_inputs, and the digest of a summary: the later of two values of one name
ByName(entries) ==
    [name \in Keys(entries) |->
        entries[CHOOSE k \in DOMAIN entries :
                    /\ entries[k].key = name
                    /\ \A j \in DOMAIN entries : entries[j].key = name => j <= k]]

\* the carry strategies as resolve_carry_strategy makes them, from their names alone: no
\* field is listed, and typed_fields without a field carries all
CarryOn(entries) ==
    CASE team.carry = "recency" -> IF Len(entries) <= CarryKeep THEN entries ELSE Recent(entries, CarryKeep)
      [] team.carry = "summary" ->
            IF Len(entries) <= 1 THEN entries
            ELSE <<[ key |-> "summary",
                     says |-> UNION {ByName(entries)[name].says : name \in Keys(entries)},
                     tainted |-> \E entry \in Range(entries) : entry.tainted,
                     of |-> UNION {entry.of : entry \in Range(entries)} ]>>
      [] OTHER -> entries

\* an input that nothing declares is on the fluid side
FluidNames(names) == names \ StaticNames

\* the inputs of the team, overlaid with what is carried
Given(entries) ==
    [name \in team.inputs \cup Keys(entries) |->
        IF name \in Keys(entries) THEN ByName(entries)[name]
        ELSE [key |-> name, says |-> {}, tainted |-> name \notin StaticNames,
              of |-> {name} \ StaticNames]]

\* _result_output and add_result
ResultOf(given, key, upstream) ==
    [ key |-> key, says |-> {asked + 1},
      tainted |-> upstream \/ FluidNames(DOMAIN given) # {},
      of |-> UNION {given[name].of : name \in DOMAIN given} ]

Tainted(entries) == \E entry \in Range(entries) : entry.tainted

\* _run_sequential, one agent
NextInLine ==
    /\ team.coordination = "sequential" /\ asked < Len(team.roles)
    /\ received' = Given(context)
    /\ context' = CarryOn(Append(context, ResultOf(Given(context), "prior_result", Tainted(context))))
    /\ asked' = asked + 1
    /\ UNCHANGED team

\* _run_lead: the last of the roles is the lead, which gets what the others made of the
\* inputs of the team
NextDelegate ==
    /\ team.coordination = "lead" /\ asked < Len(team.roles) - 1
    /\ received' = Given(<<>>)
    /\ context' = Append(context, ResultOf(Given(<<>>), team.roles[asked + 1], FALSE))
    /\ asked' = asked + 1
    /\ UNCHANGED team

LeadCombines ==
    /\ team.coordination = "lead" /\ asked = Len(team.roles) - 1
    /\ context' = CarryOn(context)
    /\ received' = Given(CarryOn(context))
    /\ asked' = asked + 1
    /\ UNCHANGED team

TeamNext == (NextInLine \/ NextDelegate \/ LeadCombines) /\ UNCHANGED transcriptVars

ContextsNext == TranscriptNext \/ TeamNext

ContextsSpec == ContextsInit /\ [][ContextsNext]_contextsVars
----------------------------------------------------------------------------
(* Properties                                                               *)

Standing == UNION {turn.holds : turn \in Range(transcript)}

\* Whatever is compacted again and again: a turn that stands for fluid data is fluid, the
\* turns are in the order they were said, and only max_tokens loses any.
TranscriptIsFaithful ==
    /\ \A turn \in Range(transcript) : (\E i \in turn.holds : said[i].fluid) => turn.fluid
    /\ \A i, j \in DOMAIN transcript : i < j =>
          \A a \in transcript[i].holds, b \in transcript[j].holds : a < b
    /\ style.name # "max_tokens" => Standing = DOMAIN said

\* The most recent turns are there as they were said: as many as a pass of the strategy
\* keeps at the least.
RecentIsVerbatim ==
    LET least == IF style.name = "exponential_compact" /\ style.keep > 2 THEN 2
                 ELSE IF style.name = "summarize" THEN 1 ELSE style.keep
        n == IF Len(said) < least THEN Len(said) ELSE least
    IN n > 0 => Len(transcript) >= n /\ Recent(transcript, n) = Recent(said, n)

\* Whoever has spoken so far under whatever carry strategy: what derives from an input that
\* is fluid is tainted, in a summary too.
TaintFollows == \A entry \in Range(context) : entry.of # {} => entry.tainted

Heard == UNION {received[name].says : name \in DOMAIN received}

\* An agent in a line is given what the one before it said, and a lead what each delegate
\* said, but for delegates it names twice and those that recency drops.
TeamIsHeard ==
    /\ team.coordination = "sequential" /\ asked > 1 => asked - 1 \in Heard
    /\ team.coordination = "lead" /\ asked = Len(team.roles) =>
          \A i \in 1 .. asked - 1 :
              \/ i \in Heard
              \/ \E j \in i + 1 .. asked - 1 : team.roles[j] = team.roles[i]
              \/ team.carry = "recency" /\ i < asked - CarryKeep

ContextIsKept == TranscriptIsFaithful /\ RecentIsVerbatim /\ TaintFollows /\ TeamIsHeard
----------------------------------------------------------------------------
(* Claims of the documentation that do not hold (README, 5).                *)

\* "None -> lossless default" (definition/types.py:107): the results of a sequential team
\* share one name, so the third agent does not get the first one's.
FullIsLossless ==
    team.coordination = "sequential" /\ team.carry = "full" => 1 .. asked - 1 \subseteq Heard

\* "Hard windowing ... Prevents overflow" (runtime/context_strategy.py:96): not when the
\* recent turns alone pass the limit.
WindowFits == style.name = "max_tokens" => Tokens(Compacted(transcript)) <= style.limit

\* "summarize the oldest turns into one" (runtime/context_strategy.py:119): keeping none, it
\* puts a summary of nothing in front of all of them.
SummaryShrinks == ShouldCompact => Len(Compacted(transcript)) <= Len(transcript)
=============================================================================
