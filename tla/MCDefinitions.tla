--------------------------- MODULE MCDefinitions ----------------------------
(* What happens to a Definition before it runs, each part checked by itself: a *)
(* behaviour is one of Authoring (three commands on a component of two files), *)
(* of Resolver (three units), of AgentDiff (two authors, one ancestor), or of  *)
(* Transfer (weights between siblings).                                        *)
EXTENDS Authoring, Resolver, AgentDiff, Transfer, TLC

CONSTANTS p1, p2, p3, v1, v2

VARIABLE focus

MCAuthors == {p1, p2, p3}
AuthorSymmetry == Permutations(MCAuthors)

\* both drafts read a secret, only the second one reaches out
MCFiles == <<"definition.py", "instructions.md">>
MCSecrets == [d \in {v1, v2, Torn} |-> IF d = Torn THEN {} ELSE {"token"}]
MCEgress == [d \in {v1, v2, Torn} |-> IF d = v2 THEN {"crm"} ELSE {}]

\* refs by caret, tilde and exact version, at most two of them in a list
MCRef(u, op, b) == [unit |-> u, op |-> op, base |-> b]
MCRefs == <<MCRef("a", "", <<1, 0, 0>>), MCRef("a", "^", <<0, 0, 2>>), MCRef("a", "^", <<1, 0, 0>>),
            MCRef("b", "^", <<0, 1, 0>>), MCRef("b", "~", <<1, 0, 0>>), MCRef("r", "", <<1, 0, 0>>)>>
MCRefLists ==
    {<<>>} \cup {<<MCRefs[i]>> : i \in 1..6}
    \cup {<<MCRefs[p[1]], MCRefs[p[2]]>> : p \in {q \in (1..6) \X (1..6) : q[1] < q[2]}}
MCOffers == {{}, {<<1, 0, 0>>, <<0, 1, 0>>},
             {<<1, 0, 0>>, <<1, 1, 0>>, <<0, 1, 5>>, <<0, 2, 0>>},
             {<<1, 0, 0>>, <<1, 0, 2>>, <<0, 0, 2>>, <<0, 0, 3>>}}

MCAgent(r, m, t) == [role |-> r, model |-> m, tools |-> t]
MCAncestors == {[agents |-> <<MCAgent("lead", "opus", <<"read">>), MCAgent("aide", "haiku", <<>>)>>,
                 inputs |-> <<[name |-> "repo", flow |-> "static"]>>],
                [agents |-> <<MCAgent("lead", "opus", <<>>)>>,
                 inputs |-> <<[name |-> "repo", flow |-> "fluid"]>>]}

\* siblings with other knobs, another shape, another coordination, and a role twice
Knobbed(role, prompt, model) == [role |-> role, knobs |-> [prompt |-> prompt, model |-> model]]
Blueprint(agents, coordination, deps, fewshots) ==
    [agents |-> agents, io |-> "task", coordination |-> coordination, deps |-> deps,
     fewshots |-> fewshots]
Dep(version) == {[id |-> "dep", version |-> version]}
Pair == <<Knobbed("lead", "q", "opus"), Knobbed("aide", "p", "haiku")>>
Twice == <<Knobbed("lead", "p", "haiku"), Knobbed("lead", "q", "opus")>>
MCBlueprints ==
    {Blueprint(<<Knobbed("lead", "p", "opus")>>, "single", Dep(1), <<>>),
     Blueprint(<<Knobbed("lead", "q", "haiku")>>, "single", Dep(2), <<"e">>),
     Blueprint(Pair, "lead", {}, <<"f">>), Blueprint(Pair, "sequential", {}, <<>>),
     Blueprint(Twice, "single", {}, <<>>)}

DefinitionsInit ==
    /\ focus \in {"authoring", "resolver", "diff", "transfer"}
    /\ AuthoringInit /\ ResolverInit /\ DiffInit /\ TransferInit
    /\ focus # "authoring" => disk = WholeTree(Absent) /\ granted = NoGrant
    /\ focus # "resolver" => frames[1].todo = <<>>
    /\ focus # "diff" => common = CHOOSE ancestor \in Ancestors : TRUE
    /\ focus # "transfer" => sibling = CHOOSE blueprint \in Blueprints : TRUE

\* commands that leave nothing for the others to read but stamps: one of three at most
Onlookers ==
    {p \in Authors : cmd[p].kind \in {"describe", "map"} \/ (cmd[p].kind = "grant" /\ ~cmd[p].yes)}

DefinitionsNext ==
    /\ UNCHANGED focus
    /\ \/ focus = "authoring" /\ AuthoringNext /\ Cardinality(Onlookers') <= 1
          /\ UNCHANGED <<resolverVars, diffVars>>
       \/ focus = "resolver" /\ ResolverNext /\ UNCHANGED <<authoringVars, diffVars>>
       \/ focus = "diff" /\ DiffNext /\ UNCHANGED <<authoringVars, resolverVars>>
       \/ focus = "transfer" /\ UNCHANGED <<authoringVars, resolverVars, diffVars>>
    /\ IF focus = "transfer" THEN TransferNext ELSE UNCHANGED transferVars

DefinitionsSpec == DefinitionsInit /\ [][DefinitionsNext]_<<focus, authoringVars, resolverVars, diffVars, transferVars>>
=============================================================================
