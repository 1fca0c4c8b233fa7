---------------------------- MODULE RuntimeStack ----------------------------
(***************************************************************************)
(* One Run's model calls through the runtimes that wrap one another:        *)
(* run_team takes the agents in turn, an EscalatingRuntime or QuorumRuntime *)
(* makes several calls of one, a RoutingRuntime picks the model, and a      *)
(* ProviderRuntime tries the candidates until a provider answers.  All of   *)
(* them share one CostBudget and one CancelToken, which anybody may set     *)
(* while a provider's answer is awaited.                                    *)
(***************************************************************************)
EXTENDS Integers, Sequences, FiniteSets, SequencesExt, FiniteSetsExt

CONSTANTS Models, Providers,
          Registered,   \* the providers of a ProviderRuntime, in the order it tries them
          Alias,        \* ModelsConfig.aliases: a function on some model names
          Supports,     \* what each provider serves
          Permitted,    \* providers the policy permits
          AgentModels,  \* the model field of each agent of the team: a list, that of an
                        \* agent without one being the default
          PrimaryModel, StrongModel,  \* the escalating runtime's two models
          RoutedRole, RoutedModel,  \* a routing rule: this agent runs on this model
          StackLimit, LeafCosts,
          VoteKeys,     \* answers a quorum tells apart
          SampleK, MinK, \* samples asked for, and before an early stop
          PriceTables,   \* model_prices: cents of one turn of each model
          OtherShapes    \* lists of shapes a caller adds: refine, retry, recurse

\* CostShape.__post_init__: no factor is below 1, a rate and its half-width are shares
IsShape(shape) ==
    /\ {shape.num, shape.den} \subseteq Nat /\ 0 < shape.den /\ shape.den <= shape.num
    /\ shape.rate \subseteq 0 .. 10 /\ shape.ci \in 0 .. 10

ASSUME StackAssumption ==
    /\ DOMAIN Alias \subseteq Models /\ Range(Alias) \subseteq Models
    /\ Supports \in [Providers -> SUBSET Models] /\ Permitted \subseteq Providers
    /\ Registered \in Seq(Providers)
    /\ AgentModels \in Seq(Seq(Models) \ {<<>>}) /\ AgentModels # <<>>
    /\ {PrimaryModel, StrongModel} \subseteq Models /\ RoutedRole \in Nat /\ RoutedModel \in Models
    /\ StackLimit \in Nat /\ LeafCosts \subseteq Nat
    /\ \E dearest \in LeafCosts : \A cost \in LeafCosts : cost <= dearest
    /\ SampleK \in Nat \ {0} /\ MinK \in Nat \ {0}
    /\ PriceTables \subseteq [Models -> Nat]
    /\ \A others \in OtherShapes :
          others \in Seq(Range(others)) /\ \A shape \in Range(others) : IsShape(shape)

VARIABLES stackPc,     \* where the call is
          stack,       \* its local variables
          stackSpent,  \* CostBudget.spent_usd
          stackToken,  \* CancelToken
          leaves       \* ghost: what the answers so far cost, whether a model gave one, and
                       \* what their turns are at each table of prices

stackVars == <<stackPc, stack, stackSpent, stackToken, leaves>>

\* nested: a QuorumRuntime around an EscalatingRuntime
Modes == {"plain", "escalate", "quorum", "nested"}
Escalates == stack.mode \in {"escalate", "nested"}
Samples == stack.mode \in {"quorum", "nested"}
StackEnds == {"returned", "cancelled", "breached", "failover", "unwired", "abstained"}
----------------------------------------------------------------------------
(* Choosing a model                                                         *)

Resolve(m) == IF m \in DOMAIN Alias THEN Alias[m] ELSE m

\* expand_candidates: every entry through the aliases
Expand(field) == [k \in DOMAIN field |-> Resolve(field[k])]

\* route_decision: a rule that matches the role names the model, else the agent's first
RouteField(agent) ==
    IF stack.routes /\ agent = RoutedRole THEN <<RoutedModel>> ELSE <<AgentModels[agent][1]>>

\* A call is pinned to one model by an escalating runtime, or by a RoutingRuntime, which
\* has resolved it already; others have the agent's list
Candidates(agent, second) ==
    IF Escalates THEN Expand(IF second THEN <<StrongModel>> ELSE <<PrimaryModel>>)
    ELSE IF stack.routes THEN Expand(Expand(RouteField(agent)))
    ELSE Expand(AgentModels[agent])

\* what will be asked: the places of a model, the first of equals, and of a provider for it
Attempts(models) ==
    {at \in (DOMAIN models) \X (DOMAIN Registered) :
        LET model == models[at[1]]
            provider == Registered[at[2]]
        IN  /\ \A earlier \in 1 .. at[1] - 1 : models[earlier] # model
            /\ provider \in Permitted /\ model \in Supports[provider]}

\* model by model
NextAttempt(todo) ==
    CHOOSE a \in todo : \A b \in todo : a[1] < b[1] \/ (a[1] = b[1] /\ a[2] <= b[2])
----------------------------------------------------------------------------
(* Voting                                                                   *)

Tally(samples, key) == Cardinality({k \in DOMAIN samples : samples[k] = key})
TopTally(samples) == Max({Tally(samples, key) : key \in Range(samples)})
Distinct(samples) == Cardinality(Range(samples))

\* max(tally): the first key to reach the largest count
Leader(samples) ==
    samples[Min({k \in DOMAIN samples : Tally(samples, samples[k]) = TopTally(samples)})]

NeverIllDefined(samples) == samples = <<>>   \* mutated: the all-distinct test is missing

\* no samples, or all distinct (the cardinality ratio is left at its default of 1)
IllDefined(samples) ==
    samples = <<>> \/ (Distinct(samples) = Len(samples) /\ Len(samples) > 1)

\* _wilson_lower_bound > 1/2 at alpha = 0.05 (z^2 = 3.84), in integers
WilsonAboveHalf(s, n) ==
    /\ 2 * s > n
    /\ (2 * s - n) * (2 * s - n) * n * 10000
            > 384 * (400 * s * (n - s) + 384 * n)
----------------------------------------------------------------------------
(* The call                                                                 *)

StackInit ==
    /\ stackPc = "idle" /\ stackSpent = 0 /\ stackToken = FALSE
    /\ leaves = [owed |-> 0, live |-> FALSE, billed |-> [prices \in PriceTables |-> 0]]
    /\ stack = [mode |-> "plain", lead |-> FALSE, routes |-> FALSE, agent |-> 1, second |-> FALSE, todo |-> {},
                samples |-> <<>>, seen |-> 0, answer |-> "none"]

StackBegin ==
    /\ stackPc = "idle"
    /\ \E m \in Modes, l \in BOOLEAN, routes \in BOOLEAN :
          stack' = [stack EXCEPT !.mode = m, !.lead = l, !.routes = routes]
    /\ stackPc' = "agent"
    /\ UNCHANGED <<stackSpent, stackToken, leaves>>

StackEnd(how) == stackPc' = how /\ UNCHANGED <<stack, stackSpent, stackToken, leaves>>

RaiseIfCancelled == stackToken /\ StackEnd("cancelled")

\* a lead runs after those it delegates to, with no test of the token in between
TokenTested == ~(stack.lead /\ stack.agent = Len(AgentModels))

\* _run_sequential and _run_lead: the next agent, or the last one's result
NextAgent ==
    /\ stackPc = "agent"
    /\ \/ stack.agent > Len(AgentModels) /\ StackEnd("returned")
       \/ stack.agent <= Len(AgentModels) /\ TokenTested /\ RaiseIfCancelled
       \/ /\ stack.agent <= Len(AgentModels) /\ (TokenTested => ~stackToken)
          /\ stack' = [stack EXCEPT !.second = FALSE, !.samples = <<>>, !.seen = 0]
          /\ stackPc' = IF Samples THEN "sample" ELSE "leaf"
          /\ UNCHANGED <<stackSpent, stackToken, leaves>>

AgentDone(answer) ==
    /\ stackPc' = "agent"
    /\ stack' = [stack EXCEPT !.agent = stack.agent + 1, !.answer = answer]

\* _can_afford: any budget for the first sample, then the dearest one seen
CanAfford ==
    LET remaining == Max({0, StackLimit - stackSpent})
    IN  IF stack.seen = 0 THEN remaining > 0 ELSE remaining >= stack.seen

EarlyStop ==
    LET n == Len(stack.samples)
    IN  n > 0 /\ n >= MinK /\ WilsonAboveHalf(TopTally(stack.samples), n)

Enough == Len(stack.samples) = SampleK \/ EarlyStop

\* _collect_samples: one more, or none
NextSample ==
    /\ stackPc = "sample"
    /\ \/ ~Enough /\ RaiseIfCancelled
       \/ /\ ~Enough /\ ~stackToken /\ CanAfford
          /\ stackPc' = "leaf"
          /\ UNCHANGED <<stack, stackSpent, stackToken, leaves>>
       \/ /\ Enough \/ (~stackToken /\ ~CanAfford)
          /\ stackPc' = "vote"
          /\ UNCHANGED <<stack, stackSpent, stackToken, leaves>>

\* the consensus, the declared default, or QuorumAbstention when none is declared
Vote ==
    /\ stackPc = "vote"
    /\ IF IllDefined(stack.samples)
       THEN \/ AgentDone("default") /\ UNCHANGED <<stackSpent, stackToken, leaves>>
            \/ StackEnd("abstained")
       ELSE AgentDone(Leader(stack.samples)) /\ UNCHANGED <<stackSpent, stackToken, leaves>>
----------------------------------------------------------------------------
(* A leaf                                                                   *)

\* ProviderRuntime.run up to its first candidate
EnterLeaf ==
    /\ stackPc = "leaf"
    /\ \/ RaiseIfCancelled
       \/ /\ ~stackToken
          /\ stack' = [stack EXCEPT !.todo =
                            Attempts(Candidates(stack.agent, stack.second))]
          /\ stackPc' = "try"
          /\ UNCHANGED <<stackSpent, stackToken, leaves>>

AskProvider ==
    /\ stackPc = "try" /\ stack.todo # {}
    /\ \/ RaiseIfCancelled
       \/ /\ ~stackToken
          /\ stackPc' = "flight"
          /\ UNCHANGED <<stack, stackSpent, stackToken, leaves>>

Failover ==
    /\ stackPc = "try" /\ stack.todo = {}
    /\ StackEnd("failover")

\* any exception but NotImplementedError, Cancelled among them: the next candidate
ProviderFails ==
    /\ stackPc = "flight"
    /\ stack' = [stack EXCEPT !.todo = stack.todo \ {NextAttempt(stack.todo)}]
    /\ stackPc' = "try"
    /\ UNCHANGED <<stackSpent, stackToken, leaves>>

Unwired == stackPc = "flight" /\ StackEnd("unwired")

\* should_escalate: the strong model is asked too
Escalate ==
    /\ Escalates /\ ~stack.second
    /\ stack' = [stack EXCEPT !.second = TRUE]
    /\ stackPc' = "leaf"

\* What the wrapper does with a charged answer it keeps: a quorum charges it again
TakeAnswer(cost, key, charged) ==
    IF Samples
    THEN /\ stackSpent' = charged + cost
         /\ IF charged + cost > StackLimit
            THEN stackPc' = "breached" /\ UNCHANGED stack
            ELSE /\ stackPc' = "sample"
                 /\ stack' = [stack EXCEPT !.samples = Append(stack.samples, key), !.second = FALSE,
                                           !.seen = Max({stack.seen, cost})]
    ELSE stackSpent' = charged /\ AgentDone(key)

\* CostBudget.charge in ProviderRuntime
ChargeLeaf(cost) == stackSpent + cost

\* the model that answers
Answering == Candidates(stack.agent, stack.second)[NextAttempt(stack.todo)[1]]

BillAnswer(owed) ==
    leaves' = [owed |-> leaves.owed + owed, live |-> TRUE,
               billed |-> [prices \in PriceTables |-> leaves.billed[prices] + prices[Answering]]]

ProviderAnswers ==
    /\ stackPc = "flight"
    /\ \E cost \in LeafCosts, key \in VoteKeys :
        \/ /\ ChargeLeaf(cost) > StackLimit
           /\ stackPc' = "breached" /\ stackSpent' = ChargeLeaf(cost)
           /\ BillAnswer(cost) /\ UNCHANGED stack
        \/ /\ ChargeLeaf(cost) <= StackLimit
           /\ TakeAnswer(cost, key, ChargeLeaf(cost))
           /\ BillAnswer(IF Samples THEN 2 * cost ELSE cost)
        \/ /\ ChargeLeaf(cost) <= StackLimit
           /\ Escalate /\ stackSpent' = ChargeLeaf(cost)
           /\ BillAnswer(cost)
    /\ UNCHANGED stackToken

\* a RecordReplayRuntime inside the quorum that has the sample's cassette
SampleReplayed ==
    /\ stackPc = "leaf" /\ stack.mode = "quorum"
    /\ \E cost \in LeafCosts, key \in VoteKeys :
        /\ leaves' = [leaves EXCEPT !.owed = leaves.owed + cost]
        /\ TakeAnswer(cost, key, stackSpent)
    /\ UNCHANGED stackToken

StackCancel ==
    /\ stackPc \notin StackEnds \cup {"idle"} /\ ~stackToken
    /\ stackToken' = TRUE
    /\ UNCHANGED <<stackPc, stack, stackSpent, leaves>>

StackNext ==
    \/ StackBegin \/ NextAgent \/ NextSample \/ Vote
    \/ EnterLeaf \/ AskProvider \/ Failover \/ ProviderFails \/ Unwired
    \/ ProviderAnswers \/ SampleReplayed \/ StackCancel

StackSpec == StackInit /\ [][StackNext]_stackVars
----------------------------------------------------------------------------
(* crawfish.cost: the preview of what these calls will cost.  Prices are     *)
(* whole cents; a factor is a fraction, the amounts of a band are over one     *)
(* denominator.                                                               *)

Total(seq) ==
    LET upTo[k \in 0 .. Len(seq)] == IF k = 0 THEN 0 ELSE upTo[k - 1] + seq[k] IN upTo[Len(seq)]
Product(seq) ==
    LET upTo[k \in 0 .. Len(seq)] == IF k = 0 THEN 1 ELSE upTo[k - 1] * seq[k] IN upTo[Len(seq)]

\* estimate_cost, under the routing policy if there is one: one turn of each agent's first model
FirstModel(agent) == Resolve(RouteField(agent)[1])
Estimate(prices) == Total([a \in DOMAIN AgentModels |-> prices[FirstModel(a)]])

\* CostShape: a worst-case factor num / den, and what was measured of it (rate, in
\* tenths, of at most one element, and its half-width ci)
Times(n) == [num |-> n, den |-> 1, rate |-> {}, ci |-> 0]
Measured(shape, rate, ci) == [shape EXCEPT !.rate = {rate}, !.ci = ci]
Recurse(branching, depth) == Times(branching ^ depth)

EscalateFree(primary, strong) == Times(2)   \* mutated: the strong model at the primary's price

\* 1 + strong / primary; a free primary counts the calls instead
EscalateShape(primary, strong) ==
    IF primary <= 0 THEN Times(2)
    ELSE [num |-> primary + strong, den |-> primary, rate |-> {}, ci |-> 0]

\* k samples, or min_k of them where none is pinned
QuorumShape(pinned) == Times(IF pinned THEN SampleK ELSE MinK)

\* from_runtime: the wrappers along _inner, the outermost first
FromRuntime(mode, prices, pinned) ==
    LET escalate == <<EscalateShape(prices[Resolve(PrimaryModel)], prices[Resolve(StrongModel)])>>
        quorum == <<QuorumShape(pinned)>>
    IN CASE mode = "plain" -> <<>>
         [] mode = "escalate" -> escalate
         [] mode = "quorum" -> quorum
         [] mode = "nested" -> quorum \o escalate

\* worst_case_factor, and expected_factor at the rate moved by sign times its ci
WorstNum(shape) == 10 * shape.num
ExpectedNum(shape, sign) ==
    IF shape.rate = {} THEN WorstNum(shape)
    ELSE LET moved == (CHOOSE r \in shape.rate : TRUE) + sign * shape.ci
             p == Max({0, Min({10, moved})})
         IN 10 * shape.den + p * (shape.num - shape.den)

\* compose_cost: multiplied along the nesting, then clamped into order
Compose(total, shapes) ==
    LET den == Product([i \in DOMAIN shapes |-> 10 * shapes[i].den])
        lower == total * den
        worst == total * Product([i \in DOMAIN shapes |-> WorstNum(shapes[i])])
        Scaled(sign) == total * Product([i \in DOMAIN shapes |-> ExpectedNum(shapes[i], sign)])
        lo == Min({Max({Scaled(-1), lower}), worst})
        hi == Min({Max({Scaled(1), lo}), worst})
    IN [den |-> den, lower |-> lower, lo |-> lo, hi |-> hi, worst |-> worst,
        expected |-> Min({Max({Scaled(0), lo}), hi})]
----------------------------------------------------------------------------
(* Properties                                                               *)

DearestLeaf == Max(LeafCosts)

\* The budget knows of every answer, whatever wraps the call: each leaf once, a live
\* sample of a quorum twice; a call that returns has kept to the ceiling, and no call
\* passes it by more than one answer.
SpendAccountsForLeaves ==
    /\ stackPc # "breached" => stackSpent = leaves.owed
    /\ stackPc = "returned" => stackSpent <= StackLimit
    /\ stackSpent <= StackLimit + DearestLeaf

\* A vote is never decided by a sample nobody agrees with, or against a larger group.
VoteHasSupport ==
    [][stackPc = "vote" /\ stackPc' = "agent" /\ stack'.answer # "default" =>
            LET votes(key) == Cardinality({k \in DOMAIN stack.samples : stack.samples[k] = key})
            IN  /\ \A key \in VoteKeys : votes(key) <= votes(stack'.answer)
                /\ votes(stack'.answer) > 1 \/ Len(stack.samples) = 1]_stackVars

\* what the preview takes for granted of the team, the prices and the samples
FirstIsDearest(prices) ==
    \A a \in DOMAIN AgentModels : \A m \in Range(Candidates(a, FALSE)) :
        prices[m] <= prices[FirstModel(a)]
PrimaryIsTheirs(prices) ==
    /\ prices[Resolve(PrimaryModel)] > 0
    /\ \A a \in DOMAIN AgentModels : prices[FirstModel(a)] >= prices[Resolve(PrimaryModel)]

\* A preview of the worst case is one: whatever the wrappers, their nesting, failovers,
\* early stops and cancellations did, the turns the models answered cost no more than the
\* preview of that runtime said before the first of them, and its band was in order, for
\* other shapes around it too.
PreviewCovers ==
    stackPc \in StackEnds =>
        \A prices \in PriceTables, pinned \in BOOLEAN :
            LET shapes == FromRuntime(stack.mode, prices, pinned)
                band == Compose(Estimate(prices), shapes)
            IN  /\ (/\ Escalates => PrimaryIsTheirs(prices)
                    /\ FirstIsDearest(prices)
                    /\ Samples => pinned \/ SampleK <= MinK)
                        => leaves.billed[prices] * band.den <= band.worst
                /\ \A others \in OtherShapes :
                     LET outer == Compose(Estimate(prices), others \o shapes) IN
                        /\ outer.lower <= outer.lo /\ outer.lo <= outer.expected
                        /\ outer.expected <= outer.hi /\ outer.hi <= outer.worst
                        /\ outer.worst * band.den >= band.worst * outer.den

\* What the leaves answered is what is charged, and was foreseen.
SpendIsForeseen == SpendAccountsForLeaves /\ PreviewCovers

(* Claims of the documentation that do not hold (README, 5).                *)

\* A quorum stops early on what it can afford, never exceeding the ceiling.
QuorumKeepsCeiling == Samples => stackSpent <= StackLimit

\* Replayed samples cost nothing.
ReplayedSamplesFree == stackSpent > 0 => leaves.live

\* A tie resolves to the declared default, never to a silent pick.
TiesAreDefaults ==
    [][stackPc = "vote" /\ stackPc' = "agent" /\ stack'.answer # "default" =>
            \A key \in Range(stack.samples) \ {stack'.answer} :
                Tally(stack.samples, key) < Tally(stack.samples, stack'.answer)]_stackVars

\* "no rule matches (the agent's own model field is then left intact)" (routing.py:116): each
\* call through a RoutingRuntime is pinned to the first model, there is nothing to fail over to.
UnroutedKeepsItsList ==
    stack.mode = "plain" /\ stack.agent \in DOMAIN AgentModels /\ stack.agent # RoutedRole =>
        Candidates(stack.agent, FALSE) = Expand(AgentModels[stack.agent])

Preview(prices, pinned) == Compose(Estimate(prices), FromRuntime(stack.mode, prices, pinned))

\* "(or a free primary) it degrades to the count-based 2x, never an undercount" (cost.py):
\* twice nothing is nothing, whatever the strong model costs.
FreePrimaryCovered ==
    stackPc \in StackEnds /\ stack.mode = "escalate" =>
        \A prices \in PriceTables : FirstIsDearest(prices) =>
            leaves.billed[prices] * Preview(prices, TRUE).den <= Preview(prices, TRUE).worst

\* "with no pinned k it is the floor (min_k), the most the sequential test could still
\* draw" (cost.py): the Definition's sample_k is what is drawn.
UnpinnedQuorumCovered == Len(stack.samples) <= QuorumShape(FALSE).num
=============================================================================
