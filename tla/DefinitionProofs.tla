--------------------------- MODULE DefinitionProofs ---------------------------
(***************************************************************************)
(* Proofs about what is done with a Definition: its dependencies are         *)
(* resolved (Resolver), it is run over a batch of items (Fanout), improved   *)
(* (Improvement) and watched (Watch), both at once (MCImprovement), its      *)
(* knobs are loaded onto another (Transfer), two edits of it are merged      *)
(* (AgentDiff), and the corrections of its runs earn authority (Corpus), for *)
(* any universe of units, any batch, slots, retry policy and budget, any     *)
(* calls, benchmarks and scores, any prices and ceiling, any Definitions,    *)
(* and any corrections, proposals and bars.  Each part has its inductive     *)
(* invariant, a lemma for each action, and the theorem last.                 *)
(***************************************************************************)
EXTENDS Resolver, AgentDiff, Transfer, Fanout, MCImprovement, FiniteSetTheorems,
        SequenceTheorems, WellFoundedInduction, TLAPS

(* Resolver                                                                 *)

\* The constraints of a dependency list, and those of a unit that is pinned.
RefsIn(s) == {s[i] : i \in 1..Len(s)}
Needs(u) == RefsIn(depends[<<u, resolved[u]>>])

\* A constraint that the walk has come to has its unit pinned at what it selects.
Met(ref) ==
    /\ ref.unit \in DOMAIN resolved /\ ref.unit \in DOMAIN listed
    /\ Matching(ref, listed[ref.unit]) # {}
    /\ resolved[ref.unit] = Select(ref, listed[ref.unit])

Finished == {u \in DOMAIN resolved : ~OnPath(u)}

Call == [unit : Units, todo : Seq(Ref)]

ResolverTypes ==
    /\ DOMAIN listed \subseteq Units /\ \A u \in DOMAIN listed : listed[u] \in Offers
    /\ DOMAIN resolved \subseteq Units /\ Root \in DOMAIN resolved
    /\ DOMAIN depends = Pinned /\ \A c \in Pinned : depends[c] \in RefLists
    /\ frames \in Seq(Call)

\* Each call on the stack is of a unit its own, and for what its unit needs there are four
\* ways: it is still to do, or finished, or being visited by the next call.
PathInv ==
    /\ verdict = "running" => Len(frames) > 0 /\ frames[1].unit = Root
    /\ \A k \in 1..Len(frames) :
          /\ frames[k].unit \in DOMAIN resolved
          /\ \A j \in 1..Len(frames) : frames[j].unit = frames[k].unit => j = k
          /\ RefsIn(frames[k].todo) \subseteq Needs(frames[k].unit)
          /\ \A ref \in Needs(frames[k].unit) :
                \/ ref \in RefsIn(frames[k].todo)
                \/ Met(ref) /\ ref.unit \in Finished
                \/ Met(ref) /\ k < Len(frames) /\ ref.unit = frames[k + 1].unit
          /\ k < Len(frames) => \E ref \in Needs(frames[k].unit) : ref.unit = frames[k + 1].unit

\* What is finished needs only what is finished, and not in a circle.
FinishedInv ==
    /\ \A u \in Finished : \A ref \in Needs(u) : Met(ref) /\ ref.unit \in Finished
    /\ \A S \in SUBSET Finished :
          S # {} => \E u \in S : \A ref \in Needs(u) : ref.unit \notin S

\* Whatever is pinned is needed from the root on, and by a constraint that selects it.
NeededInv ==
    /\ \A S \in SUBSET DOMAIN resolved :
          /\ Root \in S
          /\ \A u \in S : \A ref \in Needs(u) : ref.unit \in DOMAIN resolved => ref.unit \in S
          => S = DOMAIN resolved
    /\ \A w \in DOMAIN resolved \ {Root} :
          \E u \in DOMAIN resolved : \E ref \in Needs(u) : ref.unit = w /\ Met(ref)

ResolverInv ==
    /\ ResolverTypes /\ PathInv /\ FinishedInv /\ NeededInv
    /\ verdict = "locked" => frames = <<>>
    /\ RefusedForAFlaw
----------------------------------------------------------------------------
LEMMA BelowIs ==
  ASSUME NEW v \in Version, NEW w \in Version
  PROVE  Below(v, w) <=> \/ v[1] < w[1]
                         \/ v[1] = w[1] /\ v[2] < w[2]
                         \/ v[1] = w[1] /\ v[2] = w[2] /\ v[3] < w[3]
<1>1. \A k \in 1..3 : k = 1 \/ k = 2 \/ k = 3
  OBVIOUS
<1>2. (\A j \in 1..(1 - 1) : v[j] = w[j])
  OBVIOUS
<1>3. (\A j \in 1..(2 - 1) : v[j] = w[j]) <=> v[1] = w[1]
  OBVIOUS
<1>4. (\A j \in 1..(3 - 1) : v[j] = w[j]) <=> v[1] = w[1] /\ v[2] = w[2]
  OBVIOUS
<1>5. 1 \in 1..3 /\ 2 \in 1..3 /\ 3 \in 1..3
  OBVIOUS
<1>6. QED BY <1>1, <1>2, <1>3, <1>4, <1>5 DEF Below

LEMMA VersionsCompare ==
  ASSUME NEW v \in Version, NEW w \in Version, NEW x \in Version
  PROVE  /\ ~Below(v, v) /\ (Below(v, w) /\ Below(w, x) => Below(v, x))
         /\ ~Below(v, w) <=> v = w \/ Below(w, v)
<1>1. /\ v[1] \in Nat /\ v[2] \in Nat /\ v[3] \in Nat /\ w[1] \in Nat /\ w[2] \in Nat /\ w[3] \in Nat
      /\ x[1] \in Nat /\ x[2] \in Nat /\ x[3] \in Nat
      /\ v = w <=> v[1] = w[1] /\ v[2] = w[2] /\ v[3] = w[3]
  BY DEF Version
<1>2. QED BY <1>1, BelowIs

LEMMA SatisfiesIsCompatible ==
  ASSUME NEW ref \in Ref, NEW v \in Version
  PROVE  Satisfies(v, ref.op, ref.base) <=> Compatible(ref, v)
<1> DEFINE base == ref.base
<1>1. base \in Version /\ ref.op \in {"", "~", "^"}
  BY DEF Ref
<1>2. base[1] \in Nat
  BY <1>1 DEF Version
<1>3. SameUpTo(v, base, 1) <=> v[1] = base[1]
  <2>1. \A j \in 1..1 : j = 1
    OBVIOUS
  <2>2. QED BY <2>1 DEF SameUpTo
<1>4. SameUpTo(v, base, 2) <=> v[1] = base[1] /\ v[2] = base[2]
  <2>1. (\A j \in 1..2 : j = 1 \/ j = 2) /\ 1 \in 1..2 /\ 2 \in 1..2
    OBVIOUS
  <2>2. QED BY <2>1 DEF SameUpTo
<1>5. ~Below(v, base) <=> v = base \/ Below(base, v)
  BY <1>1, VersionsCompare
<1>6. CASE ref.op = ""
  BY <1>6 DEF Satisfies, Compatible
<1>7. CASE ref.op = "~"
  BY <1>4, <1>5, <1>7 DEF Satisfies, Compatible
<1>8. CASE ref.op = "^"
  BY <1>2, <1>3, <1>4, <1>5, <1>8 DEF Satisfies, Compatible, CaretDepth
<1>9. QED BY <1>1, <1>6, <1>7, <1>8

\* A finite set that an order leaves room in has a maximal element: the one with the fewest
\* above it, a strict subset being a smaller set.
LEMMA HasMaximal ==
  ASSUME NEW T, IsFiniteSet(T), T # {}, NEW R,
         \A x, y, z \in T : <<x, y>> \in R /\ <<y, z>> \in R => <<x, z>> \in R,
         \A x \in T : <<x, x>> \notin R
  PROVE  \E m \in T : \A y \in T : <<m, y>> \notin R
<1> DEFINE Up(x) == {y \in T : <<x, y>> \in R}
           Ups == {Up(x) : x \in T}
<1>1. IsWellFoundedOn(StrictSubsetOrdering(T), SUBSET T)
  BY FS_StrictSubsetOrderingWellFounded, FS_FiniteSubsetsOfFinite
<1>2. Ups \subseteq SUBSET T /\ Ups # {}
  <2>1. \A x \in T : Up(x) \in SUBSET T
    OBVIOUS
  <2>2. PICK x \in T : TRUE
    OBVIOUS
  <2>3. Up(x) \in Ups
    OBVIOUS
  <2>4. ASSUME NEW V \in Ups PROVE V \in SUBSET T
    <3>1. PICK z \in T : V = Up(z)
      BY <2>4
    <3> QED BY <3>1, <2>1
  <2> HIDE DEF Ups, Up
  <2> QED BY <2>3, <2>4
<1>3. PICK U \in Ups : \A V \in Ups : ~ (<<V, U>> \in StrictSubsetOrdering(T))
  <2> HIDE DEF Ups
  <2> QED BY <1>1, <1>2, WFMin
<1>4. PICK m \in T : U = Up(m)
  BY <1>3
<1>5. ASSUME NEW y \in T, <<m, y>> \in R PROVE FALSE
  <2>1. Up(y) \subseteq Up(m)
    BY <1>5
  <2>2. y \in Up(m) /\ y \notin Up(y)
    BY <1>5
  <2>3. <<Up(y), Up(m)>> \in StrictSubsetOrdering(T)
    BY <2>1, <2>2 DEF StrictSubsetOrdering
  <2> QED BY <1>3, <1>4, <2>3
<1> QED BY <1>5

LEMMA SelectIsHighest ==
  ASSUME NEW ref, NEW offered \in Offers, Matching(ref, offered) # {}
  PROVE  /\ Select(ref, offered) \in Matching(ref, offered)
         /\ \A w \in Matching(ref, offered) : ~Below(Select(ref, offered), w)
<1> DEFINE T == Matching(ref, offered)
           R == {p \in T \X T : Below(p[1], p[2])}
<1>1. T \subseteq Version /\ IsFiniteSet(T)
  <2>1. T \subseteq offered
    BY DEF Matching
  <2>2. QED BY <2>1, ResolverAssumption, FS_Subset
<1>2. \A v, w \in T : <<v, w>> \in R <=> Below(v, w)
  OBVIOUS
<1> HIDE DEF T, R
<1>3. \E m \in T : \A w \in T : <<m, w>> \notin R
  <2>1. \A x, y, z \in T : <<x, y>> \in R /\ <<y, z>> \in R => <<x, z>> \in R
    BY <1>1, <1>2, VersionsCompare
  <2>2. \A x \in T : <<x, x>> \notin R
    BY <1>1, <1>2, VersionsCompare
  <2>3. T # {}
    BY DEF T
  <2>4. QED BY <1>1, <2>1, <2>2, <2>3, HasMaximal
<1>4. QED BY <1>2, <1>3 DEF Select, T

LEMMA MetIsHonoured ==
  ASSUME ResolverTypes, NEW ref \in Ref, Met(ref)
  PROVE  Honoured(ref)
<1>1. listed[ref.unit] \in Offers /\ listed[ref.unit] \subseteq Version
  BY ResolverAssumption DEF ResolverTypes, Met
<1>2. QED BY <1>1, SelectIsHighest, SatisfiesIsCompatible DEF Met, Matching, Honoured

LEMMA HeadAndTail ==
  ASSUME NEW s \in Seq(Ref), s # <<>>
  PROVE  /\ Head(s) \in RefsIn(s) /\ Tail(s) \in Seq(Ref) /\ RefsIn(Tail(s)) \subseteq RefsIn(s)
         /\ \A ref \in RefsIn(s) : ref = Head(s) \/ ref \in RefsIn(Tail(s))
<1>1. /\ Len(s) \in Nat /\ Len(s) > 0 /\ Tail(s) \in Seq(Ref) /\ Len(Tail(s)) = Len(s) - 1
      /\ Head(s) = s[1] /\ \A i \in 1..Len(Tail(s)) : Tail(s)[i] = s[i + 1]
  OBVIOUS
<1>2. \A i \in 1..Len(Tail(s)) : i + 1 \in 1..Len(s)
  BY <1>1
<1>3. \A i \in 1..Len(s) : i = 1 \/ (i - 1 \in 1..Len(Tail(s)) /\ Tail(s)[i - 1] = s[i])
  BY <1>1
<1>4. Head(s) \in RefsIn(s) /\ RefsIn(Tail(s)) \subseteq RefsIn(s)
  BY <1>1, <1>2 DEF RefsIn
<1>5. \A ref \in RefsIn(s) : ref = Head(s) \/ ref \in RefsIn(Tail(s))
  BY <1>1, <1>3 DEF RefsIn
<1>6. QED BY <1>1, <1>4, <1>5
----------------------------------------------------------------------------
\* The call on top, the constraint it has come to, and the stack once it is done with it.
LEMMA TopOfStack ==
  ASSUME ResolverInv, verdict = "running"
  PROVE  /\ Len(frames) \in Nat /\ Len(frames) \in 1..Len(frames)
         /\ Top.unit \in DOMAIN resolved /\ Top.todo \in Seq(Ref)
         /\ <<Top.unit, resolved[Top.unit]>> \in Pinned
         /\ Working => /\ Head(Top.todo) \in Needs(Top.unit) /\ Head(Top.todo) \in Ref
                       /\ Tail(Top.todo) \in Seq(Ref)
<1>1. Len(frames) \in Nat /\ Len(frames) \in 1..Len(frames)
  BY DEF ResolverInv, ResolverTypes, PathInv
<1>2. frames[Len(frames)] \in Call
  <2>1. frames \in Seq(Call)
    BY DEF ResolverInv, ResolverTypes, Call
  <2>2. QED BY <1>1, <2>1
<1>3. Top.unit \in DOMAIN resolved /\ Top.todo \in Seq(Ref) /\ RefsIn(Top.todo) \subseteq Needs(Top.unit)
  BY <1>1, <1>2 DEF ResolverInv, PathInv, Top, Call
<1>4. ASSUME Working
      PROVE  Head(Top.todo) \in Needs(Top.unit) /\ Head(Top.todo) \in Ref /\ Tail(Top.todo) \in Seq(Ref)
  <2>1. Top.todo # <<>>
    BY <1>4 DEF Working
  <2>2. QED BY <1>3, <2>1, HeadAndTail
<1>5. QED BY <1>1, <1>3, <1>4 DEF Pinned

LEMMA StackAdvances ==
  ASSUME ResolverInv, Working, NEW fs, fs = Advanced
  PROVE  /\ fs \in Seq(Call) /\ Len(fs) = Len(frames)
         /\ \A k \in 1..Len(frames) :
               /\ fs[k].unit = frames[k].unit
               /\ fs[k].todo = IF k = Len(frames) THEN Tail(Top.todo) ELSE frames[k].todo
<1> DEFINE n == Len(frames)
<1>1. /\ n \in 1..n /\ frames \in Seq(Call) /\ frames[n] \in Call /\ Tail(Top.todo) \in Seq(Ref)
  <2>1. frames \in Seq(Call)
    BY DEF ResolverInv, ResolverTypes
  <2>2. n \in 1..n /\ Tail(Top.todo) \in Seq(Ref)
    BY TopOfStack DEF Working
  <2>3. QED BY <2>1, <2>2
<1>2. fs = [frames EXCEPT ![n] = [frames[n] EXCEPT !.todo = Tail(frames[n].todo)]]
  BY DEF Advanced
<1>3. PICK call : call = [frames[n] EXCEPT !.todo = Tail(frames[n].todo)]
  OBVIOUS
<1>4. call \in Call /\ call.unit = frames[n].unit /\ call.todo = Tail(Top.todo)
  BY <1>1, <1>3 DEF Top, Call
<1>5. fs \in Seq(Call) /\ Len(fs) = n
  BY <1>1, <1>2, <1>3, <1>4
<1>6. \A k \in 1..n : fs[k] = IF k = n THEN call ELSE frames[k]
  BY <1>1, <1>2, <1>3
<1>7. QED BY <1>4, <1>5, <1>6

LEMMA AskStep ==
  ASSUME ResolverInv, Ask
  PROVE  ResolverInv'
<1> DEFINE u == Head(Top.todo).unit
<1>1. PICK offered \in Offers : u \notin DOMAIN listed /\ listed' = Extend(listed, u, offered)
  BY DEF Ask
<1>2. UNCHANGED <<depends, resolved, frames, verdict>> /\ verdict = "running"
  BY DEF Ask, Working
<1>3. u \in Units
  BY <1>2, TopOfStack DEF Ask, Ref
<1> HIDE DEF u
<1>4. /\ DOMAIN listed' = DOMAIN listed \cup {u} /\ listed'[u] = offered
      /\ \A x \in DOMAIN listed : listed'[x] = listed[x]
  BY <1>1 DEF Extend
<1>5. \A ref : Met(ref) => Met(ref)'
  BY <1>2, <1>4 DEF Met, Matching
<1>6. ResolverTypes'
  BY <1>1, <1>2, <1>3, <1>4 DEF ResolverInv, ResolverTypes, Pinned
<1>7. Finished' = Finished /\ \A x : Needs(x)' = Needs(x)
  BY <1>2 DEF Finished, OnPath, Needs
<1>8. PathInv'
  BY <1>2, <1>5, <1>7 DEF ResolverInv, PathInv
<1>9. FinishedInv' /\ NeededInv'
  BY <1>2, <1>5, <1>7 DEF ResolverInv, FinishedInv, NeededInv
<1>10. QED BY <1>2, <1>6, <1>8, <1>9 DEF ResolverInv, RefusedForAFlaw

LEMMA LeaveStep ==
  ASSUME ResolverInv, Leave
  PROVE  ResolverInv'
<1> DEFINE n == Len(frames)
<1>1. /\ verdict = "running" /\ Top.todo = <<>> /\ UNCHANGED <<listed, depends, resolved>>
      /\ verdict' = IF n = 1 THEN "locked" ELSE verdict
      /\ frames' = SubSeq(frames, 1, n - 1)
  BY DEF Leave, Below1
<1>2. n \in Nat /\ n \in 1..n /\ Top.unit \in DOMAIN resolved /\ Top = frames[n]
  BY <1>1, TopOfStack DEF Top
<1>3. frames' \in Seq(Call) /\ Len(frames') = n - 1 /\ \A k \in 1..(n - 1) : frames'[k] = frames[k]
  <2>1. frames \in Seq(Call)
    BY DEF ResolverInv, ResolverTypes
  <2>2. (\A i \in 1..(n - 1) : frames[i] \in Call) /\ 1 \in Int /\ n - 1 \in Int
    BY <1>2, <2>1
  <2>3. /\ SubSeq(frames, 1, n - 1) \in Seq(Call)
        /\ Len(SubSeq(frames, 1, n - 1)) = IF 1 <= n - 1 THEN (n - 1) - 1 + 1 ELSE 0
        /\ \A i \in 1..((n - 1) - 1 + 1) : SubSeq(frames, 1, n - 1)[i] = frames[1 + i - 1]
    BY <2>2, SubSeqProperties
  <2>4. n = 1 \/ 1 <= n - 1
    <3>1. \A m \in Nat : m \in 1..m => m = 1 \/ 1 <= m - 1
      OBVIOUS
    <3>2. QED BY <1>2, <3>1
  <2>5. QED BY <1>1, <1>2, <2>3, <2>4
<1>4. ResolverTypes'
  BY <1>1, <1>3 DEF ResolverInv, ResolverTypes, Pinned
<1>5. (\A ref : Met(ref)' = Met(ref)) /\ \A x : Needs(x)' = Needs(x)
  BY <1>1 DEF Met, Matching, Needs
<1>6. Finished' = Finished \cup {Top.unit}
  <2>1. \A k \in 1..n : frames[k].unit = Top.unit => k = n
    BY <1>2 DEF ResolverInv, PathInv
  <2>2. \A u : OnPath(u)' <=> OnPath(u) /\ u # Top.unit
    <3>1. \A k \in 1..n : k = n \/ k \in 1..(n - 1)
      BY <1>2
    <3>2. 1..(n - 1) \subseteq 1..n /\ n \notin 1..(n - 1)
      BY <1>2
    <3>3. QED BY <1>2, <1>3, <2>1, <3>1, <3>2 DEF OnPath
  <2>3. QED BY <1>1, <1>2, <2>2 DEF Finished
<1>7. \A ref \in Needs(Top.unit) : Met(ref) /\ ref.unit \in Finished
  <2>1. RefsIn(Top.todo) = {}
    BY <1>1 DEF RefsIn
  <2>2. QED BY <1>2, <2>1 DEF ResolverInv, PathInv
<1>8. Top.unit \notin Finished
  BY <1>2 DEF Finished, OnPath
<1>9. FinishedInv'
  <2>1. \A u \in Finished' : \A ref \in Needs(u) : Met(ref) /\ ref.unit \in Finished
    BY <1>6, <1>7 DEF ResolverInv, FinishedInv
  <2>2. ASSUME NEW S \in SUBSET Finished', S # {}
        PROVE  \E u \in S : \A ref \in Needs(u) : ref.unit \notin S
    <3>1. CASE S \ {Top.unit} = {}
      <4>1. Top.unit \in S
        BY <2>2, <3>1
      <4>2. QED BY <1>7, <1>8, <3>1, <4>1
    <3>2. CASE S \ {Top.unit} # {}
      <4>1. S \ {Top.unit} \in SUBSET Finished
        BY <1>6
      <4>2. PICK u \in S \ {Top.unit} : \A ref \in Needs(u) : ref.unit \notin S \ {Top.unit}
        BY <3>2, <4>1 DEF ResolverInv, FinishedInv
      <4>3. \A ref \in Needs(u) : ref.unit # Top.unit
        BY <1>6, <1>8, <2>1, <4>2
      <4>4. QED BY <4>2, <4>3
    <3>3. QED BY <3>1, <3>2
  <2>3. QED BY <1>5, <1>6, <2>1, <2>2 DEF FinishedInv
<1>10. NeededInv'
  BY <1>1, <1>5 DEF ResolverInv, NeededInv
<1>11. PathInv'
  <2>1. verdict' = "running" => Len(frames') > 0 /\ frames'[1].unit = Root
    BY <1>1, <1>2, <1>3 DEF ResolverInv, PathInv
  <2>2. ASSUME NEW k \in 1..Len(frames')
        PROVE  /\ frames'[k].unit \in DOMAIN resolved
               /\ \A j \in 1..Len(frames') : frames'[j].unit = frames'[k].unit => j = k
               /\ RefsIn(frames'[k].todo) \subseteq Needs(frames'[k].unit)
    <3>1. k \in 1..n /\ 1..Len(frames') \subseteq 1..n
      BY <1>2, <1>3
    <3>2. \A j \in 1..Len(frames') : frames'[j] = frames[j]
      BY <1>3
    <3>3. QED BY <3>1, <3>2 DEF ResolverInv, PathInv
  <2>3. ASSUME NEW k \in 1..Len(frames'), NEW ref \in Needs(frames'[k].unit)
        PROVE  \/ ref \in RefsIn(frames'[k].todo)
               \/ Met(ref) /\ ref.unit \in Finished'
               \/ Met(ref) /\ k < Len(frames') /\ ref.unit = frames'[k + 1].unit
    <3>1. k \in 1..n /\ frames'[k] = frames[k] /\ (k + 1 = n \/ (k + 1 \in 1..(n - 1) /\ k < n - 1))
      BY <1>2, <1>3
    <3>2. \/ ref \in RefsIn(frames[k].todo)
          \/ Met(ref) /\ ref.unit \in Finished
          \/ Met(ref) /\ k < n /\ ref.unit = frames[k + 1].unit
      BY <2>3, <3>1 DEF ResolverInv, PathInv
    <3>3. QED BY <1>2, <1>3, <1>6, <3>1, <3>2
  <2>4. ASSUME NEW k \in 1..Len(frames'), k < Len(frames')
        PROVE  \E ref \in Needs(frames'[k].unit) : ref.unit = frames'[k + 1].unit
    <3>1. k \in 1..n /\ k < n /\ frames'[k] = frames[k] /\ frames'[k + 1] = frames[k + 1]
      BY <1>2, <1>3, <2>4
    <3>2. QED BY <3>1 DEF ResolverInv, PathInv
  <2>5. QED BY <1>1, <1>5, <2>1, <2>2, <2>3, <2>4 DEF PathInv
<1>12. verdict' = "locked" => frames' = <<>>
  <2>1. ASSUME n = 1 PROVE frames' = <<>>
    BY <1>3, <2>1
  <2>2. QED BY <1>1, <2>1
<1>13. RefusedForAFlaw'
  BY <1>1 DEF RefusedForAFlaw
<1>14. QED BY <1>4, <1>9, <1>10, <1>11, <1>12, <1>13 DEF ResolverInv

LEMMA RaiseStep ==
  ASSUME ResolverInv, verdict = "running", NEW why, why # "locked", why # "running", Raise(why),
         RefusedForAFlaw'
  PROVE  ResolverInv'
<1>1. verdict' = why /\ UNCHANGED <<listed, depends, resolved, frames>>
  BY DEF Raise
<1>2. /\ Finished' = Finished /\ (\A ref : Met(ref)' = Met(ref)) /\ \A x : Needs(x)' = Needs(x)
  BY <1>1 DEF Finished, OnPath, Met, Matching, Needs
<1>3. ResolverTypes'
  BY <1>1 DEF ResolverInv, ResolverTypes, Pinned
<1>4. PathInv'
  BY <1>1, <1>2 DEF ResolverInv, PathInv
<1>5. FinishedInv' /\ NeededInv'
  BY <1>1, <1>2 DEF ResolverInv, FinishedInv, NeededInv
<1>6. QED BY <1>1, <1>3, <1>4, <1>5 DEF ResolverInv

\* What a pinned unit needs is what the list of its candidate says.
LEMMA NeedsAreRefs ==
  ASSUME ResolverTypes, NEW u \in DOMAIN resolved
  PROVE  /\ <<u, resolved[u]>> \in DOMAIN depends /\ Needs(u) = RefsOf(<<u, resolved[u]>>)
         /\ Needs(u) \subseteq Ref
<1>1. <<u, resolved[u]>> \in DOMAIN depends /\ depends[<<u, resolved[u]>>] \in Seq(Ref)
  BY ResolverAssumption DEF ResolverTypes, Pinned
<1> DEFINE list == depends[<<u, resolved[u]>>]
<1>2. Needs(u) = {list[i] : i \in 1 .. Len(list)} /\ RefsOf(<<u, resolved[u]>>) = {list[i] : i \in DOMAIN list}
  BY DEF Needs, RefsIn, RefsOf
<1> HIDE DEF list
<1>3. list \in Seq(Ref)
  BY <1>1 DEF list
<1>4. DOMAIN list = 1 .. Len(list) /\ \A i \in 1 .. Len(list) : list[i] \in Ref
  BY <1>3
<1>5. QED BY <1>1, <1>2, <1>4

LEMMA NoMatchStep ==
  ASSUME ResolverInv, Working, Head(Top.todo).unit \in DOMAIN listed, NoMatch(Head(Top.todo))
  PROVE  ResolverInv'
<1>1. PICK why \in {"unknown", "unsatisfied"} : Raise(why)
  BY DEF NoMatch
<1>2. verdict' = why /\ UNCHANGED <<listed, depends, resolved, frames>>
  BY <1>1 DEF Raise
<1>3. PICK ref, c : ref = Head(Top.todo) /\ c = <<Top.unit, resolved[Top.unit]>>
  OBVIOUS
<1>4. ref \in RefsOf(c) /\ c \in DOMAIN depends /\ ref \in Ref
  BY <1>3, TopOfStack, NeedsAreRefs DEF Working, ResolverInv
<1>5. ref.unit \in DOMAIN listed /\ \A v \in listed[ref.unit] : ~Compatible(ref, v)
  <2>1. ref.unit \in DOMAIN listed /\ listed[ref.unit] \subseteq Version
    BY <1>3, ResolverAssumption DEF ResolverInv, ResolverTypes
  <2>2. Matching(ref, listed[ref.unit]) = {}
    BY <1>3 DEF NoMatch
  <2>3. QED BY <1>4, <2>1, <2>2, SatisfiesIsCompatible DEF Matching
<1>6. RefusedForAFlaw'
  <2>1. RefsOf(c)' = RefsOf(c)
    BY <1>2 DEF RefsOf
  <2>2. \E d \in DOMAIN depends' : \E r \in RefsOf(d)' :
             r.unit \in DOMAIN listed' /\ \A v \in listed'[r.unit] : ~Compatible(r, v)
    BY <1>2, <1>4, <1>5, <2>1
  <2>3. QED BY <2>2 DEF RefusedForAFlaw
<1>7. QED BY <1>1, <1>6, RaiseStep DEF Working

LEMMA CycleStep ==
  ASSUME ResolverInv, Working, Cycle(Head(Top.todo))
  PROVE  ResolverInv'
<1> DEFINE n == Len(frames)
<1>1. PICK ref : ref = Head(Top.todo)
  OBVIOUS
<1>2. Raise("cycle") /\ verdict' = "cycle" /\ UNCHANGED <<listed, depends, resolved, frames>>
  BY DEF Cycle, Raise
<1>3. PICK k \in 1..n : frames[k].unit = ref.unit
  BY <1>1 DEF Cycle, OnPath
<1>4. n \in Nat /\ n \in 1..n /\ Top = frames[n] /\ ref \in Needs(Top.unit)
  BY <1>1, TopOfStack DEF Working, Top
<1>5. \A u, w \in DOMAIN resolved : (\E r \in Needs(u) : r.unit = w) => Requires(u, w)
  BY NeedsAreRefs DEF ResolverInv, Requires
<1>6. PICK S : S = {frames[j].unit : j \in k..n}
  OBVIOUS
<1>7. S \in SUBSET DOMAIN resolved /\ S # {}
  <2>1. k..n \subseteq 1..n /\ k \in k..n
    BY <1>3, <1>4
  <2>2. QED BY <1>6, <2>1 DEF ResolverInv, PathInv
<1>8. ASSUME NEW u \in S PROVE \E w \in S : Requires(w, u)
  <2>1. PICK j \in k..n : u = frames[j].unit
    BY <1>6
  <2>2. CASE j = k
    <3>1. Top.unit \in S
      BY <1>3, <1>4, <1>6
    <3>2. QED BY <1>3, <1>4, <1>5, <1>7, <2>1, <2>2, <3>1
  <2>3. CASE j # k
    <3>1. j - 1 \in k..n /\ j - 1 \in 1..n /\ j - 1 < n /\ (j - 1) + 1 = j
      BY <1>3, <1>4, <2>3
    <3>2. \E r \in Needs(frames[j - 1].unit) : r.unit = frames[j].unit
      BY <3>1 DEF ResolverInv, PathInv
    <3>3. frames[j - 1].unit \in S
      BY <1>6, <3>1
    <3>4. QED BY <1>5, <1>7, <2>1, <3>2, <3>3
  <2>4. QED BY <2>2, <2>3
<1>9. RefusedForAFlaw'
  <2>1. \A u, w : Requires(u, w)' = Requires(u, w)
    BY <1>2 DEF Requires, RefsOf
  <2>2. \E T \in SUBSET DOMAIN resolved' : T # {} /\ \A u \in T : \E w \in T : Requires(w, u)'
    BY <1>2, <1>7, <1>8, <2>1
  <2>3. QED BY <2>2 DEF RefusedForAFlaw
<1>10. QED BY <1>2, <1>9, RaiseStep DEF Working

\* A constraint on a unit that is pinned, and not by a call under way.
LEMMA KnownStep ==
  ASSUME ResolverInv, Working, Head(Top.todo).unit \in DOMAIN listed,
         Matching(Head(Top.todo), listed[Head(Top.todo).unit]) # {}, ~OnPath(Head(Top.todo).unit),
         Known(Head(Top.todo), Select(Head(Top.todo), listed[Head(Top.todo).unit]))
  PROVE  ResolverInv'
<1> DEFINE n == Len(frames)
<1>1. PICK ref : ref = Head(Top.todo)
  OBVIOUS
<1>2. /\ ref.unit \in DOMAIN listed /\ ref.unit \in DOMAIN resolved /\ ~OnPath(ref.unit)
      /\ Matching(ref, listed[ref.unit]) # {} /\ verdict = "running"
  BY <1>1 DEF Known, Working
<1>3. /\ n \in Nat /\ n \in 1..n /\ Top = frames[n] /\ ref \in Needs(Top.unit) /\ ref \in Ref
      /\ Top.todo \in Seq(Ref) /\ Top.todo # <<>> /\ Top.unit \in DOMAIN resolved
  BY <1>1, <1>2, TopOfStack DEF Working, Top
<1>4. CASE /\ resolved[ref.unit] = Select(ref, listed[ref.unit])
           /\ frames' = Advanced /\ UNCHANGED <<listed, depends, resolved, verdict>>
  <2>1. /\ frames' \in Seq(Call) /\ Len(frames') = n
        /\ \A k \in 1..n : /\ frames'[k].unit = frames[k].unit
                            /\ frames'[k].todo = IF k = n THEN Tail(Top.todo) ELSE frames[k].todo
    BY <1>4, StackAdvances
  <2>2. /\ Finished' = Finished /\ (\A r : Met(r)' = Met(r)) /\ \A x : Needs(x)' = Needs(x)
    <3>1. \A x : OnPath(x)' = OnPath(x)
      BY <2>1 DEF OnPath
    <3>2. Finished' = Finished
      BY <1>4, <3>1 DEF Finished
    <3>3. \A r : Met(r)' = Met(r)
      BY <1>4 DEF Met, Matching
    <3>4. \A x : Needs(x)' = Needs(x)
      BY <1>4 DEF Needs
    <3>5. QED BY <3>2, <3>3, <3>4
  <2>3. Met(ref) /\ ref.unit \in Finished
    BY <1>2, <1>4 DEF Met, Finished
  <2>4. ResolverTypes'
    BY <1>4, <2>1 DEF ResolverInv, ResolverTypes, Pinned
  <2>5. PathInv'
    <3>1. verdict' = "running" => Len(frames') > 0 /\ frames'[1].unit = Root
      BY <1>2, <1>3, <2>1 DEF ResolverInv, PathInv
    <3>2. ASSUME NEW k \in 1..Len(frames')
          PROVE  /\ frames'[k].unit \in DOMAIN resolved
                 /\ \A j \in 1..Len(frames') : frames'[j].unit = frames'[k].unit => j = k
                 /\ k < Len(frames') => \E r \in Needs(frames'[k].unit) : r.unit = frames'[k + 1].unit
      <4>1. k < n => k + 1 \in 1..n
        BY <1>3, <2>1
      <4>2. k \in 1..n /\ frames'[k].unit = frames[k].unit
        BY <2>1
      <4>3. frames'[k].unit \in DOMAIN resolved
        BY <4>2 DEF ResolverInv, PathInv
      <4>4. \A j \in 1..Len(frames') : frames'[j].unit = frames'[k].unit => j = k
        BY <2>1, <4>2 DEF ResolverInv, PathInv
      <4>5. ASSUME k < Len(frames')
            PROVE  \E r \in Needs(frames'[k].unit) : r.unit = frames'[k + 1].unit
        <5>1. PICK r \in Needs(frames[k].unit) : r.unit = frames[k + 1].unit
          BY <2>1, <4>2, <4>5 DEF ResolverInv, PathInv
        <5>2. frames'[k + 1].unit = frames[k + 1].unit
          BY <2>1, <4>1, <4>5
        <5>3. QED BY <4>2, <5>1, <5>2
      <4>6. QED BY <4>3, <4>4, <4>5
    <3>3. ASSUME NEW k \in 1..Len(frames')
          PROVE  /\ RefsIn(frames'[k].todo) \subseteq RefsIn(frames[k].todo)
                 /\ \A r \in RefsIn(frames[k].todo) :
                       r \in RefsIn(frames'[k].todo) \/ (k = n /\ r = ref)
      BY <1>1, <1>3, <2>1, HeadAndTail
    <3>4. ASSUME NEW k \in 1..Len(frames')
          PROVE  RefsIn(frames'[k].todo) \subseteq Needs(frames'[k].unit)
      BY <2>1, <3>3 DEF ResolverInv, PathInv
    <3>5. ASSUME NEW k \in 1..Len(frames'), NEW r \in Needs(frames'[k].unit)
          PROVE  \/ r \in RefsIn(frames'[k].todo)
                 \/ Met(r) /\ r.unit \in Finished
                 \/ Met(r) /\ k < Len(frames') /\ r.unit = frames'[k + 1].unit
      <4>1. k < n => k + 1 \in 1..n
        BY <1>3, <2>1
      <4>2. \/ r \in RefsIn(frames[k].todo)
            \/ Met(r) /\ r.unit \in Finished
            \/ Met(r) /\ k < n /\ r.unit = frames[k + 1].unit
        BY <2>1, <3>5 DEF ResolverInv, PathInv
      <4>3. QED BY <2>1, <2>3, <3>3, <4>1, <4>2
    <3>6. QED BY <1>4, <2>2, <3>1, <3>2, <3>4, <3>5 DEF PathInv
  <2>6. FinishedInv' /\ NeededInv'
    BY <1>4, <2>2 DEF ResolverInv, FinishedInv, NeededInv
  <2>7. RefusedForAFlaw'
    BY <1>2, <1>4 DEF RefusedForAFlaw
  <2>8. QED BY <1>2, <1>4, <2>4, <2>5, <2>6, <2>7 DEF ResolverInv
<1>5. CASE resolved[ref.unit] # Select(ref, listed[ref.unit]) /\ Raise("conflict")
  <2>1. verdict' = "conflict" /\ UNCHANGED <<listed, depends, resolved, frames>>
    BY <1>5 DEF Raise
  <2>2. ref.unit # Root
    <3>1. 1 \in 1..n /\ frames[1].unit = Root
      BY <1>2, <1>3 DEF ResolverInv, PathInv
    <3>2. QED BY <1>2, <3>1 DEF OnPath
  <2>3. PICK u \in DOMAIN resolved : \E oth \in Needs(u) : oth.unit = ref.unit /\ Met(oth)
    BY <1>2, <2>2 DEF ResolverInv, NeededInv
  <2>4. PICK oth \in Needs(u) : oth.unit = ref.unit /\ Met(oth)
    BY <2>3
  <2>5. PICK c, d : c = <<Top.unit, resolved[Top.unit]>> /\ d = <<u, resolved[u]>>
    OBVIOUS
  <2>6. c \in DOMAIN depends /\ ref \in RefsOf(c) /\ d \in DOMAIN depends /\ oth \in RefsOf(d)
    BY <1>3, <2>4, <2>5, NeedsAreRefs DEF ResolverInv
  <2>7. Select(ref, listed[ref.unit]) # Select(oth, listed[ref.unit])
    BY <1>5, <2>4 DEF Met
  <2>8. RefsOf(c)' = RefsOf(c) /\ RefsOf(d)' = RefsOf(d)
    BY <2>1 DEF RefsOf
  <2>9. \E x, y \in DOMAIN depends' : \E r \in RefsOf(x)', o \in RefsOf(y)' :
           /\ r.unit = o.unit /\ r.unit \in DOMAIN listed'
           /\ Select(r, listed'[r.unit]) # Select(o, listed'[r.unit])
    BY <1>2, <2>1, <2>4, <2>6, <2>7, <2>8
  <2>10. RefusedForAFlaw'
    BY <2>9 DEF RefusedForAFlaw
  <2>11. QED BY <1>2, <1>5, <2>10, RaiseStep
<1>6. QED BY <1>1, <1>4, <1>5 DEF Known, SameVersion

\* A constraint on a unit that the walk has not met.
LEMMA VisitStep ==
  ASSUME ResolverInv, Working, Head(Top.todo).unit \in DOMAIN listed,
         Matching(Head(Top.todo), listed[Head(Top.todo).unit]) # {},
         Visit(Head(Top.todo), Select(Head(Top.todo), listed[Head(Top.todo).unit]))
  PROVE  ResolverInv'
<1> DEFINE n == Len(frames)
<1>1. PICK ref, u, chosen, top, fs :
         /\ ref = Head(Top.todo) /\ u = ref.unit /\ chosen = Select(ref, listed[u])
         /\ top = Top.unit /\ fs = Advanced
  OBVIOUS
<1>2. PICK deps \in RefLists :
         /\ depends' = Extend(depends, <<u, chosen>>, deps)
         /\ frames' = Append(fs, [unit |-> u, todo |-> deps])
  BY <1>1 DEF Visit
<1>3. /\ u \notin DOMAIN resolved /\ resolved' = Extend(resolved, u, chosen)
      /\ UNCHANGED <<listed, verdict>> /\ verdict = "running"
      /\ u \in DOMAIN listed /\ Matching(ref, listed[u]) # {}
  BY <1>1 DEF Visit, Working
<1>4. /\ n \in Nat /\ n \in 1..n /\ Top = frames[n] /\ ref \in Needs(top) /\ ref \in Ref
      /\ u \in Units /\ Top.todo \in Seq(Ref) /\ Top.todo # <<>> /\ top \in DOMAIN resolved
  BY <1>1, <1>3, TopOfStack DEF Working, Top, Ref
<1>5. /\ fs \in Seq(Call) /\ Len(fs) = n
      /\ \A k \in 1..n : /\ fs[k].unit = frames[k].unit
                          /\ fs[k].todo = IF k = n THEN Tail(Top.todo) ELSE frames[k].todo
  BY <1>1, StackAdvances
<1>6. PICK call : call = [unit |-> u, todo |-> deps] /\ call \in Call /\ call.unit = u /\ call.todo = deps
  BY <1>2, <1>4, ResolverAssumption DEF Call
<1>7. /\ frames' \in Seq(Call) /\ Len(frames') = n + 1
      /\ \A k \in 1..(n + 1) : frames'[k] = IF k = n + 1 THEN call ELSE fs[k]
  BY <1>2, <1>4, <1>5, <1>6
<1>8. /\ DOMAIN resolved' = DOMAIN resolved \cup {u} /\ resolved'[u] = chosen
      /\ \A x \in DOMAIN resolved : resolved'[x] = resolved[x]
  BY <1>3 DEF Extend
<1>9. /\ DOMAIN depends' = DOMAIN depends \cup {<<u, chosen>>} /\ depends'[<<u, chosen>>] = deps
      /\ \A x \in DOMAIN resolved : depends'[<<x, resolved[x]>>] = depends[<<x, resolved[x]>>]
  <2>1. \A x \in DOMAIN resolved : /\ <<x, resolved[x]>> \in DOMAIN depends
                                  /\ <<x, resolved[x]>> # <<u, chosen>>
    BY <1>3 DEF ResolverInv, ResolverTypes, Pinned
  <2>2. QED BY <1>2, <2>1 DEF Extend
<1>10. (\A x \in DOMAIN resolved : Needs(x)' = Needs(x)) /\ Needs(u)' = RefsIn(deps)
  BY <1>8, <1>9 DEF Needs
<1>11. \A r : Met(r) => Met(r)'
  BY <1>3, <1>8 DEF Met, Matching
<1>12. Met(ref)'
  BY <1>1, <1>3, <1>8 DEF Met, Matching
<1>13. Finished' = Finished
  <2>1. (\A k \in 1..(n + 1) : k = n + 1 \/ k \in 1..n) /\ 1..n \subseteq 1..(n + 1)
        /\ n + 1 \in 1..(n + 1) /\ n + 1 \notin 1..n
    BY <1>4
  <2>2. \A x : OnPath(x)' <=> OnPath(x) \/ x = u
    <3>1. /\ \A k \in 1..n : frames'[k].unit = frames[k].unit
          /\ frames'[n + 1].unit = u
      BY <1>5, <1>6, <1>7, <2>1
    <3>2. \A x : OnPath(x)' <=> \E k \in 1..(n + 1) : frames'[k].unit = x
      BY <1>7 DEF OnPath
    <3>3. \A x : OnPath(x) <=> \E k \in 1..n : frames[k].unit = x
      BY DEF OnPath
    <3> HIDE DEF n
    <3>4. QED BY <2>1, <3>1, <3>2, <3>3
  <2>3. QED BY <1>3, <1>8, <2>2 DEF Finished
<1>14. ResolverTypes'
  <2>1. DOMAIN depends' = Pinned'
    BY <1>3, <1>8, <1>9 DEF ResolverInv, ResolverTypes, Pinned
  <2>2. \A c \in Pinned' : depends'[c] \in RefLists
    BY <1>8, <1>9 DEF ResolverInv, ResolverTypes, Pinned
  <2>3. QED BY <1>3, <1>4, <1>7, <1>8, <2>1, <2>2 DEF ResolverInv, ResolverTypes
<1>15. PathInv'
  <2>1. Len(frames') > 0 /\ frames'[1].unit = Root
    BY <1>3, <1>4, <1>5, <1>7 DEF ResolverInv, PathInv
  <2>2. ASSUME NEW k \in 1..n
        PROVE  /\ frames'[k].unit = frames[k].unit /\ frames[k].unit \in DOMAIN resolved
               /\ RefsIn(frames'[k].todo) \subseteq RefsIn(frames[k].todo)
               /\ \A r \in RefsIn(frames[k].todo) :
                     r \in RefsIn(frames'[k].todo) \/ (k = n /\ r = ref)
    <3>1. frames'[k] = fs[k]
      BY <1>4, <1>7
    <3>2. frames[k].unit \in DOMAIN resolved
      BY DEF ResolverInv, PathInv
    <3>3. QED BY <1>1, <1>4, <1>5, <3>1, <3>2, HeadAndTail
  <2>3. frames'[n + 1].unit = u /\ frames'[n + 1].todo = deps
    BY <1>4, <1>6, <1>7
  <2>4. \A k \in 1..(n + 1) : k = n + 1 \/ (k \in 1..n /\ k # n + 1 /\ (k < n => k + 1 \in 1..n) /\ (~(k < n) => k = n))
    BY <1>4
  <2>5. ASSUME NEW k \in 1..Len(frames')
        PROVE  /\ frames'[k].unit \in DOMAIN resolved'
               /\ \A j \in 1..Len(frames') : frames'[j].unit = frames'[k].unit => j = k
    <3>1. frames'[k].unit \in DOMAIN resolved'
      BY <1>7, <1>8, <2>2, <2>3, <2>4
    <3>2. \A j, i \in 1..n : frames[j].unit = frames[i].unit => j = i
      BY DEF ResolverInv, PathInv
    <3>3. QED BY <1>3, <1>7, <2>2, <2>3, <2>4, <3>1, <3>2
  <2>6. ASSUME NEW k \in 1..Len(frames'), NEW x, x = frames'[k].unit
        PROVE  RefsIn(frames'[k].todo) \subseteq Needs(x)'
    <3>1. CASE k = n + 1
      BY <1>10, <2>3, <2>6, <3>1
    <3>2. CASE k \in 1..n
      <4>1. x = frames[k].unit /\ x \in DOMAIN resolved
        BY <2>2, <2>6, <3>2
      <4>2. RefsIn(frames[k].todo) \subseteq Needs(x)
        BY <3>2, <4>1 DEF ResolverInv, PathInv
      <4>3. QED BY <1>10, <2>2, <3>2, <4>1, <4>2
    <3>3. QED BY <1>7, <2>4, <3>1, <3>2
  <2>7. ASSUME NEW k \in 1..Len(frames'), NEW x, x = frames'[k].unit, NEW r \in Needs(x)'
        PROVE  \/ r \in RefsIn(frames'[k].todo)
               \/ Met(r)' /\ r.unit \in Finished'
               \/ Met(r)' /\ k < Len(frames') /\ r.unit = frames'[k + 1].unit
    <3>1. CASE k = n + 1
      BY <1>10, <2>3, <2>7, <3>1
    <3>2. CASE k \in 1..n
      <4>1. x = frames[k].unit /\ x \in DOMAIN resolved /\ r \in Needs(x)
        BY <1>10, <2>2, <2>7, <3>2
      <4>2. \/ r \in RefsIn(frames[k].todo)
            \/ Met(r) /\ r.unit \in Finished
            \/ Met(r) /\ k < n /\ r.unit = frames[k + 1].unit
        BY <3>2, <4>1 DEF ResolverInv, PathInv
      <4>3. CASE r \in RefsIn(frames[k].todo)
        <5>1. r \in RefsIn(frames'[k].todo) \/ (k = n /\ r = ref)
          BY <2>2, <3>2, <4>3
        <5>2. k = n => k < Len(frames') /\ frames'[k + 1].unit = u
          BY <1>4, <1>7, <2>3
        <5>3. QED BY <1>1, <1>12, <5>1, <5>2
      <4>4. CASE Met(r) /\ r.unit \in Finished
        BY <1>11, <1>13, <4>4
      <4>5. CASE Met(r) /\ k < n /\ r.unit = frames[k + 1].unit
        <5>1. k + 1 \in 1..n /\ k < Len(frames')
          BY <1>4, <1>7, <4>5
        <5>2. frames'[k + 1].unit = frames[k + 1].unit
          BY <2>2, <5>1
        <5>3. QED BY <1>11, <4>5, <5>1, <5>2
      <4>6. QED BY <4>2, <4>3, <4>4, <4>5
    <3>3. QED BY <1>7, <2>4, <3>1, <3>2
  <2>8. ASSUME NEW k \in 1..Len(frames'), NEW x, x = frames'[k].unit, k < Len(frames')
        PROVE  \E r \in Needs(x)' : r.unit = frames'[k + 1].unit
    <3>1. k \in 1..n
      BY <1>4, <1>7, <2>8
    <3>2. x = frames[k].unit /\ x \in DOMAIN resolved
      BY <2>2, <2>8, <3>1
    <3>3. CASE k = n
      BY <1>1, <1>4, <1>10, <2>3, <3>2, <3>3
    <3>4. CASE k < n
      <4>1. k + 1 \in 1..n
        BY <1>4, <3>1, <3>4
      <4>2. frames'[k + 1].unit = frames[k + 1].unit
        BY <2>2, <4>1
      <4>3. \E r \in Needs(x) : r.unit = frames[k + 1].unit
        BY <3>1, <3>2, <3>4 DEF ResolverInv, PathInv
      <4>4. QED BY <1>10, <3>2, <4>2, <4>3
    <3>5. QED BY <1>4, <3>1, <3>3, <3>4
  <2>9. QED BY <2>1, <2>5, <2>6, <2>7, <2>8 DEF PathInv
<1>16. FinishedInv'
  <2>1. Finished \subseteq DOMAIN resolved
    BY DEF Finished
  <2>2. \A x \in Finished : \A r \in Needs(x)' : Met(r)' /\ r.unit \in Finished
    BY <1>10, <1>11, <2>1 DEF ResolverInv, FinishedInv
  <2>3. ASSUME NEW S \in SUBSET Finished, S # {}
        PROVE  \E x \in S : \A r \in Needs(x)' : r.unit \notin S
    BY <1>10, <2>1, <2>3 DEF ResolverInv, FinishedInv
  <2>4. QED BY <1>13, <2>2, <2>3 DEF FinishedInv
<1>17. NeededInv'
  <2>1. ASSUME NEW S \in SUBSET DOMAIN resolved', Root \in S,
               \A x \in S : \A r \in Needs(x)' : r.unit \in DOMAIN resolved' => r.unit \in S
        PROVE  S = DOMAIN resolved'
    <3>1. PICK T : T = S \ {u}
      OBVIOUS
    <3>2. T \in SUBSET DOMAIN resolved /\ Root \in T
      BY <1>3, <1>8, <2>1, <3>1 DEF ResolverInv, ResolverTypes
    <3>3. \A x \in T : \A r \in Needs(x) : r.unit \in DOMAIN resolved => r.unit \in T
      BY <1>3, <1>8, <1>10, <2>1, <3>1, <3>2
    <3>4. T = DOMAIN resolved
      BY <3>2, <3>3 DEF ResolverInv, NeededInv
    <3>5. u \in S
      <4>1. top \in S /\ ref \in Needs(top)' /\ ref.unit = u
        BY <1>1, <1>4, <1>10, <3>1, <3>4
      <4>2. QED BY <1>8, <2>1, <4>1
    <3>6. QED BY <1>8, <3>1, <3>4, <3>5
  <2>2. ASSUME NEW w \in DOMAIN resolved' \ {Root}
        PROVE  \E x \in DOMAIN resolved' : \E r \in Needs(x)' : r.unit = w /\ Met(r)'
    <3>1. CASE w = u
      <4>1. top \in DOMAIN resolved' /\ ref \in Needs(top)' /\ ref.unit = u
        BY <1>1, <1>4, <1>8, <1>10
      <4>2. QED BY <1>12, <3>1, <4>1
    <3>2. CASE w # u
      <4>1. w \in DOMAIN resolved \ {Root}
        BY <1>8, <2>2, <3>2
      <4>2. PICK x \in DOMAIN resolved : \E r \in Needs(x) : r.unit = w /\ Met(r)
        BY <4>1 DEF ResolverInv, NeededInv
      <4>3. QED BY <1>8, <1>10, <1>11, <4>2
    <3>3. QED BY <3>1, <3>2
  <2>3. QED BY <2>1, <2>2 DEF NeededInv
<1>18. QED BY <1>3, <1>14, <1>15, <1>16, <1>17 DEF ResolverInv, RefusedForAFlaw
----------------------------------------------------------------------------
LEMMA ResolverInvInit == ResolverInit => ResolverInv
<1> SUFFICES ASSUME ResolverInit PROVE ResolverInv
  OBVIOUS
<1>1. PICK deps \in RefLists :
         /\ depends = Extend(<<>>, <<Root, RootVersion>>, deps)
         /\ frames = <<[unit |-> Root, todo |-> deps]>>
  BY DEF ResolverInit
<1>2. listed = <<>> /\ verdict = "running" /\ resolved = Extend(<<>>, Root, RootVersion)
  BY DEF ResolverInit
<1>3. DOMAIN resolved = {Root} /\ resolved[Root] = RootVersion /\ DOMAIN listed = {}
  BY <1>2 DEF Extend
<1>4. DOMAIN depends = {<<Root, RootVersion>>} /\ depends[<<Root, RootVersion>>] = deps
  BY <1>1 DEF Extend
<1>5. /\ frames \in Seq(Call) /\ Len(frames) = 1 /\ frames[1].unit = Root /\ frames[1].todo = deps
  <2>1. [unit |-> Root, todo |-> deps] \in Call
    BY ResolverAssumption DEF Call
  <2>2. QED BY <1>1, <2>1
<1>6. Needs(Root) = RefsIn(deps)
  BY <1>3, <1>4 DEF Needs
<1>7. OnPath(Root) /\ Finished = {}
  BY <1>3, <1>5 DEF OnPath, Finished
<1>8. ResolverTypes
  BY <1>3, <1>4, <1>5, ResolverAssumption DEF ResolverTypes, Pinned
<1>9. PathInv
  BY <1>3, <1>5, <1>6 DEF PathInv
<1>10. FinishedInv /\ NeededInv
  BY <1>3, <1>7 DEF FinishedInv, NeededInv
<1>11. QED BY <1>2, <1>8, <1>9, <1>10 DEF ResolverInv, RefusedForAFlaw

LEMMA ResolverInvStep == ResolverInv /\ [ResolverNext]_resolverVars => ResolverInv'
<1> SUFFICES ASSUME ResolverInv, [ResolverNext]_resolverVars PROVE ResolverInv'
  OBVIOUS
<1>1. CASE UNCHANGED resolverVars
  <2>1. UNCHANGED <<listed, depends, resolved, frames, verdict>>
    BY <1>1 DEF resolverVars
  <2>2. /\ Finished' = Finished /\ (\A ref : Met(ref)' = Met(ref)) /\ \A x : Needs(x)' = Needs(x)
    BY <2>1 DEF Finished, OnPath, Met, Matching, Needs
  <2>3. ResolverTypes'
    BY <2>1 DEF ResolverInv, ResolverTypes, Pinned
  <2>4. PathInv'
    BY <2>1, <2>2 DEF ResolverInv, PathInv
  <2>5. FinishedInv' /\ NeededInv'
    BY <2>1, <2>2 DEF ResolverInv, FinishedInv, NeededInv
  <2>6. RefusedForAFlaw' = RefusedForAFlaw
    BY <2>1 DEF RefusedForAFlaw, RefsOf, Requires
  <2>7. QED BY <2>1, <2>3, <2>4, <2>5, <2>6 DEF ResolverInv
<1>2. CASE Dependency
  BY <1>2, NoMatchStep, CycleStep, KnownStep, VisitStep DEF Dependency, Settle
<1>3. QED BY <1>1, <1>2, AskStep, LeaveStep DEF ResolverNext

LEMMA ResolverInvSuffices == ResolverInv => ResolutionIsRight
<1> SUFFICES ASSUME ResolverInv PROVE ResolutionIsRight
  OBVIOUS
<1>1. ASSUME verdict = "locked" PROVE Finished = DOMAIN resolved
  <2>1. 1..Len(frames) = {}
    BY <1>1 DEF ResolverInv
  <2>2. QED BY <2>1 DEF Finished, OnPath
<1>2. \A u \in DOMAIN resolved : /\ Needs(u) = RefsOf(<<u, resolved[u]>>) /\ Needs(u) \subseteq Ref
                                /\ \A w : Requires(u, w) <=> \E ref \in Needs(u) : ref.unit = w
  BY NeedsAreRefs DEF ResolverInv, Requires
<1>3. ASSUME verdict = "locked", NEW c \in Pinned, NEW ref \in RefsOf(c) PROVE Honoured(ref)
  <2>1. PICK u \in DOMAIN resolved : c = <<u, resolved[u]>>
    BY DEF Pinned
  <2>2. ref \in Needs(u) /\ ref \in Ref
    BY <1>2, <1>3, <2>1
  <2>3. Met(ref)
    BY <1>1, <1>3, <2>2 DEF ResolverInv, FinishedInv
  <2>4. QED BY <2>2, <2>3, MetIsHonoured DEF ResolverInv
<1>4. ASSUME verdict = "locked", NEW S \in SUBSET DOMAIN resolved, S # {}
      PROVE  \E u \in S : \A w \in S : ~Requires(u, w)
  <2>1. PICK u \in S : \A ref \in Needs(u) : ref.unit \notin S
    BY <1>1, <1>4 DEF ResolverInv, FinishedInv
  <2>2. u \in DOMAIN resolved
    BY <1>4, <2>1
  <2>3. \A w \in S : ~Requires(u, w)
    BY <1>2, <2>1, <2>2
  <2>4. QED BY <2>1, <2>3
<1>5. ASSUME NEW S \in SUBSET DOMAIN resolved, Root \in S,
             \A u \in S : \A w \in DOMAIN resolved : Requires(u, w) => w \in S
      PROVE  S = DOMAIN resolved
  <2>1. \A u \in S : \A ref \in Needs(u) : ref.unit \in DOMAIN resolved => ref.unit \in S
    BY <1>2, <1>5
  <2>2. QED BY <1>5, <2>1 DEF ResolverInv, NeededInv
<1>6. LockIsClosure
  BY <1>3, <1>4, <1>5 DEF LockIsClosure
<1>7. QED BY <1>6 DEF ResolverInv, ResolutionIsRight

\* Of any universe of units, versions and dependency lists, however deep: a lock file is the
\* closure of what the root needs, acyclic, with every constraint met at the highest version
\* that is offered, and resolve refuses only for a flaw that is there.
THEOREM ResolutionStaysRight == ResolverSpec => []ResolutionIsRight
<1>1. QED BY ResolverInvInit, ResolverInvStep, ResolverInvSuffices, PTL DEF ResolverSpec
----------------------------------------------------------------------------
(* Fanout                                                                   *)

Blown == {i \in Items : task[i] = "blown"}
Holders == {i \in Items : HoldsSlot(i)}

\* The row of a Run says what became of it, and only an interrupted batch drops one.
RowsFollow ==
    \A i \in Items :
        /\ row[i] = "running" <=> task[i] \in Active \cup {"dropped"}
        /\ row[i] = "done" <=> task[i] = "ok"
        /\ task[i] = "dropped" => phase = "raised"

\* The sequential loop has one Run at a time, and none once it has stopped.
OneInTurn ==
    slots = 1 => /\ \A i, j \in Items : task[i] \in Active /\ task[j] \in Active => i = j
                 /\ LoopStopped => \A i \in Items : task[i] \notin Active

\* Until the token is set the Runs are those of the items that were begun, in order, or
\* a run_factory has raised and left the list short from there.
InStep == \A i \in Items : task[i] = "ready" <=> i > Len(runs)
InOrder == Unmade(Len(runs) + 1) \/ (~token => InStep)

\* Who sleeps before a retry has an attempt left.
RetriesLeft == \A i \in Items : task[i] = "backoff" => CanRetry(i)

NoneActiveAtEnd == phase # "running" => \A i \in Items : task[i] \notin Active

FanoutInv ==
    /\ TypeOK /\ RetriesLeft /\ SpendBounded /\ RowsFollow /\ OneInTurn
    /\ InOrder /\ AnomaliesPointRight /\ NoneActiveAtEnd /\ AllOrNothing

LEMMA BlownFinite == IsFiniteSet(Blown) /\ Cardinality(Blown) \in Nat
<1>1. IsFiniteSet(Items)
  BY FanoutAssumption, FS_Interval DEF Items
<1>2. QED BY <1>1, FS_Subset, FS_CardinalityType DEF Blown

LEMMA HoldersFinite == IsFiniteSet(Holders) /\ Cardinality(Holders) \in Nat
<1>1. IsFiniteSet(Items)
  BY FanoutAssumption, FS_Interval DEF Items
<1>2. QED BY <1>1, FS_Subset, FS_CardinalityType DEF Holders

LEMMA FanoutInvInit == Init => FanoutInv
<1> SUFFICES ASSUME Init PROVE FanoutInv
  OBVIOUS
<1> USE FanoutAssumption DEF Init
<1>1. TypeOK
  <2>1. keepGoing \in BOOLEAN /\ token \in BOOLEAN
    BY Zenon
  <2>2. runs \in Seq(Items)
    OBVIOUS
  <2>3. QED BY <2>1, <2>2 DEF TypeOK
<1>2. SpendBounded
  <2>1. Blown = {}
    BY DEF Blown
  <2>2. MaxCost * Cardinality(Blown) = 0
    BY <2>1, FS_EmptySet, FanoutAssumption
  <2>3. QED BY <2>2, FanoutAssumption DEF SpendBounded, Blown
<1>3. /\ RetriesLeft /\ RowsFollow /\ OneInTurn /\ InOrder
      /\ AnomaliesPointRight /\ NoneActiveAtEnd /\ AllOrNothing
  BY DEF RetriesLeft, RowsFollow, OneInTurn, InOrder, InStep, AnomaliesPointRight,
     NoneActiveAtEnd, AllOrNothing, Active, Items
<1>4. QED BY <1>1, <1>2, <1>3 DEF FanoutInv

\* The ceiling, whatever the spend was before a call that ends its Run as blown.
LEMMA CeilingMoves ==
  ASSUME NEW b \in Nat, NEW s \in Nat, NEW c \in 0 .. MaxCost, s <= Limit + MaxCost * b
  PROVE  s + c <= Limit + MaxCost * (b + 1) /\ Limit <= Limit + MaxCost * b
<1>1. MaxCost * (b + 1) = MaxCost * b + MaxCost /\ MaxCost * b \in Nat
  BY FanoutAssumption
<1>2. QED BY <1>1, FanoutAssumption

\* A step of one active Run moves that Run only; the other tasks stay as they are.
MovesOnly(i) ==
    \E where \in {"call", "repair", "backoff", "failed", "blown", "ok"} :
    \E status \in {"running", "done", "failed"} :
        /\ task' = [task EXCEPT ![i] = where]
        /\ row' = [row EXCEPT ![i] = status]
        /\ status = "running" <=> where \in Active
        /\ status = "done" <=> where = "ok"

LEMMA ActiveStep ==
  ASSUME FanoutInv, NEW i \in Items, task[i] \in Active, MovesOnly(i),
         UNCHANGED <<config, runs, token, phase, outputs>>,
         attempt' \in [Items -> 1 .. MaxAttempts], RetriesLeft', spent' \in Nat, SpendBounded'
  PROVE  FanoutInv'
<1>1. PICK where \in {"call", "repair", "backoff", "failed", "blown", "ok"},
           status \in {"running", "done", "failed"} :
        /\ task' = [task EXCEPT ![i] = where]
        /\ row' = [row EXCEPT ![i] = status]
        /\ status = "running" <=> where \in Active
        /\ status = "done" <=> where = "ok"
  BY DEF MovesOnly
<1> USE DEF FanoutInv
<1>2. TypeOK'
  BY <1>1 DEF TypeOK, config, Active, Raised, Ended
<1>3. /\ \A j \in Items : task'[j] = (IF j = i THEN where ELSE task[j])
      /\ \A j \in Items : row'[j] = (IF j = i THEN status ELSE row[j])
  BY <1>1 DEF TypeOK
<1>4. RowsFollow'
  BY <1>1, <1>3 DEF RowsFollow, Active
<1>5. OneInTurn'
  <2>1. CASE slots = 1
    <3>1. \A j \in Items : task'[j] \in Active => j = i
      BY <1>3, <2>1 DEF OneInTurn
    <3>2. ~LoopStopped
      BY <2>1 DEF OneInTurn
    <3>3. LoopStopped' => task'[i] \in Raised
      BY <1>3, <2>1, <3>2 DEF LoopStopped, Parallel, config, Raised
    <3>4. QED BY <3>1, <3>3 DEF OneInTurn, Active, Raised
  <2>2. CASE slots # 1
    BY <2>2 DEF OneInTurn, config
  <2>3. QED BY <2>1, <2>2
<1>6. InOrder' /\ AnomaliesPointRight'
  <2>1. ASSUME NEW k, Unmade(k) PROVE Unmade(k)'
    BY <1>3, <2>1 DEF Unmade, Active
  <2>2. InStep => InStep'
    BY <1>1, <1>3 DEF InStep, Active
  <2>3. AnomaliesPointRight'
    BY <2>1 DEF AnomaliesPointRight
  <2>4. InOrder'
    BY <2>1, <2>2 DEF InOrder
  <2>5. QED BY <2>3, <2>4
<1>7. NoneActiveAtEnd' /\ AllOrNothing'
  BY DEF NoneActiveAtEnd, AllOrNothing
<1>8. QED BY <1>2, <1>4, <1>5, <1>6, <1>7

\* What the ways out of an attempt have in common.
LEMMA InvalidMoves ==
  ASSUME FanoutInv, NEW i \in Items, task[i] \in Active, NEW s, Invalid(i, s)
  PROVE  MovesOnly(i) /\ task'[i] # "blown"
<1>1. row[i] = "running" /\ row \in [Items -> {"none", "running", "done", "failed"}]
  BY DEF FanoutInv, TypeOK, RowsFollow
<1>2. ASSUME NEW where \in {"call", "repair", "backoff"}, GoOn(i, where)
      PROVE  MovesOnly(i) /\ task'[i] # "blown"
  <2>1. task' = [task EXCEPT ![i] = where] /\ row' = [row EXCEPT ![i] = "running"]
    BY <1>1, <1>2 DEF GoOn
  <2>2. QED BY <2>1 DEF MovesOnly, Active, FanoutInv, TypeOK
<1>3. ASSUME EndRun(i, "failed", "failed") PROVE MovesOnly(i) /\ task'[i] # "blown"
  BY <1>3 DEF EndRun, MovesOnly, Active, FanoutInv, TypeOK
<1>4. RetryOrFail(i) => MovesOnly(i) /\ task'[i] # "blown"
  BY <1>2, <1>3 DEF RetryOrFail
<1>5. CASE i \in Retried
  BY <1>4, <1>5, FanoutAssumption DEF Invalid
<1>6. CASE i \notin Retried
  BY <1>2, <1>3, <1>6 DEF Invalid
<1>7. QED BY <1>5, <1>6

LEMMA AnswerStep ==
  ASSUME FanoutInv, NEW i \in Items, Answer(i)
  PROVE  FanoutInv'
<1>1. PICK c \in 0 .. MaxCost :
        /\ spent' = spent + c
        /\ \/ spent + c > Limit /\ OverBudget(i)
           \/ spent + c <= Limit /\ EndRun(i, "ok", "done")
           \/ spent + c <= Limit /\ Invalid(i, spent + c)
  BY DEF Answer
<1>2. task[i] \in Active /\ UNCHANGED <<config, attempt, runs, token, phase, outputs>>
  BY DEF Answer, Active
<1>3. spent' \in Nat /\ attempt' \in [Items -> 1 .. MaxAttempts]
  BY <1>1, <1>2, FanoutAssumption DEF FanoutInv, TypeOK
<1>4. MovesOnly(i)
  <2>1. CASE EndRun(i, "ok", "done")
    BY <2>1 DEF EndRun, MovesOnly, Active
  <2>2. CASE OverBudget(i)
    BY <2>2 DEF OverBudget, EndRun, MovesOnly, Active
  <2>3. QED BY <1>1, <1>2, <2>1, <2>2, InvalidMoves
<1>5. SpendBounded'
  <2>1. spent <= Limit + MaxCost * Cardinality(Blown)
    BY DEF FanoutInv, SpendBounded, Blown
  <2>2. CASE OverBudget(i)
    <3>1. \A j \in Items : task'[j] = (IF j = i THEN "blown" ELSE task[j])
      BY <2>2 DEF OverBudget, EndRun, FanoutInv, TypeOK
    <3>2. Blown' = Blown \cup {i} /\ i \notin Blown
      BY <1>2, <3>1 DEF Blown, Active
    <3>3. Cardinality(Blown') = Cardinality(Blown) + 1
      BY <3>2, BlownFinite, FS_AddElement
    <3>4. spent' <= Limit + MaxCost * Cardinality(Blown')
      BY <1>1, <2>1, <3>3, BlownFinite, CeilingMoves DEF FanoutInv, TypeOK
    <3>5. QED BY <3>4 DEF SpendBounded, Blown
  <2>3. CASE ~OverBudget(i)
    <3>1. spent' <= Limit
      BY <1>1, <2>3
    <3>2. task'[i] # "blown" /\ \A j \in Items : j # i => task'[j] = task[j]
      BY <1>1, <1>2, <1>4, <2>3, InvalidMoves DEF MovesOnly, EndRun, FanoutInv, TypeOK
    <3>3. Blown' = Blown
      BY <1>2, <3>2 DEF Blown, Active
    <3>4. Limit <= Limit + MaxCost * Cardinality(Blown)
      BY BlownFinite, FanoutAssumption
    <3>5. spent' <= Limit + MaxCost * Cardinality(Blown')
      BY <1>3, <3>1, <3>3, <3>4, BlownFinite, FanoutAssumption
    <3>6. QED BY <3>5 DEF SpendBounded, Blown
  <2>4. QED BY <2>2, <2>3
<1>6. RetriesLeft'
  <2>1. \A j \in Items : j # i => task'[j] = task[j]
    BY <1>4 DEF MovesOnly, FanoutInv, TypeOK
  <2>2. task'[i] = "backoff" => CanRetry(i)
    BY <1>1, <1>2 DEF OverBudget, EndRun, Invalid, RetryOrFail, GoOn, FanoutInv, TypeOK
  <2>3. QED BY <1>2, <2>1, <2>2 DEF RetriesLeft, CanRetry, FanoutInv
<1>7. QED BY <1>2, <1>3, <1>4, <1>5, <1>6, ActiveStep

LEMMA FailsStep ==
  ASSUME FanoutInv, NEW i \in Items, CallFails(i) \/ Wake(i)
  PROVE  FanoutInv'
<1>1. task[i] \in Active /\ UNCHANGED <<config, runs, spent, token, phase, outputs>>
  BY DEF CallFails, Wake, Active
<1>2. row[i] = "running" /\ row \in [Items -> {"none", "running", "done", "failed"}]
  BY <1>1 DEF FanoutInv, TypeOK, RowsFollow
<1>3. \/ EndRun(i, "failed", "failed")
      \/ \E where \in {"call", "backoff"} : GoOn(i, where)
  BY DEF CallFails, Wake, RetryOrFail
<1>4. MovesOnly(i) /\ task'[i] # "blown" /\ \A j \in Items : j # i => task'[j] = task[j]
  <2>1. CASE EndRun(i, "failed", "failed")
    BY <2>1 DEF EndRun, MovesOnly, Active, FanoutInv, TypeOK
  <2>2. ASSUME NEW where \in {"call", "backoff"}, GoOn(i, where)
        PROVE  MovesOnly(i) /\ task'[i] # "blown" /\ \A j \in Items : j # i => task'[j] = task[j]
    <3>1. task' = [task EXCEPT ![i] = where] /\ row' = [row EXCEPT ![i] = "running"]
      BY <1>2, <2>2 DEF GoOn
    <3>2. QED BY <3>1 DEF MovesOnly, Active, FanoutInv, TypeOK
  <2>3. QED BY <1>3, <2>1, <2>2
<1>5. Blown' = Blown
  BY <1>1, <1>4 DEF Blown, Active
<1>6. SpendBounded'
  BY <1>1, <1>5 DEF SpendBounded, Blown, FanoutInv
<1>7. attempt' \in [Items -> 1 .. MaxAttempts] /\ RetriesLeft'
  <2>1. CASE CallFails(i)
    <3>1. attempt' = attempt
      BY <2>1 DEF CallFails
    <3>2. task'[i] = "backoff" => CanRetry(i)
      BY <1>1, <2>1 DEF CallFails, RetryOrFail, EndRun, GoOn, FanoutInv, TypeOK
    <3>3. QED BY <1>4, <3>1, <3>2 DEF RetriesLeft, CanRetry, FanoutInv, TypeOK
  <2>2. CASE Wake(i)
    <3>1. task[i] = "backoff" /\ attempt[i] < MaxAttempts
          /\ attempt' = [attempt EXCEPT ![i] = attempt[i] + 1]
      BY <2>2 DEF Wake, RetriesLeft, CanRetry, FanoutInv
    <3>2. attempt' \in [Items -> 1 .. MaxAttempts]
      BY <3>1, FanoutAssumption DEF FanoutInv, TypeOK
    <3>3. task'[i] # "backoff"
      BY <2>2 DEF Wake, GoOn, EndRun, FanoutInv, TypeOK
    <3>4. RetriesLeft'
      BY <1>4, <3>1, <3>3 DEF RetriesLeft, CanRetry, FanoutInv, TypeOK
    <3>5. QED BY <3>2, <3>4
  <2>3. QED BY <2>1, <2>2
<1>8. QED BY <1>1, <1>4, <1>6, <1>7, ActiveStep DEF FanoutInv, TypeOK

\* A Run begins, in its turn and in a free slot, or is cancelled before it exists.
LEMMA StartStep ==
  ASSUME FanoutInv, NEW i \in Items, Start(i)
  PROVE  FanoutInv'
<1> USE DEF FanoutInv
<1>1. /\ phase = "running" /\ ~LoopStopped /\ task[i] = "ready"
      /\ \A j \in Items : j < i => task[j] # "ready"
      /\ UNCHANGED <<slots, keepGoing, attempt, spent, token, phase, outputs>>
  BY DEF Start, NextReady, config, Items
<1>2. row[i] # "running" /\ row[i] # "done" /\ row \in [Items -> {"none", "running", "done", "failed"}]
  BY <1>1 DEF RowsFollow, TypeOK, Active
<1>3. PICK where \in {"cancelled", "unmade", "failed", "call"}, status \in {"none", "running", "failed"} :
        /\ task' = [task EXCEPT ![i] = where]
        /\ row' = [row EXCEPT ![i] = status]
        /\ status = "running" <=> where = "call"
        /\ \/ where = "unmade" /\ runs' = runs
           \/ token /\ runs' = runs
           \/ ~token /\ runs' = Append(runs, i)
  <2>1. CASE GoOn(i, "cancelled") /\ token /\ runs' = runs
    BY <1>2, <2>1 DEF GoOn
  <2>2. CASE GoOn(i, "failed") /\ ~token /\ runs' = Append(runs, i)
    BY <1>2, <2>2 DEF GoOn
  <2>3. CASE EndRun(i, "call", "running") /\ ~token /\ runs' = Append(runs, i)
    BY <2>3 DEF EndRun
  <2>4. CASE GoOn(i, "unmade") /\ runs' = runs
    BY <1>2, <2>4 DEF GoOn
  <2>5. QED BY <2>1, <2>2, <2>3, <2>4 DEF Start, CallAllowed
<1>4. /\ \A j \in Items : task'[j] = (IF j = i THEN where ELSE task[j])
      /\ \A j \in Items : row'[j] = (IF j = i THEN status ELSE row[j])
  BY <1>3 DEF TypeOK
<1>5. runs' = runs \/ runs' = Append(runs, i)
  BY <1>3
<1>6. runs \in Seq(Items) /\ runs' \in Seq(Items)
  <2>1. runs \in Seq(Items)
    BY DEF TypeOK
  <2>2. Append(runs, i) \in Seq(Items)
    BY <2>1
  <2>3. QED BY <1>5, <2>1, <2>2
<1>7. TypeOK'
  BY <1>1, <1>3, <1>6 DEF TypeOK, Active, Raised, Ended
<1>8. RetriesLeft' /\ RowsFollow'
  BY <1>1, <1>3, <1>4 DEF RetriesLeft, RowsFollow, CanRetry, Active
<1>9. SpendBounded'
  <2>1. Blown' = Blown
    BY <1>1, <1>4 DEF Blown
  <2>2. QED BY <1>1, <2>1 DEF SpendBounded, Blown
<1>10. OneInTurn'
  <2>1. CASE slots = 1
    <3>1. Cardinality(Holders) < 1
      BY <2>1 DEF Start, Holders
    <3>2. Holders = {}
      BY <3>1, HoldersFinite, FS_EmptySet
    <3>3. \A j \in Items : task[j] \notin Active
      BY <3>2 DEF Holders, HoldsSlot
    <3>4. \A j \in Items : task'[j] \in Active => j = i
      BY <1>4, <3>3
    <3>5. LoopStopped' => task'[i] \notin Active
      BY <1>1, <1>4, <2>1 DEF LoopStopped, Parallel, Raised, Active
    <3>6. QED BY <3>4, <3>5 DEF OneInTurn
  <2>2. CASE slots # 1
    BY <1>1, <2>2 DEF OneInTurn
  <2>3. QED BY <2>1, <2>2
<1>11. InOrder' /\ AnomaliesPointRight'
  <2>1. Len(runs) \in Nat
    BY <1>6
  <2>2. ASSUME NEW k, Unmade(k) PROVE Unmade(k)'
    BY <1>1, <1>4, <2>2 DEF Unmade
  <2>3. ASSUME NEW k \in Nat, NEW l \in Nat, k <= l, Unmade(k) PROVE Unmade(l)
    BY <2>3, FanoutAssumption DEF Unmade, Items
  <2>4. InStep => i = Len(runs) + 1
    <3> SUFFICES ASSUME InStep PROVE i = Len(runs) + 1
      OBVIOUS
    <3>1. i > Len(runs) /\ i \in Nat /\ i <= N
      BY <1>1, FanoutAssumption DEF InStep, Items
    <3>2. CASE i > Len(runs) + 1
      <4>1. i - 1 \in Items /\ i - 1 > Len(runs) /\ i - 1 < i
        BY <2>1, <3>1, <3>2, FanoutAssumption DEF Items
      <4>2. task[i - 1] = "ready"
        BY <4>1 DEF InStep
      <4>3. QED BY <1>1, <4>1, <4>2
    <3>3. QED BY <2>1, <3>1, <3>2
  <2>5. CASE runs' = runs
    <3>1. AnomaliesPointRight'
      BY <2>2, <2>5 DEF AnomaliesPointRight
    <3>2. CASE Unmade(Len(runs) + 1)
      BY <2>2, <2>5, <3>1, <3>2 DEF InOrder, Unmade
    <3>3. CASE token
      BY <1>1, <3>1, <3>3 DEF InOrder
    <3>4. CASE ~token /\ ~Unmade(Len(runs) + 1)
      <4>1. i = Len(runs) + 1
        BY <2>4, <3>4 DEF InOrder
      <4>2. where = "unmade"
        BY <1>3, <2>1, <2>5, <3>4, <1>6
      <4>3. Unmade(Len(runs) + 1)'
        BY <1>4, <2>1, <2>5, <4>1, <4>2 DEF Unmade
      <4>4. QED BY <3>1, <4>3 DEF InOrder
    <3>5. QED BY <3>1, <3>2, <3>3, <3>4
  <2>6. CASE ~token /\ runs' = Append(runs, i)
    <3>1. Len(runs') = Len(runs) + 1 /\ \A k \in 1 .. Len(runs') :
              runs'[k] = (IF k = Len(runs) + 1 THEN i ELSE runs[k])
      BY <1>6, <2>1, <2>6
    <3>2. CASE Unmade(Len(runs) + 1)
      <4>1. PICK n \in Nat : n = Len(runs) + 1
        BY <2>1
      <4>2. Unmade(n)' /\ Unmade(n + 1)'
        BY <2>2, <2>3, <3>2, <4>1
      <4>3. ASSUME NEW k \in 1 .. Len(runs') PROVE runs'[k] = k \/ Unmade(k)'
        <5>1. CASE k = Len(runs) + 1
          BY <4>1, <4>2, <5>1
        <5>2. CASE k # Len(runs) + 1
          BY <2>1, <2>2, <3>1, <5>2 DEF AnomaliesPointRight
        <5>3. QED BY <5>1, <5>2
      <4>4. Len(runs') + 1 = n + 1
        BY <3>1, <4>1
      <4>5. InOrder'
        BY <4>2, <4>4 DEF InOrder, Unmade
      <4>6. QED BY <4>3, <4>5 DEF AnomaliesPointRight
    <3>3. CASE InStep
      <4>1. i = Len(runs) + 1
        BY <2>4, <3>3
      <4>2. AnomaliesPointRight'
        BY <2>1, <2>2, <3>1, <4>1 DEF AnomaliesPointRight
      <4>3. where # "ready" /\ \A j \in Items : task'[j] = (IF j = i THEN where ELSE task[j])
        BY <1>3, <1>4
      <4>4. InStep'
        BY <2>1, <3>1, <3>3, <4>1, <4>3, FanoutAssumption DEF InStep, Items
      <4>5. QED BY <4>2, <4>4 DEF InOrder
    <3>4. QED BY <2>6, <3>2, <3>3 DEF InOrder
  <2>7. QED BY <1>3, <2>5, <2>6
<1>12. NoneActiveAtEnd' /\ AllOrNothing'
  BY <1>1 DEF NoneActiveAtEnd, AllOrNothing
<1>13. QED BY <1>7, <1>8, <1>9, <1>10, <1>11, <1>12

LEMMA CollectStep ==
  ASSUME FanoutInv, Collect
  PROVE  FanoutInv'
<1> USE DEF FanoutInv
<1>1. /\ phase = "running" /\ phase' \in {"returned", "raised"}
      /\ AllEnded \/ LoopStopped
      /\ UNCHANGED <<slots, keepGoing, task, attempt, row, runs, spent>>
  BY DEF Collect, config
<1>2. token' \in BOOLEAN /\ (token => token')
  BY Zenon DEF Collect
<1>3. outputs' \subseteq Items
  BY DEF Collect, TypeOK
<1>4. TypeOK'
  BY <1>1, <1>2, <1>3 DEF TypeOK
<1>5. SpendBounded' /\ RetriesLeft'
  BY <1>1 DEF SpendBounded, RetriesLeft, CanRetry
<1>6. RowsFollow' /\ OneInTurn'
  BY <1>1 DEF RowsFollow, OneInTurn, LoopStopped, Parallel
<1>7. InOrder' /\ AnomaliesPointRight'
  BY <1>1, <1>2 DEF InOrder, InStep, Unmade, AnomaliesPointRight
<1>8. \A i \in Items : task[i] \notin Active
  <2>1. CASE AllEnded
    BY <2>1 DEF AllEnded, Ended, Raised, Active
  <2>2. CASE LoopStopped
    <3>1. slots = 1
      BY <2>2 DEF LoopStopped, Parallel, TypeOK
    <3>2. QED BY <2>2, <3>1 DEF OneInTurn
  <2>3. QED BY <1>1, <2>1, <2>2
<1>9. NoneActiveAtEnd'
  BY <1>1, <1>8 DEF NoneActiveAtEnd
<1>10. AllOrNothing'
  <2>1. SUFFICES ASSUME phase' = "returned" PROVE AllOrNothing'
    BY DEF AllOrNothing
  <2>2. /\ AllEnded /\ outputs' = {i \in Items : task[i] = "ok"}
        /\ keepGoing \/ \A i \in Items : task[i] \notin Raised
    BY <1>1, <2>1 DEF Collect
  <2>3. outputs' = {i \in Items : row'[i] = "done"}
    BY <1>1, <2>2 DEF RowsFollow
  <2>4. keepGoing' \/ outputs' = Items
    BY <1>1, <2>2 DEF AllEnded, Ended, RowsFollow
  <2>5. QED BY <2>3, <2>4 DEF AllOrNothing
<1>11. QED BY <1>4, <1>5, <1>6, <1>7, <1>9, <1>10

LEMMA InterruptStep ==
  ASSUME FanoutInv, Interrupt
  PROVE  FanoutInv'
<1> USE DEF FanoutInv
<1>1. /\ phase = "running" /\ phase' = "raised"
      /\ task' = [i \in Items |-> IF task[i] \in Active THEN "dropped" ELSE task[i]]
      /\ UNCHANGED <<slots, keepGoing, attempt, row, runs, spent, token, outputs>>
  BY DEF Interrupt, config
<1>2. \A i \in Items : task'[i] = (IF task[i] \in Active THEN "dropped" ELSE task[i])
  BY <1>1
<1>3. TypeOK'
  BY <1>1 DEF TypeOK, Ended
<1>4. SpendBounded'
  <2>1. Blown' = Blown
    BY <1>2 DEF Blown, Active
  <2>2. QED BY <1>1, <2>1 DEF SpendBounded, Blown
<1>5. RetriesLeft' /\ RowsFollow' /\ OneInTurn'
  BY <1>1, <1>2 DEF RetriesLeft, RowsFollow, OneInTurn, Active
<1>6. InOrder' /\ AnomaliesPointRight' /\ NoneActiveAtEnd' /\ AllOrNothing'
  BY <1>1, <1>2 DEF InOrder, InStep, Unmade, AnomaliesPointRight, NoneActiveAtEnd, AllOrNothing, Active
<1>7. QED BY <1>3, <1>4, <1>5, <1>6

LEMMA FanoutInvStep == FanoutInv /\ [Next]_vars => FanoutInv'
<1> SUFFICES ASSUME FanoutInv, [Next]_vars PROVE FanoutInv'
  OBVIOUS
<1>1. CASE Cancel
  <2>1. token' \in BOOLEAN
    BY <1>1, Zenon DEF Cancel
  <2>2. TypeOK'
    BY <1>1, <2>1 DEF Cancel, config, FanoutInv, TypeOK
  <2>3. QED
    BY <1>1, <2>2 DEF Cancel, config, FanoutInv, SpendBounded, RetriesLeft, CanRetry, RowsFollow,
       OneInTurn, LoopStopped, Parallel, InOrder, InStep, Unmade, AnomaliesPointRight,
       NoneActiveAtEnd, AllOrNothing
<1>2. CASE UNCHANGED vars
  BY <1>2 DEF vars, config, FanoutInv, TypeOK, SpendBounded, RetriesLeft, CanRetry, RowsFollow,
     OneInTurn, LoopStopped, Parallel, InOrder, InStep, Unmade, AnomaliesPointRight, NoneActiveAtEnd, AllOrNothing
<1>3. ASSUME NEW i \in Items, Step(i) PROVE FanoutInv'
  BY <1>3, StartStep, AnswerStep, FailsStep DEF Step
<1>4. QED BY <1>1, <1>2, <1>3, CollectStep, InterruptStep DEF Next

LEMMA FanoutInvAccounts == FanoutInv => BatchAccounts
<1> SUFFICES ASSUME FanoutInv PROVE BatchAccounts
  OBVIOUS
<1>1. RunsSettled
  BY DEF FanoutInv, RunsSettled, NoneActiveAtEnd, RowsFollow
<1>2. QED BY <1>1 DEF FanoutInv, BatchAccounts

(* However model calls, repairs, sleeps, cancellations and an interrupt of the *)
(* batch interleave under whatever concurrency: the ceiling is passed by one   *)
(* call of each Run it ended at most, a batch that is over leaves no Run at    *)
(* work, what it returns is what is DONE, and the k-th Run is the k-th item's  *)
(* unless a run_factory raised for it or for one before it.                   *)
THEOREM BatchStaysAccounted == Spec => []BatchAccounts
BY FanoutInvInit, FanoutInvStep, FanoutInvAccounts, PTL DEF Spec
----------------------------------------------------------------------------
(* Improvement                                                              *)

\* A search keeps its clean trials, and a frontier that holds each trial that no other
\* dominates: one that is not in it is dominated by one that is.
Trials == [index : Nat, quality : Int, cost : Nat]
Beats(t, u) == Dominates(t.quality, t.cost, u.quality, u.cost)
FrontOf(front, trials) ==
    /\ front = {t \in trials : \A u \in trials : ~Beats(u, t)}
    /\ \A t \in trials : t \in front \/ \E f \in front : Beats(f, t)

Fields == {"pc", "kind", "base", "mode", "index", "baseScores", "best", "bestScores",
           "improved", "front", "trials", "stop", "reason", "active"}
CallCore(l) ==
    /\ l = [f \in Fields |-> l[f]]
    /\ l.trials \subseteq Trials /\ FrontOf(l.front, l.trials)
CallInv(l) ==
    /\ CallCore(l)
    /\ l.pc \in {"score_base", "score"} => l.base \in Versions /\ l.index \in Nat
    /\ l.pc = "score" => l.index < Len(Proposals[l.base])

\* One call at most writes, and between its first write and its last the rows and the
\* baseline are where it has brought them.
Writing == {"base", "seed", "decide", "flip", "audit"}
BusyInv ==
    /\ \A c \in Improvers : c \in busy <=> improver[c].pc \in Writing
    /\ busy \subseteq Improvers /\ \A c, d \in busy : c = d

Tracks == \E v \in DOMAIN lineage : ActiveRows = {v} /\ baseline = {lineage[v].scores}
Calm == (lineage = <<>> /\ baseline = {}) \/ Tracks
BaseAlone(c) ==
    /\ DOMAIN lineage = {improver[c].base} /\ ActiveRows = {improver[c].base} /\ baseline = {}
    /\ lineage[improver[c].base].scores = improver[c].baseScores
WritesInv ==
    /\ busy = {} => Calm
    /\ \A c \in busy : /\ improver[c].pc = "base" => Calm
                       /\ improver[c].pc = "seed" => Tracks \/ BaseAlone(c)
                       /\ improver[c].pc \in {"decide", "audit"} => Tracks

ImprovementInv ==
    /\ improver = [c \in Improvers |-> improver[c]]
    /\ \A c \in Improvers : CallInv(improver[c])
    /\ BusyInv
    /\ ~torn => WritesInv
----------------------------------------------------------------------------
\* What dominates is strictly better in quality or in cost, and worse in neither.
LEMMA BeatsIsOrder ==
  ASSUME NEW t \in Trials, NEW u \in Trials, NEW w \in Trials
  PROVE  ~Beats(t, t) /\ (Beats(t, u) /\ Beats(u, w) => Beats(t, w))
<1>1. /\ t.quality \in Int /\ u.quality \in Int /\ w.quality \in Int
      /\ t.cost \in Nat /\ u.cost \in Nat /\ w.cost \in Nat
  BY DEF Trials
<1>2. QED BY <1>1 DEF Beats, Dominates

\* One more trial leaves the frontier exact.
LEMMA FrontWithOneMore ==
  ASSUME NEW trials \in SUBSET Trials, NEW front, FrontOf(front, trials), NEW e \in Trials
  PROVE  FrontOf(FrontWith(front, e), trials \cup {e})
<1> DEFINE kept == {f \in front : ~Beats(e, f)}
           more == trials \cup {e}
           new == FrontWith(front, e)
<1>1. new = IF \E f \in kept : Beats(f, e) THEN kept ELSE kept \cup {e}
  BY DEF FrontWith, Beats
<1>2. front \subseteq trials /\ kept \subseteq trials /\ more \subseteq Trials /\ e \in more
  BY DEF FrontOf
<1>3. ASSUME NEW u \in trials, Beats(u, e) PROVE \E f \in kept : Beats(f, e)
  <2>1. PICK f \in front : f = u \/ Beats(f, u)
    BY <1>3 DEF FrontOf
  <2>2. Beats(f, e) /\ ~Beats(e, f)
    BY <1>2, <1>3, <2>1, BeatsIsOrder
  <2>3. QED BY <2>2
<1>4. ASSUME NEW t \in more PROVE t \in new <=> \A u \in more : ~Beats(u, t)
  <2>1. CASE t = e /\ t \notin trials
    BY <1>1, <1>2, <1>3, <2>1, BeatsIsOrder
  <2>2. CASE t \in trials
    <3>1. t \in kept <=> \A u \in more : ~Beats(u, t)
      BY <2>2 DEF FrontOf
    <3>2. t = e => (t \in kept <=> ~\E f \in kept : Beats(f, e))
      <4>1. t = e => (t \in front <=> ~\E u \in trials : Beats(u, e))
        BY <2>2 DEF FrontOf
      <4>2. ~Beats(e, e)
        BY BeatsIsOrder
      <4>3. QED BY <1>2, <1>3, <4>1, <4>2
    <3>3. QED BY <1>1, <3>1, <3>2
  <2>3. QED BY <2>1, <2>2
<1>5. ASSUME NEW t \in more PROVE t \in new \/ \E f \in new : Beats(f, t)
  <2>1. e \in new \/ \E f \in new : Beats(f, e)
    BY <1>1
  <2>2. CASE t = e
    BY <2>1, <2>2
  <2>3. CASE t \in trials
    <3>1. PICK f \in front : f = t \/ Beats(f, t)
      BY <2>3 DEF FrontOf
    <3>2. CASE f \in kept
      BY <1>1, <3>1, <3>2
    <3>3. CASE f \notin kept
      <4>1. Beats(e, f)
        BY <3>3
      <4>2. Beats(e, t)
        BY <1>2, <2>3, <3>1, <4>1, BeatsIsOrder
      <4>3. QED BY <1>1, <1>2, <2>1, <2>3, <4>2, BeatsIsOrder
    <3>4. QED BY <3>2, <3>3
  <2>4. QED BY <2>2, <2>3
<1>6. new \subseteq more
  BY <1>1, <1>2
<1>7. new = {t \in more : \A u \in more : ~Beats(u, t)}
  <2> HIDE DEF new, more
  <2> QED BY <1>4, <1>6
<1> HIDE DEF new, more
<1>8. FrontOf(new, more)
  BY <1>5, <1>7 DEF FrontOf
<1>9. QED BY <1>8 DEF new, more

----------------------------------------------------------------------------
\* A call that goes elsewhere with the search it has is as sound as it was.
LEMMA CallGoes ==
  ASSUME NEW l, CallCore(l), NEW pc, NEW k, k = [l EXCEPT !.pc = pc]
  PROVE  /\ CallCore(k) /\ k.pc = pc
         /\ k.base = l.base /\ k.index = l.index /\ k.baseScores = l.baseScores
<1>1. /\ k = [f \in Fields |-> k[f]] /\ k.pc = pc /\ k.base = l.base /\ k.index = l.index
      /\ k.baseScores = l.baseScores /\ k.front = l.front /\ k.trials = l.trials
  BY DEF CallCore, Fields
<1>2. QED BY <1>1 DEF CallCore

LEMMA CallStops ==
  ASSUME NEW l, CallCore(l), NEW stop, NEW k, k = [l EXCEPT !.stop = stop]
  PROVE  CallCore(k) /\ k.pc = l.pc
<1>1. k = [f \in Fields |-> k[f]] /\ k.pc = l.pc /\ k.front = l.front /\ k.trials = l.trials
  BY DEF CallCore, Fields
<1>2. QED BY <1>1 DEF CallCore

LEMMA NewCall == CallCore(Idle) /\ Idle.pc = "new" /\ Idle.index = 0
<1>1. FrontOf({}, {})
  BY DEF FrontOf
<1>2. /\ Idle = [f \in Fields |-> Idle[f]] /\ Idle.pc = "new" /\ Idle.index = 0
      /\ Idle.front = {} /\ Idle.trials = {}
  BY DEF Idle, Fields
<1>3. QED BY <1>1, <1>2 DEF CallCore

LEMMA CallIsOver ==
  ASSUME NEW l, NEW pc, NEW reason, NEW active, NEW k, k = Over(l, pc, reason, active)
  PROVE  CallCore(k) /\ k.pc = pc
<1>1. k = [f \in Fields |-> k[f]] /\ k.pc = pc /\ k.front = Idle.front /\ k.trials = Idle.trials
  BY NewCall DEF CallCore, Over, Fields
<1>2. QED BY <1>1, NewCall DEF CallCore

\* A call moves while no other writes: there is still one at most that does.
LEMMA CallMoves ==
  ASSUME ImprovementInv, NEW c \in Improvers, NEW l, SetImprover(c, l), CallInv(l),
         busy = {} \/ c \in busy, busy' = IF l.pc \in Writing THEN {c} ELSE {}
  PROVE  /\ improver' = [d \in Improvers |-> improver'[d]]
         /\ \A d \in Improvers : CallInv(improver'[d])
         /\ BusyInv' /\ improver'[c] = l
<1>1. \A d \in Improvers : improver'[d] = IF d = c THEN l ELSE improver[d]
  BY DEF ImprovementInv, SetImprover
<1>2. improver' = [d \in Improvers |-> improver'[d]]
  BY DEF ImprovementInv, SetImprover
<1>3. \A d \in Improvers : d # c => improver'[d].pc \notin Writing
  BY <1>1 DEF ImprovementInv, BusyInv
<1>4. BusyInv'
  BY <1>1, <1>3 DEF BusyInv
<1>5. QED BY <1>1, <1>2, <1>4 DEF ImprovementInv


\* From a benchmark to the next one, or to the first write.
LEMMA SearchGoesOn ==
  ASSUME ImprovementInv, NEW c \in Improvers, NEW l, CallCore(l), l.base \in Versions,
         l.index \in Nat, busy = {}, GoOnTuning(c, l), UNCHANGED <<lineage, baseline, torn>>
  PROVE  ImprovementInv'
<1>1. Calm' = Calm /\ (~torn => Calm)
  BY DEF ImprovementInv, WritesInv, Calm, Tracks, ActiveRows
<1>2. CASE /\ l.index < Len(Proposals[l.base])
           /\ SetImprover(c, [l EXCEPT !.pc = "score"]) /\ UNCHANGED busy
  <2>1. PICK k : k = [l EXCEPT !.pc = "score"] /\ SetImprover(c, k)
    BY <1>2
  <2>2. CallInv(k) /\ k.pc \notin Writing
    <3>1. CallCore(k) /\ k.pc = "score" /\ k.base = l.base /\ k.index = l.index
      BY <2>1, CallGoes
    <3>2. QED BY <1>2, <3>1 DEF CallInv, Writing
  <2>3. busy' = {}
    BY <1>2
  <2>4. QED BY <1>1, <2>1, <2>2, <2>3, CallMoves DEF ImprovementInv, WritesInv
<1>3. CASE /\ \E stop : SetImprover(c, [l EXCEPT !.pc = "base", !.stop = stop])
           /\ busy' = {c}
  <2>1. PICK stop, k : k = [l EXCEPT !.pc = "base", !.stop = stop] /\ SetImprover(c, k)
    BY <1>3
  <2>2. CallInv(k) /\ k.pc = "base" /\ k.pc \in Writing
    <3>1. PICK h : h = [l EXCEPT !.pc = "base"]
      OBVIOUS
    <3>2. CallCore(h) /\ h.pc = "base" /\ k = [h EXCEPT !.stop = stop]
      BY <2>1, <3>1, CallGoes
    <3>3. QED BY <3>2, CallStops DEF CallInv, Writing
  <2>3. \A d \in busy' : improver'[d].pc = "base"
    BY <1>3, <2>1, <2>2, CallMoves
  <2>4. QED BY <1>1, <1>3, <2>1, <2>2, <2>3, CallMoves DEF ImprovementInv, WritesInv
<1>4. l.index < Len(Proposals[l.base]) \/ l.index >= Len(Proposals[l.base])
  <2>1. Len(Proposals[l.base]) \in Nat
    BY ImprovementAssumption
  <2>2. QED BY <2>1
<1>5. QED BY <1>2, <1>3, <1>4 DEF GoOnTuning

LEMMA BeginImproveStep ==
  ASSUME ImprovementInv, NEW c \in Improvers, BeginImprove(c)
  PROVE  ImprovementInv'
<1>1. Calm' = Calm /\ (~torn => Calm)
  BY DEF BeginImprove, ImprovementInv, WritesInv, Calm, Tracks, ActiveRows
<1>a. PICK v \in Versions, mode \in TuneModes : \E l :
         /\ l = [Idle EXCEPT !.kind = "improve", !.base = v, !.best = v, !.mode = mode]
         /\ \/ SetImprover(c, [l EXCEPT !.pc = "score_base"]) /\ UNCHANGED busy
            \/ /\ SetImprover(c, [l EXCEPT !.pc = "base", !.stop = Ceiling]) /\ busy' = {c}
  BY DEF BeginImprove
<1>2. PICK l :
         /\ l = [Idle EXCEPT !.kind = "improve", !.base = v, !.best = v, !.mode = mode]
         /\ \/ SetImprover(c, [l EXCEPT !.pc = "score_base"]) /\ UNCHANGED busy
            \/ /\ SetImprover(c, [l EXCEPT !.pc = "base", !.stop = Ceiling]) /\ busy' = {c}
  BY <1>a
<1>3. l = [f \in Fields |-> l[f]] /\ l.base = v /\ l.index = 0 /\ l.front = {} /\ l.trials = {}
  <2>1. /\ Idle = [f \in Fields |-> Idle[f]] /\ Idle.index = 0
        /\ Idle.front = {} /\ Idle.trials = {}
    BY DEF Idle, Fields
  <2>2. QED BY <1>2, <2>1 DEF Fields
<1>4. CallCore(l)
  BY <1>3 DEF CallCore, FrontOf
<1>5. busy = {} /\ UNCHANGED <<lineage, baseline, torn>>
  BY DEF BeginImprove
<1>6. CASE SetImprover(c, [l EXCEPT !.pc = "score_base"]) /\ UNCHANGED busy
  <2>1. PICK k : k = [l EXCEPT !.pc = "score_base"] /\ SetImprover(c, k)
    BY <1>6
  <2>2. CallInv(k) /\ k.pc \notin Writing
    BY <1>3, <1>4, <2>1, CallGoes DEF CallInv, Writing
  <2>3. busy' = {}
    BY <1>5, <1>6
  <2>4. QED BY <1>1, <1>5, <2>1, <2>2, <2>3, CallMoves DEF ImprovementInv, WritesInv
<1>7. CASE SetImprover(c, [l EXCEPT !.pc = "base", !.stop = Ceiling]) /\ busy' = {c}
  <2>1. PICK stop, k : k = [l EXCEPT !.pc = "base", !.stop = stop] /\ SetImprover(c, k)
    BY <1>7
  <2>2. CallInv(k) /\ k.pc = "base" /\ k.pc \in Writing
    <3>1. PICK h : h = [l EXCEPT !.pc = "base"]
      OBVIOUS
    <3>2. CallCore(h) /\ h.pc = "base" /\ k = [h EXCEPT !.stop = stop]
      BY <1>4, <2>1, <3>1, CallGoes
    <3>3. QED BY <3>2, CallStops DEF CallInv, Writing
  <2>3. \A d \in busy' : improver'[d].pc = "base"
    BY <1>5, <1>7, <2>1, <2>2, CallMoves
  <2>4. QED BY <1>1, <1>5, <1>7, <2>1, <2>2, <2>3, CallMoves DEF ImprovementInv, WritesInv
<1>8. QED BY <1>2, <1>6, <1>7

LEMMA BaseScoredStep ==
  ASSUME ImprovementInv, NEW c \in Improvers, BaseScored(c)
  PROVE  ImprovementInv'
<1>1. PICK s, l : l = [improver[c] EXCEPT !.baseScores = s, !.bestScores = s] /\ GoOnTuning(c, l)
  BY DEF BaseScored
<1>2. CallInv(improver[c]) /\ improver[c].pc = "score_base"
  BY DEF ImprovementInv, BaseScored
<1>3. /\ l = [f \in Fields |-> l[f]] /\ l.base = improver[c].base /\ l.index = improver[c].index
      /\ l.front = improver[c].front /\ l.trials = improver[c].trials
  BY <1>1, <1>2 DEF CallInv, CallCore, Fields
<1>4. CallCore(l) /\ l.base \in Versions /\ l.index \in Nat
  BY <1>2, <1>3 DEF CallInv, CallCore
<1>5. QED BY <1>1, <1>4, SearchGoesOn DEF BaseScored

\* What a scored candidate leaves: one more candidate seen, perhaps a new best.
LEMMA TrialGoesOn ==
  ASSUME NEW c \in Improvers, TrialScored(c)
  PROVE  LET l == improver[c]
             v == Proposals[l.base][l.index + 1]
         IN  \E s \in ScoresOf[v] : \E front, trials, tried, k :
             /\ \/ front = l.front /\ trials = l.trials
                \/ LET entry == [index |-> l.index, quality |-> Quality(s), cost |-> CostOf[v]]
                   IN  front = FrontWith(l.front, entry) /\ trials = l.trials \cup {entry}
             /\ tried = [l EXCEPT !.index = l.index + 1, !.trials = trials, !.front = front]
             /\ \/ k = tried
                \/ k = [tried EXCEPT !.best = v, !.bestScores = s, !.improved = TRUE]
             /\ GoOnTuning(c, k)
BY DEF TrialScored

LEMMA TrialScoredStep ==
  ASSUME ImprovementInv, NEW c \in Improvers, TrialScored(c)
  PROVE  ImprovementInv'
<1> DEFINE l == improver[c]
           v == Proposals[l.base][l.index + 1]
<1>1. CallInv(l) /\ l.pc = "score"
  BY DEF ImprovementInv, TrialScored
<1>2. l.base \in Versions /\ l.index \in Nat /\ l.index < Len(Proposals[l.base])
  BY <1>1 DEF CallInv
<1>3. v \in Versions
  <2>1. Proposals[l.base] \in Seq(Versions)
    BY <1>2, ImprovementAssumption
  <2> HIDE DEF l
  <2>2. l.index + 1 \in 1 .. Len(Proposals[l.base])
    BY <1>2, <2>1
  <2>3. QED BY <2>1, <2>2
<1>a. PICK s \in ScoresOf[v] : \E front, trials, tried, k :
        /\ \/ front = l.front /\ trials = l.trials
           \/ LET entry == [index |-> l.index, quality |-> Quality(s), cost |-> CostOf[v]]
              IN  front = FrontWith(l.front, entry) /\ trials = l.trials \cup {entry}
        /\ tried = [l EXCEPT !.index = l.index + 1, !.trials = trials, !.front = front]
        /\ \/ k = tried
           \/ k = [tried EXCEPT !.best = v, !.bestScores = s, !.improved = TRUE]
        /\ GoOnTuning(c, k)
  BY TrialGoesOn
<1>4. PICK front, trials, tried, k :
        /\ \/ front = l.front /\ trials = l.trials
           \/ LET entry == [index |-> l.index, quality |-> Quality(s), cost |-> CostOf[v]]
              IN  front = FrontWith(l.front, entry) /\ trials = l.trials \cup {entry}
        /\ tried = [l EXCEPT !.index = l.index + 1, !.trials = trials, !.front = front]
        /\ \/ k = tried
           \/ k = [tried EXCEPT !.best = v, !.bestScores = s, !.improved = TRUE]
        /\ GoOnTuning(c, k)
  BY <1>a
<1>5. trials \subseteq Trials /\ FrontOf(front, trials)
  <2>1. l.trials \subseteq Trials /\ FrontOf(l.front, l.trials)
    BY <1>1 DEF CallInv, CallCore
  <2>2. [index |-> l.index, quality |-> Quality(s), cost |-> CostOf[v]] \in Trials
    BY <1>2, <1>3, ImprovementAssumption, QualityAssumption DEF Trials
  <2> DEFINE entry == [index |-> l.index, quality |-> Quality(s), cost |-> CostOf[v]]
  <2>3. FrontOf(FrontWith(l.front, entry), l.trials \cup {entry})
    BY <2>1, <2>2, FrontWithOneMore
  <2>4. CASE front = l.front /\ trials = l.trials
    BY <2>1, <2>4
  <2>5. CASE front = FrontWith(l.front, entry) /\ trials = l.trials \cup {entry}
    BY <2>1, <2>2, <2>3, <2>5
  <2>6. QED BY <1>4, <2>4, <2>5
<1>6. /\ tried = [f \in Fields |-> tried[f]] /\ tried.base = l.base /\ tried.index = l.index + 1
      /\ tried.front = front /\ tried.trials = trials
  <2>1. l = [f \in Fields |-> l[f]]
    BY <1>1 DEF CallInv, CallCore
  <2>2. tried = [l EXCEPT !.index = l.index + 1, !.trials = trials, !.front = front]
    BY <1>4
  <2> HIDE DEF l, v
  <2>3. QED BY <2>1, <2>2 DEF Fields
<1>7. /\ k = [f \in Fields |-> k[f]] /\ k.base = l.base /\ k.index = l.index + 1
      /\ k.front = front /\ k.trials = trials
  <2> HIDE DEF l, v
  <2>1. CASE k = tried
    BY <1>6, <2>1
  <2>2. CASE k = [tried EXCEPT !.best = v, !.bestScores = s, !.improved = TRUE]
    BY <1>6, <2>2 DEF Fields
  <2>3. QED BY <1>4, <2>1, <2>2
<1>8. CallCore(k) /\ k.base \in Versions /\ k.index \in Nat
  BY <1>2, <1>5, <1>7 DEF CallCore
<1>9. QED BY <1>4, <1>8, SearchGoesOn DEF TrialScored

LEMMA BenchmarkRaisesStep ==
  ASSUME ImprovementInv, NEW c \in Improvers, BenchmarkRaises(c)
  PROVE  ImprovementInv'
<1>1. PICK k : k = Over(improver[c], "raised", "none", Unset) /\ SetImprover(c, k)
  BY DEF BenchmarkRaises
<1>2. CallInv(k) /\ k.pc \notin Writing
  BY <1>1, CallIsOver DEF CallInv, Writing
<1>3. busy = {} /\ busy' = {} /\ Calm' = Calm /\ torn' = torn
  BY DEF BenchmarkRaises, Calm, Tracks, ActiveRows
<1>4. QED BY <1>1, <1>2, <1>3, CallMoves DEF ImprovementInv, WritesInv
----------------------------------------------------------------------------
\* Who writes is alone at it.
LEMMA Alone ==
  ASSUME ImprovementInv, NEW c \in Improvers, improver[c].pc \in Writing
  PROVE  busy = {c} /\ CallInv(improver[c])
BY DEF ImprovementInv, BusyInv

\* From one write to the next.
LEMMA WritesOn ==
  ASSUME ImprovementInv, NEW c \in Improvers, NEW pc \in Writing, improver[c].pc \in Writing,
         Goto(c, pc), UNCHANGED busy
  PROVE  /\ improver' = [d \in Improvers |-> improver'[d]] /\ busy' = {c}
         /\ \A d \in Improvers : CallInv(improver'[d])
         /\ BusyInv' /\ improver'[c].pc = pc
         /\ improver'[c].base = improver[c].base
         /\ improver'[c].baseScores = improver[c].baseScores
<1>1. PICK k : k = [improver[c] EXCEPT !.pc = pc] /\ SetImprover(c, k)
  BY DEF Goto
<1>2. /\ CallCore(k) /\ k.pc = pc /\ k.base = improver[c].base
      /\ k.baseScores = improver[c].baseScores
  BY <1>1, Alone, CallGoes DEF CallInv
<1>3. CallInv(k)
  BY <1>2 DEF CallInv, Writing
<1>4. busy = {c} /\ busy' = {c}
  BY Alone
<1>5. QED BY <1>1, <1>2, <1>3, <1>4, CallMoves

\* The last write of a call, or none of them.
LEMMA CallEnds ==
  ASSUME ImprovementInv, NEW c \in Improvers, improver[c].pc \in Writing,
         NEW pc \in {"done", "raised"}, NEW reason, NEW active,
         SetImprover(c, Over(improver[c], pc, reason, active)), busy' = {}, ~torn' => Calm'
  PROVE  ImprovementInv'
<1>1. PICK k : k = Over(improver[c], pc, reason, active) /\ SetImprover(c, k)
  OBVIOUS
<1>2. CallCore(k) /\ k.pc = pc
  BY <1>1, CallIsOver
<1>3. CallInv(k) /\ k.pc \notin Writing
  BY <1>2 DEF CallInv, Writing
<1>4. busy = {c}
  BY Alone
<1>5. QED BY <1>1, <1>3, <1>4, CallMoves DEF ImprovementInv, WritesInv

LEMMA RecordBaseStep ==
  ASSUME ImprovementInv, NEW c \in Improvers, RecordBase(c)
  PROVE  ImprovementInv'
<1>1. improver[c].pc = "base" /\ Goto(c, "seed") /\ UNCHANGED <<baseline, busy, ctx, torn>>
  BY DEF RecordBase
<1> DEFINE base == improver[c].base
<1>2. ASSUME ~torn PROVE Tracks' \/ BaseAlone(c)'
  <2>1. Calm
    BY <1>1, <1>2, Alone DEF ImprovementInv, WritesInv, Writing
  <2>2. CASE base \in DOMAIN lineage
    <3>1. lineage' = lineage /\ baseline' = baseline
      BY <1>1, <2>2 DEF RecordBase
    <3>2. Tracks
      BY <2>1, <2>2 DEF Calm
    <3>3. QED BY <3>1, <3>2 DEF Tracks, ActiveRows
  <2>3. CASE base \notin DOMAIN lineage
    <3>1. PICK rw : /\ rw = Row(improver[c].baseScores, "base", Unset, ActiveRows = {})
                    /\ PutRow(base, rw)
      BY <2>3 DEF RecordBase
    <3>2. rw.scores = improver[c].baseScores /\ (rw.active <=> ActiveRows = {})
      BY <3>1 DEF Row
    <3>3. /\ DOMAIN lineage' = DOMAIN lineage \cup {base} /\ lineage'[base] = rw
          /\ \A w \in DOMAIN lineage : lineage'[w] = lineage[w]
      BY <2>3, <3>1 DEF PutRow
    <3>4. CASE Tracks
      <4>1. PICK v \in DOMAIN lineage : ActiveRows = {v} /\ baseline = {lineage[v].scores}
        BY <3>4 DEF Tracks
      <4>2. ActiveRows' = {v}
        BY <2>3, <3>2, <3>3, <4>1 DEF ActiveRows
      <4>3. QED BY <1>1, <3>3, <4>1, <4>2 DEF Tracks
    <3>5. CASE lineage = <<>> /\ baseline = {}
      <4>1. DOMAIN lineage = {} /\ ActiveRows = {}
        BY <3>5 DEF ActiveRows
      <4>2. DOMAIN lineage' = {base} /\ ActiveRows' = {base}
        BY <3>2, <3>3, <4>1 DEF ActiveRows
      <4>3. improver'[c].base = base /\ improver'[c].baseScores = improver[c].baseScores
        BY <1>1, WritesOn DEF Writing
      <4>4. QED BY <1>1, <3>2, <3>3, <3>5, <4>2, <4>3 DEF BaseAlone
    <3>6. QED BY <2>1, <3>4, <3>5 DEF Calm
  <2>4. QED BY <2>2, <2>3
<1>3. "base" \in Writing /\ "seed" \in Writing
  BY DEF Writing
<1>4. /\ improver' = [d \in Improvers |-> improver'[d]] /\ busy' = {c}
      /\ \A d \in Improvers : CallInv(improver'[d])
      /\ BusyInv' /\ improver'[c].pc = "seed"
  BY <1>1, <1>3, WritesOn
<1>5. ASSUME ~torn' PROVE WritesInv'
  BY <1>1, <1>2, <1>4, <1>5 DEF WritesInv
<1>6. QED BY <1>4, <1>5 DEF ImprovementInv

LEMMA SeedBaselineStep ==
  ASSUME ImprovementInv, NEW c \in Improvers, SeedBaseline(c)
  PROVE  ImprovementInv'
<1>1. /\ improver[c].pc = "seed" /\ Goto(c, "decide") /\ UNCHANGED <<lineage, busy, ctx, torn>>
      /\ baseline' = IF baseline = {} THEN {improver[c].baseScores} ELSE baseline
  BY DEF SeedBaseline
<1>2. ASSUME ~torn PROVE Tracks'
  <2>1. Tracks \/ BaseAlone(c)
    BY <1>1, <1>2, Alone DEF ImprovementInv, WritesInv, Writing
  <2>2. CASE Tracks
    BY <1>1, <2>2 DEF Tracks, ActiveRows
  <2>3. CASE BaseAlone(c)
    BY <1>1, <2>3 DEF BaseAlone, Tracks, ActiveRows
  <2>4. QED BY <2>1, <2>2, <2>3
<1>3. "seed" \in Writing /\ "decide" \in Writing
  BY DEF Writing
<1>4. QED BY <1>1, <1>2, <1>3, WritesOn DEF ImprovementInv, WritesInv

LEMMA DecideStep ==
  ASSUME ImprovementInv, NEW c \in Improvers, Decide(c)
  PROVE  ImprovementInv'
<1>1. improver[c].pc = "decide" /\ "decide" \in Writing /\ "flip" \in Writing
  BY DEF Decide, Writing
<1>2. ASSUME NEW reason, NotPromoted(c, reason) PROVE ImprovementInv'
  <2>1. PICK active : SetImprover(c, Over(improver[c], "done", reason, active))
    BY <1>2 DEF NotPromoted
  <2>2. ~torn => Tracks
    BY <1>1, Alone DEF ImprovementInv, WritesInv
  <2>3. busy' = {} /\ torn' = torn /\ Tracks' = Tracks
    BY <1>2 DEF NotPromoted, Tracks, ActiveRows
  <2>4. QED BY <1>1, <2>1, <2>2, <2>3, CallEnds DEF Calm
<1>3. CASE Goto(c, "flip") /\ UNCHANGED busy
  BY <1>1, <1>3, WritesOn DEF ImprovementInv, WritesInv
<1>4. QED BY <1>2, <1>3 DEF Decide

LEMMA FlipRowStep ==
  ASSUME ImprovementInv, NEW c \in Improvers, FlipRow(c)
  PROVE  ImprovementInv'
<1>1. improver[c].pc = "flip" /\ busy = {c} /\ UNCHANGED <<baseline, improver, busy, ctx, torn>>
  BY Alone DEF FlipRow, Writing
<1>2. QED BY <1>1 DEF ImprovementInv, BusyInv, WritesInv

LEMMA AdvanceBaselineStep ==
  ASSUME ImprovementInv, NEW c \in Improvers, AdvanceBaseline(c)
  PROVE  ImprovementInv'
<1>1. /\ improver[c].pc = "flip" /\ ActiveRows = {improver[c].best} /\ Goto(c, "audit")
      /\ baseline' = {lineage[improver[c].best].scores} /\ UNCHANGED <<lineage, busy>>
  BY DEF AdvanceBaseline, ScoresInForce
<1>2. Tracks'
  BY <1>1 DEF Tracks, ActiveRows
<1>3. "flip" \in Writing /\ "audit" \in Writing
  BY DEF Writing
<1>4. /\ improver' = [d \in Improvers |-> improver'[d]] /\ busy' = {c}
      /\ \A d \in Improvers : CallInv(improver'[d])
      /\ BusyInv' /\ improver'[c].pc = "audit"
  BY <1>1, <1>3, WritesOn
<1>5. WritesInv'
  BY <1>2, <1>4 DEF WritesInv
<1>6. QED BY <1>4, <1>5 DEF ImprovementInv

LEMMA AuditStep ==
  ASSUME ImprovementInv, NEW c \in Improvers, Audit(c)
  PROVE  ImprovementInv'
<1>1. improver[c].pc = "audit" /\ "audit" \in Writing
  BY DEF Audit, Writing
<1>2. PICK reason, active : SetImprover(c, Over(improver[c], "done", reason, active))
  BY DEF Audit
<1>3. ~torn => Tracks
  BY <1>1, Alone DEF ImprovementInv, WritesInv
<1>4. busy' = {} /\ torn' = torn /\ Tracks' = Tracks
  BY DEF Audit, Tracks, ActiveRows
<1>5. QED BY <1>1, <1>2, <1>3, <1>4, CallEnds DEF Calm

LEMMA RollbackStep ==
  ASSUME ImprovementInv, NEW c \in Improvers, Rollback(c)
  PROVE  ImprovementInv'
<1>1. PICK v, k : /\ k = [Idle EXCEPT !.pc = "flip", !.kind = "rollback", !.best = v]
                  /\ SetImprover(c, k)
  BY DEF Rollback
<1>2. k = [f \in Fields |-> k[f]] /\ k.pc = "flip" /\ k.front = Idle.front /\ k.trials = Idle.trials
  BY <1>1, NewCall DEF CallCore, Fields
<1>3. CallInv(k) /\ k.pc \in Writing
  BY <1>2, NewCall DEF CallInv, CallCore, Writing
<1>4. busy = {} /\ busy' = {c}
  BY DEF Rollback
<1>5. /\ improver' = [d \in Improvers |-> improver'[d]]
      /\ \A d \in Improvers : CallInv(improver'[d])
      /\ BusyInv' /\ improver'[c].pc = "flip"
  BY <1>1, <1>2, <1>3, <1>4, CallMoves
<1>6. WritesInv'
  BY <1>4, <1>5 DEF WritesInv
<1>7. QED BY <1>5, <1>6 DEF ImprovementInv

LEMMA ProcessDiesStep ==
  ASSUME ImprovementInv, ProcessDies
  PROVE  ImprovementInv'
<1>1. PICK k : k = [Idle EXCEPT !.pc = "dead"]
  OBVIOUS
<1>2. CallCore(k) /\ k.pc = "dead"
  BY <1>1, NewCall, CallGoes
<1>3. improver' = [c \in Improvers |-> IF improver[c].pc \in {"new", "done", "raised"}
                                      THEN improver[c] ELSE k]
  BY <1>1 DEF ProcessDies
<1>4. /\ improver' = [c \in Improvers |-> improver'[c]] /\ BusyInv'
      /\ \A c \in Improvers : CallInv(improver'[c])
  BY <1>2, <1>3 DEF ProcessDies, ImprovementInv, BusyInv, CallInv, Writing
<1>5. ASSUME ~torn' PROVE Calm'
  <2>1. ~torn /\ (\A c \in busy : improver[c].pc = "audit") /\ UNCHANGED <<lineage, baseline>>
    BY <1>5 DEF ProcessDies
  <2>2. Calm
    BY <2>1 DEF ImprovementInv, WritesInv, Calm
  <2>3. QED BY <2>1, <2>2 DEF Calm, Tracks, ActiveRows
<1>6. QED BY <1>4, <1>5 DEF ProcessDies, ImprovementInv, WritesInv
----------------------------------------------------------------------------
LEMMA ImprovementInvInit == ImprovementInit => ImprovementInv
<1> SUFFICES ASSUME ImprovementInit PROVE ImprovementInv
  OBVIOUS
<1>1. improver = [c \in Improvers |-> Idle] /\ busy = {} /\ Calm
  BY DEF ImprovementInit, Calm
<1>2. \A c \in Improvers : CallInv(improver[c]) /\ improver[c].pc \notin Writing
  BY <1>1, NewCall DEF CallInv, Writing
<1>3. QED BY <1>1, <1>2 DEF ImprovementInv, BusyInv, WritesInv

LEMMA ImprovementInvStep == ImprovementInv /\ [ImprovementNext]_improvementVars => ImprovementInv'
<1> SUFFICES ASSUME ImprovementInv, [ImprovementNext]_improvementVars PROVE ImprovementInv'
  OBVIOUS
<1>1. CASE UNCHANGED improvementVars \/ CancelContext
  BY <1>1 DEF improvementVars, CancelContext, ImprovementInv, BusyInv, WritesInv, Calm, Tracks,
              BaseAlone, ActiveRows
<1>2. ASSUME NEW c \in Improvers,
             BeginImprove(c) \/ BaseScored(c) \/ TrialScored(c) \/ BenchmarkRaises(c)
      PROVE  ImprovementInv'
  BY <1>2, BeginImproveStep, BaseScoredStep, TrialScoredStep, BenchmarkRaisesStep
<1>3. ASSUME NEW c \in Improvers,
             \/ RecordBase(c) \/ SeedBaseline(c) \/ Decide(c) \/ FlipRow(c)
             \/ AdvanceBaseline(c) \/ Audit(c) \/ Rollback(c)
      PROVE  ImprovementInv'
  BY <1>3, RecordBaseStep, SeedBaselineStep, DecideStep, FlipRowStep, AdvanceBaselineStep,
     AuditStep, RollbackStep
<1>4. QED BY <1>1, <1>2, <1>3, ProcessDiesStep DEF ImprovementNext

LEMMA ImprovementInvSuffices == ImprovementInv => ImprovementIsExact
<1> SUFFICES ASSUME ImprovementInv PROVE ImprovementIsExact
  OBVIOUS
<1>1. FrontExact
  BY DEF ImprovementInv, CallInv, CallCore, FrontOf, FrontExact, Beats
<1>2. BaselineTracksActive
  <2> SUFFICES ASSUME busy = {}, ~torn, lineage # <<>>
               PROVE  /\ Cardinality(ActiveRows) = 1
                      /\ baseline = {lineage[v].scores : v \in ActiveRows}
    BY DEF BaselineTracksActive
  <2>1. PICK v \in DOMAIN lineage : ActiveRows = {v} /\ baseline = {lineage[v].scores}
    BY DEF ImprovementInv, WritesInv, Calm, Tracks
  <2>2. QED BY <2>1, FS_Singleton
<1>3. QED BY <1>1, <1>2 DEF ImprovementIsExact

\* However many calls improve and roll back at once, whatever the benchmarks measure, and
\* wherever the process dies: between calls the baseline is the scores of the one active
\* version, unless a death has torn a call's writes and no call has mended them, and the
\* frontier of each search is exactly its clean trials that no other dominates.
THEOREM ImprovementStaysExact == ImprovementSpec => []ImprovementIsExact
<1>1. QED BY ImprovementInvInit, ImprovementInvStep, ImprovementInvSuffices, PTL DEF ImprovementSpec
----------------------------------------------------------------------------
(* Improvement: promotions                                                  *)

\* What is compared are scores; and who is about to advance the baseline has written a row
\* that is no regression against it.
Scores == [Metrics -> Nat] \cup {NoScores}
ScoredBy(l) == l.baseScores \in Scores /\ l.bestScores \in Scores
Passed(l) ==
    /\ l.best \in DOMAIN lineage /\ lineage[l.best].scores = l.bestScores
    /\ \A b \in baseline : ~IsRegression(b, l.bestScores)
Advancing(l) == l.kind = "improve" /\ l.pc = "flip"
PassedInv ==
    /\ baseline \subseteq Scores /\ \A a, b \in baseline : a = b
    /\ \A v \in DOMAIN lineage : lineage[v].scores \in Scores
    /\ \A c \in Improvers : ScoredBy(improver[c]) /\ (Advancing(improver[c]) => Passed(improver[c]))

LEMMA NoRegressionAgainstItself ==
  ASSUME NEW b \in Scores
  PROVE  ~IsRegression(b, b)
<1>1. \A m \in Metrics : ScoreIn(b, m) \in Nat
  BY DEF Scores, ScoreIn, NoScores
<1>2. Tolerance \in Nat
  BY ImprovementAssumption
<1>3. \A m \in Metrics : ~(Delta(b, b, m) < -Tolerance)
  BY <1>1, <1>2 DEF Delta
<1>4. QED BY <1>3 DEF IsRegression

\* A step that moves one call, and neither the rows nor the baseline.
LEMMA QuietStep ==
  ASSUME ImprovementInv, PassedInv, NEW c \in Improvers, NEW l, SetImprover(c, l),
         ScoredBy(l), l.kind # "improve" \/ l.pc # "flip", UNCHANGED <<lineage, baseline>>
  PROVE  PassedInv'
<1>1. \A d \in Improvers : improver'[d] = IF d = c THEN l ELSE improver[d]
  BY DEF ImprovementInv, SetImprover
<1>2. \A d \in Improvers : d # c => ScoredBy(improver[d]) /\ (Advancing(improver[d]) => Passed(improver[d]))
  BY DEF PassedInv
<1>3. QED BY <1>1, <1>2 DEF PassedInv, ScoredBy, Passed, Advancing, IsRegression, Delta

LEMMA OverIsScored ==
  ASSUME NEW l, NEW pc \in {"done", "raised"}, NEW reason, NEW active,
         NEW k, k = Over(l, pc, reason, active)
  PROVE  ScoredBy(k) /\ k.pc = pc
BY DEF ScoredBy, Scores, Over, Idle, NoScores

LEMMA TuningIsQuiet ==
  ASSUME ImprovementInv, PassedInv, NEW c \in Improvers, NEW l, l = [f \in Fields |-> l[f]],
         ScoredBy(l), GoOnTuning(c, l), UNCHANGED <<lineage, baseline>>
  PROVE  PassedInv'
<1>1. CASE SetImprover(c, [l EXCEPT !.pc = "score"])
  <2>1. PICK k : k = [l EXCEPT !.pc = "score"] /\ SetImprover(c, k)
    BY <1>1
  <2>2. ScoredBy(k) /\ k.pc = "score"
    BY <2>1 DEF ScoredBy, Fields
  <2>3. QED BY <2>1, <2>2, QuietStep
<1>2. CASE \E stop : SetImprover(c, [l EXCEPT !.pc = "base", !.stop = stop])
  <2>1. PICK stop, k : k = [l EXCEPT !.pc = "base", !.stop = stop] /\ SetImprover(c, k)
    BY <1>2
  <2>2. ScoredBy(k) /\ k.pc = "base"
    BY <2>1 DEF ScoredBy, Fields
  <2>3. QED BY <2>1, <2>2, QuietStep
<1>3. QED BY <1>1, <1>2 DEF GoOnTuning

LEMMA BeginImprovePassed ==
  ASSUME ImprovementInv, PassedInv, NEW c \in Improvers, BeginImprove(c)
  PROVE  PassedInv'
<1>1. PICK v \in Versions, mode \in TuneModes : \E l :
         /\ l = [Idle EXCEPT !.kind = "improve", !.base = v, !.best = v, !.mode = mode]
         /\ \/ SetImprover(c, [l EXCEPT !.pc = "score_base"])
            \/ SetImprover(c, [l EXCEPT !.pc = "base", !.stop = Ceiling])
  BY DEF BeginImprove
<1>2. PICK l, stop, k :
         /\ l = [Idle EXCEPT !.kind = "improve", !.base = v, !.best = v, !.mode = mode]
         /\ \/ k = [l EXCEPT !.pc = "score_base"]
            \/ k = [l EXCEPT !.pc = "base", !.stop = stop]
         /\ SetImprover(c, k)
  BY <1>1
<1>3. Idle = [f \in Fields |-> Idle[f]] /\ Idle.baseScores = NoScores /\ Idle.bestScores = NoScores
  BY DEF Idle, Fields
<1>4. l = [f \in Fields |-> l[f]] /\ l.baseScores = NoScores /\ l.bestScores = NoScores
  BY <1>2, <1>3 DEF Fields
<1>5. k.baseScores = NoScores /\ k.bestScores = NoScores /\ k.pc # "flip"
  <2> HIDE DEF Fields
  <2>1. {"pc", "stop", "baseScores", "bestScores"} \subseteq Fields
    BY DEF Fields
  <2>2. CASE k = [l EXCEPT !.pc = "score_base"]
    <3>1. k.pc = "score_base"
      BY <1>4, <2>1, <2>2
    <3>2. k.baseScores = l.baseScores /\ k.bestScores = l.bestScores
      BY <1>4, <2>1, <2>2
    <3>3. QED BY <1>4, <3>1, <3>2
  <2>3. CASE k = [l EXCEPT !.pc = "base", !.stop = stop]
    <3>1. k.pc = "base"
      BY <1>4, <2>1, <2>3
    <3>2. k.baseScores = l.baseScores /\ k.bestScores = l.bestScores
      BY <1>4, <2>1, <2>3
    <3>3. QED BY <1>4, <3>1, <3>2
  <2>4. QED BY <1>2, <2>2, <2>3
<1>6. UNCHANGED <<lineage, baseline>>
  BY DEF BeginImprove
<1>7. QED BY <1>2, <1>5, <1>6, QuietStep DEF ScoredBy, Scores

LEMMA BaseScoredPassed ==
  ASSUME ImprovementInv, PassedInv, NEW c \in Improvers, BaseScored(c)
  PROVE  PassedInv'
<1>1. CallInv(improver[c]) /\ improver[c].pc = "score_base" /\ improver[c].base \in Versions
  BY DEF ImprovementInv, BaseScored, CallInv
<1>2. PICK s \in ScoresOf[improver[c].base] :
         GoOnTuning(c, [improver[c] EXCEPT !.baseScores = s, !.bestScores = s])
  BY DEF BaseScored
<1>3. PICK l : l = [improver[c] EXCEPT !.baseScores = s, !.bestScores = s] /\ GoOnTuning(c, l)
  BY <1>2
<1>4. s \in [Metrics -> Nat]
  BY <1>1, ImprovementAssumption
<1>5. l = [f \in Fields |-> l[f]] /\ l.baseScores = s /\ l.bestScores = s
  BY <1>1, <1>3 DEF CallInv, CallCore, Fields
<1>6. QED BY <1>3, <1>4, <1>5, TuningIsQuiet DEF ScoredBy, Scores, BaseScored

LEMMA TrialScoredPassed ==
  ASSUME ImprovementInv, PassedInv, NEW c \in Improvers, TrialScored(c)
  PROVE  PassedInv'
<1> DEFINE l == improver[c]
           v == Proposals[l.base][l.index + 1]
<1>1. CallInv(l) /\ l.pc = "score" /\ ScoredBy(l)
  BY DEF ImprovementInv, TrialScored, PassedInv
<1>2. v \in Versions
  <2>1. l.base \in Versions /\ l.index \in Nat /\ l.index < Len(Proposals[l.base])
    BY <1>1 DEF CallInv
  <2>2. Proposals[l.base] \in Seq(Versions)
    BY <2>1, ImprovementAssumption
  <2> HIDE DEF l
  <2>3. l.index + 1 \in 1 .. Len(Proposals[l.base])
    BY <2>1, <2>2
  <2>4. QED BY <2>2, <2>3
<1>3. PICK s \in ScoresOf[v] : \E front, trials, tried, k :
        /\ \/ front = l.front /\ trials = l.trials
           \/ LET entry == [index |-> l.index, quality |-> Quality(s), cost |-> CostOf[v]]
              IN  front = FrontWith(l.front, entry) /\ trials = l.trials \cup {entry}
        /\ tried = [l EXCEPT !.index = l.index + 1, !.trials = trials, !.front = front]
        /\ \/ k = tried
           \/ k = [tried EXCEPT !.best = v, !.bestScores = s, !.improved = TRUE]
        /\ GoOnTuning(c, k)
  BY TrialGoesOn
<1>4. PICK front, trials, tried, k :
        /\ tried = [l EXCEPT !.index = l.index + 1, !.trials = trials, !.front = front]
        /\ \/ k = tried
           \/ k = [tried EXCEPT !.best = v, !.bestScores = s, !.improved = TRUE]
        /\ GoOnTuning(c, k)
  BY <1>3
<1>5. s \in [Metrics -> Nat]
  BY <1>2, ImprovementAssumption
<1>6. /\ tried = [f \in Fields |-> tried[f]]
      /\ tried.baseScores = l.baseScores /\ tried.bestScores = l.bestScores
  BY <1>1, <1>4 DEF CallInv, CallCore, Fields
<1>7. /\ k = [f \in Fields |-> k[f]]
      /\ k.baseScores = l.baseScores /\ k.bestScores \in {l.bestScores, s}
  BY <1>4, <1>6 DEF Fields
<1>8. ScoredBy(k)
  BY <1>1, <1>5, <1>7 DEF ScoredBy, Scores
<1>9. UNCHANGED <<lineage, baseline>>
  BY DEF TrialScored
<1>10. QED BY <1>4, <1>7, <1>8, <1>9, TuningIsQuiet

LEMMA OverPassed ==
  ASSUME ImprovementInv, PassedInv, NEW c \in Improvers,
         NEW pc \in {"done", "raised"}, NEW reason, NEW active,
         SetImprover(c, Over(improver[c], pc, reason, active)), UNCHANGED <<lineage, baseline>>
  PROVE  PassedInv'
<1>1. PICK k : k = Over(improver[c], pc, reason, active) /\ SetImprover(c, k)
  OBVIOUS
<1>2. ScoredBy(k) /\ k.pc = pc
  BY <1>1, OverIsScored
<1>3. QED BY <1>1, <1>2, QuietStep

\* A write of a call to the rows or the baseline: no other call is about to advance.
LEMMA WritePassed ==
  ASSUME ImprovementInv, PassedInv, NEW c \in Improvers, improver[c].pc \in Writing,
         NEW pc \in Writing, Goto(c, pc),
         baseline' \subseteq Scores, \A a, b \in baseline' : a = b,
         \A v \in DOMAIN lineage' : lineage'[v].scores \in Scores,
         improver[c].kind = "improve" /\ pc = "flip" =>
            /\ improver[c].best \in DOMAIN lineage'
            /\ lineage'[improver[c].best].scores = improver[c].bestScores
            /\ \A b \in baseline' : ~IsRegression(b, improver[c].bestScores)
  PROVE  PassedInv'
<1>1. PICK k : k = [improver[c] EXCEPT !.pc = pc] /\ SetImprover(c, k)
  BY DEF Goto
<1>2. busy = {c} /\ CallInv(improver[c])
  BY Alone
<1>3. /\ k.pc = pc /\ k.kind = improver[c].kind /\ k.best = improver[c].best
      /\ k.baseScores = improver[c].baseScores /\ k.bestScores = improver[c].bestScores
  BY <1>1, <1>2 DEF CallInv, CallCore, Fields
<1>4. improver'[c] = k /\ \A d \in Improvers \ {c} : improver'[d] = improver[d]
  BY <1>1 DEF ImprovementInv, SetImprover
<1>5. \A d \in Improvers \ {c} : improver[d].pc # "flip"
  BY <1>2 DEF ImprovementInv, BusyInv, Writing
<1>6. \A d \in Improvers : ScoredBy(improver'[d]) /\ (Advancing(improver'[d]) => d = c)
  BY <1>3, <1>4, <1>5 DEF PassedInv, ScoredBy, Advancing
<1>7. Advancing(k) => /\ k.best \in DOMAIN lineage' /\ lineage'[k.best].scores = k.bestScores
                      /\ \A b \in baseline' : ~IsRegression(b, k.bestScores)
  BY <1>3 DEF Advancing
<1>8. \A d \in Improvers : Advancing(improver'[d]) =>
         /\ improver'[d].best \in DOMAIN lineage'
         /\ lineage'[improver'[d].best].scores = improver'[d].bestScores
         /\ \A b \in baseline' : ~IsRegression(b, improver'[d].bestScores)
  BY <1>4, <1>6, <1>7
<1>9. QED BY <1>6, <1>8 DEF PassedInv, ScoredBy, Passed, Advancing, IsRegression, Delta

LEMMA RecordBasePassed ==
  ASSUME ImprovementInv, PassedInv, NEW c \in Improvers, RecordBase(c)
  PROVE  PassedInv'
<1>1. improver[c].pc \in Writing /\ "seed" \in Writing /\ Goto(c, "seed") /\ UNCHANGED baseline
  BY DEF RecordBase, Writing
<1>2. /\ improver[c].baseScores \in Scores /\ baseline' \subseteq Scores
      /\ \A a, b \in baseline' : a = b
      /\ \A v \in DOMAIN lineage : lineage[v].scores \in Scores
  BY <1>1 DEF PassedInv, ScoredBy
<1>3. \A v \in DOMAIN lineage' : lineage'[v].scores \in Scores
  <2>1. CASE UNCHANGED lineage
    BY <1>2, <2>1
  <2>2. CASE \E rw : rw.scores = improver[c].baseScores /\ PutRow(improver[c].base, rw)
    BY <1>2, <2>2 DEF PutRow
  <2>3. QED BY <2>1, <2>2 DEF RecordBase, Row
<1>4. QED BY <1>1, <1>2, <1>3, WritePassed

LEMMA SeedBaselinePassed ==
  ASSUME ImprovementInv, PassedInv, NEW c \in Improvers, SeedBaseline(c)
  PROVE  PassedInv'
<1>1. /\ improver[c].pc \in Writing /\ "decide" \in Writing /\ Goto(c, "decide")
      /\ UNCHANGED lineage
      /\ baseline' = IF baseline = {} THEN {improver[c].baseScores} ELSE baseline
  BY DEF SeedBaseline, Writing
<1>2. baseline' \subseteq Scores /\ \A a, b \in baseline' : a = b
  BY <1>1 DEF PassedInv, ScoredBy
<1>3. QED BY <1>1, <1>2, WritePassed DEF PassedInv

LEMMA DecidePassed ==
  ASSUME ImprovementInv, PassedInv, NEW c \in Improvers, Decide(c)
  PROVE  PassedInv'
<1>1. ASSUME NEW reason, NotPromoted(c, reason) PROVE PassedInv'
  <2>1. PICK active : SetImprover(c, Over(improver[c], "done", reason, active))
    BY <1>1 DEF NotPromoted
  <2>2. UNCHANGED <<lineage, baseline>>
    BY <1>1 DEF NotPromoted
  <2>3. QED BY <2>1, <2>2, OverPassed
<1>2. CASE /\ ~Gated(c) /\ Goto(c, "flip") /\ UNCHANGED baseline
           /\ PutRow(improver[c].best, Row(improver[c].bestScores, "promoted", improver[c].base, FALSE))
  <2>1. PICK rw : rw.scores = improver[c].bestScores /\ PutRow(improver[c].best, rw)
    BY <1>2 DEF Row
  <2>2. improver[c].bestScores \in Scores
    BY DEF PassedInv, ScoredBy
  <2>3. /\ improver[c].best \in DOMAIN lineage' /\ lineage'[improver[c].best] = rw
        /\ \A v \in DOMAIN lineage' : v # improver[c].best => v \in DOMAIN lineage /\ lineage'[v] = lineage[v]
    BY <2>1 DEF PutRow
  <2>4. \A v \in DOMAIN lineage' : lineage'[v].scores \in Scores
    BY <2>1, <2>2, <2>3 DEF PassedInv
  <2>5. \A b \in baseline' : ~IsRegression(b, improver[c].bestScores)
    BY <1>2 DEF Gated
  <2>6. /\ improver[c].pc \in Writing /\ "flip" \in Writing
        /\ baseline' \subseteq Scores /\ \A a, b \in baseline' : a = b
    BY <1>2 DEF Decide, Writing, PassedInv
  <2>7. QED BY <1>2, <2>1, <2>3, <2>4, <2>5, <2>6, WritePassed
<1>3. QED BY <1>1, <1>2 DEF Decide

LEMMA FlipRowPassed ==
  ASSUME ImprovementInv, PassedInv, NEW c \in Improvers, FlipRow(c)
  PROVE  PassedInv'
<1>1. PICK v \in DOMAIN lineage : PutRow(v, [lineage[v] EXCEPT !.active = ~lineage[v].active])
  BY DEF FlipRow
<1>2. PICK rw : rw.scores = lineage[v].scores /\ PutRow(v, rw)
  <2>1. PICK rw : rw = [lineage[v] EXCEPT !.active = ~lineage[v].active]
    OBVIOUS
  <2>2. rw.scores = lineage[v].scores
    BY <2>1
  <2>3. QED BY <1>1, <2>1, <2>2
<1>3. DOMAIN lineage' = DOMAIN lineage /\ \A w \in DOMAIN lineage : lineage'[w].scores = lineage[w].scores
  BY <1>2 DEF PutRow
<1>4. UNCHANGED <<baseline, improver>>
  BY DEF FlipRow
<1>5. QED BY <1>3, <1>4 DEF PassedInv, ScoredBy, Passed, Advancing, IsRegression, Delta

LEMMA AdvanceBaselinePassed ==
  ASSUME ImprovementInv, PassedInv, NEW c \in Improvers, AdvanceBaseline(c)
  PROVE  PassedInv'
<1>1. /\ improver[c].pc \in Writing /\ "audit" \in Writing /\ Goto(c, "audit")
      /\ UNCHANGED lineage /\ baseline' = {lineage[improver[c].best].scores}
      /\ improver[c].best \in DOMAIN lineage
  BY DEF AdvanceBaseline, ScoresInForce, Writing, ActiveRows
<1>2. baseline' \subseteq Scores /\ \A a, b \in baseline' : a = b
  BY <1>1 DEF PassedInv
<1>3. QED BY <1>1, <1>2, WritePassed DEF PassedInv

LEMMA RollbackPassed ==
  ASSUME ImprovementInv, PassedInv, NEW c \in Improvers, Rollback(c)
  PROVE  PassedInv'
<1>1. PICK v, k : /\ k = [Idle EXCEPT !.pc = "flip", !.kind = "rollback", !.best = v]
                  /\ SetImprover(c, k)
  BY DEF Rollback
<1>2. k.kind = "rollback" /\ k.baseScores = NoScores /\ k.bestScores = NoScores
  BY <1>1 DEF Idle
<1>3. UNCHANGED <<lineage, baseline>>
  BY DEF Rollback
<1>4. QED BY <1>1, <1>2, <1>3, QuietStep DEF ScoredBy, Scores

LEMMA ProcessDiesPassed ==
  ASSUME ImprovementInv, PassedInv, ProcessDies
  PROVE  PassedInv'
<1>1. PICK k : k = [Idle EXCEPT !.pc = "dead"]
  OBVIOUS
<1>2. ScoredBy(k) /\ k.pc = "dead"
  BY <1>1 DEF ScoredBy, Scores, Idle, NoScores
<1>3. /\ UNCHANGED <<lineage, baseline>>
      /\ improver' = [c \in Improvers |-> IF improver[c].pc \in {"new", "done", "raised"}
                                          THEN improver[c] ELSE k]
  BY <1>1 DEF ProcessDies
<1>4. \A c \in Improvers : ScoredBy(improver'[c]) /\ ~Advancing(improver'[c])
  BY <1>2, <1>3 DEF PassedInv, Advancing
<1>5. QED BY <1>3, <1>4 DEF PassedInv, ScoredBy, Advancing

LEMMA PassedInvInit == ImprovementInit => PassedInv
<1> SUFFICES ASSUME ImprovementInit PROVE PassedInv
  OBVIOUS
<1>1. ScoredBy(Idle) /\ ~Advancing(Idle)
  BY DEF ScoredBy, Scores, Idle, NoScores, Advancing
<1>2. lineage = <<>> /\ baseline = {} /\ improver = [c \in Improvers |-> Idle]
  BY DEF ImprovementInit
<1>3. QED BY <1>1, <1>2 DEF PassedInv

LEMMA PassedInvStep ==
  ImprovementInv /\ PassedInv /\ [ImprovementNext]_improvementVars => PassedInv'
<1> SUFFICES ASSUME ImprovementInv, PassedInv, [ImprovementNext]_improvementVars PROVE PassedInv'
  OBVIOUS
<1>1. CASE UNCHANGED improvementVars \/ CancelContext
  BY <1>1 DEF improvementVars, CancelContext, PassedInv, ScoredBy, Passed, Advancing, IsRegression, Delta
<1>2. ASSUME NEW c \in Improvers, BenchmarkRaises(c) \/ Audit(c) PROVE PassedInv'
  <2>1. PICK pc, reason, active :
           pc \in {"done", "raised"} /\ SetImprover(c, Over(improver[c], pc, reason, active))
    BY <1>2 DEF BenchmarkRaises, Audit
  <2>2. UNCHANGED <<lineage, baseline>>
    BY <1>2 DEF BenchmarkRaises, Audit
  <2>3. QED BY <2>1, <2>2, OverPassed
<1>3. ASSUME NEW c \in Improvers,
             \/ BeginImprove(c) \/ BaseScored(c) \/ TrialScored(c) \/ RecordBase(c)
             \/ SeedBaseline(c) \/ Decide(c) \/ FlipRow(c) \/ AdvanceBaseline(c) \/ Rollback(c)
      PROVE  PassedInv'
  BY <1>3, BeginImprovePassed, BaseScoredPassed, TrialScoredPassed, RecordBasePassed,
     SeedBaselinePassed, DecidePassed, FlipRowPassed, AdvanceBaselinePassed, RollbackPassed
<1>4. QED BY <1>1, <1>2, <1>3, ProcessDiesPassed DEF ImprovementNext

LEMMA BaselineStandsInStep ==
  ImprovementInv /\ PassedInv /\ [ImprovementNext]_improvementVars => BaselineStands
<1> SUFFICES ASSUME ImprovementInv, PassedInv, [ImprovementNext]_improvementVars,
                    NEW c \in busy, NEW b \in baseline, improver[c].kind = "improve",
                    NEW new \in baseline'
             PROVE  ~IsRegression(b, new)
  BY DEF BaselineStands
<1>1. CASE UNCHANGED baseline
  BY <1>1, NoRegressionAgainstItself DEF PassedInv
<1>2. ASSUME NEW d \in Improvers, SeedBaseline(d) PROVE ~IsRegression(b, new)
  <2>1. UNCHANGED baseline
    BY <1>2 DEF SeedBaseline
  <2>2. QED BY <1>1, <2>1
<1>3. ASSUME NEW d \in Improvers, AdvanceBaseline(d) PROVE ~IsRegression(b, new)
  <2>1. improver[d].pc = "flip" /\ new = lineage[improver[d].best].scores
    BY <1>3 DEF AdvanceBaseline, ScoresInForce
  <2>2. c = d
    BY <2>1, Alone DEF Writing
  <2>3. Passed(improver[c])
    BY <2>1, <2>2 DEF PassedInv, Advancing
  <2>4. QED BY <2>1, <2>2, <2>3 DEF Passed
<1>4. ASSUME NEW d \in Improvers,
             \/ BeginImprove(d) \/ BaseScored(d) \/ TrialScored(d) \/ BenchmarkRaises(d)
             \/ RecordBase(d) \/ FlipRow(d) \/ Audit(d) \/ Rollback(d) \/ Decide(d)
      PROVE  UNCHANGED baseline
  BY <1>4 DEF BeginImprove, BaseScored, TrialScored, BenchmarkRaises, RecordBase, FlipRow, Audit,
              Rollback, Decide, NotPromoted
<1>5. CASE UNCHANGED improvementVars \/ CancelContext \/ ProcessDies
  BY <1>1, <1>5 DEF improvementVars, CancelContext, ProcessDies
<1>6. QED BY <1>1, <1>2, <1>3, <1>4, <1>5 DEF ImprovementNext

\* However many calls tune at once, whatever they measure, and whatever others promote or
\* roll back meanwhile: a call of improve never puts scores into the baseline that regress,
\* beyond the tolerance, against those it finds there (tuner.promote_gated).
THEOREM PromotionNeverRegresses == ImprovementSpec => [][BaselineStands]_improvementVars
<1>1. ImprovementSpec => [](ImprovementInv /\ PassedInv)
  BY ImprovementInvInit, ImprovementInvStep, PassedInvInit, PassedInvStep, PTL DEF ImprovementSpec
<1>2. ImprovementInv /\ PassedInv /\ [ImprovementNext]_improvementVars
         => [BaselineStands]_improvementVars
  BY BaselineStandsInStep
<1>3. QED BY <1>1, <1>2, PTL DEF ImprovementSpec
----------------------------------------------------------------------------
(* Watch                                                                    *)

Kinds == {"start", "done", "failed", "model", "metric", "observer", "capped"}
Events == [kind : Kinds, ts : Nat, cost : Nat]

\* Once halted, the ceiling lies below what has been spent, and every call costs something
\* or nothing: the next charge breaches it.
WatchInv ==
    /\ now \in Nat /\ stream \in Seq(Events) /\ outlay \in Nat /\ ceiling \in Int
    /\ halted \in BOOLEAN /\ (halted => ceiling < outlay)
----------------------------------------------------------------------------
\* What is added to a stream leaves the calls in it where they are.
LEMMA Added ==
  ASSUME NEW s \in Seq(Events), NEW t \in Seq(Events), \A i \in DOMAIN t : t[i].kind # "model"
  PROVE  s \o t \in Seq(Events) /\ Models(s \o t) = Models(s)
<1>1. /\ s \o t \in Seq(Events) /\ DOMAIN s = 1 .. Len(s) /\ DOMAIN t = 1 .. Len(t)
      /\ Len(s) \in Nat /\ Len(t) \in Nat /\ DOMAIN (s \o t) = 1 .. Len(s) + Len(t)
  OBVIOUS
<1>2. \A i \in DOMAIN s : i \in DOMAIN (s \o t) /\ (s \o t)[i] = s[i]
  BY <1>1
<1>3. ASSUME NEW i \in DOMAIN (s \o t), i \notin DOMAIN s PROVE (s \o t)[i].kind # "model"
  <2>1. i - Len(s) \in DOMAIN t /\ (s \o t)[i] = t[i - Len(s)]
    BY <1>1, <1>3
  <2>2. QED BY <2>1
<1>4. {j \in DOMAIN (s \o t) : (s \o t)[j].kind = "model"} = {j \in DOMAIN s : s[j].kind = "model"}
  BY <1>2, <1>3
<1>5. QED BY <1>1, <1>2, <1>4 DEF Models

LEMMA OneAdded ==
  ASSUME NEW s \in Seq(Events), NEW e \in Events
  PROVE  /\ Append(s, e) \in Seq(Events)
         /\ e.kind # "model" => Models(Append(s, e)) = Models(s)
<1>1. Append(s, e) = s \o <<e>> /\ <<e>> \in Seq(Events)
  OBVIOUS
<1>2. \A i \in DOMAIN <<e>> : <<e>>[i] = e
  OBVIOUS
<1>3. Append(s, e) \in Seq(Events)
  OBVIOUS
<1>4. QED BY <1>1, <1>2, <1>3, Added

LEMMA EventIs ==
  ASSUME NEW kind \in Kinds, NEW at \in Nat, NEW cost \in Nat
  PROVE  Event(kind, at, cost) \in Events /\ Event(kind, at, cost).kind = kind
BY DEF Event, Events, Kinds

\* A step keeps the invariant, and a halt is final.
Final == WatchInv' /\ HaltStands

LEMMA StartRunFinal ==
  ASSUME WatchInv, StartRun
  PROVE  Final
<1>1. /\ stream' = Append(stream, Event("start", Unstamped, 0))
      /\ UNCHANGED <<now, outlay, ceiling, halted>> /\ ~halted
  BY DEF StartRun
<1>2. stream' \in Seq(Events)
  BY <1>1, EventIs, OneAdded DEF WatchInv, Kinds, Unstamped
<1>3. QED BY <1>1, <1>2 DEF Final, WatchInv, HaltStands

LEMMA FinishRunFinal ==
  ASSUME WatchInv, FinishRun
  PROVE  Final
<1>1. UNCHANGED <<now, outlay, ceiling, halted>>
  BY DEF FinishRun
<1>2. PICK kind \in {"done", "failed"} : stream' = Append(stream, Event(kind, Unstamped, 0))
  BY DEF FinishRun
<1>3. Event(kind, Unstamped, 0) \in Events /\ Event(kind, Unstamped, 0).kind # "model"
  BY <1>2, EventIs DEF Kinds, Unstamped
<1>4. stream' \in Seq(Events) /\ Models(stream') = Models(stream)
  BY <1>2, <1>3, OneAdded DEF WatchInv
<1>5. QED BY <1>1, <1>4 DEF Final, WatchInv, HaltStands

LEMMA NoteFinal ==
  ASSUME WatchInv, Note
  PROVE  Final
<1>1. UNCHANGED <<now, outlay, ceiling, halted>>
  BY DEF Note
<1>2. PICK at \in {Unstamped, now} : stream' = Capped(Event("metric", at, 0))
  BY DEF Note
<1>3. /\ Event("metric", at, 0) \in Events /\ Event("metric", at, 0).kind # "model"
      /\ Event("capped", Unstamped, 0) \in Events /\ Event("capped", Unstamped, 0).kind # "model"
  BY <1>2, EventIs DEF Kinds, Unstamped, WatchInv
<1>4. stream' \in Seq(Events) /\ Models(stream') = Models(stream)
  BY <1>2, <1>3, OneAdded DEF Capped, WatchInv
<1>5. QED BY <1>1, <1>4 DEF Final, WatchInv, HaltStands

LEMMA EndCallFinal ==
  ASSUME WatchInv, NEW w \in Callers, EndCall(w)
  PROVE  Final
<1>1. PICK c \in CallPrices :
         /\ outlay' = outlay + c
         /\ stream' = IF outlay' > ceiling THEN stream
                     ELSE Append(stream, Event("model", Unstamped, c))
  BY DEF EndCall
<1>2. UNCHANGED <<now, ceiling, halted>>
  BY DEF EndCall
<1>3. c \in Nat /\ outlay \in Nat /\ ceiling \in Int /\ stream \in Seq(Events) /\ outlay' \in Nat
  BY <1>1, WatchAssumption DEF WatchInv
<1>4. stream' \in Seq(Events)
  <2>1. Event("model", Unstamped, c) \in Events
    BY <1>3, EventIs DEF Kinds, Unstamped
  <2>2. QED BY <1>1, <1>3, <2>1, OneAdded
<1>5. ASSUME halted PROVE outlay' > ceiling
  BY <1>1, <1>3, <1>5 DEF WatchInv
<1>6. QED BY <1>1, <1>2, <1>3, <1>4, <1>5 DEF Final, WatchInv, HaltStands

LEMMA GuardFinal ==
  ASSUME WatchInv, NEW at \in Nat, GuardAt(at)
  PROVE  Final
<1>1. /\ stream' = stream \o Findings(at)
      /\ halted' = (halted \/ "flood" \in Firing(at))
      /\ ceiling' = IF "flood" \in Firing(at) THEN HaltCeiling ELSE ceiling
      /\ UNCHANGED <<now, outlay>>
  BY DEF GuardAt
<1>2. IsFiniteSet(Firing(at))
  <2>1. Firing(at) \subseteq {"flood", "spike", "failure", "stuck"}
    BY DEF Firing, Fires
  <2>2. IsFiniteSet({"flood", "spike", "failure", "stuck"})
    <3>1. IsFiniteSet({})
      BY FS_EmptySet
    <3>2. IsFiniteSet({} \cup {"flood"})
      BY <3>1, FS_AddElement
    <3>3. IsFiniteSet(({} \cup {"flood"}) \cup {"spike"})
      BY <3>2, FS_AddElement
    <3>4. IsFiniteSet((({} \cup {"flood"}) \cup {"spike"}) \cup {"failure"})
      BY <3>3, FS_AddElement
    <3>5. IsFiniteSet(((({} \cup {"flood"}) \cup {"spike"}) \cup {"failure"}) \cup {"stuck"})
      BY <3>4, FS_AddElement
    <3>6. {"flood", "spike", "failure", "stuck"} =
             ((({} \cup {"flood"}) \cup {"spike"}) \cup {"failure"}) \cup {"stuck"}
      OBVIOUS
    <3>7. QED BY <3>5, <3>6
  <2>3. QED BY <2>1, <2>2, FS_Subset
<1>3. PICK n \in Nat : n = Cardinality(Firing(at))
  BY <1>2, FS_CardinalityType
<1>4. PICK e \in Events : e = Event("observer", at, 0) /\ e.kind # "model"
  BY EventIs DEF Kinds
<1>5. PICK t \in Seq(Events) : t = [i \in 1 .. n |-> e]
  <2>1. [i \in 1 .. n |-> e] \in Seq(Events)
    OBVIOUS
  <2>2. QED BY <2>1
<1>6. stream' = stream \o t /\ \A i \in DOMAIN t : t[i].kind # "model"
  BY <1>1, <1>3, <1>4, <1>5 DEF Findings
<1>7. stream' \in Seq(Events) /\ Models(stream') = Models(stream)
  BY <1>6, Added DEF WatchInv
<1>8. QED BY <1>1, <1>7 DEF Final, WatchInv, HaltStands, HaltCeiling

LEMMA InstantIs ==
  ASSUME WatchInv, NEW at \in Instants
  PROVE  at \in Nat
<1>1. now \in Nat /\ Unstamped \in Nat
  BY DEF WatchInv, Unstamped
<1>2. ASSUME NEW i \in DOMAIN stream PROVE stream[i].ts \in Nat
  <2>1. stream[i] \in Events
    BY <1>2 DEF WatchInv
  <2>2. QED BY <2>1 DEF Events
<1>3. Stamps \subseteq Nat
  BY <1>1, <1>2 DEF Stamps
<1>4. QED BY <1>1, <1>3 DEF Instants

LEMMA WatchInvInit == WatchInit => WatchInv
<1> SUFFICES ASSUME WatchInit PROVE WatchInv
  OBVIOUS
<1>1. now = 0 /\ stream = <<>> /\ outlay = 0 /\ ceiling = WatchLimit /\ halted = FALSE
  BY DEF WatchInit
<1>2. stream \in Seq(Events)
  BY <1>1
<1>3. halted \in BOOLEAN /\ ~halted
  BY <1>1, Zenon
<1>4. QED BY <1>1, <1>2, <1>3, WatchAssumption DEF WatchInv

LEMMA WatchStep == WatchInv /\ [WatchNext]_watchVars => Final
<1> SUFFICES ASSUME WatchInv, [WatchNext]_watchVars PROVE Final
  OBVIOUS
<1>1. CASE UNCHANGED watchVars
  BY <1>1 DEF watchVars, Final, WatchInv, HaltStands
<1>2. CASE Clock
  BY <1>2 DEF Clock, Final, WatchInv, HaltStands
<1>3. ASSUME NEW w \in Callers, BeginCall(w) PROVE Final
  BY <1>3 DEF BeginCall, Final, WatchInv, HaltStands
<1>4. QED
  BY <1>1, <1>2, <1>3, StartRunFinal, FinishRunFinal, NoteFinal, EndCallFinal, GuardFinal, InstantIs
     DEF WatchNext, Guard

(* Once the guard has halted a run, no call of it is taken for an answer, not   *)
(* those in flight either, whatever they cost and whatever fires again          *)
(* (anomaly.AnomalyGuard, runtime.CostBudget.charge).                           *)
THEOREM HaltIsFinal == WatchSpec => [][HaltStands]_watchVars
<1>1. WatchSpec => []WatchInv
  BY WatchInvInit, WatchStep, PTL DEF WatchSpec, Final
<1>2. WatchInv /\ [WatchNext]_watchVars => [HaltStands]_watchVars
  BY WatchStep DEF Final
<1>3. QED BY <1>1, <1>2, PTL DEF WatchSpec
----------------------------------------------------------------------------
(* Transfer                                                                 *)

TransferInv ==
    IsDefinition(sibling) /\ \A state \in weights : \E d : IsDefinition(d) /\ state = StateDict(d)

\* What a role is given is what was asked for, and a role that the weights lack is let be.
LEMMA LoadedAgentIs ==
  ASSUME NEW agent, agent = [role |-> agent.role, knobs |-> [g \in RoleGroups |-> agent.knobs[g]]],
         NEW state, NEW only
  PROVE  LoadedAgent(agent, state, only) =
           [role |-> agent.role,
            knobs |-> [g \in RoleGroups |->
                         IF agent.role \in DOMAIN state.roles /\ g \in only
                         THEN state.roles[agent.role][g] ELSE agent.knobs[g]]]
<1>1. CASE agent.role \in DOMAIN state.roles
  <2> DEFINE new == [g \in RoleGroups |->
                       IF g \in only THEN state.roles[agent.role][g] ELSE agent.knobs[g]]
  <2>1. LoadedAgent(agent, state, only) = [agent EXCEPT !.knobs = new]
    BY <1>1 DEF LoadedAgent
  <2>2. new = [g \in RoleGroups |-> IF agent.role \in DOMAIN state.roles /\ g \in only
                                   THEN state.roles[agent.role][g] ELSE agent.knobs[g]]
    BY <1>1
  <2> HIDE DEF new
  <2>3. [agent EXCEPT !.knobs = new] = [role |-> agent.role, knobs |-> new]
    OBVIOUS
  <2>4. QED BY <2>1, <2>2, <2>3
<1>2. CASE agent.role \notin DOMAIN state.roles
  <2>1. LoadedAgent(agent, state, only) = agent
    BY <1>2 DEF LoadedAgent
  <2>2. [g \in RoleGroups |-> agent.knobs[g]] =
          [g \in RoleGroups |-> IF agent.role \in DOMAIN state.roles /\ g \in only
                                THEN state.roles[agent.role][g] ELSE agent.knobs[g]]
    BY <1>2
  <2>3. QED BY <2>1, <2>2, Zenon
<1>3. QED BY <1>1, <1>2

\* What a Definition is after a load, agent by agent
IsLoad(result, d, state, only) ==
    /\ IsDefinition(result)
    /\ DOMAIN result.agents = DOMAIN d.agents /\ Len(result.agents) = Len(d.agents)
    /\ \A k \in DOMAIN d.agents :
         /\ result.agents[k].role = d.agents[k].role
         /\ result.agents[k].knobs =
              [g \in RoleGroups |->
                 IF d.agents[k].role \in DOMAIN state.roles /\ g \in only
                 THEN state.roles[d.agents[k].role][g] ELSE d.agents[k].knobs[g]]
    /\ result.coordination = IF "coordination" \in only THEN state.coordination ELSE d.coordination
    /\ result.fewshots = IF "fewshots" \in only THEN state.fewshots ELSE d.fewshots
    /\ result.io = d.io /\ result.deps = d.deps

LEMMA LoadedIs ==
  ASSUME NEW d, IsDefinition(d), NEW state, NEW only
  PROVE  IsLoad(Loaded(d, state, only), d, state, only)
<1> DEFINE result == Loaded(d, state, only)
           Of(agent) ==
             [role |-> agent.role,
              knobs |-> [g \in RoleGroups |->
                           IF agent.role \in DOMAIN state.roles /\ g \in only
                           THEN state.roles[agent.role][g] ELSE agent.knobs[g]]]
<1>1. PICK n \in Nat : DOMAIN d.agents = 1 .. n /\ Len(d.agents) = n
  BY DEF IsDefinition
<1>2. /\ result.agents = [k \in 1 .. n |-> LoadedAgent(d.agents[k], state, only)]
      /\ result.coordination = IF "coordination" \in only THEN state.coordination ELSE d.coordination
      /\ result.fewshots = IF "fewshots" \in only THEN state.fewshots ELSE d.fewshots
      /\ result.io = d.io /\ result.deps = d.deps
      /\ result = [agents |-> result.agents, io |-> result.io, deps |-> result.deps,
                   coordination |-> result.coordination, fewshots |-> result.fewshots]
  BY <1>1 DEF Loaded, LoadedFewshots
<1>3. \A k \in 1 .. n : result.agents[k] = Of(d.agents[k])
  <2> SUFFICES ASSUME NEW k \in 1 .. n PROVE result.agents[k] = Of(d.agents[k])
    OBVIOUS
  <2>1. result.agents[k] = LoadedAgent(d.agents[k], state, only)
    BY <1>2
  <2>2. d.agents[k] = [role |-> d.agents[k].role,
                       knobs |-> [g \in RoleGroups |-> d.agents[k].knobs[g]]]
    BY <1>1, Zenon DEF IsDefinition, Range
  <2>3. PICK agent : agent = d.agents[k]
    OBVIOUS
  <2>4. agent = [role |-> agent.role, knobs |-> [g \in RoleGroups |-> agent.knobs[g]]]
    BY <2>2, <2>3, Zenon
  <2>5. LoadedAgent(agent, state, only) = Of(agent)
    BY <2>4, LoadedAgentIs
  <2>6. QED BY <2>1, <2>3, <2>5, Zenon
<1>8. ASSUME NEW k \in 1 .. n
      PROVE  /\ result.agents[k].role = d.agents[k].role
             /\ result.agents[k].knobs = Of(d.agents[k]).knobs
  <2>1. PICK new : new = Of(d.agents[k])
    OBVIOUS
  <2>2. new.role = d.agents[k].role /\ new.knobs = Of(d.agents[k]).knobs
    BY <2>1
  <2>3. result.agents[k] = new
    BY <1>3, <2>1, Zenon
  <2>4. QED BY <2>2, <2>3, Zenon
<1>9. \A k \in 1 .. n : Of(d.agents[k]).knobs =
        [g \in RoleGroups |->
           IF d.agents[k].role \in DOMAIN state.roles /\ g \in only
           THEN state.roles[d.agents[k].role][g] ELSE d.agents[k].knobs[g]]
  OBVIOUS
<1>4. result.agents \in Seq(Range(result.agents)) /\ Len(result.agents) = n
      /\ DOMAIN result.agents = 1 .. n
  <2> DEFINE agents == result.agents
  <2>1. DOMAIN agents = 1 .. n /\ agents = [k \in 1 .. n |-> agents[k]]
    BY <1>2
  <2> HIDE DEF agents
  <2>2. \A k \in 1 .. n : agents[k] \in Range(agents)
    BY <2>1 DEF Range
  <2>3. agents \in Seq(Range(agents))
    BY <2>1, <2>2, SeqDef
  <2>4. QED BY <2>1, <2>3 DEF agents
<1>5. ASSUME NEW agent \in Range(result.agents)
      PROVE  agent = [role |-> agent.role, knobs |-> [g \in RoleGroups |-> agent.knobs[g]]]
  <2>1. PICK k \in 1 .. n : agent = Of(d.agents[k])
    BY <1>3, <1>4, Zenon DEF Range
  <2>2. QED BY <2>1
<1> HIDE DEF result
<1>6. IsDefinition(result)
  BY <1>2, <1>4, <1>5, Zenon DEF IsDefinition
<1>7. IsLoad(result, d, state, only)
  BY <1>1, <1>2, <1>4, <1>6, <1>8, <1>9, Zenon DEF IsLoad
<1>10. QED BY <1>7 DEF result

\* Two Definitions are one if their parts are.
LEMMA SameDefinition ==
  ASSUME NEW d, IsDefinition(d), NEW e, IsDefinition(e), DOMAIN d.agents = DOMAIN e.agents,
         \A k \in DOMAIN d.agents :
            d.agents[k].role = e.agents[k].role /\ d.agents[k].knobs = e.agents[k].knobs,
         d.io = e.io, d.deps = e.deps, d.coordination = e.coordination, d.fewshots = e.fewshots
  PROVE  d = e
<1>1. d.agents = e.agents
  <2>1. PICK S, T : d.agents \in Seq(S) /\ e.agents \in Seq(T)
    BY DEF IsDefinition
  <2>2. \A k \in DOMAIN d.agents : d.agents[k] = e.agents[k]
    <3> SUFFICES ASSUME NEW k \in DOMAIN d.agents PROVE d.agents[k] = e.agents[k]
      OBVIOUS
    <3>1. PICK x \in Range(d.agents), y \in Range(e.agents) : x = d.agents[k] /\ y = e.agents[k]
      BY DEF Range
    <3>2. /\ x = [role |-> x.role, knobs |-> [g \in RoleGroups |-> x.knobs[g]]]
          /\ y = [role |-> y.role, knobs |-> [g \in RoleGroups |-> y.knobs[g]]]
      BY Zenon DEF IsDefinition
    <3>3. x.role = y.role /\ x.knobs = y.knobs
      BY <3>1
    <3>4. x = y
      BY <3>2, <3>3, Zenon
    <3>5. QED BY <3>1, <3>4
  <2>3. QED BY <2>1, <2>2
<1>2. [agents |-> d.agents, io |-> d.io, deps |-> d.deps,
       coordination |-> d.coordination, fewshots |-> d.fewshots] =
      [agents |-> e.agents, io |-> e.io, deps |-> e.deps,
       coordination |-> e.coordination, fewshots |-> e.fewshots]
  BY <1>1, Zenon
<1>3. QED BY <1>2, Zenon DEF IsDefinition

\* The knobs of a role are those of an agent that has it.
LEMMA KnobsOfIs ==
  ASSUME NEW d, IsDefinition(d), NEW role \in RolesIn(d)
  PROVE  \E k \in DOMAIN d.agents : d.agents[k].role = role /\ KnobsOf(d, role) = d.agents[k].knobs
<1>1. PICK n \in Nat : n = Len(d.agents) /\ DOMAIN d.agents = 1 .. n
  BY DEF IsDefinition
<1> DEFINE Has(k) == d.agents[k].role = role
           Late(k) == Has(k) /\ \A j \in DOMAIN d.agents : Has(j) => j <= k
           T == {k \in 1 .. n : Has(k)}
           R == {p \in Nat \X Nat : p[1] < p[2]}
<1>2. T # {}
  BY <1>1 DEF RolesIn, Range
<1>3. IsFiniteSet(T)
  <2>1. T \in SUBSET (1 .. n) /\ IsFiniteSet(1 .. n)
    BY FS_Interval
  <2>2. QED BY <2>1, FS_Subset
<1>4. \E k \in T : \A j \in T : <<k, j>> \notin R
  <2>1. \A x, y, z \in T : <<x, y>> \in R /\ <<y, z>> \in R => <<x, z>> \in R
    OBVIOUS
  <2>2. \A x \in T : <<x, x>> \notin R
    OBVIOUS
  <2> HIDE DEF T, R
  <2>3. QED BY <1>2, <1>3, <2>1, <2>2, HasMaximal
<1>5. PICK k \in 1 .. n : Has(k) /\ \A j \in T : <<k, j>> \notin R
  BY <1>4
<1>6. \A j \in 1 .. n : Has(j) => j <= k
  <2> SUFFICES ASSUME NEW j \in 1 .. n, Has(j), j > k PROVE FALSE
    BY <1>1
  <2>1. j \in T /\ <<k, j>> \in R
    BY <1>1
  <2>2. QED BY <1>5, <2>1
<1>7. \E l \in DOMAIN d.agents : Late(l)
  BY <1>1, <1>5, <1>6
<1>8. KnobsOf(d, role) = d.agents[CHOOSE l \in DOMAIN d.agents : Late(l)].knobs
  BY DEF KnobsOf
<1> HIDE DEF Late
<1>9. PICK l \in DOMAIN d.agents : Late(l) /\ KnobsOf(d, role) = d.agents[l].knobs
  BY <1>7, <1>8
<1>10. QED BY <1>9 DEF Late

\* Where no role is there twice, an agent is known by its role.
LEMMA KnownByRole ==
  ASSUME NEW d, IsDefinition(d), OneOfEachRole(d), NEW j \in DOMAIN d.agents, NEW k \in DOMAIN d.agents,
         d.agents[j].role = d.agents[k].role
  PROVE  j = k
<1>1. PICK n \in Nat : n = Len(d.agents) /\ DOMAIN d.agents = 1 .. n
  BY DEF IsDefinition
<1> DEFINE role == [i \in 1 .. n |-> d.agents[i].role]
<1>2. role \in Surjection(1 .. n, RolesIn(d))
  <2>1. \A i \in 1 .. n : role[i] \in RolesIn(d)
    BY <1>1 DEF RolesIn, Range
  <2>2. \A r \in RolesIn(d) : \E i \in 1 .. n : role[i] = r
    BY <1>1 DEF RolesIn, Range
  <2>3. role \in [1 .. n -> RolesIn(d)]
    BY <2>1
  <2> HIDE DEF role
  <2>4. QED BY <2>2, <2>3 DEF Surjection
<1>3. IsFiniteSet(1 .. n) /\ Cardinality(1 .. n) = n
  BY FS_Interval
<1>4. Cardinality(RolesIn(d)) = n
  BY <1>1 DEF OneOfEachRole
<1>5. role \in Injection(1 .. n, RolesIn(d))
  <2> HIDE DEF role
  <2>1. QED BY <1>2, <1>3, <1>4, FS_Surjection
<1>6. role[j] = role[k]
  BY <1>1
<1>7. QED BY <1>1, <1>5, <1>6 DEF Injection, IsInjective

LEMMA TransferStarts == TransferInit => TransferInv
BY TransferAssumption DEF TransferInit, TransferInv

LEMMA TransferKept == TransferInv /\ [TransferNext]_transferVars => TransferInv'
<1> SUFFICES ASSUME TransferInv, [TransferNext]_transferVars PROVE TransferInv'
  OBVIOUS
<1>1. CASE UNCHANGED transferVars
  BY <1>1 DEF transferVars, TransferInv
<1>2. ASSUME NEW d \in Blueprints \cup {sibling}, Extract(d)
      PROVE  TransferInv'
  <2>1. IsDefinition(d)
    BY TransferAssumption DEF TransferInv
  <2>2. QED BY <1>2, <2>1 DEF Extract, TransferInv
<1>3. ASSUME NEW only \in SUBSET KnobGroups, NEW strict \in BOOLEAN, LoadState(only, strict)
      PROVE  TransferInv'
  <2>1. PICK state \in weights : sibling' = Loaded(sibling, state, only) /\ UNCHANGED weights
    BY <1>3 DEF LoadState
  <2>2. IsDefinition(Loaded(sibling, state, only))
    BY LoadedIs DEF TransferInv, IsLoad
  <2>3. QED BY <2>1, <2>2 DEF TransferInv
<1>4. QED BY <1>1, <1>2, <1>3 DEF TransferNext

\* A load leaves the roles where they are.
LEMMA RolesStay ==
  ASSUME NEW d, IsDefinition(d), NEW state, NEW only
  PROVE  /\ RolesIn(Loaded(d, state, only)) = RolesIn(d)
         /\ Structure(Loaded(d, state, only)).roles = Structure(d).roles
<1> DEFINE e == Loaded(d, state, only)
<1>0. IsLoad(e, d, state, only)
  BY LoadedIs
<1> HIDE DEF e
<1>1. DOMAIN e.agents = DOMAIN d.agents /\ \A k \in DOMAIN d.agents : e.agents[k].role = d.agents[k].role
  BY <1>0 DEF IsLoad
<1>2. RolesIn(e) = RolesIn(d)
  BY <1>1 DEF RolesIn, Range
<1>3. \A role : {k \in DOMAIN e.agents : e.agents[k].role = role} =
                {k \in DOMAIN d.agents : d.agents[k].role = role}
  BY <1>1
<1>4. Structure(e).roles = Structure(d).roles
  BY <1>2, <1>3 DEF Structure
<1>5. QED BY <1>2, <1>4 DEF e

LEMMA ArrivesAll ==
  ASSUME NEW d, IsDefinition(d), NEW s, IsDefinition(s), Structure(d) = Structure(s)
  PROVE  Knobs(StateDict(Loaded(s, StateDict(d), KnobGroups))) = Knobs(StateDict(d))
<1> DEFINE state == StateDict(d)
           result == Loaded(s, state, KnobGroups)
<1>1. state.roles = [role \in RolesIn(d) |-> KnobsOf(d, role)] /\ DOMAIN state.roles = RolesIn(d)
      /\ state.coordination = d.coordination /\ state.fewshots = d.fewshots
  BY DEF StateDict
<1>2. RolesIn(d) = RolesIn(s) /\ RolesIn(result) = RolesIn(s)
  <2>1. DOMAIN Structure(d).roles = RolesIn(d) /\ DOMAIN Structure(s).roles = RolesIn(s)
    BY DEF Structure
  <2>2. QED BY <2>1, RolesStay
<1> HIDE DEF state
<1>7. IsLoad(result, s, state, KnobGroups)
  BY LoadedIs
<1> HIDE DEF result
<1>3. /\ IsDefinition(result) /\ DOMAIN result.agents = DOMAIN s.agents
      /\ result.coordination = state.coordination /\ result.fewshots = state.fewshots
      /\ \A k \in DOMAIN s.agents :
           /\ result.agents[k].role = s.agents[k].role
           /\ result.agents[k].knobs =
                [g \in RoleGroups |->
                   IF s.agents[k].role \in DOMAIN state.roles /\ g \in KnobGroups
                   THEN state.roles[s.agents[k].role][g] ELSE s.agents[k].knobs[g]]
  BY <1>7 DEF IsLoad, KnobGroups
<1>4. ASSUME NEW role \in RolesIn(s) PROVE KnobsOf(result, role) = KnobsOf(d, role)
  <2>1. PICK k \in DOMAIN s.agents :
          result.agents[k].role = role /\ KnobsOf(result, role) = result.agents[k].knobs
    BY <1>2, <1>3, KnobsOfIs
  <2>2. s.agents[k].role = role
    BY <1>3, <2>1
  <2>3. KnobsOf(result, role) =
          [g \in RoleGroups |->
             IF s.agents[k].role \in DOMAIN state.roles /\ g \in KnobGroups
             THEN state.roles[s.agents[k].role][g] ELSE s.agents[k].knobs[g]]
    BY <1>3, <2>1
  <2>4. KnobsOf(result, role) = [g \in RoleGroups |-> KnobsOf(d, role)[g]]
    BY <1>1, <1>2, <2>2, <2>3 DEF KnobGroups
  <2>5. KnobsOf(d, role) = [g \in RoleGroups |-> KnobsOf(d, role)[g]]
    <3>1. PICK j \in DOMAIN d.agents : KnobsOf(d, role) = d.agents[j].knobs
      BY <1>2, KnobsOfIs
    <3>2. PICK agent \in Range(d.agents) : agent = d.agents[j]
      BY DEF Range
    <3>3. agent.knobs = [g \in RoleGroups |-> agent.knobs[g]]
      BY DEF IsDefinition
    <3>4. QED BY <3>1, <3>2, <3>3, Zenon
  <2>6. QED BY <2>4, <2>5, Zenon
<1>5. [role \in RolesIn(result) |-> KnobsOf(result, role)] = [role \in RolesIn(d) |-> KnobsOf(d, role)]
  BY <1>2, <1>4
<1>6. QED BY <1>1, <1>3, <1>5 DEF Knobs, StateDict, state, result

\* Two loads, of which the second asks for these groups, are one of what both asked for.
LEMMA LoadsAdd ==
  ASSUME NEW d, IsDefinition(d), NEW state, NEW first, NEW second, NEW both,
         both = first \cup second
  PROVE  Loaded(Loaded(d, state, first), state, second) = Loaded(d, state, both)
<1> DEFINE once == Loaded(d, state, first)
           twice == Loaded(once, state, second)
           all == Loaded(d, state, both)
<1>0. IsLoad(once, d, state, first) /\ IsLoad(all, d, state, both)
  BY LoadedIs
<1> HIDE DEF once, all
<1>9. IsDefinition(once)
  BY <1>0 DEF IsLoad
<1>8. IsLoad(twice, once, state, second)
  BY <1>9, LoadedIs
<1> HIDE DEF twice
<1>1. /\ IsDefinition(once) /\ DOMAIN once.agents = DOMAIN d.agents
      /\ once.coordination = IF "coordination" \in first THEN state.coordination ELSE d.coordination
      /\ once.fewshots = IF "fewshots" \in first THEN state.fewshots ELSE d.fewshots
      /\ once.io = d.io /\ once.deps = d.deps
      /\ \A k \in DOMAIN d.agents :
           /\ once.agents[k].role = d.agents[k].role
           /\ once.agents[k].knobs =
                [g \in RoleGroups |->
                   IF d.agents[k].role \in DOMAIN state.roles /\ g \in first
                   THEN state.roles[d.agents[k].role][g] ELSE d.agents[k].knobs[g]]
  BY <1>0 DEF IsLoad
<1>2. /\ IsDefinition(all) /\ DOMAIN all.agents = DOMAIN d.agents
      /\ all.coordination = IF "coordination" \in both THEN state.coordination ELSE d.coordination
      /\ all.fewshots = IF "fewshots" \in both THEN state.fewshots ELSE d.fewshots
      /\ all.io = d.io /\ all.deps = d.deps
      /\ \A k \in DOMAIN d.agents :
           /\ all.agents[k].role = d.agents[k].role
           /\ all.agents[k].knobs =
                [g \in RoleGroups |->
                   IF d.agents[k].role \in DOMAIN state.roles /\ g \in both
                   THEN state.roles[d.agents[k].role][g] ELSE d.agents[k].knobs[g]]
  BY <1>0 DEF IsLoad
<1>3. /\ IsDefinition(twice) /\ DOMAIN twice.agents = DOMAIN once.agents
      /\ twice.coordination =
           IF "coordination" \in second THEN state.coordination ELSE once.coordination
      /\ twice.fewshots = IF "fewshots" \in second THEN state.fewshots ELSE once.fewshots
      /\ twice.io = once.io /\ twice.deps = once.deps
      /\ \A k \in DOMAIN once.agents :
           /\ twice.agents[k].role = once.agents[k].role
           /\ twice.agents[k].knobs =
                [g \in RoleGroups |->
                   IF once.agents[k].role \in DOMAIN state.roles /\ g \in second
                   THEN state.roles[once.agents[k].role][g] ELSE once.agents[k].knobs[g]]
  BY <1>8 DEF IsLoad
<1>4. ASSUME NEW k \in DOMAIN d.agents
      PROVE  twice.agents[k].role = all.agents[k].role /\ twice.agents[k].knobs = all.agents[k].knobs
  <2>1. twice.agents[k].role = all.agents[k].role /\ once.agents[k].role = d.agents[k].role
    BY <1>1, <1>2, <1>3
  <2>2. twice.agents[k].knobs =
          [g \in RoleGroups |->
             IF d.agents[k].role \in DOMAIN state.roles /\ g \in second
             THEN state.roles[d.agents[k].role][g] ELSE once.agents[k].knobs[g]]
    BY <1>1, <1>3, <2>1
  <2>3. \A g \in RoleGroups : once.agents[k].knobs[g] =
          IF d.agents[k].role \in DOMAIN state.roles /\ g \in first
          THEN state.roles[d.agents[k].role][g] ELSE d.agents[k].knobs[g]
    BY <1>1
  <2>4. all.agents[k].knobs =
          [g \in RoleGroups |->
             IF d.agents[k].role \in DOMAIN state.roles /\ g \in both
             THEN state.roles[d.agents[k].role][g] ELSE d.agents[k].knobs[g]]
    BY <1>2
  <2>5. QED BY <2>1, <2>2, <2>3, <2>4
<1>5. /\ twice.coordination = all.coordination /\ twice.fewshots = all.fewshots
      /\ twice.io = all.io /\ twice.deps = all.deps
  BY <1>1, <1>2, <1>3
<1>6. twice = all
  BY <1>1, <1>2, <1>3, <1>4, <1>5, SameDefinition
<1>7. QED BY <1>6 DEF twice, once, all

\* What the Definition was is given back to it.
LEMMA LoadUndone ==
  ASSUME NEW d, IsDefinition(d), OneOfEachRole(d), NEW state, NEW only
  PROVE  Loaded(Loaded(d, state, only), StateDict(d), only) = d
<1> DEFINE once == Loaded(d, state, only)
           own == StateDict(d)
           back == Loaded(once, own, only)
<1>0. IsLoad(once, d, state, only)
  BY LoadedIs
<1> HIDE DEF once
<1>9. IsDefinition(once)
  BY <1>0 DEF IsLoad
<1>8. IsLoad(back, once, own, only)
  BY <1>9, LoadedIs
<1> HIDE DEF back
<1>1. /\ IsDefinition(once) /\ DOMAIN once.agents = DOMAIN d.agents
      /\ once.coordination = IF "coordination" \in only THEN state.coordination ELSE d.coordination
      /\ once.fewshots = IF "fewshots" \in only THEN state.fewshots ELSE d.fewshots
      /\ once.io = d.io /\ once.deps = d.deps
      /\ \A k \in DOMAIN d.agents :
           /\ once.agents[k].role = d.agents[k].role
           /\ once.agents[k].knobs =
                [g \in RoleGroups |->
                   IF d.agents[k].role \in DOMAIN state.roles /\ g \in only
                   THEN state.roles[d.agents[k].role][g] ELSE d.agents[k].knobs[g]]
  BY <1>0 DEF IsLoad
<1>2. /\ DOMAIN own.roles = RolesIn(d) /\ \A role \in RolesIn(d) : own.roles[role] = KnobsOf(d, role)
      /\ own.coordination = d.coordination /\ own.fewshots = d.fewshots
  BY DEF StateDict
<1> HIDE DEF own
<1>3. /\ IsDefinition(back) /\ DOMAIN back.agents = DOMAIN once.agents
      /\ back.coordination = IF "coordination" \in only THEN own.coordination ELSE once.coordination
      /\ back.fewshots = IF "fewshots" \in only THEN own.fewshots ELSE once.fewshots
      /\ back.io = once.io /\ back.deps = once.deps
      /\ \A k \in DOMAIN once.agents :
           /\ back.agents[k].role = once.agents[k].role
           /\ back.agents[k].knobs =
                [g \in RoleGroups |->
                   IF once.agents[k].role \in DOMAIN own.roles /\ g \in only
                   THEN own.roles[once.agents[k].role][g] ELSE once.agents[k].knobs[g]]
  BY <1>8 DEF IsLoad
<1>4. ASSUME NEW k \in DOMAIN d.agents
      PROVE  back.agents[k].role = d.agents[k].role /\ back.agents[k].knobs = d.agents[k].knobs
  <2> DEFINE role == d.agents[k].role
  <2>1. back.agents[k].role = role /\ once.agents[k].role = role /\ role \in RolesIn(d)
    BY <1>1, <1>3 DEF RolesIn, Range
  <2>2. KnobsOf(d, role) = d.agents[k].knobs
    <3>1. PICK j \in DOMAIN d.agents : d.agents[j].role = role /\ KnobsOf(d, role) = d.agents[j].knobs
      BY <2>1, KnobsOfIs
    <3>2. j = k
      BY <3>1, KnownByRole
    <3>3. QED BY <3>1, <3>2
  <2>3. own.roles[role] = d.agents[k].knobs
    BY <1>2, <2>1, <2>2
  <2>4. back.agents[k].knobs =
          [g \in RoleGroups |->
             IF once.agents[k].role \in DOMAIN own.roles /\ g \in only
             THEN own.roles[once.agents[k].role][g] ELSE once.agents[k].knobs[g]]
    BY <1>1, <1>3
  <2>5. \A g \in RoleGroups : g \notin only => once.agents[k].knobs[g] = d.agents[k].knobs[g]
    BY <1>1
  <2> HIDE DEF role
  <2>6. \A g \in RoleGroups : back.agents[k].knobs[g] = d.agents[k].knobs[g]
    BY <1>2, <2>1, <2>3, <2>4, <2>5
  <2>7. back.agents[k].knobs = [g \in RoleGroups |-> d.agents[k].knobs[g]]
    BY <2>4, <2>6
  <2>8. d.agents[k].knobs = [g \in RoleGroups |-> d.agents[k].knobs[g]]
    <3>1. PICK agent \in Range(d.agents) : agent = d.agents[k]
      BY DEF Range
    <3>2. agent.knobs = [g \in RoleGroups |-> agent.knobs[g]]
      BY DEF IsDefinition
    <3>3. QED BY <3>1, <3>2, Zenon
  <2>9. back.agents[k].knobs = d.agents[k].knobs
    BY <2>7, <2>8, Zenon
  <2>10. QED BY <2>1, <2>9 DEF role
<1>5. /\ back.coordination = d.coordination /\ back.fewshots = d.fewshots
      /\ back.io = d.io /\ back.deps = d.deps
  BY <1>1, <1>2, <1>3
<1>6. back = d
  BY <1>1, <1>3, <1>4, <1>5, SameDefinition
<1>7. QED BY <1>6 DEF back, once, own

\* The architecture stays, but for a coordination that is asked for and differs.
LEMMA StructureStays ==
  ASSUME NEW d, IsDefinition(d), NEW state, NEW only,
         "coordination" \notin only \/ state.coordination = d.coordination
  PROVE  Structure(Loaded(d, state, only)) = Structure(d)
<1> DEFINE e == Loaded(d, state, only)
<1>1. e.io = d.io /\ e.deps = d.deps /\ e.coordination = d.coordination
  <2>1. IsLoad(e, d, state, only)
    BY LoadedIs
  <2> HIDE DEF e
  <2>2. QED BY <2>1 DEF IsLoad
<1>2. Structure(e).roles = Structure(d).roles
  BY RolesStay
<1> HIDE DEF e
<1>3. /\ Structure(e) = [roles |-> Structure(e).roles, io |-> e.io,
                         deps |-> {x.id : x \in e.deps}, coordination |-> e.coordination]
      /\ Structure(d) = [roles |-> Structure(d).roles, io |-> d.io,
                         deps |-> {x.id : x \in d.deps}, coordination |-> d.coordination]
  BY DEF Structure
<1>4. Structure(e) = Structure(d)
  BY <1>1, <1>2, <1>3, Zenon
<1>5. QED BY <1>4 DEF e

LEMMA KnobsMove == TransferInv => TransferMovesKnobs
<1> SUFFICES ASSUME TransferInv, NEW state \in weights
             PROVE  /\ AllArrives(state)
                    /\ \A only \in SUBSET KnobGroups :
                         LoadsCompose(state, only) /\ LoadsAreUndone(state, only)
  BY DEF TransferMovesKnobs
<1>1. IsDefinition(sibling) /\ \E d : IsDefinition(d) /\ state = StateDict(d)
  BY DEF TransferInv
<1>2. PICK d : IsDefinition(d) /\ state = StateDict(d)
  BY <1>1
<1>3. state.structure = Structure(d) /\ state.coordination = d.coordination
  BY <1>2 DEF StateDict
<1>4. Loadable(sibling, state, TRUE) => Structure(d) = Structure(sibling)
  BY <1>3 DEF Loadable, Incompatible
<1>5. AllArrives(state)
  BY <1>1, <1>2, <1>4, ArrivesAll DEF AllArrives
<1>6. ASSUME NEW only \in SUBSET KnobGroups PROVE LoadsCompose(state, only)
  <2>1. Loaded(Loaded(sibling, state, only), state, only) = Loaded(sibling, state, only)
    BY <1>1, LoadsAdd
  <2>2. ASSUME NEW group \in only
        PROVE  Loaded(Loaded(sibling, state, {group}), state, only \ {group}) =
                 Loaded(sibling, state, only)
    <3>1. only = {group} \cup (only \ {group})
      OBVIOUS
    <3>2. QED BY <1>1, <3>1, LoadsAdd
  <2>3. QED BY <2>1, <2>2 DEF LoadsCompose
<1>7. ASSUME NEW only \in SUBSET KnobGroups PROVE LoadsAreUndone(state, only)
  <2>1. OneOfEachRole(sibling) =>
          Loaded(Loaded(sibling, state, only), StateDict(sibling), only) = sibling
    BY <1>1, LoadUndone
  <2>2. Structure(d) = Structure(sibling) => d.coordination = sibling.coordination
    <3>1. Structure(d).coordination = d.coordination
          /\ Structure(sibling).coordination = sibling.coordination
      BY DEF Structure
    <3>2. QED BY <3>1
  <2>3. Loadable(sibling, state, TRUE) \/ "coordination" \notin only =>
          Structure(Loaded(sibling, state, only)) = Structure(sibling)
    BY <1>1, <1>3, <1>4, <2>2, StructureStays
  <2>4. QED BY <2>1, <2>3 DEF LoadsAreUndone
<1>8. QED BY <1>5, <1>6, <1>7

(* Whatever Definitions there are and however their weights are loaded onto one   *)
(* another: a strict load of everything gives the sibling the knobs of the        *)
(* weights, loads compose group by group and are undone by what the sibling was,  *)
(* and only a coordination that is asked for moves the architecture (load_state). *)
THEOREM TransferStaysExact == TransferSpec => []TransferMovesKnobs
BY TransferStarts, TransferKept, KnobsMove, PTL DEF TransferSpec

----------------------------------------------------------------------------
(* AgentDiff                                                                *)

\* The places of a list that are kept, each at its rank.
LEMMA KeptIs ==
    ASSUME NEW s, NEW places, places \subseteq Nat, IsFiniteSet(places)
    PROVE  /\ Cardinality(places) \in Nat /\ DOMAIN Kept(s, places) = 1 .. Cardinality(places)
           /\ Kept(s, places) = [n \in 1 .. Cardinality(places) |-> Kept(s, places)[n]]
           /\ \A n \in 1 .. Cardinality(places) : \E i \in places : Kept(s, places)[n] = s[i]
           /\ \A i \in places : \E n \in 1 .. Cardinality(places) : Kept(s, places)[n] = s[i]
<1> DEFINE k == Cardinality(places)
           Under(n) == {m \in places : m < n}
           rank == [n \in places |-> Cardinality(Under(n)) + 1]
<1>1. k \in Nat
  BY FS_CardinalityType
<1>2. \A n \in places : /\ IsFiniteSet(Under(n)) /\ Cardinality(Under(n)) \in Nat
                        /\ Cardinality(Under(n)) < k
  <2> SUFFICES ASSUME NEW n \in places
               PROVE  /\ IsFiniteSet(Under(n)) /\ Cardinality(Under(n)) \in Nat
                      /\ Cardinality(Under(n)) < k
    OBVIOUS
  <2>1. Under(n) \subseteq places /\ n \notin Under(n)
    OBVIOUS
  <2> HIDE DEF Under
  <2>2. IsFiniteSet(Under(n)) /\ Cardinality(Under(n)) <= k
        /\ (k = Cardinality(Under(n)) => places = Under(n))
    BY <2>1, FS_Subset
  <2>3. Cardinality(Under(n)) \in Nat
    BY <2>2, FS_CardinalityType
  <2>4. Cardinality(Under(n)) # k
    BY <2>1, <2>2
  <2> HIDE DEF k
  <2>5. QED BY <1>1, <2>2, <2>3, <2>4
<1>3. \A m, n \in places : m < n => Cardinality(Under(m)) < Cardinality(Under(n))
  <2> SUFFICES ASSUME NEW m \in places, NEW n \in places, m < n
               PROVE  Cardinality(Under(m)) < Cardinality(Under(n))
    OBVIOUS
  <2> HIDE DEF rank, k
  <2>1. Under(m) \subseteq Under(n) /\ m \in Under(n) /\ m \notin Under(m)
    <3>1. m \in Nat /\ n \in Nat /\ \A x \in places : x \in Nat
      OBVIOUS
    <3>2. \A x \in places : x < m => x < n
      BY <3>1
    <3>3. m < n /\ ~(m < m)
      BY <3>1
    <3>4. QED BY <3>2, <3>3
  <2> HIDE DEF Under
  <2>2. /\ Cardinality(Under(m)) <= Cardinality(Under(n))
        /\ Cardinality(Under(n)) = Cardinality(Under(m)) => Under(n) = Under(m)
    BY <1>2, <2>1, FS_Subset
  <2>3. Cardinality(Under(m)) # Cardinality(Under(n))
    BY <2>1, <2>2
  <2>4. QED BY <1>2, <2>2, <2>3
<1>4. rank \in Injection(places, 1 .. k)
  <2>1. rank \in [places -> 1 .. k]
    <3> HIDE DEF Under, k
    <3>1. \A n \in places : Cardinality(Under(n)) + 1 \in 1 .. k
      BY <1>1, <1>2
    <3>2. QED BY <3>1
  <2>2. \A m, n \in places : rank[m] = rank[n] => m = n
    <3> SUFFICES ASSUME NEW m \in places, NEW n \in places, rank[m] = rank[n], m # n PROVE FALSE
      OBVIOUS
    <3>1. m < n \/ n < m
      OBVIOUS
    <3> HIDE DEF Under, k
    <3>2. Cardinality(Under(m)) = Cardinality(Under(n))
      BY <1>2
    <3>3. QED BY <1>2, <1>3, <3>1, <3>2
  <2> HIDE DEF rank, k
  <2>3. QED BY <2>1, <2>2 DEF Injection, IsInjective
<1>5. rank \in Surjection(places, 1 .. k)
  <2> HIDE DEF rank
  <2>1. IsFiniteSet(1 .. k) /\ Cardinality(1 .. k) = k
    <3>1. 1 \in Int /\ k \in Int /\ (1 > k => k = 0)
      BY <1>1
    <3>2. QED BY <3>1, FS_Interval
  <2>2. QED BY <1>4, <2>1, FS_Injection
<1>6. \A n \in 1 .. k : \E i \in places : rank[i] = n
  BY <1>5 DEF Surjection
<1>7. \A i \in places : rank[i] \in 1 .. k
  <2> HIDE DEF rank
  <2>1. QED BY <1>4 DEF Injection
<1>8. \A i \in places : rank[i] = Cardinality(Under(i)) + 1
  OBVIOUS
<1>9. \A i, j \in places : rank[i] = rank[j] => i = j
  <2> HIDE DEF rank
  <2>1. QED BY <1>4 DEF Injection, IsInjective
<1> DEFINE Place(n) == CHOOSE i \in places : Cardinality({j \in places : j < i}) = n - 1
<1>10. \A n \in 1 .. k : Place(n) \in places /\ rank[Place(n)] = n
  <2> SUFFICES ASSUME NEW n \in 1 .. k PROVE Place(n) \in places /\ rank[Place(n)] = n
    OBVIOUS
  <2> DEFINE Lies(i) == Cardinality(Under(i)) = n - 1
  <2>1. \A i \in places : Lies(i) <=> rank[i] = n
    <3> HIDE DEF Under, rank, k
    <3>1. QED BY <1>1, <1>2, <1>8
  <2>2. Place(n) = CHOOSE i \in places : Lies(i)
    OBVIOUS
  <2> HIDE DEF Lies, Place, rank, k, Under
  <2>3. QED BY <1>6, <2>1, <2>2
<1>11. Kept(s, places) = [n \in 1 .. k |-> s[Place(n)]]
  BY DEF Kept
<1> HIDE DEF k, rank, Under, Place
<1>12. \A i \in places : Place(rank[i]) = i
  BY <1>7, <1>9, <1>10
<1>13. QED BY <1>1, <1>7, <1>10, <1>11, <1>12 DEF k

LEMMA KeptRange ==
    ASSUME NEW T, NEW s \in Seq(T), NEW places, places \subseteq DOMAIN s
    PROVE  Kept(s, places) \in Seq(T) /\ Range(Kept(s, places)) = {s[i] : i \in places}
<1>1. places \subseteq Nat /\ IsFiniteSet(places)
  <2>1. PICK n \in Nat : DOMAIN s = 1 .. n
    OBVIOUS
  <2>2. IsFiniteSet(1 .. n)
    BY <2>1, FS_Interval
  <2>3. QED BY <2>1, <2>2, FS_Subset
<1>2. PICK k \in Nat : /\ DOMAIN Kept(s, places) = 1 .. k
                       /\ Kept(s, places) = [n \in 1 .. k |-> Kept(s, places)[n]]
                       /\ \A n \in 1 .. k : \E i \in places : Kept(s, places)[n] = s[i]
                       /\ \A i \in places : \E n \in 1 .. k : Kept(s, places)[n] = s[i]
  BY <1>1, KeptIs
<1>3. \A i \in places : s[i] \in T
  OBVIOUS
<1>4. PICK kept : kept = Kept(s, places)
  OBVIOUS
<1>5. /\ kept = [n \in 1 .. k |-> kept[n]] /\ DOMAIN kept = 1 .. k
      /\ \A n \in 1 .. k : \E i \in places : kept[n] = s[i]
      /\ \A i \in places : \E n \in 1 .. k : kept[n] = s[i]
  BY <1>2, <1>4
<1>6. \A n \in 1 .. k : kept[n] \in T
  BY <1>3, <1>5
<1>7. kept \in [1 .. k -> T]
  BY <1>5, <1>6
<1>8. kept \in Seq(T)
  BY <1>7
<1>9. Range(kept) = {s[i] : i \in places}
  BY <1>5 DEF Range
<1>10. QED BY <1>4, <1>8, <1>9

LEMMA PresentIs ==
    ASSUME NEW T, NEW order \in Seq(T), NEW idents
    PROVE  /\ Present(order, idents) \in Seq(T)
           /\ Range(Present(order, idents)) = Range(order) \cap idents
<1> DEFINE places == {i \in DOMAIN order : order[i] \in idents}
<1>1. places \subseteq DOMAIN order /\ Present(order, idents) = Kept(order, places)
  BY DEF Present
<1>2. {order[i] : i \in places} = Range(order) \cap idents
  BY DEF Range
<1> HIDE DEF places
<1>3. QED BY <1>1, <1>2, KeptRange

LEMMA FirstOfMany ==
    ASSUME NEW S \in SUBSET Nat, IsFiniteSet(S), S # {}
    PROVE  \E i \in S : \A m \in S : i <= m
<1> DEFINE R == {e \in Nat \X Nat : e[2] < e[1]}
<1>1. \A x, y \in S : <<x, y>> \in R <=> y < x
  OBVIOUS
<1> HIDE DEF R
<1>2. /\ \A x, y, z \in S : <<x, y>> \in R /\ <<y, z>> \in R => <<x, z>> \in R
      /\ \A x \in S : <<x, x>> \notin R
  BY <1>1
<1>3. PICK i \in S : \A m \in S : <<i, m>> \notin R
  BY <1>2, HasMaximal
<1>4. \A m \in S : ~(m < i)
  BY <1>1, <1>3
<1>5. \A m \in S : m \in Nat /\ i \in Nat
  OBVIOUS
<1>6. QED BY <1>4, <1>5

\* Of finitely many numbers one is the greatest.
LEMMA LastOfMany ==
    ASSUME NEW S \in SUBSET Nat, IsFiniteSet(S), S # {}
    PROVE  Max(S) \in S
<1> DEFINE R == {e \in Nat \X Nat : e[2] > e[1]}
<1>1. \A x, y \in S : <<x, y>> \in R <=> y > x
  OBVIOUS
<1> HIDE DEF R
<1>2. /\ \A x, y, z \in S : <<x, y>> \in R /\ <<y, z>> \in R => <<x, z>> \in R
      /\ \A x \in S : <<x, x>> \notin R
  BY <1>1
<1>3. PICK i \in S : \A m \in S : <<i, m>> \notin R
  BY <1>2, HasMaximal
<1>4. \A m \in S : ~(m > i) /\ m \in Nat /\ i \in Nat
  BY <1>1, <1>3
<1>5. \A m \in S : i >= m
  BY <1>4
<1>6. QED BY <1>5 DEF Max

LEMMA MemberOrderIs ==
    ASSUME NEW T, NEW a \in Seq(T), NEW b \in Seq(T), NEW c \in Seq(T)
    PROVE  /\ MemberOrder(<<a, b, c>>) \in Seq(T)
           /\ Range(MemberOrder(<<a, b, c>>)) = Range(a) \cup Range(b) \cup Range(c)
<1> DEFINE sides == <<a, b, c>>
           Spine(j) == /\ \A i \in 1..3 : Len(sides[i]) <= Len(sides[j])
                       /\ \A i \in 1..(j - 1) : Len(sides[i]) < Len(sides[j])
           spine == CHOOSE j \in 1..3 : Spine(j)
           all == sides[1] \o sides[2] \o sides[3]
           places == {i \in DOMAIN all : /\ all[i] \notin Range(sides[spine])
                                         /\ \A j \in 1..(i - 1) : all[j] # all[i]}
<1>1. spine \in 1..3
  <2>1. Len(a) \in Nat /\ Len(b) \in Nat /\ Len(c) \in Nat
    OBVIOUS
  <2>2. \A i \in 1..3 : i \in {1, 2, 3}
    OBVIOUS
  <2>3. CASE Len(b) <= Len(a) /\ Len(c) <= Len(a)
    <3>1. Spine(1)
      BY <2>1, <2>2, <2>3
    <3> HIDE DEF Spine
    <3>2. QED BY <3>1
  <2>4. CASE Len(a) < Len(b) /\ Len(c) <= Len(b)
    <3>1. \A i \in 1 .. (2 - 1) : i = 1
      OBVIOUS
    <3>2. Spine(2)
      BY <2>1, <2>2, <2>4, <3>1
    <3> HIDE DEF Spine
    <3>3. QED BY <3>2
  <2>5. CASE Len(a) < Len(c) /\ Len(b) < Len(c)
    <3>1. \A i \in 1 .. (3 - 1) : i \in {1, 2}
      OBVIOUS
    <3>2. Spine(3)
      BY <2>1, <2>2, <2>5, <3>1
    <3> HIDE DEF Spine
    <3>3. QED BY <3>2
  <2>6. QED BY <2>1, <2>3, <2>4, <2>5
<1>2. PICK long \in {a, b, c} : long = sides[spine]
  <2> HIDE DEF spine
  <2>1. spine \in {1, 2, 3}
    BY <1>1
  <2>2. sides[spine] \in {a, b, c}
    BY <2>1
  <2> HIDE DEF sides
  <2>3. QED BY <2>2
<1>3. long \in Seq(T) /\ Range(long) \subseteq Range(a) \cup Range(b) \cup Range(c)
  BY <1>2
<1>4. /\ all \in Seq(T)
      /\ Range(all) = Range(a) \cup Range(b) \cup Range(c)
  <2>1. a \o b \in Seq(T) /\ Range(a \o b) = Range(a) \cup Range(b)
    BY ConcatProperties, RangeConcatenation
  <2>2. PICK ab \in Seq(T) : ab = a \o b
    BY <2>1
  <2>3. ab \o c \in Seq(T) /\ Range(ab \o c) = Range(ab) \cup Range(c)
    BY ConcatProperties, RangeConcatenation
  <2>4. all = ab \o c
    BY <2>2
  <2>5. QED BY <2>1, <2>2, <2>3, <2>4
<1>5. MemberOrder(sides) = long \o Kept(all, places)
  BY <1>2 DEF MemberOrder
<1>6. places \subseteq DOMAIN all
  OBVIOUS
<1>7. {all[i] : i \in places} = Range(all) \ Range(long)
  <2>1. \A i \in places : all[i] \in Range(all) \ Range(long)
    BY <1>2 DEF Range
  <2>2. ASSUME NEW x \in Range(all) \ Range(long) PROVE \E i \in places : all[i] = x
    <3> DEFINE S == {i \in DOMAIN all : all[i] = x}
    <3>1. S \in SUBSET Nat /\ S # {}
      <4>1. DOMAIN all \subseteq Nat
        BY <1>4
      <4> HIDE DEF all
      <4>2. QED BY <2>2, <4>1 DEF Range
    <3>2. PICK n \in Nat : DOMAIN all = 1 .. n
      BY <1>4
    <3>3. PICK i \in S : \A m \in S : i <= m
      <4>1. IsFiniteSet(S)
        <5>1. S \subseteq 1 .. n
          BY <3>2
        <5>2. IsFiniteSet(1 .. n)
          BY FS_Interval
        <5> HIDE DEF S
        <5>3. QED BY <5>1, <5>2, FS_Subset
      <4> HIDE DEF S
      <4>2. QED BY <3>1, <4>1, FirstOfMany
    <3> HIDE DEF all, spine, Spine
    <3>4. \A j \in 1..(i - 1) : j \in DOMAIN all /\ ~(i <= j)
      BY <3>2, <3>3
    <3>5. \A j \in 1..(i - 1) : all[j] # x
      BY <3>3, <3>4
    <3>6. i \in places
      BY <1>2, <2>2, <3>3, <3>5
    <3>7. QED BY <3>3, <3>6
  <2> HIDE DEF places, all
  <2>3. QED BY <2>1, <2>2
<1> HIDE DEF places, all, spine
<1>8. Kept(all, places) \in Seq(T) /\ Range(Kept(all, places)) = Range(all) \ Range(long)
  BY <1>4, <1>6, <1>7, KeptRange
<1>9. PICK added \in Seq(T) : added = Kept(all, places)
  BY <1>8
<1>10. long \o added \in Seq(T) /\ Range(long \o added) = Range(long) \cup Range(added)
  BY <1>3, ConcatProperties, RangeConcatenation
<1>11. QED BY <1>3, <1>4, <1>5, <1>8, <1>9, <1>10

----------------------------------------------------------------------------
(* AgentDiff: flattening                                                    *)

AgentTrunk(role) ==
    {<<"agents", role, field>> : field \in {"role", "model"}}
    \cup {<<"agents", role, "tools", k>> : k \in Nat}
InputTrunk(name) == {<<"inputs", name, field>> : field \in {"name", "flow"}}

\* What a flattened payload is: its paths lead to leaves, a member has its identity under its
\* own path, and has its other field if and only if it has that.
Flattened(flat) ==
    /\ \A p \in DOMAIN flat :
          /\ (\E r \in Roles : p \in AgentTrunk(r)) \/ (\E n \in Slots : p \in InputTrunk(n))
          /\ flat[p] # Missing
    /\ \A r \in Roles : <<"agents", r, "role">> \in DOMAIN flat =>
                            flat[<<"agents", r, "role">>] = r
    /\ \A n \in Slots : <<"inputs", n, "name">> \in DOMAIN flat =>
                            flat[<<"inputs", n, "name">>] = n
    /\ \A r \in Roles : <<"agents", r, "role">> \in DOMAIN flat <=> <<"agents", r, "model">> \in DOMAIN flat
    /\ \A n \in Slots : <<"inputs", n, "name">> \in DOMAIN flat <=> <<"inputs", n, "flow">> \in DOMAIN flat

LEMMA AgentTrunkIs ==
    ASSUME NEW role, NEW p \in AgentTrunk(role)
    PROVE  /\ p[1] = "agents" /\ p[2] = role /\ p[3] \in {"role", "model", "tools"}
           /\ p[3] = "role" => p = <<"agents", role, "role">>
           /\ p[3] = "model" => p = <<"agents", role, "model">>
           /\ p[3] = "tools" => p[4] \in Nat /\ p = <<"agents", role, "tools", p[4]>>
BY DEF AgentTrunk

LEMMA InputTrunkIs ==
    ASSUME NEW name, NEW p \in InputTrunk(name)
    PROVE  /\ p[1] = "inputs" /\ p[2] = name /\ p[3] \in {"name", "flow"}
           /\ p[3] = "name" => p = <<"inputs", name, "name">>
           /\ p[3] = "flow" => p = <<"inputs", name, "flow">>
BY DEF InputTrunk

LEMMA AgentPathsAre ==
    ASSUME NEW agent, DOMAIN agent.tools \subseteq Nat
    PROVE  /\ AgentPaths(agent) \subseteq AgentTrunk(agent.role)
           /\ \A p \in AgentTrunk(agent.role) :
                 p \in AgentPaths(agent) <=> (p[3] = "tools" => p[4] \in DOMAIN agent.tools)
BY DEF AgentPaths, AgentTrunk

LEMMA InputPathsAre ==
    ASSUME NEW input
    PROVE  InputPaths(input) = InputTrunk(input.name)
BY DEF InputPaths, InputTrunk

\* A payload's leaf at a path is that of one of the members that have the path.
LEMMA FlatAt ==
    ASSUME NEW def, NEW m \in Nat, DOMAIN def.agents = 1 .. m, NEW n \in Nat, DOMAIN def.inputs = 1 .. n
    PROVE  /\ Flat(def) = [p \in DOMAIN Flat(def) |-> Flat(def)[p]]
           /\ \A p : p \in DOMAIN Flat(def) <=>
                         \/ \E k \in 1 .. m : p \in AgentPaths(def.agents[k])
                         \/ \E k \in 1 .. n : p \in InputPaths(def.inputs[k])
           /\ \A p \in DOMAIN Flat(def) :
                 \/ \E k \in 1 .. m : p \in AgentPaths(def.agents[k]) /\ Flat(def)[p] = AgentAt(def.agents[k], p)
                 \/ \E k \in 1 .. n : p \in InputPaths(def.inputs[k]) /\ Flat(def)[p] = InputAt(def.inputs[k], p)
<1>1. DOMAIN Flat(def) = PathsOf(def) /\ Flat(def) = [p \in DOMAIN Flat(def) |-> Flat(def)[p]]
  BY DEF Flat
<1>2. \A p : p \in PathsOf(def) <=> \/ \E k \in 1 .. m : p \in AgentPaths(def.agents[k])
                                    \/ \E k \in 1 .. n : p \in InputPaths(def.inputs[k])
  <2>1. \A x : x \in Range(def.agents) <=> \E k \in 1 .. m : x = def.agents[k]
    BY DEF Range
  <2>2. \A x : x \in Range(def.inputs) <=> \E k \in 1 .. n : x = def.inputs[k]
    BY DEF Range
  <2>3. \A p : p \in PathsOf(def) <=> \/ \E x \in Range(def.agents) : p \in AgentPaths(x)
                                      \/ \E x \in Range(def.inputs) : p \in InputPaths(x)
    BY DEF PathsOf
  <2>4. QED BY <2>1, <2>2, <2>3
<1>3. ASSUME NEW p \in PathsOf(def), AgentsAt(def, p) # {}
      PROVE  \E k \in 1 .. m : p \in AgentPaths(def.agents[k]) /\ Flat(def)[p] = AgentAt(def.agents[k], p)
  <2>1. AgentsAt(def, p) \subseteq 1 .. m /\ IsFiniteSet(1 .. m)
    <3>1. AgentsAt(def, p) \subseteq 1 .. m
      BY DEF AgentsAt
    <3>2. m \in Int /\ 1 \in Int
      OBVIOUS
    <3>3. IsFiniteSet(1 .. m)
      BY <3>2, FS_Interval
    <3>4. QED BY <3>1, <3>3
  <2>2. AgentsAt(def, p) \in SUBSET Nat /\ IsFiniteSet(AgentsAt(def, p))
    BY <2>1, FS_Subset
  <2>3. Max(AgentsAt(def, p)) \in AgentsAt(def, p)
    BY <1>3, <2>2, LastOfMany
  <2>4. Flat(def)[p] = AgentAt(def.agents[Max(AgentsAt(def, p))], p)
    BY <1>3 DEF Flat
  <2>5. QED BY <2>3, <2>4 DEF AgentsAt
<1>4. ASSUME NEW p \in PathsOf(def), AgentsAt(def, p) = {}
      PROVE  \E k \in 1 .. n : p \in InputPaths(def.inputs[k]) /\ Flat(def)[p] = InputAt(def.inputs[k], p)
  <2>1. InputsAt(def, p) \subseteq 1 .. n /\ IsFiniteSet(1 .. n)
    <3>1. InputsAt(def, p) \subseteq 1 .. n
      BY DEF InputsAt
    <3>2. n \in Int /\ 1 \in Int
      OBVIOUS
    <3>3. IsFiniteSet(1 .. n)
      BY <3>2, FS_Interval
    <3>4. QED BY <3>1, <3>3
  <2>2. InputsAt(def, p) \in SUBSET Nat /\ IsFiniteSet(InputsAt(def, p)) /\ InputsAt(def, p) # {}
    BY <1>2, <1>4, <2>1, FS_Subset DEF AgentsAt, InputsAt
  <2>3. Max(InputsAt(def, p)) \in InputsAt(def, p)
    BY <2>2, LastOfMany
  <2>4. Flat(def)[p] = InputAt(def.inputs[Max(InputsAt(def, p))], p)
    BY <1>4 DEF Flat
  <2>5. QED BY <2>3, <2>4 DEF InputsAt
<1>5. QED BY <1>1, <1>2, <1>3, <1>4

LEMMA FlatIs ==
    ASSUME NEW def \in Payloads
    PROVE  /\ Flattened(Flat(def))
           /\ \A p \in DOMAIN Flat(def) :
                 /\ p[1] = "agents" => p[2] \in Range(RolesOf(def))
                 /\ p[1] = "inputs" => p[2] \in Range(NamesOf(def))
                 /\ p[1] = "inputs" /\ p[3] = "flow" =>
                       \E k \in DOMAIN def.inputs : def.inputs[k].name = p[2] /\ def.inputs[k].flow = Flat(def)[p]
<1>1. PICK m \in Nat : DOMAIN def.agents = 1 .. m
  BY DEF Payloads
<1>2. PICK n \in Nat : DOMAIN def.inputs = 1 .. n
  BY DEF Payloads
<1>3. PICK flat : flat = Flat(def)
  OBVIOUS
<1>4. /\ \A p : p \in DOMAIN flat <=> \/ \E k \in 1 .. m : p \in AgentPaths(def.agents[k])
                                     \/ \E k \in 1 .. n : p \in InputPaths(def.inputs[k])
      /\ \A p \in DOMAIN flat :
            \/ \E k \in 1 .. m : p \in AgentPaths(def.agents[k]) /\ flat[p] = AgentAt(def.agents[k], p)
            \/ \E k \in 1 .. n : p \in InputPaths(def.inputs[k]) /\ flat[p] = InputAt(def.inputs[k], p)
  BY <1>1, <1>2, <1>3, FlatAt
<1>5. ASSUME NEW k \in 1 .. m
      PROVE  /\ def.agents[k].role \in Roles /\ def.agents[k].model \in ModelNames
             /\ DOMAIN def.agents[k].tools \subseteq Nat
             /\ \A j \in DOMAIN def.agents[k].tools : def.agents[k].tools[j] \in ToolNames
             /\ def.agents[k].role \in Range(RolesOf(def))
  <2>1. def.agents[k] \in [role : Roles, model : ModelNames, tools : Seq(ToolNames)]
    <3>1. def.agents \in Seq([role : Roles, model : ModelNames, tools : Seq(ToolNames)])
      BY DEF Payloads
    <3>2. PICK T, agents : T = [role : Roles, model : ModelNames, tools : Seq(ToolNames)] /\ agents = def.agents
      OBVIOUS
    <3>3. agents \in Seq(T) /\ k \in DOMAIN agents
      BY <1>1, <3>1, <3>2
    <3>4. agents[k] \in T
      BY <3>3
    <3>5. QED BY <3>2, <3>4
  <2>2. PICK tools \in Seq(ToolNames) : tools = def.agents[k].tools
    BY <2>1
  <2>3. DOMAIN tools \subseteq Nat /\ \A j \in DOMAIN tools : tools[j] \in ToolNames
    OBVIOUS
  <2>4. QED BY <1>1, <2>1, <2>2, <2>3 DEF RolesOf, Range
<1>6. \A k \in 1 .. n : /\ def.inputs[k].name \in Slots /\ def.inputs[k].flow \in {"static", "fluid"}
                        /\ def.inputs[k].name \in Range(NamesOf(def))
  <2>1. def.inputs \in Seq(Inputs)
    BY DEF Payloads
  <2>2. \A k \in 1 .. n : def.inputs[k] \in Inputs
    BY <1>2, <2>1
  <2>3. QED BY <1>2, <2>2 DEF Inputs, NamesOf, Range
<1>7. ASSUME NEW k \in 1 .. m, NEW p \in AgentPaths(def.agents[k])
      PROVE  /\ p \in AgentTrunk(def.agents[k].role) /\ AgentAt(def.agents[k], p) # Missing
             /\ p[1] = "agents" /\ p[2] = def.agents[k].role /\ p[3] \in {"role", "model", "tools"}
             /\ p[3] = "role" => AgentAt(def.agents[k], p) = def.agents[k].role
  <2>1. p \in AgentTrunk(def.agents[k].role)
        /\ (p[3] = "tools" => p[4] \in DOMAIN def.agents[k].tools)
    BY <1>5, AgentPathsAre
  <2>2. p[1] = "agents" /\ p[2] = def.agents[k].role /\ p[3] \in {"role", "model", "tools"}
    BY <2>1, AgentTrunkIs
  <2>3. QED BY <1>5, <2>1, <2>2, AgentDiffAssumption DEF AgentAt
<1>8. ASSUME NEW k \in 1 .. n, NEW p \in InputPaths(def.inputs[k])
      PROVE  /\ p \in InputTrunk(def.inputs[k].name) /\ InputAt(def.inputs[k], p) # Missing
             /\ p[1] = "inputs" /\ p[2] = def.inputs[k].name /\ p[3] \in {"name", "flow"}
             /\ p[3] = "name" => InputAt(def.inputs[k], p) = def.inputs[k].name
             /\ p[3] = "flow" => InputAt(def.inputs[k], p) = def.inputs[k].flow
  <2>1. p \in InputTrunk(def.inputs[k].name)
    BY InputPathsAre
  <2>2. p[1] = "inputs" /\ p[2] = def.inputs[k].name /\ p[3] \in {"name", "flow"}
    BY <2>1, InputTrunkIs
  <2>3. "static" # Missing /\ "fluid" # Missing
    BY DEF Missing
  <2>4. QED BY <1>6, <2>1, <2>2, <2>3, AgentDiffAssumption DEF InputAt
<1>9. ASSUME NEW p \in DOMAIN flat
      PROVE  /\ (\E r \in Roles : p \in AgentTrunk(r)) \/ (\E s \in Slots : p \in InputTrunk(s))
             /\ flat[p] # Missing
             /\ p[1] = "agents" => p[2] \in Range(RolesOf(def)) /\ (p[3] = "role" => flat[p] = p[2])
             /\ p[1] = "inputs" => /\ p[2] \in Range(NamesOf(def)) /\ (p[3] = "name" => flat[p] = p[2])
                                   /\ p[3] = "flow" =>
                                        \E k \in 1 .. n : def.inputs[k].name = p[2] /\ def.inputs[k].flow = flat[p]
  <2>1. CASE \E k \in 1 .. m : p \in AgentPaths(def.agents[k]) /\ flat[p] = AgentAt(def.agents[k], p)
    BY <1>5, <1>7, <2>1
  <2>2. CASE \E k \in 1 .. n : p \in InputPaths(def.inputs[k]) /\ flat[p] = InputAt(def.inputs[k], p)
    BY <1>6, <1>8, <2>2
  <2>3. QED BY <1>4, <2>1, <2>2
<1>10. ASSUME NEW r \in Roles, NEW f \in {"role", "model"}
       PROVE  <<"agents", r, f>> \in DOMAIN flat <=> \E k \in 1 .. m : def.agents[k].role = r
  <2>1. <<"agents", r, f>> \in AgentTrunk(r)
    BY DEF AgentTrunk
  <2>2. PICK p \in AgentTrunk(r) : p = <<"agents", r, f>> /\ p[1] = "agents" /\ p[2] = r /\ p[3] # "tools"
    BY <2>1
  <2>3. ASSUME NEW k \in 1 .. m PROVE p \in AgentPaths(def.agents[k]) <=> def.agents[k].role = r
    BY <1>5, <1>7, <2>2, AgentPathsAre
  <2>4. \A k \in 1 .. n : p \notin InputPaths(def.inputs[k])
    BY <1>8, <2>2
  <2>5. QED BY <1>4, <2>2, <2>3, <2>4
<1>11. ASSUME NEW s \in Slots, NEW f \in {"name", "flow"}
       PROVE  <<"inputs", s, f>> \in DOMAIN flat <=> \E k \in 1 .. n : def.inputs[k].name = s
  <2>1. <<"inputs", s, f>> \in InputTrunk(s)
    BY DEF InputTrunk
  <2>2. PICK p \in InputTrunk(s) : p = <<"inputs", s, f>> /\ p[1] = "inputs" /\ p[2] = s
    BY <2>1
  <2>3. ASSUME NEW k \in 1 .. n PROVE p \in InputPaths(def.inputs[k]) <=> def.inputs[k].name = s
    BY <1>8, <2>2, InputPathsAre
  <2>4. \A k \in 1 .. m : p \notin AgentPaths(def.agents[k])
    BY <1>7, <2>2
  <2>5. QED BY <1>4, <2>2, <2>3, <2>4
<1>12. \A r \in Roles : <<"agents", r, "role">> \in DOMAIN flat => flat[<<"agents", r, "role">>] = r
  <2>1. ASSUME NEW r \in Roles, <<"agents", r, "role">> \in DOMAIN flat PROVE flat[<<"agents", r, "role">>] = r
    <3>1. PICK p \in DOMAIN flat : p = <<"agents", r, "role">> /\ p[1] = "agents" /\ p[2] = r /\ p[3] = "role"
      BY <2>1
    <3>2. QED BY <1>9, <3>1
  <2>2. QED BY <2>1
<1>13. \A s \in Slots : <<"inputs", s, "name">> \in DOMAIN flat => flat[<<"inputs", s, "name">>] = s
  <2>1. ASSUME NEW s \in Slots, <<"inputs", s, "name">> \in DOMAIN flat PROVE flat[<<"inputs", s, "name">>] = s
    <3>1. PICK p \in DOMAIN flat : p = <<"inputs", s, "name">> /\ p[1] = "inputs" /\ p[2] = s /\ p[3] = "name"
      BY <2>1
    <3>2. QED BY <1>9, <3>1
  <2>2. QED BY <2>1
<1>14. Flattened(flat)
  <2>1. \A r \in Roles : <<"agents", r, "role">> \in DOMAIN flat <=> <<"agents", r, "model">> \in DOMAIN flat
    BY <1>10
  <2>2. \A s \in Slots : <<"inputs", s, "name">> \in DOMAIN flat <=> <<"inputs", s, "flow">> \in DOMAIN flat
    BY <1>11
  <2>3. QED BY <1>9, <1>12, <1>13, <2>1, <2>2 DEF Flattened
<1>15. QED BY <1>2, <1>3, <1>9, <1>14

----------------------------------------------------------------------------
(* AgentDiff: merging                                                       *)

\* Of two paths that each payload has together, a merge without a contest keeps both or none.
Paired(base, a, b, p, q, v) ==
    /\ \A x \in {base, a, b} : /\ p \in DOMAIN x <=> q \in DOMAIN x
                               /\ p \in DOMAIN x => x[p] = v /\ x[q] # Missing
    /\ \A l \in {p, q} : l \in DOMAIN base \cup DOMAIN a \cup DOMAIN b => ~Contested(base, a, b, l)

LEMMA PairStays ==
    ASSUME NEW base, NEW a, NEW b, NEW p, NEW q, NEW v, v # Missing, Paired(base, a, b, p, q, v)
    PROVE  /\ p \in DOMAIN Leaves(base, a, b) <=> q \in DOMAIN Leaves(base, a, b)
           /\ p \in DOMAIN Leaves(base, a, b) => Leaves(base, a, b)[p] = v
<1>1. \A x \in {base, a, b} : At(x, p) = (IF p \in DOMAIN x THEN v ELSE Missing)
                              /\ (At(x, q) # Missing <=> p \in DOMAIN x)
  BY DEF At, Paired
<1>2. DOMAIN Leaves(base, a, b) = {l \in DOMAIN base \cup DOMAIN a \cup DOMAIN b :
                                      ~Contested(base, a, b, l) /\ Resolved(base, a, b, l) # Missing}
  BY DEF Leaves
<1>3. \A l \in DOMAIN Leaves(base, a, b) : Leaves(base, a, b)[l] = Resolved(base, a, b, l)
  BY DEF Leaves
<1>4. p \in DOMAIN Leaves(base, a, b) <=> q \in DOMAIN Leaves(base, a, b)
  BY <1>1, <1>2 DEF Resolved, Contested, Moved, Paired
<1>5. p \in DOMAIN Leaves(base, a, b) => Leaves(base, a, b)[p] = v
  BY <1>1, <1>2, <1>3 DEF Resolved, Moved
<1>6. QED BY <1>4, <1>5

LEMMA LeavesAre ==
    ASSUME NEW base, Flattened(base), NEW a, Flattened(a), NEW b, Flattened(b),
           \A p \in DOMAIN base \cup DOMAIN a \cup DOMAIN b : ~Contested(base, a, b, p)
    PROVE  /\ Flattened(Leaves(base, a, b))
           /\ DOMAIN Leaves(base, a, b) \subseteq DOMAIN base \cup DOMAIN a \cup DOMAIN b
<1>1. PICK leaves : leaves = Leaves(base, a, b)
  OBVIOUS
<1>2. /\ DOMAIN leaves \subseteq DOMAIN base \cup DOMAIN a \cup DOMAIN b
      /\ \A p \in DOMAIN leaves : leaves[p] # Missing
  BY <1>1 DEF Leaves
<1>3. ASSUME NEW r \in Roles
      PROVE  /\ <<"agents", r, "role">> \in DOMAIN leaves <=> <<"agents", r, "model">> \in DOMAIN leaves
             /\ <<"agents", r, "role">> \in DOMAIN leaves => leaves[<<"agents", r, "role">>] = r
  <2>1. PICK p, q : p = <<"agents", r, "role">> /\ q = <<"agents", r, "model">>
    OBVIOUS
  <2>2. \A x \in {base, a, b} : /\ p \in DOMAIN x <=> q \in DOMAIN x
                                /\ p \in DOMAIN x => x[p] = r /\ x[q] # Missing
    BY <2>1 DEF Flattened
  <2>3. r # Missing
    BY AgentDiffAssumption
  <2>4. \A l \in {p, q} : l \in DOMAIN base \cup DOMAIN a \cup DOMAIN b => ~Contested(base, a, b, l)
    OBVIOUS
  <2>5. Paired(base, a, b, p, q, r)
    BY <2>2, <2>4 DEF Paired
  <2>6. QED BY <1>1, <2>1, <2>3, <2>5, PairStays
<1>4. ASSUME NEW s \in Slots
      PROVE  /\ <<"inputs", s, "name">> \in DOMAIN leaves <=> <<"inputs", s, "flow">> \in DOMAIN leaves
             /\ <<"inputs", s, "name">> \in DOMAIN leaves => leaves[<<"inputs", s, "name">>] = s
  <2>1. PICK p, q : p = <<"inputs", s, "name">> /\ q = <<"inputs", s, "flow">>
    OBVIOUS
  <2>2. \A x \in {base, a, b} : /\ p \in DOMAIN x <=> q \in DOMAIN x
                                /\ p \in DOMAIN x => x[p] = s /\ x[q] # Missing
    BY <2>1 DEF Flattened
  <2>3. s # Missing
    BY AgentDiffAssumption
  <2>4. \A l \in {p, q} : l \in DOMAIN base \cup DOMAIN a \cup DOMAIN b => ~Contested(base, a, b, l)
    OBVIOUS
  <2>5. Paired(base, a, b, p, q, s)
    BY <2>2, <2>4 DEF Paired
  <2>6. QED BY <1>1, <2>1, <2>3, <2>5, PairStays
<1>5. \A p \in DOMAIN leaves : (\E r \in Roles : p \in AgentTrunk(r)) \/ (\E n \in Slots : p \in InputTrunk(n))
  BY <1>2 DEF Flattened
<1>6. Flattened(leaves)
  BY <1>2, <1>3, <1>4, <1>5 DEF Flattened
<1>7. QED BY <1>1, <1>2, <1>6

AgentOf(leaves, r) ==
    [role |-> r, model |-> leaves[<<"agents", r, "model">>],
     tools |-> [j \in Positions(leaves, r) |-> leaves[<<"agents", r, "tools", j>>]]]
InputOf(leaves, s) == [name |-> s, flow |-> leaves[<<"inputs", s, "flow">>]]

\* One of each identity that is left
AgentsOf(agents, leaves) ==
    \E m \in Nat : \E order \in [1 .. m -> Roles] :
        /\ agents = [k \in 1 .. m |-> AgentOf(leaves, order[k])]
        /\ \A k \in 1 .. m : order[k] \in Idents(leaves, "agents")
        /\ \A r \in Idents(leaves, "agents") : \E k \in 1 .. m : order[k] = r
InputsOf(inputs, leaves) ==
    \E n \in Nat : \E order \in [1 .. n -> Slots] :
        /\ inputs = [k \in 1 .. n |-> InputOf(leaves, order[k])]
        /\ \A k \in 1 .. n : order[k] \in Idents(leaves, "inputs")
        /\ \A s \in Idents(leaves, "inputs") : \E k \in 1 .. n : order[k] = s

\* The members that are rebuilt are the identities that are left.
LEMMA AgentsRebuilt ==
    ASSUME common \in Payloads, mine \in Payloads, theirs \in Payloads, NEW leaves, Flattened(leaves),
           \A p \in DOMAIN leaves : p[1] = "agents" =>
               p[2] \in Range(RolesOf(common)) \cup Range(RolesOf(mine)) \cup Range(RolesOf(theirs))
    PROVE  AgentsOf(Rebuilt(leaves).agents, leaves)
<1>1. ASSUME NEW def \in Payloads PROVE RolesOf(def) \in Seq(Roles)
  <2>1. PICK T, agents : T = [role : Roles, model : ModelNames, tools : Seq(ToolNames)] /\ agents = def.agents
    OBVIOUS
  <2>2. agents \in Seq(T)
    BY <2>1 DEF Payloads
  <2>3. PICK m \in Nat : DOMAIN agents = 1 .. m /\ \A k \in 1 .. m : agents[k] \in T
    BY <2>2
  <2>4. RolesOf(def) = [k \in 1 .. m |-> agents[k].role] /\ \A k \in 1 .. m : agents[k].role \in Roles
    BY <2>1, <2>3 DEF RolesOf
  <2>5. QED BY <2>4
<1>2. PICK a \in Seq(Roles), b \in Seq(Roles), c \in Seq(Roles) :
          a = RolesOf(common) /\ b = RolesOf(mine) /\ c = RolesOf(theirs)
  BY <1>1
<1>3. PICK all \in Seq(Roles) :
          all = MemberOrder(<<a, b, c>>) /\ Range(all) = Range(a) \cup Range(b) \cup Range(c)
  BY MemberOrderIs
<1>4. PICK idents : idents = Idents(leaves, "agents")
  OBVIOUS
<1>5. PICK order \in Seq(Roles) :
          order = Present(all, idents) /\ Range(order) = Range(all) \cap idents
  BY PresentIs
<1>6. idents \subseteq Range(all)
  BY <1>2, <1>3, <1>4 DEF Idents
<1>7. PICK m \in Nat : DOMAIN order = 1 .. m /\ \A k \in 1 .. m : order[k] \in Roles
  BY <1>5
<1>8. Rebuilt(leaves).agents =
        [k \in 1 .. m |-> AgentOf(leaves, order[k])]
  BY <1>2, <1>3, <1>4, <1>5, <1>7 DEF Rebuilt, AgentOf
<1>9. \A k \in 1 .. m : order[k] \in idents
  BY <1>5, <1>7 DEF Range
<1>10. \A r \in idents : \E k \in 1 .. m : order[k] = r
  BY <1>5, <1>6, <1>7 DEF Range
<1>11. order \in [1 .. m -> Roles]
  BY <1>7
<1>12. QED BY <1>4, <1>8, <1>9, <1>10, <1>11 DEF AgentsOf

LEMMA InputsRebuilt ==
    ASSUME common \in Payloads, mine \in Payloads, theirs \in Payloads, NEW leaves, Flattened(leaves),
           \A p \in DOMAIN leaves : p[1] = "inputs" =>
               p[2] \in Range(NamesOf(common)) \cup Range(NamesOf(mine)) \cup Range(NamesOf(theirs))
    PROVE  InputsOf(Rebuilt(leaves).inputs, leaves)
<1>1. ASSUME NEW def \in Payloads PROVE NamesOf(def) \in Seq(Slots)
  <2>1. PICK inputs \in Seq(Inputs) : inputs = def.inputs
    BY DEF Payloads
  <2>2. PICK m \in Nat : DOMAIN inputs = 1 .. m /\ \A k \in 1 .. m : inputs[k] \in Inputs
    OBVIOUS
  <2>3. NamesOf(def) = [k \in 1 .. m |-> inputs[k].name] /\ \A k \in 1 .. m : inputs[k].name \in Slots
    BY <2>1, <2>2 DEF NamesOf, Inputs
  <2>4. QED BY <2>3
<1>2. PICK a \in Seq(Slots), b \in Seq(Slots), c \in Seq(Slots) :
          a = NamesOf(common) /\ b = NamesOf(mine) /\ c = NamesOf(theirs)
  BY <1>1
<1>3. PICK all \in Seq(Slots) :
          all = MemberOrder(<<a, b, c>>) /\ Range(all) = Range(a) \cup Range(b) \cup Range(c)
  BY MemberOrderIs
<1>4. PICK idents : idents = Idents(leaves, "inputs")
  OBVIOUS
<1>5. PICK order \in Seq(Slots) :
          order = Present(all, idents) /\ Range(order) = Range(all) \cap idents
  BY PresentIs
<1>6. idents \subseteq Range(all)
  BY <1>2, <1>3, <1>4 DEF Idents
<1>7. PICK n \in Nat : DOMAIN order = 1 .. n /\ \A k \in 1 .. n : order[k] \in Slots
  BY <1>5
<1>8. Rebuilt(leaves).inputs =
        [k \in 1 .. n |-> InputOf(leaves, order[k])]
  BY <1>2, <1>3, <1>4, <1>5, <1>7 DEF Rebuilt, InputOf
<1>9. \A k \in 1 .. n : order[k] \in idents
  BY <1>5, <1>7 DEF Range
<1>10. \A s \in idents : \E k \in 1 .. n : order[k] = s
  BY <1>5, <1>6, <1>7 DEF Range
<1>11. order \in [1 .. n -> Slots]
  BY <1>7
<1>12. QED BY <1>4, <1>8, <1>9, <1>10, <1>11 DEF InputsOf

\* What is rebuilt from leaves has these leaves, if it can be validated.
LEMMA RebuiltIs ==
    ASSUME NEW leaves, leaves = [p \in DOMAIN leaves |-> leaves[p]], Flattened(leaves), Valid(leaves),
           NEW def, AgentsOf(def.agents, leaves), InputsOf(def.inputs, leaves)
    PROVE  Flat(def) = leaves
<1>1. PICK m, roles :
          /\ m \in Nat /\ roles \in [1 .. m -> Roles]
          /\ def.agents = [k \in 1 .. m |-> AgentOf(leaves, roles[k])]
          /\ \A k \in 1 .. m : roles[k] \in Idents(leaves, "agents")
          /\ \A r \in Idents(leaves, "agents") : \E k \in 1 .. m : roles[k] = r
  BY DEF AgentsOf
<1>2. PICK n, names :
          /\ n \in Nat /\ names \in [1 .. n -> Slots]
          /\ def.inputs = [k \in 1 .. n |-> InputOf(leaves, names[k])]
          /\ \A k \in 1 .. n : names[k] \in Idents(leaves, "inputs")
          /\ \A s \in Idents(leaves, "inputs") : \E k \in 1 .. n : names[k] = s
  BY DEF InputsOf
<1>3. PICK flat : flat = Flat(def)
  OBVIOUS
<1>4. /\ flat = [p \in DOMAIN flat |-> flat[p]]
      /\ \A p : p \in DOMAIN flat <=>
                    \/ \E k \in 1 .. m : p \in AgentPaths(AgentOf(leaves, roles[k]))
                    \/ \E k \in 1 .. n : p \in InputPaths(InputOf(leaves, names[k]))
      /\ \A p \in DOMAIN flat :
            \/ \E k \in 1 .. m : p \in AgentPaths(AgentOf(leaves, roles[k]))
                                 /\ flat[p] = AgentAt(AgentOf(leaves, roles[k]), p)
            \/ \E k \in 1 .. n : p \in InputPaths(InputOf(leaves, names[k]))
                                 /\ flat[p] = InputAt(InputOf(leaves, names[k]), p)
  <2>1. DOMAIN def.agents = 1 .. m /\ \A k \in 1 .. m : def.agents[k] = AgentOf(leaves, roles[k])
    BY <1>1
  <2>2. DOMAIN def.inputs = 1 .. n /\ \A k \in 1 .. n : def.inputs[k] = InputOf(leaves, names[k])
    BY <1>2
  <2>3. /\ flat = [p \in DOMAIN flat |-> flat[p]]
        /\ \A p : p \in DOMAIN flat <=> \/ \E k \in 1 .. m : p \in AgentPaths(def.agents[k])
                                        \/ \E k \in 1 .. n : p \in InputPaths(def.inputs[k])
        /\ \A p \in DOMAIN flat :
              \/ \E k \in 1 .. m : p \in AgentPaths(def.agents[k]) /\ flat[p] = AgentAt(def.agents[k], p)
              \/ \E k \in 1 .. n : p \in InputPaths(def.inputs[k]) /\ flat[p] = InputAt(def.inputs[k], p)
    <3>1. m \in Nat /\ DOMAIN def.agents = 1 .. m /\ n \in Nat /\ DOMAIN def.inputs = 1 .. n
      BY <1>1, <1>2, <2>1, <2>2
    <3>2. /\ Flat(def) = [p \in DOMAIN Flat(def) |-> Flat(def)[p]]
          /\ \A p : p \in DOMAIN Flat(def) <=> \/ \E k \in 1 .. m : p \in AgentPaths(def.agents[k])
                                               \/ \E k \in 1 .. n : p \in InputPaths(def.inputs[k])
          /\ \A p \in DOMAIN Flat(def) :
                \/ \E k \in 1 .. m : p \in AgentPaths(def.agents[k]) /\ Flat(def)[p] = AgentAt(def.agents[k], p)
                \/ \E k \in 1 .. n : p \in InputPaths(def.inputs[k]) /\ Flat(def)[p] = InputAt(def.inputs[k], p)
      BY <3>1, FlatAt
    <3>3. QED BY <1>3, <3>2, Zenon
  <2>4. QED BY <2>1, <2>2, <2>3
<1>5. ASSUME NEW r \in Roles, r \in Idents(leaves, "agents"), NEW p
      PROVE  /\ p \in AgentPaths(AgentOf(leaves, r)) => p \in DOMAIN leaves /\ AgentAt(AgentOf(leaves, r), p) = leaves[p]
             /\ p \in AgentTrunk(r) /\ p \in DOMAIN leaves => p \in AgentPaths(AgentOf(leaves, r))
  <2>1. PICK agent : /\ agent = AgentOf(leaves, r) /\ agent.role = r /\ agent.model = leaves[<<"agents", r, "model">>]
                     /\ agent.tools = [j \in Positions(leaves, r) |-> leaves[<<"agents", r, "tools", j>>]]
    <3>1. PICK agent, tools : agent = AgentOf(leaves, r)
                              /\ tools = [j \in Positions(leaves, r) |-> leaves[<<"agents", r, "tools", j>>]]
      OBVIOUS
    <3>2. agent = [role |-> r, model |-> leaves[<<"agents", r, "model">>], tools |-> tools]
      BY <3>1 DEF AgentOf
    <3>3. agent.role = r /\ agent.model = leaves[<<"agents", r, "model">>] /\ agent.tools = tools
      BY <3>2
    <3>4. QED BY <3>1, <3>3
  <2>2. /\ <<"agents", r, "role">> \in DOMAIN leaves /\ <<"agents", r, "model">> \in DOMAIN leaves
        /\ leaves[<<"agents", r, "role">>] = r
    BY <1>5 DEF Valid, Flattened
  <2>3. \A j : j \in Positions(leaves, r) <=> j \in Nat /\ <<"agents", r, "tools", j>> \in DOMAIN leaves
    <3>1. ASSUME NEW j \in Positions(leaves, r) PROVE j \in Nat /\ <<"agents", r, "tools", j>> \in DOMAIN leaves
      <4>1. PICK q \in DOMAIN leaves : q[3] = "tools" /\ q[2] = r /\ q[4] = j
        BY <3>1 DEF Positions
      <4>2. CASE \E s \in Roles : q \in AgentTrunk(s)
        <5>1. PICK s \in Roles : q \in AgentTrunk(s)
          BY <4>2
        <5>2. q[2] = s /\ q[4] \in Nat /\ q = <<"agents", s, "tools", q[4]>>
          BY <4>1, <5>1, AgentTrunkIs
        <5>3. QED BY <4>1, <5>2
      <4>3. CASE \E s \in Slots : q \in InputTrunk(s)
        BY <4>1, <4>3, InputTrunkIs
      <4>4. QED BY <4>2, <4>3 DEF Flattened
    <3>2. ASSUME NEW j \in Nat, <<"agents", r, "tools", j>> \in DOMAIN leaves PROVE j \in Positions(leaves, r)
      <4>1. PICK q \in DOMAIN leaves : q = <<"agents", r, "tools", j>> /\ q[3] = "tools" /\ q[2] = r /\ q[4] = j
        BY <3>2
      <4>2. QED BY <4>1 DEF Positions
    <3>3. QED BY <3>1, <3>2
  <2>4. DOMAIN agent.tools = Positions(leaves, r) /\ Positions(leaves, r) \subseteq Nat
    BY <2>1, <2>3
  <2>5. /\ AgentPaths(agent) \subseteq AgentTrunk(r)
        /\ \A q \in AgentTrunk(r) : q \in AgentPaths(agent) <=> (q[3] = "tools" => q[4] \in Positions(leaves, r))
    BY <2>1, <2>4, AgentPathsAre
  <2>6. ASSUME p \in AgentPaths(agent) PROVE p \in DOMAIN leaves /\ AgentAt(agent, p) = leaves[p]
    <3>1. p \in AgentTrunk(r)
      BY <2>5, <2>6
    <3>2. CASE p[3] = "tools"
      <4>1. p[4] \in Positions(leaves, r) /\ p = <<"agents", r, "tools", p[4]>>
        BY <2>5, <2>6, <3>1, <3>2, AgentTrunkIs
      <4>2. QED BY <2>1, <2>3, <3>2, <4>1 DEF AgentAt
    <3>3. CASE p[3] = "role"
      BY <2>1, <2>2, <3>1, <3>3, AgentTrunkIs DEF AgentAt
    <3>4. CASE p[3] = "model"
      BY <2>1, <2>2, <3>1, <3>4, AgentTrunkIs DEF AgentAt
    <3>5. QED BY <3>1, <3>2, <3>3, <3>4, AgentTrunkIs
  <2>7. ASSUME p \in AgentTrunk(r), p \in DOMAIN leaves PROVE p \in AgentPaths(agent)
    <3>1. p[3] = "tools" => p[4] \in Nat /\ p = <<"agents", r, "tools", p[4]>>
      BY <2>7, AgentTrunkIs
    <3>2. QED BY <2>3, <2>5, <2>7, <3>1
  <2>8. QED BY <2>1, <2>6, <2>7
<1>6. ASSUME NEW s \in Slots, s \in Idents(leaves, "inputs"), NEW p
      PROVE  /\ p \in InputPaths(InputOf(leaves, s)) <=> p \in InputTrunk(s)
             /\ p \in InputTrunk(s) => p \in DOMAIN leaves /\ InputAt(InputOf(leaves, s), p) = leaves[p]
  <2>1. PICK input : input = InputOf(leaves, s) /\ input.name = s /\ input.flow = leaves[<<"inputs", s, "flow">>]
    <3>1. PICK input : input = InputOf(leaves, s)
      OBVIOUS
    <3>2. QED BY <3>1 DEF InputOf
  <2>2. /\ <<"inputs", s, "name">> \in DOMAIN leaves /\ <<"inputs", s, "flow">> \in DOMAIN leaves
        /\ leaves[<<"inputs", s, "name">>] = s
    BY <1>6 DEF Valid, Flattened
  <2>3. InputPaths(input) = InputTrunk(s)
    BY <2>1, InputPathsAre
  <2>4. ASSUME p \in InputTrunk(s) PROVE p \in DOMAIN leaves /\ InputAt(input, p) = leaves[p]
    <3>1. CASE p[3] = "name"
      BY <2>1, <2>2, <2>4, <3>1, InputTrunkIs DEF InputAt
    <3>2. CASE p[3] = "flow"
      BY <2>1, <2>2, <2>4, <3>2, InputTrunkIs DEF InputAt
    <3>3. QED BY <2>4, <3>1, <3>2, InputTrunkIs
  <2>5. QED BY <2>1, <2>3, <2>4
<1>7. \A p \in DOMAIN flat : p \in DOMAIN leaves /\ flat[p] = leaves[p]
  <2>1. \A k \in 1 .. m : roles[k] \in Roles /\ roles[k] \in Idents(leaves, "agents")
    BY <1>1
  <2>2. \A k \in 1 .. n : names[k] \in Slots /\ names[k] \in Idents(leaves, "inputs")
    BY <1>2
  <2>3. QED BY <1>4, <1>5, <1>6, <2>1, <2>2
<1>8. ASSUME NEW p \in DOMAIN leaves PROVE p \in DOMAIN flat
  <2>1. CASE \E r \in Roles : p \in AgentTrunk(r)
    <3>1. PICK r \in Roles : p \in AgentTrunk(r)
      BY <2>1
    <3>2. p[1] = "agents" /\ p[2] = r
      BY <3>1, AgentTrunkIs
    <3>3. r \in Idents(leaves, "agents")
      BY <3>2 DEF Idents
    <3>4. PICK k \in 1 .. m : roles[k] = r
      BY <1>1, <3>3
    <3>5. p \in AgentPaths(AgentOf(leaves, roles[k]))
      BY <1>5, <3>1, <3>3, <3>4
    <3>6. QED BY <1>4, <3>5
  <2>2. CASE \E s \in Slots : p \in InputTrunk(s)
    <3>1. PICK s \in Slots : p \in InputTrunk(s)
      BY <2>2
    <3>2. p[1] = "inputs" /\ p[2] = s
      BY <3>1, InputTrunkIs
    <3>3. s \in Idents(leaves, "inputs")
      BY <3>2 DEF Idents
    <3>4. PICK k \in 1 .. n : names[k] = s
      BY <1>2, <3>3
    <3>5. p \in InputPaths(InputOf(leaves, names[k]))
      BY <1>6, <3>1, <3>3, <3>4
    <3>6. QED BY <1>4, <3>5
  <2>3. QED BY <2>1, <2>2 DEF Flattened
<1>9. DOMAIN flat = DOMAIN leaves
  BY <1>7, <1>8
<1>10. QED BY <1>3, <1>4, <1>7, <1>9

\* A merge that is clean has the leaves that stay, none of them contested or wider.
LEMMA CleanIs ==
    ASSUME common \in Payloads, mine \in Payloads, theirs \in Payloads, MergeResult.kind = "clean"
    PROVE  LET base == Flat(common)  a == Flat(mine)  b == Flat(theirs)
           IN  /\ Flat(MergeResult.def) = Leaves(base, a, b)
               /\ \A p \in DOMAIN base \cup DOMAIN a \cup DOMAIN b : ~Contested(base, a, b, p)
               /\ \A k \in DOMAIN MergeResult.def.inputs : MergeResult.def.inputs[k].flow = "fluid" =>
                     \E j \in DOMAIN common.inputs : common.inputs[j] = MergeResult.def.inputs[k]
<1>1. PICK base, a, b : base = Flat(common) /\ a = Flat(mine) /\ b = Flat(theirs)
  OBVIOUS
<1>2. PICK leaves : leaves = Leaves(base, a, b)
  OBVIOUS
<1>3. PICK contested : contested = {p \in DOMAIN base \cup DOMAIN a \cup DOMAIN b : Contested(base, a, b, p)}
                                   \cup Widened(base, leaves)
  OBVIOUS
<1>4. MergeResult = IF contested # {} THEN [kind |-> "conflict", paths |-> contested]
                    ELSE IF ~Valid(leaves) THEN [kind |-> "raised"]
                    ELSE [kind |-> "clean", def |-> Rebuilt(leaves)]
  BY <1>1, <1>2, <1>3 DEF MergeResult
<1>5. contested = {} /\ Valid(leaves) /\ MergeResult.def = Rebuilt(leaves)
  <2>1. CASE contested # {}
    BY <1>4, <2>1
  <2>2. CASE contested = {} /\ ~Valid(leaves)
    BY <1>4, <2>2
  <2>3. CASE contested = {} /\ Valid(leaves)
    BY <1>4, <2>3
  <2>4. QED BY <2>1, <2>2, <2>3
<1>6. (\A p \in DOMAIN base \cup DOMAIN a \cup DOMAIN b : ~Contested(base, a, b, p)) /\ Widened(base, leaves) = {}
  BY <1>3, <1>5
<1>7. /\ Flattened(base) /\ Flattened(a) /\ Flattened(b)
      /\ \A p \in DOMAIN base : p[1] = "agents" => p[2] \in Range(RolesOf(common))
      /\ \A p \in DOMAIN a : p[1] = "agents" => p[2] \in Range(RolesOf(mine))
      /\ \A p \in DOMAIN b : p[1] = "agents" => p[2] \in Range(RolesOf(theirs))
      /\ \A p \in DOMAIN base : p[1] = "inputs" => p[2] \in Range(NamesOf(common))
      /\ \A p \in DOMAIN a : p[1] = "inputs" => p[2] \in Range(NamesOf(mine))
      /\ \A p \in DOMAIN b : p[1] = "inputs" => p[2] \in Range(NamesOf(theirs))
  BY <1>1, FlatIs
<1>8. Flattened(leaves) /\ DOMAIN leaves \subseteq DOMAIN base \cup DOMAIN a \cup DOMAIN b
  BY <1>2, <1>6, <1>7, LeavesAre
<1>9. leaves = [p \in DOMAIN leaves |-> leaves[p]]
  BY <1>2 DEF Leaves
<1>10. AgentsOf(Rebuilt(leaves).agents, leaves)
  <2>1. \A p \in DOMAIN leaves : p[1] = "agents" =>
               p[2] \in Range(RolesOf(common)) \cup Range(RolesOf(mine)) \cup Range(RolesOf(theirs))
    BY <1>7, <1>8
  <2>2. QED BY <1>8, <2>1, AgentsRebuilt
<1>11. InputsOf(Rebuilt(leaves).inputs, leaves)
  <2>1. \A p \in DOMAIN leaves : p[1] = "inputs" =>
               p[2] \in Range(NamesOf(common)) \cup Range(NamesOf(mine)) \cup Range(NamesOf(theirs))
    BY <1>7, <1>8
  <2>2. QED BY <1>8, <2>1, InputsRebuilt
<1>12. Flat(Rebuilt(leaves)) = leaves
  BY <1>5, <1>8, <1>9, <1>10, <1>11, RebuiltIs
<1>13. ASSUME NEW k \in DOMAIN Rebuilt(leaves).inputs, Rebuilt(leaves).inputs[k].flow = "fluid"
       PROVE  \E j \in DOMAIN common.inputs : common.inputs[j] = Rebuilt(leaves).inputs[k]
  <2>1. PICK inputs : inputs = Rebuilt(leaves).inputs
    OBVIOUS
  <2>2. PICK s \in Slots : s \in Idents(leaves, "inputs") /\ inputs[k] = [name |-> s, flow |-> "fluid"]
                           /\ leaves[<<"inputs", s, "flow">>] = "fluid"
    <3>1. PICK n, names :
              /\ n \in Nat /\ names \in [1 .. n -> Slots]
              /\ inputs = [i \in 1 .. n |-> InputOf(leaves, names[i])]
              /\ \A i \in 1 .. n : names[i] \in Idents(leaves, "inputs")
      BY <1>11, <2>1 DEF InputsOf
    <3>2. k \in 1 .. n /\ inputs[k].flow = "fluid"
      BY <1>13, <2>1, <3>1
    <3>3. QED BY <3>1, <3>2 DEF InputOf
  <2>3. PICK p : p = <<"inputs", s, "flow">> /\ p[1] = "inputs" /\ p[2] = s /\ p[3] = "flow"
    <3>1. PICK p : p = <<"inputs", s, "flow">>
      OBVIOUS
    <3>2. QED BY <3>1
  <2>4. p \in DOMAIN leaves /\ leaves[p] = "fluid"
    BY <1>5, <1>8, <2>2, <2>3 DEF Valid, Flattened
  <2>5. At(base, p) = "fluid"
    BY <1>6, <2>3, <2>4 DEF Widened
  <2>6. p \in DOMAIN base /\ base[p] = "fluid"
    BY <2>5 DEF At, Missing
  <2>7. PICK j \in DOMAIN common.inputs : common.inputs[j].name = s /\ common.inputs[j].flow = "fluid"
    BY <1>1, <2>3, <2>6, FlatIs
  <2>8. common.inputs[j] \in Inputs
    <3>1. PICK before \in Seq(Inputs) : before = common.inputs
      BY DEF Payloads
    <3>2. QED BY <3>1
  <2>9. common.inputs[j] = [name |-> s, flow |-> "fluid"]
    BY <2>7, <2>8 DEF Inputs
  <2>10. QED BY <2>1, <2>2, <2>9
<1>14. QED BY <1>1, <1>2, <1>5, <1>6, <1>12, <1>13

\* ... and so it moves what either author moved, to what that author moved it to.
LEMMA BothChanges ==
    ASSUME common \in Payloads, mine \in Payloads, theirs \in Payloads, MergeResult.kind = "clean"
    PROVE  Diff(common, MergeResult.def) = Diff(common, mine) \cup Diff(common, theirs)
<1>1. PICK base, a, b : base = Flat(common) /\ a = Flat(mine) /\ b = Flat(theirs)
  OBVIOUS
<1>2. PICK leaves : leaves = Leaves(base, a, b) /\ leaves = Flat(MergeResult.def)
  BY <1>1, CleanIs
<1>3. \A p \in DOMAIN base \cup DOMAIN a \cup DOMAIN b : ~Contested(base, a, b, p)
  BY <1>1, CleanIs
<1>4. ASSUME NEW p
      PROVE  /\ At(leaves, p) # At(base, p) <=> Moved(base, a, p) \/ Moved(base, b, p)
             /\ Moved(base, a, p) => At(leaves, p) = At(a, p)
             /\ Moved(base, b, p) => At(leaves, p) = At(b, p)
  <2>1. CASE p \notin DOMAIN base \cup DOMAIN a \cup DOMAIN b
    <3>1. p \notin DOMAIN leaves
      BY <1>2, <2>1 DEF Leaves
    <3>2. QED BY <2>1, <3>1 DEF At, Moved
  <2>2. CASE p \in DOMAIN base \cup DOMAIN a \cup DOMAIN b
    <3>1. ~Contested(base, a, b, p)
      BY <1>3, <2>2
    <3>2. At(leaves, p) = Resolved(base, a, b, p)
      <4>1. p \in DOMAIN leaves <=> Resolved(base, a, b, p) # Missing
        BY <1>2, <2>2, <3>1 DEF Leaves
      <4>2. p \in DOMAIN leaves => leaves[p] = Resolved(base, a, b, p)
        BY <1>2 DEF Leaves
      <4>3. QED BY <4>1, <4>2 DEF At
    <3>3. QED BY <3>1, <3>2 DEF Contested, Resolved, Moved
  <2>3. QED BY <2>1, <2>2
<1>5. ASSUME NEW after, NEW flat, flat = Flat(after), NEW e
      PROVE  e \in Diff(common, after) <=> \E p : At(base, p) # At(flat, p) /\ e = <<p, At(flat, p)>>
  <2>1. Diff(common, after) =
          {<<p, At(flat, p)>> : p \in {q \in DOMAIN base \cup DOMAIN flat : At(base, q) # At(flat, q)}}
    BY <1>1, <1>5 DEF Diff
  <2>2. \A p : At(base, p) # At(flat, p) => p \in DOMAIN base \cup DOMAIN flat
    BY DEF At
  <2>3. QED BY <2>1, <2>2
<1>6. \A e : e \in Diff(common, MergeResult.def) <=> \E p : At(base, p) # At(leaves, p) /\ e = <<p, At(leaves, p)>>
  BY <1>2, <1>5
<1>7. \A e : e \in Diff(common, mine) <=> \E p : At(base, p) # At(a, p) /\ e = <<p, At(a, p)>>
  BY <1>1, <1>5
<1>8. \A e : e \in Diff(common, theirs) <=> \E p : At(base, p) # At(b, p) /\ e = <<p, At(b, p)>>
  BY <1>1, <1>5
<1>9. ASSUME NEW e, e \in Diff(common, MergeResult.def) PROVE e \in Diff(common, mine) \cup Diff(common, theirs)
  <2>1. PICK p : At(base, p) # At(leaves, p) /\ e = <<p, At(leaves, p)>>
    BY <1>6, <1>9
  <2>2. CASE Moved(base, a, p)
    BY <1>4, <1>7, <2>1, <2>2 DEF Moved
  <2>3. CASE Moved(base, b, p)
    BY <1>4, <1>8, <2>1, <2>3 DEF Moved
  <2>4. QED BY <1>4, <2>1, <2>2, <2>3
<1>10. ASSUME NEW e, e \in Diff(common, mine) PROVE e \in Diff(common, MergeResult.def)
  <2>1. PICK p : At(base, p) # At(a, p) /\ e = <<p, At(a, p)>>
    BY <1>7, <1>10
  <2>2. At(base, p) # At(leaves, p) /\ e = <<p, At(leaves, p)>>
    BY <1>4, <2>1 DEF Moved
  <2>3. QED BY <1>6, <2>2
<1>11. ASSUME NEW e, e \in Diff(common, theirs) PROVE e \in Diff(common, MergeResult.def)
  <2>1. PICK p : At(base, p) # At(b, p) /\ e = <<p, At(b, p)>>
    BY <1>8, <1>11
  <2>2. At(base, p) # At(leaves, p) /\ e = <<p, At(leaves, p)>>
    BY <1>4, <2>1 DEF Moved
  <2>3. QED BY <1>6, <2>2
<1>12. QED BY <1>9, <1>10, <1>11

----------------------------------------------------------------------------
(* AgentDiff: editing                                                       *)

\* Whatever the authors edit stays a payload, and what was merged is the merge of the three.
DiffInv ==
    /\ common \in Payloads /\ mine \in Payloads /\ theirs \in Payloads
    /\ merged \in {Unmerged, MergeResult}

PayloadAgents == [role : Roles, model : ModelNames, tools : Seq(ToolNames)]

LEMMA DropIs ==
    ASSUME NEW T, NEW s \in Seq(T), NEW k \in DOMAIN s
    PROVE  Drop(s, k) \in Seq(T)
<1>1. PICK n \in Nat : n = Len(s) /\ DOMAIN s = 1 .. n /\ \A i \in 1 .. n : s[i] \in T
  OBVIOUS
<1>2. k \in 1 .. n
  BY <1>1
<1>3. SubSeq(s, 1, k - 1) \in Seq(T)
  <2>1. 1 \in Int /\ k - 1 \in Int /\ \A i \in 1 .. (k - 1) : s[i] \in T
    BY <1>1, <1>2
  <2>2. QED BY <2>1, SubSeqProperties
<1>4. SubSeq(s, k + 1, Len(s)) \in Seq(T)
  <2>1. k + 1 \in Int /\ Len(s) \in Int /\ \A i \in (k + 1) .. Len(s) : s[i] \in T
    BY <1>1, <1>2
  <2>2. QED BY <2>1, SubSeqProperties
<1>5. QED BY <1>3, <1>4, ConcatProperties DEF Drop

LEMMA ReverseIs ==
    ASSUME NEW T, NEW s \in Seq(T)
    PROVE  Reverse(s) \in Seq(T)
<1>1. PICK n \in Nat : n = Len(s) /\ \A i \in 1 .. n : s[i] \in T
  OBVIOUS
<1>2. \A i \in 1 .. n : (n - i) + 1 \in 1 .. n
  BY <1>1
<1>3. Reverse(s) = [i \in 1 .. n |-> s[(n - i) + 1]]
  BY <1>1 DEF Reverse
<1>4. \A i \in 1 .. n : s[(n - i) + 1] \in T
  BY <1>1, <1>2
<1>5. Reverse(s) \in [1 .. n -> T]
  BY <1>3, <1>4
<1>6. QED BY <1>1, <1>5

\* Another list of agents, or of inputs, makes another payload.
LEMMA WithLists ==
    ASSUME NEW def \in Payloads
    PROVE  /\ \A agents \in Seq(PayloadAgents) : [def EXCEPT !.agents = agents] \in Payloads
           /\ \A inputs \in Seq(Inputs) : [def EXCEPT !.inputs = inputs] \in Payloads
           /\ def.agents \in Seq(PayloadAgents) /\ def.inputs \in Seq(Inputs)
BY DEF Payloads, PayloadAgents

LEMMA ElementPut ==
    ASSUME NEW T, NEW s \in Seq(T), NEW k \in DOMAIN s, NEW e \in T
    PROVE  [s EXCEPT ![k] = e] \in Seq(T)
<1>1. PICK n \in Nat : DOMAIN s = 1 .. n /\ s \in [1 .. n -> T]
  OBVIOUS
<1>2. [s EXCEPT ![k] = e] \in [1 .. n -> T]
  BY <1>1
<1>3. QED BY <1>1, <1>2

LEMMA AgentSpecsAre == AgentSpecs \subseteq PayloadAgents
<1>1. ASSUME NEW t \in ToolNames PROVE <<t>> \in Seq(ToolNames)
  OBVIOUS
<1>2. <<>> \in Seq(ToolNames)
  OBVIOUS
<1>3. ({<<>>} \cup {<<t>> : t \in ToolNames}) \subseteq Seq(ToolNames)
  BY <1>1, <1>2
<1>4. QED BY <1>3 DEF AgentSpecs, PayloadAgents

LEMMA EditedIs ==
    ASSUME NEW def \in Payloads
    PROVE  Edited(def) \subseteq Payloads
<1>1. def.agents \in Seq(PayloadAgents) /\ def.inputs \in Seq(Inputs)
  BY WithLists
<1>2. PICK agents \in Seq(PayloadAgents), inputs \in Seq(Inputs) : agents = def.agents /\ inputs = def.inputs
  BY <1>1
<1>3. ASSUME NEW agent \in AgentSpecs, NEW replace \in BOOLEAN
      PROVE  WithAgent(def, agent, replace) \in Payloads
  <2>1. agent \in PayloadAgents
    BY AgentSpecsAre
  <2>2. PICK put : put = [k \in DOMAIN agents |-> IF agents[k].role = agent.role THEN agent ELSE agents[k]]
    OBVIOUS
  <2>3. put \in Seq(PayloadAgents)
    <3>1. PICK n \in Nat : DOMAIN agents = 1 .. n /\ \A k \in 1 .. n : agents[k] \in PayloadAgents
      BY <1>2
    <3>2. put \in [1 .. n -> PayloadAgents]
      BY <2>1, <2>2, <3>1
    <3>3. QED BY <3>1, <3>2
  <2>4. Append(agents, agent) \in Seq(PayloadAgents)
    BY <1>2, <2>1
  <2>5. /\ [def EXCEPT !.agents = put] \in Payloads
        /\ [def EXCEPT !.agents = Append(agents, agent)] \in Payloads
    BY <2>3, <2>4, WithLists
  <2>6. WithAgent(def, agent, replace) \in
            {[def EXCEPT !.agents = put], [def EXCEPT !.agents = Append(agents, agent)]}
    BY <1>2, <2>2 DEF WithAgent
  <2>7. QED BY <2>5, <2>6
<1>4. ASSUME NEW k \in DOMAIN def.agents PROVE [def EXCEPT !.agents = Drop(@, k)] \in Payloads
  BY <1>1, DropIs, WithLists
<1>5. [def EXCEPT !.agents = Reverse(@)] \in Payloads
  BY <1>1, ReverseIs, WithLists
<1>6. ASSUME NEW k \in DOMAIN def.agents, NEW t \in ToolNames
      PROVE  [def EXCEPT !.agents[k].tools = Append(@, t)] \in Payloads
  <2>1. agents[k] \in PayloadAgents
    BY <1>2, <1>6
  <2>2. PICK agent \in PayloadAgents : agent = [agents[k] EXCEPT !.tools = Append(@, t)]
    <3>1. PICK e \in PayloadAgents : e = agents[k]
      BY <2>1
    <3>2. Append(e.tools, t) \in Seq(ToolNames)
      BY DEF PayloadAgents
    <3>3. PICK tools \in Seq(ToolNames) : tools = Append(e.tools, t)
      BY <3>2
    <3>4. [e EXCEPT !.tools = tools] \in PayloadAgents
      BY DEF PayloadAgents
    <3>5. QED BY <3>1, <3>3, <3>4
  <2>3. PICK put : put = [agents EXCEPT ![k] = agent]
    OBVIOUS
  <2>4. put \in Seq(PayloadAgents)
    BY <1>2, <1>6, <2>3, ElementPut
  <2>5. [def EXCEPT !.agents = put] \in Payloads
    BY <2>4, WithLists
  <2>6. [def EXCEPT !.agents[k].tools = Append(@, t)] = [def EXCEPT !.agents = put]
    BY <1>2, <2>2, <2>3
  <2>7. QED BY <2>5, <2>6
<1>7. ASSUME NEW i \in Inputs PROVE [def EXCEPT !.inputs = Append(@, i)] \in Payloads
  <2>1. Append(inputs, i) \in Seq(Inputs)
    BY <1>2
  <2>2. QED BY <1>2, <2>1, WithLists
<1>8. ASSUME NEW k \in DOMAIN def.inputs, NEW f \in {"static", "fluid"}
      PROVE  [def EXCEPT !.inputs[k].flow = f] \in Payloads
  <2>1. inputs[k] \in Inputs
    BY <1>2, <1>8
  <2>2. PICK input \in Inputs : input = [inputs[k] EXCEPT !.flow = f]
    BY <2>1 DEF Inputs
  <2>3. PICK put : put = [inputs EXCEPT ![k] = input]
    OBVIOUS
  <2>4. put \in Seq(Inputs)
    BY <1>2, <1>8, <2>3, ElementPut
  <2>5. [def EXCEPT !.inputs = put] \in Payloads
    BY <2>4, WithLists
  <2>6. [def EXCEPT !.inputs[k].flow = f] = [def EXCEPT !.inputs = put]
    BY <1>2, <2>2, <2>3
  <2>7. QED BY <2>5, <2>6
<1>9. ASSUME NEW k \in DOMAIN def.inputs PROVE [def EXCEPT !.inputs = Drop(@, k)] \in Payloads
  BY <1>1, DropIs, WithLists
<1>10. ASSUME NEW x \in Edited(def) PROVE x \in Payloads
  <2>1. CASE \E agent \in AgentSpecs, replace \in BOOLEAN : x = WithAgent(def, agent, replace)
    BY <1>3, <2>1
  <2>2. CASE \E k \in DOMAIN def.agents : x = [def EXCEPT !.agents = Drop(@, k)]
    BY <1>4, <2>2
  <2>3. CASE x = [def EXCEPT !.agents = Reverse(@)]
    BY <1>5, <2>3
  <2>4. CASE \E k \in DOMAIN def.agents, t \in ToolNames : x = [def EXCEPT !.agents[k].tools = Append(@, t)]
    BY <1>6, <2>4
  <2>5. CASE \E i \in Inputs : x = [def EXCEPT !.inputs = Append(@, i)]
    BY <1>7, <2>5
  <2>6. CASE \E k \in DOMAIN def.inputs, f \in {"static", "fluid"} : x = [def EXCEPT !.inputs[k].flow = f]
    BY <1>8, <2>6
  <2>7. CASE \E k \in DOMAIN def.inputs : x = [def EXCEPT !.inputs = Drop(@, k)]
    BY <1>9, <2>7
  <2> DEFINE e1 == {WithAgent(def, agent, replace) : agent \in AgentSpecs, replace \in BOOLEAN}
             e2 == {[def EXCEPT !.agents = Drop(@, k)] : k \in DOMAIN def.agents}
             e3 == {[def EXCEPT !.agents = Reverse(@)]}
             e4 == {[def EXCEPT !.agents[k].tools = Append(@, t)] : k \in DOMAIN def.agents, t \in ToolNames}
             e5 == {[def EXCEPT !.inputs = Append(@, i)] : i \in Inputs}
             e6 == {[def EXCEPT !.inputs[k].flow = f] : k \in DOMAIN def.inputs, f \in {"static", "fluid"}}
             e7 == {[def EXCEPT !.inputs = Drop(@, k)] : k \in DOMAIN def.inputs}
  <2>8. x \in e1 \cup e2 \cup e3 \cup e4 \cup e5 \cup e6 \cup e7
    BY <1>10 DEF Edited
  <2>9. ASSUME x \in e1 PROVE \E agent \in AgentSpecs, replace \in BOOLEAN : x = WithAgent(def, agent, replace)
    BY <2>9
  <2>10. ASSUME x \in e2 PROVE \E k \in DOMAIN def.agents : x = [def EXCEPT !.agents = Drop(@, k)]
    BY <2>10
  <2>11. ASSUME x \in e3 PROVE x = [def EXCEPT !.agents = Reverse(@)]
    BY <2>11
  <2>12. ASSUME x \in e4 PROVE \E k \in DOMAIN def.agents, t \in ToolNames : x = [def EXCEPT !.agents[k].tools = Append(@, t)]
    BY <2>12
  <2>13. ASSUME x \in e5 PROVE \E i \in Inputs : x = [def EXCEPT !.inputs = Append(@, i)]
    BY <2>13
  <2>14. ASSUME x \in e6 PROVE \E k \in DOMAIN def.inputs, f \in {"static", "fluid"} : x = [def EXCEPT !.inputs[k].flow = f]
    BY <2>14
  <2>15. ASSUME x \in e7 PROVE \E k \in DOMAIN def.inputs : x = [def EXCEPT !.inputs = Drop(@, k)]
    BY <2>15
  <2> HIDE DEF e1, e2, e3, e4, e5, e6, e7
  <2>16. x \in e1 \/ x \in e2 \/ x \in e3 \/ x \in e4 \/ x \in e5 \/ x \in e6 \/ x \in e7
    BY <2>8
  <2>17. QED BY <2>1, <2>2, <2>3, <2>4, <2>5, <2>6, <2>7, <2>9, <2>10, <2>11, <2>12, <2>13, <2>14, <2>15, <2>16
<1>11. QED BY <1>10

LEMMA DiffInvStep == DiffInv /\ [DiffNext]_diffVars => DiffInv'
<1> SUFFICES ASSUME DiffInv, [DiffNext]_diffVars PROVE DiffInv'
  OBVIOUS
<1>1. Unmerged' = Unmerged
  BY DEF Unmerged
<1>2. CASE EditMine
  BY <1>1, <1>2, EditedIs DEF EditMine, DiffInv
<1>3. CASE EditTheirs
  BY <1>1, <1>3, EditedIs DEF EditTheirs, DiffInv
<1>4. ASSUME common' = common, mine' = mine, theirs' = theirs PROVE MergeResult' = MergeResult
  BY <1>4 DEF MergeResult, Rebuilt
<1>5. CASE Merge
  BY <1>4, <1>5 DEF Merge, DiffInv
<1>6. CASE UNCHANGED diffVars
  BY <1>1, <1>4, <1>6 DEF diffVars, DiffInv
<1>7. QED BY <1>2, <1>3, <1>5, <1>6 DEF DiffNext

LEMMA DiffInvSuffices == DiffInv => MergeIsFaithful
<1> SUFFICES ASSUME DiffInv, merged.kind = "clean"
             PROVE  /\ Diff(common, merged.def) = Diff(common, mine) \cup Diff(common, theirs)
                    /\ \A k \in DOMAIN merged.def.inputs : merged.def.inputs[k].flow = "fluid" =>
                          \E j \in DOMAIN common.inputs : common.inputs[j] = merged.def.inputs[k]
  BY DEF MergeIsFaithful, MergeIsBothChanges, MergeNeverWidens
<1>1. Unmerged.kind # "clean"
  BY DEF Unmerged
<1>2. merged = MergeResult /\ MergeResult.kind = "clean"
  BY <1>1 DEF DiffInv
<1>3. common \in Payloads /\ mine \in Payloads /\ theirs \in Payloads
  BY DEF DiffInv
<1>4. QED BY <1>2, <1>3, BothChanges, CleanIs

\* Whatever the ancestor and the authors' edits, a merge that reports no conflict rebuilds a
\* Definition whose diff is the two diffs put together, and makes no input fluid
\* (agentdiff.py merge, _rebuild and diff; alg3.py).
THEOREM MergeStaysFaithful == DiffSpec => []MergeIsFaithful
<1>1. DiffInit => DiffInv
  BY AgentDiffAssumption DEF DiffInit, DiffInv
<1>2. QED BY <1>1, DiffInvStep, DiffInvSuffices, PTL DEF DiffSpec

----------------------------------------------------------------------------
(* Corpus                                                                   *)

\* A line of the set is a correction that may be learned from, with its output, lifted or
\* not; and lifting it once is lifting it for good.
Rests(id, line) ==
    /\ id \in Corrections /\ Admitted(id)
    /\ line = [output |-> line.output, label |-> line.label]
    /\ Lift(line.output) = Lift(CorrectionOf[id].produced)
    /\ Lift(line.label).tag # "doc"

JobInv(job) ==
    /\ job.op = "emit" => job.id \in Corrections
    /\ job.op = "mine" => /\ job = [op |-> "mine", kinds |-> job.kinds, todo |-> job.todo]
                          /\ \A id \in job.todo : id \in Corrections /\ Admitted(id)
    /\ job.op = "label" => Rests(job.id, job.row)
    /\ job.op = "migrate" => /\ job = [op |-> "migrate", rows |-> job.rows]
                             /\ \A id \in DOMAIN job.rows : Rests(id, job.rows[id])
    /\ job.op = "gate" => RestsOnTrust(job.cases)

GoldenInv ==
    /\ corpus \subseteq Corrections /\ IsFiniteSet(DOMAIN golden)
    /\ \A id \in DOMAIN golden : Rests(id, golden[id])
JobsInv == doing = [c \in Curators |-> doing[c]] /\ \A c \in Curators : JobInv(doing[c])

\* An undisturbed label is in the line, nobody is mining, and a migration that is still to
\* write the line has the label too.
HasLabel(id, line) == Lift(line.label) = Lift(operators[id])
NoneOver(id, job) ==
    job.op # "mine" /\ (job.op = "migrate" /\ id \in DOMAIN job.rows => HasLabel(id, job.rows[id]))
LabelsInv ==
    /\ DOMAIN operators \subseteq DOMAIN golden
    /\ \A id \in DOMAIN operators \ disturbed :
          HasLabel(id, golden[id]) /\ \A c \in Curators : NoneOver(id, doing[c])

CorpusInv == GoldenInv /\ JobsInv /\ LabelsInv /\ AuthorityIsEarned
LEMMA LiftOnce ==
    ASSUME NEW v, Lift(v).tag # "doc"
    PROVE  Lift(Lift(v)) = Lift(v)
BY DEF Lift

LEMMA JobsStep ==
    ASSUME JobsInv, NEW c \in Curators, NEW job, JobInv(job), Become(c, job)
    PROVE  JobsInv' /\ doing'[c] = job /\ \A d \in Curators : d # c => doing'[d] = doing[d]
<1>1. doing' = [d \in Curators |-> IF d = c THEN job ELSE doing[d]]
  BY DEF JobsInv, Become
<1>2. \A d \in Curators : doing'[d] = IF d = c THEN job ELSE doing[d]
  BY <1>1
<1>3. \A d \in Curators : JobInv(doing'[d])
  BY <1>2 DEF JobsInv
<1>4. doing' = [d \in Curators |-> doing'[d]]
  BY <1>1
<1>5. QED BY <1>2, <1>3, <1>4 DEF JobsInv

\* What neither the rows nor the labels depend on.
LEMMA IdleStep ==
    ASSUME CorpusInv, NEW c \in Curators, NEW job, JobInv(job), Become(c, job),
           corpus' \subseteq Corrections, UNCHANGED <<golden, operators>>,
           disturbed \subseteq disturbed',
           \A id \in DOMAIN operators \ disturbed' : NoneOver(id, job)
    PROVE  GoldenInv' /\ JobsInv' /\ LabelsInv'
<1>1. JobsInv' /\ doing'[c] = job /\ \A d \in Curators : d # c => doing'[d] = doing[d]
  BY JobsStep DEF CorpusInv
<1>2. GoldenInv'
  BY DEF CorpusInv, GoldenInv
<1>3. ASSUME NEW id \in DOMAIN operators \ disturbed', NEW d \in Curators
      PROVE  HasLabel(id, golden[id]) /\ NoneOver(id, doing'[d])
  BY <1>1, <1>3 DEF CorpusInv, LabelsInv
<1>4. ASSUME NEW id \in DOMAIN operators \ disturbed' PROVE HasLabel(id, golden[id])
  BY <1>4 DEF CorpusInv, LabelsInv
<1>5. LabelsInv'
  BY <1>3, <1>4 DEF CorpusInv, LabelsInv, HasLabel, NoneOver
<1>6. QED BY <1>1, <1>2, <1>5

LEMMA RestsLifted ==
    ASSUME NEW id, NEW line, Rests(id, line)
    PROVE  /\ Rests(id, Upconverted(line))
           /\ Upconverted(line).output = Lift(CorrectionOf[id].produced)
           /\ Lift(Upconverted(line).label) = Lift(line.label)
<1>1. id \in Corrections /\ Lift(CorrectionOf[id].produced).tag # "doc"
  BY CorpusAssumption DEF Rests
<1>2. PICK v, w : v = Lift(line.output) /\ w = Lift(line.label)
  OBVIOUS
<1>3. Lift(v) = v /\ Lift(w) = w
  BY <1>1, <1>2, LiftOnce DEF Rests
<1>4. Upconverted(line) = [output |-> v, label |-> w]
  BY <1>2 DEF Upconverted
<1>5. PICK up : up = Upconverted(line) /\ up = [output |-> v, label |-> w]
  BY <1>4
<1>6. up.output = v /\ up.label = w
  BY <1>5
<1>7. QED BY <1>1, <1>2, <1>3, <1>5, <1>6 DEF Rests

LEMMA CasesRest ==
    ASSUME GoldenInv
    PROVE  RestsOnTrust(Cases) /\ DOMAIN Cases = DOMAIN golden
<1>1. DOMAIN Cases = DOMAIN golden /\ \A id \in DOMAIN golden : Cases[id] = Upconverted(golden[id])
  BY DEF Cases
<1>2. ASSUME NEW id \in DOMAIN golden
      PROVE  /\ CorrectionOf[id].trusted /\ ~CorrectionOf[id].tainted
             /\ Upconverted(golden[id]).output = Lift(CorrectionOf[id].produced)
  <2>1. Rests(id, golden[id])
    BY DEF GoldenInv
  <2>2. QED BY <2>1, RestsLifted DEF Rests, Admitted
<1>3. QED BY <1>1, <1>2 DEF RestsOnTrust

----------------------------------------------------------------------------
(* Corpus: what is earned                                                   *)

\* A set that is numbered by ids has as many members.
LEMMA CountById ==
    ASSUME NEW I, IsFiniteSet(I), NEW f, \A id \in I : f[id].id = id,
           NEW S, S = {f[id] : id \in I}
    PROVE  Cardinality(S) = Cardinality(I)
<1> DEFINE of == [e \in S |-> e.id]
<1>1. of \in [S -> I] /\ \A e \in S : of[e] = e.id
  OBVIOUS
<1>2. \A e \in S : e = f[e.id]
  OBVIOUS
<1> HIDE DEF of
<1>3. of \in Injection(S, I)
  BY <1>1, <1>2 DEF Injection, IsInjective
<1>4. of \in Surjection(S, I)
  BY <1>1 DEF Surjection
<1>5. QED BY <1>3, <1>4, FS_Injection

LEMMA GuardEarns ==
    ASSUME NEW p, NEW cases, IsFiniteSet(DOMAIN cases), NEW bar \in Bars,
           Stage(Counted(p, cases), bar.floor, bar.coverage) = "block"
    PROVE  LET caught == Caught(p, Wrong(cases))
               blamed == Caught(p, Right(cases))
           IN  /\ IF bar = NoBar THEN caught + blamed > 0 ELSE caught > 0
               /\ 100 * caught >= bar.floor * (caught + blamed)
               /\ 100 * caught >= bar.coverage * Cardinality(Wrong(cases))
<1> DEFINE ids == DOMAIN cases
           rights == {id \in ids : cases[id].label \notin {NullValue, cases[id].output}}
           hit == {id \in ids : Matches(p, cases[id].output)}
           blame == {id \in rights : Matches(p, cases[id].label)}
           examples == UNION {Examples(id, cases[id]) : id \in ids}
           fired == {e \in examples : Matches(p, e.value)}
<1>1. /\ IsFiniteSet(ids) /\ IsFiniteSet(hit) /\ IsFiniteSet(blame)
      /\ Cardinality(ids) \in Nat /\ Cardinality(hit) \in Nat /\ Cardinality(blame) \in Nat
  <2>1. hit \subseteq ids /\ blame \subseteq ids
    OBVIOUS
  <2> HIDE DEF hit, blame
  <2>2. QED BY <2>1, FS_Subset, FS_CardinalityType
<1>2. \A e : e \in examples <=>
         \/ \E id \in ids : e = [id |-> id, value |-> cases[id].output, disallowed |-> TRUE]
         \/ \E id \in rights : e = [id |-> id, value |-> cases[id].label, disallowed |-> FALSE]
  BY DEF Examples
<1>3. /\ \A e : e \in Wrong(cases) <=> \E id \in ids : e = [id |-> id, value |-> cases[id].output]
      /\ \A e : e \in Right(cases) <=> \E id \in rights : e = [id |-> id, value |-> cases[id].label]
  BY DEF Wrong, Right
<1> HIDE DEF ids, rights, examples
<1>4. Cardinality(Wrong(cases)) = Cardinality(ids)
  <2> DEFINE S == Wrong(cases)
  <2>1. PICK f : f = [id \in ids |-> [id |-> id, value |-> cases[id].output]]
    OBVIOUS
  <2>2. \A e : e \in S <=> \E id \in ids : e = [id |-> id, value |-> cases[id].output]
    BY <1>3
  <2> HIDE DEF S
  <2>3. S = {f[id] : id \in ids}
    BY <2>1, <2>2
  <2>4. \A id \in ids : f[id].id = id
    BY <2>1
  <2>5. Cardinality(S) = Cardinality(ids)
    BY <1>1, <2>3, <2>4, CountById
  <2>6. QED BY <2>5 DEF S
<1>5. Caught(p, Wrong(cases)) = Cardinality(hit)
  <2> DEFINE S == {e \in Wrong(cases) : Matches(p, e.value)}
  <2>1. PICK f : f = [id \in hit |-> [id |-> id, value |-> cases[id].output]]
    OBVIOUS
  <2>2. \A e : e \in S <=> \E id \in hit : e = [id |-> id, value |-> cases[id].output]
    BY <1>3
  <2> HIDE DEF S, hit
  <2>3. S = {f[id] : id \in hit}
    BY <2>1, <2>2
  <2>4. \A id \in hit : f[id].id = id
    BY <2>1
  <2>5. Cardinality(S) = Cardinality(hit)
    BY <1>1, <2>3, <2>4, CountById
  <2>6. QED BY <2>5 DEF Caught, S
<1>6. Caught(p, Right(cases)) = Cardinality(blame)
  <2> DEFINE S == {e \in Right(cases) : Matches(p, e.value)}
  <2>1. PICK f : f = [id \in blame |-> [id |-> id, value |-> cases[id].label]]
    OBVIOUS
  <2>2. \A e : e \in S <=> \E id \in blame : e = [id |-> id, value |-> cases[id].label]
    BY <1>3
  <2> HIDE DEF S, blame
  <2>3. S = {f[id] : id \in blame}
    BY <2>1, <2>2
  <2>4. \A id \in blame : f[id].id = id
    BY <2>1
  <2>5. Cardinality(S) = Cardinality(blame)
    BY <1>1, <2>3, <2>4, CountById
  <2>6. QED BY <2>5 DEF Caught, S
<1>7. Cardinality({e \in examples : e.disallowed}) = Cardinality(ids)
  <2> DEFINE S == {e \in examples : e.disallowed}
  <2>1. PICK f : f = [id \in ids |-> [id |-> id, value |-> cases[id].output, disallowed |-> TRUE]]
    OBVIOUS
  <2>2. \A e : e \in S <=> \E id \in ids : e = [id |-> id, value |-> cases[id].output, disallowed |-> TRUE]
    BY <1>2
  <2> HIDE DEF S
  <2>3. S = {f[id] : id \in ids}
    BY <2>1, <2>2
  <2>4. \A id \in ids : f[id].id = id
    BY <2>1
  <2>5. Cardinality(S) = Cardinality(ids)
    BY <1>1, <2>3, <2>4, CountById
  <2>6. QED BY <2>5 DEF S
<1>8. Cardinality({e \in fired : e.disallowed}) = Cardinality(hit)
  <2> DEFINE S == {e \in fired : e.disallowed}
  <2>1. PICK f : f = [id \in hit |-> [id |-> id, value |-> cases[id].output, disallowed |-> TRUE]]
    OBVIOUS
  <2>2. \A e : e \in S <=> \E id \in hit : e = [id |-> id, value |-> cases[id].output, disallowed |-> TRUE]
    BY <1>2
  <2> HIDE DEF S, hit
  <2>3. S = {f[id] : id \in hit}
    BY <2>1, <2>2
  <2>4. \A id \in hit : f[id].id = id
    BY <2>1
  <2>5. Cardinality(S) = Cardinality(hit)
    BY <1>1, <2>3, <2>4, CountById
  <2>6. QED BY <2>5 DEF S
<1>9. Cardinality({e \in fired : ~e.disallowed}) = Cardinality(blame)
  <2> DEFINE S == {e \in fired : ~e.disallowed}
  <2>1. PICK f : f = [id \in blame |-> [id |-> id, value |-> cases[id].label, disallowed |-> FALSE]]
    OBVIOUS
  <2>2. \A e : e \in S <=> \E id \in blame : e = [id |-> id, value |-> cases[id].label, disallowed |-> FALSE]
    BY <1>2
  <2> HIDE DEF S, blame
  <2>3. S = {f[id] : id \in blame}
    BY <2>1, <2>2
  <2>4. \A id \in blame : f[id].id = id
    BY <2>1
  <2>5. Cardinality(S) = Cardinality(blame)
    BY <1>1, <2>3, <2>4, CountById
  <2>6. QED BY <2>5 DEF S
<1>10. PICK n, k, w : n = Cardinality(hit) /\ k = Cardinality(blame) /\ w = Cardinality(ids)
  OBVIOUS
<1>11. Counted(p, cases) = [tp |-> n, fp |-> k, disallowed |-> w]
  BY <1>7, <1>8, <1>9, <1>10 DEF Counted, examples, ids
<1>12. Earned([tp |-> n, fp |-> k, disallowed |-> w], bar.floor, bar.coverage)
  BY <1>11 DEF Stage
<1>13. /\ n + k > 0 /\ LowerBoundReaches(n, n + k, bar.floor) /\ LowerBoundReaches(n, w, bar.coverage)
  BY <1>12 DEF Earned
<1>14. n \in Nat /\ k \in Nat /\ w \in Nat
  BY <1>1, <1>10
<1>15. PICK floor \in 0 .. 100, coverage \in 0 .. 100 :
          bar.floor = floor /\ bar.coverage = coverage /\ bar = [floor |-> floor, coverage |-> coverage]
  BY CorpusAssumption
<1>16. \/ floor = 0
       \/ 100 * n >= floor * (n + k)
  <2>1. floor * (n + k) \in Int /\ n + k \in Int
    BY <1>14, <1>15
  <2>2. QED BY <1>13, <1>14, <1>15, <2>1 DEF LowerBoundReaches
<1>17. \/ coverage = 0
       \/ w > 0 /\ 100 * n >= coverage * w
  <2>1. coverage * w \in Int
    BY <1>14, <1>15
  <2>2. QED BY <1>13, <1>14, <1>15, <2>1 DEF LowerBoundReaches
<1>18. 100 * n >= floor * (n + k) /\ 100 * n >= coverage * w
  <2>1. CASE floor # 0 /\ coverage # 0
    BY <1>16, <1>17, <2>1
  <2>2. 0 * (n + k) = 0 /\ 0 * w = 0 /\ 100 * n >= 0
    BY <1>14
  <2>3. QED BY <1>16, <1>17, <2>2
<1>19. n = 0 => floor = 0 /\ coverage = 0
  <2> SUFFICES ASSUME n = 0 PROVE floor = 0 /\ coverage = 0
    OBVIOUS
  <2>1. k > 0
    BY <1>13, <1>14
  <2>2. floor # 0 => floor * k > 0
    BY <1>14, <1>15, <2>1
  <2>3. coverage # 0 /\ w > 0 => coverage * w > 0
    BY <1>14, <1>15
  <2>4. floor * k \in Int /\ coverage * w \in Int /\ n + k = k /\ 100 * n = 0
    BY <1>14, <1>15
  <2>5. QED BY <1>16, <1>17, <1>18, <2>2, <2>3, <2>4
<1>20. IF bar = NoBar THEN n + k > 0 ELSE n > 0
  BY <1>13, <1>14, <1>15, <1>19 DEF NoBar
<1>21. QED BY <1>4, <1>5, <1>6, <1>10, <1>15, <1>18, <1>20

----------------------------------------------------------------------------
(* Corpus: the steps                                                        *)

\* Nothing is earned or lost where neither the guard nor the verifier moves.
LEMMA AuthorityKept ==
    ASSUME AuthorityIsEarned, UNCHANGED <<guard, verifier>>, benchmarked => benchmarked'
    PROVE  AuthorityIsEarned'
BY DEF AuthorityIsEarned

LEMMA RestJob == JobInv(AtRest) /\ \A id : NoneOver(id, AtRest)
BY DEF JobInv, NoneOver, AtRest

\* A row is written, and the labels are no other than before.
LEMMA WriteStep ==
    ASSUME CorpusInv, NEW c \in Curators, NEW job, JobInv(job), Become(c, job),
           NEW id, NEW line, Rests(id, line), golden' = With(golden, id, line),
           UNCHANGED <<corpus, operators, disturbed>>,
           id \in DOMAIN operators \ disturbed => HasLabel(id, line),
           \A i \in DOMAIN operators \ disturbed : NoneOver(i, job)
    PROVE  GoldenInv' /\ JobsInv' /\ LabelsInv'
<1>1. JobsInv' /\ doing'[c] = job /\ \A d \in Curators : d # c => doing'[d] = doing[d]
  BY JobsStep DEF CorpusInv
<1>2. /\ DOMAIN golden' = DOMAIN golden \cup {id}
      /\ \A i \in DOMAIN golden' : golden'[i] = IF i = id THEN line ELSE golden[i]
  BY DEF With
<1>3. IsFiniteSet(DOMAIN golden')
  BY <1>2, FS_AddElement DEF CorpusInv, GoldenInv
<1>4. \A i \in DOMAIN golden' : Rests(i, golden'[i])
  BY <1>2 DEF CorpusInv, GoldenInv
<1>5. GoldenInv'
  BY <1>3, <1>4 DEF CorpusInv, GoldenInv
<1>6. ASSUME NEW i \in DOMAIN operators \ disturbed
      PROVE  HasLabel(i, golden'[i]) /\ \A d \in Curators : NoneOver(i, doing'[d])
  <2>1. i \in DOMAIN golden' /\ HasLabel(i, golden[i])
    BY <1>2, <1>6 DEF CorpusInv, LabelsInv
  <2>2. HasLabel(i, golden'[i])
    BY <1>2, <1>6, <2>1
  <2>3. \A d \in Curators : NoneOver(i, doing'[d])
    BY <1>1, <1>6 DEF CorpusInv, LabelsInv
  <2>4. QED BY <2>2, <2>3
<1>7. LabelsInv'
  BY <1>2, <1>6 DEF CorpusInv, LabelsInv, HasLabel, NoneOver
<1>8. QED BY <1>1, <1>5, <1>7

LEMMA EmitStep ==
    ASSUME CorpusInv, NEW c \in Curators, NEW id \in Corrections, EmitToLedger(c, id) \/ EmitToCorpus(c)
    PROVE  CorpusInv'
<1>1. AuthorityIsEarned'
  BY AuthorityKept DEF EmitToLedger, EmitToCorpus, CorpusInv
<1>2. CASE EmitToLedger(c, id)
  <2>1. PICK job : job = [op |-> "emit", id |-> id]
    OBVIOUS
  <2>2. job.op = "emit" /\ job.id = id
    BY <2>1
  <2>3. JobInv(job) /\ \A i : NoneOver(i, job)
    BY <2>2 DEF JobInv, NoneOver
  <2>4. Become(c, job) /\ corpus' \subseteq Corrections /\ UNCHANGED <<golden, operators, disturbed>>
    BY <1>2, <2>1 DEF EmitToLedger, CorpusInv, GoldenInv
  <2>5. GoldenInv' /\ JobsInv' /\ LabelsInv'
    BY <2>3, <2>4, IdleStep
  <2>6. QED BY <1>1, <2>5 DEF CorpusInv
<1>3. CASE EmitToCorpus(c)
  <2>1. doing[c].id \in Corrections
    BY <1>3 DEF EmitToCorpus, CorpusInv, JobsInv, JobInv
  <2>2. Become(c, AtRest) /\ corpus' \subseteq Corrections /\ UNCHANGED <<golden, operators, disturbed>>
    BY <1>3, <2>1 DEF EmitToCorpus, CorpusInv, GoldenInv
  <2>3. GoldenInv' /\ JobsInv' /\ LabelsInv'
    BY <2>2, RestJob, IdleStep
  <2>4. QED BY <1>1, <2>3 DEF CorpusInv
<1>4. QED BY <1>2, <1>3

LEMMA BeginMiningStep ==
    ASSUME CorpusInv, NEW c \in Curators, NEW kinds \in KindSets, BeginMining(c, kinds)
    PROVE  CorpusInv'
<1>1. PICK job : job = [op |-> "mine", kinds |-> kinds, todo |-> Mined(kinds, corpus)]
  OBVIOUS
<1>2. job.op = "mine" /\ job.kinds = kinds /\ job.todo = Mined(kinds, corpus)
  BY <1>1
<1>3. \A id \in job.todo : id \in Corrections /\ Admitted(id)
  BY <1>2 DEF Mined, CorpusInv, GoldenInv
<1>4. JobInv(job)
  BY <1>1, <1>2, <1>3 DEF JobInv
<1>5. Become(c, job) /\ UNCHANGED <<corpus, golden, operators>> /\ disturbed' = Corrections
  BY <1>1 DEF BeginMining
<1>6. JobsInv'
  BY <1>4, <1>5, JobsStep DEF CorpusInv
<1>7. GoldenInv'
  BY <1>5 DEF CorpusInv, GoldenInv
<1>8. DOMAIN operators \subseteq Corrections
  BY DEF CorpusInv, LabelsInv, GoldenInv, Rests
<1>9. LabelsInv'
  BY <1>5, <1>8 DEF CorpusInv, LabelsInv
<1>10. AuthorityIsEarned'
  BY AuthorityKept DEF BeginMining, CorpusInv
<1>11. QED BY <1>6, <1>7, <1>9, <1>10 DEF CorpusInv

LEMMA AddCaseStep ==
    ASSUME CorpusInv, NEW c \in Curators, NEW id \in Corrections, AddCase(c, id)
    PROVE  CorpusInv'
<1>1. PICK was : was = doing[c] /\ was.op = "mine" /\ id \in was.todo /\ JobInv(was)
  BY DEF AddCase, CorpusInv, JobsInv
<1>2. was = [op |-> "mine", kinds |-> was.kinds, todo |-> was.todo]
      /\ \A i \in was.todo : i \in Corrections /\ Admitted(i)
  BY <1>1 DEF JobInv
<1>3. PICK job : job = [was EXCEPT !.todo = @ \ {id}]
  OBVIOUS
<1>4. job = [op |-> "mine", kinds |-> was.kinds, todo |-> was.todo \ {id}]
  BY <1>2, <1>3
<1>5. job.op = "mine" /\ job.kinds = was.kinds /\ job.todo = was.todo \ {id}
  BY <1>4
<1>6. JobInv(job)
  BY <1>2, <1>4, <1>5 DEF JobInv
<1>7. \A i : i \notin DOMAIN operators \ disturbed
  BY <1>1 DEF CorpusInv, LabelsInv, NoneOver
<1>8. PICK line : /\ line = CaseOf(id) /\ line.output = CorrectionOf[id].produced
                  /\ line.label = CorrectionOf[id].expected
                  /\ line = [output |-> line.output, label |-> line.label]
  <2>1. PICK line : line = CaseOf(id) /\ line = [output |-> CorrectionOf[id].produced,
                                                label |-> CorrectionOf[id].expected]
    BY DEF CaseOf
  <2>2. line.output = CorrectionOf[id].produced /\ line.label = CorrectionOf[id].expected
    BY <2>1
  <2>3. QED BY <2>1, <2>2
<1>9. Rests(id, line)
  BY <1>1, <1>2, <1>8, CorpusAssumption DEF Rests
<1>10. /\ Become(c, job) /\ golden' = With(golden, id, line)
       /\ UNCHANGED <<corpus, operators, disturbed>>
  BY <1>1, <1>3, <1>8 DEF AddCase
<1>11. GoldenInv' /\ JobsInv' /\ LabelsInv'
  BY <1>6, <1>7, <1>9, <1>10, WriteStep
<1>12. AuthorityIsEarned'
  BY AuthorityKept DEF AddCase, CorpusInv
<1>13. QED BY <1>11, <1>12 DEF CorpusInv

LEMMA RestStep ==
    ASSUME CorpusInv, NEW c \in Curators, EndMining(c) \/ CuratorDies(c)
    PROVE  CorpusInv'
<1>1. Become(c, AtRest) /\ corpus' \subseteq Corrections /\ UNCHANGED <<golden, operators, disturbed>>
  BY DEF EndMining, CuratorDies, CorpusInv, GoldenInv
<1>2. GoldenInv' /\ JobsInv' /\ LabelsInv'
  BY <1>1, RestJob, IdleStep
<1>3. AuthorityIsEarned'
  BY AuthorityKept DEF EndMining, CuratorDies, CorpusInv
<1>4. QED BY <1>2, <1>3 DEF CorpusInv

LEMMA BeginLabelStep ==
    ASSUME CorpusInv, NEW c \in Curators, NEW id \in Corrections, NEW label \in CaseLabels,
           BeginLabel(c, id, label)
    PROVE  CorpusInv'
<1>1. PICK line : line = golden[id] /\ Rests(id, line)
  BY DEF BeginLabel, CorpusInv, GoldenInv
<1>2. PICK next : next = [line EXCEPT !.label = label]
  OBVIOUS
<1>3. next = [output |-> line.output, label |-> label]
  BY <1>1, <1>2 DEF Rests
<1>4. next.output = line.output /\ next.label = label
  BY <1>3
<1>5. Rests(id, next)
  BY <1>1, <1>3, <1>4, CorpusAssumption DEF Rests
<1>6. PICK job : job = [op |-> "label", id |-> id, row |-> next]
  OBVIOUS
<1>7. job.op = "label" /\ job.id = id /\ job.row = next
  BY <1>6
<1>8. JobInv(job) /\ \A i : NoneOver(i, job)
  BY <1>5, <1>7 DEF JobInv, NoneOver
<1>9. Become(c, job) /\ corpus' \subseteq Corrections /\ UNCHANGED <<golden, operators, disturbed>>
  BY <1>1, <1>2, <1>6 DEF BeginLabel, CorpusInv, GoldenInv
<1>10. GoldenInv' /\ JobsInv' /\ LabelsInv'
  BY <1>8, <1>9, IdleStep
<1>11. AuthorityIsEarned'
  BY AuthorityKept DEF BeginLabel, CorpusInv
<1>12. QED BY <1>10, <1>11 DEF CorpusInv

\* The label is in the row and in the history, and nobody else is over a row unless it
\* is disturbed.
LEMMA EndLabelStep ==
    ASSUME CorpusInv, NEW c \in Curators, EndLabel(c)
    PROVE  CorpusInv'
<1>1. PICK id, line : id = doing[c].id /\ line = doing[c].row
  OBVIOUS
<1>2. Rests(id, line)
  BY <1>1 DEF EndLabel, CorpusInv, JobsInv, JobInv
<1>3. /\ golden' = With(golden, id, line) /\ operators' = With(operators, id, line.label)
      /\ disturbed' = IF OthersWriting(c) THEN disturbed \cup {id} ELSE disturbed \ {id}
      /\ Become(c, AtRest) /\ UNCHANGED <<corpus, guard, verifier, benchmarked>>
  BY <1>1 DEF EndLabel
<1>4. JobsInv' /\ doing'[c] = AtRest /\ \A d \in Curators : d # c => doing'[d] = doing[d]
  BY <1>3, RestJob, JobsStep DEF CorpusInv
<1>5. /\ DOMAIN golden' = DOMAIN golden \cup {id}
      /\ \A i \in DOMAIN golden' : golden'[i] = IF i = id THEN line ELSE golden[i]
  BY <1>3 DEF With
<1>6. /\ DOMAIN operators' = DOMAIN operators \cup {id}
      /\ \A i \in DOMAIN operators' : operators'[i] = IF i = id THEN line.label ELSE operators[i]
  BY <1>3 DEF With
<1>7. GoldenInv'
  <2>1. IsFiniteSet(DOMAIN golden')
    BY <1>5, FS_AddElement DEF CorpusInv, GoldenInv
  <2>2. \A i \in DOMAIN golden' : Rests(i, golden'[i])
    BY <1>2, <1>5 DEF CorpusInv, GoldenInv
  <2>3. QED BY <1>3, <2>1, <2>2 DEF CorpusInv, GoldenInv
<1>8. ASSUME NEW i \in DOMAIN operators' \ disturbed'
      PROVE  /\ Lift(golden'[i].label) = Lift(operators'[i])
             /\ \A d \in Curators :
                   /\ doing'[d].op # "mine"
                   /\ doing'[d].op = "migrate" /\ i \in DOMAIN doing'[d].rows =>
                         Lift(doing'[d].rows[i].label) = Lift(operators'[i])
  <2>1. AtRest.op # "mine" /\ AtRest.op # "migrate"
    BY DEF AtRest
  <2>2. CASE i = id
    <3>1. ~OthersWriting(c)
      BY <1>3, <1>8, <2>2
    <3>2. \A d \in Curators : doing'[d].op # "mine" /\ doing'[d].op # "migrate"
      BY <1>4, <2>1, <3>1 DEF OthersWriting
    <3>3. golden'[i] = line /\ operators'[i] = line.label
      BY <1>5, <1>6, <2>2
    <3>4. QED BY <3>2, <3>3
  <2>3. CASE i # id
    <3>1. i \in DOMAIN operators \ disturbed
      BY <1>3, <1>6, <1>8, <2>3
    <3>2. HasLabel(i, golden[i]) /\ \A d \in Curators : NoneOver(i, doing[d])
      BY <3>1 DEF CorpusInv, LabelsInv
    <3>3. i \in DOMAIN golden' /\ golden'[i] = golden[i] /\ operators'[i] = operators[i]
      BY <1>5, <1>6, <2>3, <3>1 DEF CorpusInv, LabelsInv
    <3>4. QED BY <1>4, <2>1, <3>2, <3>3 DEF HasLabel, NoneOver
  <2>4. QED BY <2>2, <2>3
<1>9. LabelsInv'
  <2>1. DOMAIN operators' \subseteq DOMAIN golden'
    BY <1>5, <1>6 DEF CorpusInv, LabelsInv
  <2>2. QED BY <1>8, <2>1 DEF LabelsInv, HasLabel, NoneOver
<1>10. AuthorityIsEarned'
  BY <1>3, AuthorityKept DEF CorpusInv
<1>11. QED BY <1>4, <1>7, <1>9, <1>10 DEF CorpusInv

LEMMA BeginMigrationStep ==
    ASSUME CorpusInv, NEW c \in Curators, BeginMigration(c)
    PROVE  CorpusInv'
<1>1. PICK changed, rows :
          /\ changed \subseteq DOMAIN golden /\ rows = [id \in changed |-> Migrated(golden[id])]
          /\ Become(c, [op |-> "migrate", rows |-> rows])
  BY DEF BeginMigration
<1>2. PICK job : job = [op |-> "migrate", rows |-> rows]
  OBVIOUS
<1>3. job.op = "migrate" /\ job.rows = rows
  BY <1>2
<1>4. ASSUME NEW id \in DOMAIN rows
      PROVE  /\ id \in DOMAIN golden /\ Rests(id, rows[id])
             /\ Lift(rows[id].label) = Lift(golden[id].label)
  <2>1. id \in DOMAIN golden /\ rows[id] = Upconverted(golden[id])
    BY <1>1, <1>4 DEF Migrated
  <2>2. Rests(id, golden[id])
    BY <2>1 DEF CorpusInv, GoldenInv
  <2>3. QED BY <2>1, <2>2, RestsLifted
<1>5. JobInv(job)
  BY <1>2, <1>3, <1>4 DEF JobInv
<1>6. \A id \in DOMAIN operators \ disturbed : NoneOver(id, job)
  BY <1>3, <1>4 DEF CorpusInv, LabelsInv, HasLabel, NoneOver
<1>7. Become(c, job) /\ corpus' \subseteq Corrections /\ UNCHANGED <<golden, operators, disturbed>>
  BY <1>1, <1>2 DEF BeginMigration, CorpusInv, GoldenInv
<1>8. GoldenInv' /\ JobsInv' /\ LabelsInv'
  BY <1>5, <1>6, <1>7, IdleStep
<1>9. AuthorityIsEarned'
  BY AuthorityKept DEF BeginMigration, CorpusInv
<1>10. QED BY <1>8, <1>9 DEF CorpusInv

LEMMA MigrateStep ==
    ASSUME CorpusInv, NEW c \in Curators, NEW id \in Corrections, MigrateCase(c, id)
    PROVE  CorpusInv'
<1>1. PICK was : was = doing[c] /\ was.op = "migrate" /\ id \in DOMAIN was.rows /\ JobInv(was)
  BY DEF MigrateCase, CorpusInv, JobsInv
<1>2. /\ was = [op |-> "migrate", rows |-> was.rows]
      /\ \A i \in DOMAIN was.rows : Rests(i, was.rows[i])
  BY <1>1 DEF JobInv
<1>3. PICK left, rows, line : left = DOMAIN was.rows \ {id} /\ rows = [i \in left |-> was.rows[i]]
                              /\ line = was.rows[id]
  OBVIOUS
<1>4. PICK more : more = [op |-> "migrate", rows |-> rows]
  OBVIOUS
<1>5. more.op = "migrate" /\ more.rows = rows
  BY <1>4
<1>6. \A i \in DOMAIN rows : i \in DOMAIN was.rows /\ rows[i] = was.rows[i]
  BY <1>3
<1>7. JobInv(more)
  BY <1>2, <1>4, <1>5, <1>6 DEF JobInv
<1>8. PICK job : job = IF left = {} THEN AtRest ELSE more
  OBVIOUS
<1>9. JobInv(job)
  BY <1>7, <1>8, RestJob
<1>10. \A i \in DOMAIN operators \ disturbed : NoneOver(i, was)
  BY <1>1 DEF CorpusInv, LabelsInv
<1>11. \A i \in DOMAIN operators \ disturbed : NoneOver(i, more)
  BY <1>1, <1>5, <1>6, <1>10 DEF NoneOver
<1>12. \A i \in DOMAIN operators \ disturbed : NoneOver(i, job)
  BY <1>8, <1>11, RestJob
<1>13. Rests(id, line) /\ (id \in DOMAIN operators \ disturbed => HasLabel(id, line))
  BY <1>1, <1>2, <1>3, <1>10 DEF NoneOver
<1>14. [was EXCEPT !.rows = [i \in left |-> @[i]]] = more
  BY <1>2, <1>3, <1>4
<1>15. /\ Become(c, job) /\ golden' = With(golden, id, line)
       /\ UNCHANGED <<corpus, operators, disturbed>>
  BY <1>1, <1>3, <1>8, <1>14 DEF MigrateCase
<1>16. GoldenInv' /\ JobsInv' /\ LabelsInv'
  BY <1>9, <1>12, <1>13, <1>15, WriteStep
<1>17. AuthorityIsEarned'
  BY AuthorityKept DEF MigrateCase, CorpusInv
<1>18. QED BY <1>16, <1>17 DEF CorpusInv

\* A guard blocks over the cases as they are, and these rest on trust.
LEMMA SynthesizeStep ==
    ASSUME CorpusInv, NEW c \in Curators, NEW proposal \in GuardProposals, NEW bar \in Bars,
           Synthesize(c, proposal, bar)
    PROVE  CorpusInv'
<1>1. PICK p, cases : p = Distill(proposal) /\ cases = Cases
  OBVIOUS
<1>2. Stage(Counted(p, cases), bar.floor, bar.coverage) = "block"
  BY <1>1 DEF Synthesize
<1>3. guard' = [stage |-> "block", predicate |-> p, bar |-> bar, cases |-> cases]
  BY <1>1 DEF Synthesize
<1>4. RestsOnTrust(cases) /\ IsFiniteSet(DOMAIN cases)
  BY <1>1, CasesRest DEF CorpusInv, GoldenInv
<1>5. LET caught == Caught(p, Wrong(cases))
          blamed == Caught(p, Right(cases))
      IN  /\ IF bar = NoBar THEN caught + blamed > 0 ELSE caught > 0
          /\ 100 * caught >= bar.floor * (caught + blamed)
          /\ 100 * caught >= bar.coverage * Cardinality(Wrong(cases))
  BY <1>2, <1>4, GuardEarns
<1>6. guard'.predicate = p /\ guard'.bar = bar /\ guard'.cases = cases
  BY <1>3
<1>7. UNCHANGED <<corpus, golden, benchmarked, doing, verifier, operators, disturbed>>
  BY DEF Synthesize
<1>8. AuthorityIsEarned'
  BY <1>4, <1>5, <1>6, <1>7 DEF AuthorityIsEarned, CorpusInv
<1>9. GoldenInv' /\ JobsInv' /\ LabelsInv'
  BY <1>7 DEF CorpusInv, GoldenInv, JobsInv, LabelsInv, HasLabel, NoneOver
<1>10. QED BY <1>8, <1>9 DEF CorpusInv

LEMMA BeginGateStep ==
    ASSUME CorpusInv, NEW c \in Curators, BeginGate(c)
    PROVE  CorpusInv'
<1>1. PICK job : job = [op |-> "gate", cases |-> Cases] /\ job.op = "gate" /\ job.cases = Cases
  <2>1. PICK job : job = [op |-> "gate", cases |-> Cases]
    OBVIOUS
  <2>2. QED BY <2>1
<1>2. JobInv(job) /\ \A i : NoneOver(i, job)
  BY <1>1, CasesRest DEF JobInv, NoneOver, CorpusInv
<1>3. Become(c, job) /\ corpus' \subseteq Corrections /\ UNCHANGED <<golden, operators, disturbed>>
  BY <1>1 DEF BeginGate, CorpusInv, GoldenInv
<1>4. GoldenInv' /\ JobsInv' /\ LabelsInv'
  BY <1>2, <1>3, IdleStep
<1>5. AuthorityIsEarned'
  BY AuthorityKept DEF BeginGate, CorpusInv
<1>6. QED BY <1>4, <1>5 DEF CorpusInv

LEMMA EndGateStep ==
    ASSUME CorpusInv, NEW c \in Curators, EndGate(c)
    PROVE  CorpusInv'
<1>1. PICK cases : cases = doing[c].cases /\ RestsOnTrust(cases)
  BY DEF EndGate, CorpusInv, JobsInv, JobInv
<1>2. /\ Become(c, AtRest) /\ corpus' \subseteq Corrections /\ UNCHANGED <<golden, operators, disturbed>>
      /\ UNCHANGED <<guard, benchmarked>>
  BY DEF EndGate, CorpusInv, GoldenInv
<1>3. GoldenInv' /\ JobsInv' /\ LabelsInv'
  BY <1>2, RestJob, IdleStep
<1>4. AuthorityIsEarned'
  <2>1. CASE PrecisionGate(cases, benchmarked)
    <3>1. benchmarked
      BY <2>1 DEF PrecisionGate
    <3>2. verifier' = [gated |-> TRUE, cases |-> cases]
      BY <1>1, <2>1 DEF EndGate
    <3>3. verifier'.cases = cases
      BY <3>2
    <3>4. QED BY <1>1, <1>2, <3>1, <3>3 DEF AuthorityIsEarned, CorpusInv
  <2>2. CASE ~PrecisionGate(cases, benchmarked)
    <3>1. verifier' = verifier
      BY <1>1, <2>2 DEF EndGate
    <3>2. QED BY <1>2, <3>1, AuthorityKept DEF CorpusInv
  <2>3. QED BY <2>1, <2>2
<1>5. QED BY <1>3, <1>4 DEF CorpusInv

LEMMA BenchmarkStep == CorpusInv /\ Benchmark => CorpusInv'
<1> SUFFICES ASSUME CorpusInv, Benchmark PROVE CorpusInv'
  OBVIOUS
<1>1. AuthorityIsEarned'
  BY AuthorityKept DEF Benchmark, CorpusInv
<1>2. QED BY <1>1 DEF Benchmark, CorpusInv, GoldenInv, JobsInv, LabelsInv, HasLabel, NoneOver

LEMMA CorpusInvInit == CorpusInit => CorpusInv
<1> SUFFICES ASSUME CorpusInit PROVE CorpusInv
  OBVIOUS
<1>1. DOMAIN golden = {} /\ DOMAIN operators = {}
  BY DEF CorpusInit
<1>2. GoldenInv
  BY <1>1, FS_EmptySet DEF CorpusInit, GoldenInv
<1>3. JobsInv
  <2>1. doing = [c \in Curators |-> doing[c]] /\ \A c \in Curators : doing[c] = AtRest
    BY DEF CorpusInit
  <2>2. QED BY <2>1, RestJob DEF JobsInv
<1>4. LabelsInv
  BY <1>1 DEF LabelsInv
<1>5. AuthorityIsEarned
  BY DEF CorpusInit, AuthorityIsEarned, NoGuard, NoVerifier
<1>6. QED BY <1>2, <1>3, <1>4, <1>5 DEF CorpusInv

LEMMA CorpusInvStep == CorpusInv /\ [CorpusNext]_corpusVars => CorpusInv'
<1> SUFFICES ASSUME CorpusInv, [CorpusNext]_corpusVars PROVE CorpusInv'
  OBVIOUS
<1>1. CASE Benchmark
  BY <1>1, BenchmarkStep
<1>2. ASSUME NEW c \in Curators, NEW id \in Corrections,
             EmitToLedger(c, id) \/ AddCase(c, id) \/ MigrateCase(c, id)
      PROVE  CorpusInv'
  BY <1>2, EmitStep, AddCaseStep, MigrateStep
<1>3. ASSUME NEW c \in Curators, NEW id \in Corrections, NEW label \in CaseLabels, BeginLabel(c, id, label)
      PROVE  CorpusInv'
  BY <1>3, BeginLabelStep
<1>4. ASSUME NEW c \in Curators, NEW kinds \in KindSets, BeginMining(c, kinds)
      PROVE  CorpusInv'
  BY <1>4, BeginMiningStep
<1>5. ASSUME NEW c \in Curators, NEW proposal \in GuardProposals, NEW bar \in Bars,
             Synthesize(c, proposal, bar)
      PROVE  CorpusInv'
  BY <1>5, SynthesizeStep
<1>6. ASSUME NEW c \in Curators, EmitToCorpus(c)
      PROVE  CorpusInv'
  <2>1. doing[c].id \in Corrections
    BY <1>6 DEF EmitToCorpus, CorpusInv, JobsInv, JobInv
  <2>2. QED BY <1>6, <2>1, EmitStep
<1>7. ASSUME NEW c \in Curators,
             EndMining(c) \/ EndLabel(c) \/ BeginMigration(c) \/ BeginGate(c) \/ EndGate(c) \/ CuratorDies(c)
      PROVE  CorpusInv'
  BY <1>7, RestStep, EndLabelStep, BeginMigrationStep, BeginGateStep, EndGateStep
<1>8. CASE UNCHANGED corpusVars
  <2>1. UNCHANGED <<corpus, golden, benchmarked, doing, guard, verifier, operators, disturbed>>
    BY <1>8 DEF corpusVars
  <2>2. AuthorityIsEarned'
    BY <2>1, AuthorityKept DEF CorpusInv
  <2>3. QED BY <2>1, <2>2 DEF CorpusInv, GoldenInv, JobsInv, LabelsInv, HasLabel, NoneOver
<1>9. QED BY <1>1, <1>2, <1>3, <1>4, <1>5, <1>6, <1>7, <1>8 DEF CorpusNext

LEMMA CorpusInvSuffices == CorpusInv => CorpusIsSound
<1> SUFFICES ASSUME CorpusInv PROVE LabelsHeld
  BY DEF CorpusInv, CorpusIsSound
<1>1. ASSUME NEW id \in DOMAIN operators \ disturbed PROVE Cases[id].label = Lift(operators[id])
  <2>1. id \in DOMAIN golden /\ HasLabel(id, golden[id])
    BY <1>1 DEF CorpusInv, LabelsInv
  <2>2. Cases[id] = Upconverted(golden[id])
    BY <2>1 DEF Cases
  <2>3. QED BY <2>1, <2>2 DEF HasLabel, Upconverted
<1>2. QED BY <1>1 DEF LabelsHeld

\* Whatever is corrected, mined, labelled and migrated, by any processes that may die
\* between two accesses: only what people said earns authority, as much of it as the bar
\* asks for, and a label that is set stays (eval.py GoldenSet, guard.py synthesize_guard,
\* verifier.py Verifier.gated).
THEOREM CorpusStaysSound == CorpusSpec => []CorpusIsSound
<1>1. QED BY CorpusInvInit, CorpusInvStep, CorpusInvSuffices, PTL DEF CorpusSpec

----------------------------------------------------------------------------
(* MCImprovement                                                            *)

GainsInv == ImprovementInv /\ PassedInv /\ WatchInv

LEMMA EachSteps == [MCNext]_<<focus, improvementVars, watchVars, corpusVars>>
                      => [ImprovementNext]_improvementVars /\ [WatchNext]_watchVars
BY DEF MCNext

LEMMA GainsStep == GainsInv /\ [ImprovementNext]_improvementVars /\ [WatchNext]_watchVars
                      => GainsInv' /\ BaselineStands /\ HaltStands
BY ImprovementInvStep, PassedInvStep, BaselineStandsInStep, WatchStep DEF GainsInv, Final

\* What a call of improve or the guard of a run has gained is not taken back by any step of
\* the other either, whatever is measured, promoted, rolled back, called and halted
\* (tuner.promote_gated, anomaly.AnomalyGuard).
THEOREM GainsStand == MCSpec => NothingIsTakenBack
<1>1. MCInit => GainsInv
  BY ImprovementInvInit, PassedInvInit, WatchInvInit DEF MCInit, GainsInv
<1>2. GainsInv /\ [MCNext]_<<focus, improvementVars, watchVars, corpusVars>>
         => GainsInv' /\ [BaselineStands /\ HaltStands]_<<improvementVars, watchVars>>
  BY EachSteps, GainsStep
<1>3. QED BY <1>1, <1>2, PTL DEF MCSpec, NothingIsTakenBack
===============================================================================
