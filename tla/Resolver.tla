------------------------------ MODULE Resolver ------------------------------
(***************************************************************************)
(* crawfish.resolve: resolve walks the dependencies of a root unit depth    *)
(* first, picks the highest version each constraint allows, and returns a   *)
(* lock file or raises.  What a unit offers and what a candidate depends on *)
(* is chosen when the walk first asks for it, so every universe over the    *)
(* constants is explored.                                                   *)
(***************************************************************************)
EXTENDS Integers, Sequences, FiniteSets

CONSTANTS Units,    \* unit ids
          Root,     \* the root unit
          Offers,   \* the sets of versions <<major, minor, patch>> a source may list
          RefLists  \* the dependency lists of a candidate, sorted by (id, version)

Version == Nat \X Nat \X Nat
Ref == [unit : Units, op : {"", "~", "^"}, base : Version]

ASSUME ResolverAssumption ==
    /\ Root \in Units /\ RefLists \subseteq Seq(Ref)
    /\ \A offered \in Offers : offered \subseteq Version /\ IsFiniteSet(offered)

VARIABLES listed,   \* source.candidates: versions by unit, as far as asked
          depends,  \* dependency list by candidate <<unit, version>>, as far as visited
          resolved, \* version by unit
          frames,   \* the calls of visit under way: unit, dependencies still to do
          verdict   \* "running", "locked", or why ResolutionError was raised

resolverVars == <<listed, depends, resolved, frames, verdict>>

RootVersion == <<1, 0, 0>>
Extend(f, x, y) == [z \in DOMAIN f \cup {x} |-> IF z = x THEN y ELSE f[z]]
----------------------------------------------------------------------------
(* Versions and constraints                                                 *)

\* SemVer orders by its fields
Below(v, w) == \E k \in 1..3 : v[k] < w[k] /\ \A j \in 1..(k - 1) : v[j] = w[j]

SameUpTo(v, base, k) == \A j \in 1..k : v[j] = base[j]

CaretMajor(base) == 1   \* mutated: 0.x versions are as compatible as 1.x ones

\* how many components a caret fixes
CaretDepth(base) == IF base[1] > 0 THEN 1 ELSE 2

Satisfies(v, op, base) ==
    CASE op = ""  -> v = base
      [] op = "~" -> ~Below(v, base) /\ SameUpTo(v, base, 2)
      [] op = "^" -> ~Below(v, base) /\ SameUpTo(v, base, CaretDepth(base))

Matching(ref, offered) == {v \in offered : Satisfies(v, ref.op, ref.base)}

\* _select: the highest version that matches
Select(ref, offered) ==
    CHOOSE v \in Matching(ref, offered) : \A w \in Matching(ref, offered) : ~Below(v, w)
----------------------------------------------------------------------------
ResolverInit ==
    /\ listed = <<>> /\ verdict = "running"
    /\ resolved = Extend(<<>>, Root, RootVersion)
    /\ \E deps \in RefLists :
          /\ depends = Extend(<<>>, <<Root, RootVersion>>, deps)
          /\ frames = <<[unit |-> Root, todo |-> deps]>>

Top == frames[Len(frames)]
Below1(fs) == SubSeq(fs, 1, Len(fs) - 1)
Advanced == [frames EXCEPT ![Len(frames)].todo = Tail(@)]
Working == verdict = "running" /\ Top.todo # <<>>

OnPath(unit) == \E k \in 1..Len(frames) : frames[k].unit = unit

\* source.candidates(ref.id) of the next dependency
Ask ==
    /\ Working /\ Head(Top.todo).unit \notin DOMAIN listed
    /\ \E offered \in Offers : listed' = Extend(listed, Head(Top.todo).unit, offered)
    /\ UNCHANGED <<depends, resolved, frames, verdict>>

Raise(why) == verdict' = why /\ UNCHANGED <<listed, depends, resolved, frames>>

NoMatch(ref) ==
    /\ Matching(ref, listed[ref.unit]) = {}
    /\ Raise(IF listed[ref.unit] = {} THEN "unknown" ELSE "unsatisfied")

Cycle(ref) ==
    /\ Matching(ref, listed[ref.unit]) # {}
    /\ OnPath(ref.unit) /\ Raise("cycle")

SameVersion(v, w) == v = w

Known(ref, chosen) ==
    /\ ref.unit \in DOMAIN resolved
    /\ IF SameVersion(resolved[ref.unit], chosen)
         THEN frames' = Advanced /\ UNCHANGED <<listed, depends, resolved, verdict>>
         ELSE Raise("conflict")

\* visit(chosen)
Visit(ref, chosen) ==
    /\ ref.unit \notin DOMAIN resolved
    /\ resolved' = Extend(resolved, ref.unit, chosen)
    /\ \E deps \in RefLists :
          /\ depends' = Extend(depends, <<ref.unit, chosen>>, deps)
          /\ frames' = Append(Advanced, [unit |-> ref.unit, todo |-> deps])
    /\ UNCHANGED <<listed, verdict>>

Settle(ref) ==
    /\ Matching(ref, listed[ref.unit]) # {} /\ ~OnPath(ref.unit)
    /\ LET chosen == Select(ref, listed[ref.unit])
       IN  Known(ref, chosen) \/ Visit(ref, chosen)

Dependency ==
    /\ Working /\ Head(Top.todo).unit \in DOMAIN listed
    /\ LET ref == Head(Top.todo) IN NoMatch(ref) \/ Cycle(ref) \/ Settle(ref)

Leave ==
    /\ verdict = "running" /\ Top.todo = <<>>
    /\ frames' = Below1(frames)
    /\ verdict' = IF Len(frames) = 1 THEN "locked" ELSE verdict
    /\ UNCHANGED <<listed, depends, resolved>>

ResolverNext == Ask \/ Dependency \/ Leave

ResolverSpec == ResolverInit /\ [][ResolverNext]_resolverVars
----------------------------------------------------------------------------
(* Properties                                                               *)

RefsOf(c) == {depends[c][i] : i \in DOMAIN depends[c]}
Pinned == {<<u, resolved[u]>> : u \in DOMAIN resolved}

\* No breaking change: a 1.x unit breaks with its major, a 0.x unit with its minor.
Compatible(ref, v) ==
    IF ref.op = "" THEN v = ref.base
    ELSE /\ v = ref.base \/ Below(ref.base, v)
         /\ v[1] = ref.base[1]
         /\ ref.op = "~" \/ ref.base[1] = 0 => v[2] = ref.base[2]

\* what a pinned unit asks for is pinned, at the highest compatible version offered
Honoured(ref) ==
    /\ ref.unit \in DOMAIN resolved
    /\ Compatible(ref, resolved[ref.unit])
    /\ \A w \in listed[ref.unit] : Compatible(ref, w) => ~Below(resolved[ref.unit], w)

Requires(u, w) == \E ref \in RefsOf(<<u, resolved[u]>>) : ref.unit = w

\* A lock file is a closed, acyclic set of pins that satisfies every constraint of
\* every pinned unit, and holds nothing the root does not need.
LockIsClosure ==
    verdict = "locked" =>
        /\ \A c \in Pinned : \A ref \in RefsOf(c) : Honoured(ref)
        /\ \A S \in SUBSET DOMAIN resolved :
              S # {} => \E u \in S : \A w \in S : ~Requires(u, w)
        /\ \A S \in SUBSET DOMAIN resolved :
              Root \in S /\ (\A u \in S : \A w \in DOMAIN resolved : Requires(u, w) => w \in S)
                  => S = DOMAIN resolved

\* It refuses only a universe with a flaw in the part it saw: a constraint nothing
\* meets, two versions asked of one unit, or units that need each other.
RefusedForAFlaw ==
    verdict \notin {"running", "locked"} =>
        \/ \E c \in DOMAIN depends : \E ref \in RefsOf(c) :
              /\ ref.unit \in DOMAIN listed
              /\ \A v \in listed[ref.unit] : ~Compatible(ref, v)
        \/ \E c, d \in DOMAIN depends : \E ref \in RefsOf(c), oth \in RefsOf(d) :
              /\ ref.unit = oth.unit /\ ref.unit \in DOMAIN listed
              /\ Select(ref, listed[ref.unit]) # Select(oth, listed[ref.unit])
        \/ \E S \in SUBSET DOMAIN resolved :
              S # {} /\ \A u \in S : \E w \in S : Requires(w, u)

\* resolve() either pins the closure of what the root asks for, or has a reason not to.
ResolutionIsRight == LockIsClosure /\ RefusedForAFlaw
----------------------------------------------------------------------------
(* Claims of the documentation that do not hold                             *)

\* "caret: same leading non-zero" (resolve.py:101): ^0.0.2 also takes 0.0.3.
CaretKeepsLeading ==
    verdict = "locked" => \A c \in Pinned : \A ref \in RefsOf(c) :
        ref.op = "^" /\ ref.base[1] = 0 /\ ref.base[2] = 0
            => resolved[ref.unit][3] = ref.base[3]
=============================================================================
