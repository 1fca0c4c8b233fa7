---------------------------- MODULE SingleFlight ----------------------------
(***************************************************************************)
(* crawfish.cache.CachingRuntime over crawfish.runtime.replay               *)
(* RecordReplayRuntime (record on): a call whose cassette exists is         *)
(* replayed; otherwise the first of several identical concurrent calls asks *)
(* the model and the others await its asyncio.Future.                       *)
(*                                                                          *)
(* Coroutines of one event loop: a call runs without interruption up to the *)
(* await of the model or of the Future.  A replayed call never suspends.    *)
(***************************************************************************)
EXTENDS Integers, FiniteSets

CONSTANTS Calls,       \* calls of CachingRuntime.run, each made once
          Requests,    \* the (definition, inputs) of a request
          Orgs,        \* tenants
          LocalOrg,    \* the default org_id, which the cassette key omits
          RequestOf,   \* the request of each call
          OrgOf,       \* the tenant of each call
          NoCall

ASSUME SingleFlightAssumption ==
    /\ IsFiniteSet(Calls) /\ NoCall \notin Calls
    /\ LocalOrg \in Orgs
    /\ RequestOf \in [Calls -> Requests]
    /\ OrgOf \in [Calls -> Orgs]

VARIABLES pc,        \* where each call is
          inflight,  \* key -> the call that leads, whose Future is awaited
          future,    \* state of the Future a leader made
          awaits,    \* the leader whose Future a call awaits or awaited
          author,    \* the call that asked the model for the answer returned
          cassette,  \* key -> the call that recorded it
          charged,   \* calls the budget was charged for
          sawHit,    \* leading calls whose _is_hit was true
          hits, misses, coalesced   \* CacheStats, by call instead of by number

stats == <<hits, misses, coalesced>>
vars == <<pc, inflight, future, awaits, author, cassette, charged, sawHit, stats>>

Keys == Requests \X Orgs
Key(c) == <<RequestOf[c], OrgOf[c]>>
Ended == {"returned", "raised", "cancelled"}
----------------------------------------------------------------------------
TypeOK ==
    /\ pc \in [Calls -> {"new", "leading", "waiting"} \cup Ended]
    /\ inflight \in [Keys -> Calls \cup {NoCall}]
    /\ future \in [Calls -> {"none", "pending", "result", "error", "cancelled"}]
    /\ awaits \in [Calls -> Calls \cup {NoCall}]
    /\ \A c \in Calls : pc[c] = "waiting" => future[awaits[c]] # "none"
    /\ author \in [Calls -> Calls \cup {NoCall}]
    /\ cassette \in [Keys -> Calls \cup {NoCall}]
    /\ charged \subseteq Calls
    /\ sawHit \cup hits \cup misses \cup coalesced \subseteq Calls

Init ==
    /\ pc = [c \in Calls |-> "new"]
    /\ inflight = [k \in Keys |-> NoCall]
    /\ future = [c \in Calls |-> "none"]
    /\ awaits = [c \in Calls |-> NoCall]
    /\ author = [c \in Calls |-> NoCall]
    /\ cassette = [k \in Keys |-> NoCall]
    /\ charged = {} /\ sawHit = {} /\ hits = {} /\ misses = {} /\ coalesced = {}
----------------------------------------------------------------------------
\* raise_if_cancelled, before the call joins or starts anything
EnterCancelled(c) ==
    /\ pc[c] = "new"
    /\ pc' = [pc EXCEPT ![c] = "cancelled"]
    /\ UNCHANGED <<inflight, future, awaits, author, cassette, charged, sawHit, stats>>

\* a peer is computing
Join(c) ==
    /\ pc[c] = "new" /\ inflight[Key(c)] # NoCall
    /\ awaits' = [awaits EXCEPT ![c] = inflight[Key(c)]]
    /\ pc' = [pc EXCEPT ![c] = "waiting"]
    /\ UNCHANGED <<inflight, future, author, cassette, charged, sawHit, stats>>

\* _is_hit leaves the tenant out of the key
CountedAsHit(c) == cassette[<<RequestOf[c], LocalOrg>>] # NoCall

\* the cassette exists: leader and done within one step, nothing is charged
Replay(c) ==
    /\ pc[c] = "new" /\ inflight[Key(c)] = NoCall
    /\ cassette[Key(c)] # NoCall
    /\ author' = [author EXCEPT ![c] = cassette[Key(c)]]
    /\ future' = [future EXCEPT ![c] = "result"]
    /\ pc' = [pc EXCEPT ![c] = "returned"]
    /\ IF CountedAsHit(c) THEN hits' = hits \cup {c} /\ UNCHANGED misses
                          ELSE misses' = misses \cup {c} /\ UNCHANGED hits
    /\ UNCHANGED <<inflight, awaits, cassette, charged, sawHit, coalesced>>

NotRegistered(c) == UNCHANGED inflight   \* mutated: the slot is taken too late

Register(c) == inflight' = [inflight EXCEPT ![Key(c)] = c]

NewFuture(c) == future' = [future EXCEPT ![c] = "pending"]

\* no cassette: register the Future and await the model; _is_hit is read before
Lead(c) ==
    /\ pc[c] = "new" /\ inflight[Key(c)] = NoCall
    /\ cassette[Key(c)] = NoCall
    /\ Register(c)
    /\ NewFuture(c)
    /\ sawHit' = IF CountedAsHit(c) THEN sawHit \cup {c} ELSE sawHit
    /\ pc' = [pc EXCEPT ![c] = "leading"]
    /\ UNCHANGED <<awaits, author, cassette, charged, stats>>

\* set_result or set_exception, unless the Future is done already
Settle(c, state) ==
    future' = [future EXCEPT ![c] = IF future[c] = "pending" THEN state ELSE future[c]]

NothingOnError(c) == UNCHANGED future   \* mutated: only success settles the Future

Fail(c) == Settle(c, "error")

\* finally
ReleaseSlot(c) == inflight' = [inflight EXCEPT ![Key(c)] = NoCall]

Answered(c) ==
    /\ pc[c] = "leading"
    /\ charged' = charged \cup {c}
    /\ cassette' = [cassette EXCEPT ![Key(c)] = c]
    /\ author' = [author EXCEPT ![c] = c]
    /\ Settle(c, "result") /\ ReleaseSlot(c)
    /\ pc' = [pc EXCEPT ![c] = "returned"]
    /\ IF c \in sawHit THEN hits' = hits \cup {c} /\ UNCHANGED misses
                        ELSE misses' = misses \cup {c} /\ UNCHANGED hits
    /\ UNCHANGED <<awaits, sawHit, coalesced>>

\* the model call raised (charged if it was BudgetExceeded), or was cancelled
LeaderFails(c) ==
    /\ pc[c] = "leading"
    /\ \E paid \in BOOLEAN : charged' = IF paid THEN charged \cup {c} ELSE charged
    /\ Fail(c) /\ ReleaseSlot(c)
    /\ pc' = [pc EXCEPT ![c] = "raised"]
    /\ UNCHANGED <<awaits, author, cassette, sawHit, stats>>

\* the awaited Future is done
Wake(c) ==
    /\ pc[c] = "waiting"
    /\ \/ /\ future[awaits[c]] = "result"
          /\ author' = [author EXCEPT ![c] = author[awaits[c]]]
          /\ coalesced' = coalesced \cup {c}
          /\ pc' = [pc EXCEPT ![c] = "returned"]
       \/ /\ future[awaits[c]] \in {"error", "cancelled"}
          /\ pc' = [pc EXCEPT ![c] = "raised"]
          /\ UNCHANGED <<author, coalesced>>
    /\ UNCHANGED <<inflight, future, awaits, cassette, charged, sawHit, hits, misses>>

\* the task of a waiting call is cancelled: asyncio cancels what it awaits,
\* which is the Future it shares with the others
WaiterCancelled(c) ==
    /\ pc[c] = "waiting"
    /\ future' = [future EXCEPT ![awaits[c]] = IF @ = "pending" THEN "cancelled" ELSE @]
    /\ pc' = [pc EXCEPT ![c] = "cancelled"]
    /\ UNCHANGED <<inflight, awaits, author, cassette, charged, sawHit, stats>>

Enter(c) == Join(c) \/ Replay(c) \/ Lead(c)
Return(c) == Answered(c) \/ LeaderFails(c)

Next == \E c \in Calls :
    EnterCancelled(c) \/ Enter(c) \/ Return(c) \/ Wake(c) \/ WaiterCancelled(c)

Spec == Init /\ [][Next]_vars

\* A model call ends, and the loop resumes a task whose Future is done.
FairSpec == Spec /\ \A c \in Calls : WF_vars(Return(c)) /\ WF_vars(Wake(c))
----------------------------------------------------------------------------
(* Properties                                                               *)

\* However many calls ask for one thing, the model answers it once.
OneAnswerPerKey ==
    \A c, d \in Calls : author[c] = c /\ author[d] = d /\ Key(c) = Key(d) => c = d

\* What a tenant is served was computed for that tenant and that request.
NoCrossTenant ==
    \A c \in Calls : author[c] # NoCall => /\ OrgOf[author[c]] = OrgOf[c]
                                           /\ RequestOf[author[c]] = RequestOf[c]

\* The map holds exactly the calls at the model: no second one starts for a key,
\* and a retry after a failure is not stopped by what is left of it.
SlotIsLive ==
    /\ \A c \in Calls : pc[c] = "leading" => inflight[Key(c)] = c
    /\ \A k \in Keys : inflight[k] # NoCall => pc[inflight[k]] = "leading"

\* Nobody waits for ever.
EveryCallEnds == \A c \in Calls : pc[c] # "new" ~> pc[c] \in Ended

\* The statistics of the default tenant are right: misses are the paid calls.
LocalMissesPaid ==
    \A c \in Calls : OrgOf[c] = LocalOrg =>
        (c \in misses => c \in charged) /\ (c \in hits => c \notin charged)

\* A waiter goes without an answer its leader returned only if a call that waited
\* with it was cancelled.
ServesAllUnlessCancelled ==
    \A c \in Calls :
        pc[c] = "raised" /\ awaits[c] # NoCall /\ pc[awaits[c]] = "returned"
            => \E d \in Calls : pc[d] = "cancelled" /\ awaits[d] = awaits[c]

\* One answer per key, for one tenant, shared by all who ask meanwhile, and counted as what
\* it was.
FlightIsShared ==
    NoCrossTenant /\ OneAnswerPerKey /\ SlotIsLive /\ LocalMissesPaid /\ ServesAllUnlessCancelled

(* Claims of the docstrings that do not hold (README, 5).                   *)

\* The statistics are right for every tenant.
MissesPaid == \A c \in Calls : (c \in misses => c \in charged) /\ (c \in hits => c \notin charged)

\* A leader that has its answer hands it to everyone who waits for it.
LeaderServesAll ==
    \A c \in Calls :
        pc[c] = "raised" /\ awaits[c] # NoCall => pc[awaits[c]] # "returned"
=============================================================================
