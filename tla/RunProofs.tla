------------------------------ MODULE RunProofs ------------------------------
(***************************************************************************)
(* Proofs about what happens around and inside a run: which minutes begin    *)
(* one (CronLoop), what an observer of the runs finds (Observer), how a run  *)
(* repeats its body (Loops), how its calls share an answer (SingleFlight),   *)
(* what they spend and decide together (RuntimeStack), and how a value comes *)
(* along a wire (Wiring) and out of an answer (Answers), for any schedule    *)
(* and length of the minute, any thresholds and windows, any items, bound,   *)
(* patience and budget, any calls, requests and tenants, any team,           *)
(* providers, prices and ceiling, and any types, values, answers and jobs.   *)
(* Each part has its inductive invariant, a lemma for each action, and the   *)
(* theorem last.                                                             *)
(***************************************************************************)
EXTENDS SingleFlight, Loops, Observer, RuntimeStack, Answers, FiniteSetTheorems,
        NaturalsInduction, SequenceTheorems, WellFoundedInduction, TLAPS

(* SingleFlight                                                             *)

\* What is known of a call by where it is.
CallState ==
    \A c \in Calls :
        /\ pc[c] = "new" => future[c] = "none" /\ c \notin charged
        /\ pc[c] \in {"new", "leading"} => awaits[c] = NoCall
        /\ pc[c] \in {"new", "leading", "waiting"} =>
               author[c] = NoCall /\ c \notin hits /\ c \notin misses
        /\ OrgOf[c] = LocalOrg => c \notin sawHit

\* The map of flights and the calls at the model are the same thing, and what is in
\* flight is not on record yet.
Flights ==
    /\ \A c \in Calls : pc[c] = "leading" => /\ inflight[Key(c)] = c
                                            /\ cassette[Key(c)] = NoCall
                                            /\ future[c] \in {"pending", "cancelled"}
    /\ \A k \in Keys : inflight[k] # NoCall =>
           pc[inflight[k]] = "leading" /\ Key(inflight[k]) = k

\* An answer is the cassette's, whoever was handed it.
Authorship ==
    /\ \A c \in Calls : author[c] # NoCall =>
           author[author[c]] = author[c] /\ Key(author[c]) = Key(c)
    /\ \A c \in Calls : author[c] = c => cassette[Key(c)] = c
    /\ \A k \in Keys : cassette[k] # NoCall =>
           author[cassette[k]] = cassette[k] /\ Key(cassette[k]) = k

\* What a call awaits is the flight of its own key, and how it failed says why.
Awaiting ==
    /\ \A c \in Calls : pc[c] = "waiting" => awaits[c] # NoCall
    /\ \A c \in Calls : awaits[c] # NoCall =>
           /\ Key(awaits[c]) = Key(c) /\ future[awaits[c]] # "none"
           /\ pc[c] = "raised" => future[awaits[c]] \in {"error", "cancelled"}
    /\ \A c \in Calls : future[c] = "error" => pc[c] = "raised"
    /\ \A c \in Calls : future[c] = "cancelled" =>
           \E d \in Calls : pc[d] = "cancelled" /\ awaits[d] = c

FlightInv == TypeOK /\ CallState /\ Flights /\ Authorship /\ Awaiting /\ LocalMissesPaid

\* A key names one request of one tenant.
LEMMA KeyIsExact ==
  /\ \A c \in Calls : Key(c) \in Keys
  /\ \A c, d \in Calls : Key(c) = Key(d) => RequestOf[c] = RequestOf[d] /\ OrgOf[c] = OrgOf[d]
  /\ \A c \in Calls : OrgOf[c] = LocalOrg => (CountedAsHit(c) <=> cassette[Key(c)] # NoCall)
BY SingleFlightAssumption DEF Key, Keys, CountedAsHit

LEMMA FlightInvInit == Init => FlightInv
<1> SUFFICES ASSUME Init PROVE FlightInv
  OBVIOUS
<1> USE SingleFlightAssumption, KeyIsExact DEF Init
<1>1. TypeOK
  BY DEF TypeOK, Ended
<1>2. CallState /\ Flights /\ Authorship /\ Awaiting /\ LocalMissesPaid
  BY DEF CallState, Flights, Authorship, Awaiting, LocalMissesPaid
<1>3. QED BY <1>1, <1>2 DEF FlightInv

LEMMA EnterCancelledStep ==
  ASSUME FlightInv, NEW c \in Calls, EnterCancelled(c)
  PROVE  FlightInv'
<1> USE SingleFlightAssumption, KeyIsExact DEF FlightInv, TypeOK, Ended
<1>1. TypeOK'
  BY DEF EnterCancelled, CallState, Flights, Awaiting, stats
<1>2. CallState'
  BY DEF EnterCancelled, CallState, Flights, stats
<1>3. Flights'
  BY DEF EnterCancelled, CallState, Flights, stats
<1>4. Authorship'
  BY DEF EnterCancelled, CallState, Flights, Authorship, Awaiting, stats
<1>5. Awaiting'
  BY DEF EnterCancelled, CallState, Flights, Awaiting, stats
<1>6. LocalMissesPaid'
  BY DEF EnterCancelled, CallState, Flights, LocalMissesPaid, stats
<1>7. QED BY <1>1, <1>2, <1>3, <1>4, <1>5, <1>6

LEMMA JoinStep ==
  ASSUME FlightInv, NEW c \in Calls, Join(c)
  PROVE  FlightInv'
<1> USE SingleFlightAssumption, KeyIsExact DEF FlightInv, TypeOK, Ended
<1>1. TypeOK'
  BY DEF Join, CallState, Flights, Awaiting, stats
<1>2. CallState'
  BY DEF Join, CallState, Flights, stats
<1>3. Flights'
  BY DEF Join, CallState, Flights, stats
<1>4. Authorship'
  BY DEF Join, CallState, Flights, Authorship, Awaiting, stats
<1>5. Awaiting'
  BY DEF Join, CallState, Flights, Awaiting, stats
<1>6. LocalMissesPaid'
  BY DEF Join, CallState, Flights, LocalMissesPaid, stats
<1>7. QED BY <1>1, <1>2, <1>3, <1>4, <1>5, <1>6

LEMMA ReplayStep ==
  ASSUME FlightInv, NEW c \in Calls, Replay(c)
  PROVE  FlightInv'
<1> USE SingleFlightAssumption, KeyIsExact DEF FlightInv, TypeOK, Ended
<1>1. TypeOK'
  BY DEF Replay, CallState, Flights, Awaiting, stats
<1>2. CallState'
  BY DEF Replay, CallState, Flights, stats
<1>3. Flights'
  BY DEF Replay, CallState, Flights, stats
<1>4. Authorship'
  BY DEF Replay, CallState, Flights, Authorship, Awaiting, stats
<1>5. Awaiting'
  BY DEF Replay, CallState, Flights, Awaiting, stats
<1>6. LocalMissesPaid'
  BY DEF Replay, CallState, Flights, LocalMissesPaid, stats
<1>7. QED BY <1>1, <1>2, <1>3, <1>4, <1>5, <1>6

LEMMA LeadStep ==
  ASSUME FlightInv, NEW c \in Calls, Lead(c)
  PROVE  FlightInv'
<1> USE SingleFlightAssumption, KeyIsExact DEF FlightInv, TypeOK, Ended
<1>1. TypeOK'
  BY DEF Lead, Register, NewFuture, CallState, Flights, Awaiting, stats
<1>2. CallState'
  BY DEF Lead, Register, NewFuture, CallState, Flights, stats
<1>3. Flights'
  BY DEF Lead, Register, NewFuture, CallState, Flights, stats
<1>4. Authorship'
  BY DEF Lead, Register, NewFuture, CallState, Flights, Authorship, Awaiting, stats
<1>5. Awaiting'
  BY DEF Lead, Register, NewFuture, CallState, Flights, Awaiting, stats
<1>6. LocalMissesPaid'
  BY DEF Lead, Register, NewFuture, CallState, Flights, LocalMissesPaid, stats
<1>7. QED BY <1>1, <1>2, <1>3, <1>4, <1>5, <1>6

LEMMA AnsweredStep ==
  ASSUME FlightInv, NEW c \in Calls, Answered(c)
  PROVE  FlightInv'
<1> USE SingleFlightAssumption, KeyIsExact DEF FlightInv, TypeOK, Ended
<1>1. TypeOK'
  BY DEF Answered, Settle, ReleaseSlot, CallState, Flights, Awaiting, stats
<1>2. CallState'
  BY DEF Answered, Settle, ReleaseSlot, CallState, Flights, stats
<1>3. Flights'
  BY DEF Answered, Settle, ReleaseSlot, CallState, Flights, stats
<1>4. Authorship'
  BY DEF Answered, Settle, ReleaseSlot, CallState, Flights, Authorship, Awaiting, stats
<1>5. Awaiting'
  BY DEF Answered, Settle, ReleaseSlot, CallState, Flights, Awaiting, stats
<1>6. LocalMissesPaid'
  BY DEF Answered, Settle, ReleaseSlot, CallState, Flights, LocalMissesPaid, stats
<1>7. QED BY <1>1, <1>2, <1>3, <1>4, <1>5, <1>6

LEMMA LeaderFailsStep ==
  ASSUME FlightInv, NEW c \in Calls, LeaderFails(c)
  PROVE  FlightInv'
<1> USE SingleFlightAssumption, KeyIsExact DEF FlightInv, TypeOK, Ended
<1>1. TypeOK'
  BY DEF LeaderFails, Fail, Settle, ReleaseSlot, CallState, Flights, Awaiting, stats
<1>2. CallState'
  BY DEF LeaderFails, Fail, Settle, ReleaseSlot, CallState, Flights, stats
<1>3. Flights'
  BY DEF LeaderFails, Fail, Settle, ReleaseSlot, CallState, Flights, stats
<1>4. Authorship'
  BY DEF LeaderFails, Fail, Settle, ReleaseSlot, CallState, Flights, Authorship, Awaiting, stats
<1>5. Awaiting'
  BY DEF LeaderFails, Fail, Settle, ReleaseSlot, CallState, Flights, Awaiting, stats
<1>6. LocalMissesPaid'
  BY DEF LeaderFails, Fail, Settle, ReleaseSlot, CallState, Flights, LocalMissesPaid, stats
<1>7. QED BY <1>1, <1>2, <1>3, <1>4, <1>5, <1>6

LEMMA WakeStep ==
  ASSUME FlightInv, NEW c \in Calls, Wake(c)
  PROVE  FlightInv'
<1> USE SingleFlightAssumption, KeyIsExact DEF FlightInv, TypeOK, Ended
<1>1. TypeOK'
  BY DEF Wake, CallState, Flights, Awaiting, stats
<1>2. CallState'
  BY DEF Wake, CallState, Flights, stats
<1>3. Flights'
  BY DEF Wake, CallState, Flights, stats
<1>4. Authorship'
  BY DEF Wake, CallState, Flights, Authorship, Awaiting, stats
<1>5. Awaiting'
  BY DEF Wake, CallState, Flights, Awaiting, stats
<1>6. LocalMissesPaid'
  BY DEF Wake, CallState, Flights, LocalMissesPaid, stats
<1>7. QED BY <1>1, <1>2, <1>3, <1>4, <1>5, <1>6

LEMMA WaiterCancelledStep ==
  ASSUME FlightInv, NEW c \in Calls, WaiterCancelled(c)
  PROVE  FlightInv'
<1> USE SingleFlightAssumption, KeyIsExact DEF FlightInv, TypeOK, Ended
<1>1. TypeOK'
  BY DEF WaiterCancelled, CallState, Flights, Awaiting, stats
<1>2. CallState'
  BY DEF WaiterCancelled, CallState, Flights, stats
<1>3. Flights'
  BY DEF WaiterCancelled, CallState, Flights, stats
<1>4. Authorship'
  BY DEF WaiterCancelled, CallState, Flights, Authorship, Awaiting, stats
<1>5. Awaiting'
  BY DEF WaiterCancelled, CallState, Flights, Awaiting, stats
<1>6. LocalMissesPaid'
  BY DEF WaiterCancelled, CallState, Flights, LocalMissesPaid, stats
<1>7. QED BY <1>1, <1>2, <1>3, <1>4, <1>5, <1>6

LEMMA FlightInvStep == FlightInv /\ [Next]_vars => FlightInv'
<1> SUFFICES ASSUME FlightInv, [Next]_vars PROVE FlightInv'
  OBVIOUS
<1>1. CASE Next
  BY <1>1, EnterCancelledStep, JoinStep, ReplayStep, LeadStep, AnsweredStep, LeaderFailsStep,
     WakeStep, WaiterCancelledStep DEF Next, Enter, Return
<1>2. CASE UNCHANGED vars
  <2> USE <1>2 DEF vars, stats
  <2>1. TypeOK' /\ CallState' /\ Flights'
    BY DEF FlightInv, TypeOK, CallState, Flights
  <2>2. Authorship' /\ Awaiting' /\ LocalMissesPaid'
    BY DEF FlightInv, Authorship, Awaiting, LocalMissesPaid
  <2>3. QED BY <2>1, <2>2 DEF FlightInv
<1>3. QED BY <1>1, <1>2

LEMMA FlightInvShared == FlightInv => FlightIsShared
<1> SUFFICES ASSUME FlightInv PROVE FlightIsShared
  OBVIOUS
<1> USE SingleFlightAssumption, KeyIsExact DEF FlightInv, TypeOK
<1>1. NoCrossTenant
  BY DEF NoCrossTenant, Authorship
<1>2. OneAnswerPerKey
  BY DEF OneAnswerPerKey, Authorship
<1>3. SlotIsLive
  BY DEF SlotIsLive, Flights
<1>4. ServesAllUnlessCancelled
  BY DEF ServesAllUnlessCancelled, Awaiting
<1>5. QED BY <1>1, <1>2, <1>3, <1>4 DEF FlightIsShared

(* However many calls of however many tenants ask at once, are cancelled, fail  *)
(* or are answered, in any order: a request of a tenant is computed once, its   *)
(* answer reaches that tenant only, the statistics of the default tenant are    *)
(* right, and a waiter goes without the answer only beside a cancelled one.     *)
THEOREM FlightStaysShared == Spec => []FlightIsShared
BY FlightInvInit, FlightInvStep, FlightInvShared, PTL DEF Spec
----------------------------------------------------------------------------
(* Loops                                                                    *)

\* The loop's variables are a record, and a value is one with these fields.
LoopFields == {"kind", "judged", "letters", "item", "visit", "done", "cur", "prev", "streak",
               "best", "bestScore", "stop", "stale"}
ValueFields == {"score", "fluid", "ok", "at"}
IsValue(val) == val = [f \in ValueFields |-> val[f]] /\ val.score \in 0 .. 1 /\ val.at \in Int
Working == {"visit", "body", "judge", "mark", "stop"}
Asked == {"body", "judge"}

\* What is on the tape is an answer or a verdict, and no visit is marked before the ones
\* that come first.
TapeInv ==
    \A k \in DOMAIN loopTape : /\ k[3] = "body" => loopTape[k] \in LoopAnswer
                               /\ k[3] = "judge" => loopTape[k] \in BOOLEAN
InOrderIn(rows) == \A i, v \in Nat : <<i, v + 1>> \in rows => <<i, v>> \in rows

\* The first n visits of item i are on the tape; val is what visit n made of it.
Heard(i, n) ==
    \A v \in 0 .. n - 1 : /\ <<i, v, "body">> \in DOMAIN loopTape
                          /\ loop.judged => <<i, v, "judge">> \in DOMAIN loopTape
Holds(val, i, n) ==
    /\ IsValue(val) /\ val.at = n
    /\ val.score = IF n < 0 THEN 0 ELSE Said(i, n).score
    /\ val.fluid <=> i \in FluidSeeds \/ \E v \in 0 .. n : Said(i, v).fluid

\* How n visits of item i end, and which of them is the best.
EndsAs(i, n, stop) ==
    /\ stop # "budget" => \E v \in 0 .. n - 1 : StopsAt(i, v)
    /\ \A v \in 0 .. n - 1 : SaysOk(i, v) <=> stop = "satisfied" /\ v = n - 1
BestOf(i, n, at) ==
    \A v \in 0 .. n - 1 : /\ ScoreAt(i, v) <= ScoreAt(i, at)
                          /\ v > at => ScoreAt(i, v) < ScoreAt(i, at)

\* While item i goes on after n visits: none was satisfied, the streak is one of an
\* uninterrupted run that began no sooner, and the best attempt is the best so far.
Fair == loop.kind = "refine" /\ ~loop.stale
GoesOn(i, n) ==
    /\ \A v \in 0 .. n - 1 : ~SaysOk(i, v)
    /\ loop.streak \in 0 .. n
    /\ \A v \in n - loop.streak .. n - 1 : ScoreAt(i, v) <= ScoreAt(i, v - 1)
    /\ loop.streak > 0 => <<i, n>> \notin loop.done
    /\ Fair => /\ BestOf(i, n, loop.best.at) /\ loop.bestScore = ScoreAt(i, loop.best.at)
               /\ loop.judged => IF loopPc = "mark" THEN accepted <=> loop.cur.ok ELSE ~accepted

ItemInv(i, n) ==
    /\ Heard(i, n) /\ \A v \in 0 .. n - 1 : <<i, v>> \in loopRows
    /\ Holds(loop.best, i, loop.best.at) /\ loop.best.at \in -1 .. n - 1
    /\ loopPc \in {"visit", "body", "stop"} => Holds(loop.cur, i, n - 1)
    /\ loopPc \in {"judge", "mark"} => /\ <<i, n, "body">> \in DOMAIN loopTape
                                       /\ Holds(loop.cur, i, n) /\ Holds(loop.prev, i, n - 1)
    /\ loopPc \in {"body", "judge", "mark"} => n < MaxVisits
    /\ loopPc = "judge" => loop.judged
    /\ loopPc = "mark" => /\ loop.judged => <<i, n, "judge">> \in DOMAIN loopTape
                          /\ loop.cur.ok <=> SaysOk(i, n)
    /\ loopPc # "stop" => GoesOn(i, n)
    /\ loopPc = "stop" => /\ EndsAs(i, n, loop.stop)
                          /\ Fair => IF loop.stop = "satisfied" THEN loop.best.at = n - 1
                                     ELSE BestOf(i, n, loop.best.at)

\* What is said of a result
ResultInv(i, r) ==
    /\ r.visits \in 0 .. MaxVisits /\ Heard(i, r.visits)
    /\ Holds(r.out, i, r.out.at) /\ r.out.at \in -1 .. r.visits - 1
    /\ EndsAs(i, r.visits, r.stop)
    /\ loop.kind = "refine" /\ ~r.stale =>
          IF r.stop = "satisfied" THEN r.out.at = r.visits - 1 ELSE BestOf(i, r.visits, r.out.at)

\* What the call has returned so far
ResultsInv ==
    /\ results = [i \in 1 .. Len(results) |-> results[i]] /\ Len(results) \in Nat
    /\ \A i \in 1 .. Len(results) : ResultInv(i, results[i])

LoopInv ==
    /\ loop = [f \in LoopFields |-> loop[f]] /\ loop.item \in Nat
    /\ TapeInv /\ InOrderIn(loopRows) /\ InOrderIn(loop.done)
    /\ loopPc \in LoopResting \cup {"item"} \cup Working
    /\ ResultsInv
    /\ loopPc \notin LoopResting => loop.item = Len(results) + 1
    /\ loopPc \in Working => \E i \in Nat, n \in 0 .. MaxVisits :
                                i = loop.item /\ n = loop.visit /\ ItemInv(i, n)
----------------------------------------------------------------------------
\* A step that goes on with the same loop only adds to the tape.
TapeGrows ==
    /\ DOMAIN loopTape \subseteq DOMAIN loopTape'
    /\ \A k \in DOMAIN loopTape : loopTape'[k] = loopTape[k]
    /\ loop'.judged = loop.judged /\ loop'.kind = loop.kind

\* What is on the tape stays there, so what was said of it stays true.
LEMMA TapeStays ==
  ASSUME TapeInv, NEW i, NEW n \in Nat, Heard(i, n),
         TapeGrows
  PROVE  /\ Heard(i, n)'
         /\ \A v \in 0 .. n - 1 : Said(i, v)' = Said(i, v) /\ (SaysOk(i, v)' <=> SaysOk(i, v))
         /\ \A v \in -1 .. n - 1 : ScoreAt(i, v)' = ScoreAt(i, v)
<1>1. \A v \in 0 .. n - 1 : Said(i, v)' = Said(i, v)
  BY DEF Said, Heard, TapeGrows
<1>2. \A v \in 0 .. n - 1 : SaysOk(i, v)' <=> SaysOk(i, v)
  BY <1>1 DEF SaysOk, Heard, TapeGrows
<1>3. \A v \in -1 .. n - 1 : ScoreAt(i, v)' = ScoreAt(i, v)
  BY <1>1 DEF ScoreAt, TapeGrows
<1>4. QED BY <1>1, <1>2, <1>3 DEF Heard, TapeGrows

LEMMA ClaimsStay ==
  ASSUME NEW i, NEW n \in Nat, NEW m \in -1 .. n - 1,
         \A v \in 0 .. n - 1 : Said(i, v)' = Said(i, v) /\ (SaysOk(i, v)' <=> SaysOk(i, v)),
         \A v \in -1 .. n - 1 : ScoreAt(i, v)' = ScoreAt(i, v)
  PROVE  /\ \A val : Holds(val, i, m)' <=> Holds(val, i, m)
         /\ \A stop : EndsAs(i, n, stop)' <=> EndsAs(i, n, stop)
         /\ BestOf(i, n, m)' <=> BestOf(i, n, m)
<1>1. \A v \in 0 .. m : v \in 0 .. n - 1
  OBVIOUS
<1>2. ASSUME NEW val PROVE Holds(val, i, m)' <=> Holds(val, i, m)
  <2>1. m >= 0 => m \in 0 .. n - 1
    OBVIOUS
  <2>2. (IF m < 0 THEN 0 ELSE Said(i, m).score)' = IF m < 0 THEN 0 ELSE Said(i, m).score
    BY <2>1
  <2>3. (\E v \in 0 .. m : Said(i, v).fluid)' <=> \E v \in 0 .. m : Said(i, v).fluid
    BY <1>1
  <2>4. QED BY <2>2, <2>3 DEF Holds, IsValue
<1>3. \A v \in 0 .. n - 1 : StopsAt(i, v)' <=> StopsAt(i, v)
  <2>1. Patience \in Nat \ {0}
    BY LoopsAssumption
  <2>2. ASSUME NEW v \in 0 .. n - 1 PROVE Stuck(i, v)' <=> Stuck(i, v)
    <3>1. \A w \in v - Patience + 1 .. v :
             v - Patience >= -1 => w \in -1 .. n - 1 /\ w - 1 \in -1 .. n - 1
      BY <2>1
    <3>2. QED BY <3>1 DEF Stuck
  <2>3. QED BY <2>2 DEF StopsAt
<1>4. ASSUME NEW stop PROVE EndsAs(i, n, stop)' <=> EndsAs(i, n, stop)
  BY <1>3 DEF EndsAs
<1>5. BestOf(i, n, m)' <=> BestOf(i, n, m)
  <2>1. \A v \in 0 .. n - 1 : v \in -1 .. n - 1
    OBVIOUS
  <2>2. QED BY <2>1 DEF BestOf
<1>6. QED BY <1>2, <1>4, <1>5

LEMMA ResultStays ==
  ASSUME NEW i, NEW r, ResultInv(i, r), TapeInv, TapeGrows
  PROVE  ResultInv(i, r)'
<1>1. r.visits \in Nat /\ Heard(i, r.visits) /\ r.out.at \in -1 .. r.visits - 1
  BY LoopsAssumption DEF ResultInv
<1>2. PICK n \in Nat : n = r.visits
  BY <1>1
<1>20. PICK m \in -1 .. n - 1 : m = r.out.at
  BY <1>1, <1>2
<1>3. /\ Heard(i, n)'
      /\ \A v \in 0 .. n - 1 : Said(i, v)' = Said(i, v) /\ (SaysOk(i, v)' <=> SaysOk(i, v))
      /\ \A v \in -1 .. n - 1 : ScoreAt(i, v)' = ScoreAt(i, v)
  BY <1>1, <1>2, TapeStays
<1>4. /\ \A val : Holds(val, i, m)' <=> Holds(val, i, m)
      /\ \A stop : EndsAs(i, n, stop)' <=> EndsAs(i, n, stop)
      /\ BestOf(i, n, m)' <=> BestOf(i, n, m)
  BY <1>3, ClaimsStay
<1>5. loop'.kind = loop.kind
  BY DEF TapeGrows
<1>6. QED BY <1>2, <1>20, <1>3, <1>4, <1>5 DEF ResultInv

LEMMA ResultsStay ==
  ASSUME ResultsInv, TapeInv, TapeGrows, results' = results
  PROVE  ResultsInv'
<1>1. ASSUME NEW i \in 1 .. Len(results) PROVE ResultInv(i, results[i])'
  <2>1. PICK r : r = results[i]
    OBVIOUS
  <2>2. ResultInv(i, r)'
    BY <2>1, ResultStays DEF ResultsInv
  <2>3. results'[i] = r
    BY <2>1
  <2>4. QED BY <2>2, <2>3
<1>2. QED BY <1>1 DEF ResultsInv

\* An answer is on the tape once it is given, and nothing else on it changes.
LEMMA LeafStep ==
  ASSUME TapeInv, NEW leaf \in {"body", "judge"}, NEW a, Leaf(leaf, a),
         leaf = "body" => a \in LoopAnswer, leaf = "judge" => a \in BOOLEAN,
         loop'.judged = loop.judged, loop'.kind = loop.kind
  PROVE  /\ TapeInv' /\ TapeGrows
         /\ <<loop.item, loop.visit, leaf>> \in DOMAIN loopTape'
         /\ loopTape'[<<loop.item, loop.visit, leaf>>] = a
<1>1. PICK k : k = <<loop.item, loop.visit, leaf>>
  OBVIOUS
<1>2. k[3] = leaf
  BY <1>1
<1>3. \/ k \in DOMAIN loopTape /\ a = loopTape[k] /\ loopTape' = loopTape
      \/ /\ k \notin DOMAIN loopTape
         /\ loopTape' = [x \in DOMAIN loopTape \cup {k} |->
                            IF x = k THEN a ELSE loopTape[x]]
  BY <1>1 DEF Leaf, Record, Recorded, LeafKey
<1>4. /\ DOMAIN loopTape' = DOMAIN loopTape \cup {k} /\ loopTape'[k] = a
      /\ \A x \in DOMAIN loopTape : loopTape'[x] = loopTape[x]
  BY <1>3
<1>5. TapeInv'
  BY <1>2, <1>4 DEF TapeInv
<1>6. QED BY <1>1, <1>4, <1>5 DEF TapeGrows

\* So does all that was said of the visits of an item that have been made.
LEMMA VisitsStay ==
  ASSUME NEW i, NEW n \in Nat, Heard(i, n), TapeInv, TapeGrows
  PROVE  /\ Heard(i, n)'
         /\ \A v \in 0 .. n - 1 : SaysOk(i, v)' <=> SaysOk(i, v)
         /\ \A v \in -1 .. n - 1 : ScoreAt(i, v)' = ScoreAt(i, v)
         /\ \A m \in -1 .. n - 1 : /\ \A val : Holds(val, i, m)' <=> Holds(val, i, m)
                                   /\ BestOf(i, n, m)' <=> BestOf(i, n, m)
         /\ \A stop : EndsAs(i, n, stop)' <=> EndsAs(i, n, stop)
<1>1. /\ Heard(i, n)'
      /\ \A v \in 0 .. n - 1 : Said(i, v)' = Said(i, v) /\ (SaysOk(i, v)' <=> SaysOk(i, v))
      /\ \A v \in -1 .. n - 1 : ScoreAt(i, v)' = ScoreAt(i, v)
  BY TapeStays
<1>2. ASSUME NEW m \in -1 .. n - 1
      PROVE  /\ \A val : Holds(val, i, m)' <=> Holds(val, i, m)
             /\ BestOf(i, n, m)' <=> BestOf(i, n, m)
             /\ \A stop : EndsAs(i, n, stop)' <=> EndsAs(i, n, stop)
  BY <1>1, ClaimsStay
<1>3. -1 \in -1 .. n - 1
  OBVIOUS
<1>4. QED BY <1>1, <1>2, <1>3

\* The same for the item under way, as far as the loop has come with it.
LEMMA WorkStays ==
  ASSUME LoopInv, TapeGrows, loopPc \in Working,
         NEW i \in Nat, NEW n \in 0 .. MaxVisits, ItemInv(i, n), NEW b, b = loop.best
  PROVE  /\ n \in Nat /\ b.at \in -1 .. n - 1 /\ Heard(i, n) /\ Heard(i, n)'
         /\ \A v \in 0 .. n - 1 : SaysOk(i, v)' <=> SaysOk(i, v)
         /\ \A v \in -1 .. n - 1 : ScoreAt(i, v)' = ScoreAt(i, v)
         /\ Holds(b, i, b.at) /\ Holds(b, i, b.at)'
         /\ BestOf(i, n, b.at)' <=> BestOf(i, n, b.at)
         /\ \A val : Holds(val, i, n - 1)' <=> Holds(val, i, n - 1)
         /\ \A stop : EndsAs(i, n, stop)' <=> EndsAs(i, n, stop)
<1>1. PICK m : m = b.at
  OBVIOUS
<1>2. n \in Nat /\ Heard(i, n) /\ m \in -1 .. n - 1
  BY <1>1, LoopsAssumption DEF ItemInv
<1>3. Holds(b, i, m)
  BY <1>1 DEF ItemInv
<1>4. n - 1 \in -1 .. n - 1 /\ TapeInv
  BY <1>2 DEF LoopInv
<1>5. /\ Heard(i, n)'
      /\ \A v \in 0 .. n - 1 : SaysOk(i, v)' <=> SaysOk(i, v)
      /\ \A v \in -1 .. n - 1 : ScoreAt(i, v)' = ScoreAt(i, v)
      /\ \A w \in -1 .. n - 1 : /\ \A val : Holds(val, i, w)' <=> Holds(val, i, w)
                                /\ BestOf(i, n, w)' <=> BestOf(i, n, w)
      /\ \A stop : EndsAs(i, n, stop)' <=> EndsAs(i, n, stop)
  BY <1>2, <1>4, VisitsStay
<1>6. Holds(b, i, m)' /\ (BestOf(i, n, m)' <=> BestOf(i, n, m))
  BY <1>2, <1>3, <1>5
<1>7. \A val : Holds(val, i, n - 1)' <=> Holds(val, i, n - 1)
  BY <1>4, <1>5
<1>8. QED BY <1>1, <1>2, <1>3, <1>5, <1>6, <1>7

\* Going on is a matter of the visits, and of a few of the loop's variables.
LEMMA GoingOnStays ==
  ASSUME NEW i, NEW n \in Nat, NEW b, b = loop.best, b = loop'.best, b.at \in -1 .. n - 1,
         \A v \in 0 .. n - 1 : SaysOk(i, v)' <=> SaysOk(i, v),
         \A v \in -1 .. n - 1 : ScoreAt(i, v)' = ScoreAt(i, v),
         BestOf(i, n, b.at)' <=> BestOf(i, n, b.at),
         loop'.kind = loop.kind, loop'.judged = loop.judged, loop'.stale = loop.stale,
         loop'.streak = loop.streak, loop'.bestScore = loop.bestScore, loop'.done = loop.done,
         loopPc # "mark", GoesOn(i, n),
         (Fair /\ loop.judged => IF loopPc = "mark" THEN accepted <=> loop.cur.ok ELSE ~accepted)'
             \/ (UNCHANGED accepted /\ loopPc' # "mark")
  PROVE  GoesOn(i, n)'
<1>1. (\A v \in 0 .. n - 1 : ~SaysOk(i, v))'
  BY DEF GoesOn
<1>2. (\A v \in n - loop.streak .. n - 1 : ScoreAt(i, v) <= ScoreAt(i, v - 1))'
  <2>1. PICK s : s = loop.streak
    OBVIOUS
  <2>2. \A v \in n - s .. n - 1 : v \in -1 .. n - 1 /\ v - 1 \in -1 .. n - 1
    BY <2>1 DEF GoesOn
  <2>3. QED BY <2>1, <2>2 DEF GoesOn
<1>3. (Fair => BestOf(i, n, loop.best.at) /\ loop.bestScore = ScoreAt(i, loop.best.at))'
  <2>1. PICK m : m = b.at
    OBVIOUS
  <2>2. ScoreAt(i, m)' = ScoreAt(i, m) /\ (BestOf(i, n, m)' <=> BestOf(i, n, m))
    BY <2>1
  <2>3. Fair' => BestOf(i, n, m)' /\ loop'.bestScore = ScoreAt(i, m)'
    BY <2>1, <2>2 DEF Fair, GoesOn
  <2>4. QED BY <2>1, <2>3 DEF BestOf, ScoreAt, Said
<1>4. (Fair => (loop.judged => IF loopPc = "mark" THEN accepted <=> loop.cur.ok
                               ELSE ~accepted))'
  BY DEF GoesOn, Fair
<1>5. (loop.streak \in 0 .. n /\ (loop.streak > 0 => <<i, n>> \notin loop.done))'
  BY DEF GoesOn
<1>6. QED BY <1>1, <1>2, <1>3, <1>4, <1>5 DEF GoesOn

LEMMA EnterVisitStep ==
  ASSUME LoopInv, EnterVisit PROVE LoopInv'
<1>1. PICK i \in Nat, n \in 0 .. MaxVisits : i = loop.item /\ n = loop.visit /\ ItemInv(i, n)
  BY DEF LoopInv, EnterVisit, Working
<1>2. PICK b, c : b = loop.best /\ c = loop.cur
  OBVIOUS
<1>3. /\ loop' = [f \in LoopFields |-> loop'[f]] /\ loop'.item = i /\ loop'.visit = n
      /\ loop'.kind = loop.kind /\ loop'.judged = loop.judged /\ loop'.done = loop.done
      /\ loop'.cur = c /\ loop'.best = b /\ loop'.stale = loop.stale
      /\ loop'.streak = loop.streak /\ loop'.bestScore = loop.bestScore
      /\ UNCHANGED <<loopRows, loopTape, accepted, results>>
  BY <1>1, <1>2 DEF EnterVisit, LoopRaise, LoopInv, LoopFields
<1>4. TapeGrows
  BY <1>3 DEF TapeGrows
<1>5. ResultsInv' /\ TapeInv'
  BY <1>3, <1>4, ResultsStay DEF LoopInv, TapeInv
<1>6. Holds(c, i, n - 1) /\ GoesOn(i, n)
  BY <1>1, <1>2 DEF ItemInv, EnterVisit
<1>7. /\ n \in Nat /\ b.at \in -1 .. n - 1 /\ Heard(i, n)'
      /\ \A v \in 0 .. n - 1 : SaysOk(i, v)' <=> SaysOk(i, v)
      /\ \A v \in -1 .. n - 1 : ScoreAt(i, v)' = ScoreAt(i, v)
      /\ Holds(b, i, b.at)' /\ Holds(c, i, n - 1)'
      /\ BestOf(i, n, b.at)' <=> BestOf(i, n, b.at)
      /\ EndsAs(i, n, "budget")' <=> EndsAs(i, n, "budget")
  <2>1. loopPc \in Working
    BY DEF EnterVisit, Working
  <2>2. QED BY <1>1, <1>2, <1>4, <1>6, <2>1, WorkStays
<1>8. loopPc' \in Working => ItemInv(i, n)'
  <2>1. CASE loopPc' = "raised"
    BY <2>1 DEF Working
  <2>2. CASE loopPc' = "stop" /\ loop'.stop = "budget"
    <3>1. EndsAs(i, n, "budget")
      BY <1>6 DEF GoesOn, EndsAs
    <3>2. (Fair => BestOf(i, n, loop.best.at))'
      BY <1>2, <1>3, <1>6, <1>7 DEF GoesOn, Fair, BestOf
    <3>3. QED BY <1>1, <1>2, <1>3, <1>6, <1>7, <2>2, <3>1, <3>2 DEF ItemInv, Holds
  <2>3. CASE loopPc' = "body" /\ n < MaxVisits
    <3>1. GoesOn(i, n)'
      BY <1>2, <1>3, <1>6, <1>7, <2>3, GoingOnStays DEF EnterVisit
    <3>2. QED BY <1>1, <1>2, <1>3, <1>6, <1>7, <2>3, <3>1 DEF ItemInv, Holds
  <2>4. QED BY <1>1, <2>1, <2>2, <2>3 DEF EnterVisit, LoopRaise, LoopInv, LoopFields
<1>9. QED BY <1>1, <1>3, <1>5, <1>8 DEF LoopInv, EnterVisit, LoopRaise, Working, LoopResting

\* Where no item is under way, what has been returned is all there is to say.
LEMMA RestStep ==
  ASSUME LoopInv, UNCHANGED <<loopRows, loopTape, results>>,
         loop' = [f \in LoopFields |-> loop'[f]], loop'.item \in Nat,
         loop'.kind = loop.kind, loop'.judged = loop.judged, loop'.done = loop.done,
         \/ loopPc' \in LoopResting
         \/ loopPc' = "item" /\ loop'.item = Len(results) + 1
  PROVE  LoopInv'
<1>1. TapeGrows
  BY DEF TapeGrows
<1>2. ResultsInv' /\ TapeInv'
  BY <1>1, ResultsStay DEF LoopInv, TapeInv
<1>3. loopPc' \notin Working
  BY DEF Working, LoopResting
<1>4. loopPc' \in LoopResting \cup {"item"} \cup Working
  OBVIOUS
<1>5. (loopPc \notin LoopResting => loop.item = Len(results) + 1)'
  OBVIOUS
<1>6. InOrderIn(loopRows)' /\ InOrderIn(loop.done)'
  BY DEF LoopInv, InOrderIn
<1>7. QED BY <1>2, <1>3, <1>4, <1>5, <1>6 DEF LoopInv

LEMMA RaiseStep == ASSUME LoopInv, LoopRaise PROVE LoopInv'
<1>1. loopPc' \in LoopResting
  BY DEF LoopRaise, LoopResting
<1>2. QED BY <1>1, RestStep DEF LoopRaise, LoopInv

LEMMA LoopsReturnStep == ASSUME LoopInv, LoopsReturn PROVE LoopInv'
<1>1. loopPc' \in LoopResting
  BY DEF LoopsReturn, LoopResting
<1>2. QED BY <1>1, RestStep DEF LoopsReturn, LoopInv

\* The token and the budget are no part of the invariant.
LEMMA SameLoopStep ==
  ASSUME LoopInv, UNCHANGED <<loopRows, loopTape, loopPc, loop, accepted, results>>
  PROVE  LoopInv'
<1>1. UNCHANGED <<TapeInv, ResultsInv>>
  BY DEF TapeInv, ResultsInv, ResultInv, Heard, Holds, Said, EndsAs, StopsAt, SaysOk, Stuck,
         ScoreAt, BestOf
<1>2. ASSUME NEW i, NEW n, ItemInv(i, n) PROVE ItemInv(i, n)'
  <2>1. UNCHANGED <<Heard(i, n), EndsAs(i, n, loop.stop), BestOf(i, n, loop.best.at),
                    Holds(loop.best, i, loop.best.at), Holds(loop.cur, i, n),
                    Holds(loop.cur, i, n - 1), Holds(loop.prev, i, n - 1), SaysOk(i, n)>>
    BY DEF Heard, Holds, Said, EndsAs, StopsAt, SaysOk, Stuck, ScoreAt, BestOf
  <2>2. UNCHANGED GoesOn(i, n)
    BY DEF GoesOn, Fair, Said, SaysOk, ScoreAt, BestOf
  <2>3. UNCHANGED Fair
    BY DEF Fair
  <2>4. QED BY <1>2, <2>1, <2>2, <2>3 DEF ItemInv
<1>3. QED BY <1>1, <1>2 DEF LoopInv, InOrderIn

\* What was returned is forgotten by a call that begins, and by a process that dies.
LEMMA NothingReturned ==
  ASSUME LoopInv, results' = <<>>, UNCHANGED <<loopRows, loopTape>>,
         loop' = [f \in LoopFields |-> loop'[f]], loop'.item \in Nat, InOrderIn(loop.done)',
         \/ loopPc' \in LoopResting
         \/ loopPc' = "item" /\ loop'.item = 1
  PROVE  LoopInv'
<1>1. ResultsInv'
  BY DEF ResultsInv
<1>2. TapeInv' /\ InOrderIn(loopRows)'
  BY DEF LoopInv, TapeInv, InOrderIn
<1>3. loopPc' \notin Working
  BY DEF Working, LoopResting
<1>4. loopPc' \in LoopResting \cup {"item"} \cup Working
  OBVIOUS
<1>5. (loopPc \notin LoopResting => loop.item = Len(results) + 1)'
  OBVIOUS
<1>6. QED BY <1>1, <1>2, <1>3, <1>4, <1>5 DEF LoopInv

LEMMA LoopDieStep == ASSUME LoopInv, LoopDie PROVE LoopInv'
<1>1. loopPc' \in LoopResting /\ loop' = loop
  BY DEF LoopDie, LoopResting
<1>2. InOrderIn(loop.done)'
  BY <1>1 DEF InOrderIn, LoopInv
<1>3. QED BY <1>1, <1>2, NothingReturned DEF LoopDie, LoopInv

LEMMA LoopRunStep == ASSUME LoopInv, LoopRun PROVE LoopInv'
<1>1. PICK k \in LoopKinds, j \in BOOLEAN, l \in BOOLEAN, resume \in BOOLEAN :
         loop' = [loop EXCEPT !.kind = k, !.judged = j, !.letters = l, !.item = 1,
                              !.done = IF resume THEN loopRows ELSE {}]
  BY Zenon DEF LoopRun
<1>2. /\ loop' = [f \in LoopFields |-> loop'[f]] /\ loop'.item = 1
      /\ loop'.done \in {loopRows, {}}
  BY <1>1 DEF LoopInv, LoopFields
<1>3. InOrderIn(loop.done)'
  BY <1>2 DEF InOrderIn, LoopInv
<1>4. QED BY <1>2, <1>3, NothingReturned DEF LoopRun

LEMMA AtBoundStep == ASSUME LoopInv, AtBound PROVE LoopInv'
<1>1. PICK i \in Nat, n \in 0 .. MaxVisits : i = loop.item /\ n = loop.visit /\ ItemInv(i, n)
  BY DEF LoopInv, AtBound, Working
<1>2. PICK b, c : b = loop.best /\ c = loop.cur
  OBVIOUS
<1>3. /\ loop' = [f \in LoopFields |-> loop'[f]] /\ loop'.item = i /\ loop'.visit = n
      /\ loop'.kind = loop.kind /\ loop'.judged = loop.judged /\ loop'.done = loop.done
      /\ loop'.cur = c /\ loop'.best = b /\ loop'.stale = loop.stale /\ loop'.stop = "bound"
      /\ UNCHANGED <<loopRows, loopTape, accepted, results>>
  BY <1>1, <1>2 DEF AtBound, LoopInv, LoopFields
<1>4. TapeGrows
  BY <1>3 DEF TapeGrows
<1>5. ResultsInv' /\ TapeInv'
  BY <1>3, <1>4, ResultsStay DEF LoopInv, TapeInv
<1>6. Holds(c, i, n - 1) /\ GoesOn(i, n)
  BY <1>1, <1>2 DEF ItemInv, AtBound
<1>7. /\ n \in Nat /\ b.at \in -1 .. n - 1 /\ Heard(i, n)'
      /\ Holds(b, i, b.at)' /\ Holds(c, i, n - 1)'
      /\ BestOf(i, n, b.at)' <=> BestOf(i, n, b.at)
      /\ EndsAs(i, n, "bound")' <=> EndsAs(i, n, "bound")
  <2>1. loopPc \in Working
    BY DEF AtBound, Working
  <2>2. QED BY <1>1, <1>2, <1>4, <1>6, <2>1, WorkStays
<1>8. EndsAs(i, n, "bound")
  <2>1. n = MaxVisits /\ n - 1 \in 0 .. n - 1
    BY <1>1, LoopsAssumption DEF AtBound
  <2>2. StopsAt(i, n - 1)
    BY <2>1 DEF StopsAt
  <2>3. QED BY <1>6, <2>1, <2>2 DEF GoesOn, EndsAs
<1>9. (Fair => BestOf(i, n, loop.best.at))'
  BY <1>2, <1>3, <1>6, <1>7 DEF GoesOn, Fair, BestOf
<1>10. ItemInv(i, n)'
  BY <1>1, <1>2, <1>3, <1>6, <1>7, <1>8, <1>9 DEF ItemInv, Holds, AtBound
<1>11. QED BY <1>1, <1>3, <1>5, <1>10 DEF LoopInv, AtBound, Working, LoopResting

LEMMA EnterLoopStep == ASSUME LoopInv, EnterLoop PROVE LoopInv'
<1>1. PICK i \in Nat : i = loop.item
  BY DEF LoopInv
<1>2. PICK s : s = Seed(i)
  OBVIOUS
<1>3. /\ loop' = [f \in LoopFields |-> loop'[f]] /\ loop'.item = i /\ loop'.visit = 0
      /\ loop'.kind = loop.kind /\ loop'.judged = loop.judged /\ loop'.done = loop.done
      /\ loop'.cur = s /\ loop'.best = s /\ loop'.stale = accepted /\ loop'.streak = 0
      /\ loop'.bestScore = Progress(s)
      /\ UNCHANGED <<loopRows, loopTape, accepted, results>>
  BY <1>1, <1>2 DEF EnterLoop, LoopInv, LoopFields, StreakAtEntry
<1>4. TapeGrows
  BY <1>3 DEF TapeGrows
<1>5. ResultsInv' /\ TapeInv'
  BY <1>3, <1>4, ResultsStay DEF LoopInv, TapeInv
<1>6. Holds(s, i, -1)' /\ s.at = -1 /\ s.score = 0
  <2>1. s = [f \in ValueFields |-> s[f]] /\ s.at = -1 /\ s.score = 0
        /\ s.fluid = (i \in FluidSeeds)
    BY <1>2 DEF Seed, ValueFields
  <2>2. IsValue(s)
    BY <2>1 DEF IsValue
  <2>3. (s.fluid <=> i \in FluidSeeds \/ \E v \in 0 .. -1 : Said(i, v).fluid)'
    <3>1. \A v \in 0 .. -1 : FALSE
      OBVIOUS
    <3>2. QED BY <2>1, <3>1
  <2>4. QED BY <2>1, <2>2, <2>3 DEF Holds, IsValue
<1>7. GoesOn(i, 0)'
  <2>1. (Fair => loop.bestScore = 0 /\ ~accepted)'
    BY <1>3, <1>6 DEF Fair, Progress
  <2>2. ScoreAt(i, -1)' = 0
    BY DEF ScoreAt
  <2>3. (Fair => BestOf(i, 0, loop.best.at) /\ loop.bestScore = ScoreAt(i, loop.best.at))'
    BY <1>3, <1>6, <2>1, <2>2 DEF BestOf, ScoreAt
  <2>4. loopPc' = "visit"
    BY DEF EnterLoop
  <2>5. QED BY <1>3, <2>1, <2>3, <2>4 DEF GoesOn
<1>8. ItemInv(i, 0)'
  BY <1>3, <1>6, <1>7 DEF ItemInv, Heard, Holds, EnterLoop
<1>9. 0 \in 0 .. MaxVisits
  BY LoopsAssumption
<1>10. QED BY <1>1, <1>3, <1>5, <1>8, <1>9 DEF LoopInv, EnterLoop, Working, LoopResting

LEMMA LeaveLoopStep == ASSUME LoopInv, LeaveLoop PROVE LoopInv'
<1>1. PICK i \in Nat, n \in 0 .. MaxVisits : i = loop.item /\ n = loop.visit /\ ItemInv(i, n)
  BY DEF LoopInv, LeaveLoop, Working
<1>2. PICK b, c : b = loop.best /\ c = loop.cur
  OBVIOUS
<1>3. /\ loop' = [f \in LoopFields |-> loop'[f]] /\ loop'.item = i + 1
      /\ loop'.kind = loop.kind /\ loop'.judged = loop.judged /\ loop'.done = loop.done
      /\ UNCHANGED <<loopRows, loopTape>>
  BY <1>1 DEF LeaveLoop, LoopInv, LoopFields
<1>4. PICK r : /\ r.stop = loop.stop /\ r.visits = n /\ r.stale = loop.stale /\ r.out = LoopOutput
               /\ results' = Append(results, r)
  BY <1>1 DEF LeaveLoop
<1>5. TapeGrows
  BY <1>3 DEF TapeGrows
<1>6. TapeInv /\ TapeInv'
  BY <1>3 DEF LoopInv, TapeInv
<1>7. ResultInv(i, r)
  <2>1. /\ Heard(i, n) /\ Holds(b, i, b.at) /\ b.at \in -1 .. n - 1 /\ Holds(c, i, n - 1)
        /\ EndsAs(i, n, loop.stop)
        /\ Fair => IF loop.stop = "satisfied" THEN b.at = n - 1 ELSE BestOf(i, n, b.at)
    BY <1>1, <1>2 DEF ItemInv, LeaveLoop
  <2>2. c.at = n - 1 /\ n - 1 \in -1 .. n - 1
    BY <2>1, LoopsAssumption DEF Holds
  <2>3. r.out = b \/ (r.out = c /\ loop.kind # "refine")
    BY <1>2, <1>4 DEF LoopOutput
  <2>4. CASE r.out = b
    BY <1>4, <2>1, <2>4 DEF ResultInv, Fair
  <2>5. CASE r.out = c /\ loop.kind # "refine"
    BY <1>4, <2>1, <2>2, <2>5 DEF ResultInv
  <2>6. QED BY <2>3, <2>4, <2>5
<1>8. ResultInv(i, r)'
  BY <1>5, <1>6, <1>7, ResultStays
<1>9. PICK k \in Nat : k = Len(results) /\ i = k + 1
  BY <1>1 DEF LoopInv, ResultsInv, LeaveLoop, LoopResting
<1>10. /\ Len(results') = k + 1 /\ results'[k + 1] = r
       /\ \A j \in 1 .. k : results'[j] = results[j]
       /\ results' = [j \in 1 .. k + 1 |-> results'[j]]
  <2>1. PICK S : S = {results[j] : j \in 1 .. k} \cup {r}
    OBVIOUS
  <2>2. results \in Seq(S) /\ r \in S
    BY <1>9, <2>1 DEF LoopInv, ResultsInv
  <2>3. /\ results' \in Seq(S) /\ Len(results') = k + 1 /\ results'[k + 1] = r
        /\ \A j \in 1 .. k : results'[j] = results[j]
    BY <1>4, <1>9, <2>2, AppendProperties
  <2>4. results' = [j \in 1 .. k + 1 |-> results'[j]]
    BY <2>3
  <2>5. QED BY <2>3, <2>4
<1>11. ASSUME NEW j \in 1 .. k + 1 PROVE ResultInv(j, results[j])'
  <2>1. CASE j = k + 1
    BY <1>8, <1>9, <1>10, <2>1
  <2>2. CASE j \in 1 .. k
    <3>1. PICK q : q = results[j]
      OBVIOUS
    <3>2. ResultInv(j, q)'
      BY <1>5, <1>6, <1>9, <2>2, <3>1, ResultStays DEF LoopInv, ResultsInv
    <3>3. results'[j] = q
      BY <1>10, <2>2, <3>1
    <3>4. QED BY <3>2, <3>3
  <2>3. QED BY <2>1, <2>2
<1>12. ResultsInv'
  BY <1>10, <1>11 DEF ResultsInv
<1>13. loopPc' = "item" /\ loop'.item = Len(results') + 1
  BY <1>3, <1>9, <1>10 DEF LeaveLoop
<1>14. InOrderIn(loopRows)' /\ InOrderIn(loop.done)'
  BY <1>3 DEF LoopInv, InOrderIn
<1>15. QED BY <1>3, <1>6, <1>12, <1>13, <1>14 DEF LoopInv, Working, LoopResting

LEMMA BodyStep == ASSUME LoopInv, Body PROVE LoopInv'
<1>1. CASE LeafRaises("body")
  BY <1>1, RaiseStep DEF LeafRaises
<1>2. ASSUME NEW a \in LoopAnswers, Leaf("body", a), TakeBody(a) PROVE LoopInv'
  <2>1. PICK i \in Nat, n \in 0 .. MaxVisits : i = loop.item /\ n = loop.visit /\ ItemInv(i, n)
    BY DEF LoopInv, Body, Working
  <2>2. PICK b, c, d : b = loop.best /\ c = loop.cur /\ d = Derive(a)
    OBVIOUS
  <2>3. /\ loop' = [f \in LoopFields |-> loop'[f]] /\ loop'.item = i /\ loop'.visit = n
        /\ loop'.kind = loop.kind /\ loop'.judged = loop.judged /\ loop'.done = loop.done
        /\ loop'.cur = d /\ loop'.prev = c /\ loop'.best = b /\ loop'.stale = loop.stale
        /\ loop'.streak = loop.streak /\ loop'.bestScore = loop.bestScore
        /\ UNCHANGED <<loopRows, accepted, results>>
        /\ loopPc' = IF loop.judged THEN "judge" ELSE "mark"
    BY <1>2, <2>1, <2>2 DEF TakeBody, LoopInv, LoopFields
  <2>4. a \in LoopAnswer
    BY <1>2, LoopsAssumption
  <2>5. /\ TapeInv' /\ TapeGrows
        /\ <<i, n, "body">> \in DOMAIN loopTape' /\ loopTape'[<<i, n, "body">>] = a
    <3>1. TapeInv
      BY DEF LoopInv
    <3>2. QED BY <1>2, <2>1, <2>3, <2>4, <3>1, LeafStep
  <2>6. ResultsInv'
    BY <2>3, <2>5, ResultsStay DEF LoopInv
  <2>7. Holds(c, i, n - 1) /\ GoesOn(i, n) /\ n < MaxVisits
    BY <2>1, <2>2 DEF ItemInv, Body
  <2>8. /\ n \in Nat /\ b.at \in -1 .. n - 1 /\ Heard(i, n)'
        /\ \A v \in 0 .. n - 1 : SaysOk(i, v)' <=> SaysOk(i, v)
        /\ \A v \in -1 .. n - 1 : ScoreAt(i, v)' = ScoreAt(i, v)
        /\ Holds(b, i, b.at)' /\ Holds(c, i, n - 1)'
        /\ BestOf(i, n, b.at)' <=> BestOf(i, n, b.at)
    <3>1. loopPc \in Working
      BY DEF Body, Working
    <3>2. QED BY <2>1, <2>2, <2>5, <2>7, <3>1, WorkStays
  <2>9. Holds(d, i, n)'
    <3>1. /\ d = [f \in ValueFields |-> d[f]] /\ d.score = a.score /\ d.at = n /\ d.ok = a.ok
          /\ d.fluid = (a.fluid \/ c.fluid)
      BY <2>1, <2>2 DEF Derive, ValueFields
    <3>2. d.score \in 0 .. 1
      BY <2>4, <3>1 DEF LoopAnswer
    <3>3. Said(i, n)' = a
      BY <2>5 DEF Said
    <3>4. c.fluid <=> i \in FluidSeeds \/ \E v \in 0 .. n - 1 : Said(i, v)'.fluid
      BY <2>8 DEF Holds
    <3>5. \A v : v \in 0 .. n <=> v = n \/ v \in 0 .. n - 1
      BY <2>8
    <3>6. d.fluid <=> i \in FluidSeeds \/ \E v \in 0 .. n : Said(i, v)'.fluid
      BY <3>1, <3>3, <3>4, <3>5
    <3>7. QED BY <2>8, <3>1, <3>2, <3>3, <3>6 DEF Holds, IsValue
  <2>10. GoesOn(i, n)'
    <3>1. (Fair /\ loop.judged => IF loopPc = "mark" THEN accepted <=> loop.cur.ok ELSE ~accepted)'
             \/ (UNCHANGED accepted /\ loopPc' # "mark")
      BY <2>3
    <3>2. loopPc # "mark"
      BY DEF Body
    <3>3. QED BY <2>2, <2>3, <2>7, <2>8, <3>1, <3>2, GoingOnStays
  <2>11. ~loop.judged => (SaysOk(i, n)' <=> d.ok)
    BY <2>2, <2>3, <2>5 DEF SaysOk, Said, Derive
  <2>12. loopPc' = "mark" => ~loop.judged
    BY <2>3
  <2>13. loopPc' = "judge" => loop.judged
    BY <2>3
  <2>14. ItemInv(i, n)'
    BY <2>1, <2>2, <2>3, <2>5, <2>7, <2>8, <2>9, <2>10, <2>11, <2>12, <2>13
       DEF ItemInv, Holds
  <2>15. loopPc' \in Working
    BY <2>3 DEF Working
  <2>16. QED BY <2>1, <2>3, <2>5, <2>6, <2>14, <2>15
           DEF LoopInv, Body, Working, LoopResting, InOrderIn
<1>3. QED BY <1>1, <1>2 DEF Body

LEMMA JudgeStep == ASSUME LoopInv, Judge PROVE LoopInv'
<1>1. CASE LeafRaises("judge")
  BY <1>1, RaiseStep DEF LeafRaises
<1>2. ASSUME NEW a \in BOOLEAN, Leaf("judge", a), TakeVerdict(a) PROVE LoopInv'
  <2>1. PICK i \in Nat, n \in 0 .. MaxVisits : i = loop.item /\ n = loop.visit /\ ItemInv(i, n)
    BY DEF LoopInv, Judge, Working
  <2>2. PICK b, c, p : b = loop.best /\ c = loop.cur /\ p = loop.prev
    OBVIOUS
  <2>3. Holds(c, i, n) /\ Holds(p, i, n - 1) /\ GoesOn(i, n) /\ n < MaxVisits /\ loop.judged
        /\ <<i, n, "body">> \in DOMAIN loopTape
    BY <2>1, <2>2 DEF ItemInv, Judge
  <2>4. PICK d : d = [c EXCEPT !.ok = a]
    OBVIOUS
  <2>5. /\ loop' = [f \in LoopFields |-> loop'[f]] /\ loop'.item = i /\ loop'.visit = n
        /\ loop'.kind = loop.kind /\ loop'.judged = loop.judged /\ loop'.done = loop.done
        /\ loop'.cur = d /\ loop'.prev = p /\ loop'.best = b /\ loop'.stale = loop.stale
        /\ loop'.streak = loop.streak /\ loop'.bestScore = loop.bestScore
        /\ UNCHANGED <<loopRows, results>>
        /\ loopPc' = "mark" /\ accepted' = IF loop.kind = "refine" THEN a ELSE accepted
    BY <1>2, <2>1, <2>2, <2>4 DEF TakeVerdict, LoopInv, LoopFields
  <2>6. /\ TapeInv' /\ TapeGrows
        /\ <<i, n, "judge">> \in DOMAIN loopTape' /\ loopTape'[<<i, n, "judge">>] = a
    <3>1. TapeInv
      BY DEF LoopInv
    <3>2. QED BY <1>2, <2>1, <2>5, <3>1, LeafStep
  <2>7. ResultsInv'
    BY <2>5, <2>6, ResultsStay DEF LoopInv
  <2>8. /\ n \in Nat /\ b.at \in -1 .. n - 1 /\ Heard(i, n)'
        /\ \A v \in 0 .. n - 1 : SaysOk(i, v)' <=> SaysOk(i, v)
        /\ \A v \in -1 .. n - 1 : ScoreAt(i, v)' = ScoreAt(i, v)
        /\ Holds(b, i, b.at)' /\ Holds(p, i, n - 1)'
        /\ BestOf(i, n, b.at)' <=> BestOf(i, n, b.at)
    <3>1. loopPc \in Working
      BY DEF Judge, Working
    <3>2. QED BY <2>1, <2>2, <2>3, <2>6, <3>1, WorkStays
  <2>9. Holds(d, i, n)'
    <3>1. /\ d = [f \in ValueFields |-> d[f]] /\ d.score = c.score /\ d.at = c.at
          /\ d.fluid = c.fluid
      BY <2>3, <2>4 DEF Holds, IsValue, ValueFields
    <3>2. \A v \in 0 .. n : Said(i, v)' = Said(i, v)
      <4>1. \A v \in 0 .. n : v = n \/ v \in 0 .. n - 1
        BY <2>8
      <4>2. \A v \in 0 .. n : <<i, v, "body">> \in DOMAIN loopTape
        BY <2>1, <2>3, <4>1 DEF ItemInv, Heard
      <4>3. QED BY <2>6, <4>2 DEF TapeGrows, Said
    <3>3. n \in 0 .. n
      BY <2>8
    <3>4. Said(i, n)' = Said(i, n)
      BY <3>2, <3>3
    <3>5. (\E v \in 0 .. n : Said(i, v)'.fluid) <=> \E v \in 0 .. n : Said(i, v).fluid
      BY <3>2
    <3>6. c.score = Said(i, n).score /\ c.at = n /\ c.score \in 0 .. 1
          /\ (c.fluid <=> i \in FluidSeeds \/ \E v \in 0 .. n : Said(i, v).fluid)
      BY <2>3, <2>8 DEF Holds, IsValue
    <3>7. QED BY <2>8, <3>1, <3>4, <3>5, <3>6 DEF Holds, IsValue
  <2>10. d.ok = a
    BY <2>3, <2>4 DEF Holds, IsValue, ValueFields
  <2>11. GoesOn(i, n)'
    <3>1. (Fair /\ loop.judged => IF loopPc = "mark" THEN accepted <=> loop.cur.ok ELSE ~accepted)'
      BY <2>5, <2>10 DEF Fair
    <3>2. loopPc # "mark"
      BY DEF Judge
    <3>3. QED BY <2>2, <2>3, <2>5, <2>8, <3>1, <3>2, GoingOnStays
  <2>12. SaysOk(i, n)' <=> d.ok
    BY <2>3, <2>5, <2>6, <2>10 DEF SaysOk
  <2>13. <<i, n, "body">> \in DOMAIN loopTape'
    BY <2>3, <2>6 DEF TapeGrows
  <2>14. ItemInv(i, n)'
    BY <2>1, <2>2, <2>3, <2>5, <2>6, <2>8, <2>9, <2>11, <2>12, <2>13 DEF ItemInv, Holds
  <2>15. loopPc' \in Working
    BY <2>5 DEF Working
  <2>16. QED BY <2>1, <2>5, <2>6, <2>7, <2>14, <2>15
           DEF LoopInv, Judge, Working, LoopResting, InOrderIn
<1>3. QED BY <1>1, <1>2 DEF Judge

\* The scores that are compared are those of answers.
LEMMA ScoresAre ==
  ASSUME NEW i, NEW n \in Nat, Heard(i, n), TapeInv
  PROVE  \A v \in -1 .. n - 1 : ScoreAt(i, v) \in 0 .. 1
<1>1. ASSUME NEW v \in 0 .. n - 1 PROVE Said(i, v).score \in 0 .. 1
  <2>1. PICK k : k = <<i, v, "body">>
    OBVIOUS
  <2>2. k[3] = "body" /\ k \in DOMAIN loopTape
    BY <2>1 DEF Heard
  <2>3. loopTape[k] \in LoopAnswer
    BY <2>2 DEF TapeInv
  <2>4. QED BY <2>1, <2>3 DEF Said, LoopAnswer
<1>2. QED BY <1>1 DEF ScoreAt

\* What a visit makes of the streak, of the best attempt, and of the end of the loop.
LEMMA VisitMade ==
  ASSUME LoopInv, loopPc = "mark", NEW i, NEW n \in Nat, i = loop.item, n = loop.visit,
         ItemInv(i, n)
  PROVE  /\ Heard(i, n + 1)
         /\ Streak \in 0 .. n + 1
         /\ \A v \in n + 1 - Streak .. n : ScoreAt(i, v) <= ScoreAt(i, v - 1)
         /\ Streak > 0 => <<i, n + 1>> \notin loop.done
         /\ ~loop.cur.ok => \A v \in 0 .. n : ~SaysOk(i, v)
         /\ loop.cur.ok => EndsAs(i, n + 1, "satisfied")
         /\ ~loop.cur.ok /\ Streak >= Patience => EndsAs(i, n + 1, "no_progress")
         /\ Fair /\ ~loop.cur.ok =>
                IF Better THEN BestOf(i, n + 1, n) /\ Progress(loop.cur) = ScoreAt(i, n)
                ELSE BestOf(i, n + 1, loop.best.at)
<1>1. PICK c, p, m : c = loop.cur /\ p = loop.prev /\ m = loop.best.at
  OBVIOUS
<1>2. /\ Heard(i, n) /\ Holds(c, i, n) /\ Holds(p, i, n - 1) /\ m \in -1 .. n - 1
      /\ <<i, n, "body">> \in DOMAIN loopTape /\ (c.ok <=> SaysOk(i, n)) /\ GoesOn(i, n)
      /\ loop.judged => <<i, n, "judge">> \in DOMAIN loopTape
  BY <1>1 DEF ItemInv
<1>3. Heard(i, n + 1)
  <2>1. \A v : v \in 0 .. n + 1 - 1 <=> v = n \/ v \in 0 .. n - 1
    OBVIOUS
  <2>2. QED BY <1>2, <2>1 DEF Heard
<1>4. \A v \in -1 .. n : ScoreAt(i, v) \in 0 .. 1
  BY <1>3, ScoresAre DEF LoopInv
<1>5. n \in -1 .. n /\ n - 1 \in -1 .. n
  OBVIOUS
<1>6. /\ ~(loop.kind = "refine" /\ loop.judged) =>
            Progress(c) = ScoreAt(i, n) /\ Progress(p) = ScoreAt(i, n - 1)
      /\ loop.kind = "refine" /\ loop.judged =>
            /\ Progress(c) = Progress(p) /\ Progress(c) \in 0 .. 1
            /\ \A v : ScoreAt(i, v) = 0
  BY <1>2 DEF Progress, ScoreAt, Holds
<1>7. Stale => ScoreAt(i, n) <= ScoreAt(i, n - 1)
  BY <1>1, <1>4, <1>5, <1>6 DEF Stale
<1>8. PICK s : s = Streak
  OBVIOUS
<1>9. /\ s \in 0 .. n + 1
      /\ \A v \in n + 1 - s .. n : ScoreAt(i, v) <= ScoreAt(i, v - 1)
      /\ s > 0 => <<i, n + 1>> \notin loop.done
  <2>1. PICK old \in 0 .. n : /\ old = loop.streak
                              /\ \A v \in n - old .. n - 1 : ScoreAt(i, v) <= ScoreAt(i, v - 1)
                              /\ old > 0 => <<i, n>> \notin loop.done
    BY <1>2 DEF GoesOn
  <2>2. CASE Replaying
    BY <1>8, <2>1, <2>2 DEF Streak, Replaying
  <2>3. CASE ~Replaying /\ Stale
    <3>1. s = old + 1
      BY <1>8, <2>1, <2>3 DEF Streak
    <3>2. \A v \in n + 1 - s .. n : v = n \/ v \in n - old .. n - 1
      BY <3>1
    <3>3. <<i, n>> \notin loop.done
      BY <2>3 DEF Replaying
    <3>4. i \in Nat /\ InOrderIn(loop.done)
      BY DEF LoopInv
    <3>5. <<i, n + 1>> \notin loop.done
      BY <3>3, <3>4 DEF InOrderIn
    <3>6. QED BY <1>7, <2>1, <2>3, <3>1, <3>2, <3>5
  <2>4. CASE ~Replaying /\ ~Stale
    BY <1>8, <2>4 DEF Streak
  <2>5. QED BY <2>2, <2>3, <2>4
<1>10. \A v \in 0 .. n - 1 : ~SaysOk(i, v)
  BY <1>2 DEF GoesOn
<1>11. \A v : v \in 0 .. n + 1 - 1 <=> v = n \/ v \in 0 .. n - 1
  OBVIOUS
<1>12. ~c.ok => \A v \in 0 .. n : ~SaysOk(i, v)
  BY <1>2, <1>10, <1>11
<1>13. c.ok => EndsAs(i, n + 1, "satisfied")
  <2>1. \A v \in 0 .. n - 1 : v # n + 1 - 1
    OBVIOUS
  <2>2. n + 1 - 1 = n
    OBVIOUS
  <2>3. SaysOk(i, n) => StopsAt(i, n)
    BY DEF StopsAt
  <2>4. QED BY <1>2, <1>10, <1>11, <2>1, <2>2, <2>3 DEF EndsAs
<1>14. ~c.ok /\ s >= Patience => EndsAs(i, n + 1, "no_progress")
  <2>1. ASSUME s >= Patience PROVE StopsAt(i, n)
    <3>1. n - Patience >= -1
      BY <1>9, <2>1, LoopsAssumption
    <3>2. \A v \in n - Patience + 1 .. n : v \in n + 1 - s .. n
      BY <1>9, <2>1, LoopsAssumption
    <3>3. QED BY <1>9, <3>1, <3>2 DEF StopsAt, Stuck
  <2>2. QED BY <1>11, <1>12, <2>1 DEF EndsAs
<1>15. Fair /\ ~c.ok => IF Better THEN BestOf(i, n + 1, n) /\ Progress(c) = ScoreAt(i, n)
                        ELSE BestOf(i, n + 1, m)
  <2>1. SUFFICES ASSUME Fair, ~c.ok
                 PROVE  IF Better THEN BestOf(i, n + 1, n) /\ Progress(c) = ScoreAt(i, n)
                        ELSE BestOf(i, n + 1, m)
    OBVIOUS
  <2>2. /\ loop.bestScore = ScoreAt(i, m)
        /\ loop.judged => ~accepted
        /\ \A v \in 0 .. n - 1 : /\ ScoreAt(i, v) <= ScoreAt(i, m)
                                 /\ v > m => ScoreAt(i, v) < ScoreAt(i, m)
    BY <1>1, <1>2, <2>1 DEF GoesOn, BestOf
  <2>3. Progress(c) = ScoreAt(i, n)
    BY <1>6, <2>1, <2>2 DEF Fair, Progress
  <2>4. \A v \in -1 .. n - 1 : v \in -1 .. n
    OBVIOUS
  <2>5. CASE Better
    <3>1. ScoreAt(i, n) >= ScoreAt(i, m)
      BY <1>1, <2>2, <2>3, <2>5 DEF Better
    <3>2. \A v \in 0 .. n - 1 : ScoreAt(i, v) <= ScoreAt(i, n) /\ ~(v > n)
      BY <1>2, <1>4, <1>5, <2>2, <2>4, <3>1
    <3>3. QED BY <1>4, <1>5, <1>11, <2>3, <2>5, <3>2 DEF BestOf
  <2>6. CASE ~Better
    <3>1. ~(ScoreAt(i, n) >= ScoreAt(i, m))
      BY <1>1, <2>2, <2>3, <2>6 DEF Better
    <3>2. ScoreAt(i, n) < ScoreAt(i, m)
      BY <1>2, <1>4, <1>5, <2>4, <3>1
    <3>3. ScoreAt(i, n) <= ScoreAt(i, m)
      BY <1>2, <1>4, <1>5, <2>4, <3>2
    <3>4. BestOf(i, n + 1, m)
      BY <1>11, <2>2, <3>2, <3>3 DEF BestOf
    <3>5. QED BY <2>6, <3>4
  <2>7. QED BY <2>5, <2>6
<1>16. QED BY <1>1, <1>3, <1>8, <1>9, <1>12, <1>13, <1>14, <1>15

\* Marking a visit leaves the tape alone.
LEMMA SameTape ==
  ASSUME loopTape' = loopTape, loop'.kind = loop.kind, loop'.judged = loop.judged,
         NEW i, NEW n, NEW m, NEW val, NEW stop
  PROVE  /\ Heard(i, n)' <=> Heard(i, n)
         /\ Holds(val, i, m)' <=> Holds(val, i, m)
         /\ BestOf(i, n, m)' <=> BestOf(i, n, m)
         /\ EndsAs(i, n, stop)' <=> EndsAs(i, n, stop)
         /\ ScoreAt(i, m)' = ScoreAt(i, m)
         /\ SaysOk(i, m)' <=> SaysOk(i, m)
BY DEF Heard, Holds, Said, EndsAs, StopsAt, SaysOk, Stuck, ScoreAt, BestOf

LEMMA MarkVisitStep == ASSUME LoopInv, MarkVisit PROVE LoopInv'
<1>1. PICK i \in Nat, n \in 0 .. MaxVisits : i = loop.item /\ n = loop.visit /\ ItemInv(i, n)
  BY DEF LoopInv, MarkVisit, Working
<1>2. loopPc = "mark" /\ n \in Nat /\ n + 1 \in 0 .. MaxVisits
  BY <1>1, LoopsAssumption DEF ItemInv, MarkVisit
<1>3. PICK b, c, e, s : b = loop.best /\ c = loop.cur /\ e = loop'.best /\ s = Streak
  OBVIOUS
<1>4. PICK stop : stop = IF c.ok THEN "satisfied"
                         ELSE IF ~Replaying /\ s >= Patience THEN "no_progress" ELSE "none"
  OBVIOUS
<1>5. /\ loop' = [f \in LoopFields |-> loop'[f]] /\ loop'.item = i /\ loop'.visit = n + 1
      /\ loop'.kind = loop.kind /\ loop'.judged = loop.judged /\ loop'.done = loop.done
      /\ loop'.cur = c /\ loop'.stale = loop.stale /\ loop'.streak = s /\ loop'.stop = stop
      /\ IF loop.kind = "refine" /\ (Better \/ c.ok)
         THEN e = c /\ loop'.bestScore = Progress(c)
         ELSE e = b /\ loop'.bestScore = loop.bestScore
  <2>1. PICK l : l = [loop EXCEPT !.visit = n + 1, !.stop = stop, !.streak = s]
    OBVIOUS
  <2>2. loop' = KeepBest(l)
    BY <1>1, <1>3, <1>4, <2>1 DEF MarkVisit
  <2>3. /\ l = [f \in LoopFields |-> l[f]] /\ l.item = i /\ l.visit = n + 1
        /\ l.kind = loop.kind /\ l.judged = loop.judged /\ l.done = loop.done
        /\ l.cur = c /\ l.stale = loop.stale /\ l.streak = s /\ l.stop = stop
        /\ l.best = b /\ l.bestScore = loop.bestScore
    BY <1>1, <1>3, <2>1 DEF LoopInv, LoopFields
  <2>4. loop' = IF loop.kind = "refine" /\ (Better \/ c.ok)
                THEN [l EXCEPT !.best = c, !.bestScore = Progress(c)] ELSE l
    BY <1>3, <2>2 DEF KeepBest
  <2>5. CASE loop.kind = "refine" /\ (Better \/ c.ok)
    BY <1>3, <2>3, <2>4, <2>5 DEF LoopFields
  <2>6. CASE ~(loop.kind = "refine" /\ (Better \/ c.ok))
    BY <1>3, <2>3, <2>4, <2>6
  <2>7. QED BY <2>5, <2>6
<1>6. /\ UNCHANGED <<loopTape, accepted, results>>
      /\ loopRows' = loopRows \cup {<<i, n>>}
      /\ loopPc' = IF stop = "none" THEN "visit" ELSE "stop"
  BY <1>1, <1>3, <1>4 DEF MarkVisit, MarkRow
<1>7. TapeGrows
  BY <1>5, <1>6 DEF TapeGrows
<1>8. ResultsInv' /\ TapeInv'
  BY <1>6, <1>7, ResultsStay DEF LoopInv, TapeInv
<1>9. /\ Heard(i, n + 1)
      /\ s \in 0 .. n + 1
      /\ \A v \in n + 1 - s .. n : ScoreAt(i, v) <= ScoreAt(i, v - 1)
      /\ s > 0 => <<i, n + 1>> \notin loop.done
      /\ ~c.ok => \A v \in 0 .. n : ~SaysOk(i, v)
      /\ c.ok => EndsAs(i, n + 1, "satisfied")
      /\ ~c.ok /\ s >= Patience => EndsAs(i, n + 1, "no_progress")
      /\ Fair /\ ~c.ok => IF Better THEN BestOf(i, n + 1, n) /\ Progress(c) = ScoreAt(i, n)
                          ELSE BestOf(i, n + 1, loop.best.at)
  BY <1>1, <1>2, <1>3, VisitMade
<1>10. PICK m, w : m = b.at /\ w = e.at
  OBVIOUS
<1>11. /\ Holds(c, i, n) /\ Holds(b, i, m) /\ m \in -1 .. n - 1 /\ c.at = n
       /\ \A v \in 0 .. n - 1 : <<i, v>> \in loopRows
  BY <1>1, <1>2, <1>3, <1>10 DEF ItemInv, Holds
<1>12. /\ w \in -1 .. n /\ Holds(e, i, w)
       /\ w = IF loop.kind = "refine" /\ (Better \/ c.ok) THEN n ELSE m
  BY <1>2, <1>5, <1>10, <1>11
<1>13. /\ \A k, v, l, x : (Holds(x, k, v)' <=> Holds(x, k, v))
                          /\ (BestOf(k, l, v)' <=> BestOf(k, l, v))
                          /\ (EndsAs(k, l, x)' <=> EndsAs(k, l, x))
                          /\ (Heard(k, l)' <=> Heard(k, l))
                          /\ ScoreAt(k, v)' = ScoreAt(k, v)
                          /\ (SaysOk(k, v)' <=> SaysOk(k, v))
  BY <1>5, <1>6, SameTape
<1>14. n + 1 - 1 = n
  BY <1>2
<1>15. InOrderIn(loopRows)' /\ InOrderIn(loop.done)'
  <2>1. ASSUME NEW k \in Nat, NEW v \in Nat, <<k, v + 1>> \in loopRows' PROVE <<k, v>> \in loopRows'
    <3>1. CASE <<k, v + 1>> \in loopRows
      BY <1>6, <3>1 DEF LoopInv, InOrderIn
    <3>2. CASE k = i /\ v + 1 = n
      <4>1. v \in 0 .. n - 1
        BY <3>2
      <4>2. QED BY <1>6, <1>11, <3>2, <4>1
    <3>3. QED BY <1>6, <2>1, <3>1, <3>2
  <2>2. InOrderIn(loop.done)'
    BY <1>5 DEF LoopInv, InOrderIn
  <2>3. QED BY <2>1, <2>2 DEF InOrderIn
<1>16. Fair' /\ ~c.ok => BestOf(i, n + 1, w)'
  <2>1. Fair' <=> Fair
    BY <1>5 DEF Fair
  <2>2. Fair /\ ~c.ok => BestOf(i, n + 1, w)
    BY <1>3, <1>9, <1>10, <1>12 DEF Fair
  <2>3. QED BY <1>13, <2>1, <2>2
<1>17. stop = "none" => GoesOn(i, n + 1)'
  <2>1. SUFFICES ASSUME stop = "none" PROVE GoesOn(i, n + 1)'
    OBVIOUS
  <2>2. ~c.ok /\ loopPc' = "visit"
    BY <1>4, <1>6, <2>1
  <2>3. (\A v \in 0 .. n + 1 - 1 : ~SaysOk(i, v))'
    BY <1>9, <1>13, <1>14, <2>2
  <2>4. (/\ loop.streak \in 0 .. n + 1
         /\ \A v \in n + 1 - loop.streak .. n + 1 - 1 : ScoreAt(i, v) <= ScoreAt(i, v - 1)
         /\ loop.streak > 0 => <<i, n + 1>> \notin loop.done)'
    BY <1>5, <1>9, <1>13, <1>14
  <2>5. Fair => loop'.bestScore = ScoreAt(i, w) /\ (loop.judged => ~accepted)
    <3>1. Fair => /\ loop.bestScore = ScoreAt(i, m)
                  /\ loop.judged => (accepted <=> c.ok)
      BY <1>1, <1>2, <1>3, <1>10 DEF ItemInv, GoesOn
    <3>2. QED BY <1>3, <1>5, <1>9, <1>12, <2>2, <3>1 DEF Fair
  <2>6. (Fair => loop.bestScore = ScoreAt(i, w) /\ (loop.judged => ~accepted))'
    BY <1>5, <1>6, <1>13, <2>5 DEF Fair
  <2>7. (Fair => /\ BestOf(i, n + 1, loop.best.at) /\ loop.bestScore = ScoreAt(i, loop.best.at)
                 /\ loop.judged => IF loopPc = "mark" THEN accepted <=> loop.cur.ok
                                   ELSE ~accepted)'
    BY <1>3, <1>10, <1>16, <2>2, <2>6 DEF BestOf, ScoreAt, Said
  <2>8. QED BY <2>3, <2>4, <2>7 DEF GoesOn
<1>18. stop # "none" => (/\ EndsAs(i, n + 1, loop.stop)
                         /\ Fair => IF loop.stop = "satisfied" THEN loop.best.at = n + 1 - 1
                                    ELSE BestOf(i, n + 1, loop.best.at))'
  <2>1. SUFFICES ASSUME stop # "none"
                 PROVE  /\ EndsAs(i, n + 1, loop.stop)'
                        /\ (Fair => IF loop.stop = "satisfied" THEN loop.best.at = n + 1 - 1
                                    ELSE BestOf(i, n + 1, loop.best.at))'
    OBVIOUS
  <2>2. EndsAs(i, n + 1, stop)'
    BY <1>4, <1>9, <1>13, <2>1
  <2>3. EndsAs(i, n + 1, loop.stop)'
    BY <1>5, <2>2 DEF EndsAs
  <2>4. Fair' => IF stop = "satisfied" THEN w = n ELSE BestOf(i, n + 1, w)'
    BY <1>4, <1>5, <1>12, <1>16, <2>1 DEF Fair
  <2>5. QED BY <1>3, <1>5, <1>10, <1>14, <2>3, <2>4 DEF BestOf
<1>19. ItemInv(i, n + 1)'
  <2>1. Heard(i, n + 1)' /\ Holds(e, i, w)' /\ Holds(c, i, n)'
    BY <1>9, <1>11, <1>12, <1>13
  <2>2. (\A v \in 0 .. n + 1 - 1 : <<i, v>> \in loopRows)'
    <3>1. \A v : v \in 0 .. n + 1 - 1 <=> v = n \/ v \in 0 .. n - 1
      BY <1>2
    <3>2. QED BY <1>6, <1>11, <3>1
  <2>3. (Holds(loop.best, i, loop.best.at) /\ loop.best.at \in -1 .. n + 1 - 1)'
    BY <1>3, <1>10, <1>12, <1>14, <2>1 DEF Holds
  <2>4. Holds(loop.cur, i, n + 1 - 1)'
    BY <1>5, <1>14, <2>1 DEF Holds
  <2>5. loopPc' = IF stop = "none" THEN "visit" ELSE "stop"
    BY <1>6
  <2>6. QED BY <1>17, <1>18, <2>1, <2>2, <2>3, <2>4, <2>5 DEF ItemInv
<1>20. loopPc' \in Working
  BY <1>6 DEF Working
<1>21. loop'.item = Len(results') + 1
  BY <1>1, <1>2, <1>5, <1>6 DEF LoopInv, LoopResting
<1>22. QED BY <1>1, <1>2, <1>5, <1>8, <1>15, <1>19, <1>20, <1>21 DEF LoopInv

----------------------------------------------------------------------------
LEMMA LoopInitial == LoopInit => LoopInv
<1> SUFFICES ASSUME LoopInit PROVE LoopInv
  OBVIOUS
<1>2. loop = [f \in LoopFields |-> loop[f]] /\ loop.item = 1 /\ loop.done = {}
  BY DEF LoopInit, LoopFields
<1>3. ResultsInv
  BY DEF LoopInit, ResultsInv
<1>4. TapeInv /\ InOrderIn(loopRows) /\ InOrderIn(loop.done)
  BY <1>2 DEF LoopInit, TapeInv, InOrderIn
<1>5. QED BY <1>2, <1>3, <1>4 DEF LoopInit, LoopInv, LoopResting, Working

LEMMA LoopStep == LoopInv /\ [LoopNext]_loopVars => LoopInv'
<1> SUFFICES ASSUME LoopInv, [LoopNext]_loopVars PROVE LoopInv'
  OBVIOUS
<1>2. CASE LoopCancel
  BY <1>2, SameLoopStep DEF LoopCancel
<1>3. CASE UNCHANGED loopVars
  BY <1>3, SameLoopStep DEF loopVars
<1>4. QED BY <1>2, <1>3, LoopRunStep, EnterLoopStep, LoopsReturnStep, EnterVisitStep,
             AtBoundStep, BodyStep, JudgeStep, MarkVisitStep, LeaveLoopStep, LoopDieStep
          DEF LoopNext

\* A result is as faithful as what was said of it.
LEMMA LoopInvIsFaithful == LoopInv => LoopIsFaithful
<1> SUFFICES ASSUME LoopInv PROVE LoopIsFaithful
  OBVIOUS
<1>2. /\ DOMAIN results = 1 .. Len(results)
      /\ \A i \in 1 .. Len(results) : ResultInv(i, results[i])
  BY DEF LoopInv, ResultsInv
<1>3. EndsNoSooner
  BY <1>2 DEF EndsNoSooner, ResultInv, EndsAs
<1>4. TaintSticks
  BY <1>2 DEF TaintSticks, ResultInv, Holds
<1>5. BestReturned
  BY <1>2 DEF BestReturned, ResultInv, BestOf
<1>6. QED BY <1>3, <1>4, <1>5 DEF LoopIsFaithful, LoopEndsRight

\* However a bounded loop is cancelled, interrupted and resumed, and whatever it replays, for
\* every bound, patience and budget: it ends no sooner than one that ran through, is
\* satisfied where that one is, Refine returns its best attempt, and taint is kept.
THEOREM LoopsStayFaithful == LoopSpec => []LoopIsFaithful
<1>1. LoopInit => LoopInv
  BY LoopInitial
<1>2. LoopInv /\ [LoopNext]_loopVars => LoopInv'
  BY LoopStep
<1>3. LoopInv => LoopIsFaithful
  BY LoopInvIsFaithful
<1>4. QED BY <1>1, <1>2, <1>3, PTL DEF LoopSpec
----------------------------------------------------------------------------
(* CronLoop                                                                 *)

IsCron == schedule.kind = "cron"

\* What a round has lost, with the least sleep, is less than a minute
Quick(ticks) == ticks + MinSleep <= Minute

\* Up to which minute the loop has decided: that of the time it took, and at a check the
\* one before it
Decided(m) == IF cronPc = "check" THEN m < MinuteOf(clock) ELSE m <= MinuteOf(now)

CronInv ==
    /\ clock \in Nat /\ now \in Nat /\ until \in Nat /\ slack \in Nat /\ now <= clock
    /\ cronPc \in {"check", "cycle", "sleep"}
    /\ fired \in [Minutes -> Nat] /\ MinuteOf(clock) \in Minutes
    /\ schedule \in Cron \cup Interval
    /\ IsCron /\ cronPc = "sleep" => until >= NextAfter(now)
    /\ IsCron => \A m \in Minutes :
          /\ fired[m] <= 1
          /\ fired[m] = 1 => m <= MinuteOf(now)
          /\ fired[m] = 1 /\ cronPc = "check" => m < MinuteOf(clock)
    /\ IsCron /\ Quick(slack) => \A m \in Scheduled : Decided(m) => fired[m] = 1
----------------------------------------------------------------------------
LEMMA Division ==
  ASSUME NEW t \in Nat, NEW b \in Nat \ {0}
  PROVE  /\ t \div b \in Nat /\ t % b \in 0 .. b - 1
         /\ t = (b * (t \div b)) + (t % b)
OBVIOUS

\* A quotient is told from the multiples on either side.
LEMMA QuotientIs ==
  ASSUME NEW t \in Nat, NEW b \in Nat \ {0}, NEW q \in Nat
  PROVE  /\ b * q \in Nat
         /\ t >= b * q => t \div b >= q
         /\ t < b * (q + 1) => t \div b <= q
<1> DEFINE d == t \div b
           r == t % b
<1>1. d \in Nat /\ r \in 0 .. b - 1 /\ t = (b * d) + r
  BY Division
<1> HIDE DEF d, r
<1>2. ASSUME t >= b * q, d < q PROVE FALSE
  <2>1. PICK k \in Nat : q = d + 1 + k
    <3>1. q - d - 1 \in Nat
      BY <1>1, <1>2
    <3>2. q = d + 1 + (q - d - 1)
      BY <1>1
    <3>3. QED BY <3>1, <3>2
  <2>2. b * q = (b * d) + b + (b * k)
    BY <1>1, <2>1
  <2>3. b * k \in Nat /\ b * d \in Nat
    BY <1>1, <2>1
  <2>4. QED BY <1>1, <1>2, <2>2, <2>3
<1>3. ASSUME t < b * (q + 1), d > q PROVE FALSE
  <2>1. PICK k \in Nat : d = q + 1 + k
    <3>1. d - q - 1 \in Nat
      BY <1>1, <1>3
    <3>2. d = q + 1 + (d - q - 1)
      BY <1>1
    <3>3. QED BY <3>1, <3>2
  <2>2. b * d = (b * (q + 1)) + (b * k)
    BY <1>1, <2>1
  <2>3. b * k \in Nat /\ b * (q + 1) \in Nat /\ b * d \in Nat
    BY <1>1, <2>1
  <2>4. QED BY <1>1, <1>3, <2>2, <2>3
<1>4. b * q \in Nat
  OBVIOUS
<1>5. (t >= b * q => d >= q) /\ (t < b * (q + 1) => d <= q)
  BY <1>1, <1>2, <1>3
<1>6. QED BY <1>4, <1>5 DEF d

LEMMA MinutesAre ==
  Minutes \subseteq Nat /\ Scheduled \subseteq Minutes /\ \A t \in Nat : MinuteOf(t) \in Nat
<1>1. Minute \in Nat \ {0}
  BY CronAssumption
<1>2. \A t \in Nat : MinuteOf(t) \in Nat
  BY <1>1, Division DEF MinuteOf
<1>3. Minutes \subseteq Nat
  BY CronAssumption DEF Minutes
<1>4. QED BY <1>2, <1>3 DEF Scheduled

\* Within any Period + 1 minutes in a row one is scheduled, whatever the expression.
LEMMA OneIsScheduled ==
  ASSUME NEW m \in Nat, schedule \in Cron
  PROVE  \E k \in m .. m + Period : k % Period \in schedule.on
<1>1. Period \in Nat \ {0}
  BY CronAssumption
<1>2. PICK d \in schedule.on : d \in 0 .. Period - 1
  BY DEF Cron
<1> DEFINE q == m \div Period
           r == m % Period
<1>3. q \in Nat /\ r \in 0 .. Period - 1 /\ m = (Period * q) + r
  BY <1>1, Division
<1> HIDE DEF q, r
<1>4. \A p \in Nat : ((Period * p) + d) % Period = d
  BY <1>1, <1>2
<1>5. CASE d >= r
  <2>1. (Period * q) + d \in m .. m + Period
    <3>1. Period * q \in Nat
      BY <1>1, <1>3
    <3>2. QED BY <1>1, <1>2, <1>3, <1>5, <3>1
  <2>2. QED BY <1>2, <1>3, <1>4, <2>1
<1>6. CASE d < r
  <2>1. Period * (q + 1) = (Period * q) + Period /\ Period * q \in Nat
    BY <1>1, <1>3
  <2>2. (Period * (q + 1)) + d \in m .. m + Period
    BY <1>1, <1>2, <1>3, <1>6, <2>1
  <2>3. QED BY <1>2, <1>3, <1>4, <2>2
<1>7. QED BY <1>2, <1>3, <1>5, <1>6

\* The least of some numbers, and the greater of two.
LEMMA LeastThereIs ==
  ASSUME NEW S, S \subseteq Nat, S # {}
  PROVE  Min(S) \in S /\ \A s \in S : Min(S) <= s
<1> DEFINE R == {p \in Nat \X Nat : p[1] < p[2]}
<1>1. IsWellFoundedOn(R, Nat)
  BY NatLessThanWellFounded DEF OpToRel
<1>2. PICK x \in S : \A y \in S : ~ (<<y, x>> \in R)
  <2> HIDE DEF R
  <2>1. QED BY <1>1, WFMin
<1>3. ASSUME NEW y \in S PROVE x <= y
  <2>1. x \in Nat /\ y \in Nat
    OBVIOUS
  <2>2. <<y, x>> \notin R
    BY <1>2
  <2>3. ~(y < x)
    BY <2>1, <2>2
  <2>4. QED BY <2>1, <2>3
<1>4. QED BY <1>3 DEF Min

LEMMA GreaterOf ==
  ASSUME NEW a \in Int, NEW b \in Int
  PROVE  Max({a, b}) \in {a, b} /\ Max({a, b}) >= a /\ Max({a, b}) >= b
<1>1. \E x \in {a, b} : \A y \in {a, b} : x >= y
  OBVIOUS
<1>2. QED BY <1>1 DEF Max

\* The delay is positive and not more than it must be: until the first scheduled minute
\* after t, or the least sleep.
LEMMA DelayIs ==
  ASSUME NEW t \in Nat, schedule \in Cron \cup Interval
  PROVE  /\ NextAfter(t) \in Nat /\ Delay(t) \in Nat
         /\ Delay(t) >= NextAfter(t) - t
         /\ Delay(t) = NextAfter(t) - t \/ Delay(t) = MinSleep
<1>1. Minute \in Nat \ {0} /\ MinSleep \in Nat \ {0}
  BY CronAssumption
<1>2. NextAfter(t) \in Nat
  <2>1. CASE IsCron
    <3>1. MinuteOf(t) + 1 \in Nat
      BY <1>1, Division DEF MinuteOf
    <3>2. schedule \in Cron
      BY <2>1 DEF IsCron, Cron, Interval
    <3>3. FirstFrom(MinuteOf(t) + 1) \in Nat
      <4> DEFINE S == {k \in MinuteOf(t) + 1 .. MinuteOf(t) + 1 + Period : k % Period \in schedule.on}
      <4>1. S # {}
        BY <3>1, <3>2, OneIsScheduled
      <4>2. S \subseteq Nat
        BY <3>1
      <4>3. Min(S) \in Nat
        <5> HIDE DEF S
        <5>1. QED BY <4>1, <4>2, LeastThereIs
      <4>4. QED BY <4>3 DEF FirstFrom
    <3>4. QED BY <1>1, <2>1, <3>3 DEF NextAfter, IsCron
  <2>2. CASE ~IsCron
    <3>1. schedule.every \in Nat
      BY <1>1, <2>2 DEF IsCron, Cron, Interval
    <3>2. QED BY <2>2, <3>1 DEF NextAfter, IsCron
  <2>3. QED BY <2>1, <2>2
<1>3. PICK d \in Int : d = NextAfter(t) - t
  BY <1>2
<1>4. Delay(t) \in {MinSleep, d} /\ Delay(t) >= MinSleep /\ Delay(t) >= d
  BY <1>1, <1>3, GreaterOf DEF Delay
<1>5. Delay(t) \in Nat
  BY <1>1, <1>4
<1>6. QED BY <1>2, <1>3, <1>4, <1>5

LEMMA NextMinuteIs ==
  ASSUME NEW t \in Nat, schedule \in Cron \cup Interval, IsCron
  PROVE  \E first \in Nat :
            /\ first > MinuteOf(t) /\ NextAfter(t) = Minute * first
            /\ \A m \in Minutes : m > MinuteOf(t) /\ m < first => m \notin Scheduled
<1> DEFINE from == MinuteOf(t) + 1
           S == {k \in from .. from + Period : k % Period \in schedule.on}
<1>1. from \in Nat /\ MinuteOf(t) \in Nat
  <2>1. Minute \in Nat \ {0}
    BY CronAssumption
  <2>2. QED BY <2>1, Division DEF MinuteOf
<1>2. S # {} /\ S \subseteq Nat
  <2>1. schedule \in Cron
    BY DEF IsCron, Cron, Interval
  <2>2. S # {}
    <3> HIDE DEF from
    <3>1. QED BY <1>1, <2>1, OneIsScheduled
  <2>3. QED BY <1>1, <2>2
<1>3. PICK first : first = Min(S)
  OBVIOUS
<1>4. first \in S /\ \A s \in S : first <= s
  <2> HIDE DEF S
  <2>1. QED BY <1>2, <1>3, LeastThereIs
<1>5. first \in Nat /\ first > MinuteOf(t) /\ first <= from + Period
  <2> HIDE DEF from
  <2>1. Period \in Nat
    BY CronAssumption
  <2>2. first \in from .. from + Period
    BY <1>4
  <2>3. first >= from /\ first \in Nat /\ first <= from + Period
    BY <1>1, <2>1, <2>2
  <2>4. QED BY <1>1, <2>3 DEF from
<1>6. NextAfter(t) = Minute * first
  BY <1>3 DEF NextAfter, FirstFrom, IsCron
<1>7. ASSUME NEW m \in Minutes, m > MinuteOf(t), m < first PROVE m \notin Scheduled
  <2>1. m \in Nat /\ Period \in Nat
    BY CronAssumption DEF Minutes
  <2>2. m \in from .. from + Period
    BY <1>1, <1>5, <1>7, <2>1
  <2>3. m \notin S
    <3> HIDE DEF S
    <3>1. QED BY <1>4, <1>5, <1>7, <2>1
  <2>4. m % Period \notin schedule.on
    BY <2>2, <2>3
  <2>5. QED BY <2>4 DEF Scheduled
<1>8. QED BY <1>5, <1>6, <1>7

\* A round that lost less than a minute, with the least sleep, has passed no scheduled
\* minute over.
LEMMA QuickPassesNothing ==
  ASSUME NEW n \in Nat, NEW c \in Nat, schedule \in Cron \cup Interval, IsCron,
         Quick(c - (n + Delay(n))), NEW m \in Scheduled, m > MinuteOf(n)
  PROVE  ~(m < MinuteOf(c))
<1>1. Minute \in Nat \ {0} /\ MinSleep \in Nat
  BY CronAssumption
<1>2. MinuteOf(n) \in Nat /\ MinuteOf(c) \in Nat /\ m \in Nat /\ m \in Minutes
  <2>1. MinuteOf(n) \in Nat /\ MinuteOf(c) \in Nat
    BY <1>1, Division DEF MinuteOf
  <2>2. m \in Minutes
    BY DEF Scheduled
  <2>3. QED BY <2>1, <2>2, CronAssumption DEF Minutes
<1>3. PICK first \in Nat :
            /\ first > MinuteOf(n) /\ NextAfter(n) = Minute * first
            /\ \A k \in Minutes : k > MinuteOf(n) /\ k < first => k \notin Scheduled
  BY NextMinuteIs
<1>4. /\ Delay(n) \in Nat /\ NextAfter(n) \in Nat
      /\ Delay(n) = NextAfter(n) - n \/ Delay(n) = MinSleep
  BY DelayIs
<1>5. c + MinSleep <= n + Delay(n) + Minute
  BY <1>1, <1>4 DEF Quick
<1>6. CASE Delay(n) = NextAfter(n) - n /\ MinSleep > 0
  <2>1. c < (Minute * first) + Minute
    BY <1>1, <1>3, <1>4, <1>5, <1>6
  <2>2. Minute * (first + 1) = (Minute * first) + Minute
    BY <1>1, <1>3
  <2>3. MinuteOf(c) <= first
    BY <1>1, <1>3, <2>1, <2>2, QuotientIs DEF MinuteOf
  <2>4. QED BY <1>2, <1>3, <2>3
<1>7. CASE Delay(n) = MinSleep
  <2>1. c <= n + Minute
    BY <1>1, <1>4, <1>5, <1>7
  <2>2. n < (Minute * MinuteOf(n)) + Minute /\ Minute * MinuteOf(n) \in Nat
    <3>1. n % Minute \in 0 .. Minute - 1 /\ n = (Minute * MinuteOf(n)) + (n % Minute)
      BY <1>1, Division DEF MinuteOf
    <3>2. Minute * MinuteOf(n) \in Nat
      BY <1>1, <1>2
    <3>3. QED BY <1>1, <3>1, <3>2
  <2>3. Minute * ((MinuteOf(n) + 1) + 1) = (Minute * MinuteOf(n)) + Minute + Minute
    BY <1>1, <1>2
  <2>4. c < Minute * ((MinuteOf(n) + 1) + 1)
    BY <1>1, <2>1, <2>2, <2>3
  <2>5. MinuteOf(c) <= MinuteOf(n) + 1
    <3>1. MinuteOf(n) + 1 \in Nat
      BY <1>2
    <3>2. QED BY <1>1, <2>4, <3>1, QuotientIs DEF MinuteOf
  <2>6. QED BY <1>2, <2>5
<1>8. MinSleep > 0
  BY CronAssumption
<1>9. QED BY <1>4, <1>6, <1>7, <1>8
----------------------------------------------------------------------------
LEMMA CronInvInit == CronInit => CronInv
<1> SUFFICES ASSUME CronInit PROVE CronInv
  OBVIOUS
<1>1. Minute \in Nat \ {0} /\ Horizon \in Nat
  BY CronAssumption
<1>2. clock \in Nat /\ now = clock /\ until = clock /\ slack = 0 /\ cronPc = "check"
  BY <1>1 DEF CronInit
<1>3. MinuteOf(clock) = 0
  <2>1. clock < Minute * (0 + 1)
    BY <1>1 DEF CronInit
  <2>2. MinuteOf(clock) \in Nat
    BY <1>1, <1>2, Division DEF MinuteOf
  <2>3. MinuteOf(clock) <= 0
    BY <1>1, <1>2, <2>1, QuotientIs DEF MinuteOf
  <2>4. QED BY <2>2, <2>3
<1>4. MinuteOf(clock) \in Minutes /\ fired = [m \in Minutes |-> 0]
  BY <1>1, <1>3 DEF Minutes, CronInit
<1>5. \A m \in Minutes : ~(m < 0)
  BY <1>1 DEF Minutes
<1>6. schedule \in Cron \cup Interval
  BY DEF CronInit
<1>7. \A m \in Scheduled : ~Decided(m)
  BY <1>2, <1>3, <1>5 DEF Scheduled, Decided
<1>8. QED BY <1>2, <1>4, <1>6, <1>7 DEF CronInv

\* The schedule is what it was, and so is what is made of it.
LEMMA ScheduleStands ==
  ASSUME UNCHANGED schedule
  PROVE  Scheduled' = Scheduled /\ IsCron' = IsCron
BY DEF Scheduled, IsCron

LEMMA FireStep ==
  ASSUME CronInv, Fire
  PROVE  CronInv'
<1>1. PICK here \in Minutes : here = MinuteOf(clock)
  BY DEF CronInv
<1>2. /\ UNCHANGED <<schedule, clock, until, slack>>
      /\ cronPc = "check" /\ cronPc' = "cycle" /\ now' = clock
  BY DEF Fire
<1>3. MinuteOf(clock)' = here /\ MinuteOf(now)' = here
  BY <1>1, <1>2 DEF MinuteOf
<1>4. fired' = [fired EXCEPT ![here] = @ + 1]
  BY <1>1 DEF Fire
<1>5. /\ fired' \in [Minutes -> Nat] /\ fired'[here] = fired[here] + 1
      /\ \A m \in Minutes \ {here} : fired'[m] = fired[m]
  BY <1>1, <1>4 DEF CronInv
<1>6. ASSUME IsCron PROVE fired'[here] = 1
  <2>1. here \in Nat /\ fired[here] \in Nat /\ fired[here] <= 1 /\ ~(fired[here] = 1 /\ ~(here < here))
    BY <1>1, <1>2, <1>6, CronAssumption DEF CronInv, Minutes
  <2>2. fired[here] = 0
    BY <2>1
  <2>3. QED BY <1>5, <2>2
<1>7. ASSUME IsCron, NEW m \in Minutes PROVE fired'[m] <= 1 /\ (fired'[m] = 1 => m <= here)
  <2>1. here \in Nat /\ m \in Nat
    BY CronAssumption DEF Minutes
  <2>2. CASE m = here
    BY <1>6, <1>7, <2>1, <2>2
  <2>3. CASE m # here
    BY <1>1, <1>2, <1>5, <1>7, <2>1, <2>3 DEF CronInv
  <2>4. QED BY <2>2, <2>3
<1>8. ASSUME IsCron, Quick(slack), NEW m \in Scheduled, m <= here PROVE fired'[m] = 1
  <2>1. m \in Minutes /\ here \in Nat /\ m \in Nat
    BY CronAssumption DEF Scheduled, Minutes
  <2>2. CASE m = here
    BY <1>6, <1>8, <2>2
  <2>3. CASE m # here
    <3>1. Decided(m)
      BY <1>1, <1>2, <1>8, <2>1, <2>3 DEF Decided
    <3>2. QED BY <1>5, <1>8, <2>1, <2>3, <3>1 DEF CronInv
  <2>4. QED BY <2>2, <2>3
<1>9. IsCron' = IsCron /\ Scheduled' = Scheduled /\ Quick(slack)' = Quick(slack)
  BY <1>2, ScheduleStands DEF Quick
<1>10. \A m : Decided(m)' <=> m <= here
  BY <1>2, <1>3 DEF Decided
<1>11. QED
  BY <1>1, <1>2, <1>3, <1>5, <1>7, <1>8, <1>9, <1>10 DEF CronInv

LEMMA NotDueStep ==
  ASSUME CronInv, NotDue
  PROVE  CronInv'
<1>1. PICK here \in Minutes : here = MinuteOf(clock)
  BY DEF CronInv
<1>2. /\ UNCHANGED <<schedule, clock, fired, slack>>
      /\ cronPc = "check" /\ cronPc' = "sleep" /\ now' = clock
      /\ until' = clock + Delay(clock)
  BY DEF NotDue
<1>3. MinuteOf(clock)' = here /\ MinuteOf(now)' = here
  BY <1>1, <1>2 DEF MinuteOf
<1>4. clock \in Nat /\ schedule \in Cron \cup Interval /\ here \in Nat
  BY CronAssumption DEF CronInv, Minutes
<1>5. until' \in Nat /\ until' >= NextAfter(clock)
  BY <1>2, <1>4, DelayIs
<1>6. NextAfter(now)' = NextAfter(clock)
  BY <1>2 DEF NextAfter, FirstFrom, MinuteOf
<1>7. ASSUME IsCron, NEW m \in Minutes PROVE fired[m] <= 1 /\ (fired[m] = 1 => m <= here)
  <2>1. m \in Nat
    BY CronAssumption DEF Minutes
  <2>2. QED BY <1>1, <1>2, <1>4, <1>7, <2>1 DEF CronInv
<1>8. ASSUME IsCron, Quick(slack), NEW m \in Scheduled, m <= here PROVE fired[m] = 1
  <2>1. m \in Minutes /\ m \in Nat /\ m % Period \in schedule.on
    BY CronAssumption DEF Scheduled, Minutes
  <2>2. here % Period \notin schedule.on
    BY <1>1, <1>8 DEF NotDue, Matches, IsCron
  <2>3. m # here
    BY <2>1, <2>2
  <2>4. Decided(m)
    BY <1>1, <1>2, <1>4, <1>8, <2>1, <2>3 DEF Decided
  <2>5. QED BY <1>8, <2>4 DEF CronInv
<1>9. IsCron' = IsCron /\ Scheduled' = Scheduled /\ Quick(slack)' = Quick(slack)
  BY <1>2, ScheduleStands DEF Quick
<1>10. \A m : Decided(m)' <=> m <= here
  BY <1>2, <1>3 DEF Decided
<1>11. QED
  BY <1>1, <1>2, <1>3, <1>4, <1>5, <1>6, <1>7, <1>8, <1>9, <1>10 DEF CronInv

LEMMA CycleOverStep ==
  ASSUME CronInv, CycleOver
  PROVE  CronInv'
<1>1. /\ UNCHANGED <<schedule, clock, now, fired, slack>>
      /\ cronPc = "cycle" /\ cronPc' = "sleep" /\ until' = clock + Delay(now)
  BY DEF CycleOver
<1>2. clock \in Nat /\ now \in Nat /\ now <= clock /\ schedule \in Cron \cup Interval
  BY DEF CronInv
<1>3. until' \in Nat /\ until' >= NextAfter(now)
  BY <1>1, <1>2, DelayIs
<1>4. NextAfter(now)' = NextAfter(now)
  BY <1>1 DEF NextAfter, FirstFrom, MinuteOf
<1>5. MinuteOf(clock)' = MinuteOf(clock) /\ MinuteOf(now)' = MinuteOf(now)
  BY <1>1 DEF MinuteOf
<1>6. IsCron' = IsCron /\ Scheduled' = Scheduled /\ Quick(slack)' = Quick(slack)
  BY <1>1, ScheduleStands DEF Quick
<1>7. \A m : Decided(m)' <=> Decided(m)
  BY <1>1, <1>5 DEF Decided
<1>8. QED
  BY <1>1, <1>2, <1>3, <1>4, <1>5, <1>6, <1>7 DEF CronInv

LEMMA SleepOverStep ==
  ASSUME CronInv, SleepOver
  PROVE  CronInv'
<1>1. /\ UNCHANGED <<schedule, clock, now, until, fired>>
      /\ cronPc = "sleep" /\ cronPc' = "check" /\ clock >= until
      /\ slack' = Max({slack, clock - (now + Delay(now))})
  BY DEF SleepOver
<1>2. /\ clock \in Nat /\ now \in Nat /\ now <= clock /\ slack \in Nat /\ until \in Nat
      /\ schedule \in Cron \cup Interval
  BY DEF CronInv
<1>3. Delay(now) \in Nat
  BY <1>2, DelayIs
<1>4. slack' \in Nat /\ slack' >= slack /\ slack' >= clock - (now + Delay(now))
  <2>1. PICK lost \in Int : lost = clock - (now + Delay(now))
    BY <1>2, <1>3
  <2>2. slack' = Max({slack, lost})
    BY <1>1, <2>1, Zenon
  <2>3. slack \in Int
    BY <1>2
  <2>4. slack' \in {slack, lost} /\ slack' >= slack /\ slack' >= lost
    <3>1. /\ Max({slack, lost}) \in {slack, lost} /\ Max({slack, lost}) >= slack
          /\ Max({slack, lost}) >= lost
      BY <2>3, GreaterOf
    <3>2. QED BY <2>2, <3>1
  <2>5. QED BY <1>2, <2>1, <2>4
<1>5. Minute \in Nat \ {0} /\ MinSleep \in Nat
  BY CronAssumption
<1>6. Quick(slack') => Quick(slack) /\ Quick(clock - (now + Delay(now)))
  <2>1. PICK s \in Nat : s = slack'
    BY <1>4
  <2>2. PICK lost \in Int : lost = clock - (now + Delay(now))
    BY <1>2, <1>3
  <2>3. s >= slack /\ s >= lost
    BY <1>4, <2>1, <2>2, Zenon
  <2>4. Quick(s) => Quick(slack) /\ Quick(lost)
    BY <1>2, <1>5, <2>3 DEF Quick
  <2>5. QED BY <2>1, <2>2, <2>4, Zenon
<1>7. MinuteOf(clock)' = MinuteOf(clock) /\ MinuteOf(now)' = MinuteOf(now)
  BY <1>1 DEF MinuteOf
<1>8. ASSUME IsCron PROVE MinuteOf(clock) > MinuteOf(now)
  <2>1. PICK first \in Nat : first > MinuteOf(now) /\ NextAfter(now) = Minute * first
    BY <1>2, <1>8, NextMinuteIs
  <2>2. clock >= Minute * first
    <3>1. Minute * first \in Nat
      BY <1>5, <2>1
    <3>2. QED BY <1>1, <1>2, <1>8, <2>1, <3>1 DEF CronInv
  <2>3. MinuteOf(clock) >= first
    BY <1>2, <1>5, <2>2, QuotientIs DEF MinuteOf
  <2>4. MinuteOf(clock) \in Nat /\ MinuteOf(now) \in Nat
    BY <1>2, <1>5, Division DEF MinuteOf
  <2>5. QED BY <2>1, <2>3, <2>4
<1>9. ASSUME IsCron, NEW m \in Minutes PROVE fired[m] <= 1 /\ (fired[m] = 1 => m < MinuteOf(clock))
  <2>1. m \in Nat /\ MinuteOf(clock) \in Nat /\ MinuteOf(now) \in Nat
    BY <1>2, MinutesAre
  <2>2. QED BY <1>8, <1>9, <2>1 DEF CronInv
<1>10. ASSUME IsCron, Quick(slack'), NEW m \in Scheduled, m < MinuteOf(clock) PROVE fired[m] = 1
  <2>1. ~(m > MinuteOf(now))
    BY <1>2, <1>6, <1>10, QuickPassesNothing
  <2>2. m \in Nat /\ MinuteOf(now) \in Nat
    BY <1>2, MinutesAre
  <2>3. Decided(m)
    BY <1>1, <2>1, <2>2 DEF Decided
  <2>4. QED BY <1>6, <1>10, <2>3 DEF CronInv
<1>11. IsCron' = IsCron /\ Scheduled' = Scheduled /\ Quick(slack)' = Quick(slack')
  BY <1>1, ScheduleStands DEF Quick
<1>12. \A m : Decided(m)' <=> m < MinuteOf(clock)
  BY <1>1, <1>7 DEF Decided
<1>14. ASSUME IsCron, NEW m \in Minutes PROVE fired[m] = 1 => m <= MinuteOf(now)
  BY <1>14 DEF CronInv
<1>15. QED
  BY <1>1, <1>2, <1>4, <1>7, <1>9, <1>10, <1>11, <1>12, <1>14 DEF CronInv

LEMMA TickStep ==
  ASSUME CronInv, Tick
  PROVE  CronInv'
<1>1. /\ UNCHANGED <<schedule, cronPc, now, until, fired, slack>>
      /\ cronPc \in {"cycle", "sleep"} /\ clock' = clock + 1 /\ clock < Horizon * Minute
  BY DEF Tick
<1>2. clock \in Nat /\ now \in Nat /\ now <= clock
  BY DEF CronInv
<1>3. MinuteOf(clock)' \in Minutes
  <2>1. Minute \in Nat \ {0} /\ Horizon \in Nat
    BY CronAssumption
  <2>2. PICK t \in Nat : t = clock + 1
    BY <1>2
  <2>3. Minute * (Horizon + 1) = (Horizon * Minute) + Minute /\ Horizon * Minute \in Nat
    BY <2>1
  <2>4. t < Minute * (Horizon + 1)
    BY <1>1, <1>2, <2>1, <2>2, <2>3
  <2>5. t \div Minute \in Nat /\ t \div Minute <= Horizon
    BY <2>1, <2>2, <2>4, QuotientIs, Division
  <2>6. MinuteOf(clock)' = t \div Minute
    BY <1>1, <2>2 DEF MinuteOf
  <2>7. QED BY <2>1, <2>5, <2>6 DEF Minutes
<1>4. NextAfter(now)' = NextAfter(now) /\ MinuteOf(now)' = MinuteOf(now)
  BY <1>1 DEF NextAfter, FirstFrom, MinuteOf
<1>5. IsCron' = IsCron /\ Scheduled' = Scheduled /\ Quick(slack)' = Quick(slack)
  BY <1>1, ScheduleStands DEF Quick
<1>6. \A m : Decided(m)' <=> Decided(m)
  BY <1>1, <1>4 DEF Decided
<1>7. clock' \in Nat /\ now <= clock' /\ cronPc # "check"
  BY <1>1, <1>2
<1>8. QED
  BY <1>1, <1>2, <1>3, <1>4, <1>5, <1>6, <1>7 DEF CronInv

LEMMA CronInvStep == CronInv /\ [CronNext]_cronVars => CronInv'
<1> SUFFICES ASSUME CronInv, [CronNext]_cronVars PROVE CronInv'
  OBVIOUS
<1>1. CASE UNCHANGED cronVars
  <2>1. UNCHANGED <<schedule, clock, cronPc, now, until, fired, slack>>
    BY <1>1 DEF cronVars
  <2>2. /\ NextAfter(now)' = NextAfter(now) /\ MinuteOf(now)' = MinuteOf(now)
        /\ MinuteOf(clock)' = MinuteOf(clock)
    BY <2>1 DEF NextAfter, FirstFrom, MinuteOf
  <2>3. IsCron' = IsCron /\ Scheduled' = Scheduled /\ Quick(slack)' = Quick(slack)
    BY <2>1, ScheduleStands DEF Quick
  <2>4. \A m : Decided(m)' <=> Decided(m)
    BY <2>1, <2>2 DEF Decided
  <2>5. QED BY <2>1, <2>2, <2>3, <2>4 DEF CronInv
<1>2. QED
  BY <1>1, FireStep, NotDueStep, CycleOverStep, SleepOverStep, TickStep DEF CronNext

LEMMA CronInvFires == CronInv => MinutesFire
<1> SUFFICES ASSUME CronInv PROVE MinutesFire
  OBVIOUS
<1>1. OnceAMinute
  BY DEF CronInv, OnceAMinute, IsCron
<1>2. ASSUME IsCron, Lost + MinSleep <= Minute, NEW m \in Missed PROVE FALSE
  <2>1. /\ m \in Scheduled /\ m \in Minutes /\ m < MinuteOf(clock) /\ fired[m] = 0
    BY <1>2 DEF Missed, Past
  <2>2. /\ clock \in Nat /\ now \in Nat /\ slack \in Nat /\ schedule \in Cron \cup Interval
        /\ Minute \in Nat /\ MinSleep \in Nat
    BY CronAssumption DEF CronInv
  <2>3. Delay(now) \in Nat
    BY <2>2, DelayIs
  <2>4. PICK lost \in Int : lost = clock - (now + Delay(now))
    BY <2>2, <2>3
  <2>5. Lost \in {slack, lost} /\ Lost >= slack /\ Lost >= lost
    <3>1. Lost = Max({slack, lost})
      BY <2>4 DEF Lost
    <3>2. slack \in Int /\ lost \in Int
      BY <2>2, <2>4
    <3>3. QED BY <3>1, <3>2, GreaterOf
  <2>6. Quick(slack) /\ Quick(clock - (now + Delay(now)))
    BY <1>2, <2>2, <2>4, <2>5 DEF Quick
  <2>7. ~(m > MinuteOf(now))
    BY <1>2, <2>1, <2>2, <2>6, QuickPassesNothing
  <2>8. Decided(m)
    <3>1. m \in Nat /\ MinuteOf(now) \in Nat
      BY <2>1, <2>2, MinutesAre
    <3>2. QED BY <2>1, <2>7, <3>1 DEF Decided
  <2>9. fired[m] = 1
    BY <1>2, <2>1, <2>6, <2>8 DEF CronInv
  <2>10. QED BY <2>1, <2>9
<1>3. ShortCyclesMissNothing
  BY <1>2 DEF ShortCyclesMissNothing, IsCron
<1>4. QED BY <1>1, <1>3 DEF MinutesFire

(* For every schedule, period and length of cycle: a scheduled minute has at   *)
(* most one cycle, and exactly one while no round has lost a minute, the least *)
(* sleep included (Supervisor.serve, CronSchedule.next_after).                 *)
THEOREM MinutesStayFired == CronSpec => []MinutesFire
<1>1. CronSpec => []CronInv
  BY CronInvInit, CronInvStep, PTL DEF CronSpec
<1>2. QED BY <1>1, CronInvFires, PTL
----------------------------------------------------------------------------
(* Observer                                                                 *)

RunInfo == [status : {"running", "done", "failed"}, started : Nat, finished : SUBSET Nat]

\* A run has begun by now, and has ended by now unless it runs.
RunsAreSound ==
    /\ clock \in Nat /\ runInfo \in Seq(RunInfo)
    /\ \A r \in DOMAIN runInfo :
          /\ runInfo[r].started <= clock
          /\ IF runInfo[r].status = "running" THEN runInfo[r].finished = {}
             ELSE \E e \in Nat : e <= clock /\ runInfo[r].finished = {e}

ObserverInv ==
    /\ RunsAreSound
    /\ \A f \in findings : f.ts \in Nat /\ f.ts <= clock /\ FoundForCause(f)
    /\ cronPc # "raised" =>
          CronInv /\ IsCron /\ \A m \in Minutes : fired[m] = 1 => FoundInMinute(m)

\* All a step can do to the runs: what has ended stays as it is, and what ends or begins
\* does so now.
RunsMoveOn ==
    /\ \A r \in DOMAIN runInfo :
          /\ r \in DOMAIN runInfo' /\ runInfo'[r].started = runInfo[r].started
          /\ runInfo[r].finished # {} => runInfo'[r] = runInfo[r]
          /\ runInfo[r].finished = {} => runInfo'[r].finished \in {{}, {clock}}
    /\ \A r \in DOMAIN runInfo' \ DOMAIN runInfo :
          runInfo'[r].started = clock /\ runInfo'[r].finished = {}
----------------------------------------------------------------------------
LEMMA SpanIs ==
  ASSUME NEW m \in Nat
  PROVE  /\ StartOf(m) \in Nat /\ EndOf(m) \in Nat /\ StartOf(m) <= EndOf(m)
         /\ \A t \in Nat : MinuteOf(t) = m => StartOf(m) <= t /\ t <= EndOf(m)
         /\ \A t \in Nat : m <= MinuteOf(t) => StartOf(m) <= t
<1>1. Minute \in Nat \ {0}
  BY CronAssumption
<1>2. StartOf(m) \in Nat
  BY <1>1 DEF StartOf
<1>3. EndOf(m) \in Nat /\ StartOf(m) <= EndOf(m) /\ EndOf(m) = StartOf(m) + Minute - 1
  BY <1>1, <1>2 DEF EndOf
<1>4. ASSUME NEW t \in Nat, m <= MinuteOf(t) PROVE StartOf(m) <= t
  <2>1. /\ MinuteOf(t) \in Nat /\ t % Minute \in 0 .. Minute - 1
        /\ t = (Minute * MinuteOf(t)) + (t % Minute)
    BY <1>1, Division DEF MinuteOf
  <2>2. PICK k \in Nat : MinuteOf(t) = m + k
    <3>1. MinuteOf(t) - m \in Nat /\ MinuteOf(t) = m + (MinuteOf(t) - m)
      BY <1>4, <2>1
    <3>2. QED BY <3>1
  <2>3. Minute * MinuteOf(t) = (m * Minute) + (Minute * k) /\ Minute * k \in Nat
    BY <1>1, <2>2
  <2>4. QED BY <1>1, <1>2, <2>1, <2>3 DEF StartOf
<1>5. ASSUME NEW t \in Nat, MinuteOf(t) = m PROVE t <= EndOf(m)
  <2>1. t % Minute \in 0 .. Minute - 1 /\ t = (Minute * m) + (t % Minute)
    BY <1>1, <1>5, Division DEF MinuteOf
  <2>2. Minute * m = StartOf(m)
    BY <1>1 DEF StartOf
  <2>3. QED BY <1>1, <1>2, <1>3, <2>1, <2>2
<1>6. \A t \in Nat : MinuteOf(t) = m => StartOf(m) <= t /\ t <= EndOf(m)
  BY <1>4, <1>5
<1>7. QED BY <1>2, <1>3, <1>4, <1>6

\* The runs are finite, and the more of them the more they cost.
LEMMA RunsAreFinite ==
  ASSUME runInfo \in Seq(RunInfo), NEW T \in SUBSET (DOMAIN runInfo)
  PROVE  IsFiniteSet(T) /\ Cardinality(T) \in Nat
<1>1. Len(runInfo) \in Nat /\ DOMAIN runInfo = 1 .. Len(runInfo)
  OBVIOUS
<1>2. IsFiniteSet(DOMAIN runInfo)
  BY <1>1, FS_Interval
<1>3. QED BY <1>2, FS_Subset, FS_CardinalityType

LEMMA MoreCostsMore ==
  ASSUME NEW S, IsFiniteSet(S), NEW T \in SUBSET S,
         RunCost * Cardinality(T) >= SpendLimit
  PROVE  RunCost * Cardinality(S) >= SpendLimit
<1>1. Cardinality(T) \in Nat /\ Cardinality(S) \in Nat /\ Cardinality(T) <= Cardinality(S)
  BY FS_Subset, FS_CardinalityType
<1>2. PICK a \in Nat, k \in Nat : a = Cardinality(T) /\ Cardinality(S) = a + k
  <2>1. Cardinality(S) - Cardinality(T) \in Nat
        /\ Cardinality(S) = Cardinality(T) + (Cardinality(S) - Cardinality(T))
    BY <1>1
  <2>2. QED BY <1>1, <2>1
<1>3. RunCost \in Nat /\ SpendLimit \in Nat
  BY ObserverAssumption
<1>4. RunCost * (a + k) = (RunCost * a) + (RunCost * k) /\ RunCost * k \in Nat /\ RunCost * a \in Nat
  BY <1>2, <1>3
<1>5. QED BY <1>2, <1>3, <1>4

\* A share above the limit stays above it when more of the failed and fewer of the others
\* are counted.
LEMMA ShareGrows ==
  ASSUME NEW a \in Nat, NEW o \in Nat, NEW g \in Nat, NEW q \in Nat, a <= g, q <= o,
         100 * a > FailAbove * (a + o)
  PROVE  100 * g > FailAbove * (g + q)
<1>1. FailAbove \in Nat
  BY ObserverAssumption
<1>2. PICK k \in Nat : g = a + k
  <2>1. g - a \in Nat /\ g = a + (g - a)
    OBVIOUS
  <2>2. QED BY <2>1
<1>3. PICK j \in Nat : o = q + j
  <2>1. o - q \in Nat /\ o = q + (o - q)
    OBVIOUS
  <2>2. QED BY <2>1
<1>4. /\ FailAbove * (a + o) = (FailAbove * a) + (FailAbove * q) + (FailAbove * j)
      /\ FailAbove * (g + q) = (FailAbove * a) + (FailAbove * k) + (FailAbove * q)
      /\ FailAbove * a \in Nat /\ FailAbove * q \in Nat /\ FailAbove * j \in Nat
      /\ FailAbove * k \in Nat
  BY <1>1, <1>2, <1>3
<1>5. FailAbove <= 100
  <2> SUFFICES ASSUME FailAbove > 100 PROVE FALSE
    BY <1>1
  <2>1. PICK i \in Nat : FailAbove = 100 + i
    <3>1. FailAbove - 100 \in Nat /\ FailAbove = 100 + (FailAbove - 100)
      BY <1>1
    <3>2. QED BY <3>1
  <2>2. FailAbove * a = (100 * a) + (i * a) /\ i * a \in Nat
    BY <2>1
  <2>3. QED BY <1>4, <2>2
<1>6. FailAbove * k <= 100 * k
  <2>1. PICK i \in Nat : 100 = FailAbove + i
    <3>1. 100 - FailAbove \in Nat /\ 100 = FailAbove + (100 - FailAbove)
      BY <1>1, <1>5
    <3>2. QED BY <3>1
  <2>2. 100 * k = (FailAbove * k) + (i * k) /\ i * k \in Nat
    BY <1>1, <2>1
  <2>3. QED BY <1>4, <2>2
<1>7. QED BY <1>2, <1>4, <1>6

\* The failed are none of the others.
LEMMA ShareIs ==
  ASSUME NEW S, NEW T, IsFiniteSet(S), IsFiniteSet(T), S \cap T = {}
  PROVE  /\ Cardinality(S) \in Nat /\ Cardinality(T) \in Nat
         /\ Cardinality(S \cup T) = Cardinality(S) + Cardinality(T)
<1>1. Cardinality(S) \in Nat /\ Cardinality(T) \in Nat
  BY FS_CardinalityType
<1>2. Cardinality(S \cup T) = Cardinality(S) + Cardinality(T) - Cardinality(S \cap T)
  BY FS_Union
<1>3. Cardinality(S \cap T) = 0
  BY FS_EmptySet
<1>4. QED BY <1>1, <1>2, <1>3

LEMMA ShareOfMore ==
  ASSUME NEW S, NEW T, NEW F, NEW O, IsFiniteSet(S), IsFiniteSet(O), IsFiniteSet(T),
         F \subseteq S, T \subseteq O, S \cap T = {}, F \cap O = {},
         100 * Cardinality(F) > FailAbove * Cardinality(F \cup O)
  PROVE  100 * Cardinality(S) > FailAbove * Cardinality(S \cup T)
<1>1. /\ IsFiniteSet(F) /\ Cardinality(F) <= Cardinality(S)
      /\ Cardinality(T) <= Cardinality(O)
  BY FS_Subset
<1>2. /\ Cardinality(S) \in Nat /\ Cardinality(T) \in Nat
      /\ Cardinality(S \cup T) = Cardinality(S) + Cardinality(T)
  BY ShareIs
<1>3. /\ Cardinality(F) \in Nat /\ Cardinality(O) \in Nat
      /\ Cardinality(F \cup O) = Cardinality(F) + Cardinality(O)
  BY <1>1, ShareIs
<1>4. QED BY <1>1, <1>2, <1>3, ShareGrows
----------------------------------------------------------------------------
LEMMA FoundGrows ==
  ASSUME findings \subseteq findings', NEW kind, NEW from, NEW to, Found(kind, from, to)
  PROVE  Found(kind, from, to)'
BY DEF Found

\* What is found in a minute that has begun is not put in question by a later step.
LEMMA FoundInMinuteStays ==
  ASSUME RunsAreSound, RunsAreSound', RunsMoveOn, findings \subseteq findings',
         NEW m \in Nat, StartOf(m) <= clock, FoundInMinute(m)
  PROVE  FoundInMinute(m)'
<1>1. PICK from \in Nat : from = StartOf(m)
  BY SpanIs
<1>2. PICK to \in Nat : to = EndOf(m) /\ from <= to
  BY <1>1, SpanIs
<1>3. StartOf(m)' = from /\ EndOf(m)' = to
  BY <1>1, <1>2 DEF StartOf, EndOf
<1>4. {FailWindow, SpendWindow, StuckFor, Lookback} \subseteq Nat /\ clock \in Nat
  BY ObserverAssumption DEF RunsAreSound
<1>5. ASSUME NEW r \in DOMAIN runInfo
      PROVE  /\ runInfo[r] \in RunInfo /\ runInfo[r].started \in Nat
             /\ runInfo[r].finished = {} \/ \E e \in Nat : e <= clock /\ runInfo[r].finished = {e}
  <2>1. runInfo[r] \in RunInfo
    BY DEF RunsAreSound
  <2>2. QED BY <2>1 DEF RunsAreSound, RunInfo
<1>6. ASSUME NEW r \in DOMAIN runInfo, NEW t \in Int
      PROVE  /\ EndedBy(r, t) => EndedBy(r, t)' /\ Failed(r)' = Failed(r)
             /\ EndedBy(r, t)' /\ t < clock => EndedBy(r, t)
  <2>1. CASE runInfo[r].finished # {}
    BY <2>1 DEF RunsMoveOn, EndedBy, Failed
  <2>2. CASE runInfo[r].finished = {}
    <3>1. runInfo'[r].finished \in {{}, {clock}} /\ ~EndedBy(r, t)
      BY <2>2 DEF RunsMoveOn, EndedBy
    <3>2. EndedBy(r, t)' => clock <= t
      BY <1>4, <3>1 DEF EndedBy
    <3>3. QED BY <1>4, <3>1, <3>2
  <2>3. QED BY <2>1, <2>2
<1>7. ASSUME NEW r \in DOMAIN runInfo' \ DOMAIN runInfo
      PROVE  runInfo'[r].started = clock /\ \A t : ~EndedBy(r, t)'
  BY DEF RunsMoveOn, EndedBy
<1>8. ASSUME NEW r \in DOMAIN runInfo
      PROVE  r \in DOMAIN runInfo' /\ runInfo'[r].started = runInfo[r].started
  BY DEF RunsMoveOn
<1>9. ASSUME NEW window
      PROVE  /\ Lasting(m, window) \subseteq DOMAIN runInfo
             /\ Lasting(m, window) = Lasting(m, window)' \cap DOMAIN runInfo
  BY <1>2, <1>3, <1>8 DEF Lasting, Since
<1>10. StuckIn(m)' \subseteq StuckIn(m)
  <2> SUFFICES ASSUME NEW r \in StuckIn(m)' PROVE r \in StuckIn(m)
    OBVIOUS
  <2>1. /\ r \in Lasting(m, Lookback)' /\ ~EndedBy(r, to)'
        /\ runInfo'[r].started + StuckFor < from
    BY <1>3 DEF StuckIn
  <2>2. r \in DOMAIN runInfo'
    BY <2>1 DEF Lasting, Since
  <2>3. r \in DOMAIN runInfo
    BY <1>1, <1>4, <1>7, <2>1, <2>2
  <2>4. r \in Lasting(m, Lookback) /\ ~EndedBy(r, to) /\ runInfo[r].started + StuckFor < from
    BY <1>2, <1>6, <1>8, <1>9, <2>1, <2>3
  <2>5. QED BY <1>1, <1>2, <2>4 DEF StuckIn
<1>11. ASSUME NEW window, NEW r \in Lasting(m, window)', EndedBy(r, from - 1)'
       PROVE  r \in Lasting(m, window) /\ EndedBy(r, from - 1) /\ Failed(r)' = Failed(r)
  <2>1. r \in DOMAIN runInfo'
    BY DEF Lasting, Since
  <2>2. r \in DOMAIN runInfo
    BY <1>7, <1>11, <2>1
  <2>3. from - 1 \in Int /\ from - 1 < clock
    BY <1>1, <1>4
  <2>4. QED BY <1>6, <1>9, <1>11, <2>2, <2>3
<1>12. ASSUME NEW window, NEW r \in Lasting(m, window), EndedBy(r, from - 1)
       PROVE  r \in Lasting(m, window)' /\ EndedBy(r, from - 1)' /\ Failed(r)' = Failed(r)
  <2>1. from - 1 \in Int
    BY <1>1
  <2>2. QED BY <1>6, <1>9, <1>12, <2>1
<1>13. FailedIn(m)' = FailedIn(m)
  <2>1. FailedIn(m)' = {r \in Lasting(m, FailWindow)' : EndedBy(r, from - 1)' /\ Failed(r)'}
    BY <1>3 DEF FailedIn
  <2>2. FailedIn(m) = {r \in Lasting(m, FailWindow) : EndedBy(r, from - 1) /\ Failed(r)}
    BY <1>1 DEF FailedIn
  <2>3. QED BY <1>11, <1>12, <2>1, <2>2
<1>14. CostlyIn(m)' = CostlyIn(m)
  <2>1. CostlyIn(m)' = {r \in Lasting(m, SpendWindow)' : EndedBy(r, from - 1)'}
    BY <1>3 DEF CostlyIn
  <2>2. CostlyIn(m) = {r \in Lasting(m, SpendWindow) : EndedBy(r, from - 1)}
    BY <1>1 DEF CostlyIn
  <2>3. QED BY <1>11, <1>12, <2>1, <2>2
<1>15. OthersIn(m) \subseteq OthersIn(m)'
  <2> SUFFICES ASSUME NEW r \in OthersIn(m) PROVE r \in OthersIn(m)'
    OBVIOUS
  <2>1. /\ r \in DOMAIN runInfo /\ runInfo[r].started >= from - FailWindow
        /\ EndedBy(r, to) /\ ~Failed(r)
    BY <1>1, <1>2 DEF OthersIn, Since
  <2>2. /\ r \in DOMAIN runInfo' /\ runInfo'[r].started >= from - FailWindow
        /\ EndedBy(r, to)' /\ ~Failed(r)'
    BY <1>2, <1>6, <1>8, <2>1
  <2>3. QED BY <1>3, <2>2 DEF OthersIn, Since
<1>16. StuckIn(m)' # {} => Found("run.stuck", from, to)'
  BY <1>1, <1>2, <1>10, FoundGrows DEF FoundInMinute
<1>17. RunCost * Cardinality(CostlyIn(m)') >= SpendLimit => Found("cost.spike", from, to)'
  BY <1>1, <1>2, <1>14, FoundGrows DEF FoundInMinute
<1>18. ASSUME 100 * Cardinality(FailedIn(m)') > FailAbove * Cardinality(FailedIn(m)' \cup OthersIn(m)')
       PROVE  Found("failure.rate", from, to)'
  <2>1. IsFiniteSet(FailedIn(m)') /\ IsFiniteSet(OthersIn(m)') /\ IsFiniteSet(OthersIn(m))
    <3>1. FailedIn(m) \subseteq DOMAIN runInfo /\ OthersIn(m) \subseteq DOMAIN runInfo
      BY DEF FailedIn, OthersIn, Lasting, Since
    <3>2. OthersIn(m)' \subseteq DOMAIN runInfo'
      BY DEF OthersIn, Since
    <3>3. IsFiniteSet(OthersIn(m)')
      <4>1. runInfo' \in Seq(RunInfo)
        BY DEF RunsAreSound
      <4>2. Len(runInfo') \in Nat /\ DOMAIN runInfo' = 1 .. Len(runInfo')
        BY <4>1
      <4>3. IsFiniteSet(DOMAIN runInfo')
        BY <4>2, FS_Interval
      <4>4. QED BY <3>2, <4>3, FS_Subset
    <3>4. IsFiniteSet(FailedIn(m)) /\ IsFiniteSet(OthersIn(m))
      BY <3>1, RunsAreFinite DEF RunsAreSound
    <3>5. QED BY <1>13, <3>3, <3>4
  <2>2. FailedIn(m) \cap OthersIn(m) = {} /\ FailedIn(m)' \cap OthersIn(m)' = {}
    BY DEF FailedIn, OthersIn
  <2>3. 100 * Cardinality(FailedIn(m)) > FailAbove * Cardinality(FailedIn(m) \cup OthersIn(m))
    <3>1. PICK F : F = FailedIn(m)
      OBVIOUS
    <3>2. PICK O : O = OthersIn(m)
      OBVIOUS
    <3>3. PICK P : P = OthersIn(m)'
      OBVIOUS
    <3>4. /\ IsFiniteSet(F) /\ IsFiniteSet(O) /\ IsFiniteSet(P) /\ O \subseteq P
          /\ F \cap O = {} /\ F \cap P = {}
          /\ 100 * Cardinality(F) > FailAbove * Cardinality(F \cup P)
      BY <1>13, <1>15, <1>18, <2>1, <2>2, <3>1, <3>2, <3>3
    <3>5. 100 * Cardinality(F) > FailAbove * Cardinality(F \cup O)
      BY <3>4, ShareOfMore
    <3>6. QED BY <3>1, <3>2, <3>5
  <2>4. QED BY <1>1, <1>2, <2>3, FoundGrows DEF FoundInMinute
<1>19. QED BY <1>3, <1>16, <1>17, <1>18 DEF FoundInMinute
\* The cause of what was found does not go away.
LEMMA CauseStays ==
  ASSUME RunsAreSound, RunsAreSound', RunsMoveOn,
         NEW f, f.ts \in Nat, f.ts <= clock, FoundForCause(f)
  PROVE  FoundForCause(f)'
<1>1. clock \in Nat /\ StuckFor \in Nat
  BY ObserverAssumption DEF RunsAreSound
<1>2. ASSUME NEW r \in DOMAIN runInfo
      PROVE  /\ r \in DOMAIN runInfo' /\ runInfo'[r].started = runInfo[r].started
             /\ \A t \in Int : EndedBy(r, t) => EndedBy(r, t)' /\ Failed(r)' = Failed(r)
             /\ \A t \in Int : t < clock /\ EndedBy(r, t)' => EndedBy(r, t)
  <2>1. CASE runInfo[r].finished # {}
    BY <2>1 DEF RunsMoveOn, EndedBy, Failed
  <2>2. CASE runInfo[r].finished = {}
    <3>1. runInfo'[r].finished \in {{}, {clock}} /\ \A t : ~EndedBy(r, t)
      BY <2>2 DEF RunsMoveOn, EndedBy
    <3>2. \A t \in Int : EndedBy(r, t)' => clock <= t
      BY <1>1, <3>1 DEF EndedBy
    <3>3. QED BY <1>1, <3>1, <3>2 DEF RunsMoveOn
  <2>3. QED BY <2>1, <2>2
<1>3. CASE f.kind = "run.stuck"
  <2>1. PICK r \in DOMAIN runInfo : runInfo[r].started + StuckFor < f.ts /\ ~EndedBy(r, f.ts - 1)
    BY <1>3 DEF FoundForCause
  <2>2. f.ts - 1 \in Int /\ f.ts - 1 < clock
    BY <1>1
  <2>3. ~EndedBy(r, f.ts - 1)' /\ r \in DOMAIN runInfo' /\ runInfo'[r].started + StuckFor < f.ts
    BY <1>2, <2>1, <2>2
  <2>4. QED BY <1>3, <2>3 DEF FoundForCause
<1>4. CASE f.kind = "failure.rate"
  <2>1. PICK r \in DOMAIN runInfo : EndedBy(r, f.ts) /\ Failed(r)
    BY <1>4 DEF FoundForCause
  <2>2. f.ts \in Int
    OBVIOUS
  <2>3. r \in DOMAIN runInfo' /\ EndedBy(r, f.ts)' /\ Failed(r)'
    BY <1>2, <2>1, <2>2
  <2>4. QED BY <1>4, <2>3 DEF FoundForCause
<1>5. CASE f.kind = "cost.spike"
  <2>1. PICK C : C = {r \in DOMAIN runInfo : EndedBy(r, f.ts)}
    OBVIOUS
  <2>2. PICK D : D = {r \in DOMAIN runInfo' : EndedBy(r, f.ts)'}
    OBVIOUS
  <2>3. C \subseteq D
    <3>1. f.ts \in Int
      OBVIOUS
    <3>2. QED BY <1>2, <2>1, <2>2, <3>1
  <2>4. IsFiniteSet(D)
    <3>1. runInfo' \in Seq(RunInfo) /\ D \subseteq DOMAIN runInfo'
      BY <2>2 DEF RunsAreSound
    <3>2. Len(runInfo') \in Nat /\ DOMAIN runInfo' = 1 .. Len(runInfo')
      BY <3>1
    <3>3. IsFiniteSet(DOMAIN runInfo')
      BY <3>2, FS_Interval
    <3>4. QED BY <3>1, <3>3, FS_Subset
  <2>5. RunCost * Cardinality(C) >= SpendLimit
    BY <1>5, <2>1 DEF FoundForCause
  <2>6. RunCost * Cardinality(D) >= SpendLimit
    BY <2>3, <2>4, <2>5, MoreCostsMore
  <2>7. QED BY <1>5, <2>2, <2>6 DEF FoundForCause
<1>6. CASE f.kind \notin {"run.stuck", "failure.rate", "cost.spike"}
  BY <1>6 DEF FoundForCause
<1>7. QED BY <1>3, <1>4, <1>5, <1>6
----------------------------------------------------------------------------
\* What a reading now says of a run
LEMMA ReadingIs ==
  ASSUME RunsAreSound, NEW r \in DOMAIN runInfo
  PROVE  /\ runInfo[r].started \in Nat /\ clock \in Nat
         /\ runInfo[r].finished # {} <=> EndedBy(r, clock)
         /\ runInfo[r].finished = {} <=> runInfo[r].status = "running"
         /\ \A t \in Int : EndedBy(r, t) => EndedBy(r, clock)
         /\ \A t \in Int : t >= clock /\ EndedBy(r, clock) => EndedBy(r, t)
<1>1. runInfo[r] \in RunInfo /\ clock \in Nat
  BY DEF RunsAreSound
<1>2. CASE runInfo[r].status = "running"
  <2>1. runInfo[r].finished = {}
    BY <1>2 DEF RunsAreSound
  <2>2. QED BY <1>1, <1>2, <2>1 DEF EndedBy, RunInfo
<1>3. CASE runInfo[r].status # "running"
  <2>1. PICK e \in Nat : e <= clock /\ runInfo[r].finished = {e}
    BY <1>3 DEF RunsAreSound
  <2>2. \A t \in Int : EndedBy(r, t) <=> e <= t
    BY <2>1 DEF EndedBy
  <2>3. QED BY <1>1, <1>3, <2>1, <2>2 DEF RunInfo
<1>4. QED BY <1>2, <1>3

\* A reading finds what lasts through the minute it falls in.
LEMMA ReadingFinds ==
  ASSUME RunsAreSound, Poll, NEW m \in Nat, m = MinuteOf(clock)
  PROVE  FoundInMinute(m)'
<1>1. PICK from \in Nat : from = StartOf(m)
  BY SpanIs
<1>2. PICK to \in Nat : to = EndOf(m)
  BY SpanIs
<1>3. PICK t \in Nat : t = clock
  BY DEF RunsAreSound
<1>4. from <= t /\ t <= to
  BY <1>1, <1>2, <1>3, SpanIs
<1>5. StartOf(m)' = from /\ EndOf(m)' = to
  BY <1>1, <1>2 DEF StartOf, EndOf
<1>6. runInfo' = runInfo /\ findings' = findings \cup Evaluate(t)
  BY <1>3 DEF Poll
<1>7. {FailWindow, SpendWindow, StuckFor, Lookback} \subseteq Nat
  BY ObserverAssumption
<1>8. ASSUME NEW r \in DOMAIN runInfo
      PROVE  /\ runInfo[r].started \in Nat
             /\ runInfo[r].finished # {} <=> EndedBy(r, t)
             /\ runInfo[r].finished = {} <=> runInfo[r].status = "running"
             /\ EndedBy(r, t) => EndedBy(r, to)
             /\ EndedBy(r, from - 1) => EndedBy(r, t)
  <2>1. to \in Int /\ from - 1 \in Int
    OBVIOUS
  <2>2. QED BY <1>3, <1>4, <2>1, ReadingIs
<1>9. ASSUME NEW kind, [kind |-> kind, ts |-> t] \in Evaluate(t)
      PROVE  Found(kind, from, to)'
  <2>1. [kind |-> kind, ts |-> t] \in findings'
    BY <1>6, <1>9
  <2>2. t \in from .. to
    BY <1>4
  <2>3. QED BY <2>1, <2>2 DEF Found
<1>10. ASSUME NEW window \in Nat, NEW r \in Lasting(m, window)
       PROVE  r \in DOMAIN runInfo /\ r \in RunsSince(t, window) /\ r \in Context(t)
  <2>1. /\ r \in DOMAIN runInfo /\ runInfo[r].started >= to - Lookback
        /\ runInfo[r].started >= to - window
    BY <1>2 DEF Lasting, Since
  <2>2. runInfo[r].started >= t - Lookback /\ runInfo[r].started >= t - window
    BY <1>4, <1>7, <1>8, <2>1
  <2>3. QED BY <2>1, <2>2 DEF RunsSince, Context, Since
<1>11. UNCHANGED <<StuckIn(m), FailedIn(m), CostlyIn(m), OthersIn(m)>>
  <2>1. StartOf(m)' = StartOf(m) /\ EndOf(m)' = EndOf(m)
    BY DEF StartOf, EndOf
  <2>2. QED BY <1>6, <2>1 DEF StuckIn, FailedIn, CostlyIn, OthersIn, Lasting, Since, EndedBy, Failed
<1>12. ASSUME StuckIn(m) # {} PROVE Found("run.stuck", from, to)'
  <2>1. PICK r \in Lasting(m, Lookback) : runInfo[r].started + StuckFor < from /\ ~EndedBy(r, to)
    BY <1>1, <1>2, <1>12 DEF StuckIn
  <2>2. r \in DOMAIN runInfo /\ r \in Context(t)
    BY <1>7, <1>10
  <2>3. runInfo[r].status = "running" /\ runInfo[r].finished = {} /\ t - runInfo[r].started > StuckFor
    BY <1>4, <1>7, <1>8, <2>1, <2>2
  <2>4. StuckRuns(t) # {}
    BY <2>2, <2>3 DEF StuckRuns
  <2>5. [kind |-> "run.stuck", ts |-> t] \in Evaluate(t)
    BY <2>4 DEF Evaluate, StuckFinding
  <2>6. QED BY <1>9, <2>5
<1>13. ASSUME RunCost * Cardinality(CostlyIn(m)) >= SpendLimit
       PROVE  Found("cost.spike", from, to)'
  <2>1. PICK C : C = CostlyIn(m)
    OBVIOUS
  <2>2. PICK S : S = {r \in RunsSince(t, SpendWindow) : runInfo[r].finished # {}}
    OBVIOUS
  <2>3. C \subseteq S
    <3> SUFFICES ASSUME NEW r \in CostlyIn(m) PROVE r \in S
      BY <2>1
    <3>1. r \in Lasting(m, SpendWindow) /\ EndedBy(r, from - 1)
      BY <1>1 DEF CostlyIn
    <3>2. r \in DOMAIN runInfo /\ r \in RunsSince(t, SpendWindow)
      BY <1>7, <1>10, <3>1
    <3>3. QED BY <1>8, <2>2, <3>1, <3>2
  <2>4. IsFiniteSet(S)
    <3>1. S \subseteq DOMAIN runInfo
      BY <2>2 DEF RunsSince, Context, Since
    <3>2. QED BY <3>1, RunsAreFinite DEF RunsAreSound
  <2>5. RunCost * Cardinality(S) >= SpendLimit
    BY <1>13, <2>1, <2>3, <2>4, MoreCostsMore
  <2>6. CostSpikeFires(t)
    BY <2>2, <2>5 DEF CostSpikeFires
  <2>7. [kind |-> "cost.spike", ts |-> t] \in Evaluate(t)
    BY <2>6 DEF Evaluate
  <2>8. QED BY <1>9, <2>7
<1>14. ASSUME 100 * Cardinality(FailedIn(m)) > FailAbove * Cardinality(FailedIn(m) \cup OthersIn(m))
       PROVE  Found("failure.rate", from, to)'
  <2>1. PICK F : F = FailedIn(m)
    OBVIOUS
  <2>2. PICK O : O = OthersIn(m)
    OBVIOUS
  <2>3. PICK E : E = {r \in RunsSince(t, FailWindow) : runInfo[r].finished # {}}
    OBVIOUS
  <2>4. PICK S : S = {r \in E : runInfo[r].status = "failed"}
    OBVIOUS
  <2>5. /\ F \subseteq DOMAIN runInfo /\ O \subseteq DOMAIN runInfo /\ E \subseteq DOMAIN runInfo
        /\ F \cap O = {}
    BY <2>1, <2>2, <2>3 DEF FailedIn, OthersIn, Lasting, RunsSince, Context, Since
  <2>6. F \subseteq S
    <3> SUFFICES ASSUME NEW r \in FailedIn(m) PROVE r \in S
      BY <2>1
    <3>1. r \in Lasting(m, FailWindow) /\ EndedBy(r, from - 1) /\ Failed(r)
      BY <1>1 DEF FailedIn
    <3>2. r \in DOMAIN runInfo /\ r \in RunsSince(t, FailWindow)
      BY <1>7, <1>10, <3>1
    <3>3. QED BY <1>8, <2>3, <2>4, <3>1, <3>2 DEF Failed
  <2>7. E \ S \subseteq O
    <3> SUFFICES ASSUME NEW r \in E, runInfo[r].status # "failed" PROVE r \in OthersIn(m)
      BY <2>2, <2>4
    <3>1. r \in DOMAIN runInfo /\ runInfo[r].started >= t - FailWindow /\ runInfo[r].finished # {}
      BY <2>3 DEF RunsSince, Context, Since
    <3>2. runInfo[r].started >= from - FailWindow
      BY <1>4, <1>7, <1>8, <3>1
    <3>3. EndedBy(r, to) /\ ~Failed(r)
      BY <1>8, <3>1 DEF Failed
    <3>4. QED BY <1>1, <1>2, <3>1, <3>2, <3>3 DEF OthersIn, Since
  <2>8. S \subseteq E /\ S \cup (E \ S) = E
    BY <2>4
  <2>9. IsFiniteSet(S) /\ IsFiniteSet(O) /\ IsFiniteSet(E \ S) /\ IsFiniteSet(F)
    <3>1. S \subseteq DOMAIN runInfo /\ E \ S \subseteq DOMAIN runInfo
      BY <2>5, <2>8
    <3>2. QED BY <2>5, <3>1, RunsAreFinite DEF RunsAreSound
  <2>10. 100 * Cardinality(F) > FailAbove * Cardinality(F \cup O)
    BY <1>14, <2>1, <2>2
  <2>11. 100 * Cardinality(S) > FailAbove * Cardinality(S \cup (E \ S))
    <3>1. S \cap (E \ S) = {}
      OBVIOUS
    <3>2. QED BY <2>5, <2>6, <2>7, <2>9, <2>10, <3>1, ShareOfMore
  <2>12. 100 * Cardinality(S) > FailAbove * Cardinality(E)
    BY <2>8, <2>11
  <2>13. E # {}
    <3>1. ASSUME F = {} PROVE FALSE
      <4>1. Cardinality(F) = 0 /\ Cardinality(F \cup O) \in Nat
        BY <2>9, <3>1, FS_EmptySet, FS_CardinalityType
      <4>2. FailAbove * Cardinality(F \cup O) \in Nat
        BY <4>1, ObserverAssumption
      <4>3. QED BY <2>10, <4>1, <4>2
    <3>2. QED BY <2>6, <2>8, <3>1
  <2>14. FailureRateFires(t)
    BY <2>3, <2>4, <2>12, <2>13 DEF FailureRateFires
  <2>15. [kind |-> "failure.rate", ts |-> t] \in Evaluate(t)
    BY <2>14 DEF Evaluate
  <2>16. QED BY <1>9, <2>15
<1>15. QED
  BY <1>5, <1>11, <1>12, <1>13, <1>14 DEF FoundInMinute
\* What a reading finds is there.
LEMMA ReadingIsTrue ==
  ASSUME RunsAreSound, NEW f \in Evaluate(clock)
  PROVE  f.ts = clock /\ FoundForCause(f)
<1>1. PICK t \in Nat : t = clock
  BY DEF RunsAreSound
<1>2. f \in Evaluate(t)
  BY <1>1
<1>3. \A window, r : r \in RunsSince(t, window) => r \in DOMAIN runInfo
  BY DEF RunsSince, Context, Since
<1>4. CASE FailureRateFires(t) /\ f = [kind |-> "failure.rate", ts |-> t]
  <2>1. PICK E : E = {r \in RunsSince(t, FailWindow) : runInfo[r].finished # {}}
    OBVIOUS
  <2>2. PICK S : S = {r \in E : runInfo[r].status = "failed"}
    OBVIOUS
  <2>3. 100 * Cardinality(S) > FailAbove * Cardinality(E)
    BY <1>4, <2>1, <2>2 DEF FailureRateFires
  <2>4. E \subseteq DOMAIN runInfo
    BY <1>3, <2>1
  <2>5. Cardinality(E) \in Nat
    BY <2>4, RunsAreFinite DEF RunsAreSound
  <2>6. FailAbove * Cardinality(E) \in Nat
    BY <2>5, ObserverAssumption
  <2>7. S # {}
    BY <2>3, <2>6, FS_EmptySet
  <2>8. PICK r \in E : runInfo[r].status = "failed"
    BY <2>2, <2>7
  <2>9. r \in DOMAIN runInfo /\ EndedBy(r, t)
    BY <1>1, <2>1, <2>4, ReadingIs
  <2>10. QED BY <1>1, <1>4, <2>8, <2>9 DEF FoundForCause, Failed
<1>5. CASE CostSpikeFires(t) /\ f = [kind |-> "cost.spike", ts |-> t]
  <2>1. PICK C : C = {r \in RunsSince(t, SpendWindow) : runInfo[r].finished # {}}
    OBVIOUS
  <2>2. PICK D : D = {r \in DOMAIN runInfo : EndedBy(r, t)}
    OBVIOUS
  <2>3. C \subseteq D
    BY <1>1, <1>3, <2>1, <2>2, ReadingIs
  <2>4. IsFiniteSet(D)
    BY <2>2, RunsAreFinite DEF RunsAreSound
  <2>5. RunCost * Cardinality(C) >= SpendLimit
    BY <1>5, <2>1 DEF CostSpikeFires
  <2>6. RunCost * Cardinality(D) >= SpendLimit
    BY <2>3, <2>4, <2>5, MoreCostsMore
  <2>7. QED BY <1>1, <1>5, <2>2, <2>6 DEF FoundForCause
<1>6. CASE StuckRuns(t) # {} /\ f = [kind |-> "run.stuck", ts |-> t]
  <2>1. PICK r \in Context(t) :
           runInfo[r].finished = {} /\ t - runInfo[r].started > StuckFor
    BY <1>6 DEF StuckRuns
  <2>2. r \in DOMAIN runInfo /\ StuckFor \in Nat
    BY <2>1, ObserverAssumption DEF Context, Since
  <2>3. runInfo[r].started + StuckFor < t /\ ~EndedBy(r, t - 1)
    BY <1>1, <2>1, <2>2, ReadingIs DEF EndedBy
  <2>4. QED BY <1>1, <1>6, <2>2, <2>3 DEF FoundForCause
<1>7. QED BY <1>2, <1>4, <1>5, <1>6 DEF Evaluate, StuckFinding
----------------------------------------------------------------------------
LEMMA RunBeginsStep ==
  ASSUME RunsAreSound, RunBegins
  PROVE  RunsAreSound' /\ RunsMoveOn
<1>1. PICK run : run = [status |-> "running", started |-> clock, finished |-> {}]
  OBVIOUS
<1>2. run \in RunInfo /\ run.started = clock /\ run.finished = {} /\ run.status = "running"
  BY <1>1 DEF RunInfo, RunsAreSound
<1>3. runInfo \in Seq(RunInfo) /\ clock \in Nat /\ clock' = clock
  BY DEF RunsAreSound, RunBegins, cronVars
<1>4. runInfo' = Append(runInfo, run)
  BY <1>1 DEF RunBegins
<1>5. PICK new \in Nat : new = Len(runInfo) + 1
  BY <1>3
<1>6. /\ runInfo' \in Seq(RunInfo) /\ DOMAIN runInfo = 1 .. Len(runInfo)
      /\ DOMAIN runInfo' = DOMAIN runInfo \cup {new} /\ new \notin DOMAIN runInfo
      /\ runInfo'[new] = run /\ \A r \in DOMAIN runInfo : runInfo'[r] = runInfo[r]
  BY <1>2, <1>3, <1>4, <1>5, AppendProperties
<1>7. RunsMoveOn
  BY <1>2, <1>6 DEF RunsMoveOn
<1>8. ASSUME NEW r \in DOMAIN runInfo'
      PROVE  /\ runInfo'[r].started <= clock
             /\ IF runInfo'[r].status = "running" THEN runInfo'[r].finished = {}
                ELSE \E e \in Nat : e <= clock /\ runInfo'[r].finished = {e}
  <2>1. CASE r = new
    BY <1>2, <1>3, <1>6, <2>1
  <2>2. CASE r \in DOMAIN runInfo
    BY <1>6, <2>2 DEF RunsAreSound
  <2>3. QED BY <1>6, <2>1, <2>2
<1>9. QED BY <1>3, <1>6, <1>7, <1>8 DEF RunsAreSound

LEMMA RunEndsStep ==
  ASSUME RunsAreSound, NEW at \in DOMAIN runInfo, NEW status \in {"done", "failed"},
         RunEndsAs(at, status)
  PROVE  RunsAreSound' /\ RunsMoveOn
<1>1. runInfo \in Seq(RunInfo) /\ clock \in Nat /\ clock' = clock
  BY DEF RunsAreSound, RunEndsAs, cronVars
<1>2. runInfo[at] \in RunInfo /\ runInfo[at].started \in Nat /\ runInfo[at].started <= clock
  <2>1. runInfo[at] \in RunInfo
    BY <1>1
  <2>2. QED BY <2>1 DEF RunInfo, RunsAreSound
<1>3. PICK run : run = [runInfo[at] EXCEPT !.status = status, !.finished = {clock}]
  OBVIOUS
<1>4. /\ run \in RunInfo /\ run.status = status /\ run.finished = {clock}
      /\ run.started = runInfo[at].started
  BY <1>1, <1>2, <1>3 DEF RunInfo
<1>5. runInfo' = [runInfo EXCEPT ![at] = run]
  BY <1>3 DEF RunEndsAs
<1>6. /\ DOMAIN runInfo' = DOMAIN runInfo /\ runInfo'[at] = run
      /\ \A r \in DOMAIN runInfo : r # at => runInfo'[r] = runInfo[r]
  BY <1>5
<1>7. runInfo' \in Seq(RunInfo)
  BY <1>1, <1>4, <1>5, ExceptSeq
<1>8. runInfo[at].finished = {}
  <2>1. runInfo[at].status = "running"
    BY DEF RunEndsAs
  <2>2. QED BY <2>1 DEF RunsAreSound
<1>9. RunsMoveOn
  <2>1. ASSUME NEW r \in DOMAIN runInfo
        PROVE  /\ r \in DOMAIN runInfo' /\ runInfo'[r].started = runInfo[r].started
               /\ runInfo[r].finished # {} => runInfo'[r] = runInfo[r]
               /\ runInfo[r].finished = {} => runInfo'[r].finished \in {{}, {clock}}
    BY <1>4, <1>6, <1>8
  <2>2. QED BY <1>6, <2>1 DEF RunsMoveOn
<1>10. ASSUME NEW r \in DOMAIN runInfo'
       PROVE  /\ runInfo'[r].started <= clock
              /\ IF runInfo'[r].status = "running" THEN runInfo'[r].finished = {}
                 ELSE \E e \in Nat : e <= clock /\ runInfo'[r].finished = {e}
  <2>1. CASE r = at
    BY <1>1, <1>2, <1>4, <1>6, <2>1
  <2>2. CASE r # at
    BY <1>6, <2>2 DEF RunsAreSound
  <2>3. QED BY <2>1, <2>2
<1>11. QED BY <1>1, <1>7, <1>9, <1>10 DEF RunsAreSound

\* The other steps leave the runs alone.
LEMMA RunsStand ==
  ASSUME RunsAreSound, runInfo' = runInfo, clock' \in Nat, clock <= clock'
  PROVE  RunsAreSound' /\ RunsMoveOn
<1>1. runInfo \in Seq(RunInfo) /\ clock \in Nat
  BY DEF RunsAreSound
<1>2. RunsMoveOn
  BY DEF RunsMoveOn
<1>3. ASSUME NEW r \in DOMAIN runInfo
      PROVE  /\ runInfo[r].started <= clock'
             /\ IF runInfo[r].status = "running" THEN runInfo[r].finished = {}
                ELSE \E e \in Nat : e <= clock' /\ runInfo[r].finished = {e}
  <2>1. runInfo[r].started <= clock'
    <3>1. runInfo[r].started <= clock /\ runInfo[r].started \in Nat
      BY ReadingIs DEF RunsAreSound
    <3>2. QED BY <1>1, <3>1
  <2>2. CASE runInfo[r].status = "running"
    BY <2>1, <2>2 DEF RunsAreSound
  <2>3. CASE runInfo[r].status # "running"
    <3>1. PICK e \in Nat : e <= clock /\ runInfo[r].finished = {e}
      BY <2>3 DEF RunsAreSound
    <3>2. e <= clock'
      BY <1>1, <3>1
    <3>3. QED BY <2>1, <2>3, <3>1, <3>2
  <2>4. QED BY <2>2, <2>3
<1>4. QED BY <1>1, <1>2, <1>3 DEF RunsAreSound

\* What a step is to the runs, to the loop and to the findings.
LEMMA StepIs ==
  ASSUME RunsAreSound, [ObserverNext]_observerVars
  PROVE  /\ RunsAreSound' /\ RunsMoveOn /\ clock <= clock' /\ schedule' = schedule
         /\ cronPc' # "raised" => cronPc # "raised" /\ [CronNext]_cronVars
         /\ Poll \/ UNCHANGED <<findings, fired>>
<1>1. clock \in Nat
  BY DEF RunsAreSound
<1>2. CASE RunBegins
  <2>1. UNCHANGED <<findings, cronVars>>
    BY <1>2 DEF RunBegins
  <2>2. QED BY <1>1, <1>2, <2>1, RunBeginsStep DEF cronVars
<1>3. CASE \E r \in DOMAIN runInfo, s \in {"done", "failed"} : RunEndsAs(r, s)
  <2>1. PICK r \in DOMAIN runInfo, s \in {"done", "failed"} : RunEndsAs(r, s)
    BY <1>3
  <2>2. UNCHANGED <<findings, cronVars>>
    BY <2>1 DEF RunEndsAs
  <2>3. QED BY <1>1, <2>1, <2>2, RunEndsStep DEF cronVars
<1>4. CASE Poll
  <2>1. /\ runInfo' = runInfo /\ clock' = clock /\ schedule' = schedule /\ cronPc = "check"
        /\ Fire
    BY <1>4 DEF Poll, Fire
  <2>2. QED BY <1>1, <1>4, <2>1, RunsStand DEF CronNext
<1>5. CASE JudgeDone
  <2>1. /\ runInfo' = runInfo /\ clock' = clock /\ schedule' = schedule /\ cronPc = "cycle"
        /\ CycleOver /\ UNCHANGED <<findings, fired>>
    BY <1>5 DEF JudgeDone, CycleOver
  <2>2. QED BY <1>1, <2>1, RunsStand DEF CronNext
<1>6. CASE JudgeRaises
  <2>1. /\ runInfo' = runInfo /\ clock' = clock /\ schedule' = schedule /\ cronPc' = "raised"
        /\ UNCHANGED <<findings, fired>>
    BY <1>6 DEF JudgeRaises
  <2>2. QED BY <1>1, <2>1, RunsStand
<1>7. CASE (NotDue \/ SleepOver) /\ UNCHANGED <<runInfo, findings>>
  <2>1. /\ runInfo' = runInfo /\ clock' = clock /\ schedule' = schedule
        /\ cronPc \in {"check", "sleep"} /\ (NotDue \/ SleepOver)
        /\ UNCHANGED <<findings, fired>>
    BY <1>7 DEF NotDue, SleepOver
  <2>2. QED BY <1>1, <2>1, RunsStand DEF CronNext
<1>8. CASE Tick /\ UNCHANGED <<runInfo, findings>>
  <2>1. /\ runInfo' = runInfo /\ clock' = clock + 1 /\ schedule' = schedule
        /\ cronPc \in {"cycle", "sleep"} /\ Tick
        /\ UNCHANGED <<findings, fired>>
    BY <1>8 DEF Tick
  <2>2. clock' \in Nat /\ clock <= clock'
    BY <1>1, <2>1
  <2>3. QED BY <2>1, <2>2, RunsStand DEF CronNext
<1>9. CASE UNCHANGED observerVars
  <2>1. UNCHANGED <<runInfo, findings, cronVars>>
    BY <1>9 DEF observerVars
  <2>2. QED BY <1>1, <2>1, RunsStand DEF cronVars
<1>10. QED
  BY <1>2, <1>3, <1>4, <1>5, <1>6, <1>7, <1>8, <1>9 DEF ObserverNext
----------------------------------------------------------------------------
LEMMA ObserverInvInit == ObserverInit => ObserverInv
<1> SUFFICES ASSUME ObserverInit PROVE ObserverInv
  OBVIOUS
<1>1. CronInv
  BY CronInvInit DEF ObserverInit
<1>2. IsCron
  BY DEF ObserverInit, EveryMinute, IsCron
<1>3. /\ runInfo = <<>> /\ findings = {} /\ clock \in Nat
      /\ fired = [m \in Minutes |-> 0]
  BY <1>1 DEF ObserverInit, CronInit, CronInv
<1>4. RunsAreSound
  BY <1>3 DEF RunsAreSound
<1>5. QED BY <1>1, <1>2, <1>3, <1>4 DEF ObserverInv

LEMMA ObserverInvStep == ObserverInv /\ [ObserverNext]_observerVars => ObserverInv'
<1> SUFFICES ASSUME ObserverInv, [ObserverNext]_observerVars PROVE ObserverInv'
  OBVIOUS
<1>1. RunsAreSound /\ clock \in Nat
  BY DEF ObserverInv, RunsAreSound
<1>2. /\ RunsAreSound' /\ RunsMoveOn /\ clock <= clock' /\ schedule' = schedule
      /\ cronPc' # "raised" => cronPc # "raised" /\ [CronNext]_cronVars
      /\ Poll \/ UNCHANGED <<findings, fired>>
  BY <1>1, StepIs
<1>3. clock' \in Nat
  BY <1>2 DEF RunsAreSound
<1>4. findings \subseteq findings'
  BY <1>2 DEF Poll
<1>5. ASSUME NEW f \in findings' PROVE f.ts \in Nat /\ f.ts <= clock' /\ FoundForCause(f)'
  <2>1. f.ts \in Nat /\ f.ts <= clock /\ FoundForCause(f)
    <3>1. CASE f \in findings
      BY <3>1 DEF ObserverInv
    <3>2. CASE f \notin findings
      <4>1. f \in Evaluate(clock)
        BY <1>2, <3>2 DEF Poll
      <4>2. QED BY <1>1, <4>1, ReadingIsTrue
    <3>3. QED BY <3>1, <3>2
  <2>2. FoundForCause(f)'
    BY <1>1, <1>2, <2>1, CauseStays
  <2>3. QED BY <1>1, <1>2, <1>3, <2>1, <2>2
<1>6. ASSUME cronPc' # "raised"
      PROVE  CronInv' /\ IsCron' /\ \A m \in Minutes : fired'[m] = 1 => FoundInMinute(m)'
  <2>1. CronInv /\ IsCron /\ CronInv'
    BY <1>2, <1>6, CronInvStep DEF ObserverInv
  <2>2. IsCron'
    BY <1>2, <2>1 DEF IsCron
  <2>3. ASSUME NEW m \in Minutes, fired'[m] = 1 PROVE FoundInMinute(m)'
    <3>1. m \in Nat
      BY MinutesAre
    <3>2. CASE fired[m] = 1
      <4>1. m <= MinuteOf(now) /\ now \in Nat /\ now <= clock
        BY <2>1, <3>2 DEF CronInv
      <4>2. StartOf(m) <= clock
        <5>1. StartOf(m) <= now /\ StartOf(m) \in Nat
          BY <3>1, <4>1, SpanIs
        <5>2. QED BY <1>1, <4>1, <5>1
      <4>3. FoundInMinute(m)
        BY <1>2, <1>6, <3>2 DEF ObserverInv
      <4>4. QED BY <1>1, <1>2, <1>4, <3>1, <4>2, <4>3, FoundInMinuteStays
    <3>3. CASE fired[m] # 1
      <4>1. Poll /\ Fire
        BY <1>2, <2>3, <3>3 DEF Poll
      <4>2. fired' = [fired EXCEPT ![MinuteOf(clock)] = @ + 1] /\ fired \in [Minutes -> Nat]
        BY <2>1, <4>1 DEF Fire, CronInv
      <4>3. m = MinuteOf(clock)
        BY <2>3, <3>3, <4>2
      <4>4. QED BY <1>1, <3>1, <4>1, <4>3, ReadingFinds
    <3>4. QED BY <3>2, <3>3
  <2>4. QED BY <2>1, <2>2, <2>3
<1>7. QED BY <1>2, <1>5, <1>6 DEF ObserverInv

LEMMA ObserverInvFinds == ObserverInv => TroubleIsFound
<1> SUFFICES ASSUME ObserverInv PROVE TroubleIsFound
  OBVIOUS
<1>1. \A f \in findings : FoundForCause(f)
  BY DEF ObserverInv
<1>2. ASSUME cronPc # "raised", IsCron, Lost + MinSleep <= Minute, NEW m \in Scheduled \cap Past
      PROVE  FoundInMinute(m)
  <2>1. CronInv /\ m \in Minutes
    BY <1>2 DEF ObserverInv, Past
  <2>2. MinutesFire
    BY <2>1, CronInvFires
  <2>3. m \notin Missed
    BY <1>2, <2>2 DEF MinutesFire, ShortCyclesMissNothing, IsCron
  <2>4. fired[m] \in Nat /\ fired[m] # 0 /\ fired[m] <= 1
    BY <1>2, <2>1, <2>3 DEF Missed, CronInv
  <2>5. fired[m] = 1
    BY <2>4
  <2>6. QED BY <1>2, <2>1, <2>5 DEF ObserverInv
<1>3. QED BY <1>1, <1>2 DEF TroubleIsFound, IsCron

(* For every schedule of the runs and every threshold and window of the rules: *)
(* trouble that lasts through a scheduled minute is found in it while rounds   *)
(* are short and the judge does not raise, and what is found was there         *)
(* (watch_loop, Observer.evaluate, the rules of crawfish.observer).            *)
THEOREM TroubleStaysFound == ObserverSpec => []TroubleIsFound
<1>1. ObserverSpec => []ObserverInv
  BY ObserverInvInit, ObserverInvStep, PTL DEF ObserverSpec
<1>2. QED BY <1>1, ObserverInvFinds, PTL

(* RuntimeStack                                                             *)

StackFields ==
    {"mode", "lead", "routes", "agent", "second", "todo", "samples", "seen", "answer"}

StackTyped ==
    /\ DOMAIN stack = StackFields /\ stack.samples \in Seq(VoteKeys)
    /\ DOMAIN leaves = {"owed", "live", "billed"} /\ leaves.owed \in Nat
    /\ stackSpent \in Nat

\* An answer that passes the ceiling is the last there is.
StackSpends ==
    /\ stackPc # "breached" => stackSpent = leaves.owed /\ stackSpent <= StackLimit
    /\ stackSpent <= StackLimit + DearestLeaf

StackInv == StackTyped /\ StackSpends

LEMMA Dearest ==
  DearestLeaf \in Nat /\ \A cost \in LeafCosts : cost \in Nat /\ cost <= DearestLeaf
BY StackAssumption DEF DearestLeaf, Max

\* What becomes of an answer once it was charged
LEMMA AnswerTaken ==
  ASSUME StackInv, NEW cost \in LeafCosts, NEW key \in VoteKeys, NEW paid \in Nat,
         paid <= StackLimit, TakeAnswer(cost, key, paid)
  PROVE  /\ DOMAIN stack' = StackFields /\ stack'.samples \in Seq(VoteKeys)
         /\ stackSpent' = IF Samples THEN paid + cost ELSE paid
         /\ stackSpent' \in Nat /\ stackSpent' <= StackLimit + DearestLeaf
         /\ stackPc' # "breached" => stackSpent' <= StackLimit
<1>1. /\ DOMAIN stack = StackFields /\ stack.samples \in Seq(VoteKeys)
      /\ cost \in Nat /\ cost <= DearestLeaf /\ DearestLeaf \in Nat /\ StackLimit \in Nat
  BY Dearest, StackAssumption DEF StackInv, StackTyped
<1>2. CASE Samples
  <2>1. /\ stackSpent' = paid + cost
        /\ \/ paid + cost > StackLimit /\ stackPc' = "breached" /\ stack' = stack
           \/ /\ paid + cost <= StackLimit
              /\ stack' = [stack EXCEPT !.samples = Append(stack.samples, key), !.second = FALSE,
                                        !.seen = Max({stack.seen, cost})]
    BY <1>1, <1>2 DEF TakeAnswer
  <2>2. Append(stack.samples, key) \in Seq(VoteKeys)
    BY <1>1
  <2>3. DOMAIN stack' = StackFields /\ stack'.samples \in Seq(VoteKeys)
    BY <1>1, <2>1, <2>2 DEF StackFields
  <2>4. QED BY <1>1, <1>2, <2>1, <2>3
<1>3. CASE ~Samples
  <2>1. /\ stackSpent' = paid
        /\ stack' = [stack EXCEPT !.agent = stack.agent + 1, !.answer = key]
    BY <1>3 DEF TakeAnswer, AgentDone
  <2>2. DOMAIN stack' = StackFields /\ stack'.samples \in Seq(VoteKeys)
    BY <1>1, <2>1 DEF StackFields
  <2>3. QED BY <1>1, <1>3, <2>1, <2>2
<1>4. QED BY <1>2, <1>3

LEMMA StackStarts == StackInit => StackInv
<1> SUFFICES ASSUME StackInit PROVE StackInv
  OBVIOUS
<1>1. StackTyped
  BY DEF StackInit, StackTyped, StackFields
<1>2. stackSpent = 0 /\ leaves.owed = 0
  BY DEF StackInit
<1>3. QED BY <1>1, <1>2, Dearest, StackAssumption DEF StackInv, StackSpends

LEMMA StackKept == StackInv /\ [StackNext]_stackVars => StackInv'
<1> SUFFICES ASSUME StackInv, [StackNext]_stackVars PROVE StackInv'
  OBVIOUS
<1>1. /\ DOMAIN stack = StackFields /\ stack.samples \in Seq(VoteKeys)
      /\ DOMAIN leaves = {"owed", "live", "billed"} /\ leaves.owed \in Nat /\ stackSpent \in Nat
      /\ DearestLeaf \in Nat /\ StackLimit \in Nat
  BY Dearest, StackAssumption DEF StackInv, StackTyped
<1>2. ASSUME UNCHANGED <<stackSpent, leaves>>, stackPc # "breached", stackPc' # "breached",
             DOMAIN stack' = StackFields, stack'.samples \in Seq(VoteKeys)
      PROVE  StackInv'
  BY <1>2 DEF StackInv, StackTyped, StackSpends
<1>3. CASE UNCHANGED stackVars
  BY <1>3 DEF stackVars, StackInv, StackTyped, StackSpends
<1>4. CASE StackBegin \/ EnterLeaf \/ AskProvider \/ Failover \/ ProviderFails \/ Unwired
  <2>1. /\ UNCHANGED <<stackSpent, leaves>> /\ stackPc # "breached" /\ stackPc' # "breached"
        /\ \/ stack' = stack
           \/ \E m \in Modes, l \in BOOLEAN, routes \in BOOLEAN :
                 stack' = [stack EXCEPT !.mode = m, !.lead = l, !.routes = routes]
           \/ \E todo : stack' = [stack EXCEPT !.todo = todo]
    BY <1>4 DEF StackBegin, EnterLeaf, AskProvider, Failover, ProviderFails, Unwired, StackEnd,
                RaiseIfCancelled
  <2>2. DOMAIN stack' = StackFields /\ stack'.samples \in Seq(VoteKeys)
    BY <1>1, <2>1 DEF StackFields
  <2>3. QED BY <1>2, <2>1, <2>2
<1>5. CASE NextAgent
  <2>1. /\ UNCHANGED <<stackSpent, leaves>> /\ stackPc # "breached" /\ stackPc' # "breached"
        /\ \/ stack' = stack
           \/ stack' = [stack EXCEPT !.second = FALSE, !.samples = <<>>, !.seen = 0]
    BY <1>5 DEF NextAgent, StackEnd, RaiseIfCancelled
  <2>2. <<>> \in Seq(VoteKeys)
    OBVIOUS
  <2>3. DOMAIN stack' = StackFields /\ stack'.samples \in Seq(VoteKeys)
    BY <1>1, <2>1, <2>2 DEF StackFields
  <2>4. QED BY <1>2, <2>1, <2>3
<1>6. CASE NextSample \/ Vote \/ StackCancel
  <2>1. /\ UNCHANGED <<stackSpent, leaves>> /\ stackPc # "breached" /\ stackPc' # "breached"
        /\ \/ stack' = stack
           \/ \E how : stack' = [stack EXCEPT !.agent = stack.agent + 1, !.answer = how]
    BY <1>6 DEF NextSample, Vote, StackCancel, StackEnd, StackEnds, RaiseIfCancelled, AgentDone
  <2>2. DOMAIN stack' = StackFields /\ stack'.samples \in Seq(VoteKeys)
    BY <1>1, <2>1 DEF StackFields
  <2>3. QED BY <1>2, <2>1, <2>2
<1>7. CASE ProviderAnswers
  <2>1. stackSpent = leaves.owed /\ stackPc # "breached"
    BY <1>7 DEF ProviderAnswers, StackInv, StackSpends
  <2>2. PICK cost \in LeafCosts, key \in VoteKeys :
          \/ /\ stackSpent + cost > StackLimit
             /\ stackPc' = "breached" /\ stackSpent' = stackSpent + cost
             /\ BillAnswer(cost)
             /\ UNCHANGED stack
          \/ /\ stackSpent + cost <= StackLimit
             /\ TakeAnswer(cost, key, stackSpent + cost)
             /\ BillAnswer(IF Samples THEN 2 * cost ELSE cost)
          \/ /\ stackSpent + cost <= StackLimit
             /\ Escalate /\ stackSpent' = stackSpent + cost
             /\ BillAnswer(cost)
    BY <1>7 DEF ProviderAnswers, ChargeLeaf
  <2>3. cost \in Nat /\ cost <= DearestLeaf /\ stackSpent + cost \in Nat /\ stackSpent <= StackLimit
    BY <1>1, <2>1, Dearest DEF StackInv, StackSpends
  <2>4. CASE stackSpent + cost > StackLimit
    <3>1. /\ stackPc' = "breached" /\ stackSpent' = stackSpent + cost /\ stack' = stack
          /\ BillAnswer(cost)
      BY <1>1, <2>2, <2>3, <2>4
    <3>2. DOMAIN leaves' = {"owed", "live", "billed"} /\ leaves'.owed = leaves.owed + cost
      BY <3>1 DEF BillAnswer
    <3>3. QED BY <1>1, <2>3, <3>1, <3>2 DEF StackInv, StackTyped, StackSpends
  <2>5. CASE /\ TakeAnswer(cost, key, stackSpent + cost) /\ stackSpent + cost <= StackLimit
             /\ BillAnswer(IF Samples THEN 2 * cost ELSE cost)
    <3>1. /\ DOMAIN leaves' = {"owed", "live", "billed"}
          /\ leaves'.owed = leaves.owed + (IF Samples THEN 2 * cost ELSE cost)
      BY <2>5 DEF BillAnswer
    <3>2. /\ DOMAIN stack' = StackFields /\ stack'.samples \in Seq(VoteKeys)
          /\ stackSpent' = IF Samples THEN (stackSpent + cost) + cost ELSE stackSpent + cost
          /\ stackSpent' \in Nat /\ stackSpent' <= StackLimit + DearestLeaf
          /\ stackPc' # "breached" => stackSpent' <= StackLimit
      BY <2>3, <2>5, AnswerTaken
    <3>3. leaves'.owed \in Nat /\ stackSpent' = leaves'.owed
      BY <1>1, <2>1, <2>3, <3>1, <3>2
    <3>4. QED BY <3>1, <3>2, <3>3 DEF StackInv, StackTyped, StackSpends
  <2>6. CASE /\ stackSpent + cost <= StackLimit /\ Escalate /\ stackSpent' = stackSpent + cost
             /\ BillAnswer(cost)
    <3>1. DOMAIN leaves' = {"owed", "live", "billed"} /\ leaves'.owed = leaves.owed + cost
      BY <2>6 DEF BillAnswer
    <3>2. DOMAIN stack' = StackFields /\ stack'.samples \in Seq(VoteKeys)
      BY <1>1, <2>6 DEF Escalate, StackFields
    <3>3. QED BY <1>1, <2>1, <2>3, <2>6, <3>1, <3>2 DEF StackInv, StackTyped, StackSpends
  <2>7. QED BY <2>2, <2>4, <2>5, <2>6
<1>8. CASE SampleReplayed
  <2>1. stackSpent = leaves.owed /\ stackSpent <= StackLimit
    BY <1>8 DEF SampleReplayed, StackInv, StackSpends
  <2>2. PICK cost \in LeafCosts, key \in VoteKeys :
          leaves' = [leaves EXCEPT !.owed = leaves.owed + cost] /\ TakeAnswer(cost, key, stackSpent)
    BY <1>8 DEF SampleReplayed
  <2>3. Samples /\ cost \in Nat
    BY <1>8, Dearest DEF SampleReplayed, Samples
  <2>4. DOMAIN leaves' = {"owed", "live", "billed"} /\ leaves'.owed = leaves.owed + cost
    BY <1>1, <2>2
  <2>5. /\ DOMAIN stack' = StackFields /\ stack'.samples \in Seq(VoteKeys)
        /\ stackSpent' = stackSpent + cost
        /\ stackSpent' \in Nat /\ stackSpent' <= StackLimit + DearestLeaf
        /\ stackPc' # "breached" => stackSpent' <= StackLimit
    BY <1>1, <2>1, <2>2, <2>3, AnswerTaken
  <2>6. QED BY <1>1, <2>1, <2>3, <2>4, <2>5 DEF StackInv, StackTyped, StackSpends
<1>9. QED BY <1>3, <1>4, <1>5, <1>6, <1>7, <1>8 DEF StackNext

(* Whatever wraps a model call, fails over, stops early or is cancelled: until  *)
(* the ceiling is passed the budget knows of every answer, a call that returns *)
(* has kept to it, and none passes it by more than the dearest answer           *)
(* (CostBudget.charge under QuorumRuntime, EscalatingRuntime, ProviderRuntime). *)
THEOREM SpendStaysAccounted == StackSpec => []SpendAccountsForLeaves
<1>1. StackInv => SpendAccountsForLeaves
  BY DEF StackInv, StackSpends, SpendAccountsForLeaves
<1>2. QED BY <1>1, StackStarts, StackKept, PTL DEF StackSpec

----------------------------------------------------------------------------
(* Sums, products and the bands of a preview                                *)

\* A loop over 1 .. n, each round of which makes a number of what the last one left, has a
\* function from the rounds that have been made to what they left.
LEMMA LoopRuns ==
  ASSUME NEW n \in Nat, NEW a \in Nat, NEW G \in [(1 .. n) \X Nat -> Nat]
  PROVE  \E f \in [0 .. n -> Nat] : f[0] = a /\ \A k \in 1 .. n : f[k] = G[<<k, f[k - 1]>>]
<1> DEFINE Runs(m, f) == f[0] = a /\ \A k \in 1 .. m : f[k] = G[<<k, f[k - 1]>>]
           S == {m \in 0 .. n : ~ \E f \in [0 .. m -> Nat] : Runs(m, f)}
<1>1. SUFFICES S = {}
  <2>1. n \in 0 .. n
    OBVIOUS
  <2> HIDE DEF S
  <2>2. n \notin S
    BY <1>1
  <2>3. QED BY <2>1, <2>2 DEF S
<1>2. SUFFICES ASSUME S # {} PROVE FALSE
  OBVIOUS
<1>3. PICK m \in S : \A s \in S : m <= s
  <2>1. S \subseteq Nat
    OBVIOUS
  <2> HIDE DEF S
  <2>2. QED BY <1>2, <2>1, LeastThereIs
<1>4. m \in 0 .. n /\ ~ \E f \in [0 .. m -> Nat] : Runs(m, f)
  BY <1>3
<1>5. m # 0
  <2>1. [k \in 0 .. 0 |-> a] \in [0 .. 0 -> Nat] /\ Runs(0, [k \in 0 .. 0 |-> a])
    OBVIOUS
  <2>2. QED BY <1>4, <2>1
<1>6. m - 1 \in 0 .. n /\ m - 1 \notin S
  <2>1. m - 1 \in 0 .. n
    BY <1>4, <1>5
  <2> HIDE DEF S
  <2>2. ~(m <= m - 1)
    BY <1>4
  <2>3. QED BY <1>3, <2>1, <2>2
<1>7. PICK f \in [0 .. m - 1 -> Nat] : Runs(m - 1, f)
  BY <1>6
<1> DEFINE g == [k \in 0 .. m |-> IF k = m THEN G[<<m, f[m - 1]>>] ELSE f[k]]
<1>8. f[m - 1] \in Nat /\ m \in 1 .. n
  BY <1>4, <1>5, <1>7
<1>9. g \in [0 .. m -> Nat]
  BY <1>4, <1>7, <1>8
<1>10. Runs(m, g)
  <2>1. g[0] = a
    BY <1>4, <1>5, <1>7
  <2>2. ASSUME NEW k \in 1 .. m PROVE g[k] = G[<<k, g[k - 1]>>]
    <3>1. CASE k = m
      <4>1. g[m] = G[<<m, f[m - 1]>>] /\ g[m - 1] = f[m - 1]
        BY <1>8
      <4>2. QED BY <3>1, <4>1
    <3>2. CASE k # m
      <4>1. k \in 1 .. m - 1 /\ g[k] = f[k] /\ g[k - 1] = f[k - 1]
        BY <1>8, <3>2
      <4>2. QED BY <1>7, <4>1
    <3>3. QED BY <3>1, <3>2
  <2>3. QED BY <2>1, <2>2
<1>11. QED BY <1>4, <1>9, <1>10

\* A sum and a product of a list, by their partial ones.
LEMMA Totals ==
  ASSUME NEW n \in Nat, NEW s \in [1 .. n -> Nat]
  PROVE  \E f \in [0 .. n -> Nat] :
            Total(s) = f[n] /\ f[0] = 0 /\ \A k \in 1 .. n : f[k] = f[k - 1] + s[k]
<1> DEFINE G == [x \in (1 .. n) \X Nat |-> x[2] + s[x[1]]]
           Step(f) == [k \in 0 .. Len(s) |-> IF k = 0 THEN 0 ELSE f[k - 1] + s[k]]
           F == CHOOSE f : f = Step(f)
<1>1. s \in Seq(Nat) /\ Len(s) = n
  OBVIOUS
<1>2. G \in [(1 .. n) \X Nat -> Nat]
  <2>1. \A x \in (1 .. n) \X Nat : x[2] + s[x[1]] \in Nat
    <3> SUFFICES ASSUME NEW i \in 1 .. n, NEW j \in Nat PROVE j + s[i] \in Nat
      OBVIOUS
    <3>1. s[i] \in Nat
      OBVIOUS
    <3>2. QED BY <3>1
  <2>2. QED BY <2>1
<1>3. \A i \in 1 .. n, j \in Nat : G[<<i, j>>] = j + s[i]
  OBVIOUS
<1>4. PICK f \in [0 .. n -> Nat] : f[0] = 0 /\ \A k \in 1 .. n : f[k] = G[<<k, f[k - 1]>>]
  <2> HIDE DEF G
  <2> DEFINE first == 0
  <2>1. first \in Nat /\ G \in [(1 .. n) \X Nat -> Nat]
    BY <1>2
  <2> HIDE DEF first
  <2>2. \E f \in [0 .. n -> Nat] : f[0] = first /\ \A k \in 1 .. n : f[k] = G[<<k, f[k - 1]>>]
    BY <2>1, LoopRuns, Zenon
  <2>3. QED BY <2>2 DEF first
<1>5. \A k \in 1 .. n : f[k] = f[k - 1] + s[k]
  <2> HIDE DEF G
  <2> SUFFICES ASSUME NEW k \in 1 .. n PROVE f[k] = f[k - 1] + s[k]
    OBVIOUS
  <2>1. f[k - 1] \in Nat
    OBVIOUS
  <2>2. QED BY <1>3, <1>4, <2>1
<1> HIDE DEF G
<1>6. f = Step(f)
  <2>1. Step(f) = [k \in 0 .. n |-> IF k = 0 THEN 0 ELSE f[k - 1] + s[k]]
    BY <1>1
  <2>2. \A k \in 0 .. n : f[k] = IF k = 0 THEN 0 ELSE f[k - 1] + s[k]
    BY <1>4, <1>5
  <2>3. QED BY <1>4, <2>1, <2>2
<1>7. F = Step(F)
  <2> HIDE DEF Step
  <2>1. QED BY <1>6, Zenon
<1>8. Total(s) = F[n]
  BY <1>1 DEF Total
<1>9. F = [k \in 0 .. n |-> IF k = 0 THEN 0 ELSE F[k - 1] + s[k]]
  <2> HIDE DEF F
  <2>1. QED BY <1>1, <1>7
<1> HIDE DEF F
<1> DEFINE S == {k \in 0 .. n : F[k] \notin Nat}
<1>10. S = {}
  <2> SUFFICES ASSUME S # {} PROVE FALSE
    OBVIOUS
  <2>1. PICK m \in S : \A k \in S : m <= k
    <3>1. S \subseteq Nat
      OBVIOUS
    <3> HIDE DEF S
    <3>2. QED BY <3>1, LeastThereIs
  <2>2. m \in 0 .. n /\ F[m] \notin Nat
    OBVIOUS
  <2>3. m # 0
    BY <1>9, <2>2
  <2>4. m - 1 \in 0 .. n /\ m \in 1 .. n
    BY <2>2, <2>3
  <2>5. F[m - 1] \in Nat
    <3>1. ~(m <= m - 1)
      BY <2>2
    <3> HIDE DEF S
    <3>2. m - 1 \notin S
      BY <2>1, <3>1
    <3>3. QED BY <2>4, <3>2 DEF S
  <2>6. F[m] = F[m - 1] + s[m] /\ s[m] \in Nat
    BY <1>9, <2>2, <2>3, <2>4
  <2> HIDE DEF S
  <2>7. F[m - 1] + s[m] \in Nat
    BY <2>5, <2>6
  <2>8. QED BY <2>2, <2>6, <2>7
<1>11. F \in [0 .. n -> Nat]
  <2>1. \A k \in 0 .. n : F[k] \in Nat
    BY <1>10
  <2> HIDE DEF S
  <2>2. QED BY <1>9, <2>1
<1>12. F[0] = 0 /\ \A k \in 1 .. n : F[k] = F[k - 1] + s[k]
  BY <1>9
<1>13. QED BY <1>8, <1>11, <1>12

LEMMA Products ==
  ASSUME NEW n \in Nat, NEW s \in [1 .. n -> Nat]
  PROVE  \E f \in [0 .. n -> Nat] :
            Product(s) = f[n] /\ f[0] = 1 /\ \A k \in 1 .. n : f[k] = f[k - 1] * s[k]
<1> DEFINE G == [x \in (1 .. n) \X Nat |-> x[2] * s[x[1]]]
           Step(f) == [k \in 0 .. Len(s) |-> IF k = 0 THEN 1 ELSE f[k - 1] * s[k]]
           F == CHOOSE f : f = Step(f)
<1>1. s \in Seq(Nat) /\ Len(s) = n
  OBVIOUS
<1>2. G \in [(1 .. n) \X Nat -> Nat]
  <2>1. \A x \in (1 .. n) \X Nat : x[2] * s[x[1]] \in Nat
    <3> SUFFICES ASSUME NEW i \in 1 .. n, NEW j \in Nat PROVE j * s[i] \in Nat
      OBVIOUS
    <3>1. s[i] \in Nat
      OBVIOUS
    <3>2. QED BY <3>1
  <2>2. QED BY <2>1
<1>3. \A i \in 1 .. n, j \in Nat : G[<<i, j>>] = j * s[i]
  OBVIOUS
<1>4. PICK f \in [0 .. n -> Nat] : f[0] = 1 /\ \A k \in 1 .. n : f[k] = G[<<k, f[k - 1]>>]
  <2> HIDE DEF G
  <2> DEFINE first == 1
  <2>1. first \in Nat /\ G \in [(1 .. n) \X Nat -> Nat]
    BY <1>2
  <2> HIDE DEF first
  <2>2. \E f \in [0 .. n -> Nat] : f[0] = first /\ \A k \in 1 .. n : f[k] = G[<<k, f[k - 1]>>]
    BY <2>1, LoopRuns, Zenon
  <2>3. QED BY <2>2 DEF first
<1>5. \A k \in 1 .. n : f[k] = f[k - 1] * s[k]
  <2> HIDE DEF G
  <2> SUFFICES ASSUME NEW k \in 1 .. n PROVE f[k] = f[k - 1] * s[k]
    OBVIOUS
  <2>1. f[k - 1] \in Nat
    OBVIOUS
  <2>2. QED BY <1>3, <1>4, <2>1
<1> HIDE DEF G
<1>6. f = Step(f)
  <2>1. Step(f) = [k \in 0 .. n |-> IF k = 0 THEN 1 ELSE f[k - 1] * s[k]]
    BY <1>1
  <2>2. \A k \in 0 .. n : f[k] = IF k = 0 THEN 1 ELSE f[k - 1] * s[k]
    BY <1>4, <1>5
  <2>3. QED BY <1>4, <2>1, <2>2
<1>7. F = Step(F)
  <2> HIDE DEF Step
  <2>1. QED BY <1>6, Zenon
<1>8. Product(s) = F[n]
  BY <1>1 DEF Product
<1>9. F = [k \in 0 .. n |-> IF k = 0 THEN 1 ELSE F[k - 1] * s[k]]
  <2> HIDE DEF F
  <2>1. QED BY <1>1, <1>7
<1> HIDE DEF F
<1> DEFINE S == {k \in 0 .. n : F[k] \notin Nat}
<1>10. S = {}
  <2> SUFFICES ASSUME S # {} PROVE FALSE
    OBVIOUS
  <2>1. PICK m \in S : \A k \in S : m <= k
    <3>1. S \subseteq Nat
      OBVIOUS
    <3> HIDE DEF S
    <3>2. QED BY <3>1, LeastThereIs
  <2>2. m \in 0 .. n /\ F[m] \notin Nat
    OBVIOUS
  <2>3. m # 0
    BY <1>9, <2>2
  <2>4. m - 1 \in 0 .. n /\ m \in 1 .. n
    BY <2>2, <2>3
  <2>5. F[m - 1] \in Nat
    <3>1. ~(m <= m - 1)
      BY <2>2
    <3> HIDE DEF S
    <3>2. m - 1 \notin S
      BY <2>1, <3>1
    <3>3. QED BY <2>4, <3>2 DEF S
  <2>6. F[m] = F[m - 1] * s[m] /\ s[m] \in Nat
    BY <1>9, <2>2, <2>3, <2>4
  <2> HIDE DEF S
  <2>7. PICK x \in Nat, y \in Nat : x = F[m - 1] /\ y = s[m]
    BY <2>5, <2>6
  <2>8. x * y \in Nat
    OBVIOUS
  <2>9. QED BY <2>2, <2>6, <2>7, <2>8
<1>11. F \in [0 .. n -> Nat]
  <2>1. \A k \in 0 .. n : F[k] \in Nat
    BY <1>10
  <2> HIDE DEF S
  <2>2. QED BY <1>9, <2>1
<1>12. F[0] = 1 /\ \A k \in 1 .. n : F[k] = F[k - 1] * s[k]
  BY <1>9
<1>13. QED BY <1>8, <1>11, <1>12

\* What 0 has and each number has from the one before it, all of 0 .. n have.
LEMMA AllReached ==
  ASSUME NEW n \in Nat, NEW P, 0 \in P, \A k \in 1 .. n : k - 1 \in P => k \in P
  PROVE  \A k \in 0 .. n : k \in P
<1> DEFINE S == {k \in 0 .. n : k \notin P}
<1>1. SUFFICES ASSUME S # {} PROVE FALSE
  OBVIOUS
<1>2. PICK m \in S : \A k \in S : m <= k
  <2>1. S \subseteq Nat
    OBVIOUS
  <2> HIDE DEF S
  <2>2. QED BY <1>1, <2>1, LeastThereIs
<1>3. m \in 0 .. n /\ m \notin P
  OBVIOUS
<1>4. m \in 1 .. n
  BY <1>3
<1>5. m - 1 \in 0 .. n /\ ~(m <= m - 1)
  BY <1>4
<1>6. m - 1 \in P
  <2> HIDE DEF S
  <2>1. m - 1 \notin S
    BY <1>2, <1>5
  <2>2. QED BY <1>5, <2>1 DEF S
<1>7. QED BY <1>3, <1>4, <1>6

LEMMA TimesGrows ==
  ASSUME NEW a \in Nat, NEW b \in Nat, NEW c \in Nat, NEW d \in Nat, a <= b, c <= d
  PROVE  a * c \in Nat /\ a * c <= b * d
<1>1. a * c <= b * c
  <2>1. PICK e \in Nat : b = a + e
    <3>1. b - a \in Nat /\ b = a + (b - a)
      OBVIOUS
    <3>2. QED BY <3>1
  <2>2. b * c = a * c + e * c
    BY <2>1
  <2>3. e * c \in Nat /\ a * c \in Nat
    OBVIOUS
  <2>4. QED BY <2>2, <2>3
<1>2. b * c <= b * d
  <2>1. PICK e \in Nat : d = c + e
    <3>1. d - c \in Nat /\ d = c + (d - c)
      OBVIOUS
    <3>2. QED BY <3>1
  <2>2. b * d = b * c + b * e
    BY <2>1
  <2>3. b * e \in Nat /\ b * c \in Nat
    OBVIOUS
  <2>4. QED BY <2>2, <2>3
<1>3. a * c \in Nat /\ b * c \in Nat /\ b * d \in Nat
  OBVIOUS
<1>4. QED BY <1>1, <1>2, <1>3

\* What is due never falls as it adds up.
LEMMA SumsGrow ==
  ASSUME NEW n \in Nat, NEW u \in [1 .. n -> Nat], NEW f \in [0 .. n -> Nat],
         \A k \in 1 .. n : f[k] = f[k - 1] + u[k], NEW j \in 0 .. n
  PROVE  f[j] <= f[n]
<1> DEFINE P == {k \in 0 .. n : j <= k => f[j] <= f[k]}
<1>1. 0 \in P
  OBVIOUS
<1>2. ASSUME NEW k \in 1 .. n, k - 1 \in P PROVE k \in P
  <2>1. CASE j = k
    BY <2>1
  <2>2. CASE j # k
    <3>1. j <= k => f[j] <= f[k - 1]
      BY <1>2, <2>2
    <3>2. f[k] = f[k - 1] + u[k] /\ f[k] \in Nat /\ f[k - 1] \in Nat /\ u[k] \in Nat /\ f[j] \in Nat
      OBVIOUS
    <3>3. QED BY <3>1, <3>2
  <2>3. QED BY <2>1, <2>2
<1>3. n \in P
  <2>1. n \in 0 .. n
    OBVIOUS
  <2> HIDE DEF P
  <2>2. QED BY <1>1, <1>2, <2>1, AllReached
<1>4. QED BY <1>3

NoMore(amount, c, d, other) == amount * c <= d * other

AddsUp(n, u, f) ==
  /\ u \in [1 .. n -> Nat] /\ f \in [0 .. n -> Nat]
  /\ f[0] = 0 /\ \A k \in 1 .. n : f[k] = f[k - 1] + u[k]
Outweighs(n, u, c, d, v) ==
  v \in [1 .. n -> Nat] /\ \A k \in 1 .. n : NoMore(u[k], c, d, v[k])

\* A sum of amounts, each of which c times is no more than d times another's, is that too.
LEMMA TotalsScale ==
  ASSUME NEW n \in Nat, NEW u, NEW f, NEW v, NEW c \in Nat, NEW d \in Nat,
         AddsUp(n, u, f), Outweighs(n, u, c, d, v)
  PROVE  NoMore(f[n], c, d, Total(v)) /\ Total(v) \in Nat
<1> /\ u \in [1 .. n -> Nat] /\ f \in [0 .. n -> Nat] /\ v \in [1 .. n -> Nat]
    /\ f[0] = 0 /\ \A k \in 1 .. n : f[k] = f[k - 1] + u[k]
    /\ \A k \in 1 .. n : NoMore(u[k], c, d, v[k])
  BY DEF AddsUp, Outweighs
<1>1. PICK g \in [0 .. n -> Nat] :
         Total(v) = g[n] /\ g[0] = 0 /\ \A k \in 1 .. n : g[k] = g[k - 1] + v[k]
  BY Totals
<1> DEFINE P == {k \in 0 .. n : f[k] * c <= d * g[k]}
<1>2. 0 \in P
  <2>1. f[0] * c = 0 /\ d * g[0] = 0
    BY <1>1
  <2>2. QED BY <2>1
<1>3. ASSUME NEW k \in 1 .. n, k - 1 \in P PROVE k \in P
  <2>1. f[k] = f[k - 1] + u[k] /\ g[k] = g[k - 1] + v[k]
    BY <1>1
  <2>2. PICK f1 \in Nat, u1 \in Nat, g1 \in Nat, v1 \in Nat :
          f1 = f[k - 1] /\ u1 = u[k] /\ g1 = g[k - 1] /\ v1 = v[k]
    <3>1. k - 1 \in 0 .. n
      OBVIOUS
    <3>2. f[k - 1] \in Nat /\ u[k] \in Nat /\ g[k - 1] \in Nat /\ v[k] \in Nat
      BY <3>1, Zenon
    <3>3. QED BY <3>2, Zenon
  <2>3. f1 * c <= d * g1 /\ u1 * c <= d * v1
    BY <1>3, <2>2 DEF NoMore
  <2>4. (f1 + u1) * c = f1 * c + u1 * c /\ d * (g1 + v1) = d * g1 + d * v1
    OBVIOUS
  <2>5. f1 * c \in Nat /\ u1 * c \in Nat /\ d * g1 \in Nat /\ d * v1 \in Nat
    OBVIOUS
  <2>6. (f1 + u1) * c <= d * (g1 + v1)
    BY <2>3, <2>4, <2>5
  <2>7. QED BY <2>1, <2>2, <2>6
<1>4. n \in P
  <2>1. n \in 0 .. n
    OBVIOUS
  <2> HIDE DEF P
  <2>2. QED BY <1>2, <1>3, <2>1, AllReached
<1>5. QED BY <1>1, <1>4 DEF NoMore

LEMMA ProductsGrow ==
  ASSUME NEW n \in Nat, NEW s \in [1 .. n -> Nat], NEW t \in [1 .. n -> Nat],
         \A k \in 1 .. n : s[k] <= t[k]
  PROVE  Product(s) \in Nat /\ Product(t) \in Nat /\ Product(s) <= Product(t)
<1>1. PICK f \in [0 .. n -> Nat] :
         Product(s) = f[n] /\ f[0] = 1 /\ \A k \in 1 .. n : f[k] = f[k - 1] * s[k]
  BY Products
<1>2. PICK g \in [0 .. n -> Nat] :
         Product(t) = g[n] /\ g[0] = 1 /\ \A k \in 1 .. n : g[k] = g[k - 1] * t[k]
  BY Products
<1> DEFINE P == {k \in 0 .. n : f[k] <= g[k]}
<1>3. 0 \in P
  BY <1>1, <1>2
<1>4. ASSUME NEW k \in 1 .. n, k - 1 \in P PROVE k \in P
  <2>1. f[k] = f[k - 1] * s[k] /\ g[k] = g[k - 1] * t[k]
    BY <1>1, <1>2
  <2>2. /\ f[k - 1] \in Nat /\ s[k] \in Nat /\ g[k - 1] \in Nat /\ t[k] \in Nat
        /\ f[k - 1] <= g[k - 1] /\ s[k] <= t[k]
    BY <1>4
  <2>3. f[k - 1] * s[k] <= g[k - 1] * t[k]
    BY <2>2, TimesGrows
  <2>4. QED BY <2>1, <2>3
<1>5. n \in P
  <2>1. n \in 0 .. n
    OBVIOUS
  <2> HIDE DEF P
  <2>2. QED BY <1>3, <1>4, <2>1, AllReached
<1>6. QED BY <1>1, <1>2, <1>5

Spliced(n, m, s, t, u) ==
  /\ s \in [1 .. n -> Nat] /\ t \in [1 .. m -> Nat] /\ u \in [1 .. n + m -> Nat]
  /\ \A k \in 1 .. n : u[k] = s[k]
  /\ \A k \in 1 .. m : u[n + k] = t[k]

\* The product of two lists after one another
LEMMA ProductsCombine ==
  ASSUME NEW n \in Nat, NEW m \in Nat, NEW s, NEW t, NEW u, Spliced(n, m, s, t, u)
  PROVE  Product(u) = Product(s) * Product(t)
<1> /\ s \in [1 .. n -> Nat] /\ t \in [1 .. m -> Nat] /\ u \in [1 .. n + m -> Nat]
    /\ \A k \in 1 .. n : u[k] = s[k]
    /\ \A k \in 1 .. m : u[n + k] = t[k]
  BY DEF Spliced
<1>1. PICK f \in [0 .. n -> Nat] :
         Product(s) = f[n] /\ f[0] = 1 /\ \A k \in 1 .. n : f[k] = f[k - 1] * s[k]
  BY Products
<1>2. PICK g \in [0 .. m -> Nat] :
         Product(t) = g[m] /\ g[0] = 1 /\ \A k \in 1 .. m : g[k] = g[k - 1] * t[k]
  BY Products
<1>3. PICK h \in [0 .. n + m -> Nat] :
         Product(u) = h[n + m] /\ h[0] = 1 /\ \A k \in 1 .. n + m : h[k] = h[k - 1] * u[k]
  <2>1. PICK l \in Nat : l = n + m
    OBVIOUS
  <2>2. \E h \in [0 .. l -> Nat] :
           Product(u) = h[l] /\ h[0] = 1 /\ \A k \in 1 .. l : h[k] = h[k - 1] * u[k]
    BY <2>1, Products
  <2>3. QED BY <2>1, <2>2
<1> DEFINE P == {k \in 0 .. n : h[k] = f[k]}
           Q == {k \in 0 .. m : h[n + k] = f[n] * g[k]}
<1>4. 0 \in P
  BY <1>1, <1>3
<1>5. ASSUME NEW k \in 1 .. n, k - 1 \in P PROVE k \in P
  <2>1. k \in 1 .. n + m
    OBVIOUS
  <2>2. h[k] = h[k - 1] * u[k] /\ f[k] = f[k - 1] * s[k] /\ u[k] = s[k]
    BY <1>1, <1>3, <2>1
  <2>3. h[k - 1] = f[k - 1]
    BY <1>5
  <2>4. QED BY <2>2, <2>3
<1>6. h[n] = f[n]
  <2>1. n \in 0 .. n
    OBVIOUS
  <2>2. n \in P
    <3> HIDE DEF P
    <3>1. QED BY <1>4, <1>5, <2>1, AllReached
  <2>3. QED BY <2>2
<1>7. 0 \in Q
  <2>1. f[n] \in Nat /\ g[0] = 1 /\ n + 0 = n
    BY <1>2
  <2>2. f[n] * g[0] = f[n]
    BY <2>1
  <2>3. h[n + 0] = f[n]
    BY <1>6, <2>1
  <2>4. QED BY <2>2, <2>3
<1>8. ASSUME NEW k \in 1 .. m, k - 1 \in Q PROVE k \in Q
  <2>1. n + k \in 1 .. n + m /\ (n + k) - 1 = n + (k - 1)
    OBVIOUS
  <2>2. h[n + k] = h[n + (k - 1)] * u[n + k]
    BY <1>3, <2>1
  <2>3. g[k] = g[k - 1] * t[k] /\ u[n + k] = t[k] /\ h[n + (k - 1)] = f[n] * g[k - 1]
    BY <1>2, <1>8
  <2>4. PICK a \in Nat, b \in Nat, c \in Nat : a = f[n] /\ b = g[k - 1] /\ c = t[k]
    <3>1. f[n] \in Nat /\ g[k - 1] \in Nat /\ t[k] \in Nat
      OBVIOUS
    <3>2. QED BY <3>1
  <2>5. (a * b) * c = a * (b * c)
    OBVIOUS
  <2>6. QED BY <2>2, <2>3, <2>4, <2>5
<1>9. h[n + m] = f[n] * g[m]
  <2>1. m \in 0 .. m
    OBVIOUS
  <2>2. m \in Q
    <3> HIDE DEF Q
    <3>1. QED BY <1>7, <1>8, <2>1, AllReached
  <2>3. QED BY <2>2
<1>10. QED BY <1>1, <1>2, <1>3, <1>9

LEMMA LesserOf ==
  ASSUME NEW a \in Int, NEW b \in Int
  PROVE  Min({a, b}) \in {a, b} /\ Min({a, b}) <= a /\ Min({a, b}) <= b
<1>1. \E x \in {a, b} : \A y \in {a, b} : x <= y
  OBVIOUS
<1>2. QED BY <1>1 DEF Min

ShapeList(n, shapes) == DOMAIN shapes = 1 .. n /\ \A i \in 1 .. n : IsShape(shapes[i])
Dens(shapes) == [i \in DOMAIN shapes |-> 10 * shapes[i].den]
Worsts(shapes) == [i \in DOMAIN shapes |-> WorstNum(shapes[i])]
Expecteds(shapes, sign) == [i \in DOMAIN shapes |-> ExpectedNum(shapes[i], sign)]

LEMMA ShapeFactors ==
  ASSUME NEW shape, IsShape(shape), NEW sign \in {-1, 0, 1}
  PROVE  /\ 10 * shape.den \in Nat /\ WorstNum(shape) \in Nat /\ ExpectedNum(shape, sign) \in Nat
         /\ 10 * shape.den <= WorstNum(shape)
<1>1. PICK num \in Nat, den \in Nat, ci \in Nat :
        shape.num = num /\ shape.den = den /\ shape.ci = ci /\ den <= num /\ 0 < den
  BY DEF IsShape
<1>2. 10 * den \in Nat /\ 10 * num \in Nat /\ 10 * den <= 10 * num
  BY <1>1
<1>3. CASE shape.rate = {}
  BY <1>1, <1>2, <1>3 DEF WorstNum, ExpectedNum
<1>4. CASE shape.rate # {}
  <2> DEFINE rate == CHOOSE r \in shape.rate : TRUE
             p == Max({0, Min({10, rate + sign * ci})})
  <2>1. rate \in 0 .. 10
    <3>1. shape.rate \subseteq 0 .. 10
      BY DEF IsShape
    <3>2. rate \in shape.rate
      BY <1>4
    <3> HIDE DEF rate
    <3>3. QED BY <3>1, <3>2
  <2>2. rate + sign * ci \in Int
    <3> HIDE DEF rate
    <3>1. sign * ci \in Int
      OBVIOUS
    <3>2. QED BY <2>1, <3>1
  <2>3. p \in Nat
    <3> HIDE DEF rate
    <3>1. PICK low \in Int : low = rate + sign * ci
      BY <2>2
    <3>2. PICK none \in Int, ten \in Int : none = 0 /\ ten = 10
      OBVIOUS
    <3>3. PICK least \in Int : least = Min({ten, low})
      <4>1. Min({ten, low}) \in {ten, low}
        BY LesserOf
      <4>2. QED BY <4>1
    <3>4. Max({none, least}) \in {none, least} /\ Max({none, least}) >= none
      BY GreaterOf
    <3>5. p = Max({none, least})
      BY <3>1, <3>2, <3>3, Zenon
    <3>6. Max({none, least}) \in Nat
      <4> HIDE DEF p
      <4>1. QED BY <3>2, <3>4
    <3>7. QED BY <3>5, <3>6, Zenon
  <2>4. ExpectedNum(shape, sign) = 10 * den + p * (num - den)
    BY <1>1, <1>4 DEF ExpectedNum
  <2> HIDE DEF p
  <2>5. num - den \in Nat
    BY <1>1
  <2>6. p * (num - den) \in Nat
    BY <2>3, <2>5
  <2>7. QED BY <1>1, <1>2, <2>4, <2>6 DEF WorstNum
<1>5. QED BY <1>3, <1>4

LEMMA FactorLists ==
  ASSUME NEW n \in Nat, NEW shapes, ShapeList(n, shapes), NEW sign \in {-1, 0, 1}
  PROVE  /\ Dens(shapes) \in [1 .. n -> Nat] /\ Worsts(shapes) \in [1 .. n -> Nat]
         /\ Expecteds(shapes, sign) \in [1 .. n -> Nat]
         /\ Product(Dens(shapes)) \in Nat /\ Product(Worsts(shapes)) \in Nat
         /\ Product(Expecteds(shapes, sign)) \in Nat
         /\ Product(Dens(shapes)) <= Product(Worsts(shapes))
<1>1. ASSUME NEW i \in 1 .. n
      PROVE  /\ 10 * shapes[i].den \in Nat /\ WorstNum(shapes[i]) \in Nat
             /\ ExpectedNum(shapes[i], sign) \in Nat /\ 10 * shapes[i].den <= WorstNum(shapes[i])
  BY ShapeFactors DEF ShapeList
<1>2. DOMAIN shapes = 1 .. n
  BY DEF ShapeList
<1>3. /\ Dens(shapes) \in [1 .. n -> Nat] /\ Worsts(shapes) \in [1 .. n -> Nat]
      /\ Expecteds(shapes, sign) \in [1 .. n -> Nat]
  BY <1>1, <1>2 DEF Dens, Worsts, Expecteds
<1>4. \A i \in 1 .. n : Dens(shapes)[i] <= Worsts(shapes)[i]
  BY <1>1, <1>2 DEF Dens, Worsts
<1>5. \A i \in 1 .. n : Expecteds(shapes, sign)[i] <= Expecteds(shapes, sign)[i]
  BY <1>3
<1>6. QED BY <1>3, <1>4, <1>5, ProductsGrow

\* The amounts of a band, clamped as they are, are in order.
LEMMA BandOrdered ==
  ASSUME NEW total \in Nat, NEW n \in Nat, NEW shapes, ShapeList(n, shapes)
  PROVE  LET band == Compose(total, shapes) IN
           /\ band.lower <= band.lo /\ band.lo <= band.expected
           /\ band.expected <= band.hi /\ band.hi <= band.worst
           /\ band.den = Product(Dens(shapes))
           /\ band.worst = total * Product(Worsts(shapes))
<1> DEFINE den == Product(Dens(shapes))
           lower == total * den
           worst == total * Product(Worsts(shapes))
           Scaled(sign) == total * Product(Expecteds(shapes, sign))
           lo == Min({Max({Scaled(-1), lower}), worst})
           hi == Min({Max({Scaled(1), lo}), worst})
           expected == Min({Max({Scaled(0), lo}), hi})
<1>1. Compose(total, shapes) =
        [den |-> den, lower |-> lower, lo |-> lo, hi |-> hi, worst |-> worst, expected |-> expected]
  BY DEF Compose, Dens, Worsts, Expecteds
<1>2. lower \in Int /\ worst \in Int /\ lower <= worst
  <2>1. den \in Nat /\ Product(Worsts(shapes)) \in Nat /\ den <= Product(Worsts(shapes))
    BY FactorLists
  <2>2. total <= total
    OBVIOUS
  <2> HIDE DEF den
  <2>3. total * den \in Nat /\ total * den <= total * Product(Worsts(shapes))
    BY <2>1, <2>2, TimesGrows
  <2>4. total * Product(Worsts(shapes)) \in Nat
    BY <2>1
  <2>5. QED BY <2>3, <2>4
<1>3. \A sign \in {-1, 0, 1} : Scaled(sign) \in Int
  <2> SUFFICES ASSUME NEW sign \in {-1, 0, 1} PROVE Scaled(sign) \in Int
    OBVIOUS
  <2>1. Product(Expecteds(shapes, sign)) \in Nat
    BY FactorLists
  <2>2. QED BY <2>1
<1>4. PICK a \in Int, b \in Int, c \in Int : a = Scaled(-1) /\ b = Scaled(0) /\ c = Scaled(1)
  <2> HIDE DEF Scaled
  <2>1. Scaled(-1) \in Int /\ Scaled(0) \in Int /\ Scaled(1) \in Int
    BY <1>3
  <2>2. QED BY <2>1
<1> HIDE DEF Scaled, den, lower, worst
<1>5. /\ lo = Min({Max({a, lower}), worst}) /\ hi = Min({Max({c, lo}), worst})
      /\ expected = Min({Max({b, lo}), hi})
  BY <1>4, Zenon
<1> HIDE DEF lo, hi, expected
<1>6. lo \in Int /\ lower <= lo /\ lo <= worst
  <2>1. Max({a, lower}) \in {a, lower} /\ Max({a, lower}) >= lower
    BY <1>2, GreaterOf
  <2>2. Max({a, lower}) \in Int
    BY <1>2, <2>1
  <2>3. lo \in {Max({a, lower}), worst} /\ lo <= worst
    BY <1>2, <1>5, <2>2, LesserOf
  <2>4. QED BY <1>2, <2>1, <2>2, <2>3
<1>7. hi \in Int /\ lo <= hi /\ hi <= worst
  <2>1. Max({c, lo}) \in {c, lo} /\ Max({c, lo}) >= lo
    BY <1>6, GreaterOf
  <2>2. Max({c, lo}) \in Int
    BY <1>6, <2>1
  <2>3. hi \in {Max({c, lo}), worst} /\ hi <= worst
    BY <1>2, <1>5, <2>2, LesserOf
  <2>4. QED BY <1>2, <1>6, <2>1, <2>2, <2>3
<1>8. expected \in Int /\ lo <= expected /\ expected <= hi
  <2>1. Max({b, lo}) \in {b, lo} /\ Max({b, lo}) >= lo
    BY <1>6, GreaterOf
  <2>2. Max({b, lo}) \in Int
    BY <1>6, <2>1
  <2>3. expected \in {Max({b, lo}), hi} /\ expected <= hi
    BY <1>5, <1>7, <2>2, LesserOf
  <2>4. QED BY <1>6, <1>7, <2>1, <2>2, <2>3
<1>9. QED BY <1>1, <1>6, <1>7, <1>8 DEF den, worst

\* Other shapes around a call make its worst case no smaller.
LEMMA OthersCover ==
  ASSUME NEW total \in Nat, NEW n \in Nat, NEW shapes, shapes \in Seq(Range(shapes)),
         ShapeList(n, shapes),
         NEW m \in Nat, NEW others, others \in Seq(Range(others)), ShapeList(m, others)
  PROVE  LET band == Compose(total, shapes)
             outer == Compose(total, others \o shapes)
         IN  /\ outer.lower <= outer.lo /\ outer.lo <= outer.expected
             /\ outer.expected <= outer.hi /\ outer.hi <= outer.worst
             /\ outer.worst * band.den >= band.worst * outer.den
<1> DEFINE all == others \o shapes
<1>1. Len(shapes) = n /\ Len(others) = m
  BY DEF ShapeList
<1>2. /\ DOMAIN all = 1 .. m + n
      /\ \A i \in 1 .. m : all[i] = others[i]
      /\ \A i \in 1 .. n : all[m + i] = shapes[i]
  <2>1. DOMAIN all = 1 .. m + n
    BY <1>1
  <2>2. \A i \in 1 .. m : all[i] = others[i]
    BY <1>1
  <2>3. \A i \in 1 .. n : all[m + i] = shapes[i]
    BY <1>1
  <2>4. QED BY <2>1, <2>2, <2>3
<1>3. ShapeList(m + n, all)
  <2> SUFFICES ASSUME NEW i \in 1 .. m + n PROVE IsShape(all[i])
    BY <1>2 DEF ShapeList
  <2>1. CASE i \in 1 .. m
    BY <1>2, <2>1 DEF ShapeList
  <2>2. CASE i \notin 1 .. m
    <3>1. i - m \in 1 .. n /\ m + (i - m) = i
      BY <2>2
    <3>2. all[i] = shapes[i - m]
      BY <1>2, <3>1
    <3>3. QED BY <3>1, <3>2 DEF ShapeList
  <2>3. QED BY <2>1, <2>2
<1> HIDE DEF all
<1>4. PICK l \in Nat : l = m + n
  OBVIOUS
<1>5. ShapeList(l, all)
  BY <1>3, <1>4
<1>6. /\ Dens(all) \in [1 .. l -> Nat] /\ Worsts(all) \in [1 .. l -> Nat]
      /\ Dens(shapes) \in [1 .. n -> Nat] /\ Worsts(shapes) \in [1 .. n -> Nat]
      /\ Dens(others) \in [1 .. m -> Nat] /\ Worsts(others) \in [1 .. m -> Nat]
  BY <1>5, FactorLists
<1>7. /\ \A i \in 1 .. m : i \in DOMAIN all /\ i \in DOMAIN others
      /\ \A i \in 1 .. n : m + i \in DOMAIN all /\ i \in DOMAIN shapes
  BY <1>2 DEF ShapeList
<1>8. /\ \A i \in 1 .. m : Dens(all)[i] = Dens(others)[i] /\ Worsts(all)[i] = Worsts(others)[i]
      /\ \A i \in 1 .. n : Dens(all)[m + i] = Dens(shapes)[i] /\ Worsts(all)[m + i] = Worsts(shapes)[i]
  <2>1. /\ \A i \in 1 .. m : all[i] = others[i]
        /\ \A i \in 1 .. n : all[m + i] = shapes[i]
    BY <1>2
  <2>2. QED BY <1>7, <2>1 DEF Dens, Worsts
<1>9. Product(Dens(all)) = Product(Dens(others)) * Product(Dens(shapes))
  <2> DEFINE u == Dens(all)
             s == Dens(others)
             t == Dens(shapes)
  <2>1. Spliced(m, n, s, t, u)
    BY <1>4, <1>6, <1>8 DEF Spliced
  <2> HIDE DEF u, s, t
  <2>2. Product(u) = Product(s) * Product(t)
    BY <2>1, ProductsCombine
  <2>3. QED BY <2>2 DEF u, s, t
<1>10. Product(Worsts(all)) = Product(Worsts(others)) * Product(Worsts(shapes))
  <2> DEFINE u == Worsts(all)
             s == Worsts(others)
             t == Worsts(shapes)
  <2>1. Spliced(m, n, s, t, u)
    BY <1>4, <1>6, <1>8 DEF Spliced
  <2> HIDE DEF u, s, t
  <2>2. Product(u) = Product(s) * Product(t)
    BY <2>1, ProductsCombine
  <2>3. QED BY <2>2 DEF u, s, t
<1>11. PICK dn \in Nat, wn \in Nat, do \in Nat, wo \in Nat :
         /\ dn = Product(Dens(shapes)) /\ wn = Product(Worsts(shapes))
         /\ do = Product(Dens(others)) /\ wo = Product(Worsts(others)) /\ do <= wo
  <2>1. /\ Product(Dens(shapes)) \in Nat /\ Product(Worsts(shapes)) \in Nat
        /\ Product(Dens(others)) \in Nat /\ Product(Worsts(others)) \in Nat
        /\ Product(Dens(others)) <= Product(Worsts(others))
    BY FactorLists
  <2>2. QED BY <2>1
<1> DEFINE band == Compose(total, shapes)
           outer == Compose(total, all)
<1>12. /\ outer.lower <= outer.lo /\ outer.lo <= outer.expected
       /\ outer.expected <= outer.hi /\ outer.hi <= outer.worst
       /\ outer.den = Product(Dens(all)) /\ outer.worst = total * Product(Worsts(all))
  BY <1>5, BandOrdered
<1>13. band.den = Product(Dens(shapes)) /\ band.worst = total * Product(Worsts(shapes))
  BY BandOrdered
<1> HIDE DEF band, outer
<1>14. /\ outer.worst * band.den = (total * (wo * wn)) * dn
       /\ band.worst * outer.den = (total * wn) * (do * dn)
  BY <1>9, <1>10, <1>11, <1>12, <1>13
<1>15. (total * wn) * (do * dn) <= (total * (wo * wn)) * dn
  <2>1. PICK x \in Nat : x = (total * wn) * dn
    <3>1. total * wn \in Nat
      OBVIOUS
    <3>2. (total * wn) * dn \in Nat
      BY <3>1
    <3>3. QED BY <3>2
  <2>2. (total * wn) * (do * dn) = x * do /\ (total * (wo * wn)) * dn = x * wo
    BY <2>1
  <2>3. x <= x
    OBVIOUS
  <2>4. x * do <= x * wo
    BY <1>11, <2>3, TimesGrows
  <2>5. QED BY <2>2, <2>4
<1>16. outer.worst * band.den >= band.worst * outer.den
  <2>1. PICK p \in Int, q \in Int : p = (total * (wo * wn)) * dn /\ q = (total * wn) * (do * dn)
    <3>1. (total * (wo * wn)) * dn \in Int /\ (total * wn) * (do * dn) \in Int
      <4>1. wo * wn \in Int /\ total * wn \in Int /\ do * dn \in Int
        OBVIOUS
      <4>2. total * (wo * wn) \in Int
        BY <4>1
      <4>3. QED BY <4>1, <4>2
    <3>2. QED BY <3>1
  <2>2. q <= p
    BY <1>15, <2>1
  <2>3. outer.worst * band.den = p /\ band.worst * outer.den = q
    BY <1>14, <2>1, Zenon
  <2>4. QED BY <2>2, <2>3
<1>17. QED BY <1>12, <1>16 DEF band, outer, all

----------------------------------------------------------------------------

(* What a preview foresees of the answers                                    *)

AgentCount == Len(AgentModels)
AtWork == {"leaf", "try", "flight", "sample", "vote"}

\* the turns an agent may take, and the price of one: of both models, where both are asked
Draws == IF Samples THEN SampleK ELSE 1
Turn(prices, agent) ==
    IF Escalates THEN prices[Resolve(PrimaryModel)] + prices[Resolve(StrongModel)]
    ELSE prices[FirstModel(agent)]

\* the first half of a turn
Begun(prices) == IF stack.second THEN prices[Resolve(PrimaryModel)] ELSE 0

\* Where a call is, it may still draw a sample, or has a model to ask.
StackPlaces ==
    /\ stackPc \in {"idle", "agent"} \cup AtWork \cup StackEnds
    /\ stack.mode \in Modes /\ stack.second \in BOOLEAN /\ stack.agent \in 1 .. AgentCount + 1
    /\ stack.second => Escalates
    /\ stackPc \in AtWork => stack.agent <= AgentCount /\ Len(stack.samples) <= Draws
    /\ stackPc \in {"leaf", "try", "flight"} => Len(stack.samples) < Draws
    /\ stackPc \in {"sample", "vote"} => Samples /\ ~stack.second
    /\ stackPc \in {"try", "flight"} =>
          stack.todo \subseteq Attempts(Candidates(stack.agent, stack.second))
    /\ stackPc = "flight" => stack.todo # {}
    /\ stackPc = "idle" => stack.agent = 1 /\ ~stack.second

\* What all turns of the agents come to, agent by agent
Dues(prices, f) ==
    /\ f \in [0 .. AgentCount -> Nat] /\ f[0] = 0
    /\ \A k \in 1 .. AgentCount : f[k] = f[k - 1] + Draws * Turn(prices, k)

\* What was billed is what the agents before this one are due, its samples, and a turn begun.
BilledWithin(prices, f) ==
    LET billed == leaves.billed[prices]
    IN  /\ stackPc = "agent" => billed <= f[stack.agent - 1]
        /\ stackPc \in AtWork =>
              billed <= f[stack.agent - 1] + Len(stack.samples) * Turn(prices, stack.agent)
                            + Begun(prices)
        /\ stackPc \in StackEnds => billed <= f[AgentCount]

StackBills ==
    /\ StackPlaces
    /\ leaves.billed \in [PriceTables -> Nat]
    /\ stackPc = "idle" => \A prices \in PriceTables : leaves.billed[prices] = 0
    /\ stackPc # "idle" =>
          \A prices \in PriceTables :
             FirstIsDearest(prices) => \E f : Dues(prices, f) /\ BilledWithin(prices, f)

LEMMA Resolved == \A m \in Models : Resolve(m) \in Models
<1> SUFFICES ASSUME NEW m \in Models PROVE Resolve(m) \in Models
  OBVIOUS
<1>1. CASE m \in DOMAIN Alias
  <2>1. Alias[m] \in Range(Alias)
    BY <1>1 DEF Range
  <2>2. QED BY <1>1, <2>1, StackAssumption DEF Resolve
<1>2. CASE m \notin DOMAIN Alias
  BY <1>2 DEF Resolve
<1>3. QED BY <1>1, <1>2

LEMMA AgentsHaveModels ==
  /\ AgentCount \in Nat \ {0} /\ DOMAIN AgentModels = 1 .. AgentCount
  /\ \A a \in 1 .. AgentCount :
        /\ AgentModels[a] \in Seq(Models) /\ AgentModels[a][1] \in Models
        /\ RouteField(a)[1] \in Models /\ DOMAIN RouteField(a) = 1 .. 1
        /\ FirstModel(a) \in Models
<1>1. AgentModels \in Seq(Seq(Models) \ {<<>>}) /\ AgentModels # <<>>
  BY StackAssumption
<1>2. AgentCount \in Nat \ {0} /\ DOMAIN AgentModels = 1 .. AgentCount
  BY <1>1, EmptySeq DEF AgentCount
<1>3. ASSUME NEW a \in 1 .. AgentCount
      PROVE  /\ AgentModels[a] \in Seq(Models) /\ AgentModels[a][1] \in Models
             /\ RouteField(a)[1] \in Models /\ DOMAIN RouteField(a) = 1 .. 1
             /\ FirstModel(a) \in Models
  <2>1. AgentModels[a] \in Seq(Models) /\ AgentModels[a] # <<>>
    BY <1>1, <1>2
  <2>2. AgentModels[a][1] \in Models
    BY <2>1, EmptySeq
  <2>3. RouteField(a)[1] \in Models /\ DOMAIN RouteField(a) = 1 .. 1
    BY <2>2, StackAssumption DEF RouteField
  <2>4. QED BY <2>1, <2>2, <2>3, Resolved DEF FirstModel
<1>4. QED BY <1>2, <1>3

LEMMA TurnIsPriced ==
  ASSUME NEW prices \in PriceTables
  PROVE  /\ prices \in [Models -> Nat]
         /\ prices[Resolve(PrimaryModel)] \in Nat /\ prices[Resolve(StrongModel)] \in Nat
         /\ \A a \in 1 .. AgentCount : prices[FirstModel(a)] \in Nat /\ Turn(prices, a) \in Nat
         /\ Draws \in Nat \ {0} /\ Begun(prices) \in Nat
<1>1. prices \in [Models -> Nat] /\ PrimaryModel \in Models /\ StrongModel \in Models
  BY StackAssumption
<1>2. prices[Resolve(PrimaryModel)] \in Nat /\ prices[Resolve(StrongModel)] \in Nat
  BY <1>1, Resolved
<1>3. \A a \in 1 .. AgentCount : prices[FirstModel(a)] \in Nat
  BY <1>1, AgentsHaveModels
<1>4. \A a \in 1 .. AgentCount : Turn(prices, a) \in Nat
  BY <1>2, <1>3 DEF Turn
<1>5. Draws \in Nat \ {0} /\ Begun(prices) \in Nat
  BY <1>2, StackAssumption DEF Draws, Begun
<1>6. QED BY <1>1, <1>2, <1>3, <1>4, <1>5

\* One model is what a pinned call has for a list.
LEMMA CandidatesOf ==
  ASSUME NEW a \in 1 .. AgentCount, NEW second \in BOOLEAN
  PROVE  /\ \A k \in DOMAIN Candidates(a, second) : Candidates(a, second)[k] \in Models
         /\ Escalates =>
               /\ DOMAIN Candidates(a, second) = 1 .. 1
               /\ Candidates(a, second)[1] = Resolve(IF second THEN StrongModel ELSE PrimaryModel)
<1>1. CASE Escalates
  <2>1. Candidates(a, second) = Expand(IF second THEN <<StrongModel>> ELSE <<PrimaryModel>>)
    BY <1>1 DEF Candidates
  <2>2. /\ DOMAIN Candidates(a, second) = 1 .. 1
        /\ Candidates(a, second)[1] = Resolve(IF second THEN StrongModel ELSE PrimaryModel)
    BY <2>1 DEF Expand
  <2>3. Candidates(a, second)[1] \in Models
    BY <2>2, Resolved, StackAssumption
  <2>4. QED BY <2>2, <2>3
<1>2. CASE ~Escalates /\ stack.routes
  <2>1. Candidates(a, second) = Expand(Expand(RouteField(a)))
    BY <1>2 DEF Candidates
  <2>2. DOMAIN RouteField(a) = 1 .. 1 /\ RouteField(a)[1] \in Models
    BY AgentsHaveModels
  <2>3. DOMAIN Expand(RouteField(a)) = 1 .. 1 /\ Expand(RouteField(a))[1] \in Models
    BY <2>2, Resolved DEF Expand
  <2>4. \A k \in DOMAIN Expand(Expand(RouteField(a))) : Expand(Expand(RouteField(a)))[k] \in Models
    BY <2>3, Resolved DEF Expand
  <2>5. QED BY <1>2, <2>1, <2>4
<1>3. CASE ~Escalates /\ ~stack.routes
  <2>1. Candidates(a, second) = Expand(AgentModels[a])
    BY <1>3 DEF Candidates
  <2>2. \A k \in DOMAIN AgentModels[a] : AgentModels[a][k] \in Models
    <3>1. AgentModels[a] \in Seq(Models)
      BY AgentsHaveModels
    <3>2. QED BY <3>1
  <2>3. \A k \in DOMAIN Expand(AgentModels[a]) : Expand(AgentModels[a])[k] \in Models
    BY <2>2, Resolved DEF Expand
  <2>4. QED BY <1>3, <2>1, <2>3
<1>4. QED BY <1>1, <1>2, <1>3

\* The attempt that is next is one of those left.
LEMMA NextIsLeft ==
  ASSUME NEW todo, todo # {}, todo \subseteq Nat \X Nat
  PROVE  NextAttempt(todo) \in todo
<1> DEFINE rows == {a[1] : a \in todo}
           row == Min(rows)
           places == {a[2] : a \in {b \in todo : b[1] = row}}
           place == Min(places)
<1>1. row \in rows /\ \A r \in rows : row <= r
  <2>1. rows \subseteq Nat /\ rows # {}
    OBVIOUS
  <2> HIDE DEF rows
  <2>2. QED BY <2>1, LeastThereIs
<1> HIDE DEF row
<1>2. place \in places /\ \A p \in places : place <= p
  <2>1. places \subseteq Nat /\ places # {}
    BY <1>1
  <2> HIDE DEF places
  <2>2. QED BY <2>1, LeastThereIs
<1>3. PICK a \in todo : a[1] = row /\ a[2] = place
  BY <1>2
<1>4. \A b \in todo : a[1] < b[1] \/ (a[1] = b[1] /\ a[2] <= b[2])
  <2> SUFFICES ASSUME NEW b \in todo PROVE a[1] < b[1] \/ (a[1] = b[1] /\ a[2] <= b[2])
    OBVIOUS
  <2>1. a[1] \in Nat /\ b[1] \in Nat /\ row <= b[1]
    BY <1>1
  <2>2. CASE b[1] = row
    BY <1>2, <1>3, <2>2
  <2>3. CASE b[1] # row
    BY <1>3, <2>1, <2>3
  <2>4. QED BY <2>2, <2>3
<1>5. QED BY <1>4 DEF NextAttempt

\* An answer ends the turn it belongs to, or is the first half of it.
LEMMA AnswerPriced ==
  ASSUME StackPlaces, stackPc = "flight", NEW prices \in PriceTables
  PROVE  /\ Answering \in Models /\ prices[Answering] \in Nat
         /\ FirstIsDearest(prices) => Begun(prices) + prices[Answering] <= Turn(prices, stack.agent)
         /\ Escalates /\ ~stack.second => prices[Answering] = prices[Resolve(PrimaryModel)]
<1> DEFINE a == stack.agent
           list == Candidates(a, stack.second)
           at == NextAttempt(stack.todo)
<1>1. /\ a \in 1 .. AgentCount /\ stack.second \in BOOLEAN /\ (stack.second => Escalates)
      /\ stack.todo \subseteq Attempts(list) /\ stack.todo # {}
  <2>1. a \in 1 .. AgentCount + 1 /\ a <= AgentCount
    BY DEF StackPlaces, AtWork
  <2>2. a \in 1 .. AgentCount
    BY <2>1, AgentsHaveModels
  <2>3. QED BY <2>2 DEF StackPlaces
<1>2. at[1] \in DOMAIN list
  <2>1. Attempts(list) \subseteq (DOMAIN list) \X (DOMAIN Registered)
    BY DEF Attempts
  <2>2. DOMAIN list \subseteq Nat
    <3>1. CASE Escalates
      BY <1>1, <3>1, CandidatesOf
    <3>2. CASE ~Escalates /\ stack.routes
      BY <1>1, <3>2, AgentsHaveModels DEF Candidates, Expand
    <3>3. CASE ~Escalates /\ ~stack.routes
      BY <1>1, <3>3, AgentsHaveModels DEF Candidates, Expand
    <3>4. QED BY <3>1, <3>2, <3>3
  <2>3. DOMAIN Registered \subseteq Nat
    BY StackAssumption
  <2> HIDE DEF list
  <2>4. stack.todo \subseteq Nat \X Nat
    BY <1>1, <2>1, <2>2, <2>3
  <2>5. at \in stack.todo
    BY <1>1, <2>4, NextIsLeft
  <2> HIDE DEF at
  <2>6. QED BY <1>1, <2>1, <2>5
<1>3. Answering = list[at[1]]
  BY DEF Answering
<1>4. Answering \in Models
  BY <1>1, <1>2, <1>3, CandidatesOf
<1>5. /\ prices[Answering] \in Nat /\ prices[Resolve(PrimaryModel)] \in Nat
      /\ prices[Resolve(StrongModel)] \in Nat
  BY <1>4, TurnIsPriced
<1> HIDE DEF at
<1>6. CASE Escalates
  <2>1. Answering = Resolve(IF stack.second THEN StrongModel ELSE PrimaryModel)
    BY <1>1, <1>2, <1>3, <1>6, CandidatesOf
  <2>2. Turn(prices, a) = prices[Resolve(PrimaryModel)] + prices[Resolve(StrongModel)]
    BY <1>6 DEF Turn
  <2>3. Begun(prices) = IF stack.second THEN prices[Resolve(PrimaryModel)] ELSE 0
    BY DEF Begun
  <2>4. QED BY <1>1, <1>4, <1>5, <2>1, <2>2, <2>3
<1>7. CASE ~Escalates
  <2>1. stack.second = FALSE /\ Begun(prices) = 0 /\ Turn(prices, a) = prices[FirstModel(a)]
    BY <1>1, <1>7 DEF Begun, Turn
  <2>2. a \in DOMAIN AgentModels /\ Answering \in Range(Candidates(a, FALSE))
    BY <1>1, <1>2, <1>3, <2>1, AgentsHaveModels DEF Range
  <2>3. FirstIsDearest(prices) => prices[Answering] <= prices[FirstModel(a)]
    BY <2>2 DEF FirstIsDearest
  <2>4. QED BY <1>4, <1>5, <1>7, <2>1, <2>3
<1>8. QED BY <1>6, <1>7

\* What an agent at work is due covers its samples, and one turn more where it may draw it.
LEMMA DueCovers ==
  ASSUME StackInv, StackPlaces, stackPc \in AtWork, NEW prices \in PriceTables,
         NEW f, Dues(prices, f)
  PROVE  LET a == stack.agent
             drawn == Len(stack.samples)
             turn == Turn(prices, a)
         IN  /\ a \in 1 .. AgentCount /\ drawn \in Nat /\ turn \in Nat /\ drawn * turn \in Nat
             /\ f[a - 1] \in Nat /\ f[a] \in Nat /\ f[AgentCount] \in Nat /\ f[a] <= f[AgentCount]
             /\ f[a - 1] + drawn * turn <= f[a]
             /\ drawn < Draws => f[a - 1] + drawn * turn + turn <= f[a]
             /\ (drawn + 1) * turn = drawn * turn + turn
             /\ Begun(prices) \in Nat /\ Begun(prices) <= turn
<1>1. PICK a \in 1 .. AgentCount, drawn \in Nat :
         a = stack.agent /\ drawn = Len(stack.samples) /\ drawn <= Draws
  <2>1. stack.agent \in 1 .. AgentCount + 1 /\ stack.agent <= AgentCount
    BY DEF StackPlaces
  <2>2. stack.agent \in 1 .. AgentCount
    BY <2>1, AgentsHaveModels
  <2>3. Len(stack.samples) \in Nat
    BY DEF StackInv, StackTyped
  <2>4. QED BY <2>2, <2>3 DEF StackPlaces
<1>2. PICK n \in Nat : n = AgentCount
  BY AgentsHaveModels
<1>3. /\ f \in [0 .. n -> Nat] /\ a \in 1 .. n
      /\ \A k \in 1 .. n : f[k] = f[k - 1] + Draws * Turn(prices, k)
  BY <1>1, <1>2 DEF Dues
<1>4. PICK turn \in Nat, draws \in Nat : turn = Turn(prices, a) /\ draws = Draws
  BY <1>1, TurnIsPriced
<1>5. f[a - 1] \in Nat /\ f[a] \in Nat /\ f[n] \in Nat
  <2>1. a - 1 \in 0 .. n /\ a \in 0 .. n /\ n \in 0 .. n
    BY <1>3
  <2>2. QED BY <1>3, <2>1, Zenon
<1>6. f[a] <= f[n]
  <2> DEFINE u == [k \in 1 .. n |-> Draws * Turn(prices, k)]
  <2>1. u \in [1 .. n -> Nat]
    <3>1. ASSUME NEW k \in 1 .. n PROVE Draws * Turn(prices, k) \in Nat
      <4>1. Draws \in Nat /\ Turn(prices, k) \in Nat
        BY <1>2, TurnIsPriced
      <4>2. QED BY <4>1
    <3>2. QED BY <3>1
  <2>2. \A k \in 1 .. n : f[k] = f[k - 1] + u[k]
    BY <1>3
  <2>3. a \in 0 .. n
    BY <1>3
  <2> HIDE DEF u
  <2>4. QED BY <1>3, <2>1, <2>2, <2>3, SumsGrow
<1>7. f[a] = f[a - 1] + draws * turn
  BY <1>3, <1>4
<1>8. drawn * turn \in Nat /\ (drawn + 1) * turn = drawn * turn + turn
  OBVIOUS
<1>9. drawn * turn <= draws * turn
  BY <1>1, <1>4, TimesGrows
<1>10. drawn < draws => drawn * turn + turn <= draws * turn
  <2> SUFFICES ASSUME drawn < draws PROVE drawn * turn + turn <= draws * turn
    OBVIOUS
  <2>1. PICK more \in Nat : more = drawn + 1 /\ more <= draws
    OBVIOUS
  <2>2. turn <= turn
    OBVIOUS
  <2>3. more * turn <= draws * turn
    BY <2>1, <2>2, TimesGrows
  <2>4. more * turn = drawn * turn + turn
    BY <1>8, <2>1
  <2>5. QED BY <2>3, <2>4
<1>11. PICK rest \in Nat, full \in Nat : rest = drawn * turn /\ full = draws * turn
  BY <1>8
<1>12. /\ f[a - 1] + rest <= f[a]
       /\ drawn < draws => f[a - 1] + rest + turn <= f[a]
  BY <1>5, <1>7, <1>9, <1>10, <1>11
<1>13. Begun(prices) \in Nat /\ Begun(prices) <= turn
  <2>1. prices[Resolve(PrimaryModel)] \in Nat /\ prices[Resolve(StrongModel)] \in Nat
    BY TurnIsPriced
  <2>2. CASE stack.second = TRUE
    <3>1. turn = prices[Resolve(PrimaryModel)] + prices[Resolve(StrongModel)]
      BY <1>4, <2>2 DEF StackPlaces, Turn
    <3>2. QED BY <2>1, <2>2, <3>1 DEF Begun
  <2>3. CASE stack.second = FALSE
    BY <2>3 DEF Begun
  <2>4. QED BY <2>2, <2>3 DEF StackPlaces
<1>14. QED BY <1>1, <1>2, <1>4, <1>5, <1>6, <1>8, <1>11, <1>12, <1>13

\* A step of a call under way keeps what its turns cost.
LEMMA SameCall ==
  ASSUME stack'.mode = stack.mode, stack'.routes = stack.routes
  PROVE  /\ Escalates' = Escalates /\ Samples' = Samples /\ Draws' = Draws
         /\ \A a, second : Candidates(a, second)' = Candidates(a, second)
         /\ \A prices, a : Turn(prices, a)' = Turn(prices, a)
         /\ \A prices : FirstIsDearest(prices)' = FirstIsDearest(prices)
         /\ \A prices, f : Dues(prices, f)' = Dues(prices, f)
<1>1. Escalates' = Escalates /\ Samples' = Samples
  BY DEF Escalates, Samples
<1>2. Draws' = Draws
  BY <1>1 DEF Draws
<1>3. \A a : RouteField(a)' = RouteField(a)
  BY DEF RouteField
<1>4. \A a, second : Candidates(a, second)' = Candidates(a, second)
  BY <1>1, <1>3 DEF Candidates
<1>5. \A a : FirstModel(a)' = FirstModel(a)
  BY <1>3 DEF FirstModel
<1>6. \A prices, a : Turn(prices, a)' = Turn(prices, a)
  BY <1>1, <1>5 DEF Turn
<1>7. \A prices : FirstIsDearest(prices)' = FirstIsDearest(prices)
  BY <1>4, <1>5 DEF FirstIsDearest
<1>8. \A prices, f : Dues(prices, f)' = Dues(prices, f)
  BY <1>2, <1>6 DEF Dues
<1>9. QED BY <1>1, <1>2, <1>4, <1>6, <1>7, <1>8

\* What a step has to show once the call has begun
LEMMA BillsFollow ==
  ASSUME StackBills, stackPc # "idle", stackPc' # "idle", stack'.mode = stack.mode,
         stack'.routes = stack.routes, StackPlaces', leaves'.billed \in [PriceTables -> Nat],
         \A prices \in PriceTables : \A f :
            FirstIsDearest(prices) /\ Dues(prices, f) /\ BilledWithin(prices, f)
               => BilledWithin(prices, f)'
  PROVE  StackBills'
<1>1. ASSUME NEW prices \in PriceTables, FirstIsDearest(prices)'
      PROVE  \E f : Dues(prices, f)' /\ BilledWithin(prices, f)'
  <2>1. FirstIsDearest(prices)
    BY <1>1, SameCall
  <2>2. PICK f : Dues(prices, f) /\ BilledWithin(prices, f)
    BY <2>1 DEF StackBills
  <2>3. Dues(prices, f)' /\ BilledWithin(prices, f)'
    BY <2>1, <2>2, SameCall
  <2>4. QED BY <2>3
<1>2. QED BY <1>1 DEF StackBills

\* A call that ends where it is has been billed no more than all its agents are due.
LEMMA EndsWithin ==
  ASSUME StackInv, StackBills, stackPc # "idle", stackPc \notin StackEnds, stackPc' \in StackEnds,
         stack' = stack, leaves' = leaves
  PROVE  StackBills'
<1>1. StackPlaces'
  BY SameCall DEF StackBills, StackPlaces, StackEnds, AtWork
<1>2. stackPc' # "idle" /\ stackPc' # "agent" /\ stackPc' \notin AtWork
  BY DEF StackEnds, AtWork
<1>3. leaves'.billed \in [PriceTables -> Nat]
  BY DEF StackBills
<1>4. ASSUME NEW prices \in PriceTables, NEW f, Dues(prices, f), BilledWithin(prices, f)
      PROVE  BilledWithin(prices, f)'
  <2>1. leaves.billed[prices] \in Nat
    BY DEF StackBills
  <2>2. SUFFICES leaves.billed[prices] <= f[AgentCount]
    BY <1>2 DEF BilledWithin
  <2>3. CASE stackPc \in AtWork
    <3>1. /\ leaves.billed[prices] <=
                f[stack.agent - 1] + Len(stack.samples) * Turn(prices, stack.agent) + Begun(prices)
          /\ Len(stack.samples) < Draws \/ Begun(prices) = 0
      BY <1>4, <2>3 DEF BilledWithin, StackBills, StackPlaces, AtWork, Begun
    <3> DEFINE drawn == Len(stack.samples)
               turn == Turn(prices, stack.agent)
    <3>2. /\ drawn * turn \in Nat /\ turn \in Nat /\ Begun(prices) \in Nat /\ Begun(prices) <= turn
          /\ f[stack.agent - 1] \in Nat /\ f[stack.agent] \in Nat /\ f[AgentCount] \in Nat
          /\ f[stack.agent] <= f[AgentCount]
          /\ f[stack.agent - 1] + drawn * turn <= f[stack.agent]
          /\ drawn < Draws => f[stack.agent - 1] + drawn * turn + turn <= f[stack.agent]
      BY <1>4, <2>3, DueCovers DEF StackBills
    <3>3. PICK rest \in Nat : rest = drawn * turn
      BY <3>2
    <3>4. QED BY <2>1, <3>1, <3>2, <3>3
  <2>4. CASE stackPc = "agent"
    <3>1. leaves.billed[prices] <= f[stack.agent - 1]
      BY <1>4, <2>4 DEF BilledWithin
    <3>2. PICK n \in Nat : n = AgentCount
      BY AgentsHaveModels
    <3> DEFINE u == [k \in 1 .. n |-> Draws * Turn(prices, k)]
    <3>3. u \in [1 .. n -> Nat]
      <4>1. ASSUME NEW k \in 1 .. n PROVE Draws * Turn(prices, k) \in Nat
        <5>1. Draws \in Nat /\ Turn(prices, k) \in Nat
          BY <3>2, TurnIsPriced
        <5>2. QED BY <5>1
      <4>2. QED BY <4>1
    <3>4. f \in [0 .. n -> Nat] /\ \A k \in 1 .. n : f[k] = f[k - 1] + u[k]
      BY <1>4, <3>2 DEF Dues
    <3>5. stack.agent - 1 \in 0 .. n /\ n \in 0 .. n
      BY <3>2 DEF StackBills, StackPlaces
    <3> HIDE DEF u
    <3>6. f[stack.agent - 1] <= f[n]
      BY <3>3, <3>4, <3>5, SumsGrow
    <3>7. f[stack.agent - 1] \in Nat /\ f[n] \in Nat
      BY <3>4, <3>5, Zenon
    <3>8. QED BY <2>1, <3>1, <3>2, <3>6, <3>7
  <2>5. QED BY <2>3, <2>4 DEF StackBills, StackPlaces
<1>5. QED BY <1>1, <1>2, <1>3, <1>4, BillsFollow

LEMMA BillsStart == StackInit => StackBills
<1> SUFFICES ASSUME StackInit PROVE StackBills
  OBVIOUS
<1>1. /\ stackPc = "idle" /\ stack.mode = "plain" /\ stack.second = FALSE /\ stack.agent = 1
      /\ leaves.billed = [prices \in PriceTables |-> 0]
  BY DEF StackInit
<1>2. 1 \in 1 .. AgentCount + 1
  BY AgentsHaveModels
<1>3. StackPlaces
  BY <1>1, <1>2 DEF StackPlaces, Modes, AtWork
<1>4. QED BY <1>1, <1>3 DEF StackBills

\* As a call begins, its turns are known and nothing is billed.
LEMMA BillsOpened == StackInv /\ StackBills /\ StackBegin => StackBills'
<1> SUFFICES ASSUME StackInv, StackBills, StackBegin PROVE StackBills'
  OBVIOUS
<1>1. PICK m \in Modes, l \in BOOLEAN, routes \in BOOLEAN :
         stack' = [stack EXCEPT !.mode = m, !.lead = l, !.routes = routes]
  BY DEF StackBegin
<1>2. /\ stackPc = "idle" /\ stackPc' = "agent" /\ leaves' = leaves
      /\ stack'.mode = m /\ stack'.second = stack.second /\ stack'.agent = stack.agent
  BY <1>1 DEF StackBegin, StackInv, StackTyped, StackFields
<1>3. stack.agent = 1 /\ stack.second = FALSE
  BY <1>2 DEF StackBills, StackPlaces
<1>4. StackPlaces'
  BY <1>2, <1>3 DEF StackBills, StackPlaces, AtWork
<1>5. ASSUME NEW prices \in PriceTables PROVE \E f : Dues(prices, f)' /\ BilledWithin(prices, f)'
  <2>1. PICK n \in Nat : n = AgentCount
    BY AgentsHaveModels
  <2> DEFINE u == [k \in 1 .. n |-> Draws' * Turn(prices, k)']
  <2>2. u \in [1 .. n -> Nat]
    <3>1. ASSUME NEW k \in 1 .. n PROVE Draws' * Turn(prices, k)' \in Nat
      <4>1. Draws' \in Nat
        BY StackAssumption DEF Draws
      <4>2. RouteField(k)' = <<RoutedModel>> \/ RouteField(k)' = <<AgentModels[k][1]>>
        BY DEF RouteField
      <4>3. RoutedModel \in Models /\ AgentModels[k][1] \in Models
        BY <2>1, AgentsHaveModels, StackAssumption
      <4>4. FirstModel(k)' \in Models
        BY <4>2, <4>3, Resolved DEF FirstModel
      <4>5. Turn(prices, k)' \in Nat
        BY <4>4, TurnIsPriced DEF Turn
      <4>6. QED BY <4>1, <4>5
    <3>2. QED BY <3>1
  <2>3. PICK f \in [0 .. n -> Nat] : f[0] = 0 /\ \A k \in 1 .. n : f[k] = f[k - 1] + u[k]
    <3> HIDE DEF u
    <3>1. QED BY <2>2, Totals
  <2>4. Dues(prices, f)'
    BY <2>1, <2>3 DEF Dues
  <2>5. leaves'.billed[prices] = 0 /\ f[stack'.agent - 1] = 0
    BY <1>2, <1>3, <2>3 DEF StackBills
  <2>6. BilledWithin(prices, f)'
    BY <1>2, <2>5 DEF BilledWithin, AtWork, StackEnds
  <2>7. QED BY <2>4, <2>6
<1>6. QED BY <1>2, <1>4, <1>5 DEF StackBills

\* The next agent has drawn nothing.
LEMMA BillsOfNext == StackInv /\ StackBills /\ NextAgent => StackBills'
<1> SUFFICES ASSUME StackInv, StackBills, NextAgent PROVE StackBills'
  OBVIOUS
<1>1. stackPc = "agent"
  BY DEF NextAgent
<1>2. CASE stackPc' \in {"returned", "cancelled"} /\ UNCHANGED <<stack, leaves>>
  BY <1>1, <1>2, EndsWithin DEF StackEnds
<1>3. CASE /\ stack.agent <= AgentCount
           /\ stack' = [stack EXCEPT !.second = FALSE, !.samples = <<>>, !.seen = 0]
           /\ stackPc' = (IF Samples THEN "sample" ELSE "leaf") /\ leaves' = leaves
  <2>1. /\ stack'.mode = stack.mode /\ stack'.routes = stack.routes /\ stack'.agent = stack.agent
        /\ stack'.second = FALSE /\ stack'.samples = <<>>
    BY <1>3 DEF StackInv, StackTyped, StackFields
  <2>2. Len(stack'.samples) = 0 /\ Draws \in Nat \ {0}
    BY <2>1, StackAssumption DEF Draws
  <2>3. stackPc' \in {"sample", "leaf"} /\ (stackPc' = "sample" => Samples)
    BY <1>3
  <2>4. StackPlaces'
    <3>1. Draws' = Draws /\ Samples' = Samples
      BY <2>1, SameCall
    <3>2. QED BY <1>3, <2>1, <2>2, <2>3, <3>1 DEF StackBills, StackPlaces, AtWork, StackEnds
  <2>5. leaves'.billed \in [PriceTables -> Nat]
    BY <1>3 DEF StackBills
  <2>6. ASSUME NEW prices \in PriceTables, NEW f, Dues(prices, f), BilledWithin(prices, f)
        PROVE  BilledWithin(prices, f)'
    <3>1. leaves.billed[prices] <= f[stack.agent - 1]
      BY <1>1, <2>6 DEF BilledWithin
    <3>2. Turn(prices, stack.agent)' \in Nat
      <4>1. Turn(prices, stack.agent)' = Turn(prices, stack'.agent)
        <5>1. PICK a : a = stack.agent
          OBVIOUS
        <5>2. Turn(prices, a)' = Turn(prices, a)
          BY <2>1, SameCall
        <5>3. QED BY <2>1, <5>1, <5>2 DEF Turn, Escalates, FirstModel, RouteField
      <4>2. stack.agent \in 1 .. AgentCount
        BY <1>3, AgentsHaveModels DEF StackBills, StackPlaces
      <4>3. QED BY <2>1, <4>1, <4>2, TurnIsPriced
    <3>3. f[stack.agent - 1] \in Nat /\ leaves.billed[prices] \in Nat
      <4>1. stack.agent - 1 \in 0 .. AgentCount
        BY AgentsHaveModels DEF StackBills, StackPlaces
      <4>2. QED BY <2>6, <4>1 DEF Dues, StackBills
    <3>4. Begun(prices)' = 0
      BY <2>1 DEF Begun
    <3>5. Len(stack'.samples) * Turn(prices, stack.agent)' = 0
      BY <2>2, <3>2
    <3>6. /\ leaves'.billed[prices] <=
               f[stack'.agent - 1] + Len(stack'.samples) * Turn(prices, stack.agent)' + Begun(prices)'
      BY <1>3, <2>1, <3>1, <3>3, <3>4, <3>5
    <3>7. QED BY <2>3, <3>6 DEF BilledWithin, AtWork, StackEnds
  <2>7. stackPc # "idle" /\ stackPc' # "idle"
    BY <1>1, <2>3
  <2>8. QED BY <2>1, <2>4, <2>5, <2>6, <2>7, BillsFollow
<1>4. QED BY <1>2, <1>3 DEF NextAgent, StackEnd, RaiseIfCancelled, AgentCount

\* At work for an agent, without an answer
LEMMA BillsAtWork ==
  ASSUME StackBills, stackPc \in AtWork, stackPc' \in AtWork, leaves' = leaves, StackPlaces',
         stack'.mode = stack.mode, stack'.routes = stack.routes, stack'.agent = stack.agent,
         stack'.second = stack.second, stack'.samples = stack.samples
  PROVE  StackBills'
<1>1. leaves'.billed \in [PriceTables -> Nat]
  BY DEF StackBills
<1>2. stackPc # "idle" /\ stackPc' # "idle" /\ stackPc' # "agent" /\ stackPc' \notin StackEnds
  BY DEF AtWork, StackEnds
<1>3. ASSUME NEW prices \in PriceTables, NEW f, Dues(prices, f), BilledWithin(prices, f)
      PROVE  BilledWithin(prices, f)'
  <2>1. Begun(prices)' = Begun(prices)
    BY DEF Begun
  <2>2. Turn(prices, stack.agent)' = Turn(prices, stack.agent)
    BY DEF Turn, Escalates, FirstModel, RouteField
  <2>3. QED BY <1>2, <1>3, <2>1, <2>2 DEF BilledWithin
<1>4. QED BY <1>1, <1>2, <1>3, BillsFollow

LEMMA BillsOfMoves ==
  StackInv /\ StackBills /\ (NextSample \/ EnterLeaf \/ AskProvider \/ Failover \/ ProviderFails \/ Unwired)
     => StackBills'
<1> SUFFICES ASSUME StackInv, StackBills,
                    NextSample \/ EnterLeaf \/ AskProvider \/ Failover \/ ProviderFails \/ Unwired
             PROVE  StackBills'
  OBVIOUS
<1>1. stackPc \in AtWork /\ leaves' = leaves
  BY DEF NextSample, EnterLeaf, AskProvider, Failover, ProviderFails, Unwired, AtWork, StackEnd,
         RaiseIfCancelled
<1>2. CASE stackPc' \in StackEnds /\ stack' = stack
  BY <1>1, <1>2, EndsWithin DEF AtWork, StackEnds
<1>3. CASE NextSample /\ stackPc' \notin StackEnds
  <2>1. /\ stackPc = "sample" /\ stack' = stack
        /\ \/ stackPc' = "leaf" /\ ~Enough
           \/ stackPc' = "vote"
    BY <1>3 DEF NextSample, StackEnd, RaiseIfCancelled, StackEnds
  <2>2. Samples /\ ~stack.second /\ Len(stack.samples) <= Draws /\ stack.agent <= AgentCount
    BY <1>1, <2>1 DEF StackBills, StackPlaces
  <2>3. ~Enough => Len(stack.samples) # SampleK
    BY DEF Enough
  <2>4. Len(stack.samples) \in Nat /\ SampleK \in Nat /\ Draws = SampleK
    BY <2>2, StackAssumption DEF StackInv, StackTyped, Draws
  <2>5. ~Enough => Len(stack.samples) < Draws
    BY <2>2, <2>3, <2>4
  <2>6. Draws' = Draws /\ Samples' = Samples
    BY <2>1, SameCall
  <2>7. StackPlaces'
    BY <2>1, <2>2, <2>5, <2>6 DEF StackBills, StackPlaces, AtWork, Escalates
  <2>8. QED BY <1>1, <2>1, <2>7, BillsAtWork DEF AtWork
<1>4. CASE EnterLeaf /\ stackPc' \notin StackEnds
  <2>1. /\ stackPc = "leaf" /\ stackPc' = "try"
        /\ stack' = [stack EXCEPT !.todo = Attempts(Candidates(stack.agent, stack.second))]
    BY <1>4 DEF EnterLeaf, StackEnd, RaiseIfCancelled, StackEnds
  <2>2. /\ stack'.mode = stack.mode /\ stack'.routes = stack.routes /\ stack'.agent = stack.agent
        /\ stack'.second = stack.second /\ stack'.samples = stack.samples
        /\ stack'.todo = Attempts(Candidates(stack.agent, stack.second))
    BY <2>1 DEF StackInv, StackTyped, StackFields
  <2>3. StackPlaces'
    <3>1. /\ Draws' = Draws /\ Escalates' = Escalates
          /\ Candidates(stack.agent, stack.second)' = Candidates(stack.agent, stack.second)
      BY <2>2 DEF Draws, Samples, Escalates, Candidates, RouteField
    <3>2. QED BY <2>1, <2>2, <3>1 DEF StackBills, StackPlaces, AtWork
  <2>4. QED BY <1>1, <2>1, <2>2, <2>3, BillsAtWork DEF AtWork
<1>5. CASE AskProvider /\ stackPc' \notin StackEnds
  <2>1. stackPc = "try" /\ stackPc' = "flight" /\ stack' = stack /\ stack.todo # {}
    BY <1>5 DEF AskProvider, StackEnd, RaiseIfCancelled, StackEnds
  <2>2. StackPlaces'
    <3>1. /\ Draws' = Draws /\ Escalates' = Escalates
          /\ Candidates(stack.agent, stack.second)' = Candidates(stack.agent, stack.second)
      BY <2>1 DEF Draws, Samples, Escalates, Candidates, RouteField
    <3>2. QED BY <2>1, <3>1 DEF StackBills, StackPlaces, AtWork
  <2>3. QED BY <1>1, <2>1, <2>2, BillsAtWork DEF AtWork
<1>6. CASE ProviderFails
  <2>1. /\ stackPc = "flight" /\ stackPc' = "try"
        /\ stack' = [stack EXCEPT !.todo = stack.todo \ {NextAttempt(stack.todo)}]
    BY <1>6 DEF ProviderFails
  <2>2. /\ stack'.mode = stack.mode /\ stack'.routes = stack.routes /\ stack'.agent = stack.agent
        /\ stack'.second = stack.second /\ stack'.samples = stack.samples
        /\ stack'.todo \subseteq stack.todo
    BY <2>1 DEF StackInv, StackTyped, StackFields
  <2>3. StackPlaces'
    <3>1. /\ Draws' = Draws /\ Escalates' = Escalates
          /\ Candidates(stack.agent, stack.second)' = Candidates(stack.agent, stack.second)
      BY <2>2 DEF Draws, Samples, Escalates, Candidates, RouteField
    <3>2. QED BY <2>1, <2>2, <3>1 DEF StackBills, StackPlaces, AtWork
  <2>4. QED BY <1>1, <2>1, <2>2, <2>3, BillsAtWork DEF AtWork
<1>7. CASE Failover \/ Unwired
  <2>1. stackPc' \in StackEnds /\ stack' = stack
    BY <1>7 DEF Failover, Unwired, StackEnd, StackEnds
  <2>2. QED BY <1>2, <2>1
<1>8. stackPc' \in StackEnds => stack' = stack
  BY DEF NextSample, EnterLeaf, AskProvider, Failover, ProviderFails, Unwired, StackEnd,
         RaiseIfCancelled, StackEnds
<1>9. QED BY <1>2, <1>3, <1>4, <1>5, <1>6, <1>7, <1>8

\* The agent after one whose turns were made
LEMMA BillsOfVote == StackInv /\ StackBills /\ Vote => StackBills'
<1> SUFFICES ASSUME StackInv, StackBills, Vote PROVE StackBills'
  OBVIOUS
<1>1. stackPc = "vote" /\ leaves' = leaves
  BY DEF Vote, StackEnd
<1>2. CASE stackPc' \in StackEnds /\ stack' = stack
  BY <1>1, <1>2, EndsWithin DEF StackEnds
<1>3. ASSUME NEW how, AgentDone(how) PROVE StackBills'
  <2>1. /\ stackPc' = "agent" /\ stack'.mode = stack.mode /\ stack'.routes = stack.routes
        /\ stack'.agent = stack.agent + 1 /\ stack'.second = stack.second
    BY <1>3 DEF AgentDone, StackInv, StackTyped, StackFields
  <2>2. stackPc \in AtWork /\ stack.agent \in 1 .. AgentCount /\ stack.second = FALSE
    BY <1>1, AgentsHaveModels DEF StackBills, StackPlaces, AtWork
  <2>3. StackPlaces'
    <3>1. stack'.agent \in 1 .. AgentCount + 1
      BY <2>1, <2>2, AgentsHaveModels
    <3>2. QED BY <2>1, <2>2, <3>1 DEF StackBills, StackPlaces, AtWork, Escalates
  <2>4. leaves'.billed \in [PriceTables -> Nat]
    BY <1>1 DEF StackBills
  <2>5. ASSUME NEW prices \in PriceTables, NEW f, Dues(prices, f), BilledWithin(prices, f)
        PROVE  BilledWithin(prices, f)'
    <3> DEFINE drawn == Len(stack.samples)
               turn == Turn(prices, stack.agent)
    <3>1. leaves.billed[prices] <= f[stack.agent - 1] + drawn * turn + Begun(prices)
      BY <2>2, <2>5 DEF BilledWithin
    <3>2. Begun(prices) = 0
      BY <2>2 DEF Begun
    <3>3. /\ drawn * turn \in Nat /\ f[stack.agent - 1] \in Nat /\ f[stack.agent] \in Nat
          /\ f[stack.agent - 1] + drawn * turn <= f[stack.agent]
      BY <2>2, <2>5, DueCovers DEF StackBills
    <3>4. PICK rest \in Nat : rest = drawn * turn
      BY <3>3
    <3>5. leaves.billed[prices] <= f[stack.agent]
      <4>1. leaves.billed[prices] \in Nat
        BY DEF StackBills
      <4>2. QED BY <3>1, <3>2, <3>3, <3>4, <4>1
    <3>6. stack'.agent - 1 = stack.agent
      BY <2>1, <2>2
    <3>7. QED BY <1>1, <2>1, <3>5, <3>6 DEF BilledWithin, AtWork, StackEnds
  <2>6. stackPc # "idle" /\ stackPc' # "idle"
    BY <1>1, <2>1
  <2>7. QED BY <2>1, <2>3, <2>4, <2>5, <2>6, BillsFollow
<1>4. \/ \E how : AgentDone(how)
      \/ stackPc' \in StackEnds /\ stack' = stack
  BY DEF Vote, StackEnd, StackEnds
<1>5. QED BY <1>2, <1>3, <1>4

\* An answer that is kept ends a turn, whatever it was billed within one.
LEMMA BillsOfTurn ==
  ASSUME StackInv, StackBills, stackPc \in {"leaf", "flight"}, leaves'.billed \in [PriceTables -> Nat],
         \A prices \in PriceTables :
            FirstIsDearest(prices) =>
               leaves'.billed[prices] + Begun(prices)
                  <= leaves.billed[prices] + Turn(prices, stack.agent),
         \/ stackPc' = "breached" /\ stack' = stack
         \/ \E cost, key, paid : TakeAnswer(cost, key, paid)
  PROVE  StackBills'
<1>1. /\ stackPc \in AtWork /\ stackPc # "idle" /\ Len(stack.samples) < Draws
      /\ stack.agent \in 1 .. AgentCount /\ Len(stack.samples) \in Nat
  BY AgentsHaveModels DEF StackBills, StackPlaces, AtWork, StackInv, StackTyped
<1>2. ASSUME NEW prices \in PriceTables, NEW f, FirstIsDearest(prices), Dues(prices, f),
             BilledWithin(prices, f)
      PROVE  LET drawn == Len(stack.samples)
                 turn == Turn(prices, stack.agent)
             IN  /\ leaves'.billed[prices] <= f[stack.agent - 1] + (drawn + 1) * turn
                 /\ leaves'.billed[prices] <= f[stack.agent]
                 /\ leaves'.billed[prices] <= f[AgentCount]
  <2> DEFINE drawn == Len(stack.samples)
             turn == Turn(prices, stack.agent)
  <2>1. leaves.billed[prices] <= f[stack.agent - 1] + drawn * turn + Begun(prices)
    BY <1>1, <1>2 DEF BilledWithin
  <2>2. leaves'.billed[prices] + Begun(prices) <= leaves.billed[prices] + turn
    BY <1>2
  <2>3. /\ drawn * turn \in Nat /\ turn \in Nat /\ Begun(prices) \in Nat
        /\ f[stack.agent - 1] \in Nat /\ f[stack.agent] \in Nat /\ f[AgentCount] \in Nat
        /\ f[stack.agent] <= f[AgentCount]
        /\ f[stack.agent - 1] + drawn * turn + turn <= f[stack.agent]
        /\ (drawn + 1) * turn = drawn * turn + turn
    BY <1>1, <1>2, DueCovers DEF StackBills
  <2>4. PICK rest \in Nat, full \in Nat : rest = drawn * turn /\ full = (drawn + 1) * turn /\ full = rest + turn
    BY <2>3
  <2>5. PICK was \in Nat, is \in Nat : was = leaves.billed[prices] /\ is = leaves'.billed[prices]
    <3>1. leaves.billed[prices] \in Nat /\ leaves'.billed[prices] \in Nat
      BY DEF StackBills
    <3>2. QED BY <3>1
  <2> HIDE DEF drawn, turn
  <2>6. /\ is <= f[stack.agent - 1] + full /\ is <= f[stack.agent] /\ is <= f[AgentCount]
    <3>1. PICK due \in Nat, upTo \in Nat, all \in Nat, begun \in Nat, one \in Nat :
            /\ due = f[stack.agent - 1] /\ upTo = f[stack.agent] /\ all = f[AgentCount]
            /\ begun = Begun(prices) /\ one = turn
      BY <2>3
    <3>2. was <= due + rest + begun /\ is + begun <= was + one
      BY <2>1, <2>2, <2>4, <2>5, <3>1, Zenon
    <3>3. upTo <= all /\ due + rest + one <= upTo /\ full = rest + one
      BY <2>3, <2>4, <3>1, Zenon
    <3>4. is <= due + full /\ is <= upTo /\ is <= all
      BY <3>2, <3>3
    <3>5. QED BY <3>1, <3>4, Zenon
  <2>7. /\ leaves'.billed[prices] <= f[stack.agent - 1] + (drawn + 1) * turn
        /\ leaves'.billed[prices] <= f[stack.agent] /\ leaves'.billed[prices] <= f[AgentCount]
    BY <2>4, <2>5, <2>6, Zenon
  <2>8. QED BY <2>7, Zenon DEF drawn, turn
<1>3. CASE stackPc' = "breached" /\ stack' = stack
  <2>1. StackPlaces'
    BY <1>3 DEF StackBills, StackPlaces, StackEnds, AtWork, Escalates
  <2>2. ASSUME NEW prices \in PriceTables, NEW f, FirstIsDearest(prices), Dues(prices, f),
               BilledWithin(prices, f)
        PROVE  BilledWithin(prices, f)'
    BY <1>2, <1>3, <2>2 DEF BilledWithin, AtWork, StackEnds
  <2>3. QED BY <1>1, <1>3, <2>1, <2>2, BillsFollow
<1>4. CASE Samples /\ ~(stackPc' = "breached" /\ stack' = stack)
  <2>1. PICK cost, key :
          /\ stackPc' = "sample"
          /\ stack' = [stack EXCEPT !.samples = Append(stack.samples, key), !.second = FALSE,
                                    !.seen = Max({stack.seen, cost})]
    BY <1>4 DEF TakeAnswer
  <2>2. /\ stack'.mode = stack.mode /\ stack'.routes = stack.routes /\ stack'.agent = stack.agent
        /\ stack'.second = FALSE /\ stack'.samples = Append(stack.samples, key)
    BY <2>1 DEF StackInv, StackTyped, StackFields
  <2>3. Len(stack'.samples) = Len(stack.samples) + 1
    BY <2>2 DEF StackInv, StackTyped
  <2>4. Draws' = Draws /\ Samples' = Samples /\ Draws \in Nat
    BY <2>2, SameCall, StackAssumption DEF Draws
  <2>5. Len(stack'.samples) <= Draws'
    BY <1>1, <2>3, <2>4
  <2>6. StackPlaces'
    BY <1>1, <1>4, <2>1, <2>2, <2>4, <2>5 DEF StackBills, StackPlaces, StackEnds, AtWork
  <2>7. ASSUME NEW prices \in PriceTables, NEW f, FirstIsDearest(prices), Dues(prices, f),
               BilledWithin(prices, f)
        PROVE  BilledWithin(prices, f)'
    <3>1. Turn(prices, stack.agent)' = Turn(prices, stack.agent)
      BY <2>2 DEF Turn, Escalates, FirstModel, RouteField
    <3>2. Begun(prices)' = 0
      BY <2>2 DEF Begun
    <3>3. /\ leaves'.billed[prices] <=
                f[stack.agent - 1] + Len(stack'.samples) * Turn(prices, stack.agent)
      BY <1>2, <2>3, <2>7
    <3>4. /\ f[stack.agent - 1] \in Nat
          /\ Len(stack'.samples) * Turn(prices, stack.agent) \in Nat
      <4>1. f[stack.agent - 1] \in Nat
        BY <1>1, <2>7, DueCovers DEF StackBills
      <4>2. Len(stack'.samples) \in Nat /\ Turn(prices, stack.agent) \in Nat
        BY <1>1, <2>3, TurnIsPriced
      <4>3. QED BY <4>1, <4>2
    <3>5. f[stack.agent - 1] + Len(stack'.samples) * Turn(prices, stack.agent) + 0
             = f[stack.agent - 1] + Len(stack'.samples) * Turn(prices, stack.agent)
      BY <3>4
    <3>6. leaves'.billed[prices] <=
             f[stack'.agent - 1] + Len(stack'.samples) * Turn(prices, stack.agent)' + Begun(prices)'
      BY <2>2, <3>1, <3>2, <3>3, <3>5
    <3>7. QED BY <2>1, <3>6 DEF BilledWithin, AtWork, StackEnds
  <2>8. stackPc' # "idle"
    BY <2>1
  <2>9. QED BY <1>1, <2>2, <2>6, <2>7, <2>8, BillsFollow
<1>5. CASE ~Samples /\ ~(stackPc' = "breached" /\ stack' = stack)
  <2>1. PICK how : AgentDone(how)
    BY <1>5 DEF TakeAnswer
  <2>2. /\ stackPc' = "agent" /\ stack'.mode = stack.mode /\ stack'.routes = stack.routes
        /\ stack'.agent = stack.agent + 1 /\ stack'.second = stack.second
    BY <2>1 DEF AgentDone, StackInv, StackTyped, StackFields
  <2>3. StackPlaces'
    <3>1. stack'.agent \in 1 .. AgentCount + 1
      BY <1>1, <2>2, AgentsHaveModels
    <3>2. QED BY <2>2, <3>1 DEF StackBills, StackPlaces, AtWork, StackEnds, Escalates
  <2>4. ASSUME NEW prices \in PriceTables, NEW f, FirstIsDearest(prices), Dues(prices, f),
               BilledWithin(prices, f)
        PROVE  BilledWithin(prices, f)'
    <3>1. stack'.agent - 1 = stack.agent
      BY <1>1, <2>2
    <3>2. leaves'.billed[prices] <= f[stack.agent]
      BY <1>2, <2>4
    <3>3. QED BY <2>2, <3>1, <3>2 DEF BilledWithin, AtWork, StackEnds
  <2>5. stackPc' # "idle"
    BY <2>2
  <2>6. QED BY <1>1, <2>2, <2>3, <2>4, <2>5, BillsFollow
<1>6. QED BY <1>3, <1>4, <1>5

LEMMA BillsOfAnswer == StackInv /\ StackBills /\ ProviderAnswers => StackBills'
<1> SUFFICES ASSUME StackInv, StackBills, ProviderAnswers PROVE StackBills'
  OBVIOUS
<1>1. stackPc = "flight" /\ stackPc \in AtWork /\ StackPlaces
  BY DEF ProviderAnswers, AtWork, StackBills
<1>2. PICK owed : BillAnswer(owed)
  BY DEF ProviderAnswers
<1>3. /\ leaves'.billed \in [PriceTables -> Nat]
      /\ \A prices \in PriceTables : leaves'.billed[prices] = leaves.billed[prices] + prices[Answering]
  <2>1. leaves'.billed = [prices \in PriceTables |-> leaves.billed[prices] + prices[Answering]]
    BY <1>2 DEF BillAnswer
  <2>2. \A prices \in PriceTables : leaves.billed[prices] \in Nat /\ prices[Answering] \in Nat
    BY <1>1, AnswerPriced DEF StackBills
  <2>3. QED BY <2>1, <2>2
<1>4. CASE \/ stackPc' = "breached" /\ stack' = stack
           \/ \E cost, key, paid : TakeAnswer(cost, key, paid)
  <2>1. ASSUME NEW prices \in PriceTables, FirstIsDearest(prices)
        PROVE  leaves'.billed[prices] + Begun(prices)
                  <= leaves.billed[prices] + Turn(prices, stack.agent)
    <3>1. /\ leaves.billed[prices] \in Nat /\ prices[Answering] \in Nat
          /\ Begun(prices) + prices[Answering] <= Turn(prices, stack.agent)
      BY <1>1, <2>1, AnswerPriced DEF StackBills
    <3>2. Begun(prices) \in Nat /\ Turn(prices, stack.agent) \in Nat
      <4>1. stack.agent \in 1 .. AgentCount
        BY <1>1, AgentsHaveModels DEF StackPlaces
      <4>2. QED BY <4>1, TurnIsPriced
    <3>3. leaves'.billed[prices] = leaves.billed[prices] + prices[Answering]
      BY <1>3
    <3>4. QED BY <3>1, <3>2, <3>3
  <2>2. QED BY <1>1, <1>3, <1>4, <2>1, BillsOfTurn
<1>5. CASE Escalate
  <2>1. /\ Escalates /\ ~stack.second /\ stackPc' = "leaf"
        /\ stack' = [stack EXCEPT !.second = TRUE]
    BY <1>5 DEF Escalate
  <2>2. /\ stack'.mode = stack.mode /\ stack'.routes = stack.routes /\ stack'.agent = stack.agent
        /\ stack'.second = TRUE /\ stack'.samples = stack.samples
    BY <2>1 DEF StackInv, StackTyped, StackFields
  <2>3. StackPlaces'
    <3>1. Escalates' = Escalates /\ Draws' = Draws
      BY <2>2, SameCall
    <3>2. QED BY <1>1, <2>1, <2>2, <3>1 DEF StackPlaces, AtWork, StackEnds
  <2>4. ASSUME NEW prices \in PriceTables, NEW f, FirstIsDearest(prices), Dues(prices, f),
               BilledWithin(prices, f)
        PROVE  BilledWithin(prices, f)'
    <3> DEFINE drawn == Len(stack.samples)
               turn == Turn(prices, stack.agent)
               primary == prices[Resolve(PrimaryModel)]
    <3>1. leaves.billed[prices] <= f[stack.agent - 1] + drawn * turn + 0
      BY <1>1, <2>1, <2>4 DEF BilledWithin, Begun
    <3>2. drawn * turn \in Nat /\ f[stack.agent - 1] \in Nat
      BY <1>1, <2>4, DueCovers
    <3>3. leaves'.billed[prices] = leaves.billed[prices] + primary /\ primary \in Nat
      BY <1>1, <1>3, <2>1, AnswerPriced, TurnIsPriced
    <3>4. PICK rest \in Nat, was \in Nat : rest = drawn * turn /\ was = leaves.billed[prices]
      BY <3>2 DEF StackBills
    <3>5. leaves'.billed[prices] <= f[stack.agent - 1] + rest + primary
      BY <3>1, <3>2, <3>3, <3>4
    <3>6. Begun(prices)' = primary /\ Turn(prices, stack.agent)' = turn
      BY <2>2 DEF Begun, Turn, Escalates, FirstModel, RouteField
    <3>7. leaves'.billed[prices] <=
             f[stack'.agent - 1] + Len(stack'.samples) * Turn(prices, stack.agent)' + Begun(prices)'
      BY <2>2, <3>4, <3>5, <3>6
    <3>8. QED BY <2>1, <3>7 DEF BilledWithin, AtWork, StackEnds
  <2>5. stackPc # "idle" /\ stackPc' # "idle"
    BY <1>1, <2>1
  <2>6. QED BY <1>3, <2>2, <2>3, <2>4, <2>5, BillsFollow
<1>6. QED BY <1>4, <1>5 DEF ProviderAnswers

LEMMA BillsOfReplay == StackInv /\ StackBills /\ SampleReplayed => StackBills'
<1> SUFFICES ASSUME StackInv, StackBills, SampleReplayed PROVE StackBills'
  OBVIOUS
<1>1. stackPc = "leaf" /\ stackPc \in AtWork /\ StackPlaces
  BY DEF SampleReplayed, AtWork, StackBills
<1>2. leaves'.billed = leaves.billed /\ \E cost, key, paid : TakeAnswer(cost, key, paid)
  BY DEF SampleReplayed, StackInv, StackTyped
<1>3. ASSUME NEW prices \in PriceTables
      PROVE  leaves'.billed[prices] + Begun(prices) <= leaves.billed[prices] + Turn(prices, stack.agent)
  <2>1. leaves.billed[prices] \in Nat
    BY DEF StackBills
  <2>2. Begun(prices) = 0
    BY <1>1 DEF SampleReplayed, StackPlaces, Escalates, Begun
  <2>3. Turn(prices, stack.agent) \in Nat
    <3>1. stack.agent \in 1 .. AgentCount
      BY <1>1, AgentsHaveModels DEF StackPlaces
    <3>2. QED BY <3>1, TurnIsPriced
  <2>4. QED BY <1>2, <2>1, <2>2, <2>3
<1>4. leaves'.billed \in [PriceTables -> Nat]
  BY <1>2 DEF StackBills
<1>5. QED BY <1>1, <1>2, <1>3, <1>4, BillsOfTurn

LEMMA BillsKept == StackInv /\ StackBills /\ [StackNext]_stackVars => StackBills'
<1> SUFFICES ASSUME StackInv, StackBills, [StackNext]_stackVars PROVE StackBills'
  OBVIOUS
<1>1. CASE StackCancel \/ UNCHANGED stackVars
  <2>1. stackPc' = stackPc /\ stack' = stack /\ leaves' = leaves
    BY <1>1 DEF StackCancel, stackVars
  <2>2. StackPlaces'
    <3>1. /\ Draws' = Draws /\ Escalates' = Escalates /\ Samples' = Samples
          /\ Candidates(stack.agent, stack.second)' = Candidates(stack.agent, stack.second)
      BY <2>1 DEF Draws, Samples, Escalates, Candidates, RouteField
    <3>2. QED BY <2>1, <3>1 DEF StackBills, StackPlaces
  <2>3. CASE stackPc = "idle"
    BY <2>1, <2>2, <2>3 DEF StackBills
  <2>4. CASE stackPc # "idle"
    <3>1. ASSUME NEW prices \in PriceTables, NEW f, BilledWithin(prices, f)
          PROVE  BilledWithin(prices, f)'
      <4>1. Begun(prices)' = Begun(prices) /\ Turn(prices, stack.agent)' = Turn(prices, stack.agent)
        BY <2>1 DEF Begun, Turn, Escalates, FirstModel, RouteField
      <4>2. QED BY <2>1, <3>1, <4>1 DEF BilledWithin
    <3>2. leaves'.billed \in [PriceTables -> Nat]
      BY <2>1 DEF StackBills
    <3>3. QED BY <2>1, <2>2, <2>4, <3>1, <3>2, BillsFollow
  <2>5. QED BY <2>3, <2>4
<1>2. QED BY <1>1, BillsOpened, BillsOfNext, BillsOfMoves, BillsOfVote, BillsOfAnswer, BillsOfReplay
      DEF StackNext

----------------------------------------------------------------------------

\* The products of the shapes a preview finds along the wrappers: none, one or two
LEMMA ShortProducts ==
  /\ \A s \in [1 .. 0 -> Nat] : Product(s) = 1
  /\ \A s \in [1 .. 1 -> Nat] : Product(s) = s[1]
  /\ \A s \in [1 .. 2 -> Nat] : Product(s) = s[1] * s[2]
<1>1. ASSUME NEW s \in [1 .. 0 -> Nat] PROVE Product(s) = 1
  <2>1. PICK f \in [0 .. 0 -> Nat] : Product(s) = f[0] /\ f[0] = 1
    BY Products
  <2>2. QED BY <2>1
<1>2. ASSUME NEW s \in [1 .. 1 -> Nat] PROVE Product(s) = s[1]
  <2>1. PICK f \in [0 .. 1 -> Nat] :
           Product(s) = f[1] /\ f[0] = 1 /\ \A k \in 1 .. 1 : f[k] = f[k - 1] * s[k]
    <3>1. PICK n \in Nat : n = 1
      OBVIOUS
    <3>2. \E f \in [0 .. n -> Nat] :
             Product(s) = f[n] /\ f[0] = 1 /\ \A k \in 1 .. n : f[k] = f[k - 1] * s[k]
      BY <3>1, Products
    <3>3. QED BY <3>1, <3>2
  <2>2. f[1] = f[0] * s[1] /\ s[1] \in Nat
    <3>1. f[1] = f[1 - 1] * s[1]
      BY <2>1
    <3>2. 1 - 1 = 0
      OBVIOUS
    <3>3. QED BY <3>1, <3>2
  <2>3. QED BY <2>1, <2>2
<1>3. ASSUME NEW s \in [1 .. 2 -> Nat] PROVE Product(s) = s[1] * s[2]
  <2>1. PICK f \in [0 .. 2 -> Nat] :
           Product(s) = f[2] /\ f[0] = 1 /\ \A k \in 1 .. 2 : f[k] = f[k - 1] * s[k]
    <3>1. PICK n \in Nat : n = 2
      OBVIOUS
    <3>2. \E f \in [0 .. n -> Nat] :
             Product(s) = f[n] /\ f[0] = 1 /\ \A k \in 1 .. n : f[k] = f[k - 1] * s[k]
      BY <3>1, Products
    <3>3. QED BY <3>1, <3>2
  <2>2. f[1] = f[0] * s[1] /\ f[2] = f[1] * s[2] /\ s[1] \in Nat
    <3>1. f[1] = f[1 - 1] * s[1] /\ f[2] = f[2 - 1] * s[2]
      BY <2>1
    <3>2. 1 - 1 = 0 /\ 2 - 1 = 1
      OBVIOUS
    <3>3. QED BY <3>1, <3>2
  <2>3. f[1] = s[1]
    BY <2>1, <2>2
  <2>4. QED BY <2>1, <2>2, <2>3
<1>4. QED BY <1>1, <1>2, <1>3

\* What a preview takes the wrappers for
PinnedDraws(pinned) == IF pinned THEN SampleK ELSE MinK
PricedEscalation(prices) == EscalateShape(prices[Resolve(PrimaryModel)], prices[Resolve(StrongModel)])

LEMMA WrappersAreShapes ==
  ASSUME NEW prices \in PriceTables, NEW pinned \in BOOLEAN
  PROVE  /\ IsShape(QuorumShape(pinned)) /\ IsShape(PricedEscalation(prices))
         /\ QuorumShape(pinned).num = PinnedDraws(pinned) /\ QuorumShape(pinned).den = 1
         /\ PinnedDraws(pinned) \in Nat
         /\ prices[Resolve(PrimaryModel)] > 0 =>
               /\ PricedEscalation(prices).num =
                     prices[Resolve(PrimaryModel)] + prices[Resolve(StrongModel)]
               /\ PricedEscalation(prices).den = prices[Resolve(PrimaryModel)]
<1>1. PinnedDraws(pinned) \in Nat \ {0}
  BY StackAssumption DEF PinnedDraws
<1>2. PICK p \in Nat, s \in Nat : p = prices[Resolve(PrimaryModel)] /\ s = prices[Resolve(StrongModel)]
  BY TurnIsPriced
<1>3. \A k \in Nat \ {0} : IsShape(Times(k)) /\ Times(k).num = k /\ Times(k).den = 1
  BY DEF IsShape, Times
<1>4. QuorumShape(pinned) = Times(PinnedDraws(pinned))
  BY DEF QuorumShape, PinnedDraws
<1>5. PricedEscalation(prices) = EscalateShape(p, s)
  BY <1>2 DEF PricedEscalation
<1>6. CASE p = 0
  <2>1. EscalateShape(p, s) = Times(2)
    BY <1>6 DEF EscalateShape
  <2>2. QED BY <1>1, <1>2, <1>3, <1>4, <1>5, <1>6, <2>1
<1>7. CASE p > 0
  <2>1. EscalateShape(p, s) = [num |-> p + s, den |-> p, rate |-> {}, ci |-> 0]
    BY <1>7 DEF EscalateShape
  <2>2. IsShape(EscalateShape(p, s))
    BY <1>7, <2>1 DEF IsShape
  <2>3. EscalateShape(p, s).num = p + s /\ EscalateShape(p, s).den = p
    BY <2>1
  <2>4. QED BY <1>1, <1>2, <1>3, <1>4, <1>5, <2>2, <2>3
<1>8. QED BY <1>6, <1>7

LEMMA ShapesOfMode ==
  ASSUME StackPlaces, NEW prices \in PriceTables, NEW pinned \in BOOLEAN
  PROVE  LET shapes == FromRuntime(stack.mode, prices, pinned)
             q == QuorumShape(pinned)
             e == PricedEscalation(prices)
         IN  /\ ~Escalates /\ ~Samples => shapes = <<>>
             /\ Escalates /\ ~Samples => shapes = <<e>>
             /\ ~Escalates /\ Samples => shapes = <<q>>
             /\ Escalates /\ Samples => shapes = <<q, e>>
             /\ shapes \in Seq(Range(shapes)) /\ \E n \in Nat : ShapeList(n, shapes)
<1> DEFINE shapes == FromRuntime(stack.mode, prices, pinned)
           q == QuorumShape(pinned)
           e == PricedEscalation(prices)
<1>1. IsShape(q) /\ IsShape(e)
  BY WrappersAreShapes
<1> HIDE DEF q, e
<1>2. stack.mode \in Modes
  BY DEF StackPlaces
<1>3. /\ stack.mode = "plain" => shapes = <<>>
      /\ stack.mode = "escalate" => shapes = <<e>>
      /\ stack.mode = "quorum" => shapes = <<q>>
      /\ stack.mode = "nested" => shapes = <<q>> \o <<e>>
  BY DEF FromRuntime, PricedEscalation, q, e
<1>4. <<q>> \o <<e>> = <<q, e>>
  <2>1. <<q>> \in Seq({q, e}) /\ <<e>> \in Seq({q, e}) /\ <<q, e>> = Append(<<q>>, e)
    OBVIOUS
  <2>2. QED BY <2>1, AppendIsConcat
<1> HIDE DEF shapes
<1>5. /\ ~Escalates /\ ~Samples => shapes = <<>>
      /\ Escalates /\ ~Samples => shapes = <<e>>
      /\ ~Escalates /\ Samples => shapes = <<q>>
      /\ Escalates /\ Samples => shapes = <<q, e>>
  BY <1>2, <1>3, <1>4 DEF Modes, Escalates, Samples
<1>6. shapes \in {<<>>, <<e>>, <<q>>, <<q, e>>}
  BY <1>5
<1>7. shapes \in Seq(Range(shapes))
  <2>1. <<>> \in Seq({q, e}) /\ <<e>> \in Seq({q, e}) /\ <<q>> \in Seq({q, e}) /\ <<q, e>> \in Seq({q, e})
    OBVIOUS
  <2>2. shapes \in Seq({q, e})
    BY <1>6, <2>1
  <2>3. QED BY <2>2 DEF Range
<1>8. \E n \in Nat : ShapeList(n, shapes)
  <2>1. CASE shapes = <<>>
    <3>1. ShapeList(0, shapes)
      BY <2>1 DEF ShapeList
    <3>2. QED BY <3>1
  <2>2. CASE shapes = <<e>> \/ shapes = <<q>>
    <3>1. ShapeList(1, shapes)
      BY <1>1, <2>2 DEF ShapeList
    <3>2. QED BY <3>1
  <2>3. CASE shapes = <<q, e>>
    <3>1. DOMAIN shapes = 1 .. 2 /\ shapes[1] = q /\ shapes[2] = e
      BY <2>3
    <3>2. ShapeList(2, shapes)
      BY <1>1, <3>1 DEF ShapeList
    <3>3. QED BY <3>2
  <2>4. QED BY <1>6, <2>1, <2>2, <2>3
<1>9. QED BY <1>5, <1>7, <1>8 DEF shapes, q, e

\* A bill of so many draws, in a preview's units
LEMMA DrawsPriced ==
  ASSUME NEW billed \in Nat, NEW c \in Nat, NEW t \in Nat, NEW draws \in Nat, NEW total \in Nat,
         billed * c <= (draws * t) * total, NEW k \in Nat, draws <= k
  PROVE  /\ billed * (10 * c) <= total * (10 * (draws * t))
         /\ billed * (10 * 1 * (10 * c)) <= total * (10 * k * (10 * t))
<1>1. PICK owed \in Nat, due \in Nat : owed = billed * c /\ due = (draws * t) * total
  <2>1. billed * c \in Nat /\ draws * t \in Nat
    OBVIOUS
  <2>2. (draws * t) * total \in Nat
    BY <2>1
  <2>3. QED BY <2>1, <2>2
<1>2. owed <= due
  BY <1>1
<1>3. billed * (10 * c) = 10 * owed /\ total * (10 * (draws * t)) = 10 * due
  BY <1>1
<1>4. billed * (10 * 1 * (10 * c)) = 100 * owed
  BY <1>1
<1>5. PICK one \in Nat : one = t * total
  <2>1. t * total \in Nat
    OBVIOUS
  <2>2. QED BY <2>1
<1>6. due = draws * one /\ total * (10 * k * (10 * t)) = 100 * (k * one)
  BY <1>1, <1>5
<1>7. draws * one <= k * one /\ k * one \in Nat
  <2>1. one <= one
    OBVIOUS
  <2>2. k * one \in Nat
    OBVIOUS
  <2>3. QED BY <2>1, <2>2, TimesGrows
<1>8. PICK most \in Nat : most = k * one
  BY <1>7
<1>9. due <= most
  BY <1>6, <1>7, <1>8
<1>10. 10 * owed <= 10 * due /\ 100 * owed <= 100 * most
  BY <1>2, <1>9
<1>11. QED BY <1>3, <1>4, <1>6, <1>8, <1>10

\* All turns of all agents, against the one turn of each that is estimated
LEMMA BillWithinEstimate ==
  ASSUME StackInv, StackBills, stackPc \in StackEnds, NEW prices \in PriceTables,
         FirstIsDearest(prices), Escalates => PrimaryIsTheirs(prices)
  PROVE  /\ Estimate(prices) \in Nat
         /\ ~Escalates => leaves.billed[prices] * 1 <= (Draws * 1) * Estimate(prices)
         /\ Escalates =>
               leaves.billed[prices] * prices[Resolve(PrimaryModel)]
                  <= (Draws * (prices[Resolve(PrimaryModel)] + prices[Resolve(StrongModel)]))
                        * Estimate(prices)
<1>1. PICK n \in Nat : n = AgentCount
  BY AgentsHaveModels
<1>2. PICK f : Dues(prices, f) /\ leaves.billed[prices] <= f[n]
  <2>1. stackPc # "idle"
    BY DEF StackEnds
  <2>2. PICK f : Dues(prices, f) /\ BilledWithin(prices, f)
    BY <2>1 DEF StackBills
  <2>3. QED BY <1>1, <2>2 DEF BilledWithin
<1> DEFINE u == [k \in 1 .. n |-> Draws * Turn(prices, k)]
           w == [k \in DOMAIN AgentModels |-> prices[FirstModel(k)]]
<1>3. w \in [1 .. n -> Nat] /\ \A k \in 1 .. n : w[k] = prices[FirstModel(k)]
  BY <1>1, AgentsHaveModels, TurnIsPriced
<1>4. Estimate(prices) = Total(w)
  BY DEF Estimate
<1>5. u \in [1 .. n -> Nat] /\ \A k \in 1 .. n : u[k] = Draws * Turn(prices, k)
  <2>1. ASSUME NEW k \in 1 .. n PROVE Draws * Turn(prices, k) \in Nat
    <3>1. Draws \in Nat /\ Turn(prices, k) \in Nat
      BY <1>1, TurnIsPriced
    <3>2. QED BY <3>1
  <2>2. QED BY <2>1
<1> HIDE DEF u, w
<1>6. f \in [0 .. n -> Nat] /\ f[0] = 0 /\ \A k \in 1 .. n : f[k] = f[k - 1] + u[k]
  BY <1>1, <1>2, <1>5 DEF Dues
<1>7. f[n] \in Nat /\ leaves.billed[prices] \in Nat /\ Draws \in Nat
  <2>1. n \in 0 .. n
    OBVIOUS
  <2>2. QED BY <1>6, <2>1, TurnIsPriced DEF StackBills
<1>8. ASSUME NEW c \in Nat, NEW t \in Nat,
             \A k \in 1 .. n : Turn(prices, k) * c <= t * w[k]
      PROVE  Total(w) \in Nat /\ leaves.billed[prices] * c <= (Draws * t) * Total(w)
  <2>1. PICK d \in Nat : d = Draws * t
    <3>1. Draws * t \in Nat
      BY <1>7
    <3>2. QED BY <3>1
  <2>2. ASSUME NEW k \in 1 .. n PROVE NoMore(u[k], c, d, w[k])
    <3>1. PICK turn \in Nat, price \in Nat, draws \in Nat :
            turn = Turn(prices, k) /\ price = w[k] /\ draws = Draws
      <4>1. Turn(prices, k) \in Nat /\ w[k] \in Nat
        BY <1>1, <1>3, TurnIsPriced
      <4>2. QED BY <1>7, <4>1
    <3>2. PICK x \in Nat, y \in Nat : x = turn * c /\ y = t * price
      <4>1. turn * c \in Nat /\ t * price \in Nat
        OBVIOUS
      <4>2. QED BY <4>1
    <3>3. x <= y /\ draws <= draws
      BY <1>8, <3>1, <3>2
    <3>4. draws * x <= draws * y
      BY <3>3, TimesGrows
    <3>5. (draws * turn) * c = draws * x /\ (draws * t) * price = draws * y
      BY <3>2
    <3>6. u[k] = draws * turn /\ d = draws * t /\ w[k] = price
      BY <1>5, <2>1, <3>1
    <3>7. QED BY <3>4, <3>5, <3>6 DEF NoMore
  <2>3. NoMore(f[n], c, d, Total(w)) /\ Total(w) \in Nat
    <3>1. u \in [1 .. n -> Nat] /\ w \in [1 .. n -> Nat]
      BY <1>3, <1>5
    <3> HIDE DEF u
    <3>2. AddsUp(n, u, f)
      BY <1>6, <3>1 DEF AddsUp
    <3>3. Outweighs(n, u, c, d, w)
      BY <2>2, <3>1 DEF Outweighs
    <3>4. QED BY <3>2, <3>3, TotalsScale
  <2>4. leaves.billed[prices] * c <= f[n] * c
    <3>1. c <= c
      OBVIOUS
    <3>2. QED BY <1>2, <1>7, <3>1, TimesGrows
  <2>5. leaves.billed[prices] * c \in Int /\ f[n] * c \in Int /\ d * Total(w) \in Int
    BY <1>7, <2>3
  <2>6. QED BY <2>1, <2>3, <2>4, <2>5 DEF NoMore
<1>9. CASE ~Escalates
  <2>1. \A k \in 1 .. n : Turn(prices, k) * 1 <= 1 * w[k]
    BY <1>1, <1>3, <1>9, TurnIsPriced DEF Turn
  <2>2. Total(w) \in Nat /\ leaves.billed[prices] * 1 <= (Draws * 1) * Total(w)
    BY <1>8, <2>1
  <2>3. QED BY <1>4, <1>9, <2>2
<1>10. CASE Escalates
  <2>1. PICK p \in Nat, s \in Nat : p = prices[Resolve(PrimaryModel)] /\ s = prices[Resolve(StrongModel)]
    BY TurnIsPriced
  <2>2. PICK t \in Nat : t = p + s
    OBVIOUS
  <2>3. ASSUME NEW k \in 1 .. n PROVE Turn(prices, k) * p <= t * w[k]
    <3>1. Turn(prices, k) = t
      BY <1>10, <2>1, <2>2 DEF Turn
    <3>2. k \in DOMAIN AgentModels /\ PrimaryIsTheirs(prices)
      BY <1>1, <1>10, AgentsHaveModels
    <3>3. p <= w[k] /\ w[k] \in Nat /\ t <= t
      BY <1>3, <2>1, <3>2 DEF PrimaryIsTheirs
    <3>4. t * p <= t * w[k]
      BY <3>3, TimesGrows
    <3>5. QED BY <3>1, <3>4
  <2>4. Total(w) \in Nat /\ leaves.billed[prices] * p <= (Draws * t) * Total(w)
    BY <1>8, <2>3
  <2>5. QED BY <1>4, <1>10, <2>1, <2>2, <2>4
<1>11. QED BY <1>9, <1>10

LEMMA OneShape ==
  ASSUME NEW shape, NEW shapes, NEW n \in Nat, shapes = <<shape>>, DOMAIN shapes = 1 .. n
  PROVE  shapes[1] = shape /\ n = 1
<1>1. DOMAIN <<shape>> = 1 .. 1 /\ <<shape>>[1] = shape
  OBVIOUS
<1>2. 1 .. n = 1 .. 1
  BY <1>1
<1>3. n \in 1 .. n \/ n = 0
  OBVIOUS
<1>4. 1 \in 1 .. n
  BY <1>2
<1>5. QED BY <1>1, <1>2, <1>3, <1>4

LEMMA PreviewHolds == StackInv /\ StackBills => PreviewCovers
<1> SUFFICES ASSUME StackInv, StackBills, stackPc \in StackEnds,
                    NEW prices \in PriceTables, NEW pinned \in BOOLEAN
             PROVE  LET shapes == FromRuntime(stack.mode, prices, pinned)
                        band == Compose(Estimate(prices), shapes)
                    IN  /\ (/\ Escalates => PrimaryIsTheirs(prices)
                            /\ FirstIsDearest(prices)
                            /\ Samples => pinned \/ SampleK <= MinK)
                                => leaves.billed[prices] * band.den <= band.worst
                        /\ \A others \in OtherShapes :
                             LET outer == Compose(Estimate(prices), others \o shapes) IN
                                /\ outer.lower <= outer.lo /\ outer.lo <= outer.expected
                                /\ outer.expected <= outer.hi /\ outer.hi <= outer.worst
                                /\ outer.worst * band.den >= band.worst * outer.den
  BY DEF PreviewCovers
<1> DEFINE shapes == FromRuntime(stack.mode, prices, pinned)
           total == Estimate(prices)
           band == Compose(total, shapes)
           q == QuorumShape(pinned)
           e == PricedEscalation(prices)
<1>1. total \in Nat
  <2>1. PICK n \in Nat : n = AgentCount
    BY AgentsHaveModels
  <2> DEFINE w == [k \in DOMAIN AgentModels |-> prices[FirstModel(k)]]
  <2>2. w \in [1 .. n -> Nat] /\ Estimate(prices) = Total(w)
    BY <2>1, AgentsHaveModels, TurnIsPriced DEF Estimate
  <2> HIDE DEF w
  <2>3. PICK f \in [0 .. n -> Nat] : Total(w) = f[n]
    BY <2>2, Totals
  <2>4. n \in 0 .. n
    OBVIOUS
  <2>5. QED BY <2>2, <2>3, <2>4
<1>2. /\ ~Escalates /\ ~Samples => shapes = <<>>
      /\ Escalates /\ ~Samples => shapes = <<e>>
      /\ ~Escalates /\ Samples => shapes = <<q>>
      /\ Escalates /\ Samples => shapes = <<q, e>>
      /\ shapes \in Seq(Range(shapes)) /\ \E n \in Nat : ShapeList(n, shapes)
  BY ShapesOfMode DEF StackBills
<1> HIDE DEF shapes, total, q, e
<1>3. PICK n \in Nat : ShapeList(n, shapes)
  BY <1>2
<1>4. ASSUME NEW others \in OtherShapes
      PROVE  LET outer == Compose(total, others \o shapes) IN
               /\ outer.lower <= outer.lo /\ outer.lo <= outer.expected
               /\ outer.expected <= outer.hi /\ outer.hi <= outer.worst
               /\ outer.worst * band.den >= band.worst * outer.den
  <2>1. others \in Seq(Range(others)) /\ \A shape \in Range(others) : IsShape(shape)
    BY StackAssumption
  <2>2. PICK m \in Nat : m = Len(others) /\ DOMAIN others = 1 .. m
    BY <2>1
  <2>3. ShapeList(m, others)
    BY <2>1, <2>2 DEF ShapeList, Range
  <2>4. QED BY <1>1, <1>2, <1>3, <2>1, <2>3, OthersCover
<1>5. ASSUME Escalates => PrimaryIsTheirs(prices), FirstIsDearest(prices),
             Samples => pinned \/ SampleK <= MinK
      PROVE  leaves.billed[prices] * band.den <= band.worst
  <2>1. band.den = Product(Dens(shapes)) /\ band.worst = total * Product(Worsts(shapes))
    BY <1>1, <1>3, BandOrdered
  <2>2. Dens(shapes) \in [1 .. n -> Nat] /\ Worsts(shapes) \in [1 .. n -> Nat]
    BY <1>3, FactorLists
  <2>3. DOMAIN shapes = 1 .. n
    BY <1>3 DEF ShapeList
  <2>4. PICK p \in Nat, s \in Nat, k \in Nat, draws \in Nat, billed \in Nat :
          /\ p = prices[Resolve(PrimaryModel)] /\ s = prices[Resolve(StrongModel)]
          /\ k = PinnedDraws(pinned) /\ draws = Draws /\ billed = leaves.billed[prices]
    <3>1. /\ prices[Resolve(PrimaryModel)] \in Nat /\ prices[Resolve(StrongModel)] \in Nat
          /\ PinnedDraws(pinned) \in Nat /\ Draws \in Nat /\ leaves.billed[prices] \in Nat
      BY TurnIsPriced, WrappersAreShapes DEF StackBills
    <3>2. QED BY <3>1
  <2>5. /\ q.num = k /\ q.den = 1
        /\ p > 0 => e.num = p + s /\ e.den = p
    BY <2>4, WrappersAreShapes DEF q, e
  <2>6. /\ ~Escalates => billed * 1 <= (draws * 1) * total
        /\ Escalates => billed * p <= (draws * (p + s)) * total
    BY <1>5, <2>4, BillWithinEstimate DEF total
  <2>7. Escalates => p > 0
    BY <1>5, <2>4 DEF PrimaryIsTheirs
  <2>8. Samples => draws <= k
    BY <1>5, <2>4, StackAssumption DEF Draws, PinnedDraws
  <2>9. ~Samples => draws = 1
    BY <2>4 DEF Draws
  <2>10. CASE ~Escalates /\ ~Samples
    <3>1. shapes = <<>> /\ n = 0
      BY <1>2, <2>3, <2>10
    <3>2. Product(Dens(shapes)) = 1 /\ Product(Worsts(shapes)) = 1
      BY <2>2, <3>1, ShortProducts
    <3>3. billed * 1 <= total * 1
      BY <1>1, <2>6, <2>9, <2>10
    <3>4. QED BY <2>1, <2>4, <3>2, <3>3
  <2>11. CASE Escalates /\ ~Samples
    <3>1. shapes = <<e>> /\ shapes[1] = e /\ n = 1 /\ DOMAIN shapes = 1 .. 1
      <4>1. shapes = <<e>>
        BY <1>2, <2>11
      <4>2. shapes[1] = e /\ n = 1
        BY <2>3, <4>1, OneShape
      <4>3. QED BY <2>3, <4>1, <4>2
    <3>2. Product(Dens(shapes)) = 10 * p /\ Product(Worsts(shapes)) = 10 * (p + s)
      <4>1. Dens(shapes)[1] = 10 * p /\ Worsts(shapes)[1] = 10 * (p + s)
        BY <2>5, <2>7, <2>11, <3>1 DEF Dens, Worsts, WorstNum
      <4>2. QED BY <2>2, <3>1, <4>1, ShortProducts
    <3>3. PICK t \in Nat : t = p + s
      OBVIOUS
    <3>4. billed * p <= (draws * t) * total /\ draws <= draws
      BY <2>6, <2>11, <3>3
    <3>5. billed * (10 * p) <= total * (10 * (draws * t))
      BY <1>1, <3>4, DrawsPriced
    <3>6. draws * t = t
      BY <2>9, <2>11
    <3>7. QED BY <2>1, <2>4, <3>2, <3>3, <3>5, <3>6
  <2>12. CASE ~Escalates /\ Samples
    <3>1. shapes = <<q>> /\ shapes[1] = q /\ n = 1 /\ DOMAIN shapes = 1 .. 1
      <4>1. shapes = <<q>>
        BY <1>2, <2>12
      <4>2. shapes[1] = q /\ n = 1
        BY <2>3, <4>1, OneShape
      <4>3. QED BY <2>3, <4>1, <4>2
    <3>2. Product(Dens(shapes)) = 10 * 1 /\ Product(Worsts(shapes)) = 10 * k
      <4>1. Dens(shapes)[1] = 10 * 1 /\ Worsts(shapes)[1] = 10 * k
        BY <2>5, <3>1 DEF Dens, Worsts, WorstNum
      <4>2. QED BY <2>2, <3>1, <4>1, ShortProducts
    <3>3. PICK one \in Nat : one = 1
      OBVIOUS
    <3>4. billed * one <= (draws * one) * total
      BY <2>6, <2>12, <3>3
    <3>5. billed * (10 * one) <= total * (10 * (draws * one)) /\ draws <= k
      BY <1>1, <2>8, <2>12, <3>4, DrawsPriced
    <3>6. total * (10 * draws) <= total * (10 * k)
      <4>1. 10 * draws \in Nat /\ 10 * k \in Nat /\ 10 * draws <= 10 * k /\ total <= total
        BY <1>1, <3>5
      <4>2. QED BY <1>1, <4>1, TimesGrows
    <3>7. billed * (10 * 1) <= total * (10 * draws)
      BY <3>3, <3>5
    <3>8. billed * (10 * 1) \in Int /\ total * (10 * draws) \in Int /\ total * (10 * k) \in Int
      BY <1>1
    <3>9. QED BY <2>1, <2>4, <3>2, <3>6, <3>7, <3>8
  <2>13. CASE Escalates /\ Samples
    <3>1. shapes = <<q, e>> /\ shapes[1] = q /\ shapes[2] = e /\ n = 2 /\ DOMAIN shapes = 1 .. 2
      BY <1>2, <2>3, <2>13
    <3>2. Product(Dens(shapes)) = 10 * 1 * (10 * p) /\ Product(Worsts(shapes)) = 10 * k * (10 * (p + s))
      <4>1. /\ Dens(shapes)[1] = 10 * 1 /\ Worsts(shapes)[1] = 10 * k
            /\ Dens(shapes)[2] = 10 * p /\ Worsts(shapes)[2] = 10 * (p + s)
        BY <2>5, <2>7, <2>13, <3>1 DEF Dens, Worsts, WorstNum
      <4>2. QED BY <2>2, <3>1, <4>1, ShortProducts
    <3>3. PICK t \in Nat : t = p + s
      OBVIOUS
    <3>4. billed * p <= (draws * t) * total /\ draws <= k
      BY <2>6, <2>8, <2>13, <3>3
    <3>5. billed * (10 * 1 * (10 * p)) <= total * (10 * k * (10 * t))
      BY <1>1, <3>4, DrawsPriced
    <3>6. QED BY <2>1, <2>4, <3>2, <3>3, <3>5
  <2>14. QED BY <2>10, <2>11, <2>12, <2>13
<1>6. QED BY <1>4, <1>5 DEF shapes, total

(* Whatever wrappers a Run's calls go through, nested or routed, and however many *)
(* of them failed over, stopped early, were replayed or were cancelled: all that  *)
(* was answered is charged, and at every table of prices that keeps the preview's *)
(* own suppositions the turns that models answered cost no more than the worst    *)
(* case it gave before the first of them; its band is in order, and further       *)
(* shapes make its worst case no smaller (estimate_cost, CostShape.from_runtime   *)
(* and compose_cost over ProviderRuntime, EscalatingRuntime, QuorumRuntime and    *)
(* RoutingRuntime).                                                               *)
THEOREM SpendStaysForeseen == StackSpec => []SpendIsForeseen
<1>1. StackInv /\ StackBills => SpendIsForeseen
  <2>1. StackInv => SpendAccountsForLeaves
    BY DEF StackInv, StackSpends, SpendAccountsForLeaves
  <2>2. QED BY <2>1, PreviewHolds DEF SpendIsForeseen
<1>2. StackInit => StackInv /\ StackBills
  BY StackStarts, BillsStart
<1>3. StackInv /\ StackBills /\ [StackNext]_stackVars => (StackInv /\ StackBills)'
  BY StackKept, BillsKept
<1>4. QED BY <1>1, <1>2, <1>3, PTL DEF StackSpec

----------------------------------------------------------------------------
(* The vote                                                                 *)

\* A key is held by as many samples as there are, at most.
LEMMA TallyCounts ==
  ASSUME NEW samples \in Seq(VoteKeys), NEW key
  PROVE  /\ IsFiniteSet({k \in DOMAIN samples : samples[k] = key})
         /\ Tally(samples, key) \in Nat /\ Tally(samples, key) <= Len(samples)
         /\ key \notin Range(samples) => Tally(samples, key) = 0
         /\ key \in Range(samples) => Tally(samples, key) > 0
<1> DEFINE held == {k \in DOMAIN samples : samples[k] = key}
<1>1. PICK n \in Nat : n = Len(samples) /\ DOMAIN samples = 1 .. n
  OBVIOUS
<1>2. IsFiniteSet(1 .. n) /\ Cardinality(1 .. n) = n
  BY FS_Interval
<1>3. held \in SUBSET (1 .. n)
  BY <1>1
<1>4. IsFiniteSet(held) /\ Cardinality(held) <= n /\ Cardinality(held) \in Nat
  BY <1>2, <1>3, FS_Subset, FS_CardinalityType
<1>5. key \notin Range(samples) <=> held = {}
  BY DEF Range
<1>6. Cardinality(held) = 0 <=> held = {}
  BY <1>4, FS_EmptySet
<1>7. Tally(samples, key) = Cardinality(held)
  BY DEF Tally
<1> HIDE DEF held
<1>8. QED BY <1>1, <1>4, <1>5, <1>6, <1>7 DEF held

LEMMA GreatestThereIs ==
  ASSUME NEW S, S \subseteq Nat, S # {}, NEW n \in Nat, \A s \in S : s <= n
  PROVE  Max(S) \in S /\ \A s \in S : s <= Max(S)
<1> DEFINE R == {n - s : s \in S}
<1>1. \A s \in S : n - s \in R /\ n - s \in Nat
  <2> SUFFICES ASSUME NEW s \in S PROVE n - s \in Nat
    OBVIOUS
  <2>1. s \in Nat /\ s <= n
    OBVIOUS
  <2>2. QED BY <2>1
<1>2. R \subseteq Nat /\ R # {}
  BY <1>1
<1>3. Min(R) \in R /\ \A r \in R : Min(R) <= r
  <2> HIDE DEF R
  <2>1. QED BY <1>2, LeastThereIs
<1>4. PICK m \in S : Min(R) = n - m
  BY <1>3
<1>5. \A s \in S : s <= m
  <2> SUFFICES ASSUME NEW s \in S PROVE s <= m
    OBVIOUS
  <2>1. n - s \in R
    BY <1>1
  <2>2. n - m <= n - s
    BY <1>3, <1>4, <2>1
  <2>3. QED BY <2>2
<1>6. QED BY <1>5 DEF Max

\* The leader is the answer of a sample, and of no fewer samples than any other.
LEMMA LeaderLeads ==
  ASSUME NEW samples \in Seq(VoteKeys), samples # <<>>
  PROVE  \A key : Tally(samples, key) <= Tally(samples, Leader(samples))
<1> DEFINE counts == {Tally(samples, key) : key \in Range(samples)}
           first == {k \in DOMAIN samples : Tally(samples, samples[k]) = TopTally(samples)}
<1>1. PICK n \in Nat : n = Len(samples) /\ n > 0 /\ DOMAIN samples = 1 .. n
  BY EmptySeq
<1>2. samples[1] \in Range(samples)
  BY <1>1 DEF Range
<1>3. counts \subseteq Nat /\ \A c \in counts : c <= n
  BY <1>1, TallyCounts
<1>4. Tally(samples, samples[1]) \in counts
  BY <1>2
<1>5. TopTally(samples) = Max(counts)
  BY DEF TopTally
<1>6. TopTally(samples) \in counts /\ \A c \in counts : c <= TopTally(samples)
  <2> HIDE DEF counts
  <2>1. counts # {}
    BY <1>4
  <2>2. QED BY <1>3, <1>5, <2>1, GreatestThereIs
<1>7. PICK key \in Range(samples) : Tally(samples, key) = TopTally(samples)
  BY <1>6
<1>8. PICK j \in DOMAIN samples : key = samples[j]
  BY <1>7 DEF Range
<1>9. first \subseteq Nat /\ j \in first
  BY <1>1, <1>7, <1>8
<1>10. Min(first) \in first
  <2> HIDE DEF first
  <2>1. QED BY <1>9, LeastThereIs
<1>11. Leader(samples) = samples[Min(first)]
  BY DEF Leader
<1>12. Tally(samples, Leader(samples)) = TopTally(samples)
  BY <1>10, <1>11
<1>13. ASSUME NEW other PROVE Tally(samples, other) <= TopTally(samples)
  <2>1. CASE other \in Range(samples)
    BY <1>6, <2>1
  <2>2. CASE other \notin Range(samples)
    <3>1. Tally(samples, other) = 0
      BY <2>2, TallyCounts
    <3>2. TopTally(samples) \in Nat
      BY <1>3, <1>6
    <3>3. QED BY <3>1, <3>2
  <2>3. QED BY <2>1, <2>2
<1>14. QED BY <1>12, <1>13

\* Samples that are not all distinct have two that agree.
LEMMA TwoAgree ==
  ASSUME NEW samples \in Seq(VoteKeys), Distinct(samples) # Len(samples)
  PROVE  \E key : Tally(samples, key) > 1
<1>1. PICK n \in Nat : n = Len(samples) /\ DOMAIN samples = 1 .. n
  OBVIOUS
<1>2. samples \in Surjection(1 .. n, Range(samples))
  BY <1>1 DEF Surjection, Range
<1>3. IsFiniteSet(1 .. n) /\ Cardinality(1 .. n) = n
  BY FS_Interval
<1>4. samples \notin Injection(1 .. n, Range(samples))
  BY <1>1, <1>2, <1>3, FS_Surjection DEF Distinct
<1>5. PICK j \in 1 .. n, k \in 1 .. n : j # k /\ samples[j] = samples[k]
  BY <1>1, <1>2, <1>4 DEF Surjection, Injection, IsInjective
<1> DEFINE held == {i \in DOMAIN samples : samples[i] = samples[j]}
<1>6. {j, k} \in SUBSET held
  BY <1>1, <1>5
<1>7. IsFiniteSet(held) /\ Tally(samples, samples[j]) = Cardinality(held)
  BY TallyCounts DEF Tally
<1>8. Cardinality({j, k}) = 2
  <2>1. IsFiniteSet({j}) /\ Cardinality({j}) = 1
    BY FS_Singleton
  <2>2. {j, k} = {j} \cup {k} /\ k \notin {j}
    BY <1>5
  <2>3. Cardinality({j} \cup {k}) = Cardinality({j}) + 1
    BY <2>1, <2>2, FS_AddElement
  <2>4. Cardinality({j, k}) = Cardinality({j} \cup {k})
    BY <2>2, Zenon
  <2>5. 1 + 1 = 2
    OBVIOUS
  <2>6. QED BY <2>1, <2>3, <2>4, <2>5, Zenon
<1>9. Cardinality({j, k}) <= Cardinality(held)
  <2> HIDE DEF held
  <2>1. QED BY <1>6, <1>7, FS_Subset
<1>10. Tally(samples, samples[j]) \in Nat
  BY TallyCounts
<1> HIDE DEF held
<1>11. Tally(samples, samples[j]) > 1
  BY <1>7, <1>8, <1>9, <1>10
<1>12. QED BY <1>11

(* A quorum's answer, unless it is the declared default, has at least as many    *)
(* samples behind it as any other, and more than one where there is more than    *)
(* one: whatever was sampled, in whichever order, and wherever it stopped        *)
(* (QuorumRuntime._vote).                                                        *)
THEOREM VotesStaySupported == StackSpec => VoteHasSupport
<1> DEFINE Votes(key) == Cardinality({k \in DOMAIN stack.samples : stack.samples[k] = key})
           Supported == stackPc = "vote" /\ stackPc' = "agent" /\ stack'.answer # "default" =>
                           /\ \A key \in VoteKeys : Votes(key) <= Votes(stack'.answer)
                           /\ Votes(stack'.answer) > 1 \/ Len(stack.samples) = 1
<1>1. StackInv /\ [StackNext]_stackVars => [Supported]_stackVars
  <2> SUFFICES ASSUME StackInv, StackNext, stackPc = "vote", stackPc' = "agent",
                      stack'.answer # "default"
               PROVE  /\ \A key \in VoteKeys : Votes(key) <= Votes(stack'.answer)
                      /\ Votes(stack'.answer) > 1 \/ Len(stack.samples) = 1
    BY DEF Supported
  <2>1. Vote
    BY DEF StackNext, StackBegin, NextAgent, NextSample, EnterLeaf, AskProvider, Failover,
           ProviderFails, Unwired, ProviderAnswers, SampleReplayed, StackCancel
  <2>2. DOMAIN stack = StackFields /\ stack.samples \in Seq(VoteKeys)
    BY DEF StackInv, StackTyped
  <2>3. ~IllDefined(stack.samples) /\ stack'.answer = Leader(stack.samples)
    <3>1. \E how : /\ stack' = [stack EXCEPT !.agent = stack.agent + 1, !.answer = how]
                   /\ how = "default" \/ (~IllDefined(stack.samples) /\ how = Leader(stack.samples))
      BY <2>1 DEF Vote, AgentDone, StackEnd
    <3>2. "answer" \in DOMAIN stack
      BY <2>2 DEF StackFields
    <3>3. QED BY <3>1, <3>2
  <2>4. \A key : Votes(key) = Tally(stack.samples, key)
    BY DEF Tally
  <2>5. stack.samples # <<>> /\ (Distinct(stack.samples) # Len(stack.samples) \/ ~(Len(stack.samples) > 1))
    BY <2>3 DEF IllDefined
  <2>6. \A key : Tally(stack.samples, key) <= Tally(stack.samples, stack'.answer)
    BY <2>2, <2>3, <2>5, LeaderLeads
  <2>7. CASE Len(stack.samples) > 1
    <3>1. PICK key : Tally(stack.samples, key) > 1
      BY <2>2, <2>5, <2>7, TwoAgree
    <3>2. Tally(stack.samples, key) \in Nat /\ Tally(stack.samples, stack'.answer) \in Nat
      BY <2>2, TallyCounts
    <3>3. Tally(stack.samples, stack'.answer) > 1
      BY <2>6, <3>1, <3>2
    <3>4. QED BY <2>4, <2>6, <3>3
  <2>8. CASE ~(Len(stack.samples) > 1)
    <3>1. PICK n \in Nat : n = Len(stack.samples)
      BY <2>2
    <3>2. n # 0
      BY <2>2, <2>5, <3>1, EmptySeq
    <3>3. ~(n > 1)
      BY <2>8, <3>1, Zenon
    <3>4. n = 1
      BY <3>2, <3>3
    <3>5. Len(stack.samples) = 1
      BY <3>1, <3>4, Zenon
    <3>6. \A key \in VoteKeys : Votes(key) <= Votes(stack'.answer)
      BY <2>4, <2>6
    <3>7. QED BY <3>5, <3>6, Zenon
  <2>9. QED BY <2>7, <2>8
<1>2. VoteHasSupport <=> [][Supported]_stackVars
  BY DEF VoteHasSupport
<1> HIDE DEF Supported
<1>3. QED BY <1>1, <1>2, StackStarts, StackKept, PTL DEF StackSpec

(* Wiring                                                                   *)

\* What feeds a type is what its parts' feeders make of it.  The recursive function is
\* the one there is, because a greatest one there is: Feeds only grows with what it is given.
FeedersStep(f) ==
    [c \in TypeDefs |-> {p \in TypeDefs : Feeds(p, c, [part \in Parts(c) |-> f[part]])}]

LEMMA FeedsGrows ==
    ASSUME NEW f \in [TypeDefs -> SUBSET TypeDefs], NEW g \in [TypeDefs -> SUBSET TypeDefs],
           \A c \in TypeDefs : f[c] \subseteq g[c]
    PROVE  \A c \in TypeDefs : FeedersStep(f)[c] \subseteq FeedersStep(g)[c]
<1> SUFFICES ASSUME NEW c \in TypeDefs, NEW p \in TypeDefs,
                    Feeds(p, c, [part \in Parts(c) |-> f[part]])
             PROVE  Feeds(p, c, [part \in Parts(c) |-> g[part]])
  BY DEF FeedersStep
<1>1. Parts(c) \subseteq TypeDefs
  BY WiringAssumption
<1>2. CASE c.kind = "optional"
  <2>1. c.item \in Parts(c)
    BY <1>2 DEF Parts
  <2> QED BY <1>1, <1>2, <2>1 DEF Feeds
<1>3. CASE c.kind = "list"
  <2>1. c.item \in Parts(c)
    BY <1>3 DEF Parts
  <2> QED BY <1>1, <1>3, <2>1 DEF Feeds, FromOptional
<1>4. CASE c.kind = "record"
  <2>1. \A x \in DOMAIN c.fields : c.fields[x] \in Parts(c)
    BY <1>4 DEF Parts
  <2> QED BY <1>1, <1>4, <2>1 DEF Feeds, FromOptional
<1>5. CASE c.kind \notin {"optional", "list", "record"}
  BY <1>5 DEF Feeds, FromOptional
<1> QED BY <1>2, <1>3, <1>4, <1>5

LEMMA FeedersAre == FeedersOf = FeedersStep(FeedersOf)
<1> DEFINE Fs == [TypeDefs -> SUBSET TypeDefs]
           Closed == {f \in Fs : \A c \in TypeDefs : f[c] \subseteq FeedersStep(f)[c]}
           G == [c \in TypeDefs |-> {p \in TypeDefs : \E f \in Closed : p \in f[c]}]
           H == FeedersStep(G)
<1>1. G \in Fs
  OBVIOUS
<1>2. \A f \in Fs : FeedersStep(f) \in Fs
  BY DEF FeedersStep
<1>3. H \in Fs
  BY <1>1, <1>2
<1>4. \A f \in Closed : f \in Fs /\ \A c \in TypeDefs : f[c] \subseteq G[c]
  OBVIOUS
<1>5. \A c \in TypeDefs : G[c] \subseteq H[c]
  <2> SUFFICES ASSUME NEW c \in TypeDefs, NEW p \in G[c] PROVE p \in H[c]
    OBVIOUS
  <2>1. PICK f \in Closed : p \in f[c]
    OBVIOUS
  <2>2. f \in Fs /\ (\A d \in TypeDefs : f[d] \subseteq G[d]) /\ p \in FeedersStep(f)[c]
    BY <1>4, <2>1
  <2> HIDE DEF G, Closed
  <2> QED BY <1>1, <2>2, FeedsGrows
<1>6. H \in Closed
  <2> HIDE DEF G
  <2>1. \A c \in TypeDefs : H[c] \subseteq FeedersStep(H)[c]
    <3> HIDE DEF H
    <3>1. \A c \in TypeDefs : FeedersStep(G)[c] \subseteq FeedersStep(H)[c]
      BY <1>1, <1>3, <1>5, FeedsGrows
    <3> QED BY <3>1 DEF H
  <2> HIDE DEF H
  <2> QED BY <1>3, <2>1
<1>7. G = H
  <2> HIDE DEF H, G, Closed
  <2>1. \A x \in TypeDefs : H[x] \subseteq G[x]
    BY <1>4, <1>6
  <2>2. \A x \in TypeDefs : G[x] = H[x]
    BY <1>5, <2>1
  <2>3. G = [x \in TypeDefs |-> G[x]] /\ H = [x \in TypeDefs |-> H[x]]
    BY <1>1, <1>3
  <2> QED BY <2>2, <2>3
<1>8. \E f : f = FeedersStep(f)
  BY <1>7
<1>9. \E f : f = [c \in TypeDefs |-> LET of == [part \in Parts(c) |-> f[part]]
                                     IN {p \in TypeDefs : Feeds(p, c, of)}]
  BY <1>8, Zenon DEF FeedersStep
<1>10. FeedersOf = [c \in TypeDefs |-> LET of == [part \in Parts(c) |-> FeedersOf[part]]
                                       IN {p \in TypeDefs : Feeds(p, c, of)}]
  BY <1>9, Zenon DEF FeedersOf
<1> QED BY <1>10, Zenon DEF FeedersStep

\* Likewise the values of a type.
ValuesStep(f) ==
    [t \in TypeDefs |-> {v \in Json : Takes(t, v, [part \in Parts(t) |-> f[part]])}]

LEMMA TakesGrows ==
    ASSUME NEW f \in [TypeDefs -> SUBSET Json], NEW g \in [TypeDefs -> SUBSET Json],
           \A t \in TypeDefs : f[t] \subseteq g[t]
    PROVE  \A t \in TypeDefs : ValuesStep(f)[t] \subseteq ValuesStep(g)[t]
<1> SUFFICES ASSUME NEW t \in TypeDefs, NEW v \in Json,
                    Takes(t, v, [part \in Parts(t) |-> f[part]])
             PROVE  Takes(t, v, [part \in Parts(t) |-> g[part]])
  BY DEF ValuesStep
<1>1. Parts(t) \subseteq TypeDefs
  BY WiringAssumption
<1>2. CASE t.kind \in {"optional", "list"}
  <2>1. t.item \in Parts(t)
    BY <1>2 DEF Parts
  <2> QED BY <1>1, <1>2, <2>1 DEF Takes
<1>3. CASE t.kind = "record"
  <2>1. \A x \in DOMAIN t.fields : t.fields[x] \in Parts(t)
    BY <1>3 DEF Parts
  <2> QED BY <1>1, <1>3, <2>1 DEF Takes
<1>4. CASE t.kind \notin {"optional", "list", "record"}
  BY <1>4 DEF Takes
<1> QED BY <1>2, <1>3, <1>4

LEMMA ValuesAre == ValuesOf = ValuesStep(ValuesOf)
<1> DEFINE Fs == [TypeDefs -> SUBSET Json]
           Closed == {f \in Fs : \A t \in TypeDefs : f[t] \subseteq ValuesStep(f)[t]}
           G == [t \in TypeDefs |-> {v \in Json : \E f \in Closed : v \in f[t]}]
           H == ValuesStep(G)
<1>1. G \in Fs
  OBVIOUS
<1>2. \A f \in Fs : ValuesStep(f) \in Fs
  BY DEF ValuesStep
<1>3. H \in Fs
  BY <1>1, <1>2
<1>4. \A f \in Closed : f \in Fs /\ \A t \in TypeDefs : f[t] \subseteq G[t]
  OBVIOUS
<1>5. \A t \in TypeDefs : G[t] \subseteq H[t]
  <2> SUFFICES ASSUME NEW t \in TypeDefs, NEW v \in G[t] PROVE v \in H[t]
    OBVIOUS
  <2>1. PICK f \in Closed : v \in f[t]
    OBVIOUS
  <2>2. f \in Fs /\ (\A s \in TypeDefs : f[s] \subseteq G[s]) /\ v \in ValuesStep(f)[t]
    BY <1>4, <2>1
  <2> HIDE DEF G, Closed
  <2> QED BY <1>1, <2>2, TakesGrows
<1>6. H \in Closed
  <2> HIDE DEF G
  <2>1. \A t \in TypeDefs : H[t] \subseteq ValuesStep(H)[t]
    <3> HIDE DEF H
    <3>1. \A t \in TypeDefs : ValuesStep(G)[t] \subseteq ValuesStep(H)[t]
      BY <1>1, <1>3, <1>5, TakesGrows
    <3> QED BY <3>1 DEF H
  <2> HIDE DEF H
  <2> QED BY <1>3, <2>1
<1>7. G = H
  <2> HIDE DEF H, G, Closed
  <2>1. \A x \in TypeDefs : H[x] \subseteq G[x]
    BY <1>4, <1>6
  <2>2. \A x \in TypeDefs : G[x] = H[x]
    BY <1>5, <2>1
  <2>3. G = [x \in TypeDefs |-> G[x]] /\ H = [x \in TypeDefs |-> H[x]]
    BY <1>1, <1>3
  <2> QED BY <2>2, <2>3
<1>8. \E f : f = ValuesStep(f)
  BY <1>7
<1>9. \E f : f = [t \in TypeDefs |-> LET of == [part \in Parts(t) |-> f[part]]
                                     IN {v \in Json : Takes(t, v, of)}]
  BY <1>8, Zenon DEF ValuesStep
<1>10. ValuesOf = [t \in TypeDefs |-> LET of == [part \in Parts(t) |-> ValuesOf[part]]
                                      IN {v \in Json : Takes(t, v, of)}]
  BY <1>9, Zenon DEF ValuesOf
<1> QED BY <1>10, Zenon DEF ValuesStep

\* A value of a type is one of every type that it feeds.
LEMMA FeedingKeepsValues ==
    ASSUME NEW p \in TypeDefs, NEW c \in TypeDefs, NEW v,
           Compatible(p, c), Accepts(p, v)
    PROVE  Accepts(c, v)
<1> DEFINE Kept(d) == \A q \in FeedersOf[d] : ValuesOf[q] \subseteq ValuesOf[d]
           S == {d \in TypeDefs : ~Kept(d)}
<1>1. /\ \A d, q \in TypeDefs :
            q \in FeedersOf[d] <=> Feeds(q, d, [part \in Parts(d) |-> FeedersOf[part]])
      /\ \A d \in TypeDefs : FeedersOf[d] \subseteq TypeDefs
  <2> DEFINE F == FeedersOf
  <2>1. F = FeedersStep(F)
    BY FeedersAre
  <2> HIDE DEF F
  <2>2. /\ \A d, q \in TypeDefs : q \in F[d] <=> Feeds(q, d, [part \in Parts(d) |-> F[part]])
        /\ \A d \in TypeDefs : F[d] \subseteq TypeDefs
    BY <2>1 DEF FeedersStep
  <2> QED BY <2>2 DEF F
<1>2. /\ \A t \in TypeDefs, u \in Json :
            u \in ValuesOf[t] <=> Takes(t, u, [part \in Parts(t) |-> ValuesOf[part]])
      /\ \A t \in TypeDefs : ValuesOf[t] \subseteq Json
  <2> DEFINE F == ValuesOf
  <2>1. F = ValuesStep(F)
    BY ValuesAre
  <2> HIDE DEF F
  <2>2. /\ \A t \in TypeDefs, u \in Json :
              u \in F[t] <=> Takes(t, u, [part \in Parts(t) |-> F[part]])
        /\ \A t \in TypeDefs : F[t] \subseteq Json
    BY <2>1 DEF ValuesStep
  <2> QED BY <2>2 DEF F
<1>3. ASSUME NEW d \in TypeDefs, Parts(d) \cap S = {} PROVE Kept(d)
  <2> SUFFICES ASSUME NEW q \in FeedersOf[d], NEW u \in ValuesOf[q] PROVE u \in ValuesOf[d]
    OBVIOUS
  <2>1. /\ q \in TypeDefs /\ u \in Json
        /\ Feeds(q, d, [part \in Parts(d) |-> FeedersOf[part]])
        /\ Takes(q, u, [part \in Parts(q) |-> ValuesOf[part]])
    BY <1>1, <1>2
  <2>2. SUFFICES Takes(d, u, [part \in Parts(d) |-> ValuesOf[part]])
    BY <1>2, <2>1
  <2>3. /\ Parts(d) \subseteq TypeDefs /\ Parts(q) \subseteq TypeDefs
        /\ \A part \in Parts(d) : \A r \in FeedersOf[part] : ValuesOf[r] \subseteq ValuesOf[part]
    BY <1>3, <2>1, WiringAssumption
  <2> HIDE DEF S, Kept
  <2>4. CASE d.kind = "optional" /\ q.kind = "optional"
    <3>1. d.item \in Parts(d) /\ q.item \in Parts(q)
      BY <2>4 DEF Parts
    <3>2. q.item \in FeedersOf[d.item]
      BY <2>1, <2>4, <3>1 DEF Feeds
    <3>3. u.tag = "null" \/ u \in ValuesOf[q.item]
      BY <2>1, <2>4, <3>1 DEF Takes
    <3>4. u.tag = "null" \/ u \in ValuesOf[d.item]
      BY <2>3, <3>1, <3>2, <3>3
    <3> QED BY <2>4, <3>1, <3>4 DEF Takes
  <2>5. CASE d.kind = "optional" /\ q.kind # "optional"
    <3>1. d.item \in Parts(d)
      BY <2>5 DEF Parts
    <3>2. q \in FeedersOf[d.item]
      BY <2>1, <2>5, <3>1 DEF Feeds
    <3>3. u \in ValuesOf[d.item]
      BY <2>3, <3>1, <3>2
    <3> QED BY <2>5, <3>1, <3>3 DEF Takes
  <2>6. CASE d.kind = "list"
    <3>1. q.kind = "list" /\ d.item \in Parts(d) /\ q.item \in Parts(q)
      BY <2>1, <2>6 DEF Parts, Feeds, FromOptional
    <3>2. q.item \in FeedersOf[d.item]
      BY <2>1, <2>6, <3>1 DEF Feeds
    <3>3. u.tag = "list" /\ \A k \in DOMAIN u.items : u.items[k] \in ValuesOf[q.item]
      BY <2>1, <3>1 DEF Takes
    <3>4. \A k \in DOMAIN u.items : u.items[k] \in ValuesOf[d.item]
      BY <2>3, <3>1, <3>2, <3>3
    <3> QED BY <2>6, <3>1, <3>3, <3>4 DEF Takes
  <2>7. CASE d.kind = "record"
    <3>1. /\ q.kind = "record"
          /\ \A x \in DOMAIN d.fields : d.fields[x] \in Parts(d)
          /\ \A x \in DOMAIN q.fields : q.fields[x] \in Parts(q)
      BY <2>1, <2>7 DEF Parts, Feeds, FromOptional
    <3>2. \A x \in DOMAIN d.fields :
              x \in DOMAIN q.fields /\ q.fields[x] \in FeedersOf[d.fields[x]]
      BY <2>1, <2>7, <3>1 DEF Feeds
    <3>3. /\ u.tag = "record"
          /\ \A x \in DOMAIN q.fields : x \in DOMAIN u.fields /\ u.fields[x] \in ValuesOf[q.fields[x]]
      BY <2>1, <3>1 DEF Takes
    <3>4. \A x \in DOMAIN d.fields : x \in DOMAIN u.fields /\ u.fields[x] \in ValuesOf[d.fields[x]]
      BY <2>3, <3>1, <3>2, <3>3
    <3> QED BY <2>7, <3>1, <3>3, <3>4 DEF Takes
  <2>8. CASE d.kind \notin {"optional", "list", "record"}
    <3>1. q.kind = d.kind /\ q.name = d.name
      BY <2>1, <2>8 DEF Feeds, FromOptional
    <3> QED BY <2>1, <2>8, <3>1 DEF Takes
  <2> QED BY <2>4, <2>5, <2>6, <2>7, <2>8
<1>4. S = {}
  <2>1. S \subseteq TypeDefs
    OBVIOUS
  <2>2. S # {} => \E d \in S : Parts(d) \cap S = {}
    <3> HIDE DEF S
    <3> QED BY <2>1, WiringAssumption
  <2> QED BY <1>3, <2>2
<1> QED BY <1>4 DEF Compatible, Accepts, Feeders, Accepted

Sound == {"wired", "produced", "gathered", "running", "InputBindingError", "InputValidationError"}

WiringInv ==
    /\ feeder.gives \in Seq(Params) /\ wants \in Seq(Params)
    /\ wireStep \in Sound => \A k \in DOMAIN wants : Wires(wants[k])
    /\ wireStep \in Sound \ {"wired"} =>
          IF feeder.kind = "output" THEN Produced(feeder.gives, payload)
          ELSE SourceGives(feeder.gives, payload)
    /\ wireStep \in Sound \ {"wired", "produced"} => bound = <<Gathered>>

LEMMA WiringInvInit == WiringInit => WiringInv
  BY DEF WiringInit, WiringInv, Sound

LEMMA WiringInvStep == WiringInv /\ [WiringNext]_wiringVars => WiringInv'
<1> SUFFICES ASSUME WiringInv, [WiringNext]_wiringVars PROVE WiringInv'
  OBVIOUS
<1>1. ASSUME Declare PROVE WiringInv'
  <2>1. PICK kind \in FeederKinds, p \in Params, rest \in {<<>>} \cup {<<q>> : q \in Params} :
            feeder' = [kind |-> kind, gives |-> <<p>> \o rest]
    BY <1>1 DEF Declare
  <2>2. <<p>> \o rest \in Seq(Params)
    <3>1. <<p>> \in Seq(Params) /\ \A q \in Params : <<q>> \in Seq(Params)
      OBVIOUS
    <3>2. CASE rest = <<>>
      <4>1. rest \in Seq(Params)
        BY <3>2
      <4> QED BY <3>1, <4>1
    <3>3. CASE rest \in {<<q>> : q \in Params}
      <4>1. rest \in Seq(Params)
        BY <3>1, <3>3
      <4> QED BY <3>1, <4>1
    <3> QED BY <3>2, <3>3
  <2>3. wants' \in Seq(Params) /\ wireStep' = "declared"
    BY <1>1 DEF Declare
  <2> QED BY <2>1, <2>2, <2>3 DEF WiringInv, Sound
<1>2. ASSUME CheckWiring PROVE WiringInv'
  BY <1>2 DEF CheckWiring, WiringInv, Sound, Wires, Provided
<1>3. ASSUME Produce PROVE WiringInv'
  BY <1>3 DEF Produce, WiringInv, Sound, Wires, Provided
<1>4. ASSUME Gather PROVE WiringInv'
  BY <1>4 DEF Gather, WiringInv, Sound, Wires, Provided, Gathered
<1>5. ASSUME Validate PROVE WiringInv'
  BY <1>5 DEF Validate, WiringInv, Sound, Wires, Provided, Gathered
<1>6. ASSUME UNCHANGED wiringVars PROVE WiringInv'
  BY <1>6 DEF wiringVars, WiringInv, Wires, Provided, Gathered
<1> QED BY <1>1, <1>2, <1>3, <1>4, <1>5, <1>6 DEF WiringNext

\* What fits a declaration fits each parameter that is in it.
LEMMA WiringInvSuffices == WiringInv => WiredValuesFit
<1> SUFFICES ASSUME WiringInv, wireStep = "InputValidationError",
                    NEW k \in DOMAIN wants, AsDeclared(wants[k]),
                    WrongType(wants[k])
             PROVE  FALSE
  BY DEF WiredValuesFit
<1> DEFINE want == wants[k]
<1>1. /\ want.type \in TypeDefs
      /\ \A g \in DOMAIN feeder.gives : feeder.gives[g].type \in TypeDefs
  <2>1. wants[k] \in Params /\ \A g \in DOMAIN feeder.gives : feeder.gives[g] \in Params
    BY DEF WiringInv
  <2>2. \A p \in Params : p.type \in TypeDefs
    BY WiringAssumption DEF Params
  <2> QED BY <2>1, <2>2
<1>2. Wires(want) /\ bound[1] = Gathered
  BY DEF WiringInv, Sound
<1>3. want.name \in DOMAIN Gathered /\ ~Accepts(want.type, Gathered[want.name])
  BY <1>2 DEF WrongType
<1>4. PICK g \in Provided(want.name) :
          Compatible(feeder.gives[g].type, want.type)
  BY <1>2 DEF Wires, AsDeclared
<1>5. g \in DOMAIN feeder.gives /\ feeder.gives[g].name = want.name
  BY <1>4 DEF Provided
<1>6. SUFFICES Accepts(feeder.gives[g].type, Gathered[want.name])
  BY <1>1, <1>3, <1>4, <1>5, FeedingKeepsValues
<1>7. IF feeder.kind = "output" THEN Produced(feeder.gives, payload)
      ELSE SourceGives(feeder.gives, payload)
  BY DEF WiringInv, Sound
<1>10. feeder.kind = "output" => Len(feeder.gives) # 1
  <2>1. feeder.kind = "output" => Len(feeder.gives) > 1
    BY DEF AsDeclared
  <2>2. Len(feeder.gives) \in Nat
    BY DEF WiringInv
  <2>3. \A n \in Nat : n > 1 => n # 1
    OBVIOUS
  <2> QED BY <2>1, <2>2, <2>3, Zenon
<1>8. CASE payload.tag = "record"
  <2>1. Gathered = payload.fields
    BY <1>8 DEF Gathered
  <2>2. Fits(feeder.gives, payload.fields)
    BY <1>7, <1>8, <1>10 DEF Produced, SourceGives
  <2> QED BY <1>3, <1>5, <2>1, <2>2 DEF Fits
<1>9. CASE payload.tag # "record"
  <2>1. feeder.kind # "output" /\ Len(feeder.gives) = 1 /\ Accepts(feeder.gives[1].type, payload)
    BY <1>7, <1>9, <1>10 DEF Produced, SourceGives
  <2>2. Gathered = Bare("item", payload) /\ want.name = "item"
    BY <1>3, <1>9 DEF Gathered, Nothing, Bare
  <2>3. g = 1
    BY <1>5, <2>1 DEF WiringInv
  <2> QED BY <2>1, <2>2, <2>3 DEF Bare
<1> QED BY <1>8, <1>9

(* Answers                                                                  *)

\* The braces of a text are in order.
LEMMA BracesAre ==
    ASSUME NEW text, IsText(text)
    PROVE  /\ Braces(text) \subseteq Nat \X Nat
           /\ Braces(text) # {} => FirstOf(Braces(text)) \in Braces(text)
           /\ \A b \in Braces(text) :
                 /\ ObjectAt(text, b) # Unread => ObjectAt(text, b) \in Json /\ ObjectAt(text, b).tag = "record"
<1>1. ASSUME NEW k \in DOMAIN text, NEW i \in DOMAIN ObjectsIn(text[k])
      PROVE  /\ k \in Nat /\ i \in Nat
             /\ ObjectsIn(text[k])[i] # Unread =>
                   ObjectsIn(text[k])[i] \in Json /\ ObjectsIn(text[k])[i].tag = "record"
  <2> DEFINE piece == text[k]
  <2>1. k \in Nat /\ (piece.is = "doc" => piece.v \in Json)
    BY DEF IsText
  <2>2. CASE piece.is = "broken"
    BY <2>1, <2>2 DEF ObjectsIn
  <2>3. CASE piece.is = "doc" /\ piece.v.tag = "record"
    BY <2>1, <2>3 DEF ObjectsIn
  <2>4. CASE piece.is = "doc" /\ piece.v.tag = "list"
    <3>1. i \in DOMAIN piece.v.items /\ piece.v.items[i].tag = "record"
          /\ ObjectsIn(piece)[i] = piece.v.items[i]
      BY <2>4 DEF ObjectsIn
    <3>2. DOMAIN piece.v.items \subseteq Nat /\ piece.v.items[i] \in Json
      BY <2>1, <2>4, <3>1, AnswersAssumption, WiringAssumption
    <3> QED BY <2>1, <3>1, <3>2
  <2>5. CASE piece.is # "broken" /\ ~(piece.is = "doc" /\ piece.v.tag \in {"record", "list"})
    <3>1. ObjectsIn(piece) = <<>>
      BY <2>5 DEF ObjectsIn
    <3> QED BY <3>1
  <2> QED BY <2>2, <2>3, <2>4, <2>5
<1>2. \A b \in Braces(text) :
         \E k \in DOMAIN text : \E i \in DOMAIN ObjectsIn(text[k]) : b = <<k, i>>
  BY DEF Braces
<1>3. Braces(text) \subseteq Nat \X Nat
  BY <1>1, <1>2
<1>4. ASSUME Braces(text) # {} PROVE FirstOf(Braces(text)) \in Braces(text)
  <2> DEFINE B == Braces(text)
             K == {b[1] : b \in B}
             m == Min(K)
             I == {b[2] : b \in {c \in B : c[1] = m}}
  <2>1. m \in K /\ \A k \in K : m <= k
    <3>1. K \subseteq Nat /\ K # {}
      BY <1>3, <1>4
    <3> HIDE DEF K
    <3> QED BY <3>1, LeastThereIs
  <2>2. PICK b0 \in B : b0[1] = m
    BY <2>1
  <2>3. Min(I) \in I /\ \A i \in I : Min(I) <= i
    <3>1. I \subseteq Nat /\ b0[2] \in I
      BY <1>3, <2>2
    <3> HIDE DEF I
    <3> QED BY <3>1, LeastThereIs
  <2>4. PICK b1 \in B : b1[1] = m /\ b1[2] = Min(I)
    BY <2>3
  <2>5. ASSUME NEW c \in B PROVE b1[1] < c[1] \/ (b1[1] = c[1] /\ b1[2] <= c[2])
    <3>1. m <= c[1] /\ m \in Nat /\ c[1] \in Nat
      BY <1>3, <2>1, <2>2
    <3>2. c[1] = m => c[2] \in I
      OBVIOUS
    <3>3. c[1] = m => b1[2] <= c[2]
      BY <2>3, <2>4, <3>2
    <3> HIDE DEF m, I, K, B
    <3> QED BY <2>4, <3>1, <3>3
  <2> HIDE DEF m, I, K, B
  <2>6. FirstOf(B) \in B
    BY <2>5 DEF FirstOf
  <2> QED BY <2>6 DEF B
<1>5. \A b \in Braces(text) :
         ObjectAt(text, b) # Unread => ObjectAt(text, b) \in Json /\ ObjectAt(text, b).tag = "record"
  BY <1>1, <1>2 DEF ObjectAt
<1> QED BY <1>3, <1>4, <1>5

\* A record that is parsed out of a text is an object that is opened in it.
LEMMA LoadsAnObject ==
    ASSUME NEW text, NEW part \in SUBSET DOMAIN text,
           Loads(text, part) # Unread, Loads(text, part).tag = "record"
    PROVE  Loads(text, part) \in Objects(text)
<1>1. PICK k \in part : part = {k}
  BY DEF Loads
<1>2. (CHOOSE i \in part : TRUE) = k
  BY <1>1
<1>3. text[k].is = "doc" /\ Loads(text, part) = text[k].v
  <2>1. CASE text[k].is = "doc"
    BY <1>1, <1>2, <2>1 DEF Loads
  <2>2. CASE text[k].is = "num"
    <3>1. Loads(text, part) = [tag |-> "float", n |-> text[k].n]
      BY <1>1, <1>2, <2>2 DEF Loads
    <3> QED BY <3>1
  <2>3. CASE text[k].is \notin {"doc", "num"}
    <3>1. Loads(text, part) = Unread
      BY <1>1, <1>2, <2>3 DEF Loads
    <3> QED BY <3>1
  <2> QED BY <2>1, <2>2, <2>3
<1>4. ObjectsIn(text[k]) = [i \in {0} |-> text[k].v]
  BY <1>3 DEF ObjectsIn
<1>5. <<k, 0>> \in Braces(text)
  <2>1. 0 \in DOMAIN ObjectsIn(text[k])
    BY <1>4
  <2> QED BY <1>1, <2>1 DEF Braces
<1>6. ObjectAt(text, <<k, 0>>) = text[k].v
  BY <1>4 DEF ObjectAt
<1> QED BY <1>3, <1>5, <1>6 DEF Objects

LEMMA ExtractsAnObject ==
    ASSUME NEW text, IsText(text), ExtractJson(text) # Unread, ExtractJson(text).tag = "record"
    PROVE  ExtractJson(text) \in Objects(text)
<1> DEFINE fenced == Loads(text, InFence(text, 1))
           whole == IF InFence(text, 0) = DOMAIN text THEN Loads(text, DOMAIN text) ELSE Unread
<1>1. CASE fenced # Unread
  <2>1. ExtractJson(text) = fenced
    BY <1>1 DEF ExtractJson
  <2>2. InFence(text, 1) \in SUBSET DOMAIN text
    BY DEF InFence
  <2> QED BY <2>1, <2>2, LoadsAnObject
<1>2. CASE fenced = Unread /\ whole # Unread
  <2>1. ExtractJson(text) = Loads(text, DOMAIN text)
    BY <1>2 DEF ExtractJson
  <2> QED BY <2>1, LoadsAnObject
<1>3. CASE fenced = Unread /\ whole = Unread
  <2> DEFINE spans == {k \in DOMAIN text : text[k].is \in {"doc", "broken"}}
  <2>1. ExtractJson(text) = OutermostSpan(text)
    BY <1>3 DEF ExtractJson
  <2>2. spans # {} /\ ExtractJson(text) = Loads(text, {Min(spans)})
    BY <2>1 DEF OutermostSpan
  <2>3. spans \subseteq Nat
    BY DEF IsText
  <2>4. Min(spans) \in spans
    <3> HIDE DEF spans
    <3> QED BY <2>2, <2>3, LeastThereIs
  <2>5. {Min(spans)} \in SUBSET DOMAIN text
    BY <2>4
  <2> QED BY <2>2, <2>5, LoadsAnObject
<1> QED BY <1>1, <1>2, <1>3

\* What is read as a number is one.
LEMMA FirstNumberIs ==
    ASSUME NEW text, IsText(text)
    PROVE  FirstNumber(text) \in Int
<1> DEFINE bearing == {k \in DOMAIN text : Numbers(text[k]) # {}}
<1>1. ASSUME NEW k \in DOMAIN text PROVE Numbers(text[k]) \subseteq Nat
  <2> DEFINE piece == text[k]
  <2>1. (piece.is = "num" => piece.n \in Nat) /\ (piece.is = "doc" => piece.v \in Json)
    BY DEF IsText
  <2>2. CASE piece.is = "num"
    BY <2>1, <2>2 DEF Numbers
  <2>3. CASE piece.is = "doc" /\ piece.v.tag = "record"
    <3>1. \A v \in Range(piece.v.fields) : v \in Json
      BY <2>1, <2>3, WiringAssumption DEF Range
    <3>2. \A v \in Range(piece.v.fields) : "n" \in DOMAIN v => v.n \in Nat
      BY <3>1, AnswersAssumption
    <3>3. Numbers(piece) = {value.n : value \in {v \in Range(piece.v.fields) : "n" \in DOMAIN v}}
      BY <2>3 DEF Numbers
    <3> QED BY <3>2, <3>3
  <2>4. CASE piece.is # "num" /\ ~(piece.is = "doc" /\ piece.v.tag = "record")
    BY <2>4 DEF Numbers
  <2> QED BY <2>2, <2>3, <2>4
<1>2. CASE bearing = {}
  BY <1>2 DEF FirstNumber, None
<1>3. CASE bearing # {}
  <2>1. bearing \subseteq Nat
    BY DEF IsText
  <2>2. Min(bearing) \in bearing
    <3> HIDE DEF bearing
    <3> QED BY <1>3, <2>1, LeastThereIs
  <2>3. FirstNumber(text) = CHOOSE n \in Numbers(text[Min(bearing)]) : TRUE
    BY <1>3 DEF FirstNumber
  <2>4. Numbers(text[Min(bearing)]) # {} /\ Numbers(text[Min(bearing)]) \subseteq Nat
    BY <1>1, <2>2
  <2> HIDE DEF bearing
  <2> QED BY <2>3, <2>4
<1> QED BY <1>2, <1>3

LEMMA NumericIs ==
    ASSUME NEW v \in Json
    PROVE  Numeric(v) \in Int
<1>1. CASE "n" \in DOMAIN v
  <2>1. v.n \in Nat
    BY <1>1, AnswersAssumption
  <2> QED BY <1>1, <2>1 DEF Numeric
<1>2. CASE "n" \notin DOMAIN v /\ v.tag = "str" /\ "text" \in DOMAIN v
  <2>1. FirstNumber(v.text) \in Int
    BY <1>2, AnswersAssumption, FirstNumberIs
  <2> QED BY <1>2, <2>1 DEF Numeric
<1>3. CASE "n" \notin DOMAIN v /\ ~(v.tag = "str" /\ "text" \in DOMAIN v)
  <2>1. Numeric(v) = None
    BY <1>3 DEF Numeric
  <2>2. None \in Int
    BY DEF None
  <2> QED BY <2>1, <2>2
<1> QED BY <1>1, <1>2, <1>3

\* A record that validation lets through, where the text is projected or where it is not.
LEMMA TypedFields ==
    ASSUME IsText(reply), TypedValue # Unread, IsRecord(TypedValue)
    PROVE  \/ \E object \in Objects(reply) \ {Unread} :
                 \A f \in DOMAIN TypedValue.fields :
                     f \in DOMAIN object.fields /\ object.fields[f] = TypedValue.fields[f]
           \/ /\ HasGrammar /\ ~repairing /\ FirstObject(reply) = Unread
              /\ DOMAIN TypedValue.fields = {}
<1>1. ~PassThrough(job.outputs) /\ TypedValue = ExtractJson(Projected)
  <2>1. PassThrough(job.outputs) => TypedValue.tag = "str"
    BY DEF TypedValue
  <2> QED BY <2>1 DEF TypedValue, IsRecord
<1>2. CASE HasGrammar /\ ~repairing
  <2> DEFINE made == EnforceJson(job.outputs, reply)
             text == <<[is |-> "doc", v |-> made, fence |-> 0]>>
  <2>1. Projected = text
    BY <1>2 DEF Projected
  <2>2. made.tag = "record" /\ made # Unread
    BY DEF EnforceJson, Unread
  <2>3. /\ InFence(text, 1) = {} /\ InFence(text, 0) = {1} /\ DOMAIN text = {1}
        /\ text[1].is = "doc" /\ text[1].v = made
    <3> HIDE DEF made
    <3> QED BY DEF InFence
  <2>4. Loads(text, {}) = Unread
    BY DEF Loads
  <2>5. Loads(text, {1}) = made
    <3>1. (CHOOSE k \in {1} : TRUE) = 1
      OBVIOUS
    <3> HIDE DEF made, text
    <3> QED BY <2>3, <3>1 DEF Loads
  <2>6. ExtractJson(text) = made
    <3> HIDE DEF made, text
    <3> QED BY <2>2, <2>3, <2>4, <2>5 DEF ExtractJson
  <2>7. CASE FirstObject(reply) = Unread
    <3>1. DOMAIN made.fields = {}
      BY <2>7 DEF EnforceJson, Nothing
    <3> QED BY <1>1, <1>2, <2>1, <2>6, <2>7, <3>1
  <2>8. CASE FirstObject(reply) # Unread
    <3> DEFINE object == FirstObject(reply)
    <3>1. object \in Objects(reply)
      <4>1. Braces(reply) # {} /\ object = ObjectAt(reply, FirstOf(Braces(reply)))
        BY <2>8 DEF FirstObject
      <4> QED BY <4>1, BracesAre DEF Objects
    <3>2. \A f \in DOMAIN made.fields : f \in DOMAIN object.fields /\ object.fields[f] = made.fields[f]
      BY <2>8 DEF EnforceJson
    <3> HIDE DEF made, object
    <3> QED BY <1>1, <2>1, <2>6, <2>8, <3>1, <3>2 DEF object
  <2> QED BY <2>7, <2>8
<1>3. CASE ~(HasGrammar /\ ~repairing)
  <2>1. TypedValue = ExtractJson(reply)
    BY <1>1, <1>3 DEF Projected
  <2>2. TypedValue \in Objects(reply)
    BY <2>1, ExtractsAnObject DEF IsRecord
  <2> QED BY <2>2
<1> QED BY <1>2, <1>3

LetThrough == {"asking", "answered", "done", "ready", "routed", "OutputValidationError"}
Turned == {"authoring", "TargetMustBeStaticError", "ValueError", "UnroutableLabelError",
           "ConsequentialTargetChoiceError"}

\* What was made of the last answer is what it says, and what was reached is a Sink of an
\* accepted Router.
AnswersInv ==
    /\ answerStep \in LetThrough \cup Turned
    /\ answerStep \in LetThrough => job \in Jobs /\ Assembled(job) = "asking"
    /\ answerStep \in Turned => reached = {}
    /\ answerStep \in LetThrough /\ job.router.agent => reached \subseteq SinksOf(job.router)
    /\ IsText(reply)
    /\ IF answerStep \in {"done", "ready", "routed"} THEN typed = TypedValue ELSE typed = Unread
    /\ LET made == [value |-> typed, tainted |-> job.fluidIn \/ toolUsed]
       IN /\ answerStep = "done" => output = made
          /\ answerStep \in {"ready", "routed"} => output = AbstainBelow(made, job.decline)

LEMMA AnswersInvInit == AnswersInit => AnswersInv
<1> SUFFICES ASSUME AnswersInit PROVE AnswersInv
  OBVIOUS
<1>1. IsText(reply)
  BY DEF AnswersInit, IsText
<1>2. answerStep = "authoring" /\ reached = {} /\ typed = Unread
  BY DEF AnswersInit
<1> QED BY <1>1, <1>2 DEF AnswersInv, LetThrough, Turned

\* What a classifier of an accepted Router finds has a branch.
LEMMA LabelsHaveBranches ==
    ASSUME NEW j \in Jobs, Assembled(j) = "asking"
    PROVE  /\ j.router.agent => \A text : Normalise(j.router, text) \in DOMAIN j.router.branches
           /\ ~j.router.agent => \A value : Classify(j.router, value) \in DOMAIN j.router.branches
           /\ j.router.agent => Cardinality(SinksOf(j.router)) <= 1
           /\ IsFiniteSet(SinksOf(j.router))
<1> DEFINE router == j.router
<1>1. /\ router.default \in Range(LabelsOf(router))
      /\ Range(LabelsOf(router)) \subseteq DOMAIN router.branches
      /\ GatesNotChooses(router)
  BY DEF Assembled
<1>2. router.labels \in Seq(Range(router.labels)) /\ IsFiniteSet(DOMAIN router.branches)
  BY AnswersAssumption
<1>3. \A k \in DOMAIN router.labels : router.labels[k] \in Range(LabelsOf(router))
  <2> SUFFICES ASSUME NEW k \in DOMAIN router.labels
               PROVE  router.labels[k] \in Range(LabelsOf(router))
    OBVIOUS
  <2>1. CASE LabelsOf(router) = router.labels
    BY <2>1 DEF Range
  <2>2. CASE LabelsOf(router) = Append(router.labels, router.default)
    <3>1. /\ k \in DOMAIN Append(router.labels, router.default)
          /\ Append(router.labels, router.default)[k] = router.labels[k]
      BY <1>2
    <3> QED BY <2>2, <3>1 DEF Range
  <2> QED BY <2>1, <2>2 DEF LabelsOf
<1>4. \A K \in SUBSET DOMAIN router.labels : K # {} => Min(K) \in DOMAIN router.labels
  <2> SUFFICES ASSUME NEW K \in SUBSET DOMAIN router.labels, K # {}
               PROVE  Min(K) \in DOMAIN router.labels
    OBVIOUS
  <2>1. DOMAIN router.labels \subseteq Nat
    BY <1>2
  <2> QED BY <2>1, LeastThereIs
<1>5. \A text : Normalise(router, text) \in DOMAIN router.branches
  <2> SUFFICES ASSUME NEW text PROVE Normalise(router, text) \in DOMAIN router.branches
    OBVIOUS
  <2> DEFINE tokens == {text[k].w : k \in {i \in DOMAIN text : text[i].is = "word"}}
             present == {k \in DOMAIN router.labels : router.labels[k] \in tokens}
  <2>1. Normalise(router, text) =
            IF present = {} THEN router.default ELSE router.labels[Min(present)]
    BY DEF Normalise
  <2>2. present \in SUBSET DOMAIN router.labels
    OBVIOUS
  <2> HIDE DEF present, tokens
  <2> QED BY <1>1, <1>3, <1>4, <2>1, <2>2
<1>6. \A value : Classify(router, value) \in DOMAIN router.branches
  <2> SUFFICES ASSUME NEW value PROVE Classify(router, value) \in DOMAIN router.branches
    OBVIOUS
  <2> DEFINE matching == {k \in DOMAIN router.labels : TestHolds(router.tests[router.labels[k]], value)}
  <2>1. Classify(router, value) =
            IF matching = {} THEN router.default ELSE router.labels[Min(matching)]
    BY DEF Classify
  <2>2. matching \in SUBSET DOMAIN router.labels
    OBVIOUS
  <2> HIDE DEF matching
  <2> QED BY <1>1, <1>3, <1>4, <2>1, <2>2
<1>7. IsFiniteSet(SinksOf(router))
  <2> DEFINE L == {l \in DOMAIN router.branches : router.branches[l].is = "sink"}
  <2>1. IsFiniteSet(L)
    BY <1>2, FS_Subset
  <2> DEFINE T == {router.branches[label].name : label \in L}
             f == [label \in L |-> router.branches[label].name]
  <2>2. IsFiniteSet(T)
    <3>1. f \in Surjection(L, T)
      <4> HIDE DEF L
      <4> QED BY DEF Surjection
    <3> HIDE DEF f, L, T
    <3> QED BY <2>1, <3>1, FS_Surjection
  <2> QED BY <2>2 DEF SinksOf
<1> QED BY <1>1, <1>5, <1>6, <1>7 DEF GatesNotChooses

LEMMA AnswersInvStep == AnswersInv /\ [AnswersNext]_answersVars => AnswersInv'
<1> SUFFICES ASSUME AnswersInv, [AnswersNext]_answersVars PROVE AnswersInv'
  OBVIOUS
<1>0. UNCHANGED <<job, repairing, reply>> => TypedValue' = TypedValue
  BY DEF TypedValue, Projected, HasGrammar
<1>1. ASSUME Assemble PROVE AnswersInv'
  <2>1. PICK j \in Jobs : job' = j /\ answerStep' = Assembled(j)
    BY <1>1 DEF Assemble
  <2>2. Assembled(j) \in (Turned \ {"authoring"}) \cup {"asking"}
    BY DEF Assembled, Turned
  <2>3. UNCHANGED <<reply, typed, reached>> /\ reached = {} /\ typed = Unread /\ IsText(reply)
    BY <1>1 DEF Assemble, AnswersInv, Turned
  <2> QED BY <2>1, <2>2, <2>3 DEF AnswersInv, LetThrough, Turned
<1>2. ASSUME AgentAnswers PROVE AnswersInv'
  <2>1. answerStep = "asking" /\ answerStep' \in {"asking", "answered"}
    BY <1>2 DEF AgentAnswers
  <2>2. IsText(reply)' /\ UNCHANGED <<job, typed, reached>>
    <3>1. IsText(reply) /\ \A text \in Texts : IsText(text)
      BY AnswersAssumption DEF AnswersInv
    <3>2. reply' = reply \/ reply' \in Texts
      BY <1>2 DEF AgentAnswers
    <3> QED BY <1>2, <3>1, <3>2 DEF AgentAnswers
  <2> QED BY <2>1, <2>2 DEF AnswersInv, LetThrough, Turned
<1>3. ASSUME Validated PROVE AnswersInv'
  <2>1. /\ answerStep = "answered" /\ answerStep' = "done"
        /\ UNCHANGED <<job, repairing, reply, toolUsed, reached>>
        /\ typed' = TypedValue
        /\ output' = [value |-> TypedValue, tainted |-> job.fluidIn \/ toolUsed]
    BY <1>3 DEF Validated
  <2> QED BY <1>0, <2>1 DEF AnswersInv, LetThrough, Turned
<1>4. ASSUME Repair PROVE AnswersInv'
  BY <1>4 DEF Repair, AnswersInv, LetThrough, Turned
<1>5. ASSUME Refused PROVE AnswersInv'
  BY <1>5 DEF Refused, AnswersInv, LetThrough, Turned
<1>6. ASSUME Abstain PROVE AnswersInv'
  <2>1. /\ answerStep = "done" /\ answerStep' = "ready"
        /\ UNCHANGED <<job, repairing, reply, toolUsed, typed, reached>>
        /\ output' = AbstainBelow(output, job.decline)
    BY <1>6 DEF Abstain
  <2>2. output = [value |-> typed, tainted |-> job.fluidIn \/ toolUsed]
    BY <2>1 DEF AnswersInv
  <2> QED BY <1>0, <2>1, <2>2 DEF AnswersInv, LetThrough, Turned
<1>7. ASSUME RouteOutput PROVE AnswersInv'
  <2>1. /\ answerStep = "ready"
        /\ UNCHANGED <<job, repairing, reply, toolUsed, typed, output>>
    BY <1>7 DEF RouteOutput
  <2>2. job \in Jobs /\ Assembled(job) = "asking"
    BY <2>1 DEF AnswersInv, LetThrough
  <2>3. PICK label \in (IF job.router.agent THEN {Normalise(job.router, text) : text \in Texts}
                        ELSE {Classify(job.router, output.value)}) :
            IF label \notin DOMAIN job.router.branches
            THEN answerStep' = "KeyError" /\ UNCHANGED reached
            ELSE /\ answerStep' = "routed"
                 /\ reached' = reached \cup (IF job.router.branches[label].is = "sink"
                                             THEN {job.router.branches[label].name} ELSE {})
    BY <1>7 DEF RouteOutput
  <2>4. label \in DOMAIN job.router.branches
    BY <2>2, <2>3, LabelsHaveBranches
  <2>5. answerStep' = "routed" /\ (reached \subseteq SinksOf(job.router) => reached' \subseteq SinksOf(job.router))
    BY <2>3, <2>4 DEF SinksOf
  <2> QED BY <1>0, <2>1, <2>5 DEF AnswersInv, LetThrough, Turned
<1>8. ASSUME NextItem PROVE AnswersInv'
  <2>1. IsText(reply)'
    BY <1>8 DEF NextItem, IsText
  <2> QED BY <1>8, <2>1 DEF NextItem, AnswersInv, LetThrough, Turned
<1>9. ASSUME UNCHANGED answersVars PROVE AnswersInv'
  BY <1>0, <1>9 DEF answersVars, AnswersInv
<1> QED BY <1>1, <1>2, <1>3, <1>4, <1>5, <1>6, <1>7, <1>8, <1>9 DEF AnswersNext

LEMMA AnswersInvSuffices == AnswersInv => AnswersAreSound
<1> SUFFICES ASSUME AnswersInv PROVE AnswersAreSound
  OBVIOUS
<1>1. FieldsAreTheModels
  <2> SUFFICES ASSUME typed # Unread, IsRecord(typed) PROVE FieldsAreTheModels
    BY DEF FieldsAreTheModels
  <2>1. typed = TypedValue /\ IsText(reply)
    BY DEF AnswersInv
  <2> QED BY <2>1, TypedFields DEF FieldsAreTheModels
<1>2. answerStep \in LetThrough => job.decline \in Nat /\ job.raise \in Nat
  BY AnswersAssumption DEF AnswersInv
<1>3. answerStep \in {"ready", "routed"} =>
          /\ output.tainted = (job.fluidIn \/ toolUsed)
          /\ output.value = IF job.decline = 0 \/ IsAbstention(typed) \/ Confidence(typed) >= job.decline
                            THEN typed ELSE Abstention(Confidence(typed))
  <2> DEFINE made == [value |-> typed, tainted |-> job.fluidIn \/ toolUsed]
  <2>1. answerStep \in {"ready", "routed"} => output = AbstainBelow(made, job.decline)
    BY DEF AnswersInv
  <2>2. made.value = typed /\ made.tainted = (job.fluidIn \/ toolUsed)
    OBVIOUS
  <2>3. DOMAIN made = {"value", "tainted"}
    OBVIOUS
  <2> HIDE DEF made
  <2> QED BY <2>1, <2>2, <2>3 DEF AbstainBelow
<1>4. \A c : IsAbstention(Abstention(c))
  BY DEF IsAbstention, Abstention
<1>5. TaintArrives
  BY <1>3 DEF TaintArrives
<1>6. SilenceDeclines
  BY <1>2, <1>3, <1>4 DEF SilenceDeclines, None, LetThrough
<1>7. ReadersAgree
  <2> SUFFICES ASSUME answerStep = "ready", job.decline \in 1 .. Sure, IsRecord(typed),
                      ~IsAbstention(typed), "confidence" \in DOMAIN typed.fields,
                      StatedIn(reply) # None
               PROVE  IsAbstention(output.value) <=> StatedIn(reply) < job.decline
    BY DEF ReadersAgree
  <2> DEFINE object == OnlyObject(reply)
  <2>1. /\ object # Unread /\ "confidence" \in DOMAIN object.fields
        /\ StatedIn(reply) = Numeric(object.fields["confidence"])
    BY DEF StatedIn
  <2>2. PICK b \in Braces(reply) : Braces(reply) = {b} /\ object = FirstObject(reply)
    BY <2>1 DEF OnlyObject
  <2>3. IsText(reply) /\ typed = TypedValue
    BY DEF AnswersInv
  <2>4. object = ObjectAt(reply, b) /\ Objects(reply) = {object}
    <3>1. FirstOf(Braces(reply)) = b
      BY <2>2, <2>3, BracesAre
    <3> QED BY <2>2, <3>1 DEF FirstObject, Objects
  <2>5. typed # Unread
    BY DEF IsRecord, Unread
  <2>6. object.fields["confidence"] = typed.fields["confidence"]
    BY <1>1, <2>1, <2>2, <2>4, <2>5 DEF FieldsAreTheModels
  <2>7. object \in Json /\ object.tag = "record"
    BY <2>1, <2>2, <2>3, <2>4, BracesAre
  <2>8. Numeric(object.fields["confidence"]) \in Int
    BY <2>1, <2>7, NumericIs, WiringAssumption
  <2> DEFINE n == Numeric(object.fields["confidence"])
  <2>9. Confidence(typed) = CoerceUnit(n)
    BY <2>6 DEF Confidence, IsRecord
  <2>10. CoerceUnit(n) >= job.decline <=> ~(n < job.decline)
    <3> HIDE DEF n
    <3>1. n \in Int /\ Sure \in Nat /\ job.decline \in Nat /\ job.decline <= Sure
      BY <2>8, AnswersAssumption DEF n
    <3> QED BY <3>1 DEF CoerceUnit
  <2>11. job.decline # 0
    BY AnswersAssumption
  <2> HIDE DEF n, object
  <2> QED BY <1>3, <1>4, <2>1, <2>9, <2>10, <2>11 DEF n
<1>8. LabelsOnlyGate
  <2>1. answerStep # "KeyError"
    BY DEF AnswersInv, LetThrough, Turned
  <2>2. CASE answerStep \in Turned
    BY <2>1, <2>2, FS_EmptySet DEF LabelsOnlyGate, AnswersInv
  <2>3. CASE answerStep \in LetThrough /\ job.router.agent
    <3>1. job \in Jobs /\ Assembled(job) = "asking" /\ reached \subseteq SinksOf(job.router)
      BY <2>3 DEF AnswersInv
    <3>2. IsFiniteSet(SinksOf(job.router)) /\ Cardinality(SinksOf(job.router)) <= 1
      BY <2>3, <3>1, LabelsHaveBranches
    <3>3. Cardinality(reached) <= Cardinality(SinksOf(job.router))
      BY <3>1, <3>2, FS_Subset
    <3>4. Cardinality(reached) \in Nat /\ Cardinality(SinksOf(job.router)) \in Nat
      BY <3>1, <3>2, FS_Subset, FS_CardinalityType
    <3> QED BY <2>1, <3>2, <3>3, <3>4 DEF LabelsOnlyGate
  <2> QED BY <2>1, <2>2, <2>3 DEF LabelsOnlyGate, AnswersInv
<1> QED BY <1>1, <1>5, <1>6, <1>7, <1>8 DEF AnswersAreSound

\* What was wired is of the type it arrives under, and what a validated answer says, its
\* taint, its confidence and the Sink it goes to are what the answer, the inputs and the
\* Router make them (Run, Batch.check_wiring, abstain_below, Router).
THEOREM ValuesStaySound == ValuesSpec => []ValuesAreSound
<1>1. WiringInit /\ AnswersInit => WiringInv /\ AnswersInv
  BY WiringInvInit, AnswersInvInit
<1>2. (WiringInv /\ AnswersInv) /\ [ValuesNext]_<<wiringVars, answersVars>> => (WiringInv /\ AnswersInv)'
  <2> SUFFICES ASSUME WiringInv, AnswersInv, [ValuesNext]_<<wiringVars, answersVars>>
               PROVE  WiringInv' /\ AnswersInv'
    OBVIOUS
  <2>1. [WiringNext]_wiringVars /\ [AnswersNext]_answersVars
    BY DEF ValuesNext
  <2> QED BY <2>1, WiringInvStep, AnswersInvStep
<1>3. WiringInv /\ AnswersInv => ValuesAreSound
  BY WiringInvSuffices, AnswersInvSuffices DEF ValuesAreSound
<1> QED BY <1>1, <1>2, <1>3, PTL DEF ValuesSpec
==============================================================================
