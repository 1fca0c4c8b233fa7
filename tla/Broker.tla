------------------------------- MODULE Broker -------------------------------
(***************************************************************************)
(* crawfish.secrets: consent to what a package declares, the grant manifest,*)
(* and the broker that leases a secret, by reference, to a node.  The       *)
(* manifest is in the Store and is written by other processes; the broker   *)
(* and the approval queue live in the orchestrator, where an approver can   *)
(* resolve what is pending at any time.                                     *)
(***************************************************************************)
EXTENDS Integers, Sequences, FiniteSets, SequencesExt

CONSTANTS Declarations,  \* capabilities a package may declare: [secrets, egress]
          Configured,    \* references the broker holds a value of
          Connections,   \* lists of connections brokered_mcp_config may be given
          LeaseRequests, \* what a node may ask for: [node, ref, dest, fluid]
          MaxAsked       \* bound: requests that reach the approval queue

ASSUME BrokerAssumption == Connections \subseteq Seq(LeaseRequests) /\ MaxAsked \in Nat

VARIABLES manifest,   \* the capability_grant record of the package, if any
          inHand,     \* the grant the orchestrator looked up last
          building,   \* brokered_mcp_config: connections left, handles so far
          handles,    \* lease ids the orchestrator was given handles of
          leases,     \* lease id -> [ref, dest]
          approvals,  \* the queue: kind, pending and decisions
          asked,      \* requests that reached it
          audits,     \* SECRET_LEASE emissions: scope -> how many
          consented,  \* grants somebody agreed to (history)
          rulings,    \* scope -> what was last decided about it (history)
          given,      \* lease id -> the circumstances of the lease (history)
          sent        \* the last call made: [id, host] (history)

brokerVars == <<manifest, inHand, building, handles, leases, approvals, asked, audits,
                consented, rulings, given, sent>>

Unapproved == [secrets |-> {}, egress |-> {}]
Resting == [todo |-> <<>>, made |-> {}]
Scope(request) == [node |-> request.node, ref |-> request.ref, dest |-> request.dest]
Scopes == {Scope(r) : r \in LeaseRequests}
Hosts == {r.dest : r \in LeaseRequests}
Also(f, x, y) == [z \in DOMAIN f \cup {x} |-> IF z = x THEN y ELSE f[z]]
Except(f, x) == [z \in DOMAIN f \ {x} |-> f[z]]

BrokerInit ==
    /\ manifest = {} /\ consented = {} /\ inHand = Unapproved
    /\ building = Resting /\ handles = {}
    /\ leases = <<>> /\ given = <<>> /\ sent = {} /\ rulings = <<>>
    /\ \E kind \in {"auto", "deny", "permit"} :
          approvals = [kind |-> kind, pending |-> <<>>, decisions |-> <<>>]
    /\ asked = 0 /\ audits = [s \in Scopes |-> 0]
----------------------------------------------------------------------------
(* Consent                                                                  *)

\* consent_install, approved; declined, it raises and writes nothing
Consent(caps) ==
    /\ manifest' = {caps} /\ consented' = consented \cup {caps}
    /\ UNCHANGED <<inHand, building, handles, leases, approvals, asked, audits, rulings, given, sent>>

RevokeGrant ==
    /\ manifest # {} /\ manifest' = {}
    /\ UNCHANGED <<inHand, building, handles, leases, approvals, asked, audits, consented,
                   rulings, given, sent>>

\* GrantManifest.lookup, by who is about to lease
LookUp ==
    /\ building = Resting
    /\ \E grant \in manifest : inHand' = grant
    /\ UNCHANGED <<manifest, building, handles, leases, approvals, asked, audits, consented,
                   rulings, given, sent>>
----------------------------------------------------------------------------
(* The approval queue                                                       *)

IdentityByRef(scope) == <<scope.node, scope.ref>>   \* mutated: whatever the destination

\* a decision survives a retry, which has an id of its own
Identity(scope) == <<scope.node, scope.ref, scope.dest>>

Undecided(scope) == Identity(scope) \notin DOMAIN approvals.decisions

\* AutoApprovalQueue approves; the other one answers its default until it is told
Approved(scope) ==
    \/ approvals.kind = "auto"
    \/ IF Undecided(scope) THEN approvals.kind = "permit" ELSE approvals.decisions[Identity(scope)]

Enqueued(scope) ==
    IF approvals.kind # "auto" /\ Undecided(scope)
    THEN [approvals EXCEPT !.pending = Also(@, asked, scope)] ELSE approvals

ResolveApproval(id, approve) ==
    /\ id \in DOMAIN approvals.pending
    /\ LET scope == approvals.pending[id] IN
          /\ approvals' = [approvals EXCEPT !.pending = Except(@, id),
                                            !.decisions = Also(@, Identity(scope), approve)]
          /\ rulings' = Also(rulings, scope, approve)
    /\ UNCHANGED <<manifest, inHand, building, handles, leases, asked, audits, consented, given, sent>>
----------------------------------------------------------------------------
(* The broker                                                               *)

\* the checks in front of the approval: static, granted, configured
Leasable(request) ==
    /\ ~request.fluid
    /\ request.ref \in inHand.secrets
    /\ request.dest \in inHand.egress
    /\ request.ref \in Configured

\* SecretBroker.lease, every way it can end; it is one step of the event loop
LeaseRefused(request) ==
    /\ ~Leasable(request) /\ UNCHANGED <<approvals, asked, leases, audits, given>>

Disapproved(request) ==
    /\ Leasable(request) /\ ~Approved(Scope(request))
    /\ asked < MaxAsked /\ asked' = asked + 1
    /\ approvals' = Enqueued(Scope(request))
    /\ UNCHANGED <<leases, audits, given>>

\* the lease is recorded first, then its emission written, which may fail
Leased(request, written) ==
    /\ Leasable(request) /\ Approved(Scope(request))
    /\ asked < MaxAsked /\ asked' = asked + 1
    /\ approvals' = Enqueued(Scope(request))
    /\ leases' = Also(leases, asked, [ref |-> request.ref, dest |-> request.dest])
    /\ audits' = IF written THEN [audits EXCEPT ![Scope(request)] = @ + 1] ELSE audits
    /\ given' = Also(given, asked,
          [scope |-> Scope(request), grant |-> inHand, revoked |-> manifest = {},
           ruled |-> {rulings[s] : s \in {Scope(request)} \cap DOMAIN rulings}])

\* a node asks for itself; what is denied, or not written down, raises
AskForLease(request) ==
    /\ building = Resting
    /\ \/ (LeaseRefused(request) \/ Disapproved(request) \/ Leased(request, FALSE)) /\ UNCHANGED handles
       \/ Leased(request, TRUE) /\ handles' = handles \cup {asked}
    /\ UNCHANGED <<manifest, inHand, building, consented, rulings, sent>>

\* brokered_mcp_config: a lease for each connection in turn
BeginConfig(connections) ==
    /\ building = Resting /\ connections # <<>>
    /\ building' = [todo |-> connections, made |-> {}]
    /\ UNCHANGED <<manifest, inHand, handles, leases, approvals, asked, audits, consented,
                   rulings, given, sent>>

\* the first lease that raises leaves the handles made before it to nobody
ConfigNext ==
    /\ building.todo # <<>>
    /\ LET request == Head(building.todo)
           rest == Tail(building.todo)
           made == building.made \cup {asked}
       IN \/ /\ LeaseRefused(request) \/ Disapproved(request) \/ Leased(request, FALSE)
             /\ building' = Resting /\ UNCHANGED handles
          \/ /\ Leased(request, TRUE)
             /\ building' = IF rest = <<>> THEN Resting ELSE [todo |-> rest, made |-> made]
             /\ handles' = IF rest = <<>> THEN handles \cup made ELSE handles
    /\ UNCHANGED <<manifest, inHand, consented, rulings, sent>>

\* the call goes where the lease says, or not at all
Destined(id, host) == host = leases[id].dest

Send(id, host) ==
    /\ building = Resting
    /\ id \in handles \cap DOMAIN leases /\ Destined(id, host)
    /\ sent' = {[id |-> id, host |-> host]}
    /\ UNCHANGED <<manifest, inHand, building, handles, leases, approvals, asked, audits,
                   consented, rulings, given>>

RevokeLease(id) ==
    /\ building = Resting
    /\ id \in handles \cap DOMAIN leases
    /\ leases' = Except(leases, id)
    /\ UNCHANGED <<manifest, inHand, building, handles, approvals, asked, audits, consented,
                   rulings, given, sent>>

BrokerNext ==
    \/ \E caps \in Declarations : Consent(caps)
    \/ RevokeGrant \/ LookUp
    \/ \E request \in LeaseRequests : AskForLease(request)
    \/ \E connections \in Connections : BeginConfig(connections)
    \/ ConfigNext
    \/ \E id \in 0 .. MaxAsked - 1 :
          \/ \E approve \in BOOLEAN : ResolveApproval(id, approve)
          \/ \E host \in Hosts : Send(id, host)
          \/ RevokeLease(id)

BrokerSpec == BrokerInit /\ [][BrokerNext]_brokerVars
----------------------------------------------------------------------------
(* Properties                                                               *)

\* A lease is covered by a grant somebody consented to, and by the last ruling about that
\* node, reference and destination, or by the default of the queue where there was none:
\* neither a grant of another declaration nor a decision about another destination serves.
LeaseIsCovered ==
    \A id \in DOMAIN given :
        LET lease == given[id] IN
            /\ lease.grant \in consented
            /\ lease.scope.ref \in lease.grant.secrets
            /\ lease.scope.dest \in lease.grant.egress
            /\ approvals.kind = "deny" => lease.ruled = {TRUE}
            /\ approvals.kind = "permit" => lease.ruled # {FALSE}

\* Every call went where its lease was asked for, and for each node, reference and
\* destination the ledger knows of as many leases as have handles at least, whatever
\* failed halfway.
CallsAreAudited ==
    /\ \A call \in sent : call.host = given[call.id].scope.dest
    /\ \A s \in Scopes :
          Cardinality({id \in handles \cup building.made : given[id].scope = s}) <= audits[s]

LeasesAreKept == LeaseIsCovered /\ CallsAreAudited
----------------------------------------------------------------------------
(* Claims of the documentation that do not hold (README, 5).                *)

\* "Remove a package's grant (fail-closed: it can lease nothing afterward)"
\* (secrets.py:410): a grant looked up before is honoured.
RevokedLeasesNothing == \A id \in DOMAIN given : ~given[id].revoked

\* "Leases currently awaiting an out-of-band decision" (secrets.py:662): a retry queued
\* before the decision stays listed after it.
PendingAwaits == \A id \in DOMAIN approvals.pending : Undecided(approvals.pending[id])
=============================================================================
