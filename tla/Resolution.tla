----------------------------- MODULE Resolution -----------------------------
(***************************************************************************)
(* The resolution service of one agreement                                 *)
(* (apps/web/server/resolution/service.ts) over its PostgreSQL tables.     *)
(*                                                                         *)
(* Every command of the service is one Serializable transaction, so it is  *)
(* one action here: all of its reads, guards and writes, or nothing.  A    *)
(* command that throws rolls back and is not a step.  The clock is read    *)
(* before the transaction starts, so Propose and Execute may use a time up *)
(* to MaxLag old.                                                          *)
(*                                                                         *)
(* Disputes open a human review request, which the evidence service        *)
(* assigns and decides; those two operations are here because a dispute    *)
(* can only be resolved with their result.                                 *)
(***************************************************************************)
EXTENDS ResolutionDomain

CONSTANTS
  Proposals,         \* identifiers propose may draw
  Disputes,          \* identifiers dispute may draw
  Keys,              \* idempotency keys clients use
  RoleOf,            \* [Accounts -> membership role]
  Proposers,         \* eligible for record_resolution
  Cancellers,        \* resolutionPolicy.cancellation.eligibleInitiatorPartyIds
  Assessments,       \* assessments of the version and evidence set
  ReviewerDecisions, \* reviewer decisions a proposal may cite
  Deadlines,         \* terms.deadlines that expire a proposal
  ReviewWindow,      \* resolutionPolicy.reviewWindowSeconds
  InitialSafety,     \* financialSafetyPolicy.initialState
  SafetyInputs,      \* the safety states commands ask for
  ProposedInputs,    \* the consequences clients propose, valid or not
  MaxLag,            \* bound: age of a clock reading when it is used
  MaxTime,           \* bound: the clock
  MaxAudits          \* bound: commands on one proposal

FinancialSafetyState == {"clear", "review_required", "held", "restricted"}
\* Request bodies, which an idempotency record's fingerprint is the digest of.
\* The proposal a command is for, in its URL, is not part of its body.
NoBody == [kind |-> "empty"]
Body ==
  [consequence : Consequences, assessment : Assessments,
   decision : ReviewerDecisions \cup {None}, expiresAt : Deadlines \cup {Never}]
  \cup [claim : {"claim"}] \cup [dispute : Disputes]
  \cup [state : SafetyInputs] \cup {NoBody}

Operations ==
  {"propose_resolution", "submit_dispute", "resolve_dispute", "grant_authorization",
   "revoke_authorization", "transition_financial_safety", "cancel_resolution",
   "execute_simulated"}

ASSUME ServiceAssumption ==
  /\ RoleOf \in [Accounts -> {"owner", "participant", "reviewer", "observer"}]
  /\ Proposers \subseteq Parties /\ Cancellers \subseteq Parties
  /\ Deadlines \subseteq Nat \ {0}
  /\ ReviewWindow \in Nat
  /\ InitialSafety \in FinancialSafetyState
  /\ SafetyInputs \subseteq FinancialSafetyState
  /\ ProposedInputs \subseteq Consequences
  /\ MaxLag \in Nat /\ MaxTime \in Nat /\ MaxAudits \in Nat

VARIABLES
  now,          \* the server clock
  proposal,     \* proposed_resolutions
  dispute,      \* resolution_disputes, each with its review request
  grant,        \* resolution_authorization_grants, unique by proposal and party
  safety,       \* financial_safety_statuses: the version's state
  executions,   \* simulated_settlement_executions
  ledger,       \* simulated_ledger_entries
  audits,       \* how many resolution_audit_events each proposal has
  idempotency   \* idempotency_records of each operation

vars == <<now, proposal, dispute, grant, safety, executions, ledger, audits, idempotency>>

ProposalRow ==
  [state : ResolutionState, revision : Nat, consequence : Consequences,
   creator : Accounts, windowEnds : Nat, expiresAt : Deadlines \cup {Never},
   assessment : Assessments, decision : ReviewerDecisions \cup {None}]

\* request is the state of the linked human review request.
DisputeRow ==
  [proposal : Proposals, status : {"open", "resolved"},
   request : {"open", "assigned", "completed"}, reviewer : Accounts \cup {None}]

GrantRow     == [account : Accounts, revoked : BOOLEAN]
ExecutionRow == [proposal : Proposals, consequence : Consequences, at : Nat]
LedgerRow    == [proposal : Proposals, side : EconomicSides, amount : Int]

\* The constants' None is no row, so a table can hold it for an absent one.
ASSUME NoneAssumption ==
  None \notin ProposalRow \cup DisputeRow \cup GrantRow
             \cup ReviewerDecisions \cup Consequences

-----------------------------------------------------------------------------
(* Reading the tables. *)

Exists(p)   == proposal[p] # None
Terminal(p) == proposal[p].state \in TERMINAL_STATES
Active(p)   == Exists(p) /\ ~Terminal(p)
Outcome(p)  == proposal[p].consequence.outcome

OpenDispute(d, p) == dispute[d] # None /\ dispute[d].proposal = p /\ dispute[d].status = "open"
Disputed(p) == \E d \in Disputes : OpenDispute(d, p)
Executed(p) == \E e \in executions : e.proposal = p

Snapshot(p) ==
  [row |-> proposal[p], grants |-> grant[p], disputed |-> Disputed(p),
   safety |-> safety, executed |-> Executed(p)]

\* A time the service may have read before its transaction began.
ReadableTimes == {t \in 0..now : now - t <= MaxLag}

-----------------------------------------------------------------------------
(* What the commands share. *)

\* A prior record makes the call a replay, or an IDEMPOTENCY_KEY_REUSED error;
\* neither writes.  The scope of a key is the agreement, not the proposal.
Fresh(actor, operation, key) ==
  ~ \E r \in idempotency[operation] : r.actor = actor /\ r.key = key

\* body is what the fingerprint covers; resource, the proposal of the result.
Remember(actor, operation, key, body, p) ==
  idempotency' = [idempotency EXCEPT ![operation] =
    @ \cup {[actor |-> actor, key |-> key, body |-> body, resource |-> p]}]

\* Exactly one audit row is written with every effect.
Audit(p) ==
  /\ audits[p] < MaxAudits
  /\ audits' = [audits EXCEPT ![p] = @ + 1]

\* Mutant of Moved: every move consults the lifecycle table, execute's too.
MovedByTable(row, target) ==
  IF target = row.state \/ ~CanTransition(row.state, target) THEN row
  ELSE [row EXCEPT !.state = target, !.revision = @ + 1]

\* A state that stays the same leaves the row, and so its revision, alone.
Moved(row, target) ==
  IF target = row.state THEN row
  ELSE [row EXCEPT !.state = target, !.revision = @ + 1]

\* Mutant of Current: an older revision is accepted.
CurrentOrOlder(p, expectedRevision) == expectedRevision <= proposal[p].revision

\* If-Match carries the revision the client last saw.
Current(p, expectedRevision) == expectedRevision = proposal[p].revision

\* ResolutionService.change: the frame of every command on an existing proposal.
Change(actor, operation, key, body, p, expectedRevision, target) ==
  /\ Exists(p)
  /\ Fresh(actor, operation, key)
  /\ Current(p, expectedRevision)
  /\ ~Terminal(p)
  /\ target = proposal[p].state \/ CanTransition(proposal[p].state, target)
  /\ proposal' = [proposal EXCEPT ![p] = Moved(@, target)]
  /\ Audit(p)
  /\ Remember(actor, operation, key, body, p)
  /\ UNCHANGED <<now, executions, ledger>>

-----------------------------------------------------------------------------
(* The commands. *)

\* Mutant of OutcomeFree: only the very same consequence is a competitor.
ConsequenceFree(consequence) ==
  ~ \E q \in Proposals : Active(q) /\ proposal[q].consequence = consequence

\* The partial index one_active_resolution_outcome says the same as the lookup.
OutcomeFree(consequence) ==
  ~ \E q \in Proposals : Active(q) /\ Outcome(q) = consequence.outcome

Propose(actor, key, p, c, assessment, decision, expiresAt, at) ==
  /\ ~Exists(p)
  /\ Fresh(actor, "propose_resolution", key)
  /\ PartyOf[actor] \in Proposers
  /\ c.outcome \in Outcomes /\ ValidEffect(c.effect)
  /\ OutcomeFree(c)
  /\ expiresAt = Never \/ (expiresAt \in Deadlines /\ expiresAt > at)
  /\ proposal' = [proposal EXCEPT ![p] =
       [state |-> "review_window_open", revision |-> 1, consequence |-> c,
        creator |-> actor, windowEnds |-> at + ReviewWindow, expiresAt |-> expiresAt,
        assessment |-> assessment, decision |-> decision]]
  /\ safety' = IF safety = None THEN InitialSafety ELSE safety
  /\ Audit(p)
  /\ Remember(actor, "propose_resolution", key,
       [consequence |-> c, assessment |-> assessment,
        decision |-> decision, expiresAt |-> expiresAt], p)
  /\ UNCHANGED <<now, dispute, grant, executions, ledger>>

SubmitDispute(actor, key, p, rev, d) ==
  /\ Change(actor, "submit_dispute", key, [claim |-> "claim"], p, rev, "disputed")
  /\ dispute[d] = None
  /\ dispute' = [dispute EXCEPT ![d] =
       [proposal |-> p, status |-> "open", request |-> "open", reviewer |-> None]]
  /\ UNCHANGED <<grant, safety>>

ResolveDispute(actor, key, p, rev, d) ==
  /\ Change(actor, "resolve_dispute", key, [dispute |-> d], p, rev, "held")
  /\ RoleOf[actor] = "reviewer"
  /\ OpenDispute(d, p)
  /\ dispute[d].request = "completed" /\ dispute[d].reviewer = actor
  /\ dispute' = [dispute EXCEPT ![d].status = "resolved"]
  /\ UNCHANGED <<grant, safety>>

\* The upsert of a revoked row keeps the account that first granted.
Granted(row, actor) ==
  IF row = None THEN [account |-> actor, revoked |-> FALSE]
  ELSE [row EXCEPT !.revoked = FALSE]

GrantAuthorization(actor, key, p, rev) ==
  LET party == PartyOf[actor] IN
  /\ Change(actor, "grant_authorization", key, NoBody, p, rev, proposal[p].state)
  /\ party \in Approvers
  /\ grant' = [grant EXCEPT ![p][party] = Granted(@, actor)]
  /\ UNCHANGED <<dispute, safety>>

RevokeAuthorization(actor, key, p, rev) ==
  LET party == PartyOf[actor] IN
  /\ Change(actor, "revoke_authorization", key, NoBody, p, rev, "held")
  /\ grant[p][party] # None /\ grant[p][party].account = actor
  /\ grant' = [grant EXCEPT ![p][party].revoked = TRUE]
  /\ UNCHANGED <<dispute, safety>>

TransitionSafety(actor, key, p, rev, state) ==
  /\ Change(actor, "transition_financial_safety", key, [state |-> state], p, rev,
            IF state = "clear" THEN proposal[p].state ELSE "held")
  /\ RoleOf[actor] \in {"owner", "reviewer"}
  /\ safety # None
  /\ safety' = state
  /\ UNCHANGED <<dispute, grant>>

Cancel(actor, key, p, rev) ==
  /\ Change(actor, "cancel_resolution", key, NoBody, p, rev, "cancelled")
  /\ PartyOf[actor] \in Cancellers
  /\ UNCHANGED <<dispute, grant, safety>>

\* Mutant of Unsettled: the consequence key is not unique.
UnsettledProposal(p) == \A e \in executions : e.proposal # p

\* The unique keys of simulated_settlement_executions.
Unsettled(p) ==
  \A e \in executions : e.proposal # p /\ e.consequence # proposal[p].consequence

\* execute does not go through change: readiness alone decides, in any live state.
Execute(actor, key, p, rev, at) ==
  /\ Exists(p)
  /\ Fresh(actor, "execute_simulated", key)
  /\ Current(p, rev)
  /\ Ready(Snapshot(p), at)
  /\ Unsettled(p)
  /\ executions' = executions \cup
       {[proposal |-> p, consequence |-> proposal[p].consequence, at |-> at]}
  /\ ledger' = ledger \cup
       {[proposal |-> p, side |-> entry.side, amount |-> entry.amount] :
          entry \in BalancedEntries(proposal[p].consequence.effect)}
  /\ proposal' = [proposal EXCEPT ![p] = Moved(@, "simulated_executed")]
  /\ Audit(p)
  /\ Remember(actor, "execute_simulated", key, NoBody, p)
  /\ UNCHANGED <<now, dispute, grant, safety>>

-----------------------------------------------------------------------------
(* The evidence service's part: the review request of a dispute. *)

AssignReview(actor, d) ==
  /\ RoleOf[actor] = "reviewer"
  /\ dispute[d] # None /\ dispute[d].request = "open"
  /\ dispute' = [dispute EXCEPT ![d].request = "assigned", ![d].reviewer = actor]
  /\ UNCHANGED <<now, proposal, grant, safety, executions, ledger, audits, idempotency>>

RecordReviewerDecision(actor, d) ==
  /\ RoleOf[actor] = "reviewer"
  /\ dispute[d] # None
  /\ dispute[d].request = "assigned" /\ dispute[d].reviewer = actor
  /\ dispute' = [dispute EXCEPT ![d].request = "completed"]
  /\ UNCHANGED <<now, proposal, grant, safety, executions, ledger, audits, idempotency>>

Tick ==
  /\ now < MaxTime
  /\ now' = now + 1
  /\ UNCHANGED <<proposal, dispute, grant, safety, executions, ledger, audits, idempotency>>

-----------------------------------------------------------------------------
Init ==
  /\ now = 0
  /\ proposal = [p \in Proposals |-> None]
  /\ dispute = [d \in Disputes |-> None]
  /\ grant = [p \in Proposals |-> [party \in Parties |-> None]]
  /\ safety = None
  /\ executions = {}
  /\ ledger = {}
  /\ audits = [p \in Proposals |-> 0]
  /\ idempotency = [operation \in Operations |-> {}]

Command(actor, key, p, rev) ==
  \/ \E d \in Disputes : SubmitDispute(actor, key, p, rev, d)
  \/ \E d \in Disputes : ResolveDispute(actor, key, p, rev, d)
  \/ GrantAuthorization(actor, key, p, rev)
  \/ RevokeAuthorization(actor, key, p, rev)
  \/ \E state \in SafetyInputs : TransitionSafety(actor, key, p, rev, state)
  \/ Cancel(actor, key, p, rev)
  \/ \E at \in ReadableTimes : Execute(actor, key, p, rev, at)

Next ==
  \/ Tick
  \/ \E actor \in Accounts, key \in Keys, p \in Proposals :
       \/ \E c \in ProposedInputs, assessment \in Assessments,
             decision \in ReviewerDecisions \cup {None},
             expiresAt \in Deadlines \cup {Never}, at \in ReadableTimes :
            Propose(actor, key, p, c, assessment, decision, expiresAt, at)
       \/ \E rev \in 1..MaxAudits : Command(actor, key, p, rev)
  \/ \E actor \in Accounts, d \in Disputes :
       AssignReview(actor, d) \/ RecordReviewerDecision(actor, d)

Spec == Init /\ [][Next]_vars

-----------------------------------------------------------------------------
(* Type invariant. *)

IdempotencyRow == [actor : Accounts, key : Keys, body : Body, resource : Proposals]

\* The tables hold rows of their shapes, whatever commands have run.
TypeOK ==
  /\ now \in Nat
  /\ proposal \in [Proposals -> ProposalRow \cup {None}]
  /\ dispute \in [Disputes -> DisputeRow \cup {None}]
  /\ grant \in [Proposals -> [Parties -> GrantRow \cup {None}]]
  /\ safety \in FinancialSafetyState \cup {None}
  /\ executions \subseteq ExecutionRow
  /\ ledger \subseteq LedgerRow
  /\ audits \in [Proposals -> Nat]
  /\ DOMAIN idempotency = Operations
  /\ \A operation \in Operations : idempotency[operation] \subseteq IdempotencyRow

-----------------------------------------------------------------------------
(* Safety. *)

\* Two live proposals never compete for one outcome, however propose,
\* cancel and execute interleave (service.ts propose: ACTIVE_PROPOSAL_EXISTS).
OneActiveProposalPerOutcome ==
  \A p, q \in Proposals :
    Active(p) /\ Active(q) /\ Outcome(p) = Outcome(q) => p = q

\* No proposal is executed twice, and no consequence, an outcome with an effect
\* as it was written, though a settled one may be proposed again and then looks
\* ready to execute: only the unique keys of the executions stop it.
SettledAtMostOnce ==
  \A e, f \in executions :
    e.proposal = f.proposal \/ e.consequence = f.consequence => e = f

\* A proposal says it was executed if and only if an execution of exactly
\* its consequence is on record (execute writes both or neither).
ExecutionRecorded ==
  /\ \A p \in Proposals :
       Exists(p) /\ proposal[p].state = "simulated_executed" => Executed(p)
  /\ \A e \in executions :
       /\ Exists(e.proposal)
       /\ proposal[e.proposal].state = "simulated_executed"
       /\ proposal[e.proposal].consequence = e.consequence

\* What justified an execution can still be read from the tables afterwards:
\* its window had ended, it had not lapsed, it rests on an eligible assessment
\* and, if required, a reviewer decision, enough eligible parties approved it,
\* and no dispute of it is open.  No later command takes any of that away.
ExecutionStaysJustified ==
  \A e \in executions :
    LET snapshot == Snapshot(e.proposal) IN
    /\ Elapsed(snapshot.row, e.at) /\ ~Lapsed(snapshot.row, e.at)
    /\ Assessed(snapshot.row) /\ Reviewed(snapshot.row)
    /\ Approved(snapshot)
    /\ ~snapshot.disputed

\* An open dispute keeps its proposal out of every state execution starts
\* from in the documented lifecycle, and a proposal is "disputed" only while
\* a dispute of it is open; so resolving it is always a legal transition.
DisputesFreeze ==
  \A p \in Proposals : Exists(p) =>
    /\ Disputed(p) => proposal[p].state \in {"disputed", "held", "cancelled"}
    /\ proposal[p].state = "disputed" => Disputed(p)

\* The ledger of an execution is empty for a non-financial effect; for a value
\* effect it moves the protected amount, no more and no less, from one side to
\* another with no party on both, and nothing is entered but by an execution
\* (balancedEntries, and the trigger simulated_ledger_balance).
LedgerConserved ==
  /\ \A entry \in ledger : Executed(entry.proposal)
  /\ \A e \in executions :
       LET effect  == e.consequence.effect
           entries == {entry \in ledger : entry.proposal = e.proposal} IN
       IF effect.kind = "non_financial" THEN entries = {}
       ELSE \E debit, credit \in entries :
              /\ entries = {debit, credit}
              /\ credit.amount = ProtectedAmount
              /\ debit.amount + credit.amount = 0
              /\ SideParties[debit.side] \cap SideParties[credit.side] = {}

\* Every audited command left exactly one idempotency record: no key of an
\* actor has committed the same operation twice (service.ts idem, remember).
CommittedOncePerKey ==
  \A p \in Proposals :
    audits[p] = Cardinality(
      UNION {{operation} \X {r \in idempotency[operation] : r.resource = p} :
               operation \in Operations})

-----------------------------------------------------------------------------
(* What a step may never do. *)

\* A finished proposal is frozen: neither its row nor its grants change, and
\* no dispute is opened on it or closed (service.ts change: PROPOSAL_TERMINAL,
\* and the trigger hmm_guard_terminal_resolution on the row alone).
TerminalImmutable ==
  [][\A p \in Proposals :
       Exists(p) /\ Terminal(p) =>
         /\ proposal'[p] = proposal[p]
         /\ grant'[p] = grant[p]
         /\ \A d \in Disputes : OpenDispute(d, p)' <=> OpenDispute(d, p)]_vars

\* The revision a client sends in If-Match counts the changes of the row: it
\* grows by one when the row changes, and only then.
RevisionCountsChanges ==
  [][\A p \in Proposals :
       Exists(p) =>
         IF proposal'[p].state = proposal[p].state THEN proposal'[p] = proposal[p]
         ELSE proposal'[p].revision = proposal[p].revision + 1]_vars

-----------------------------------------------------------------------------
(* What docs/sprints/sprint-5.7-technical-design.md says and the code does *)
(* not do.                                                                 *)

\* "Destination references must be fixed in the accepted version before the
\* assessed outcome": the code compares a destinationRef with nothing, so the
\* payment of one side is settled again under another one.
DestinationsFixed ==
  \A e, f \in executions :
    LET one == e.consequence.effect
        other == f.consequence.effect IN
    /\ one.kind = "simulated_value" /\ other.kind = "simulated_value"
    /\ e.consequence.outcome = f.consequence.outcome
    /\ one.destination = other.destination
    => one.text = other.text

\* "restricted additionally prevents creation of a financial simulated
\* proposal": propose never reads the safety state of the version.
RestrictedPreventsValueProposals ==
  [][\A p \in Proposals :
       /\ proposal[p] = None /\ proposal'[p] # None
       /\ proposal'[p].consequence.effect.kind = "simulated_value"
       => safety # "restricted"]_vars

-----------------------------------------------------------------------------
(* The service implements OutcomeSettlement. *)

ActiveOn(o) == {p \in Proposals : Active(p) /\ Outcome(p) = o}

\* The consequence of the one live proposal of an outcome.
OpenConsequence ==
  [o \in Outcomes |->
     IF ActiveOn(o) = {} THEN None
     ELSE proposal[CHOOSE p \in ActiveOn(o) : TRUE].consequence]

SettledConsequences == {e.consequence : e \in executions}

Settlement ==
  INSTANCE OutcomeSettlement
    WITH Consequences <- ProposedInputs,
         open <- OpenConsequence, settled <- SettledConsequences

\* Every run of the service, seen as what is on the table and what is
\* settled, is a run of OutcomeSettlement.
ImplementsSettlement == Settlement!Spec
=============================================================================
