-------------------------- MODULE ResolutionProofs --------------------------
(***************************************************************************)
(* Theorems about Resolution, for every agreement, any number of accounts, *)
(* proposals, disputes and keys, and any bounds: the shapes of its tables, *)
(* its safety, that it implements OutcomeSettlement, and that clients who  *)
(* repeat their requests (ResolutionClient) change nothing of this.        *)
(***************************************************************************)
EXTENDS ResolutionClient, FiniteSetTheorems, TLAPS

-----------------------------------------------------------------------------
(* Type correctness. *)

\* Moving a row to a state gives a row.
LEMMA MovedType ==
  ASSUME NEW row \in ProposalRow, NEW target \in ResolutionState
  PROVE  Moved(row, target) \in ProposalRow
<1>1. row.revision + 1 \in Nat
  BY DEF ProposalRow
<1>2. [row EXCEPT !.state = target, !.revision = row.revision + 1] \in ProposalRow
  BY <1>1 DEF ProposalRow
<1> QED BY <1>2 DEF Moved

\* The frame of a command keeps the tables it writes well-typed.
LEMMA ChangeTypes ==
  ASSUME TypeOK,
         NEW actor \in Accounts, NEW operation \in Operations, NEW key \in Keys,
         NEW body \in Body, NEW p \in Proposals, NEW rev, NEW target \in ResolutionState,
         Change(actor, operation, key, body, p, rev, target)
  PROVE  /\ now' \in Nat
         /\ proposal' \in [Proposals -> ProposalRow \cup {None}]
         /\ executions' \subseteq ExecutionRow
         /\ ledger' \subseteq LedgerRow
         /\ audits' \in [Proposals -> Nat]
         /\ DOMAIN idempotency' = Operations
         /\ \A o \in Operations : idempotency'[o] \subseteq IdempotencyRow
<1>1. proposal[p] \in ProposalRow
  BY DEF TypeOK, Change, Exists
<1>2. Moved(proposal[p], target) \in ProposalRow
  BY <1>1, MovedType
<1>3. proposal' \in [Proposals -> ProposalRow \cup {None}]
  BY <1>2 DEF TypeOK, Change
<1>4. audits' \in [Proposals -> Nat]
  BY DEF TypeOK, Change, Audit
<1>5. [actor |-> actor, key |-> key, body |-> body, resource |-> p] \in IdempotencyRow
  BY DEF IdempotencyRow
<1>6. /\ DOMAIN idempotency' = Operations
      /\ \A o \in Operations : idempotency'[o] \subseteq IdempotencyRow
  BY <1>5 DEF TypeOK, Change, Remember
<1>7. now' \in Nat /\ executions' \subseteq ExecutionRow /\ ledger' \subseteq LedgerRow
  BY DEF TypeOK, Change
<1> QED BY <1>3, <1>4, <1>6, <1>7

LEMMA StatesOfCommands ==
  {"disputed", "held", "cancelled", "review_window_open", "simulated_executed"}
    \subseteq ResolutionState
BY DEF ResolutionState

\* The bodies of the commands are bodies.
LEMMA BodiesOfCommands ==
  /\ NoBody \in Body
  /\ [claim |-> "claim"] \in Body
  /\ \A d \in Disputes : [dispute |-> d] \in Body
  /\ \A state \in SafetyInputs : [state |-> state] \in Body
BY DEF Body

LEMMA TypeInit == Init => TypeOK
BY DEF Init, TypeOK

LEMMA TypePropose ==
  ASSUME TypeOK,
         NEW actor \in Accounts, NEW key \in Keys, NEW p \in Proposals,
         NEW c \in ProposedInputs, NEW assessment \in Assessments,
         NEW decision \in ReviewerDecisions \cup {None},
         NEW expiresAt \in Deadlines \cup {Never}, NEW at \in ReadableTimes,
         Propose(actor, key, p, c, assessment, decision, expiresAt, at)
  PROVE  TypeOK'
<1> DEFINE row == [state |-> "review_window_open", revision |-> 1, consequence |-> c,
                   creator |-> actor, windowEnds |-> at + ReviewWindow,
                   expiresAt |-> expiresAt, assessment |-> assessment,
                   decision |-> decision]
           body == [consequence |-> c, assessment |-> assessment,
                    decision |-> decision, expiresAt |-> expiresAt]
<1>1. c \in Consequences
  BY ServiceAssumption
<1>2. at + ReviewWindow \in Nat
  BY ServiceAssumption DEF ReadableTimes, TypeOK
<1>3. row \in ProposalRow
  BY <1>1, <1>2, StatesOfCommands DEF ProposalRow
<1>4. proposal' \in [Proposals -> ProposalRow \cup {None}]
  <2>1. proposal' = [proposal EXCEPT ![p] = row]
    BY DEF Propose
  <2> QED BY <1>3, <2>1 DEF TypeOK
<1>5. safety' \in FinancialSafetyState \cup {None}
  BY ServiceAssumption DEF Propose, TypeOK
<1>6. audits' \in [Proposals -> Nat]
  BY DEF TypeOK, Propose, Audit
<1>7. [actor |-> actor, key |-> key, body |-> body, resource |-> p] \in IdempotencyRow
  BY <1>1 DEF IdempotencyRow, Body
<1>8. /\ DOMAIN idempotency' = Operations
      /\ \A o \in Operations : idempotency'[o] \subseteq IdempotencyRow
  BY <1>7 DEF TypeOK, Propose, Remember, Operations
<1>9. UNCHANGED <<now, dispute, grant, executions, ledger>>
  BY DEF Propose
<1> QED BY <1>4, <1>5, <1>6, <1>8, <1>9 DEF TypeOK

\* The ledger entries of a consequence are rows of the ledger.
LEMMA EntriesType ==
  ASSUME NEW c \in Consequences, NEW p \in Proposals
  PROVE  {[proposal |-> p, side |-> entry.side, amount |-> entry.amount] :
            entry \in BalancedEntries(c.effect)} \subseteq LedgerRow
<1>1. CASE c.effect.kind = "non_financial"
  BY <1>1 DEF BalancedEntries
<1>2. CASE c.effect.kind # "non_financial"
  <2>1. c.effect \in SimulatedValue
    BY <1>2 DEF Consequences, SimulatedEffect, NonFinancial
  <2>2. /\ c.effect.amount \in Int /\ -c.effect.amount \in Int
        /\ c.effect.source \in EconomicSides /\ c.effect.destination \in EconomicSides
    BY <2>1 DEF SimulatedValue
  <2> QED BY <1>2, <2>2 DEF BalancedEntries, LedgerRow
<1> QED BY <1>1, <1>2

LEMMA TypeExecute ==
  ASSUME TypeOK,
         NEW actor \in Accounts, NEW key \in Keys, NEW p \in Proposals,
         NEW rev, NEW at \in ReadableTimes,
         Execute(actor, key, p, rev, at)
  PROVE  TypeOK'
<1>1. proposal[p] \in ProposalRow
  BY DEF TypeOK, Execute, Exists
<1>2. proposal[p].consequence \in Consequences
  BY <1>1 DEF ProposalRow
<1>3. Moved(proposal[p], "simulated_executed") \in ProposalRow
  BY <1>1, MovedType, StatesOfCommands
<1>4. proposal' \in [Proposals -> ProposalRow \cup {None}]
  BY <1>3 DEF TypeOK, Execute
<1>5. executions' \subseteq ExecutionRow
  BY <1>2 DEF TypeOK, Execute, ExecutionRow, ReadableTimes
<1>6. ledger' \subseteq LedgerRow
  BY <1>2, EntriesType DEF TypeOK, Execute
<1>7. audits' \in [Proposals -> Nat]
  BY DEF TypeOK, Execute, Audit
<1>8. [actor |-> actor, key |-> key, body |-> NoBody, resource |-> p] \in IdempotencyRow
  BY BodiesOfCommands DEF IdempotencyRow
<1>9. /\ DOMAIN idempotency' = Operations
      /\ \A o \in Operations : idempotency'[o] \subseteq IdempotencyRow
  BY <1>8 DEF TypeOK, Execute, Remember, Operations
<1>10. UNCHANGED <<now, dispute, grant, safety>>
  BY DEF Execute
<1> QED BY <1>4, <1>5, <1>6, <1>7, <1>9, <1>10 DEF TypeOK

\* Every command on an existing proposal keeps the tables well-typed.
LEMMA TypeCommand ==
  ASSUME TypeOK,
         NEW actor \in Accounts, NEW key \in Keys, NEW p \in Proposals, NEW rev,
         Command(actor, key, p, rev)
  PROVE  TypeOK'
<1>1. CASE \E d \in Disputes : SubmitDispute(actor, key, p, rev, d)
  <2> PICK d \in Disputes : SubmitDispute(actor, key, p, rev, d)
    BY <1>1
  <2>1. [proposal |-> p, status |-> "open", request |-> "open", reviewer |-> None]
          \in DisputeRow
    BY DEF DisputeRow
  <2>2. dispute' \in [Disputes -> DisputeRow \cup {None}]
    BY <2>1 DEF SubmitDispute, TypeOK
  <2>3. Change(actor, "submit_dispute", key, [claim |-> "claim"], p, rev, "disputed")
    BY DEF SubmitDispute
  <2>4. UNCHANGED <<grant, safety>>
    BY DEF SubmitDispute
  <2> QED BY <2>2, <2>3, <2>4, ChangeTypes, StatesOfCommands, BodiesOfCommands
          DEF TypeOK, Operations
<1>2. CASE \E d \in Disputes : ResolveDispute(actor, key, p, rev, d)
  <2> PICK d \in Disputes : ResolveDispute(actor, key, p, rev, d)
    BY <1>2
  <2>1. dispute[d] \in DisputeRow
    BY DEF ResolveDispute, OpenDispute, TypeOK
  <2>2. [dispute[d] EXCEPT !.status = "resolved"] \in DisputeRow
    BY <2>1 DEF DisputeRow
  <2>3. dispute' \in [Disputes -> DisputeRow \cup {None}]
    BY <2>2 DEF ResolveDispute, TypeOK
  <2>4. Change(actor, "resolve_dispute", key, [dispute |-> d], p, rev, "held")
    BY DEF ResolveDispute
  <2>5. UNCHANGED <<grant, safety>>
    BY DEF ResolveDispute
  <2> QED BY <2>3, <2>4, <2>5, ChangeTypes, StatesOfCommands, BodiesOfCommands
          DEF TypeOK, Operations
<1>3. CASE GrantAuthorization(actor, key, p, rev)
  <2> DEFINE party == PartyOf[actor]
  <2>1. party \in Parties
    BY PartyAssumption
  <2>2. grant[p][party] \in GrantRow \cup {None}
    BY <2>1 DEF TypeOK
  <2>3. Granted(grant[p][party], actor) \in GrantRow
    BY <2>2 DEF Granted, GrantRow
  <2>4. grant' \in [Proposals -> [Parties -> GrantRow \cup {None}]]
    BY <1>3, <2>1, <2>3 DEF GrantAuthorization, TypeOK
  <2>5. Change(actor, "grant_authorization", key, NoBody, p, rev, proposal[p].state)
    BY <1>3 DEF GrantAuthorization
  <2>6. proposal[p].state \in ResolutionState
    BY <2>5 DEF Change, Exists, TypeOK, ProposalRow
  <2>7. UNCHANGED <<dispute, safety>>
    BY <1>3 DEF GrantAuthorization
  <2> QED BY <2>4, <2>5, <2>6, <2>7, ChangeTypes, BodiesOfCommands DEF TypeOK, Operations
<1>4. CASE RevokeAuthorization(actor, key, p, rev)
  <2> DEFINE party == PartyOf[actor]
  <2>1. party \in Parties
    BY PartyAssumption
  <2>2. grant[p][party] \in GrantRow
    BY <1>4, <2>1 DEF RevokeAuthorization, TypeOK
  <2>3. [grant[p][party] EXCEPT !.revoked = TRUE] \in GrantRow
    BY <2>2 DEF GrantRow
  <2>4. grant' \in [Proposals -> [Parties -> GrantRow \cup {None}]]
    BY <1>4, <2>1, <2>3 DEF RevokeAuthorization, TypeOK
  <2>5. Change(actor, "revoke_authorization", key, NoBody, p, rev, "held")
    BY <1>4 DEF RevokeAuthorization
  <2>6. UNCHANGED <<dispute, safety>>
    BY <1>4 DEF RevokeAuthorization
  <2> QED BY <2>4, <2>5, <2>6, ChangeTypes, StatesOfCommands, BodiesOfCommands
          DEF TypeOK, Operations
<1>5. CASE \E state \in SafetyInputs : TransitionSafety(actor, key, p, rev, state)
  <2> PICK state \in SafetyInputs : TransitionSafety(actor, key, p, rev, state)
    BY <1>5
  <2> DEFINE target == IF state = "clear" THEN proposal[p].state ELSE "held"
  <2>1. Change(actor, "transition_financial_safety", key, [state |-> state], p, rev, target)
    BY DEF TransitionSafety
  <2>2. proposal[p].state \in ResolutionState
    BY <2>1 DEF Change, Exists, TypeOK, ProposalRow
  <2>3. target \in ResolutionState
    BY <2>2, StatesOfCommands
  <2>4. safety' \in FinancialSafetyState
    BY ServiceAssumption DEF TransitionSafety
  <2>5. UNCHANGED <<dispute, grant>>
    BY DEF TransitionSafety
  <2> HIDE DEF target
  <2> QED BY <2>1, <2>3, <2>4, <2>5, ChangeTypes, BodiesOfCommands DEF TypeOK, Operations
<1>6. CASE Cancel(actor, key, p, rev)
  <2>1. Change(actor, "cancel_resolution", key, NoBody, p, rev, "cancelled")
    BY <1>6 DEF Cancel
  <2>2. UNCHANGED <<dispute, grant, safety>>
    BY <1>6 DEF Cancel
  <2> QED BY <2>1, <2>2, ChangeTypes, StatesOfCommands, BodiesOfCommands
          DEF TypeOK, Operations
<1>7. CASE \E at \in ReadableTimes : Execute(actor, key, p, rev, at)
  BY <1>7, TypeExecute
<1> QED BY <1>1, <1>2, <1>3, <1>4, <1>5, <1>6, <1>7 DEF Command

LEMMA TypeNext == TypeOK /\ [Next]_vars => TypeOK'
<1> SUFFICES ASSUME TypeOK, [Next]_vars PROVE TypeOK'
  OBVIOUS
<1>1. CASE Tick
  BY <1>1 DEF Tick, TypeOK
<1>2. ASSUME NEW actor \in Accounts, NEW key \in Keys, NEW p \in Proposals,
             NEW c \in ProposedInputs, NEW assessment \in Assessments,
             NEW decision \in ReviewerDecisions \cup {None},
             NEW expiresAt \in Deadlines \cup {Never}, NEW at \in ReadableTimes,
             Propose(actor, key, p, c, assessment, decision, expiresAt, at)
      PROVE  TypeOK'
  BY <1>2, TypePropose
<1>3. ASSUME NEW actor \in Accounts, NEW key \in Keys, NEW p \in Proposals, NEW rev,
             Command(actor, key, p, rev)
      PROVE  TypeOK'
  BY <1>3, TypeCommand
<1>4. ASSUME NEW actor \in Accounts, NEW d \in Disputes, AssignReview(actor, d)
      PROVE  TypeOK'
  <2>1. dispute[d] \in DisputeRow
    BY <1>4 DEF AssignReview, TypeOK
  <2>2. [dispute[d] EXCEPT !.request = "assigned", !.reviewer = actor] \in DisputeRow
    BY <2>1 DEF DisputeRow
  <2> QED BY <1>4, <2>2 DEF AssignReview, TypeOK
<1>5. ASSUME NEW actor \in Accounts, NEW d \in Disputes, RecordReviewerDecision(actor, d)
      PROVE  TypeOK'
  <2>1. dispute[d] \in DisputeRow
    BY <1>5 DEF RecordReviewerDecision, TypeOK
  <2>2. [dispute[d] EXCEPT !.request = "completed"] \in DisputeRow
    BY <2>1 DEF DisputeRow
  <2> QED BY <1>5, <2>2 DEF RecordReviewerDecision, TypeOK
<1>6. CASE UNCHANGED vars
  BY <1>6 DEF vars, TypeOK
<1> QED BY <1>1, <1>2, <1>3, <1>4, <1>5, <1>6 DEF Next

\* The tables hold rows of their shapes.
THEOREM TypeCorrect == Spec => []TypeOK
BY TypeInit, TypeNext, PTL DEF Spec
-----------------------------------------------------------------------------
(***************************************************************************)
(* Safety.  A step does one of four things to a proposal and the           *)
(* executions (Step below); the inductive invariant IInv is then preserved *)
(* by each of the four.                                                    *)
(***************************************************************************)

(* The inductive invariant. *)

\* No command leaves a proposal in one of the other four states.
ReachedState ==
  {"review_window_open", "disputed", "held", "simulated_executed", "cancelled"}

OnlyReached == \A p \in Proposals : Exists(p) => proposal[p].state \in ReachedState

\* A dispute is of a proposal that exists.
DisputesOfProposals ==
  \A d \in Disputes : dispute[d] # None => Exists(dispute[d].proposal)

IInv ==
  /\ TypeOK
  /\ OnlyReached
  /\ DisputesOfProposals
  /\ OneActiveProposalPerOutcome
  /\ SettledAtMostOnce
  /\ ExecutionRecorded
  /\ DisputesFreeze
  /\ ExecutionStaysJustified

-----------------------------------------------------------------------------
(* What a step does to the proposals and the executions. *)

Rests == UNCHANGED <<proposal, executions>>

Opens(p, c) ==
  /\ ~Exists(p)
  /\ c \in ProposedInputs
  /\ OutcomeFree(c)
  /\ executions' = executions
  /\ \E row \in ProposalRow :
       /\ row.state = "review_window_open" /\ row.consequence = c
       /\ proposal' = [proposal EXCEPT ![p] = row]

Turns(p, target) ==
  proposal' = [proposal EXCEPT ![p] =
    [proposal[p] EXCEPT !.state = target, !.revision = proposal[p].revision + 1]]

Moves(p, target) ==
  /\ Active(p)
  /\ target # proposal[p].state
  /\ CanTransition(proposal[p].state, target)
  /\ Turns(p, target)
  /\ executions' = executions

Settles(p) ==
  /\ Active(p)
  /\ Unsettled(p)
  /\ ~Disputed(p)
  /\ Turns(p, "simulated_executed")
  /\ \E at \in Nat :
       /\ Ready(Snapshot(p), at)
       /\ executions' = executions \cup
            {[proposal |-> p, consequence |-> proposal[p].consequence, at |-> at]}

\* A command that goes through change moves the proposal or leaves it.
LEMMA ChangeShape ==
  ASSUME TypeOK,
         NEW actor, NEW operation, NEW key, NEW body, NEW p \in Proposals,
         NEW rev, NEW target,
         Change(actor, operation, key, body, p, rev, target)
  PROVE  /\ Active(p)
         /\ IF target = proposal[p].state THEN Rests ELSE Moves(p, target)
<1>1. Active(p)
  BY DEF Change, Active
<1>2. CASE target = proposal[p].state
  <2>1. proposal' = [proposal EXCEPT ![p] = proposal[p]]
    BY <1>2 DEF Change, Moved
  <2>2. proposal' = proposal
    BY <2>1 DEF TypeOK
  <2> QED BY <1>1, <1>2, <2>2 DEF Change, Rests
<1>3. CASE target # proposal[p].state
  BY <1>1, <1>3 DEF Change, Moved, Moves, Turns
<1> QED BY <1>1, <1>2, <1>3

\* What readiness implies of the snapshot.
LEMMA ReadyMeans ==
  ASSUME NEW snapshot, NEW at, Ready(snapshot, at)
  PROVE  /\ ~snapshot.executed
         /\ snapshot.row.state \notin {"simulated_executed", "cancelled"}
         /\ Elapsed(snapshot.row, at) /\ ~Lapsed(snapshot.row, at)
         /\ Assessed(snapshot.row) /\ Reviewed(snapshot.row)
         /\ ~snapshot.disputed
         /\ snapshot.safety = "clear"
         /\ Approved(snapshot)
         /\ ValidEffect(snapshot.row.consequence.effect)
<1> DEFINE b == Blocking(snapshot, at)
           Codes == {"ALREADY_EXECUTED", "PROPOSAL_STALE", "PROPOSAL_EXPIRED",
                     "ASSESSMENT_NOT_ELIGIBLE", "REVIEW_WINDOW_ACTIVE", "ACTIVE_DISPUTE",
                     "FINANCIAL_SAFETY", "AUTHORIZATION_REVOKED", "AUTHORIZATION_MISSING",
                     "HUMAN_REVIEW_REQUIRED", "EFFECT_INVALID"}
<1>1. DOMAIN b = Codes
  BY DEF Blocking
<1>2. \A code \in Codes : ~b[code]
  BY <1>1 DEF Ready, Blockers
<1>3. /\ ~b.ALREADY_EXECUTED /\ ~b.PROPOSAL_STALE /\ ~b.PROPOSAL_EXPIRED
      /\ ~b.ASSESSMENT_NOT_ELIGIBLE /\ ~b.REVIEW_WINDOW_ACTIVE /\ ~b.ACTIVE_DISPUTE
      /\ ~b.FINANCIAL_SAFETY /\ ~b.AUTHORIZATION_REVOKED /\ ~b.AUTHORIZATION_MISSING
      /\ ~b.HUMAN_REVIEW_REQUIRED /\ ~b.EFFECT_INVALID
  BY <1>2
<1> QED BY <1>3 DEF Blocking

\* The readiness that execute found in its transaction.
LEMMA ExecuteShape ==
  ASSUME TypeOK, OnlyReached,
         NEW actor, NEW key, NEW p \in Proposals, NEW rev, NEW at \in ReadableTimes,
         Execute(actor, key, p, rev, at)
  PROVE  Settles(p)
<1>1. Ready(Snapshot(p), at)
  BY DEF Execute
<1>2. /\ proposal[p].state \notin {"simulated_executed", "cancelled"}
      /\ ~Disputed(p)
  BY <1>1, ReadyMeans DEF Snapshot
<1>3. Active(p)
  BY <1>2 DEF Execute, Active, Terminal, TERMINAL_STATES, OnlyReached, ReachedState
<1>4. Turns(p, "simulated_executed")
  BY <1>2 DEF Execute, Moved, Turns
<1>5. at \in Nat
  BY DEF ReadableTimes, TypeOK
<1> QED BY <1>1, <1>2, <1>3, <1>4, <1>5 DEF Execute, Settles

LEMMA ProposeShape ==
  ASSUME TypeOK,
         NEW actor \in Accounts, NEW key \in Keys, NEW p \in Proposals,
         NEW c \in ProposedInputs, NEW assessment \in Assessments,
         NEW decision \in ReviewerDecisions \cup {None},
         NEW expiresAt \in Deadlines \cup {Never}, NEW at \in ReadableTimes,
         Propose(actor, key, p, c, assessment, decision, expiresAt, at)
  PROVE  Opens(p, c)
<1> DEFINE row == [state |-> "review_window_open", revision |-> 1, consequence |-> c,
                   creator |-> actor, windowEnds |-> at + ReviewWindow,
                   expiresAt |-> expiresAt, assessment |-> assessment,
                   decision |-> decision]
<1>1. c \in Consequences
  BY ServiceAssumption
<1>2. at + ReviewWindow \in Nat
  BY ServiceAssumption DEF ReadableTimes, TypeOK
<1>3. row \in ProposalRow
  BY <1>1, <1>2, StatesOfCommands DEF ProposalRow
<1>4. proposal' = [proposal EXCEPT ![p] = row]
  BY DEF Propose
<1>5. row.state = "review_window_open" /\ row.consequence = c
  OBVIOUS
<1> HIDE DEF row
<1> QED BY <1>3, <1>4, <1>5 DEF Propose, Opens

\* The states a command moves a proposal to, and what else it may touch: a
\* dispute of it, or the grants of it.
CommandTargets == {"disputed", "held", "cancelled"}

OthersKept(p) ==
  /\ \A q \in Proposals : q # p => grant'[q] = grant[q]
  /\ \A d \in Disputes, q \in Proposals :
       q # p => (OpenDispute(d, q)' <=> OpenDispute(d, q))

\* A command on p leaves the grants and the disputes of other proposals alone.
LEMMA CommandShape ==
  ASSUME TypeOK, OnlyReached,
         NEW actor \in Accounts, NEW key \in Keys, NEW p \in Proposals, NEW rev,
         Command(actor, key, p, rev)
  PROVE  /\ Active(p)
         /\ OthersKept(p)
         /\ Rests \/ Settles(p) \/ \E target \in CommandTargets : Moves(p, target)
<1>1. CASE \E d \in Disputes : SubmitDispute(actor, key, p, rev, d)
  <2> PICK d \in Disputes : SubmitDispute(actor, key, p, rev, d)
    BY <1>1
  <2>1. Change(actor, "submit_dispute", key, [claim |-> "claim"], p, rev, "disputed")
    BY DEF SubmitDispute
  <2>2. Active(p) /\ (Rests \/ Moves(p, "disputed"))
    BY <2>1, ChangeShape
  <2>3. OthersKept(p)
    BY DEF SubmitDispute, OthersKept, OpenDispute, TypeOK
  <2> QED BY <2>2, <2>3 DEF CommandTargets
<1>2. CASE \E d \in Disputes : ResolveDispute(actor, key, p, rev, d)
  <2> PICK d \in Disputes : ResolveDispute(actor, key, p, rev, d)
    BY <1>2
  <2>1. Change(actor, "resolve_dispute", key, [dispute |-> d], p, rev, "held")
    BY DEF ResolveDispute
  <2>2. Active(p) /\ (Rests \/ Moves(p, "held"))
    BY <2>1, ChangeShape
  <2>3. dispute[d] \in DisputeRow /\ dispute[d].proposal = p
    BY DEF ResolveDispute, OpenDispute, TypeOK
  <2>4. /\ dispute' = [dispute EXCEPT ![d].status = "resolved"]
        /\ grant' = grant
    BY DEF ResolveDispute
  <2>5. dispute'[d].proposal = p /\ dispute'[d] # None
    <3>1. dispute'[d] = [dispute[d] EXCEPT !.status = "resolved"]
      BY <2>4 DEF TypeOK
    <3>2. dispute'[d] \in DisputeRow
      BY <2>3, <3>1 DEF DisputeRow
    <3> QED BY <2>3, <3>1, <3>2, NoneAssumption DEF DisputeRow
  <2>6. \A e \in Disputes : e # d => dispute'[e] = dispute[e]
    BY <2>4 DEF TypeOK
  <2>7. OthersKept(p)
    BY <2>3, <2>4, <2>5, <2>6 DEF OthersKept, OpenDispute
  <2> QED BY <2>2, <2>7 DEF CommandTargets
<1>3. CASE GrantAuthorization(actor, key, p, rev)
  <2>1. Change(actor, "grant_authorization", key, NoBody, p, rev, proposal[p].state)
    BY <1>3 DEF GrantAuthorization
  <2>2. Active(p) /\ Rests
    BY <2>1, ChangeShape
  <2>3. OthersKept(p)
    BY <1>3 DEF GrantAuthorization, OthersKept, OpenDispute, TypeOK
  <2> QED BY <2>2, <2>3
<1>4. CASE RevokeAuthorization(actor, key, p, rev)
  <2>1. Change(actor, "revoke_authorization", key, NoBody, p, rev, "held")
    BY <1>4 DEF RevokeAuthorization
  <2>2. Active(p) /\ (Rests \/ Moves(p, "held"))
    BY <2>1, ChangeShape
  <2>3. OthersKept(p)
    BY <1>4 DEF RevokeAuthorization, OthersKept, OpenDispute, TypeOK
  <2> QED BY <2>2, <2>3 DEF CommandTargets
<1>5. CASE \E state \in SafetyInputs : TransitionSafety(actor, key, p, rev, state)
  <2> PICK state \in SafetyInputs : TransitionSafety(actor, key, p, rev, state)
    BY <1>5
  <2> DEFINE target == IF state = "clear" THEN proposal[p].state ELSE "held"
  <2>1. Change(actor, "transition_financial_safety", key, [state |-> state], p, rev, target)
    BY DEF TransitionSafety
  <2>2. Active(p) /\ (Rests \/ Moves(p, "held"))
    BY <2>1, ChangeShape
  <2>3. OthersKept(p)
    BY DEF TransitionSafety, OthersKept, OpenDispute
  <2> QED BY <2>2, <2>3 DEF CommandTargets
<1>6. CASE Cancel(actor, key, p, rev)
  <2>1. Change(actor, "cancel_resolution", key, NoBody, p, rev, "cancelled")
    BY <1>6 DEF Cancel
  <2>2. Active(p) /\ (Rests \/ Moves(p, "cancelled"))
    BY <2>1, ChangeShape
  <2>3. OthersKept(p)
    BY <1>6 DEF Cancel, OthersKept, OpenDispute
  <2> QED BY <2>2, <2>3 DEF CommandTargets
<1>7. CASE \E at \in ReadableTimes : Execute(actor, key, p, rev, at)
  <2> PICK at \in ReadableTimes : Execute(actor, key, p, rev, at)
    BY <1>7
  <2>1. Settles(p)
    BY ExecuteShape
  <2>2. OthersKept(p)
    BY DEF Execute, OthersKept, OpenDispute
  <2> QED BY <2>1, <2>2 DEF Settles
<1> QED BY <1>1, <1>2, <1>3, <1>4, <1>5, <1>6, <1>7 DEF Command

\* Every step of the service.
Step ==
  \/ Rests
  \/ \E p \in Proposals, c \in ProposedInputs : Opens(p, c)
  \/ \E p \in Proposals : Settles(p) \/ \E target \in CommandTargets : Moves(p, target)

LEMMA StepShape ==
  ASSUME TypeOK, OnlyReached, [Next]_vars
  PROVE  Step
<1>1. CASE Tick
  BY <1>1 DEF Tick, Step, Rests
<1>2. ASSUME NEW actor \in Accounts, NEW key \in Keys, NEW p \in Proposals,
             NEW c \in ProposedInputs, NEW assessment \in Assessments,
             NEW decision \in ReviewerDecisions \cup {None},
             NEW expiresAt \in Deadlines \cup {Never}, NEW at \in ReadableTimes,
             Propose(actor, key, p, c, assessment, decision, expiresAt, at)
      PROVE  Step
  BY <1>2, ProposeShape DEF Step
<1>3. ASSUME NEW actor \in Accounts, NEW key \in Keys, NEW p \in Proposals, NEW rev,
             Command(actor, key, p, rev)
      PROVE  Step
  BY <1>3, CommandShape DEF Step
<1>4. ASSUME NEW actor \in Accounts, NEW d \in Disputes,
             AssignReview(actor, d) \/ RecordReviewerDecision(actor, d)
      PROVE  Step
  BY <1>4 DEF AssignReview, RecordReviewerDecision, Step, Rests
<1>5. CASE UNCHANGED vars
  BY <1>5 DEF vars, Step, Rests
<1> QED BY <1>1, <1>2, <1>3, <1>4, <1>5 DEF Next

-----------------------------------------------------------------------------
(* Outcomes and executions. *)

\* What turning a row leaves of it.
LEMMA TurnsMeans ==
  ASSUME TypeOK, NEW p \in Proposals, Exists(p), NEW target \in ResolutionState,
         Turns(p, target)
  PROVE  /\ \A q \in Proposals : q # p => proposal'[q] = proposal[q]
         /\ proposal'[p] = [proposal[p] EXCEPT !.state = target,
                                               !.revision = proposal[p].revision + 1]
         /\ proposal'[p] # None
         /\ proposal'[p].state = target
         /\ proposal'[p].consequence = proposal[p].consequence
         /\ \A q \in Proposals : Exists(q)' <=> Exists(q)
<1>1. proposal[p] \in ProposalRow
  BY DEF TypeOK, Exists
<1>2. [proposal[p] EXCEPT !.state = target, !.revision = proposal[p].revision + 1]
        \in ProposalRow
  <2>1. proposal[p].revision + 1 \in Nat
    BY <1>1 DEF ProposalRow
  <2> QED BY <1>1, <2>1 DEF ProposalRow
<1>3. proposal'[p] = [proposal[p] EXCEPT !.state = target,
                                         !.revision = proposal[p].revision + 1]
  BY DEF Turns, TypeOK
<1>4. proposal'[p] # None
  BY <1>2, <1>3, NoneAssumption
<1>5. proposal'[p].state = target /\ proposal'[p].consequence = proposal[p].consequence
  BY <1>1, <1>3 DEF ProposalRow
<1>6. \A q \in Proposals : q # p => proposal'[q] = proposal[q]
  BY DEF Turns, TypeOK
<1> QED BY <1>3, <1>4, <1>5, <1>6 DEF Exists

LEMMA OpensMeans ==
  ASSUME TypeOK, NEW p \in Proposals, NEW c \in ProposedInputs, Opens(p, c)
  PROVE  /\ \A q \in Proposals : q # p => proposal'[q] = proposal[q]
         /\ proposal'[p] # None
         /\ proposal'[p].state = "review_window_open"
         /\ proposal'[p].consequence = c
         /\ \A q \in Proposals : q # p => (Exists(q)' <=> Exists(q))
<1> PICK row \in ProposalRow :
           /\ row.state = "review_window_open" /\ row.consequence = c
           /\ proposal' = [proposal EXCEPT ![p] = row]
  BY DEF Opens
<1>1. proposal'[p] = row
  BY DEF TypeOK
<1>2. \A q \in Proposals : q # p => proposal'[q] = proposal[q]
  BY DEF TypeOK
<1> QED BY <1>1, <1>2, NoneAssumption DEF Exists

LEMMA OnlyReachedNext ==
  ASSUME TypeOK, OnlyReached, Step
  PROVE  OnlyReached'
<1>1. CASE Rests
  BY <1>1 DEF Rests, OnlyReached, Exists
<1>2. ASSUME NEW p \in Proposals, NEW c \in ProposedInputs, Opens(p, c)
      PROVE  OnlyReached'
  BY <1>2, OpensMeans DEF OnlyReached, ReachedState, Exists
<1>3. ASSUME NEW p \in Proposals, NEW target \in CommandTargets, Moves(p, target)
      PROVE  OnlyReached'
  <2>1. target \in ResolutionState /\ target \in ReachedState
    BY DEF CommandTargets, ReachedState, ResolutionState
  <2> QED BY <1>3, <2>1, TurnsMeans DEF Moves, Active, OnlyReached, Exists
<1>4. ASSUME NEW p \in Proposals, Settles(p)
      PROVE  OnlyReached'
  BY <1>4, TurnsMeans, StatesOfCommands
     DEF Settles, Active, OnlyReached, ReachedState, Exists
<1> QED BY <1>1, <1>2, <1>3, <1>4 DEF Step

LEMMA OneActiveNext ==
  ASSUME TypeOK, OneActiveProposalPerOutcome, Step
  PROVE  OneActiveProposalPerOutcome'
<1> SUFFICES ASSUME NEW q \in Proposals, NEW r \in Proposals,
                    Active(q)', Active(r)', Outcome(q)' = Outcome(r)', q # r
             PROVE  FALSE
  BY DEF OneActiveProposalPerOutcome
<1>1. CASE Rests
  BY <1>1 DEF Rests, OneActiveProposalPerOutcome, Active, Exists, Terminal, Outcome
<1>2. ASSUME NEW p \in Proposals, NEW c \in ProposedInputs, Opens(p, c)
      PROVE  FALSE
  <2>1. \A s \in Proposals : s # p =>
          (Active(s)' <=> Active(s)) /\ Outcome(s)' = Outcome(s)
    BY <1>2, OpensMeans DEF Active, Exists, Terminal, Outcome
  <2>2. Outcome(p)' = c.outcome
    BY <1>2, OpensMeans DEF Outcome
  <2>3. \A s \in Proposals : s # p => ~(Active(s) /\ Outcome(s) = c.outcome)
    BY <1>2 DEF Opens, OutcomeFree
  <2>4. CASE q = p
    BY <2>1, <2>2, <2>3, <2>4
  <2>5. CASE r = p
    BY <2>1, <2>2, <2>3, <2>5
  <2>6. CASE q # p /\ r # p
    BY <2>1, <2>6 DEF OneActiveProposalPerOutcome
  <2> QED BY <2>4, <2>5, <2>6
<1>3. ASSUME NEW p \in Proposals, NEW target \in ResolutionState, Active(p), Turns(p, target)
      PROVE  FALSE
  <2>1. /\ \A s \in Proposals : s # p => proposal'[s] = proposal[s]
        /\ proposal'[p].consequence = proposal[p].consequence
    BY <1>3, TurnsMeans DEF Active
  <2>2. \A s \in Proposals : Active(s)' => Active(s)
    <3> SUFFICES ASSUME NEW s \in Proposals, Active(s)', s # p PROVE Active(s)
      BY <1>3
    <3> QED BY <2>1 DEF Active, Exists, Terminal
  <2>3. \A s \in Proposals : Outcome(s)' = Outcome(s)
    BY <2>1 DEF Outcome
  <2> QED BY <2>2, <2>3 DEF OneActiveProposalPerOutcome
<1>4. CommandTargets \subseteq ResolutionState
  BY DEF CommandTargets, ResolutionState
<1> QED BY <1>1, <1>2, <1>3, <1>4, StatesOfCommands DEF Step, Moves, Settles

\* Executions are on record exactly for the executed proposals, once each.
LEMMA ExecutionNext ==
  ASSUME TypeOK, SettledAtMostOnce, ExecutionRecorded, Step
  PROVE  SettledAtMostOnce' /\ ExecutionRecorded'
<1>1. CASE Rests
  BY <1>1 DEF Rests, SettledAtMostOnce, ExecutionRecorded, Executed, Exists
<1>2. ASSUME NEW p \in Proposals, NEW c \in ProposedInputs, Opens(p, c)
      PROVE  SettledAtMostOnce' /\ ExecutionRecorded'
  <2>1. executions' = executions
    BY <1>2 DEF Opens
  <2>2. \A e \in executions : e.proposal \in Proposals /\ e.proposal # p
    BY <1>2 DEF Opens, ExecutionRecorded, TypeOK, ExecutionRow
  <2>3. ExecutionRecorded'
    BY <1>2, <2>1, <2>2, OpensMeans DEF ExecutionRecorded, Executed, Exists
  <2> QED BY <2>1, <2>3 DEF SettledAtMostOnce
<1>3. ASSUME NEW p \in Proposals, NEW target \in CommandTargets, Moves(p, target)
      PROVE  SettledAtMostOnce' /\ ExecutionRecorded'
  <2>1. executions' = executions
    BY <1>3 DEF Moves
  <2>2. \A e \in executions : e.proposal \in Proposals /\ e.proposal # p
    BY <1>3 DEF Moves, Active, Terminal, TERMINAL_STATES, ExecutionRecorded, TypeOK,
                ExecutionRow
  <2>3. target \in ResolutionState /\ target # "simulated_executed"
    BY DEF CommandTargets, ResolutionState
  <2>4. /\ \A q \in Proposals : q # p => proposal'[q] = proposal[q]
        /\ proposal'[p].state = target
    BY <1>3, <2>3, TurnsMeans DEF Moves, Active
  <2>5. \A q \in Proposals :
          Exists(q)' /\ proposal'[q].state = "simulated_executed" => Executed(q)'
    BY <2>1, <2>3, <2>4 DEF ExecutionRecorded, Executed, Exists
  <2>6. ExecutionRecorded'
    BY <2>1, <2>2, <2>4, <2>5 DEF ExecutionRecorded, Exists
  <2> QED BY <2>1, <2>6 DEF SettledAtMostOnce
<1>4. ASSUME NEW p \in Proposals, Settles(p)
      PROVE  SettledAtMostOnce' /\ ExecutionRecorded'
  <2> PICK at \in Nat : executions' = executions \cup
        {[proposal |-> p, consequence |-> proposal[p].consequence, at |-> at]}
    BY <1>4 DEF Settles
  <2> DEFINE new == [proposal |-> p, consequence |-> proposal[p].consequence, at |-> at]
  <2>1. \A e \in executions : e.proposal # new.proposal /\ e.consequence # new.consequence
    BY <1>4 DEF Settles, Unsettled
  <2>2. new.proposal = p /\ new.consequence = proposal[p].consequence
    OBVIOUS
  <2>3. executions' = executions \cup {new}
    OBVIOUS
  <2> HIDE DEF new
  <2>4. SettledAtMostOnce'
    BY <2>1, <2>3 DEF SettledAtMostOnce
  <2>5. \A q \in Proposals :
          Exists(q)' /\ proposal'[q].state = "simulated_executed" => Executed(q)'
    <3> SUFFICES ASSUME NEW q \in Proposals,
                        Exists(q)', proposal'[q].state = "simulated_executed"
                 PROVE  Executed(q)'
      OBVIOUS
    <3>1. CASE q = p
      BY <2>2, <2>3, <3>1 DEF Executed
    <3>2. CASE q # p
      <4>1. proposal'[q] = proposal[q]
        BY <1>4, <3>2, TurnsMeans, StatesOfCommands DEF Settles, Active
      <4> QED BY <2>3, <4>1 DEF ExecutionRecorded, Executed, Exists
    <3> QED BY <3>1, <3>2
  <2>6. \A e \in executions' :
          /\ Exists(e.proposal)'
          /\ proposal'[e.proposal].state = "simulated_executed"
          /\ proposal'[e.proposal].consequence = e.consequence
    <3> SUFFICES ASSUME NEW e \in executions'
                 PROVE  /\ Exists(e.proposal)'
                        /\ proposal'[e.proposal].state = "simulated_executed"
                        /\ proposal'[e.proposal].consequence = e.consequence
      OBVIOUS
    <3>1. CASE e = new
      BY <1>4, <2>2, <3>1, TurnsMeans, StatesOfCommands DEF Settles, Active, Exists
    <3>2. CASE e \in executions
      <4>1. e.proposal \in Proposals /\ e.proposal # p
        BY <2>1, <2>2, <3>2 DEF TypeOK, ExecutionRow
      <4> QED BY <1>4, <3>2, <4>1, TurnsMeans, StatesOfCommands
              DEF Settles, Active, Exists, ExecutionRecorded
    <3> QED BY <2>3, <3>1, <3>2
  <2> QED BY <2>4, <2>5, <2>6 DEF ExecutionRecorded
<1> QED BY <1>1, <1>2, <1>3, <1>4 DEF Step

-----------------------------------------------------------------------------
(* Disputes, and what is frozen. *)

\* Assigning or deciding a review opens and closes no dispute.
LEMMA ReviewKeepsDisputes ==
  ASSUME TypeOK, NEW actor \in Accounts, NEW d \in Disputes,
         AssignReview(actor, d) \/ RecordReviewerDecision(actor, d)
  PROVE  /\ \A e \in Disputes : /\ dispute'[e] # None <=> dispute[e] # None
                                /\ dispute[e] # None =>
                                     dispute'[e].proposal = dispute[e].proposal
         /\ \A e \in Disputes, q \in Proposals : OpenDispute(e, q)' <=> OpenDispute(e, q)
         /\ UNCHANGED <<proposal, grant, executions>>
<1>1. dispute[d] \in DisputeRow
  BY DEF AssignReview, RecordReviewerDecision, TypeOK
<1>2. /\ [dispute[d] EXCEPT !.request = "assigned", !.reviewer = actor] \in DisputeRow
      /\ [dispute[d] EXCEPT !.request = "completed"] \in DisputeRow
  BY <1>1 DEF DisputeRow
<1>3. /\ dispute'[d] # None
      /\ dispute'[d].proposal = dispute[d].proposal
      /\ dispute'[d].status = dispute[d].status
  <2>1. CASE AssignReview(actor, d)
    <3>1. dispute'[d] = [dispute[d] EXCEPT !.request = "assigned", !.reviewer = actor]
      BY <2>1 DEF AssignReview, TypeOK
    <3> QED BY <1>1, <1>2, <3>1, NoneAssumption DEF DisputeRow
  <2>2. CASE RecordReviewerDecision(actor, d)
    <3>1. dispute'[d] = [dispute[d] EXCEPT !.request = "completed"]
      BY <2>2 DEF RecordReviewerDecision, TypeOK
    <3> QED BY <1>1, <1>2, <3>1, NoneAssumption DEF DisputeRow
  <2> QED BY <2>1, <2>2
<1>4. \A e \in Disputes : e # d => dispute'[e] = dispute[e]
  BY DEF AssignReview, RecordReviewerDecision, TypeOK
<1>5. UNCHANGED <<proposal, grant, executions>>
  BY DEF AssignReview, RecordReviewerDecision
<1>6. dispute[d] # None
  BY <1>1, NoneAssumption
<1> QED BY <1>3, <1>4, <1>5, <1>6 DEF OpenDispute

LEMMA ChangeMeans ==
  ASSUME TypeOK,
         NEW actor, NEW operation, NEW key, NEW body, NEW p \in Proposals,
         NEW rev, NEW target \in ResolutionState,
         Change(actor, operation, key, body, p, rev, target)
  PROVE  /\ proposal'[p].state = target
         /\ \A q \in Proposals : q # p => proposal'[q] = proposal[q]
         /\ \A q \in Proposals : Exists(q)' <=> Exists(q)
<1>1. Active(p) /\ IF target = proposal[p].state THEN Rests ELSE Moves(p, target)
  BY ChangeShape
<1>2. CASE target = proposal[p].state
  BY <1>1, <1>2 DEF Rests, Exists
<1>3. CASE target # proposal[p].state
  BY <1>1, <1>3, TurnsMeans DEF Moves, Active
<1> QED BY <1>2, <1>3

\* What a command on p leaves of the other proposals.
LEMMA CommandMeans ==
  ASSUME TypeOK, OnlyReached,
         NEW actor \in Accounts, NEW key \in Keys, NEW p \in Proposals, NEW rev,
         Command(actor, key, p, rev)
  PROVE  /\ Active(p)
         /\ \A q \in Proposals : q # p =>
              /\ proposal'[q] = proposal[q]
              /\ grant'[q] = grant[q]
              /\ \A d \in Disputes : OpenDispute(d, q)' <=> OpenDispute(d, q)
         /\ \A q \in Proposals : Exists(q)' <=> Exists(q)
<1>1. Active(p) /\ OthersKept(p)
  BY CommandShape
<1>2. Rests \/ \E target \in ResolutionState : Turns(p, target)
  BY CommandShape DEF Settles, Moves, CommandTargets, ResolutionState
<1>3. /\ \A q \in Proposals : q # p => proposal'[q] = proposal[q]
      /\ \A q \in Proposals : Exists(q)' <=> Exists(q)
  <2>1. CASE Rests
    BY <2>1 DEF Rests, Exists
  <2>2. CASE \E target \in ResolutionState : Turns(p, target)
    BY <1>1, <2>2, TurnsMeans DEF Active
  <2> QED BY <1>2, <2>1, <2>2
<1> QED BY <1>1, <1>3 DEF OthersKept

\* Nothing of a finished proposal changes in a step.
LEMMA FrozenNext ==
  ASSUME TypeOK, OnlyReached, [Next]_vars,
         NEW q \in Proposals, Exists(q), Terminal(q)
  PROVE  /\ proposal'[q] = proposal[q]
         /\ grant'[q] = grant[q]
         /\ \A d \in Disputes : OpenDispute(d, q)' <=> OpenDispute(d, q)
<1> DEFINE Frozen == /\ proposal'[q] = proposal[q]
                     /\ grant'[q] = grant[q]
                     /\ \A d \in Disputes : OpenDispute(d, q)' <=> OpenDispute(d, q)
<1>1. CASE Tick
  BY <1>1 DEF Tick, OpenDispute
<1>2. ASSUME NEW actor \in Accounts, NEW key \in Keys, NEW p \in Proposals,
             NEW c \in ProposedInputs, NEW assessment \in Assessments,
             NEW decision \in ReviewerDecisions \cup {None},
             NEW expiresAt \in Deadlines \cup {Never}, NEW at \in ReadableTimes,
             Propose(actor, key, p, c, assessment, decision, expiresAt, at)
      PROVE  Frozen
  <2>1. p # q /\ Opens(p, c)
    BY <1>2, ProposeShape DEF Propose
  <2>2. proposal'[q] = proposal[q]
    BY <2>1, OpensMeans
  <2> QED BY <1>2, <2>2 DEF Propose, OpenDispute
<1>3. ASSUME NEW actor \in Accounts, NEW key \in Keys, NEW p \in Proposals, NEW rev,
             Command(actor, key, p, rev)
      PROVE  Frozen
  <2>1. p # q
    BY <1>3, CommandMeans DEF Active
  <2> QED BY <1>3, <2>1, CommandMeans
<1>4. ASSUME NEW actor \in Accounts, NEW d \in Disputes,
             AssignReview(actor, d) \/ RecordReviewerDecision(actor, d)
      PROVE  Frozen
  BY <1>4, ReviewKeepsDisputes
<1>5. CASE UNCHANGED vars
  BY <1>5 DEF vars, OpenDispute
<1> QED BY <1>1, <1>2, <1>3, <1>4, <1>5 DEF Next

LEMMA DisputesOfProposalsNext ==
  ASSUME TypeOK, OnlyReached, DisputesOfProposals, [Next]_vars
  PROVE  DisputesOfProposals'
<1>1. CASE Tick
  BY <1>1 DEF Tick, DisputesOfProposals, Exists
<1>2. ASSUME NEW actor \in Accounts, NEW key \in Keys, NEW p \in Proposals,
             NEW c \in ProposedInputs, NEW assessment \in Assessments,
             NEW decision \in ReviewerDecisions \cup {None},
             NEW expiresAt \in Deadlines \cup {Never}, NEW at \in ReadableTimes,
             Propose(actor, key, p, c, assessment, decision, expiresAt, at)
      PROVE  DisputesOfProposals'
  <2>1. \A s \in Proposals : Exists(s) => Exists(s)'
    BY <1>2, ProposeShape, OpensMeans DEF Exists
  <2>2. \A d \in Disputes : dispute[d] # None => dispute[d].proposal \in Proposals
    BY DEF TypeOK, DisputeRow
  <2> QED BY <1>2, <2>1, <2>2 DEF Propose, DisputesOfProposals
<1>3. ASSUME NEW actor \in Accounts, NEW key \in Keys, NEW p \in Proposals, NEW rev,
             Command(actor, key, p, rev)
      PROVE  DisputesOfProposals'
  <2>1. \A s \in Proposals : Exists(s)' <=> Exists(s)
    BY <1>3, CommandMeans
  <2>2. Exists(p)
    BY <1>3, CommandMeans DEF Active
  <2>3. \A d \in Disputes : dispute[d] # None => dispute[d].proposal \in Proposals
    BY DEF TypeOK, DisputeRow
  <2>4. \A d \in Disputes : dispute'[d] # None =>
          \/ dispute[d] # None /\ dispute'[d].proposal = dispute[d].proposal
          \/ dispute'[d].proposal = p
    <3>1. CASE dispute' = dispute
      BY <3>1
    <3>2. CASE \E d \in Disputes : SubmitDispute(actor, key, p, rev, d)
      BY <3>2 DEF SubmitDispute, TypeOK
    <3>3. CASE \E d \in Disputes : ResolveDispute(actor, key, p, rev, d)
      <4> PICK d \in Disputes : ResolveDispute(actor, key, p, rev, d)
        BY <3>3
      <4>1. dispute[d] \in DisputeRow /\ dispute[d] # None
        BY DEF ResolveDispute, OpenDispute, TypeOK
      <4>2. dispute'[d] = [dispute[d] EXCEPT !.status = "resolved"]
        BY DEF ResolveDispute, TypeOK
      <4>3. dispute'[d].proposal = dispute[d].proposal
        BY <4>1, <4>2 DEF DisputeRow
      <4>4. \A e \in Disputes : e # d => dispute'[e] = dispute[e]
        BY DEF ResolveDispute, TypeOK
      <4> QED BY <4>1, <4>3, <4>4
    <3> QED BY <1>3, <3>1, <3>2, <3>3
            DEF Command, GrantAuthorization, RevokeAuthorization, TransitionSafety,
                Cancel, Execute
  <2> QED BY <2>1, <2>2, <2>3, <2>4 DEF DisputesOfProposals
<1>4. ASSUME NEW actor \in Accounts, NEW d \in Disputes,
             AssignReview(actor, d) \/ RecordReviewerDecision(actor, d)
      PROVE  DisputesOfProposals'
  BY <1>4, ReviewKeepsDisputes DEF DisputesOfProposals, Exists
<1>5. CASE UNCHANGED vars
  BY <1>5 DEF vars, DisputesOfProposals, Exists
<1> QED BY <1>1, <1>2, <1>3, <1>4, <1>5 DEF Next

\* A command keeps a proposal with an open dispute disputed, held or cancelled.
LEMMA FreezeCommand ==
  ASSUME TypeOK, OnlyReached, DisputesFreeze,
         NEW actor \in Accounts, NEW key \in Keys, NEW p \in Proposals, NEW rev,
         Command(actor, key, p, rev)
  PROVE  DisputesFreeze'
<1> DEFINE Frozen(q) ==
      /\ Disputed(q) => proposal[q].state \in {"disputed", "held", "cancelled"}
      /\ proposal[q].state = "disputed" => Disputed(q)
<1>0. Frozen(p)
  BY CommandMeans DEF DisputesFreeze, Active
<1>1. ASSUME NEW q \in Proposals, q # p, Exists(q)'
      PROVE  Frozen(q)'
  <2>1. /\ proposal'[q] = proposal[q] /\ Exists(q)
        /\ \A d \in Disputes : OpenDispute(d, q)' <=> OpenDispute(d, q)
    BY <1>1, CommandMeans
  <2> QED BY <2>1 DEF DisputesFreeze, Disputed
<1>2. Frozen(p)'
  <2>1. CASE \E d \in Disputes : SubmitDispute(actor, key, p, rev, d)
    <3> PICK d \in Disputes : SubmitDispute(actor, key, p, rev, d)
      BY <2>1
    <3>1. proposal'[p].state = "disputed"
      BY ChangeMeans, StatesOfCommands DEF SubmitDispute
    <3>2. dispute'[d] = [proposal |-> p, status |-> "open", request |-> "open",
                         reviewer |-> None]
      BY DEF SubmitDispute, TypeOK
    <3>3. dispute'[d] \in DisputeRow
      BY <3>2 DEF DisputeRow
    <3>4. OpenDispute(d, p)'
      BY <3>2, <3>3, NoneAssumption DEF OpenDispute
    <3> QED BY <3>1, <3>4 DEF Disputed
  <2>2. CASE \E d \in Disputes : ResolveDispute(actor, key, p, rev, d)
    <3>1. proposal'[p].state = "held"
      BY <2>2, ChangeMeans, StatesOfCommands DEF ResolveDispute
    <3> QED BY <3>1
  <2>3. CASE GrantAuthorization(actor, key, p, rev)
    <3>1. Rests /\ dispute' = dispute
      BY <2>3, ChangeShape DEF GrantAuthorization
    <3> QED BY <1>0, <3>1 DEF Rests, Disputed, OpenDispute
  <2>4. CASE RevokeAuthorization(actor, key, p, rev)
    <3>1. proposal'[p].state = "held"
      BY <2>4, ChangeMeans, StatesOfCommands DEF RevokeAuthorization
    <3> QED BY <3>1
  <2>5. CASE \E state \in SafetyInputs : TransitionSafety(actor, key, p, rev, state)
    <3> PICK state \in SafetyInputs : TransitionSafety(actor, key, p, rev, state)
      BY <2>5
    <3> DEFINE target == IF state = "clear" THEN proposal[p].state ELSE "held"
    <3>1. Change(actor, "transition_financial_safety", key, [state |-> state], p, rev, target)
      BY DEF TransitionSafety
    <3>2. CASE state = "clear"
      <4>1. Rests /\ dispute' = dispute
        BY <3>1, <3>2, ChangeShape DEF TransitionSafety
      <4> QED BY <1>0, <4>1 DEF Rests, Disputed, OpenDispute
    <3>3. CASE state # "clear"
      <4>1. proposal'[p].state = "held"
        BY <3>1, <3>3, ChangeMeans, StatesOfCommands
      <4> QED BY <4>1
    <3> QED BY <3>2, <3>3
  <2>6. CASE Cancel(actor, key, p, rev)
    <3>1. proposal'[p].state = "cancelled"
      BY <2>6, ChangeMeans, StatesOfCommands DEF Cancel
    <3> QED BY <3>1
  <2>7. CASE \E at \in ReadableTimes : Execute(actor, key, p, rev, at)
    <3> PICK at \in ReadableTimes : Execute(actor, key, p, rev, at)
      BY <2>7
    <3>1. Settles(p)
      BY ExecuteShape
    <3>2. proposal'[p].state = "simulated_executed"
      BY <3>1, TurnsMeans, StatesOfCommands DEF Settles, Active
    <3>3. dispute' = dispute
      BY DEF Execute
    <3> QED BY <3>1, <3>2, <3>3 DEF Settles, Disputed, OpenDispute
  <2> QED BY <2>1, <2>2, <2>3, <2>4, <2>5, <2>6, <2>7 DEF Command
<1> QED BY <1>1, <1>2 DEF DisputesFreeze

LEMMA FreezeNext ==
  ASSUME TypeOK, OnlyReached, DisputesOfProposals, DisputesFreeze, [Next]_vars
  PROVE  DisputesFreeze'
<1>1. CASE Tick
  BY <1>1 DEF Tick, DisputesFreeze, Exists, Disputed, OpenDispute
<1>2. ASSUME NEW actor \in Accounts, NEW key \in Keys, NEW p \in Proposals,
             NEW c \in ProposedInputs, NEW assessment \in Assessments,
             NEW decision \in ReviewerDecisions \cup {None},
             NEW expiresAt \in Deadlines \cup {Never}, NEW at \in ReadableTimes,
             Propose(actor, key, p, c, assessment, decision, expiresAt, at)
      PROVE  DisputesFreeze'
  <2>1. Opens(p, c) /\ dispute' = dispute
    BY <1>2, ProposeShape DEF Propose
  <2>2. ~Disputed(p)'
    BY <2>1 DEF Opens, DisputesOfProposals, Disputed, OpenDispute
  <2>3. proposal'[p].state = "review_window_open"
    BY <2>1, OpensMeans
  <2>4. ASSUME NEW q \in Proposals, q # p, Exists(q)'
        PROVE  /\ Disputed(q)' => proposal'[q].state \in {"disputed", "held", "cancelled"}
               /\ proposal'[q].state = "disputed" => Disputed(q)'
    <3>1. proposal'[q] = proposal[q] /\ Exists(q)
      BY <2>1, <2>4, OpensMeans
    <3> QED BY <2>1, <3>1 DEF DisputesFreeze, Disputed, OpenDispute
  <2> QED BY <2>2, <2>3, <2>4 DEF DisputesFreeze
<1>3. ASSUME NEW actor \in Accounts, NEW key \in Keys, NEW p \in Proposals, NEW rev,
             Command(actor, key, p, rev)
      PROVE  DisputesFreeze'
  BY <1>3, FreezeCommand
<1>4. ASSUME NEW actor \in Accounts, NEW d \in Disputes,
             AssignReview(actor, d) \/ RecordReviewerDecision(actor, d)
      PROVE  DisputesFreeze'
  BY <1>4, ReviewKeepsDisputes DEF DisputesFreeze, Disputed, Exists
<1>5. CASE UNCHANGED vars
  BY <1>5 DEF vars, DisputesFreeze, Exists, Disputed, OpenDispute
<1> QED BY <1>1, <1>2, <1>3, <1>4, <1>5 DEF Next

-----------------------------------------------------------------------------
(* Executions stay justified. *)

\* What an execution at a time rests on, in a snapshot of its proposal.
Justifies(snapshot, at) ==
  /\ Elapsed(snapshot.row, at) /\ ~Lapsed(snapshot.row, at)
  /\ Assessed(snapshot.row) /\ Reviewed(snapshot.row)
  /\ Approved(snapshot)
  /\ ~snapshot.disputed

\* Only the terms of the row count, not its state and revision.
SameTerms(row, other) ==
  /\ row.creator = other.creator /\ row.windowEnds = other.windowEnds
  /\ row.expiresAt = other.expiresAt /\ row.assessment = other.assessment
  /\ row.decision = other.decision

LEMMA JustifiesTerms ==
  ASSUME NEW s, NEW t, NEW at, SameTerms(s.row, t.row), s.grants = t.grants,
         s.disputed = t.disputed, Justifies(s, at)
  PROVE  Justifies(t, at)
<1>1. Approving(s) = Approving(t)
  BY DEF Approving, SameTerms
<1> QED BY <1>1 DEF Justifies, SameTerms, Elapsed, Lapsed, Assessed, Reviewed, Approved

LEMMA JustifiedNext ==
  ASSUME TypeOK, OnlyReached, ExecutionRecorded, ExecutionStaysJustified, [Next]_vars
  PROVE  ExecutionStaysJustified'
<1> SUFFICES ASSUME NEW e \in executions'
             PROVE  Justifies(Snapshot(e.proposal), e.at)'
  BY DEF ExecutionStaysJustified, Justifies
<1>1. CASE e \in executions
  <2> DEFINE p == e.proposal
  <2>1. p \in Proposals /\ Exists(p) /\ Terminal(p)
    BY <1>1 DEF TypeOK, ExecutionRow, ExecutionRecorded, Terminal, TERMINAL_STATES
  <2>2. /\ proposal'[p] = proposal[p] /\ grant'[p] = grant[p]
        /\ Disputed(p)' = Disputed(p)
    BY <2>1, FrozenNext DEF Disputed
  <2>3. Justifies(Snapshot(p), e.at)
    BY <1>1 DEF ExecutionStaysJustified, Justifies
  <2>4. /\ SameTerms(Snapshot(p).row, Snapshot(p)'.row)
        /\ Snapshot(p).grants = Snapshot(p)'.grants
        /\ Snapshot(p).disputed = Snapshot(p)'.disputed
    BY <2>2 DEF Snapshot, SameTerms
  <2>5. Justifies(Snapshot(p)', e.at)
    BY <2>3, <2>4, JustifiesTerms
  <2> QED BY <2>5 DEF Justifies, Elapsed, Lapsed, Assessed, Reviewed, Approved, Approving
<1>2. CASE e \notin executions
  <2>1. PICK actor \in Accounts, key \in Keys, p \in Proposals, rev \in 1..MaxAudits,
             at \in ReadableTimes : Execute(actor, key, p, rev, at)
    <3>1. executions' # executions
      BY <1>2
    <3>2. ~Tick /\ ~UNCHANGED vars
      BY <3>1 DEF Tick, vars
    <3>3. ASSUME NEW actor \in Accounts, NEW d \in Disputes,
                 AssignReview(actor, d) \/ RecordReviewerDecision(actor, d)
          PROVE  FALSE
      BY <3>1, <3>3 DEF AssignReview, RecordReviewerDecision
    <3>4. ASSUME NEW actor \in Accounts, NEW key \in Keys, NEW p \in Proposals,
                 NEW c \in ProposedInputs, NEW assessment \in Assessments,
                 NEW decision \in ReviewerDecisions \cup {None},
                 NEW expiresAt \in Deadlines \cup {Never}, NEW at \in ReadableTimes,
                 Propose(actor, key, p, c, assessment, decision, expiresAt, at)
          PROVE  FALSE
      BY <3>1, <3>4 DEF Propose
    <3>5. \E actor \in Accounts, key \in Keys, p \in Proposals, rev \in 1..MaxAudits :
            Command(actor, key, p, rev)
      BY <3>2, <3>3, <3>4 DEF Next
    <3>6. PICK actor \in Accounts, key \in Keys, p \in Proposals, rev \in 1..MaxAudits :
                 Command(actor, key, p, rev)
      BY <3>5
    <3> QED BY <3>1, <3>6
            DEF Command, SubmitDispute, ResolveDispute, GrantAuthorization,
                RevokeAuthorization, TransitionSafety, Cancel, Change
  <2>2. e = [proposal |-> p, consequence |-> proposal[p].consequence, at |-> at]
    BY <1>2, <2>1 DEF Execute
  <2>3. e.proposal = p /\ e.at = at
    BY <2>2
  <2>4. Justifies(Snapshot(p), at)
    BY <2>1, ReadyMeans DEF Execute, Justifies
  <2>5. Settles(p)
    BY <2>1, ExecuteShape
  <2>6. SameTerms(proposal[p], proposal'[p])
    <3>1. proposal[p] \in ProposalRow
      BY <2>5 DEF Settles, Active, Exists, TypeOK
    <3>2. proposal'[p] = [proposal[p] EXCEPT !.state = "simulated_executed",
                                             !.revision = proposal[p].revision + 1]
      BY <2>5, TurnsMeans, StatesOfCommands DEF Settles, Active
    <3> QED BY <3>1, <3>2 DEF ProposalRow, SameTerms
  <2>7. grant' = grant /\ dispute' = dispute
    BY <2>1 DEF Execute
  <2>8. /\ SameTerms(Snapshot(p).row, Snapshot(p)'.row)
        /\ Snapshot(p).grants = Snapshot(p)'.grants
        /\ Snapshot(p).disputed = Snapshot(p)'.disputed
    BY <2>6, <2>7 DEF Snapshot, Disputed, OpenDispute
  <2>9. Justifies(Snapshot(p)', at)
    BY <2>4, <2>8, JustifiesTerms
  <2> QED BY <2>3, <2>9 DEF Justifies, Elapsed, Lapsed, Assessed, Reviewed, Approved, Approving
<1> QED BY <1>1, <1>2

-----------------------------------------------------------------------------
(* The theorems. *)

LEMMA InvariantInit == Init => IInv
BY TypeInit
   DEF Init, IInv, OnlyReached, DisputesOfProposals, OneActiveProposalPerOutcome,
       SettledAtMostOnce, ExecutionRecorded, DisputesFreeze, ExecutionStaysJustified,
       Exists, Active

LEMMA InvariantNext == IInv /\ [Next]_vars => IInv'
<1> SUFFICES ASSUME IInv, [Next]_vars PROVE IInv'
  OBVIOUS
<1>1. TypeOK'
  BY TypeNext DEF IInv
<1>2. Step
  BY StepShape DEF IInv
<1>3. OnlyReached'
  BY <1>2, OnlyReachedNext DEF IInv
<1>4. DisputesOfProposals'
  BY DisputesOfProposalsNext DEF IInv
<1>5. OneActiveProposalPerOutcome'
  BY <1>2, OneActiveNext DEF IInv
<1>6. SettledAtMostOnce' /\ ExecutionRecorded'
  BY <1>2, ExecutionNext DEF IInv
<1>7. DisputesFreeze'
  BY FreezeNext DEF IInv
<1>8. ExecutionStaysJustified'
  BY JustifiedNext DEF IInv
<1> QED BY <1>1, <1>3, <1>4, <1>5, <1>6, <1>7, <1>8 DEF IInv

LEMMA Invariant == Spec => []IInv
BY InvariantInit, InvariantNext, PTL DEF Spec

\* Two live proposals never compete for one outcome.
THEOREM OneActive == Spec => []OneActiveProposalPerOutcome
<1>1. IInv => OneActiveProposalPerOutcome
  BY DEF IInv
<1> QED BY <1>1, Invariant, PTL

\* No proposal and no consequence is executed twice.
THEOREM SettledOnce == Spec => []SettledAtMostOnce
<1>1. IInv => SettledAtMostOnce
  BY DEF IInv
<1> QED BY <1>1, Invariant, PTL

\* A proposal is in state simulated_executed if and only if its execution is
\* on record.
THEOREM ExecutionsAreRecorded == Spec => []ExecutionRecorded
<1>1. IInv => ExecutionRecorded
  BY DEF IInv
<1> QED BY <1>1, Invariant, PTL

\* An open dispute keeps its proposal disputed, held or cancelled.
THEOREM Freeze == Spec => []DisputesFreeze
<1>1. IInv => DisputesFreeze
  BY DEF IInv
<1> QED BY <1>1, Invariant, PTL

\* Whatever happens after an execution, the approvals, the review, the window
\* and the absence of disputes it rested on remain on record.
THEOREM StaysJustified == Spec => []ExecutionStaysJustified
<1>1. IInv => ExecutionStaysJustified
  BY DEF IInv
<1> QED BY <1>1, Invariant, PTL

\* No step changes a finished proposal, its grants or its open disputes.
THEOREM TerminalIsImmutable == Spec => TerminalImmutable
<1>1. IInv /\ [Next]_vars =>
        [\A p \in Proposals :
           Exists(p) /\ Terminal(p) =>
             /\ proposal'[p] = proposal[p]
             /\ grant'[p] = grant[p]
             /\ \A d \in Disputes : OpenDispute(d, p)' <=> OpenDispute(d, p)]_vars
  BY FrozenNext DEF IInv
<1> QED BY <1>1, Invariant, PTL DEF Spec, TerminalImmutable
-----------------------------------------------------------------------------
(***************************************************************************)
(* Refinement.  Resolution implements OutcomeSettlement; its revisions     *)
(* count changes; and its ledger is that of its executions.                *)
(***************************************************************************)

(* The table of open consequences. *)

\* The live proposal of an outcome, being the only one, is the one mapped.
LEMMA OpenOfActive ==
  ASSUME OneActiveProposalPerOutcome, NEW p \in Proposals, Active(p),
         Outcome(p) \in Outcomes
  PROVE  OpenConsequence[Outcome(p)] = proposal[p].consequence
<1>1. ActiveOn(Outcome(p)) = {p}
  BY DEF ActiveOn, OneActiveProposalPerOutcome
<1>2. (CHOOSE q \in ActiveOn(Outcome(p)) : TRUE) = p
  BY <1>1
<1> QED BY <1>1, <1>2 DEF OpenConsequence

LEMMA OpenOfNone ==
  ASSUME NEW o \in Outcomes, \A p \in Proposals : ~(Active(p) /\ Outcome(p) = o)
  PROVE  OpenConsequence[o] = None
BY DEF OpenConsequence, ActiveOn

LEMMA OutcomeType ==
  ASSUME TypeOK, NEW p \in Proposals, Exists(p)
  PROVE  /\ proposal[p].consequence \in Consequences
         /\ Outcome(p) \in Outcomes
         /\ proposal[p].consequence # None
BY NoneAssumption DEF TypeOK, Exists, ProposalRow, Outcome, Consequences

\* Outcomes whose live proposals are untouched keep their open consequence.
LEMMA OpenKept ==
  ASSUME NEW o \in Outcomes,
         \A p \in Proposals :
           /\ (Active(p) /\ Outcome(p) = o)' <=> (Active(p) /\ Outcome(p) = o)
           /\ Active(p) => proposal'[p].consequence = proposal[p].consequence
  PROVE  OpenConsequence'[o] = OpenConsequence[o]
<1>1. ActiveOn(o)' = ActiveOn(o)
  BY DEF ActiveOn
<1>2. CASE ActiveOn(o) = {}
  BY <1>1, <1>2 DEF OpenConsequence
<1>3. CASE ActiveOn(o) # {}
  <2> DEFINE q == CHOOSE p \in ActiveOn(o) : TRUE
  <2>1. q \in ActiveOn(o)
    BY <1>3
  <2>2. q \in Proposals /\ Active(q)
    BY <2>1 DEF ActiveOn
  <2>3. OpenConsequence[o] = proposal[q].consequence
    BY <1>3 DEF OpenConsequence
  <2>4. OpenConsequence'[o] = proposal'[q].consequence
    BY <1>1, <1>3 DEF OpenConsequence
  <2> QED BY <2>2, <2>3, <2>4
<1> QED BY <1>2, <1>3

LEMMA OpenIsFunction ==
  /\ OpenConsequence = [o \in Outcomes |-> OpenConsequence[o]]
  /\ OpenConsequence' = [o \in Outcomes |-> OpenConsequence'[o]]
BY DEF OpenConsequence

-----------------------------------------------------------------------------
(* One lemma for each kind of step. *)

LEMMA RestsMaps ==
  ASSUME Rests
  PROVE  UNCHANGED <<OpenConsequence, SettledConsequences>>
BY DEF Rests, OpenConsequence, ActiveOn, Active, Exists, Terminal, Outcome,
       SettledConsequences

LEMMA OpensMaps ==
  ASSUME IInv, IInv', NEW p \in Proposals, NEW c \in ProposedInputs, Opens(p, c)
  PROVE  Settlement!Open(c)
<1> USE DEF IInv
<1>1. c \in Consequences /\ c.outcome \in Outcomes
  BY ServiceAssumption DEF Consequences
<1>2. OpenConsequence[c.outcome] = None
  BY <1>1, OpenOfNone DEF Opens, OutcomeFree
<1>3. Active(p)' /\ Outcome(p)' = c.outcome /\ proposal'[p].consequence = c
  BY OpensMeans DEF Active, Exists, Terminal, TERMINAL_STATES, Outcome
<1>4. ActiveOn(c.outcome)' = {p}
  BY <1>3 DEF ActiveOn, OneActiveProposalPerOutcome
<1>5. OpenConsequence'[c.outcome] = c
  <2>1. (CHOOSE q \in ActiveOn(c.outcome)' : TRUE) = p
    BY <1>4
  <2> QED BY <1>1, <1>3, <1>4, <2>1 DEF OpenConsequence
<1>6. ASSUME NEW o \in Outcomes, o # c.outcome
      PROVE  OpenConsequence'[o] = OpenConsequence[o]
  <2>1. \A q \in Proposals : q # p =>
          (Active(q)' <=> Active(q)) /\ Outcome(q)' = Outcome(q)
            /\ proposal'[q].consequence = proposal[q].consequence
    BY OpensMeans DEF Active, Exists, Terminal, Outcome
  <2>2. ~Active(p)
    BY DEF Opens, Active
  <2> QED BY <1>3, <1>6, <2>1, <2>2, OpenKept
<1>7. OpenConsequence' = [OpenConsequence EXCEPT ![c.outcome] = c]
  BY <1>5, <1>6, OpenIsFunction
<1>8. UNCHANGED SettledConsequences
  BY DEF Opens, SettledConsequences
<1> QED BY <1>2, <1>7, <1>8 DEF Settlement!Open

\* Turning a live row: other outcomes are not concerned.
LEMMA TurnsKeeps ==
  ASSUME IInv, NEW p \in Proposals, Active(p), NEW target \in ResolutionState,
         Turns(p, target)
  PROVE  /\ \A o \in Outcomes : o # Outcome(p) =>
              OpenConsequence'[o] = OpenConsequence[o]
         /\ target \notin TERMINAL_STATES =>
              OpenConsequence'[Outcome(p)] = OpenConsequence[Outcome(p)]
         /\ target \in TERMINAL_STATES => OpenConsequence'[Outcome(p)] = None
<1> USE DEF IInv
<1>1. /\ \A q \in Proposals : q # p => proposal'[q] = proposal[q]
      /\ proposal'[p] # None /\ proposal'[p].state = target
      /\ proposal'[p].consequence = proposal[p].consequence
  BY TurnsMeans DEF Active
<1>2. \A q \in Proposals : /\ q # p => (Active(q)' <=> Active(q))
                           /\ Outcome(q)' = Outcome(q)
                           /\ proposal'[q].consequence = proposal[q].consequence
  BY <1>1 DEF Active, Exists, Terminal, Outcome
<1>3. Active(p)' <=> target \notin TERMINAL_STATES
  BY <1>1 DEF Active, Exists, Terminal
<1>4. Outcome(p) \in Outcomes
  BY OutcomeType DEF Active
<1>5. ASSUME NEW o \in Outcomes, o # Outcome(p)
      PROVE  OpenConsequence'[o] = OpenConsequence[o]
  BY <1>2, <1>5, OpenKept
<1>6. ASSUME target \notin TERMINAL_STATES
      PROVE  OpenConsequence'[Outcome(p)] = OpenConsequence[Outcome(p)]
  BY <1>2, <1>3, <1>4, <1>6, OpenKept
<1>7. ASSUME target \in TERMINAL_STATES
      PROVE  OpenConsequence'[Outcome(p)] = None
  <2>1. \A q \in Proposals : ~(Active(q) /\ Outcome(q) = Outcome(p))'
    BY <1>2, <1>3, <1>7 DEF OneActiveProposalPerOutcome
  <2>2. \A q \in Proposals : ~(Active(q)' /\ Outcome(q)' = Outcome(p))
    BY <1>2, <1>3, <1>7 DEF OneActiveProposalPerOutcome
  <2>3. {q \in Proposals : Active(q)' /\ Outcome(q)' = Outcome(p)} = {}
    BY <2>2
  <2> QED BY <1>4, <2>3 DEF OpenConsequence, ActiveOn
<1> QED BY <1>5, <1>6, <1>7

LEMMA MovesMaps ==
  ASSUME IInv, NEW p \in Proposals, NEW target \in CommandTargets, Moves(p, target)
  PROVE  Settlement!Withdraw(Outcome(p)) \/ UNCHANGED <<OpenConsequence, SettledConsequences>>
<1>1. /\ Active(p) /\ Turns(p, target) /\ target \in ResolutionState
      /\ OneActiveProposalPerOutcome
  BY DEF Moves, CommandTargets, ResolutionState, IInv
<1>2. Outcome(p) \in Outcomes /\ OpenConsequence[Outcome(p)] # None
  BY <1>1, OutcomeType, OpenOfActive DEF IInv, Active
<1>3. UNCHANGED SettledConsequences
  BY DEF Moves, SettledConsequences
<1>4. CASE target \in TERMINAL_STATES
  <2>1. OpenConsequence' = [OpenConsequence EXCEPT ![Outcome(p)] = None]
    BY <1>1, <1>2, <1>4, TurnsKeeps, OpenIsFunction
  <2> QED BY <1>2, <1>3, <2>1 DEF Settlement!Withdraw
<1>5. CASE target \notin TERMINAL_STATES
  <2>1. \A o \in Outcomes : OpenConsequence'[o] = OpenConsequence[o]
    BY <1>1, <1>5, TurnsKeeps
  <2>2. OpenConsequence' = OpenConsequence
    BY <2>1, OpenIsFunction
  <2> QED BY <1>3, <2>2
<1> QED BY <1>4, <1>5

LEMMA SettlesMaps ==
  ASSUME IInv, NEW p \in Proposals, Settles(p)
  PROVE  Settlement!Settle(Outcome(p))
<1>1. /\ Active(p) /\ Turns(p, "simulated_executed") /\ OneActiveProposalPerOutcome
      /\ "simulated_executed" \in TERMINAL_STATES
  BY DEF Settles, TERMINAL_STATES, IInv
<1>2. /\ Outcome(p) \in Outcomes
      /\ OpenConsequence[Outcome(p)] = proposal[p].consequence
      /\ OpenConsequence[Outcome(p)] # None
  BY <1>1, OutcomeType, OpenOfActive DEF IInv, Active
<1>3. OpenConsequence[Outcome(p)] \notin SettledConsequences
  BY <1>2 DEF Settles, Unsettled, SettledConsequences
<1>4. OpenConsequence' = [OpenConsequence EXCEPT ![Outcome(p)] = None]
  BY <1>1, <1>2, TurnsKeeps, OpenIsFunction, StatesOfCommands
<1>5. SettledConsequences' = SettledConsequences \cup {OpenConsequence[Outcome(p)]}
  <2> PICK at \in Nat : executions' = executions \cup
        {[proposal |-> p, consequence |-> proposal[p].consequence, at |-> at]}
    BY DEF Settles
  <2> DEFINE new == [proposal |-> p, consequence |-> proposal[p].consequence, at |-> at]
  <2>1. executions' = executions \cup {new} /\ new.consequence = proposal[p].consequence
    OBVIOUS
  <2> HIDE DEF new
  <2> QED BY <1>2, <2>1 DEF SettledConsequences
<1> QED BY <1>2, <1>3, <1>4, <1>5 DEF Settlement!Settle

-----------------------------------------------------------------------------
LEMMA SettlementInit == Init => Settlement!Init
BY DEF Init, Settlement!Init, OpenConsequence, ActiveOn, Active, Exists, SettledConsequences

LEMMA SettlementNext ==
  ASSUME IInv, IInv', [Next]_vars
  PROVE  Settlement!Next \/ UNCHANGED <<OpenConsequence, SettledConsequences>>
<1>1. Step
  BY StepShape DEF IInv
<1>2. CASE Rests
  BY <1>2, RestsMaps
<1>3. ASSUME NEW p \in Proposals, NEW c \in ProposedInputs, Opens(p, c)
      PROVE  Settlement!Next
  <2>1. c.outcome \in Outcomes
    BY ServiceAssumption DEF Consequences
  <2> QED BY <1>3, <2>1, OpensMaps DEF Settlement!Next
<1>4. ASSUME NEW p \in Proposals, NEW target \in CommandTargets, Moves(p, target)
      PROVE  Settlement!Next \/ UNCHANGED <<OpenConsequence, SettledConsequences>>
  <2>1. Outcome(p) \in Outcomes
    BY <1>4, OutcomeType DEF Moves, Active, IInv
  <2> QED BY <1>4, <2>1, MovesMaps DEF Settlement!Next
<1>5. ASSUME NEW p \in Proposals, Settles(p)
      PROVE  Settlement!Next
  <2>1. Outcome(p) \in Outcomes
    BY <1>5, OutcomeType DEF Settles, Active, IInv
  <2> QED BY <1>5, <2>1, SettlesMaps DEF Settlement!Next
<1> QED BY <1>1, <1>2, <1>3, <1>4, <1>5 DEF Step

\* The service implements OutcomeSettlement: at most one consequence of an
\* outcome on the table, each settled at most once.
THEOREM Implements == Spec => ImplementsSettlement
<1>1. Init => Settlement!Init
  BY SettlementInit
<1>2. IInv /\ IInv' /\ [Next]_vars => [Settlement!Next]_<<OpenConsequence, SettledConsequences>>
  BY SettlementNext
<1> QED BY <1>1, <1>2, Invariant, PTL DEF Spec, ImplementsSettlement, Settlement!Spec

-----------------------------------------------------------------------------
(* Revisions. *)

LEMMA RevisionsNext ==
  ASSUME IInv, [Next]_vars, NEW p \in Proposals, Exists(p)
  PROVE  IF proposal'[p].state = proposal[p].state THEN proposal'[p] = proposal[p]
         ELSE proposal'[p].revision = proposal[p].revision + 1
<1> USE DEF IInv
<1>1. Step
  BY StepShape
<1>2. CASE Rests
  BY <1>2 DEF Rests
<1>3. ASSUME NEW q \in Proposals, NEW c \in ProposedInputs, Opens(q, c)
      PROVE  proposal'[p] = proposal[p]
  BY <1>3, OpensMeans DEF Opens
<1>4. ASSUME NEW q \in Proposals, NEW target \in ResolutionState, Active(q),
             target # proposal[q].state, Turns(q, target)
      PROVE  IF proposal'[p].state = proposal[p].state THEN proposal'[p] = proposal[p]
             ELSE proposal'[p].revision = proposal[p].revision + 1
  <2>1. CASE p # q
    BY <1>4, <2>1, TurnsMeans DEF Active
  <2>2. CASE p = q
    <3>1. proposal[p] \in ProposalRow
      BY DEF TypeOK, Exists
    <3>2. /\ proposal'[p] = [proposal[p] EXCEPT !.state = target,
                                                !.revision = proposal[p].revision + 1]
          /\ proposal'[p].state = target
      BY <1>4, <2>2, TurnsMeans DEF Active
    <3>3. proposal'[p].revision = proposal[p].revision + 1
      BY <3>1, <3>2 DEF ProposalRow
    <3> QED BY <1>4, <2>2, <3>2, <3>3
  <2> QED BY <2>1, <2>2
<1>5. ASSUME NEW q \in Proposals, Settles(q)
      PROVE  "simulated_executed" # proposal[q].state
  BY <1>5 DEF Settles, Active, Terminal, TERMINAL_STATES
<1>6. CommandTargets \subseteq ResolutionState
  BY DEF CommandTargets, ResolutionState
<1> QED BY <1>1, <1>2, <1>3, <1>4, <1>5, <1>6, StatesOfCommands DEF Step, Moves, Settles

\* The revision grows by one with every change of the row, and only then.
THEOREM RevisionsCount == Spec => RevisionCountsChanges
<1>1. IInv /\ [Next]_vars =>
        [\A p \in Proposals :
           Exists(p) =>
             IF proposal'[p].state = proposal[p].state THEN proposal'[p] = proposal[p]
             ELSE proposal'[p].revision = proposal[p].revision + 1]_vars
  BY RevisionsNext
<1> QED BY <1>1, Invariant, PTL DEF Spec, RevisionCountsChanges

-----------------------------------------------------------------------------
(* The ledger. *)

EntriesOf(p) == {entry \in ledger : entry.proposal = p}

\* The ledger holds, for each execution, what its effect books; and the effect
\* was valid, which is why it balances.
LInv ==
  /\ \A entry \in ledger : Executed(entry.proposal)
  /\ \A e \in executions :
       /\ ValidEffect(e.consequence.effect)
       /\ EntriesOf(e.proposal) =
            {[proposal |-> e.proposal, side |-> entry.side, amount |-> entry.amount] :
               entry \in BalancedEntries(e.consequence.effect)}

LEMMA LInvNext == IInv /\ LInv /\ [Next]_vars => LInv'
<1> SUFFICES ASSUME IInv, LInv, [Next]_vars PROVE LInv'
  OBVIOUS
<1>1. CASE UNCHANGED <<executions, ledger>>
  BY <1>1 DEF LInv, Executed, EntriesOf
<1>2. ASSUME NEW actor \in Accounts, NEW key \in Keys, NEW p \in Proposals, NEW rev,
             NEW at \in ReadableTimes, Execute(actor, key, p, rev, at)
      PROVE  LInv'
  <2> DEFINE new == [proposal |-> p, consequence |-> proposal[p].consequence, at |-> at]
             booked == {[proposal |-> p, side |-> entry.side, amount |-> entry.amount] :
                          entry \in BalancedEntries(proposal[p].consequence.effect)}
  <2>1. executions' = executions \cup {new} /\ ledger' = ledger \cup booked
    BY <1>2 DEF Execute
  <2>2. new.proposal = p /\ new.consequence = proposal[p].consequence
    OBVIOUS
  <2>3. \A entry \in booked : entry.proposal = p
    OBVIOUS
  <2>4. ~Executed(p) /\ ValidEffect(proposal[p].consequence.effect)
    BY <1>2, ReadyMeans DEF Execute, Snapshot
  <2>5. EntriesOf(p) = {}
    BY <2>4 DEF LInv, EntriesOf
  <2> HIDE DEF new
  <2>6. \A entry \in ledger' : Executed(entry.proposal)'
    <3> HIDE DEF booked
    <3> QED BY <2>1, <2>2, <2>3 DEF LInv, Executed
  <2>7. EntriesOf(p)' = booked
    <3> HIDE DEF booked
    <3> QED BY <2>1, <2>3, <2>5 DEF EntriesOf
  <2>8. ASSUME NEW e \in executions
        PROVE  EntriesOf(e.proposal)' = EntriesOf(e.proposal)
    <3>1. e.proposal # p
      BY <2>4 DEF Executed
    <3> HIDE DEF booked
    <3> QED BY <2>1, <2>3, <3>1 DEF EntriesOf
  <2>9. ASSUME NEW e \in executions'
        PROVE  /\ ValidEffect(e.consequence.effect)
               /\ EntriesOf(e.proposal)' =
                    {[proposal |-> e.proposal, side |-> entry.side, amount |-> entry.amount] :
                       entry \in BalancedEntries(e.consequence.effect)}
    <3>1. CASE e = new
      BY <2>2, <2>4, <2>7, <3>1
    <3>2. CASE e \in executions
      BY <2>8, <3>2 DEF LInv
    <3> QED BY <2>1, <2>9, <3>1, <3>2
  <2> QED BY <2>6, <2>9 DEF LInv
<1>3. ASSUME NEW actor \in Accounts, NEW key \in Keys, NEW p \in Proposals, NEW rev,
             Command(actor, key, p, rev)
      PROVE  LInv'
  <2>1. CASE \E at \in ReadableTimes : Execute(actor, key, p, rev, at)
    BY <1>2, <2>1
  <2>2. CASE UNCHANGED <<executions, ledger>>
    BY <1>1, <2>2
  <2> QED BY <1>3, <2>1, <2>2
          DEF Command, SubmitDispute, ResolveDispute, GrantAuthorization,
              RevokeAuthorization, TransitionSafety, Cancel, Change
<1>4. CASE Tick
  BY <1>1, <1>4 DEF Tick
<1>5. ASSUME NEW actor \in Accounts, NEW key \in Keys, NEW p \in Proposals,
             NEW c \in ProposedInputs, NEW assessment \in Assessments,
             NEW decision \in ReviewerDecisions \cup {None},
             NEW expiresAt \in Deadlines \cup {Never}, NEW at \in ReadableTimes,
             Propose(actor, key, p, c, assessment, decision, expiresAt, at)
      PROVE  LInv'
  BY <1>1, <1>5 DEF Propose
<1>6. ASSUME NEW actor \in Accounts, NEW d \in Disputes,
             AssignReview(actor, d) \/ RecordReviewerDecision(actor, d)
      PROVE  LInv'
  BY <1>1, <1>6 DEF AssignReview, RecordReviewerDecision
<1>7. CASE UNCHANGED vars
  BY <1>1, <1>7 DEF vars
<1> QED BY <1>3, <1>4, <1>5, <1>6, <1>7 DEF Next

LEMMA LInvConserves == IInv /\ LInv => LedgerConserved
<1> SUFFICES ASSUME IInv, LInv, NEW e \in executions
             PROVE  LET effect  == e.consequence.effect
                        entries == EntriesOf(e.proposal) IN
                    IF effect.kind = "non_financial" THEN entries = {}
                    ELSE \E debit, credit \in entries :
                           /\ entries = {debit, credit}
                           /\ credit.amount = ProtectedAmount
                           /\ debit.amount + credit.amount = 0
                           /\ SideParties[debit.side] \cap SideParties[credit.side] = {}
  BY DEF LedgerConserved, LInv, EntriesOf
<1> DEFINE effect == e.consequence.effect
           Row(side, amount) == [proposal |-> e.proposal, side |-> side, amount |-> amount]
<1>1. EntriesOf(e.proposal) = {Row(entry.side, entry.amount) : entry \in BalancedEntries(effect)}
  BY DEF LInv
<1>2. CASE effect.kind = "non_financial"
  BY <1>1, <1>2 DEF BalancedEntries
<1>3. CASE effect.kind # "non_financial"
  <2> DEFINE debit  == Row(effect.source, -effect.amount)
             credit == Row(effect.destination, effect.amount)
  <2>1. BalancedEntries(effect) = {[side |-> effect.source, amount |-> -effect.amount],
                                   [side |-> effect.destination, amount |-> effect.amount]}
    BY <1>3 DEF BalancedEntries
  <2>2. EntriesOf(e.proposal) = {debit, credit}
    BY <1>1, <2>1
  <2>3. /\ effect.amount = ProtectedAmount
        /\ SideParties[effect.source] \cap SideParties[effect.destination] = {}
    BY <1>3 DEF LInv, ValidEffect, EconomicSidesValid
  <2>4. debit.amount + credit.amount = 0
    BY <2>3, EconomyAssumption
  <2>5. /\ credit.amount = ProtectedAmount
        /\ SideParties[debit.side] \cap SideParties[credit.side] = {}
    BY <2>3
  <2> QED BY <1>3, <2>2, <2>4, <2>5
<1> QED BY <1>2, <1>3

\* Every executed value effect books the protected amount once, from one side
\* to another, and nothing else is ever booked.
THEOREM LedgerBalances == Spec => []LedgerConserved
<1>1. Init => LInv
  BY DEF Init, LInv
<1> QED BY <1>1, LInvNext, LInvConserves, Invariant, PTL DEF Spec

-----------------------------------------------------------------------------
(***************************************************************************)
(* Clients (ResolutionClient).  A delivered command is a command of the    *)
(* service, so all of the above holds with clients too.  What clients      *)
(* rest on is that idempotency records are never removed and that a        *)
(* revision stands for one row of its proposal.                            *)
(***************************************************************************)

\* A revision is positive and counts no more than the commands on its proposal.
RevisionsAreAudited ==
  \A p \in Proposals : Exists(p) => proposal[p].revision \in 1 .. audits[p]

\* What a client has read is the row of the revision it read, if that is still
\* the current one.
SeenOnce(r) ==
  /\ Exists(r.proposal)
  /\ r.seen.revision \in Nat
  /\ r.seen.revision <= proposal[r.proposal].revision
  /\ r.seen.revision = proposal[r.proposal].revision => r.seen = proposal[r.proposal]

\* A command that took effect left the record that its retries will find.
RecordFound(a) ==
  /\ reply[a].kind \in {"created", "replayed"}
  /\ \E record \in RecordOf(a) : record.body = request[a].body

RequestHolds(a) ==
  /\ request[a].operation \in Submits
  /\ request[a].key \in Keys
  /\ request[a].proposal \in Proposals
  /\ request[a].body \in Bodies(request[a].operation)
  /\ SeenOnce(request[a])
  /\ request[a].commits \in {0, 1}
  /\ request[a].commits = 1 => RecordFound(a)

RequestRow ==
  [operation : Submits, key : Keys, proposal : Proposals, body : Body,
   seen : ProposalRow, commits : Nat]

ClientTypes ==
  /\ request \in [Accounts -> RequestRow \cup {None}]
  /\ DOMAIN reply = Accounts

ClientInv ==
  /\ IInv
  /\ RevisionsAreAudited
  /\ ClientTypes
  /\ \A a \in Accounts : request[a] # None => RequestHolds(a)

\* What every command writes, whichever it is.
Writes(actor, key, p, rev, operation, body) ==
  /\ Exists(p)
  /\ Fresh(actor, operation, key)
  /\ Current(p, rev)
  /\ \E target \in ResolutionState :
       proposal' = [proposal EXCEPT ![p] = Moved(proposal[p], target)]
  /\ Audit(p)
  /\ Remember(actor, operation, key, body, p)

LEMMA ChangeWrites ==
  ASSUME NEW actor, NEW operation, NEW key, NEW body, NEW p, NEW rev,
         NEW target \in ResolutionState,
         Change(actor, operation, key, body, p, rev, target)
  PROVE  Writes(actor, key, p, rev, operation, body)
BY DEF Change, Writes

LEMMA CommandWrites ==
  ASSUME TypeOK,
         NEW actor \in Accounts, NEW key \in Keys, NEW p \in Proposals, NEW rev,
         Command(actor, key, p, rev)
  PROVE  \E operation \in Operations, body \in Body :
           Writes(actor, key, p, rev, operation, body)
<1>1. CASE \E d \in Disputes : SubmitDispute(actor, key, p, rev, d)
  BY <1>1, ChangeWrites, StatesOfCommands, BodiesOfCommands DEF SubmitDispute, Operations
<1>2. CASE \E d \in Disputes : ResolveDispute(actor, key, p, rev, d)
  BY <1>2, ChangeWrites, StatesOfCommands, BodiesOfCommands DEF ResolveDispute, Operations
<1>3. CASE GrantAuthorization(actor, key, p, rev)
  <2>1. Change(actor, "grant_authorization", key, NoBody, p, rev, proposal[p].state)
    BY <1>3 DEF GrantAuthorization
  <2>2. proposal[p].state \in ResolutionState
    BY <2>1 DEF Change, Exists, TypeOK, ProposalRow
  <2> QED BY <2>1, <2>2, ChangeWrites, BodiesOfCommands DEF Operations
<1>4. CASE RevokeAuthorization(actor, key, p, rev)
  BY <1>4, ChangeWrites, StatesOfCommands, BodiesOfCommands DEF RevokeAuthorization, Operations
<1>5. CASE \E state \in SafetyInputs : TransitionSafety(actor, key, p, rev, state)
  <2> PICK state \in SafetyInputs : TransitionSafety(actor, key, p, rev, state)
    BY <1>5
  <2> DEFINE target == IF state = "clear" THEN proposal[p].state ELSE "held"
  <2>1. Change(actor, "transition_financial_safety", key, [state |-> state], p, rev, target)
    BY DEF TransitionSafety
  <2>2. target \in ResolutionState
    BY <2>1, StatesOfCommands DEF Change, Exists, TypeOK, ProposalRow
  <2> HIDE DEF target
  <2> QED BY <2>1, <2>2, ChangeWrites, BodiesOfCommands DEF Operations
<1>6. CASE Cancel(actor, key, p, rev)
  BY <1>6, ChangeWrites, StatesOfCommands, BodiesOfCommands DEF Cancel, Operations
<1>7. CASE \E at \in ReadableTimes : Execute(actor, key, p, rev, at)
  <2> PICK at \in ReadableTimes : Execute(actor, key, p, rev, at)
    BY <1>7
  <2>1. Writes(actor, key, p, rev, "execute_simulated", NoBody)
    BY StatesOfCommands DEF Execute, Writes
  <2> QED BY <2>1, BodiesOfCommands DEF Operations
<1> QED BY <1>1, <1>2, <1>3, <1>4, <1>5, <1>6, <1>7 DEF Command

\* The row that such a command leaves.
LEMMA MovedRevision ==
  ASSUME NEW row \in ProposalRow, NEW target \in ResolutionState
  PROVE  \/ Moved(row, target) = row
         \/ Moved(row, target).revision = row.revision + 1
<1>1. CASE target = row.state
  BY <1>1 DEF Moved
<1>2. CASE target # row.state
  <2>1. Moved(row, target) = [row EXCEPT !.state = target, !.revision = row.revision + 1]
    BY <1>2 DEF Moved
  <2> QED BY <2>1 DEF ProposalRow
<1> QED BY <1>1, <1>2

LEMMA WritesRow ==
  ASSUME TypeOK, NEW actor, NEW key, NEW p \in Proposals, NEW rev, NEW operation, NEW body,
         Writes(actor, key, p, rev, operation, body)
  PROVE  /\ \A q \in Proposals : q # p => proposal'[q] = proposal[q] /\ audits'[q] = audits[q]
         /\ proposal'[p] \in ProposalRow /\ proposal'[p] # None
         /\ \/ proposal'[p] = proposal[p]
            \/ proposal'[p].revision = proposal[p].revision + 1
         /\ audits[p] < MaxAudits /\ audits'[p] = audits[p] + 1
<1>1. PICK target \in ResolutionState :
        proposal' = [proposal EXCEPT ![p] = Moved(proposal[p], target)]
  BY DEF Writes
<1>2. proposal[p] \in ProposalRow
  BY DEF Writes, Exists, TypeOK
<1>3. proposal'[p] = Moved(proposal[p], target)
  BY <1>1 DEF TypeOK
<1>4. proposal'[p] \in ProposalRow
  BY <1>2, <1>3, MovedType
<1>5. proposal'[p] # None
  BY <1>4, NoneAssumption
<1>6. \A q \in Proposals : q # p => proposal'[q] = proposal[q]
  BY <1>1 DEF TypeOK
<1>7. /\ \A q \in Proposals : q # p => audits'[q] = audits[q]
      /\ audits[p] < MaxAudits /\ audits'[p] = audits[p] + 1
  BY DEF Writes, Audit, TypeOK
<1>8. \/ proposal'[p] = proposal[p]
      \/ proposal'[p].revision = proposal[p].revision + 1
  BY <1>2, <1>3, MovedRevision
<1> QED BY <1>4, <1>5, <1>6, <1>7, <1>8

\* The steps of the service, as what its clients see of them.
LEMMA ServiceStep ==
  ASSUME TypeOK, RevisionsAreAudited, [Next]_vars
  PROVE  /\ RevisionsAreAudited'
         /\ \A p \in Proposals : Exists(p) =>
              /\ Exists(p)'
              /\ \/ proposal'[p] = proposal[p]
                 \/ proposal'[p].revision = proposal[p].revision + 1
         /\ \A operation \in Operations : idempotency[operation] \subseteq idempotency'[operation]
<1>1. ASSUME NEW actor \in Accounts, NEW key \in Keys, NEW p \in Proposals,
             NEW c \in ProposedInputs, NEW assessment \in Assessments,
             NEW decision \in ReviewerDecisions \cup {None},
             NEW expiresAt \in Deadlines \cup {Never}, NEW at \in ReadableTimes,
             Propose(actor, key, p, c, assessment, decision, expiresAt, at)
      PROVE  /\ RevisionsAreAudited'
             /\ \A q \in Proposals : Exists(q) => Exists(q)' /\ proposal'[q] = proposal[q]
             /\ \A operation \in Operations :
                  idempotency[operation] \subseteq idempotency'[operation]
  <2> DEFINE row == [state |-> "review_window_open", revision |-> 1, consequence |-> c,
                     creator |-> actor, windowEnds |-> at + ReviewWindow,
                     expiresAt |-> expiresAt, assessment |-> assessment,
                     decision |-> decision]
  <2>1. ~Exists(p) /\ proposal' = [proposal EXCEPT ![p] = row]
    BY <1>1 DEF Propose
  <2>2. row.revision = 1
    OBVIOUS
  <2> HIDE DEF row
  <2>3. proposal'[p] = row /\ \A q \in Proposals : q # p => proposal'[q] = proposal[q]
    BY <2>1 DEF TypeOK
  <2>4. /\ audits'[p] = audits[p] + 1 /\ audits[p] \in Nat
        /\ \A q \in Proposals : q # p => audits'[q] = audits[q]
    BY <1>1 DEF Propose, Audit, TypeOK
  <2>5. \A q \in Proposals : Exists(q) => Exists(q)' /\ proposal'[q] = proposal[q]
    BY <2>1, <2>3 DEF Exists
  <2>6. RevisionsAreAudited'
    <3> SUFFICES ASSUME NEW q \in Proposals, Exists(q)'
                 PROVE  proposal'[q].revision \in 1 .. audits'[q]
      BY DEF RevisionsAreAudited
    <3>1. CASE q = p
      BY <2>2, <2>3, <2>4, <3>1
    <3>2. CASE q # p
      BY <2>3, <2>4, <3>2 DEF Exists, RevisionsAreAudited
    <3> QED BY <3>1, <3>2
  <2>7. \A operation \in Operations : idempotency[operation] \subseteq idempotency'[operation]
    BY <1>1 DEF Propose, Remember, TypeOK
  <2> QED BY <2>5, <2>6, <2>7
<1>2. ASSUME NEW actor \in Accounts, NEW key \in Keys, NEW p \in Proposals, NEW rev,
             NEW operation \in Operations, NEW body \in Body,
             Writes(actor, key, p, rev, operation, body)
      PROVE  /\ RevisionsAreAudited'
             /\ \A q \in Proposals : Exists(q) =>
                  /\ Exists(q)'
                  /\ \/ proposal'[q] = proposal[q]
                     \/ proposal'[q].revision = proposal[q].revision + 1
             /\ \A o \in Operations : idempotency[o] \subseteq idempotency'[o]
  <2>1. /\ \A q \in Proposals : q # p => proposal'[q] = proposal[q] /\ audits'[q] = audits[q]
        /\ proposal'[p] \in ProposalRow /\ proposal'[p] # None
        /\ \/ proposal'[p] = proposal[p]
           \/ proposal'[p].revision = proposal[p].revision + 1
        /\ audits[p] < MaxAudits /\ audits'[p] = audits[p] + 1
    BY <1>2, WritesRow
  <2>2. \A q \in Proposals : Exists(q) =>
          /\ Exists(q)'
          /\ \/ proposal'[q] = proposal[q]
             \/ proposal'[q].revision = proposal[q].revision + 1
    BY <2>1 DEF Exists
  <2>3. RevisionsAreAudited'
    <3> SUFFICES ASSUME NEW q \in Proposals, Exists(q)'
                 PROVE  proposal'[q].revision \in 1 .. audits'[q]
      BY DEF RevisionsAreAudited
    <3>1. CASE q = p
      <4>1. Exists(p)
        BY <1>2 DEF Writes
      <4>2. proposal[p].revision \in 1 .. audits[p] /\ audits[p] \in Nat
        BY <4>1 DEF RevisionsAreAudited, TypeOK
      <4> QED BY <2>1, <3>1, <4>2
    <3>2. CASE q # p
      BY <2>1, <3>2 DEF Exists, RevisionsAreAudited
    <3> QED BY <3>1, <3>2
  <2>4. \A o \in Operations : idempotency[o] \subseteq idempotency'[o]
    BY <1>2 DEF Writes, Remember, TypeOK
  <2> QED BY <2>2, <2>3, <2>4
<1>3. CASE UNCHANGED <<proposal, audits, idempotency>>
  BY <1>3 DEF RevisionsAreAudited, Exists
<1>4. CASE Tick
  BY <1>3, <1>4 DEF Tick
<1>5. ASSUME NEW actor \in Accounts, NEW d \in Disputes,
             AssignReview(actor, d) \/ RecordReviewerDecision(actor, d)
      PROVE  UNCHANGED <<proposal, audits, idempotency>>
  BY <1>5 DEF AssignReview, RecordReviewerDecision
<1>6. CASE UNCHANGED vars
  BY <1>3, <1>6 DEF vars
<1>7. ASSUME NEW actor \in Accounts, NEW key \in Keys, NEW p \in Proposals, NEW rev,
             Command(actor, key, p, rev)
      PROVE  /\ RevisionsAreAudited'
             /\ \A q \in Proposals : Exists(q) =>
                  /\ Exists(q)'
                  /\ \/ proposal'[q] = proposal[q]
                     \/ proposal'[q].revision = proposal[q].revision + 1
             /\ \A o \in Operations : idempotency[o] \subseteq idempotency'[o]
  BY <1>2, <1>7, CommandWrites
<1>8. CASE Next
  <2>1. CASE \E actor \in Accounts, key \in Keys, p \in Proposals :
               \E c \in ProposedInputs, assessment \in Assessments,
                  decision \in ReviewerDecisions \cup {None},
                  expiresAt \in Deadlines \cup {Never}, at \in ReadableTimes :
                 Propose(actor, key, p, c, assessment, decision, expiresAt, at)
    BY <1>1, <2>1
  <2>2. CASE \E actor \in Accounts, key \in Keys, p \in Proposals :
               \E rev \in 1 .. MaxAudits : Command(actor, key, p, rev)
    BY <1>7, <2>2
  <2> QED BY <1>3, <1>4, <1>5, <1>8, <2>1, <2>2 DEF Next
<1> QED BY <1>6, <1>8

\* The command that a request delivers is a command of the service, and writes
\* the record that the request looks for.
LEMMA PerformedCommand ==
  ASSUME TypeOK, NEW a \in Accounts, RequestHolds(a), Performed(a)
  PROVE  /\ Command(a, request[a].key, request[a].proposal, request[a].seen.revision)
         /\ Writes(a, request[a].key, request[a].proposal, request[a].seen.revision,
                   request[a].operation, request[a].body)
<1> PICK r : r = request[a]
  OBVIOUS
<1>0. r.operation \in Submits /\ r.body \in Bodies(r.operation) /\ r.proposal \in Proposals
  BY DEF RequestHolds
<1> DEFINE Goal == /\ Command(a, r.key, r.proposal, r.seen.revision)
                   /\ Writes(a, r.key, r.proposal, r.seen.revision, r.operation, r.body)
<1>1. ASSUME r.operation = "submit_dispute",
             NEW d \in Disputes, SubmitDispute(a, r.key, r.proposal, r.seen.revision, d)
      PROVE  Goal
  <2>1. r.body = [claim |-> "claim"]
    BY <1>0, <1>1 DEF Bodies
  <2> QED BY <1>1, <2>1, ChangeWrites, StatesOfCommands DEF Command, SubmitDispute
<1>2. ASSUME r.operation = "resolve_dispute",
             ResolveDispute(a, r.key, r.proposal, r.seen.revision, r.body.dispute)
      PROVE  Goal
  <2>1. r.body \in [dispute : Disputes]
    BY <1>0, <1>2 DEF Bodies
  <2>2. r.body = [dispute |-> r.body.dispute] /\ r.body.dispute \in Disputes
    BY <2>1
  <2>3. Change(a, "resolve_dispute", r.key, r.body, r.proposal, r.seen.revision, "held")
    BY <1>2, <2>2 DEF ResolveDispute
  <2> QED BY <1>2, <2>2, <2>3, ChangeWrites, StatesOfCommands DEF Command
<1>3. ASSUME r.operation = "grant_authorization",
             GrantAuthorization(a, r.key, r.proposal, r.seen.revision)
      PROVE  Goal
  <2>1. r.body = NoBody
    BY <1>0, <1>3 DEF Bodies
  <2>2. Change(a, "grant_authorization", r.key, NoBody, r.proposal, r.seen.revision,
               proposal[r.proposal].state)
    BY <1>3 DEF GrantAuthorization
  <2>3. proposal[r.proposal].state \in ResolutionState
    BY <1>0, <2>2 DEF Change, Exists, TypeOK, ProposalRow
  <2> QED BY <1>3, <2>1, <2>2, <2>3, ChangeWrites DEF Command
<1>4. ASSUME r.operation = "revoke_authorization",
             RevokeAuthorization(a, r.key, r.proposal, r.seen.revision)
      PROVE  Goal
  <2>1. r.body = NoBody
    BY <1>0, <1>4 DEF Bodies
  <2> QED BY <1>4, <2>1, ChangeWrites, StatesOfCommands DEF Command, RevokeAuthorization
<1>5. ASSUME r.operation = "transition_financial_safety",
             TransitionSafety(a, r.key, r.proposal, r.seen.revision, r.body.state)
      PROVE  Goal
  <2>1. r.body \in [state : SafetyInputs]
    BY <1>0, <1>5 DEF Bodies
  <2>2. r.body = [state |-> r.body.state] /\ r.body.state \in SafetyInputs
    BY <2>1
  <2> DEFINE target == IF r.body.state = "clear" THEN proposal[r.proposal].state ELSE "held"
  <2>3. Change(a, "transition_financial_safety", r.key, r.body, r.proposal,
               r.seen.revision, target)
    BY <1>5, <2>2 DEF TransitionSafety
  <2>4. target \in ResolutionState
    BY <1>0, <2>3, StatesOfCommands DEF Change, Exists, TypeOK, ProposalRow
  <2> HIDE DEF target
  <2> QED BY <1>5, <2>2, <2>3, <2>4, ChangeWrites DEF Command
<1>6. ASSUME r.operation = "cancel_resolution",
             Cancel(a, r.key, r.proposal, r.seen.revision)
      PROVE  Goal
  <2>1. r.body = NoBody
    BY <1>0, <1>6 DEF Bodies
  <2> QED BY <1>6, <2>1, ChangeWrites, StatesOfCommands DEF Command, Cancel
<1>7. ASSUME r.operation = "execute_simulated", NEW at \in ReadableTimes,
             Execute(a, r.key, r.proposal, r.seen.revision, at)
      PROVE  Goal
  <2>1. r.body = NoBody
    BY <1>0, <1>7 DEF Bodies
  <2> QED BY <1>7, <2>1, StatesOfCommands DEF Command, Execute, Writes
<1> QED BY <1>1, <1>2, <1>3, <1>4, <1>5, <1>6, <1>7 DEF Performed

\* Whatever clients do, the service takes one of its own steps or none.
LEMMA ClientStep ==
  ASSUME TypeOK, RevisionsAreAudited,
         \A a \in Accounts : request[a] # None => RequestHolds(a),
         [ClientNext]_clientVars
  PROVE  [Next]_vars
<1>1. CASE Background
  <2>1. CASE \E a \in Accounts, key \in Keys, p \in Proposals, c \in ProposedInputs,
                assessment \in Assessments, at \in ReadableTimes :
               Propose(a, key, p, c, assessment, None, Never, at)
    BY <2>1 DEF Next
  <2> QED BY <1>1, <2>1 DEF Background, Next
<1>2. ASSUME NEW a \in Accounts, Commit(a)
      PROVE  Next
  <2> PICK r : r = request[a]
    OBVIOUS
  <2>1. RequestHolds(a) /\ Performed(a)
    BY <1>2 DEF Commit
  <2>2. /\ Command(a, r.key, r.proposal, r.seen.revision)
        /\ Writes(a, r.key, r.proposal, r.seen.revision, r.operation, r.body)
    BY <2>1, PerformedCommand
  <2>3. r.key \in Keys /\ r.proposal \in Proposals
    BY <2>1 DEF RequestHolds
  <2>4. r.seen.revision \in 1 .. MaxAudits
    <3>1. r.seen.revision = proposal[r.proposal].revision
      BY <2>2 DEF Writes, Current
    <3>2. proposal[r.proposal].revision \in 1 .. audits[r.proposal]
      BY <2>2, <2>3 DEF Writes, RevisionsAreAudited
    <3>3. audits[r.proposal] \in Nat /\ audits[r.proposal] < MaxAudits
      BY <2>2, <2>3 DEF Writes, Audit, TypeOK
    <3> QED BY <3>1, <3>2, <3>3, ServiceAssumption
  <2> QED BY <2>2, <2>3, <2>4 DEF Next
<1>3. ASSUME NEW a \in Accounts, NEW operation \in Submits, NEW key \in Keys,
             NEW p \in Proposals, NEW body, Compose(a, operation, key, p, body)
      PROVE  UNCHANGED vars
  BY <1>3 DEF Compose
<1>4. ASSUME NEW a \in Accounts, Replay(a) \/ Reuse(a) \/ Fail(a) \/ Forget(a)
      PROVE  UNCHANGED vars
  BY <1>4 DEF Replay, Reuse, Fail, Forget
<1>5. CASE UNCHANGED clientVars
  BY <1>5 DEF clientVars
<1> QED BY <1>1, <1>2, <1>3, <1>4, <1>5 DEF ClientNext

\* What the service does leaves of a request that stays as it is.
LEMMA RequestKept ==
  ASSUME IInv, RevisionsAreAudited, [Next]_vars,
         NEW a \in Accounts, RequestHolds(a), request'[a] = request[a],
         request[a].commits = 1 =>
           reply'[a] = reply[a] \/ reply'[a].kind \in {"created", "replayed"}
  PROVE  RequestHolds(a)'
<1> PICK r : r = request[a]
  OBVIOUS
<1>1. /\ r.operation \in Submits /\ r.key \in Keys /\ r.proposal \in Proposals
      /\ r.body \in Bodies(r.operation) /\ r.commits \in {0, 1}
      /\ SeenOnce(r)
      /\ r.commits = 1 => RecordFound(a)
  BY DEF RequestHolds
<1>2. r.operation \in Operations
  BY <1>1, ClientAssumption
<1>3. /\ Exists(r.proposal)'
      /\ \/ proposal'[r.proposal] = proposal[r.proposal]
         \/ proposal'[r.proposal].revision = proposal[r.proposal].revision + 1
      /\ idempotency[r.operation] \subseteq idempotency'[r.operation]
  BY <1>1, <1>2, ServiceStep DEF IInv, SeenOnce
<1>4. /\ Exists(r.proposal)'
      /\ r.seen.revision \in Nat
      /\ r.seen.revision <= proposal'[r.proposal].revision
      /\ r.seen.revision = proposal'[r.proposal].revision =>
           r.seen = proposal'[r.proposal]
  <2>1. proposal[r.proposal].revision \in Nat
    BY <1>1 DEF SeenOnce, RevisionsAreAudited
  <2>2. /\ r.seen.revision \in Nat
        /\ r.seen.revision <= proposal[r.proposal].revision
        /\ r.seen.revision = proposal[r.proposal].revision => r.seen = proposal[r.proposal]
    BY <1>1 DEF SeenOnce
  <2>3. CASE proposal'[r.proposal] = proposal[r.proposal]
    BY <1>3, <2>2, <2>3
  <2>4. CASE proposal'[r.proposal].revision = proposal[r.proposal].revision + 1
    BY <1>3, <2>1, <2>2, <2>4
  <2> QED BY <1>3, <2>3, <2>4
<1>5. r.commits = 1 => RecordFound(a)'
  <2> SUFFICES ASSUME r.commits = 1 PROVE RecordFound(a)'
    OBVIOUS
  <2>1. RecordFound(a)
    BY <1>1
  <2>2. reply'[a].kind \in {"created", "replayed"}
    BY <2>1 DEF RecordFound
  <2>3. PICK record \in RecordOf(a) : record.body = r.body
    BY <2>1 DEF RecordFound
  <2>4. /\ record \in idempotency'[r.operation]
        /\ record.actor = a /\ record.key = r.key
    BY <1>3, <2>3 DEF RecordOf
  <2>5. \E rec \in {q \in idempotency'[r.operation] : q.actor = a /\ q.key = r.key} :
          rec.body = r.body
    BY <2>3, <2>4
  <2>6. request'[a] = r
    OBVIOUS
  <2> QED BY <2>2, <2>5, <2>6 DEF RecordFound, RecordOf
<1> QED BY <1>1, <1>4, <1>5 DEF RequestHolds, SeenOnce, Exists

LEMMA BodiesAreBodies ==
  ASSUME NEW operation PROVE Bodies(operation) \subseteq Body
BY DEF Bodies, Body

\* An answer is for the client it is given to.
LEMMA AnswerGiven ==
  ASSUME ClientTypes, NEW a \in Accounts, NEW kind, Answer(a, kind)
  PROVE  /\ DOMAIN reply' = Accounts
         /\ reply'[a].kind = kind
         /\ \A b \in Accounts : b # a => reply'[b] = reply[b]
BY DEF ClientTypes, Answer

LEMMA ClientInvNext == ClientInv /\ [ClientNext]_clientVars => ClientInv'
<1> SUFFICES ASSUME ClientInv, [ClientNext]_clientVars PROVE ClientInv'
  OBVIOUS
<1>1. [Next]_vars
  BY ClientStep DEF ClientInv, IInv
<1>2. IInv' /\ RevisionsAreAudited'
  BY <1>1, InvariantNext, ServiceStep DEF ClientInv, IInv
<1>3. ASSUME NEW b \in Accounts, request[b] # None, request'[b] = request[b],
             request[b].commits = 1 =>
               reply'[b] = reply[b] \/ reply'[b].kind \in {"created", "replayed"}
      PROVE  RequestHolds(b)'
  BY <1>1, <1>3, RequestKept DEF ClientInv
<1>4. CASE UNCHANGED <<request, reply>>
  <2>1. ClientTypes'
    BY <1>4 DEF ClientTypes, ClientInv
  <2>2. ASSUME NEW b \in Accounts, request'[b] # None PROVE RequestHolds(b)'
    BY <1>3, <1>4, <2>2
  <2> QED BY <1>2, <2>1, <2>2 DEF ClientInv
<1>5. ASSUME NEW a \in Accounts, NEW operation \in Submits, NEW key \in Keys,
             NEW p \in Proposals, NEW body \in Bodies(operation),
             Compose(a, operation, key, p, body)
      PROVE  ClientInv'
  <2> DEFINE new == [operation |-> operation, key |-> key, proposal |-> p, body |-> body,
                     seen |-> proposal[p], commits |-> 0]
  <2>1. /\ request' = [request EXCEPT ![a] = new]
        /\ Exists(p) /\ UNCHANGED <<vars, reply>>
    BY <1>5 DEF Compose
  <2>2. proposal[p] \in ProposalRow
    BY <2>1 DEF ClientInv, IInv, TypeOK, Exists
  <2>3. new \in RequestRow
    BY <2>2, BodiesAreBodies DEF RequestRow
  <2>4. ClientTypes'
    BY <2>1, <2>3 DEF ClientInv, ClientTypes
  <2>5. request'[a] = new /\ \A b \in Accounts : b # a => request'[b] = request[b]
    BY <2>1 DEF ClientInv, ClientTypes
  <2>6. RequestHolds(a)'
    <3>1. /\ new.operation = operation /\ new.key = key /\ new.proposal = p
          /\ new.body = body /\ new.seen = proposal[p] /\ new.commits = 0
      OBVIOUS
    <3> HIDE DEF new
    <3>2. proposal' = proposal
      BY <2>1 DEF vars
    <3>3. /\ proposal'[p] # None /\ proposal[p].revision \in Nat
          /\ request'[a].proposal = p /\ request'[a].seen = proposal'[p]
      BY <2>1, <2>2, <2>5, <3>1, <3>2 DEF Exists, ProposalRow
    <3>4. SeenOnce(request[a])'
      BY <3>2, <3>3 DEF SeenOnce, Exists
    <3> QED BY <2>5, <3>1, <3>4 DEF RequestHolds
  <2>7. ASSUME NEW b \in Accounts, request'[b] # None PROVE RequestHolds(b)'
    BY <1>3, <2>1, <2>5, <2>6, <2>7
  <2> QED BY <1>2, <2>4, <2>7 DEF ClientInv
<1>6. ASSUME NEW a \in Accounts, Commit(a)
      PROVE  ClientInv'
  <2> PICK r : r = request[a]
    OBVIOUS
  <2>1. RequestHolds(a) /\ r \in RequestRow
    BY <1>6 DEF Commit, ClientInv, ClientTypes
  <2>2. /\ ~Recorded(a) /\ Performed(a)
        /\ request' = [request EXCEPT ![a] = [r EXCEPT !.commits = r.commits + 1]]
        /\ Answer(a, "created")
    BY <1>6 DEF Commit
  <2>3. r.commits = 0
    BY <2>1, <2>2 DEF RequestHolds, RecordFound, Recorded
  <2> DEFINE new == [r EXCEPT !.commits = r.commits + 1]
  <2>4. /\ new \in RequestRow /\ new.commits = 1
        /\ new.operation = r.operation /\ new.key = r.key /\ new.proposal = r.proposal
        /\ new.body = r.body /\ new.seen = r.seen
    BY <2>1, <2>3 DEF RequestRow
  <2>5. request' = [request EXCEPT ![a] = new]
    BY <2>2
  <2> HIDE DEF new
  <2>6. request'[a] = new /\ \A b \in Accounts : b # a => request'[b] = request[b]
    BY <2>5 DEF ClientInv, ClientTypes
  <2>7. /\ DOMAIN reply' = Accounts
        /\ reply'[a].kind = "created"
        /\ \A b \in Accounts : b # a => reply'[b] = reply[b]
    BY <2>2, AnswerGiven DEF ClientInv
  <2>8. ClientTypes'
    BY <2>4, <2>5, <2>7 DEF ClientInv, ClientTypes
  <2>9. Writes(a, r.key, r.proposal, r.seen.revision, r.operation, r.body)
    BY <2>1, <2>2, PerformedCommand DEF ClientInv, IInv
  <2>10. /\ r.operation \in Submits /\ r.key \in Keys /\ r.proposal \in Proposals
         /\ r.body \in Bodies(r.operation) /\ r.seen.revision \in Nat
    BY <2>1 DEF RequestHolds, SeenOnce
  <2>11. RecordFound(a)'
    <3> DEFINE record == [actor |-> a, key |-> r.key, body |-> r.body,
                          resource |-> r.proposal]
    <3>1. r.operation \in DOMAIN idempotency
      BY <2>10, ClientAssumption DEF ClientInv, IInv, TypeOK
    <3>2. record \in idempotency'[r.operation]
      BY <2>9, <3>1 DEF Writes, Remember
    <3>3. record.actor = a /\ record.key = r.key /\ record.body = r.body
      OBVIOUS
    <3> HIDE DEF record
    <3>4. \E rec \in {q \in idempotency'[r.operation] : q.actor = a /\ q.key = r.key} :
            rec.body = r.body
      BY <3>2, <3>3
    <3> QED BY <2>4, <2>6, <2>7, <3>4 DEF RecordFound, RecordOf
  <2>12. SeenOnce(request[a])'
    <3>1. r.seen.revision = proposal[r.proposal].revision /\ Exists(r.proposal)
      BY <2>9 DEF Writes, Current
    <3>2. r.seen = proposal[r.proposal]
      BY <2>1, <3>1 DEF RequestHolds, SeenOnce
    <3>3. /\ Exists(r.proposal)'
          /\ \/ proposal'[r.proposal] = proposal[r.proposal]
             \/ proposal'[r.proposal].revision = proposal[r.proposal].revision + 1
      BY <1>1, <2>10, <3>1, ServiceStep DEF ClientInv, IInv
    <3> QED BY <2>4, <2>6, <2>10, <3>1, <3>2, <3>3 DEF SeenOnce, Exists
  <2>13. RequestHolds(a)'
    BY <2>4, <2>6, <2>10, <2>11, <2>12 DEF RequestHolds
  <2>14. ASSUME NEW b \in Accounts, request'[b] # None PROVE RequestHolds(b)'
    BY <1>3, <2>6, <2>7, <2>13, <2>14
  <2> QED BY <1>2, <2>8, <2>14 DEF ClientInv
<1>7. ASSUME NEW a \in Accounts, Replay(a) \/ Reuse(a) \/ Fail(a)
      PROVE  ClientInv'
  <2>1. RequestHolds(a) /\ request' = request
    BY <1>7 DEF Replay, Reuse, Fail, ClientInv
  <2>2. PICK kind : Answer(a, kind) /\ (request[a].commits = 1 => kind = "replayed")
    <3>1. CASE Replay(a)
      BY <3>1 DEF Replay
    <3>2. CASE Reuse(a)
      BY <2>1, <3>2 DEF Reuse, RequestHolds, RecordFound
    <3>3. CASE Fail(a)
      BY <2>1, <3>3 DEF Fail, RequestHolds, RecordFound, Recorded
    <3> QED BY <1>7, <3>1, <3>2, <3>3
  <2>3. /\ DOMAIN reply' = Accounts
        /\ reply'[a].kind = kind
        /\ \A b \in Accounts : b # a => reply'[b] = reply[b]
    BY <2>2, AnswerGiven DEF ClientInv
  <2>4. ClientTypes'
    BY <2>1, <2>3 DEF ClientInv, ClientTypes
  <2>5. ASSUME NEW b \in Accounts, request'[b] # None PROVE RequestHolds(b)'
    BY <1>3, <2>1, <2>2, <2>3, <2>5
  <2> QED BY <1>2, <2>4, <2>5 DEF ClientInv
<1>8. ASSUME NEW a \in Accounts, Forget(a)
      PROVE  ClientInv'
  <2>1. /\ request' = [request EXCEPT ![a] = None]
        /\ reply' = [reply EXCEPT ![a] = NoReply]
    BY <1>8 DEF Forget
  <2>2. ClientTypes'
    BY <2>1 DEF ClientInv, ClientTypes
  <2>3. /\ request'[a] = None
        /\ \A b \in Accounts : b # a => request'[b] = request[b] /\ reply'[b] = reply[b]
    BY <2>1 DEF ClientInv, ClientTypes
  <2>4. ASSUME NEW b \in Accounts, request'[b] # None PROVE RequestHolds(b)'
    BY <1>3, <2>3, <2>4
  <2> QED BY <1>2, <2>2, <2>4 DEF ClientInv
<1>9. CASE Background \/ UNCHANGED clientVars
  BY <1>4, <1>9 DEF Background, clientVars
<1> QED BY <1>5, <1>6, <1>7, <1>8, <1>9 DEF ClientNext

LEMMA ClientInvInit == ClientInit => ClientInv
<1> SUFFICES ASSUME ClientInit PROVE ClientInv
  OBVIOUS
<1>1. IInv
  BY InvariantInit DEF ClientInit
<1>2. RevisionsAreAudited
  BY DEF ClientInit, Init, RevisionsAreAudited, Exists
<1>3. ClientTypes /\ \A a \in Accounts : request[a] = None
  BY DEF ClientInit, ClientTypes
<1> QED BY <1>1, <1>2, <1>3 DEF ClientInv

\* The inductive invariant of the service with its clients holds.
LEMMA ClientInvariant == ClientSpec => []ClientInv
BY ClientInvInit, ClientInvNext, PTL DEF ClientSpec

\* Clients who repeat, reorder and give up make the service do nothing that it
\* does not do for clients who send once: every theorem above is about both.
THEOREM ClientsImplementService == ClientSpec => Spec
<1>1. ClientInit => Init
  BY DEF ClientInit
<1>2. ClientInv /\ [ClientNext]_clientVars => [Next]_vars
  BY ClientStep DEF ClientInv, IInv
<1> QED BY <1>1, <1>2, ClientInvariant, PTL DEF ClientSpec, Spec

\* A command takes effect at most once, and from then on its client is never
\* told that it failed, however the proposal has moved on.
THEOREM RetrySafe == ClientSpec => []RetryIsReplayed
<1>1. ClientInv => RetryIsReplayed
  BY DEF ClientInv, RequestHolds, RecordFound, RetryIsReplayed
<1> QED BY <1>1, ClientInvariant, PTL

\* A command takes effect only on the very row that its client had read.
THEOREM SeenSafe == ClientSpec => CommitsOnWhatWasSeen
<1> DEFINE Seen == \A a \in Accounts :
             request[a] # None /\ request'[a] # None
               /\ request'[a].commits # request[a].commits =>
                 proposal[request[a].proposal] = request[a].seen
<1>1. ClientInv /\ [ClientNext]_clientVars => [Seen]_clientVars
  <2> SUFFICES ASSUME ClientInv, ClientNext, NEW a \in Accounts,
                      request[a] # None, request'[a] # None,
                      request'[a].commits # request[a].commits
               PROVE  proposal[request[a].proposal] = request[a].seen
    OBVIOUS
  <2>1. RequestHolds(a)
    BY DEF ClientInv
  <2>2. Commit(a)
    <3>1. ASSUME NEW b \in Accounts, b # a,
                 \/ Commit(b) \/ Forget(b)
                 \/ \E operation \in Submits, key \in Keys, p \in Proposals :
                      \E body \in Bodies(operation) : Compose(b, operation, key, p, body)
          PROVE  request'[a] = request[a]
      BY <3>1 DEF Commit, Forget, Compose, ClientInv, ClientTypes
    <3>2. ASSUME NEW b \in Accounts, Replay(b) \/ Reuse(b) \/ Fail(b)
          PROVE  request' = request
      BY <3>2 DEF Replay, Reuse, Fail
    <3>3. ~Forget(a)
      BY DEF Forget, ClientInv, ClientTypes
    <3>4. \A operation, key, p, body : ~Compose(a, operation, key, p, body)
      BY DEF Compose
    <3>5. ~Background
      BY DEF Background
    <3> QED BY <3>1, <3>2, <3>3, <3>4, <3>5 DEF ClientNext
  <2>3. Writes(a, request[a].key, request[a].proposal, request[a].seen.revision,
               request[a].operation, request[a].body)
    BY <2>1, <2>2, PerformedCommand DEF Commit, ClientInv, IInv
  <2>4. request[a].seen.revision = proposal[request[a].proposal].revision
    BY <2>3 DEF Writes, Current
  <2> QED BY <2>1, <2>4 DEF RequestHolds, SeenOnce
<1> QED BY <1>1, ClientInvariant, PTL DEF ClientSpec, CommitsOnWhatWasSeen

-----------------------------------------------------------------------------
(* Idempotency records. *)

\* The records of the commands on a proposal, each with its operation.
RecordsIn(table, p) ==
  UNION {{operation} \X {r \in table[operation] : r.resource = p} : operation \in Operations}

RecordsOf(p) == RecordsIn(idempotency, p)

KeyInv ==
  \A p \in Proposals : IsFiniteSet(RecordsOf(p)) /\ audits[p] = Cardinality(RecordsOf(p))

LEMMA InRecords ==
  ASSUME NEW table, NEW p, NEW x
  PROVE  x \in RecordsIn(table, p) <=>
           \E operation \in Operations : \E r \in table[operation] :
             r.resource = p /\ x = <<operation, r>>
<1> DEFINE Of(operation) == {r \in table[operation] : r.resource = p}
<1>1. RecordsIn(table, p) = UNION {{operation} \X Of(operation) : operation \in Operations}
  BY DEF RecordsIn
<1>2. \A operation, r : r \in Of(operation) <=> r \in table[operation] /\ r.resource = p
  OBVIOUS
<1> HIDE DEF Of
<1>3. x \in RecordsIn(table, p) <=>
        \E operation \in Operations : x \in {operation} \X Of(operation)
  BY <1>1, Zenon
<1>4. \A operation : x \in {operation} \X Of(operation) <=>
                       \E r \in Of(operation) : x = <<operation, r>>
  OBVIOUS
<1> QED BY <1>2, <1>3, <1>4

\* A command adds one record, its proposal's, and one audit row.
LEMMA KeyCommitted ==
  ASSUME TypeOK, KeyInv,
         NEW actor \in Accounts, NEW key \in Keys, NEW p \in Proposals,
         NEW operation \in Operations, NEW body,
         Fresh(actor, operation, key),
         Audit(p), Remember(actor, operation, key, body, p)
  PROVE  KeyInv'
<1> DEFINE new == [actor |-> actor, key |-> key, body |-> body, resource |-> p]
<1>1. /\ idempotency' = [idempotency EXCEPT ![operation] = idempotency[operation] \cup {new}]
      /\ new.actor = actor /\ new.key = key /\ new.resource = p
  BY DEF Remember
<1>2. new \notin idempotency[operation]
  BY <1>1 DEF Fresh
<1> HIDE DEF new
<1>3. \A o \in Operations :
        idempotency'[o] = IF o = operation THEN idempotency[o] \cup {new} ELSE idempotency[o]
  BY <1>1 DEF TypeOK
<1>4. /\ audits'[p] = audits[p] + 1 /\ audits[p] \in Nat
      /\ \A q \in Proposals : q # p => audits'[q] = audits[q]
  BY DEF Audit, TypeOK
<1>5. ASSUME NEW q \in Proposals, q # p PROVE RecordsOf(q)' = RecordsOf(q)
  <2>1. ASSUME NEW x PROVE x \in RecordsOf(q)' <=> x \in RecordsOf(q)
    <3>1. x \in RecordsIn(idempotency', q) <=>
            \E o \in Operations : \E r \in idempotency'[o] : r.resource = q /\ x = <<o, r>>
      BY InRecords
    <3>2. x \in RecordsIn(idempotency, q) <=>
            \E o \in Operations : \E r \in idempotency[o] : r.resource = q /\ x = <<o, r>>
      BY InRecords
    <3> QED BY <1>1, <1>3, <1>5, <3>1, <3>2 DEF RecordsOf
  <2> QED BY <2>1
<1>6. RecordsOf(p)' = RecordsOf(p) \cup {<<operation, new>>}
  <2>1. ASSUME NEW x PROVE x \in RecordsOf(p)' <=> x \in RecordsOf(p) \cup {<<operation, new>>}
    <3>1. x \in RecordsIn(idempotency', p) <=>
            \E o \in Operations : \E r \in idempotency'[o] : r.resource = p /\ x = <<o, r>>
      BY InRecords
    <3>2. x \in RecordsIn(idempotency, p) <=>
            \E o \in Operations : \E r \in idempotency[o] : r.resource = p /\ x = <<o, r>>
      BY InRecords
    <3> QED BY <1>1, <1>3, <3>1, <3>2 DEF RecordsOf
  <2> QED BY <2>1
<1>7. <<operation, new>> \notin RecordsOf(p)
  BY <1>2, InRecords DEF RecordsOf
<1>8. IsFiniteSet(RecordsOf(p)) /\ audits[p] = Cardinality(RecordsOf(p))
  BY DEF KeyInv
<1>9. IsFiniteSet(RecordsOf(p)') /\ audits'[p] = Cardinality(RecordsOf(p)')
  BY <1>4, <1>6, <1>7, <1>8, FS_AddElement
<1>10. ASSUME NEW q \in Proposals
       PROVE  IsFiniteSet(RecordsOf(q)') /\ audits'[q] = Cardinality(RecordsOf(q)')
  BY <1>4, <1>5, <1>9 DEF KeyInv
<1> QED BY <1>10 DEF KeyInv

LEMMA KeyNext == TypeOK /\ KeyInv /\ [Next]_vars => KeyInv'
<1> SUFFICES ASSUME TypeOK, KeyInv, [Next]_vars PROVE KeyInv'
  OBVIOUS
<1>1. CASE UNCHANGED <<audits, idempotency>>
  BY <1>1 DEF KeyInv, RecordsOf
<1>2. ASSUME NEW actor \in Accounts, NEW key \in Keys, NEW p \in Proposals,
             NEW c, NEW assessment, NEW decision, NEW expiresAt, NEW at,
             Propose(actor, key, p, c, assessment, decision, expiresAt, at)
      PROVE  KeyInv'
  BY <1>2, KeyCommitted DEF Propose, Operations
<1>3. ASSUME NEW actor \in Accounts, NEW key \in Keys, NEW p \in Proposals, NEW rev,
             Command(actor, key, p, rev)
      PROVE  KeyInv'
  BY <1>3, CommandWrites, KeyCommitted DEF Writes
<1>4. CASE Next
  BY <1>1, <1>2, <1>3, <1>4 DEF Next, Tick, AssignReview, RecordReviewerDecision
<1> QED BY <1>1, <1>4 DEF vars

\* Every command left one audit row and one idempotency record: no key of an
\* actor has committed the same operation twice.
THEOREM OncePerKey == Spec => []CommittedOncePerKey
<1>1. Init => KeyInv
  <2> SUFFICES ASSUME Init, NEW p \in Proposals
               PROVE  IsFiniteSet(RecordsOf(p)) /\ audits[p] = Cardinality(RecordsOf(p))
    BY DEF KeyInv
  <2>1. RecordsOf(p) = {}
    BY InRecords DEF Init, RecordsOf
  <2> QED BY <2>1, FS_EmptySet DEF Init
<1>2. KeyInv => CommittedOncePerKey
  BY DEF KeyInv, RecordsOf, RecordsIn, CommittedOncePerKey
<1> QED BY <1>1, <1>2, KeyNext, TypeCorrect, PTL DEF Spec
=============================================================================
