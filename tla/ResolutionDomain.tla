-------------------------- MODULE ResolutionDomain --------------------------
(***************************************************************************)
(* The pure policy of a simulated resolution                               *)
(* (apps/web/server/resolution/domain.ts): the lifecycle table, the effect *)
(* check, the readiness blockers and the ledger entries.  Nothing here has *)
(* state; module Resolution is the service that calls it.                  *)
(*                                                                         *)
(* One accepted agreement version is fixed.  Its document is the tuple of  *)
(* constants below.  VERSION_NOT_ACCEPTED and SNAPSHOT_MISMATCH are not    *)
(* among the blockers: an accepted version row and its acceptances are     *)
(* immutable in the database, so what Propose checked of them still holds. *)
(***************************************************************************)
EXTENDS Integers, FiniteSets

CONSTANTS
  Accounts,               \* accounts with an active membership
  Parties,                \* canonical parties of the version
  PartyOf,                \* [Accounts -> Parties], the membership's party
  Approvers,              \* eligible for create_settlement_instruction
  MinimumApprovals,       \* ... how many of them must approve
  SelfApprovalProhibited, \* ... may the proposer's party count?
  HumanReviewRequired,    \* ... must the proposal cite a reviewer decision?
  Outcomes,               \* resolutionPolicy.outcomes
  EconomicSides,          \* economicSides
  SideParties,            \* [EconomicSides -> SUBSET Parties]
  ProtectedAmount,        \* protectionPolicy money; 0 is mode "none"
  Texts,                  \* the rest of an effect, as the client wrote it
  BlankTexts,             \* ... those with a blank destinationRef
  EligibleAssessments,    \* assessments completed with every finding satisfied
  None                    \* an absent row or reference

Never == 0   \* no expiresAt: real deadlines are later than the epoch

ASSUME PartyAssumption ==
  /\ PartyOf \in [Accounts -> Parties]
  /\ Approvers \subseteq Parties
  /\ IsFiniteSet(Parties)

ASSUME PolicyAssumption ==
  /\ MinimumApprovals \in 1..Cardinality(Approvers)
  /\ SelfApprovalProhibited \in BOOLEAN
  /\ HumanReviewRequired \in BOOLEAN

ASSUME EconomyAssumption ==
  /\ SideParties \in [EconomicSides -> SUBSET Parties]
  /\ ProtectedAmount \in Nat
  /\ BlankTexts \subseteq Texts

-----------------------------------------------------------------------------
(* The lifecycle. *)

ResolutionState ==
  {"proposed", "review_window_open", "disputed", "held", "authorized",
   "execution_ready", "simulated_executed", "cancelled", "expired"}

TERMINAL_STATES == {"simulated_executed", "cancelled", "expired"}

ALLOWED_TRANSITIONS ==
  [ proposed           |-> {"review_window_open", "cancelled", "expired"},
    review_window_open |-> {"disputed", "held", "authorized", "cancelled", "expired"},
    disputed           |-> {"held", "cancelled"},
    held               |-> {"authorized", "cancelled", "expired"},
    authorized         |-> {"held", "execution_ready", "cancelled", "expired"},
    execution_ready    |-> {"simulated_executed", "cancelled"},
    simulated_executed |-> {},
    cancelled          |-> {},
    expired            |-> {} ]

CanTransition(from, to) == to \in ALLOWED_TRANSITIONS[from]

-----------------------------------------------------------------------------
(* Effects.  An amount stands for amountMinor and currency, which are       *)
(* compared with the same protection terms.  A text stands for all else    *)
(* the request body had in its effect: the description, the destinationRef *)
(* and any further field.  It is digested but compared with no term.       *)

NonFinancial == [kind : {"non_financial"}, text : Texts]

SimulatedValue ==
  [kind : {"simulated_value"}, amount : Int, text : Texts,
   source : EconomicSides, destination : EconomicSides]

SimulatedEffect == NonFinancial \cup SimulatedValue

\* A consequence stands for its consequenceRef, the digest of version, outcome
\* and effect: the same payment with another text is another consequence.
Consequences == [outcome : Outcomes, effect : SimulatedEffect]

EconomicSidesValid(source, destination) ==
  /\ source # destination
  /\ SideParties[source] # {}
  /\ SideParties[destination] # {}
  /\ SideParties[source] \cap SideParties[destination] = {}

ValidEffect(effect) ==
  \/ effect.kind = "non_financial"
  \/ /\ effect.kind = "simulated_value"
     /\ ProtectedAmount > 0 /\ effect.amount = ProtectedAmount
     /\ effect.text \notin BlankTexts
     /\ EconomicSidesValid(effect.source, effect.destination)

\* The two ledger entries of a value effect, as what each side's balance moves by.
BalancedEntries(effect) ==
  IF effect.kind = "non_financial" THEN {}
  ELSE {[side |-> effect.source, amount |-> -effect.amount],
        [side |-> effect.destination, amount |-> effect.amount]}

-----------------------------------------------------------------------------
(* Readiness.  A snapshot is what the service read in the transaction:     *)
(*   row      the proposal row                                             *)
(*   grants   [Parties -> grant rows or None]                              *)
(*   disputed is a dispute of it open?                                     *)
(*   safety   the state of the version's Financial Safety status           *)
(*   executed does it have an execution?                                   *)

Approving(snapshot) ==
  {party \in Approvers :
     /\ snapshot.grants[party] # None
     /\ ~snapshot.grants[party].revoked
     /\ SelfApprovalProhibited => party # PartyOf[snapshot.row.creator]}

Revoked(snapshot) ==
  \E party \in Parties :
     snapshot.grants[party] # None /\ snapshot.grants[party].revoked

Approved(snapshot) == Cardinality(Approving(snapshot)) >= MinimumApprovals

Elapsed(row, at)  == at >= row.windowEnds
Lapsed(row, at)   == row.expiresAt # Never /\ at >= row.expiresAt
Assessed(row)     == row.assessment \in EligibleAssessments
Reviewed(row)     == HumanReviewRequired => row.decision # None

Blocking(snapshot, at) ==
  LET row == snapshot.row IN
  [ ALREADY_EXECUTED        |-> snapshot.executed \/ row.state = "simulated_executed",
    PROPOSAL_STALE          |-> row.state = "cancelled",
    PROPOSAL_EXPIRED        |-> Lapsed(row, at),
    ASSESSMENT_NOT_ELIGIBLE |-> ~Assessed(row),
    REVIEW_WINDOW_ACTIVE    |-> ~Elapsed(row, at),
    ACTIVE_DISPUTE          |-> snapshot.disputed,
    FINANCIAL_SAFETY        |-> snapshot.safety # "clear",
    AUTHORIZATION_REVOKED   |-> ~Approved(snapshot) /\ Revoked(snapshot),
    AUTHORIZATION_MISSING   |-> ~Approved(snapshot) /\ ~Revoked(snapshot),
    HUMAN_REVIEW_REQUIRED   |-> ~Reviewed(row),
    EFFECT_INVALID          |-> ~ValidEffect(row.consequence.effect) ]

\* Mutants of Blockers: one of the guards is forgotten.
BlockersBut(forgotten, snapshot, at) ==
  LET blocking == Blocking(snapshot, at)
  IN  {code \in DOMAIN blocking \ {forgotten} : blocking[code]}

BlockersButDispute(snapshot, at) == BlockersBut("ACTIVE_DISPUTE", snapshot, at)
BlockersButWindow(snapshot, at)  == BlockersBut("REVIEW_WINDOW_ACTIVE", snapshot, at)
BlockersButStale(snapshot, at)   == BlockersBut("PROPOSAL_STALE", snapshot, at)

Blockers(snapshot, at) ==
  LET blocking == Blocking(snapshot, at)
  IN  {code \in DOMAIN blocking : blocking[code]}

Ready(snapshot, at) == Blockers(snapshot, at) = {}
=============================================================================
