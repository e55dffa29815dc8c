-------------------------- MODULE AssessmentDraft --------------------------
(***************************************************************************)
(* What an assessment may say: the claims the adapter offers the model and *)
(* the validation of its draft (server/evidence/openai-adapter.ts), the    *)
(* deterministic evaluation (adapter.ts), the state of a requirement       *)
(* (domain.ts), and the route of a request whose provider failed           *)
(* (assessment-orchestrator.ts).                                           *)
(*                                                                         *)
(* Identifiers are the things themselves: a claim reference, a digest of   *)
(* its provenance in the code, is the record of it; texts are safe or not. *)
(***************************************************************************)
EXTENDS Naturals, Sequences, FiniteSets, Functions

CONSTANTS
  Criteria,      \* sequence: criterionIds of the verification policy
  Allowed,       \* criterion |-> its allowedResults
  Deterministic, \* the criteria with evaluationMode deterministic
  Requirements,  \* evidence requirements of the accepted document
  PermittedOf,   \* source constraint |-> its permittedFields
  None

IsList(s) == s \in Seq(Range(s))

ASSUME CriteriaAssumption == IsList(Criteria)

Results == {"satisfied", "not_satisfied", "indeterminate", "not_applicable"}
Conclusive == {"satisfied", "not_satisfied"}

\* The revisions of a frozen evidence set are records with the fields of
\* EvidenceRevision and the requirement of their item; result is the value of
\* metadata.result, or None.
OfCriterion(c, evidence) == {e \in evidence : c \in e.criteria}
RequirementsOf(c) == {q \in Requirements : c \in q.criteria}
TypedResults(evidence) == {e.result : e \in evidence} \ {None}
-----------------------------------------------------------------------------
(* buildClaimReferences *)

Usable(e) == e.availability = "available" /\ e.validation = "valid" /\ e.integrity # "failed"

SupportedBy(c, e) ==
  {q \in RequirementsOf(c) : e.source \in q.sources /\ q.class = e.class /\ q.sensitivity = "standard"}

ClaimReferences(evidence) ==
  {claim \in [criterion : Range(Criteria), revision : {e \in evidence : Usable(e)},
              field : UNION {PermittedOf[s] : s \in DOMAIN PermittedOf}] :
     LET e == claim.revision IN
     /\ claim.criterion \in e.criteria /\ SupportedBy(claim.criterion, e) # {}
     /\ e.source \in DOMAIN PermittedOf
     /\ claim.field \in PermittedOf[e.source] \cap e.fields}
-----------------------------------------------------------------------------
(* validateOpenAiDraft.  A finding lists citations, requirements, claims.   *)

\* What is no object of the right shape throws before anything is read in it.
Shaped(draft) ==
  /\ IsList(draft.findings)
  /\ \A i \in DOMAIN draft.findings : LET f == draft.findings[i] IN
       IsList(f.supporting) /\ IsList(f.conflicting) /\ IsList(f.claims)

Cited(finding) == finding.supporting \o finding.conflicting
Conflicted(c, evidence) == Cardinality(TypedResults(OfCriterion(c, evidence))) > 1

ValidCitations(c, finding, evidence) ==
  /\ IsInjective(Cited(finding))
  /\ Range(Cited(finding)) \subseteq OfCriterion(c, evidence)
  /\ finding.requirements \subseteq RequirementsOf(c)
  /\ finding.result \in Conclusive => finding.supporting # <<>>
  /\ Conflicted(c, evidence) => OfCriterion(c, evidence) \subseteq Range(finding.conflicting)

ValidClaims(c, finding, evidence) ==
  /\ IsInjective(finding.claims)
  /\ finding.result \in Conclusive => finding.claims # <<>>
  /\ \A claim \in Range(finding.claims) :
       /\ claim \in ClaimReferences(evidence) /\ claim.criterion = c
       /\ claim.revision \in Range(Cited(finding))
       /\ SupportedBy(c, claim.revision) \cap finding.requirements # {}

ValidFinding(c, finding, evidence) ==
  /\ finding.criterion = c /\ finding.result \in Allowed[c] \cap Results
  /\ ValidCitations(c, finding, evidence)
  /\ ValidClaims(c, finding, evidence)
  /\ finding.safe

\* One finding for each criterion, in the order of the policy.
ValidDraft(draft, evidence) ==
  /\ Len(draft.findings) = Len(Criteria)
  /\ \A i \in DOMAIN Criteria : ValidFinding(Criteria[i], draft.findings[i], evidence)
  /\ draft.safe
-----------------------------------------------------------------------------
(* requirementState, of the revisions of the requirement's items, by the   *)
(* precedence of its reasons                                               *)

RequirementState(q, evidence) ==
  LET own == {e \in evidence : e.requirement = q.id} IN
  IF own = {} THEN "missing"
  ELSE IF \E e \in own : e.validation = "invalid" \/ e.integrity = "failed" THEN "invalid"
  ELSE IF \E e \in own : e.availability \in {"inaccessible", "revoked"} THEN "inaccessible"
  ELSE IF \E e \in own : e.availability = "stale" THEN "stale"
  ELSE IF Cardinality(TypedResults(own)) > 1 THEN "conflicting"
  ELSE IF \/ Cardinality({<<e.source, e.ref>> : e \in own}) < q.minimumDistinctSources
          \/ q.independentSourcesRequired THEN "insufficient"
  ELSE "satisfied_for_assessment"

(* DeterministicAssessmentAdapter *)

Satisfied(c, evidence) ==
  /\ RequirementsOf(c) # {}
  /\ \A q \in RequirementsOf(c) : RequirementState(q, evidence) = "satisfied_for_assessment"

\* typed.length counts revisions, TypedResults their different values.
DeterministicFinding(c, evidence) ==
  LET typed  == {e \in OfCriterion(c, evidence) : e.result \in BOOLEAN}
      values == {e.result : e \in typed}
      result == IF Satisfied(c, evidence) /\ values = {TRUE} THEN "satisfied"
                ELSE IF Satisfied(c, evidence) /\ values = {FALSE} THEN "not_satisfied"
                ELSE "indeterminate"
  IN [criterion |-> c, result |-> result, requirements |-> RequirementsOf(c),
      supporting |-> IF result = "satisfied" THEN OfCriterion(c, evidence) ELSE {},
      conflicting |-> IF result = "indeterminate" /\ Cardinality(typed) > 1
                      THEN OfCriterion(c, evidence) ELSE {}]

(* evaluateWithFailClosedFallback, after the provider failed *)

Supports == Range(Criteria) \subseteq Deterministic
RouteOfFailure(evidence) ==
  IF Supports THEN "completed"
  ELSE IF \E q \in Requirements : RequirementState(q, evidence) \in
                 {"missing", "stale", "inaccessible", "insufficient"}
       THEN "request_evidence"
       ELSE "request_human_review"
-----------------------------------------------------------------------------
\* No conclusion over contradictory evidence: a criterion whose revisions
\* report different results gets no conclusive finding in a draft that is
\* accepted, since it must cite them all as conflicting and one as supporting.
Uncontested(draft, evidence) ==
  \A i \in DOMAIN Criteria :
    draft.findings[i].result \in Conclusive => ~Conflicted(Criteria[i], evidence)

\* Every conclusion rests on a claim of a usable revision that the finding
\* cites, for a requirement of the criterion that the finding names.
RestsOnClaims(draft, evidence) ==
  \A i \in DOMAIN Criteria :
    LET c == Criteria[i]  finding == draft.findings[i] IN
    finding.result \in Conclusive =>
      \E e \in OfCriterion(c, evidence) \cap Range(Cited(finding)) :
        Usable(e) /\ SupportedBy(c, e) \cap finding.requirements # {}

\* The deterministic evaluation finds a criterion satisfied only when some
\* revision says so, none says otherwise, and none that counts is unusable.
SatisfiedIsUnanimous(c, evidence) ==
  DeterministicFinding(c, evidence).result = "satisfied" =>
    /\ \E e \in OfCriterion(c, evidence) : e.result = TRUE
    /\ \A e \in OfCriterion(c, evidence) :
         e.result # FALSE /\ e.availability \notin {"inaccessible", "revoked", "stale"}
           /\ e.validation # "invalid" /\ e.integrity # "failed"
=============================================================================
