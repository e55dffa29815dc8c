------------------------ MODULE MCAssessmentProvider ------------------------
(***************************************************************************)
(* Three evaluations of one frozen evidence set, and the gates and the     *)
(* draft validation over small sets of inputs.  c1 has evidence that says  *)
(* yes and a stale revision, c2 has revisions that contradict each other.  *)
(***************************************************************************)
EXTENDS AssessmentProvider, ProviderGates, SequencesExt

CONSTANTS c1, c2, text

MCCriteria == <<c1, c2>>
MCAllowed == [c \in {c1, c2} |-> Results \ {"not_applicable"}]

Requirement(id, criteria, sources, sensitivity) ==
  [id |-> id, criteria |-> criteria, sources |-> sources, class |-> "document",
   sensitivity |-> sensitivity, minimumDistinctSources |-> 1,
   independentSourcesRequired |-> FALSE]
Plain   == Requirement("q1", {c1, c2}, {"s"}, "standard")
Private == Requirement("q2", {c1}, {"s", "t"}, "sensitive")
MCRequirements == {Plain, Private}
MCPermittedOf == [s \in {"s"} |-> {"result"}]

Revision(ref, criteria, requirement, source, result, availability) ==
  [ref |-> ref, criteria |-> criteria, requirement |-> requirement.id, source |-> source,
   class |-> "document", fields |-> {"result"}, result |-> result,
   availability |-> availability, validation |-> "valid", integrity |-> "unverified"]
MCEvidence ==
  {Revision(1, {c1}, Plain, "s", TRUE, "available"),
   Revision(2, {c1}, Private, "t", TRUE, "stale"),
   Revision(3, {c2}, Plain, "s", TRUE, "available"),
   Revision(4, {c2}, Plain, "s", FALSE, "available")}

\* Findings that cite at most two revisions on either side.
Lists(S, n) == UNION {[1..k -> S] : k \in 0..n}
Findings(c, results, evidence) ==
  [criterion : {c}, result : results, supporting : Lists(evidence, 1),
   conflicting : Lists(evidence, 2), requirements : SUBSET MCRequirements,
   claims : Lists(ClaimReferences(evidence), 1), safe : {TRUE}]
Undecided(c, evidence) ==
  [criterion |-> c, result |-> "indeterminate", supporting |-> <<>>,
   conflicting |-> SetToSeq(OfCriterion(c, evidence)), requirements |-> {},
   claims |-> <<>>, safe |-> TRUE]

\* What the run's model answers: one accepted draft, and drafts that conclude
\* from the stale revision, against the contradiction, or say too much.
Draft(first, second) == [findings |-> <<first, second>>, safe |-> TRUE]
Concludes(c, e) ==
  [criterion |-> c, result |-> "satisfied", supporting |-> <<e>>, conflicting |-> <<>>,
   requirements |-> {Plain}, safe |-> TRUE,
   claims |-> <<[criterion |-> c, revision |-> e, field |-> "result"]>>]
About(ref) == CHOOSE e \in MCEvidence : e.ref = ref
MCDrafts ==
  LET good == Draft(Concludes(c1, About(1)), Undecided(c2, MCEvidence)) IN
  {good,
   Draft(Concludes(c1, About(2)), Undecided(c2, MCEvidence)),
   Draft(Concludes(c1, About(1)), Concludes(c2, About(3))),
   [good EXCEPT !.safe = FALSE]}
-----------------------------------------------------------------------------
\* Evidence sets of up to two revisions of one criterion, good or bad.
EvidenceSets ==
  LET revisions == {Revision(ref, criteria, q, "s", result, availability) :
        ref \in 1..2, criteria \in {{c1}, {c1, c2}}, q \in MCRequirements,
        result \in {TRUE, FALSE, text}, availability \in {"available", "stale"}}
      proper == {e \in revisions : e.requirement = "q2" => e.criteria = {c1}}
  IN {{e} : e \in proper} \cup {{d, e} : d \in {e \in proper : e.ref = 1},
                                         e \in {e \in proper : e.ref = 2}}

\* Accepted drafts over those sets conclude nothing contested or unsupported.
ASSUME DraftsAssumption ==
  \A evidence \in {E \in EvidenceSets : \A e \in E : e.criteria = {c1}} :
    \A finding \in Findings(c1, {"satisfied", "indeterminate"}, evidence) :
      LET draft == Draft(finding, Undecided(c2, evidence)) IN
      ValidDraft(draft, evidence) =>
        Uncontested(draft, evidence) /\ RestsOnClaims(draft, evidence)

\* And some conclude: the implication above is not empty.
ASSUME ConclusionsAssumption ==
  \E draft \in MCDrafts : ValidDraft(draft, MCEvidence)

\* The deterministic evaluation, over the same sets.
ASSUME DeterministicAssumption ==
  \A evidence \in EvidenceSets : \A c \in {c1, c2} : SatisfiedIsUnanimous(c, evidence)

\* The readers of the environment agree, over all of its values.
ASSUME GatesAssumption ==
  \A env \in Env, synthetic \in BOOLEAN :
    SelectedIsEnabled(env, synthetic) /\ KillSwitchHolds(env, synthetic)
=============================================================================
