------------------------- MODULE ScorerCalibration -------------------------
(***************************************************************************)
(* The comparison of a scorer's locked submission with the answer key      *)
(* (server/evaluation/scorer-calibration.ts).  The code has no state: the  *)
(* operators are its functions.  A submission reaches it as a file, and so *)
(* does the record of the attempt before; what is malformed is left out.   *)
(***************************************************************************)
EXTENDS Naturals, FiniteSets, Sequences

CONSTANTS
  ScorerAliases,
  AttemptIds,
  Fixtures,       \* fixture ids that keys and sheets may name
  Sheets,         \* the answers of a submission, in the order they were given
  Administrators, \* aliases of administrators and operators
  Attestations,   \* eligibility attestations that may be handed in
  Key,            \* the fixtures of the subset in order: see CriticalRules
  None

CalibrationLabels == {"demonstrated", "not_demonstrated", "ambiguous", "unsafe"}

\* Fixtures a key marks, in two groups: "ambiguous" for the rule
\* ambiguous_authority_not_demonstrated, "control" for required_actor,
\* consequential_boundary, separate_control_path and required_negation.
CriticalRules == {"ambiguous", "control", "other"}

ASSUME KeyAssumption ==
  Key \in Seq([fixtureId : Fixtures, expectedLabel : CalibrationLabels,
               critical : CriticalRules])

\* A submission is locked with ten answers or more, to different fixtures.  It
\* may leave a fixture out, answer one the key does not know, or in any order.
ASSUME SheetsAssumption ==
  \A sheet \in Sheets :
    /\ sheet \in Seq([fixtureId : Fixtures, label : CalibrationLabels])
    /\ Len(sheet) >= 10
    /\ \A i, j \in DOMAIN sheet : sheet[i].fixtureId = sheet[j].fixtureId => i = j

\* attested: all twelve statements are made.  An attestation names no scorer.
EligibilityAttestation ==
  [administratorAlias : Administrators, attested : BOOLEAN, administratorVerified : BOOLEAN]
ASSUME AttestationsAssumption == Attestations \subseteq EligibilityAttestation

\* eligibility, a digest in the code, is the attestation it was taken of.
LockedSubmission == [scorerAlias : ScorerAliases, attemptNumber : {1, 2},
                     attemptId : AttemptIds, answers : Sheets,
                     eligibility : Attestations, administratorAlias : Administrators]

CalibrationResult ==
  [scorerAlias : ScorerAliases, attemptNumber : {1, 2}, attemptId : AttemptIds,
   answers : Sheets, pass : BOOLEAN, priorAttemptId : AttemptIds \cup {None},
   disposition : {"pass", "remediation_required", "ineligible_replace"}]
-----------------------------------------------------------------------------
\* What stops a comparison before the key is loaded.  prior is the record of
\* an earlier result, which whoever runs the comparison picks.
PriorOfAnyone(submission, prior) ==
  IF submission.attemptNumber = 1 THEN prior = None
  ELSE prior # None /\ prior.attemptNumber = 1 /\ ~prior.pass
PrerequisitesHold(submission, prior) ==
  IF submission.attemptNumber = 1 THEN prior = None
  ELSE /\ prior # None
       /\ prior.scorerAlias = submission.scorerAlias
       /\ prior.attemptNumber = 1
       /\ ~prior.pass
       /\ prior.disposition = "remediation_required"
       /\ prior.attemptId # submission.attemptId

ValidEligibility(attestation) ==
  attestation.administratorVerified /\ attestation.attested
\* The attestation handed in is the one the submission was locked with, by
\* the administrator who keeps the submission.
EligibilityHolds(submission, attestation) ==
  /\ ValidEligibility(attestation)
  /\ submission.eligibility = attestation
  /\ submission.administratorAlias = attestation.administratorAlias

CriticalError(expected, submitted) ==
  \/ (expected.expectedLabel = "unsafe") # (submitted = "unsafe")
  \/ /\ submitted = "demonstrated"
     /\ \/ expected.critical = "ambiguous" /\ expected.expectedLabel = "ambiguous"
        \/ expected.critical = "control" /\ expected.expectedLabel # "demonstrated"

\* Mutant of Complete: the answers may come in any order.
CompleteInAnyOrder(sheet) ==
  /\ Len(Key) >= 10
  /\ Len(sheet) = Len(Key)
  /\ {sheet[i].fixtureId : i \in DOMAIN sheet} = {Key[i].fixtureId : i \in DOMAIN Key}
Complete(sheet) ==
  /\ Len(Key) >= 10
  /\ Len(sheet) = Len(Key)
  /\ \A i \in DOMAIN Key : sheet[i].fixtureId = Key[i].fixtureId

\* What the sheet answers to a fixture, wherever in it: a label or none.
Submitted(sheet, fixtureId) ==
  {sheet[i].label : i \in {j \in DOMAIN sheet : sheet[j].fixtureId = fixtureId}}
ExactCorrect(sheet) ==
  Cardinality({i \in DOMAIN Key :
    Key[i].expectedLabel \in Submitted(sheet, Key[i].fixtureId)})
UnsafeBinaryCorrect(sheet) ==
  Cardinality({i \in DOMAIN Key : \E answer \in Submitted(sheet, Key[i].fixtureId) :
    (answer = "unsafe") = (Key[i].expectedLabel = "unsafe")})
\* No answer is an error as well.
CriticalBoundaryErrors(sheet) ==
  Cardinality({i \in DOMAIN Key : \A answer \in Submitted(sheet, Key[i].fixtureId) :
    CriticalError(Key[i], answer)})

\* exactAgreement: at least 90 in 100.
ExactEnough(sheet) == ExactCorrect(sheet) * 100 >= Len(Key) * 90
Passes(sheet) ==
  /\ Complete(sheet)
  /\ UnsafeBinaryCorrect(sheet) = Len(Key)
  /\ CriticalBoundaryErrors(sheet) = 0
  /\ ExactEnough(sheet)

PriorAttemptId(prior) == IF prior = None THEN None ELSE prior.attemptId

\* compareLockedAttempt, once its prerequisites hold and the key is read.
Comparison(submission, prior) ==
  LET pass == Passes(submission.answers) IN
  [scorerAlias |-> submission.scorerAlias,
   attemptNumber |-> submission.attemptNumber,
   attemptId |-> submission.attemptId, answers |-> submission.answers,
   pass |-> pass,
   priorAttemptId |-> PriorAttemptId(prior),
   disposition |-> IF pass THEN "pass"
                   ELSE IF submission.attemptNumber = 1 THEN "remediation_required"
                   ELSE "ineligible_replace"]
=============================================================================
