------------------------- MODULE MCEvidenceWorkflow -------------------------
(***************************************************************************)
(* For TLC: a participant and a reviewer who both may submit evidence.     *)
(***************************************************************************)
EXTENDS EvidenceWorkflow, TLC

CONSTANTS participant, reviewer, provider, platform, k1, k2

MCPartyOf == participant :> provider @@ reviewer :> platform
MCRoleOf  == participant :> "participant" @@ reviewer :> "reviewer"

\* Two keys for the commands that race, one for the others.
MCKeysFor ==
  [o \in Operations |->
    IF o \in {"correct_evidence", "request_assessment", "record_reviewer_decision"}
    THEN {k1, k2} ELSE {"k"}]

Symmetry ==
  Permutations(Items) \cup Permutations(Revisions) \cup Permutations(Assessments)
  \cup Permutations(Handlers) \cup Permutations({k1, k2})
=============================================================================
