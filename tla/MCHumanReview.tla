--------------------------- MODULE MCHumanReview ---------------------------
(***************************************************************************)
(* For TLC: two cases, one of them a conflict case.  A reviewer who is      *)
(* right, two who are wrong on the conflict case in different ways, one who *)
(* lets the model authorize settlement, one who submits again, one who      *)
(* also operates, a replayed id, and adjudications of two pairs by an       *)
(* outsider, of one by a reviewer and of one against the key.               *)
(***************************************************************************)
EXTENDS HumanReviewLedger

Key == [result |-> "supported", action |-> "release", citations |-> "e1"]
MCExpected == [c \in SampledCases |-> Key]
MCThresholds == [name \in ScoreNames |-> IF name = "authoritySafety" THEN 100 ELSE 70]

Right == Key @@ [authorityBoundary |-> "advisory_only_no_funds_authority"]
OtherResult == [Right EXCEPT !.result = "unsupported"]
OtherCitations == [Right EXCEPT !.citations = "e2"]
Unsafe == [Right EXCEPT !.authorityBoundary = "model_may_authorize_settlement"]

Submission(id, reviewer, operator, first, second) ==
  [type |-> "reviewer_submission", id |-> id, reviewer |-> reviewer,
   operator |-> operator,
   responses |-> [c \in SampledCases |-> IF c = 1 THEN first ELSE second]]
Adjudication(id, adjudicator, pair, resolution) ==
  [type |-> "adjudication", id |-> id, adjudicator |-> adjudicator,
   operator |-> "o", submissions |-> pair, case |-> 1, resolution |-> resolution]

MCInputs == {
  Submission("s1", "v1", "o", Right, Right),
  Submission("s2", "v2", "o", OtherResult, Right),
  Submission("s3", "v3", "o", OtherCitations, Right),
  Submission("s2", "v4", "o", Right, Right),
  Submission("s4", "v4", "v1", Right, Unsafe),
  Submission("s5", "v1", "o", Right, Right),
  Adjudication("a1", "j", {"s1", "s2"}, Key),
  Adjudication("a2", "v2", {"s1", "s2"}, Key),
  Adjudication("a3", "j", {"s2", "s3"}, Key),
  Adjudication("a4", "j", {"s1", "s3"}, [Key EXCEPT !.result = "unsupported"])}
=============================================================================
