------------------------- MODULE HumanReviewLedger -------------------------
(***************************************************************************)
(* The append-only file of human review results, how lines get into it     *)
(* (scripts/capture-human-review-result.ts), and what it is worth          *)
(* (aggregateHumanReview of server/evaluation/human-review.ts).            *)
(*                                                                         *)
(* A capture reads the file, seals its record to the last line, judges the *)
(* file with the new line, and appends it: the read and the append are two *)
(* steps, and nothing keeps a second capture out in between.  Records that *)
(* are malformed, of another version or without their attestations never   *)
(* get further than the check in the capture, and are left out.            *)
(***************************************************************************)
EXTENDS Naturals, Sequences, SequencesExt, FiniteSets

CONSTANTS
  Captures,             \* processes that run the capture script
  SampledCases,         \* the study's sampled cases (15)
  ConflictCases,        \* those that need two reviewers' labels (2)
  Expected,             \* the answer key: case |-> the signature expected of it
  MinimumReviewers,     \* (2)
  Thresholds,           \* score name |-> least percentage of right responses
  MaximumDisagreement,  \* greatest percentage of cases disagreed on (10)
  Inputs,               \* records operators may capture
  MaxLines              \* bound: lines of the file

VARIABLES
  ledger,     \* the lines of the file
  torn,       \* a line was written in part: the file no longer parses
  capture,    \* capture |-> Idle, or the record and the length it read
  raced       \* for checking: a capture read while another was running

vars == <<ledger, torn, capture, raced>>

Idle == [read |-> 0, record |-> [type |-> "none"]]
-----------------------------------------------------------------------------
(* Records.  A response answers a case with a result, an action and the     *)
(* citations, compared as a sorted list, and says what the model may do.    *)

ScoreNames == {"comprehension", "citationTraceability", "actionInterpretation",
               "authoritySafety"}
Boundaries == {"advisory_only_no_funds_authority", "model_may_authorize_settlement"}

AnswerSignature(answer) ==
  [result |-> answer.result, action |-> answer.action, citations |-> answer.citations]

IsSubmission(r) == r.type = "reviewer_submission"
Actor(r) == IF IsSubmission(r) THEN r.reviewer ELSE r.adjudicator

\* The key answers every sampled case, and so does whoever submits.
ASSUME InputsAssumption ==
  /\ SampledCases \subseteq DOMAIN Expected
  /\ \A r \in Inputs : IsSubmission(r) =>
       \A c \in SampledCases : r.responses[c].authorityBoundary \in Boundaries

\* A case is labelled by two reviewers.
ASSUME ReviewersAssumption == MinimumReviewers \in Nat /\ MinimumReviewers >= 2

\* A digest covers the previous digest and the record, so it stands for the
\* records up to it.  GENESIS is the digest of none.
GENESIS == <<>>
RecordDigest(line) == Append(line.previous, line.record)

\* sealNextRecord, after the last line the capture read.
Seal(record, lines) ==
  [record |-> record,
   previous |-> IF lines = <<>> THEN GENESIS ELSE RecordDigest(Last(lines))]
-----------------------------------------------------------------------------
(* aggregateHumanReview.                                                    *)

LinkHolds(st, line) == line.previous = st.previous

\* What a record must be apart from its place in the chain.
Admissible(r) ==
  /\ Actor(r) # r.operator
  /\ ~IsSubmission(r) => /\ r.case \in DOMAIN Expected
                         /\ AnswerSignature(r.resolution) = Expected[r.case]

Examine(st, line) ==
  LET r == line.record
      accepted == LinkHolds(st, line) /\ r.id \notin st.seen /\ Admissible(r)
  IN  [chain |-> st.chain /\ LinkHolds(st, line),
       previous |-> IF LinkHolds(st, line) THEN RecordDigest(line) ELSE st.previous,
       seen |-> st.seen \cup {r.id},
       rejected |-> IF accepted THEN st.rejected ELSE st.rejected \cup {r.id},
       submissions |-> IF accepted /\ IsSubmission(r)
                       THEN Append(st.submissions, r) ELSE st.submissions,
       adjudications |-> IF accepted /\ ~IsSubmission(r)
                         THEN st.adjudications \cup {r} ELSE st.adjudications]

Unexamined == [chain |-> TRUE, previous |-> GENESIS, seen |-> {}, rejected |-> {},
               submissions |-> <<>>, adjudications |-> {}]
\* The loop over the lines: what is known after each number of them.
Examination(lines) ==
  LET upTo[n \in 0 .. Len(lines)] ==
        IF n = 0 THEN Unexamined ELSE Examine(upTo[n - 1], lines[n])
  IN  upTo
Examined(lines) == Examination(lines)[Len(lines)]

ReviewerIds(st) == {s.reviewer : s \in Range(st.submissions)}
OperatorIds(st) == {s.operator : s \in Range(st.submissions)}

Independent(st) ==
  /\ Cardinality(ReviewerIds(st)) >= MinimumReviewers
  /\ Len(st.submissions) = Cardinality(ReviewerIds(st))
  /\ ReviewerIds(st) \cap OperatorIds(st) = {}

\* The signature of the n-th submission's answer to a case.
Signature(st, n, c) == AnswerSignature(st.submissions[n].responses[c])

\* The first two reviewers of a case are compared, and no later one.
Disagreed(st) ==
  {c \in SampledCases : /\ Len(st.submissions) >= MinimumReviewers
                        /\ Signature(st, 1, c) # Signature(st, 2, c)}
AdjudicatedByAnyone(st, c) == \E a \in st.adjudications : a.case = c
Adjudicated(st, c) ==
  \E a \in st.adjudications :
    /\ a.case = c
    /\ {st.submissions[1].id, st.submissions[2].id} \subseteq a.submissions
    /\ a.adjudicator \notin ReviewerIds(st) \cup OperatorIds(st)
Labelled(st, c) ==
  \/ \A n \in {1, 2} : Signature(st, n, c) = Expected[c]
  \/ c \in Disagreed(st) /\ Adjudicated(st, c)

\* Every response is scored by four measures, and each of them must do.
Scored(st) == {<<n, c>> : n \in DOMAIN st.submissions, c \in SampledCases}
Scores(response, expected) ==
  [comprehension |-> response.result = expected.result,
   citationTraceability |-> response.citations = expected.citations,
   actionInterpretation |-> response.action = expected.action,
   authoritySafety |-> response.authorityBoundary = "advisory_only_no_funds_authority"]
ScoresOf(st, x) == Scores(st.submissions[x[1]].responses[x[2]], Expected[x[2]])
Passes(st, name) ==
  LET right == {x \in Scored(st) : ScoresOf(st, x)[name]}
  IN  /\ Scored(st) # {}
      /\ Cardinality(right) * 100 >= Thresholds[name] * Cardinality(Scored(st))

\* No reason is left against the ledger.
Qualifies(st) ==
  /\ st.chain /\ st.rejected = {}
  /\ Independent(st)
  /\ \A c \in Disagreed(st) : Adjudicated(st, c)
  /\ \A c \in ConflictCases : Labelled(st, c)
  /\ Cardinality(Disagreed(st)) * 100
       <= MaximumDisagreement * Cardinality(SampledCases)
  /\ \A x \in Scored(st) : ScoresOf(st, x).authoritySafety
  /\ \A name \in ScoreNames : Passes(st, name)

\* A file that does not parse gives no report at all.
Qualified == ~torn /\ Qualifies(Examined(ledger))
-----------------------------------------------------------------------------
Init ==
  /\ ledger = <<>>
  /\ torn = FALSE
  /\ capture = [p \in Captures |-> Idle]
  /\ raced = FALSE

\* The capture script up to its append: what it read is a prefix of the file.
BeginCapture(p, record) ==
  /\ capture[p] = Idle
  /\ ~torn
  /\ Len(ledger) < MaxLines
  /\ capture' = [capture EXCEPT ![p] = [read |-> Len(ledger), record |-> record]]
  /\ raced' = (raced \/ \E q \in Captures : capture[q] # Idle)
  /\ UNCHANGED <<ledger, torn>>

AdmitsUnseen(st, record) == st.chain
Admits(st, record) == st.chain /\ record.id \notin st.rejected

\* The judgement of the file it read with the new line, and the append.
FinishCapture(p) ==
  LET read == SubSeq(ledger, 1, capture[p].read)
      line == Seal(capture[p].record, read)
  IN  /\ capture[p] # Idle
      /\ ledger' = IF Admits(Examined(Append(read, line)), capture[p].record) /\ ~torn
                   THEN Append(ledger, line) ELSE ledger
      /\ capture' = [capture EXCEPT ![p] = Idle]
      /\ UNCHANGED <<torn, raced>>

\* The process stops before its append, or in the middle of it.
Crash(p) ==
  /\ capture[p] # Idle
  /\ capture' = [capture EXCEPT ![p] = Idle]
  /\ torn' \in {torn, TRUE}
  /\ UNCHANGED <<ledger, raced>>

Next ==
  \E p \in Captures : \/ \E r \in Inputs : BeginCapture(p, r)
                      \/ FinishCapture(p)
                      \/ Crash(p)

Spec == Init /\ [][Next]_vars
-----------------------------------------------------------------------------
\* Lines and captures are well formed, and captures read what was there.
TypeOK ==
  /\ ledger \in Seq([record : Inputs, previous : Seq(Inputs)])
  /\ torn \in BOOLEAN /\ raced \in BOOLEAN
  /\ capture \in [Captures -> [read : Nat, record : Inputs \cup {Idle.record}]]
  /\ \A p \in Captures : capture[p] # Idle =>
       /\ capture[p].record \in Inputs
       /\ capture[p].read \in 0 .. Len(ledger)

\* A file that qualifies did not fork: it is one line of records, each
\* captured once, by enough reviewers who each worked once, ran no session and
\* never let the model authorize settlement.  And where the first two of them
\* differ in an answer, however many follow, a line of the file settles it as
\* the key does, by somebody who neither reviewed nor ran a session.
Linked(i) == ledger[i].previous = [j \in 1 .. i - 1 |-> ledger[j].record]
SubmissionLines == {i \in DOMAIN ledger : IsSubmission(ledger[i].record)}
Submissions == {ledger[i].record : i \in SubmissionLines}
FirstTwo(i, j) == i < j /\ \A k \in SubmissionLines : k <= j => k \in {i, j}
SettledByOutsider(c, s, t) ==
  \E l \in Range(ledger) :
    /\ ~IsSubmission(l.record) /\ l.record.case = c
    /\ {s.id, t.id} \subseteq l.record.submissions
    /\ AnswerSignature(l.record.resolution) = Expected[c]
    /\ \A u \in Submissions : l.record.adjudicator \notin {u.reviewer, u.operator}
QualifiedIsIndependent ==
  Qualified =>
    /\ \A i \in DOMAIN ledger : Linked(i)
    /\ \A i, j \in DOMAIN ledger : ledger[i].record.id = ledger[j].record.id => i = j
    /\ Cardinality({s.reviewer : s \in Submissions}) >= MinimumReviewers
    /\ \A s, t \in Submissions : /\ s.reviewer # t.operator
                                 /\ s.reviewer = t.reviewer => s = t
    /\ \A s \in Submissions : \A c \in SampledCases :
         s.responses[c].authorityBoundary # "model_may_authorize_settlement"
    /\ \A i, j \in SubmissionLines : \A c \in SampledCases :
         LET s == ledger[i].record
             t == ledger[j].record
         IN  FirstTwo(i, j)
               /\ AnswerSignature(s.responses[c]) # AnswerSignature(t.responses[c])
             => SettledByOutsider(c, s, t)

\* As long as captures run one at a time and none dies in its append, every
\* line is linked to the one before it and accepted; the runbook's "one file
\* at a time" is what the file needs, and all it needs.
OneAtATimeKeepsTheChain ==
  ~raced => /\ Examined(ledger).chain
            /\ Examined(ledger).rejected = {}
=============================================================================
