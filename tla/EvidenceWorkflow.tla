-------------------------- MODULE EvidenceWorkflow --------------------------
(***************************************************************************)
(* Evidence, assessments and human reviews of one accepted agreement       *)
(* version (apps/web/server/evidence/service.ts) over PostgreSQL           *)
(* (evidence/prisma-repository.ts).                                        *)
(*                                                                         *)
(* Transactions are Read Committed: two of them may both read before       *)
(* either writes, and only conditional updates and unique keys keep them   *)
(* apart.  A command whose transaction reads a row it later writes, or     *)
(* that works on what it read before the transaction, is a handler with a  *)
(* step for each; a handler may stop after any of them.  The others are    *)
(* one step.                                                               *)
(*                                                                         *)
(* Membership, roles and the accepted version are fixed.  One evidence     *)
(* requirement is modelled, of standard sensitivity and participants'      *)
(* visibility.  A key that was used before makes the call a replay or a    *)
(* conflict, which writes nothing.                                         *)
(***************************************************************************)
EXTENDS Integers, FiniteSets

CONSTANTS
  Items,          \* evidence ids the service may draw
  Revisions,      \* evidence revision ids it may draw
  Assessments,    \* assessment ids it may draw
  Reviews,        \* human review request ids it may draw
  Accounts,
  Parties,
  PartyOf,        \* [Accounts -> Parties]
  RoleOf,         \* [Accounts -> membership role]
  Submitters,     \* submitterPartyIds of the requirement
  Envelopes,      \* adapter, prompt, schema, policy and action versions
  KeysFor,        \* bound: the idempotency keys clients send for each operation
  Handlers,       \* bound: multi-step handlers at work at once
  None

Operations ==
  {"submit_evidence", "correct_evidence", "withdraw_evidence",
   "request_assessment", "request_human_review", "record_reviewer_decision"}

Keys == UNION {KeysFor[o] : o \in Operations}

ASSUME EvidenceAssumption ==
  /\ PartyOf \in [Accounts -> Parties]
  /\ RoleOf \in [Accounts -> {"owner", "participant", "reviewer"}]
  /\ Submitters \subseteq Parties

VARIABLES
  item,         \* evidence_items
  revision,     \* evidence_revisions, never updated
  events,       \* evidence_provenance_events and audit_records of evidence
  sets,         \* evidence_sets, each as the revisions its digest stands for
  assessment,   \* assessments
  review,       \* human_review_requests
  decisions,    \* reviewer_decisions
  idempotency,  \* idempotency_records
  handler       \* the multi-step handlers at work

evidence == <<item, revision, events>>
reviews  == <<review, decisions>>
vars == <<evidence, sets, assessment, reviews, idempotency, handler>>

ItemRow ==
  [current : Revisions, lifecycle : {"active", "withdrawn"}, creator : Accounts,
   revision : Nat \ {0}]
RevisionRow ==
  [item : Items, number : Nat \ {0}, supersedes : Revisions \cup {None}, account : Accounts]
EventRow == [item : Items, change : Nat \ {0}, actor : Accounts]

\* active is history: the revisions that were current when the row was written.
AssessmentRow ==
  [evidence : SUBSET Revisions, envelope : Envelopes, active : SUBSET Revisions]
ReviewRow ==
  [state : {"open", "assigned", "completed"}, assignee : Accounts \cup {None},
   revision : Nat \ {0}]
DecisionRow == [review : Reviews, reviewer : Accounts, cited : SUBSET Revisions]
IdempotencyRow ==
  [actor : Accounts, operation : Operations, key : Keys,
   result : Items \cup Assessments \cup Reviews]

\* What the handlers hold: the revision a correction will write, the evidence
\* an assessment froze, the review a decision was checked for.  seen is the
\* row the transaction read; before, history, the items at the freeze.
CorrectHandler ==
  [kind : {"correct"}, phase : {"built", "begun"}, actor : Accounts, key : Keys,
   item : Items, expected : Nat, draws : Revisions, row : RevisionRow,
   seen : ItemRow \cup {None}]
AssessHandler ==
  [kind : {"assess"}, phase : {"running", "checked", "begun"}, actor : Accounts, key : Keys,
   evidence : SUBSET Revisions, envelope : Envelopes, draws : Assessments,
   stored : BOOLEAN, before : [Items -> ItemRow \cup {None}]]
DecideHandler ==
  [kind : {"decide"}, phase : {"checked"}, actor : Accounts, key : Keys,
   review : Reviews, expected : Nat, cited : SUBSET Revisions]

ASSUME NoneAssumption ==
  None \notin ItemRow \cup RevisionRow \cup AssessmentRow \cup ReviewRow \cup Revisions
             \cup CorrectHandler \cup AssessHandler \cup DecideHandler

-----------------------------------------------------------------------------
(* Rows, keys and handlers. *)

At(h, kind, phase) ==
  handler[h] # None /\ handler[h].kind = kind /\ handler[h].phase = phase
Idle(h) == handler[h] = None
Goes(h, q) == handler' = [handler EXCEPT ![h] = q]

\* Identifiers are random: no row and no other handler has them.
Drawn(kind, id) ==
  \E h \in Handlers : handler[h] # None /\ handler[h].kind = kind /\ handler[h].draws = id

\* listEvidence, active items only: one query, so one instant.
ActiveRevisions ==
  {item[e].current : e \in {e \in Items : item[e] # None /\ item[e].lifecycle = "active"}}

\* prior finds nothing, or, at the end, the unique key admits the record.
\* Keys are scoped by actor and operation alone.
KeyFree(actor, operation, key) ==
  ~ \E r \in idempotency : r.actor = actor /\ r.operation = operation /\ r.key = key

Remember(actor, operation, key, result) ==
  /\ KeyFree(actor, operation, key)
  /\ idempotency' = idempotency \cup
       {[actor |-> actor, operation |-> operation, key |-> key, result |-> result]}

\* Every change of evidence leaves a provenance event and an audit record.
Record(e, actor, change) ==
  events' = events \cup {[item |-> e, change |-> change, actor |-> actor]}

-----------------------------------------------------------------------------
(* Evidence. *)

\* submitEvidence; a controlled observation is submitted the same way.
Submit(actor, key, e) ==
  /\ PartyOf[actor] \in Submitters
  /\ item[e] = None
  /\ \E v \in Revisions :
       /\ revision[v] = None /\ ~Drawn("correct", v)
       /\ revision' = [revision EXCEPT ![v] =
            [item |-> e, number |-> 1, supersedes |-> None, account |-> actor]]
       /\ item' = [item EXCEPT ![e] =
            [current |-> v, lifecycle |-> "active", creator |-> actor, revision |-> 1]]
  /\ Record(e, actor, 1)
  /\ Remember(actor, "submit_evidence", key, e)
  /\ UNCHANGED <<sets, assessment, reviews, handler>>

Withdraw(actor, key, e, expected) ==
  /\ item[e] # None /\ item[e].creator = actor
  /\ item[e].revision = expected /\ item[e].lifecycle = "active"
  /\ item' = [item EXCEPT ![e].lifecycle = "withdrawn", ![e].revision = @ + 1]
  /\ Record(e, actor, expected + 1)
  /\ Remember(actor, "withdraw_evidence", key, e)
  /\ UNCHANGED <<revision, sets, assessment, reviews, handler>>

\* correctEvidence reads the item and builds the revision that follows it.
BuildCorrection(h, actor, key, e, expected) ==
  /\ Idle(h)
  /\ item[e] # None /\ item[e].creator = actor
  /\ \E v \in Revisions :
       /\ revision[v] = None /\ ~Drawn("correct", v)
       /\ Goes(h, [kind |-> "correct", phase |-> "built", actor |-> actor, key |-> key,
                   item |-> e, expected |-> expected, draws |-> v,
                   row |-> [item |-> e, number |-> revision[item[e].current].number + 1,
                            supersedes |-> item[e].current, account |-> actor],
                   seen |-> None])
  /\ UNCHANGED <<evidence, sets, assessment, reviews, idempotency>>

\* The transaction reads the key and the item, and compares what the client sent.
BeginCorrection(h) ==
  LET q == handler[h] IN
  /\ At(h, "correct", "built")
  /\ KeyFree(q.actor, "correct_evidence", q.key)
  /\ item[q.item].revision = q.expected /\ item[q.item].lifecycle = "active"
  /\ Goes(h, [q EXCEPT !.phase = "begun", !.seen = item[q.item]])
  /\ UNCHANGED <<evidence, sets, assessment, reviews, idempotency>>

\* Mutant of Admits: revisions of an item have no unique number or predecessor.
AdmitsAny(row) == TRUE
\* Mutant of StillSeen: the item is updated whatever became of it.
StillSeenAlways(q) == TRUE

\* The unique keys of evidence_revisions.
Admits(row) ==
  \A v \in Revisions : revision[v] # None =>
    /\ revision[v].item = row.item => revision[v].number # row.number
    /\ revision[v].supersedes # row.supersedes

\* The conditional update of the item.
StillSeen(q) ==
  item[q.item].revision = q.expected /\ item[q.item].current = q.seen.current

FinishCorrection(h) ==
  LET q == handler[h] IN
  /\ At(h, "correct", "begun")
  /\ Admits(q.row) /\ StillSeen(q)
  /\ revision' = [revision EXCEPT ![q.draws] = q.row]
  /\ item' = [item EXCEPT ![q.item].current = q.draws, ![q.item].revision = @ + 1]
  /\ Record(q.item, q.actor, item'[q.item].revision)
  /\ Remember(q.actor, "correct_evidence", q.key, q.item)
  /\ Goes(h, None)
  /\ UNCHANGED <<sets, assessment, reviews>>

-----------------------------------------------------------------------------
(* Assessments. *)

\* requestAssessment freezes the current evidence and runs the provider on it.
StartAssessment(h, actor, key, envelope) ==
  /\ Idle(h)
  /\ RoleOf[actor] \in {"owner", "participant"}
  /\ \E a \in Assessments :
       /\ assessment[a] = None /\ ~Drawn("assess", a)
       /\ Goes(h, [kind |-> "assess", phase |-> "running", actor |-> actor, key |-> key,
                   evidence |-> ActiveRevisions, envelope |-> envelope, draws |-> a,
                   stored |-> FALSE, before |-> item])
  /\ UNCHANGED <<evidence, sets, assessment, reviews, idempotency>>

\* Mutant of SameEvidence: only the number of revisions is compared.
SameNumber(q) == Cardinality(ActiveRevisions) = Cardinality(q.evidence)

SameEvidence(q) == ActiveRevisions = q.evidence

\* The provider answers; the evidence is listed again and the digests compared.
\* Different evidence is ASSESSMENT_CONTEXT_STALE, and the handler ends.
CheckAssessment(h) ==
  LET q == handler[h] IN
  /\ At(h, "assess", "running")
  /\ Goes(h, IF SameEvidence(q) THEN [q EXCEPT !.phase = "checked"] ELSE None)
  /\ UNCHANGED <<evidence, sets, assessment, reviews, idempotency>>

\* Mutant of SameEnvelope: with a null column neither query nor index finds it.
NeverSame(a, q) == FALSE

SameEnvelope(a, q) ==
  assessment[a] # None /\ assessment[a].evidence = q.evidence /\ assessment[a].envelope = q.envelope

\* saveAssessment: an equal assessment that is there is what the key will name.
CoalesceAssessment(h) ==
  LET q == handler[h] IN
  /\ At(h, "assess", "checked")
  /\ \E a \in Assessments :
       SameEnvelope(a, q) /\ Remember(q.actor, "request_assessment", q.key, a)
  /\ Goes(h, None)
  /\ UNCHANGED <<evidence, sets, assessment, reviews>>

BeginAssessment(h) ==
  LET q == handler[h] IN
  /\ At(h, "assess", "checked")
  /\ KeyFree(q.actor, "request_assessment", q.key)
  /\ \A a \in Assessments : ~SameEnvelope(a, q)
  /\ Goes(h, [q EXCEPT !.phase = "begun", !.stored = q.evidence \in sets])
  /\ UNCHANGED <<evidence, sets, assessment, reviews, idempotency>>

EnvelopeFree(q) == \A a \in Assessments : ~SameEnvelope(a, q)

\* A set that was stored since the transaction looked for it fails the insert.
FinishAssessment(h) ==
  LET q == handler[h] IN
  /\ At(h, "assess", "begun")
  /\ q.stored \/ q.evidence \notin sets
  /\ EnvelopeFree(q)
  /\ sets' = sets \cup {q.evidence}
  /\ assessment' = [assessment EXCEPT ![q.draws] =
       [evidence |-> q.evidence, envelope |-> q.envelope, active |-> ActiveRevisions]]
  /\ Remember(q.actor, "request_assessment", q.key, q.draws)
  /\ Goes(h, None)
  /\ UNCHANGED <<evidence, reviews>>

-----------------------------------------------------------------------------
(* Human reviews. *)

RequestReview(actor, key, w) ==
  /\ review[w] = None
  /\ review' = [review EXCEPT ![w] = [state |-> "open", assignee |-> None, revision |-> 1]]
  /\ Remember(actor, "request_human_review", key, w)
  /\ UNCHANGED <<evidence, sets, assessment, decisions, handler>>

\* One conditional update; no key.
AssignReview(actor, w, expected) ==
  /\ RoleOf[actor] = "reviewer"
  /\ review[w] # None /\ review[w].state = "open" /\ review[w].revision = expected
  /\ review' = [review EXCEPT ![w] =
       [state |-> "assigned", assignee |-> actor, revision |-> expected + 1]]
  /\ UNCHANGED <<evidence, sets, assessment, decisions, idempotency, handler>>

\* recordReviewerDecision looks for the reviewer's own evidence among the items'
\* current revisions.
ByReviewer(e, actor) ==
  LET row == revision[item[e].current] IN
  row.account = actor \/ PartyOf[row.account] = PartyOf[actor]

CheckDecision(h, actor, key, w, expected, cited) ==
  /\ Idle(h)
  /\ RoleOf[actor] = "reviewer"
  /\ review[w] # None /\ review[w].assignee = actor
  /\ \A e \in Items :
       item[e] # None /\ item[e].current \in cited => ~ByReviewer(e, actor)
  /\ Goes(h, [kind |-> "decide", phase |-> "checked", actor |-> actor, key |-> key,
              review |-> w, expected |-> expected, cited |-> cited])
  /\ UNCHANGED <<evidence, sets, assessment, reviews, idempotency>>

\* Mutant of Decidable: the review is completed whatever became of it.
DecidableAlways(q) == TRUE

\* The conditional update of the review.
Decidable(q) ==
  /\ review[q.review].revision = q.expected
  /\ review[q.review].assignee = q.actor /\ review[q.review].state = "assigned"

FinishDecision(h) ==
  LET q == handler[h] IN
  /\ At(h, "decide", "checked")
  /\ Decidable(q)
  /\ review' = [review EXCEPT ![q.review].state = "completed", ![q.review].revision = @ + 1]
  /\ decisions' = decisions \cup
       {[review |-> q.review, reviewer |-> q.actor, cited |-> q.cited]}
  /\ Remember(q.actor, "record_reviewer_decision", q.key, q.review)
  /\ Goes(h, None)
  /\ UNCHANGED <<evidence, sets, assessment>>

-----------------------------------------------------------------------------
\* A refused or failed call, a transaction rolled back, a process that stopped.
Abandon(h) ==
  /\ ~Idle(h)
  /\ Goes(h, None)
  /\ UNCHANGED <<evidence, sets, assessment, reviews, idempotency>>

Init ==
  /\ item = [e \in Items |-> None]
  /\ revision = [v \in Revisions |-> None]
  /\ assessment = [a \in Assessments |-> None]
  /\ review = [w \in Reviews |-> None]
  /\ events = {} /\ sets = {} /\ decisions = {} /\ idempotency = {}
  /\ handler = [h \in Handlers |-> None]

\* Clients may send any number as the revision they expect.
Expected == 1..Cardinality(Revisions)

Known == {v \in Revisions : revision[v] # None}

Call(actor, operation, key) ==
  \/ operation = "submit_evidence" /\ \E e \in Items : Submit(actor, key, e)
  \/ operation = "withdraw_evidence" /\ \E e \in Items, expected \in Expected :
       Withdraw(actor, key, e, expected)
  \/ operation = "correct_evidence" /\ \E h \in Handlers, e \in Items, expected \in Expected :
       BuildCorrection(h, actor, key, e, expected)
  \/ operation = "request_assessment" /\ \E h \in Handlers, envelope \in Envelopes :
       StartAssessment(h, actor, key, envelope)
  \/ operation = "request_human_review" /\ \E w \in Reviews : RequestReview(actor, key, w)
  \/ operation = "record_reviewer_decision"
     /\ \E h \in Handlers, w \in Reviews, expected \in {1, 2}, v \in Known :
          CheckDecision(h, actor, key, w, expected, {v})

Continue(h) ==
  \/ BeginCorrection(h) \/ FinishCorrection(h)
  \/ CheckAssessment(h) \/ CoalesceAssessment(h) \/ BeginAssessment(h) \/ FinishAssessment(h)
  \/ FinishDecision(h)
  \/ Abandon(h)

Next ==
  \/ \E actor \in Accounts, operation \in Operations :
       \E key \in KeysFor[operation] : Call(actor, operation, key)
  \/ \E actor \in Accounts, w \in Reviews : AssignReview(actor, w, 1)
  \/ \E h \in Handlers : Continue(h)

Spec == Init /\ [][Next]_vars

-----------------------------------------------------------------------------
(* Properties. *)

\* Tables and handlers keep their shapes.
TypeOK ==
  /\ item \in [Items -> ItemRow \cup {None}]
  /\ revision \in [Revisions -> RevisionRow \cup {None}]
  /\ events \subseteq EventRow
  /\ sets \subseteq SUBSET Revisions
  /\ assessment \in [Assessments -> AssessmentRow \cup {None}]
  /\ review \in [Reviews -> ReviewRow \cup {None}]
  /\ decisions \subseteq DecisionRow
  /\ idempotency \subseteq IdempotencyRow
  /\ handler \in [Handlers -> CorrectHandler \cup AssessHandler \cup DecideHandler \cup {None}]

RevisionsOf(e) == {v \in Known : revision[v].item = e}

\* The revisions of an item form one chain that ends in the current one, also
\* when corrections built on the same read, or on a guessed revision, race.
CorrectionsFormAChain ==
  \A e \in Items : item[e] # None =>
    /\ item[e].current \in RevisionsOf(e)
    /\ \A v \in RevisionsOf(e) :
         /\ revision[v].number <= revision[item[e].current].number
         /\ \A w \in RevisionsOf(e) : revision[v].number = revision[w].number => v = w
         /\ revision[v].number > 1 =>
              /\ revision[v].supersedes \in RevisionsOf(e)
              /\ revision[revision[v].supersedes].number = revision[v].number - 1

\* Withdrawn evidence is not corrected any more, not even by a correction that
\* began while it was active.
WithdrawnStaysWithdrawn ==
  [][\A e \in Items : item[e] # None /\ item[e].lifecycle = "withdrawn"
       => item'[e] = item[e]]_vars

\* When a provider's answer passes the check, every item it used is as it was
\* when the provider started: equal digests never mean that an item changed and
\* changed back.
UsedEvidenceStoodStill ==
  [][\A h \in Handlers : At(h, "assess", "running") /\ At(h, "assess", "checked")'
       => \A e \in Items :
            LET row == handler[h].before[e] IN
            row # None /\ row.lifecycle = "active" => item[e] = row]_vars

\* One assessment for each evaluation envelope, whichever requests run at once.
OneAssessmentPerEnvelope ==
  \A a, b \in Assessments :
    assessment[a] # None /\ assessment[b] # None
    /\ assessment[a].evidence = assessment[b].evidence
    /\ assessment[a].envelope = assessment[b].envelope => a = b

\* A review is decided once, by the reviewer it was assigned to.
DecidedOnce ==
  \A d \in decisions :
    /\ review[d.review].state = "completed" /\ review[d.review].assignee = d.reviewer
    /\ \A other \in decisions : other.review = d.review => other = d

\* sprint-6.3-technical-design.md:146: a late answer does not complete a stale
\* assessment.  What is recorded was current evidence when it was recorded.
RecordedOnCurrentEvidence ==
  \A a \in Assessments : assessment[a] # None =>
    assessment[a].evidence = assessment[a].active

\* evidence-workflow.test.ts:41: a reviewer cannot decide their own evidence.
ReviewersJudgeOthers ==
  \A d \in decisions, v \in Revisions :
    v \in d.cited => PartyOf[revision[v].account] # PartyOf[d.reviewer]

\* The revisions of an item, as AgreementHistory sees them: numbered entries, of
\* which all that the participants' properties tell apart is who wrote each.
History ==
  [e \in Items |->
    {[number |-> revision[v].number, version |-> v, content |-> revision[v].account] :
       v \in RevisionsOf(e)}]

Abstract == INSTANCE AgreementHistory
  WITH history <- History, Agreements <- Items, Versions <- Revisions, Contents <- Accounts

\* Evidence is a numbered, append-only history: whatever corrections race, one
\* adds the next entry, and nothing else changes an entry.
ImplementsHistory == Abstract!Spec
=============================================================================
