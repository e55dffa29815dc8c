--------------------------- MODULE EvidenceProofs ---------------------------
(***************************************************************************)
(* Theorems about EvidenceWorkflow, for any items, revisions, accounts and *)
(* keys, and for any number of handlers at work at once.                   *)
(*                                                                         *)
(* What the properties rest on is what a handler still knows of the rows   *)
(* it read: a correction, that its row follows a revision of its item; an  *)
(* assessment, that an item which shows the revision it showed at the      *)
(* freeze has not moved; and that an item only moves forward.  From this   *)
(* the revisions of an item are an AgreementHistory, shown at the end.     *)
(***************************************************************************)
EXTENDS EvidenceWorkflow, TLAPS

-----------------------------------------------------------------------------
(* The inductive invariant. *)

\* A correction's row follows a revision of its item, and an item that still has
\* the revision it expected is the item it saw.
CorrectionHeld(q) ==
  /\ item[q.item] # None
  /\ revision[q.draws] = None
  /\ q.row.item = q.item
  /\ q.row.supersedes \in RevisionsOf(q.item)
  /\ q.row.number = revision[q.row.supersedes].number + 1
  /\ q.phase = "begun" =>
       /\ q.seen # None /\ q.seen.lifecycle = "active" /\ q.seen.revision = q.expected
       /\ item[q.item].revision >= q.expected
       /\ item[q.item].revision = q.expected => item[q.item] = q.seen

ActiveAt(items, e) == items[e] # None /\ items[e].lifecycle = "active"

\* An assessment's set is what was active at its freeze, and an item that shows
\* the revision it showed then has not moved.
AssessmentHeld(q) ==
  /\ q.evidence = {q.before[e].current : e \in {e \in Items : ActiveAt(q.before, e)}}
  /\ \A e \in Items : q.before[e] # None =>
       /\ item[e] # None
       /\ q.before[e].current \in RevisionsOf(e)
       /\ item[e].current = q.before[e].current /\ item[e].lifecycle = "active"
            => item[e] = q.before[e]

Held(q) ==
  /\ q.kind = "correct" => CorrectionHeld(q)
  /\ q.kind = "assess" => AssessmentHeld(q)

HandlersHold == \A h \in Handlers : handler[h] # None => Held(handler[h])

\* Two corrections never draw the same revision.
Corrects(h) == handler[h] # None /\ handler[h].kind = "correct"
DrawsApart ==
  \A h, k \in Handlers :
    h # k /\ Corrects(h) /\ Corrects(k) => handler[h].draws # handler[k].draws

\* Revisions are of items that are there, and all but the current one are
\* superseded: a correction of an old read finds its predecessor taken.
RevisionsHold ==
  /\ \A v \in Known : item[revision[v].item] # None
  /\ \A e \in Items : item[e] # None =>
       \A v \in RevisionsOf(e) : v # item[e].current =>
         \E w \in RevisionsOf(e) : revision[w].supersedes = v

\* What is decided, or about to be, is there.
DecisionsHold ==
  /\ \A d \in decisions : review[d.review] # None
  /\ \A h \in Handlers : handler[h] # None /\ handler[h].kind = "decide" =>
       review[handler[h].review] # None

IInv ==
  /\ TypeOK
  /\ RevisionsHold
  /\ CorrectionsFormAChain
  /\ HandlersHold
  /\ DrawsApart
  /\ OneAssessmentPerEnvelope
  /\ DecisionsHold
  /\ DecidedOnce

-----------------------------------------------------------------------------
(* What a step may do to evidence, and what that leaves standing.          *)

\* An item that moves was active, and either is withdrawn or shows a revision
\* that was not there.
ItemsMoveOn ==
  \A e \in Items : item[e] # None =>
    \/ item'[e] = item[e]
    \/ /\ item'[e] # None
       /\ item[e].lifecycle = "active"
       /\ item'[e].revision = item[e].revision + 1
       /\ \/ item'[e].lifecycle = "withdrawn" /\ item'[e].current = item[e].current
          \/ revision[item'[e].current] = None

RevisionsStay == \A v \in Revisions : revision[v] # None => revision'[v] = revision[v]

LEMMA KindOfHandler ==
  ASSUME TypeOK, NEW h \in Handlers, handler[h] # None
  PROVE  /\ handler[h].kind \in {"correct", "assess", "decide"}
         /\ handler[h].kind = "correct" => handler[h] \in CorrectHandler
         /\ handler[h].kind = "assess" => handler[h] \in AssessHandler
         /\ handler[h].kind = "decide" => handler[h] \in DecideHandler
<1>1. handler[h] \in CorrectHandler \cup AssessHandler \cup DecideHandler
  BY DEF TypeOK
<1>2. ASSUME handler[h] \in CorrectHandler PROVE handler[h].kind = "correct"
  BY <1>2 DEF CorrectHandler
<1>3. ASSUME handler[h] \in AssessHandler PROVE handler[h].kind = "assess"
  BY <1>3 DEF AssessHandler
<1>4. ASSUME handler[h] \in DecideHandler PROVE handler[h].kind = "decide"
  BY <1>4 DEF DecideHandler
<1> QED BY <1>1, <1>2, <1>3, <1>4

\* A known revision keeps its item, so it stays among the revisions of it.
LEMMA RevisionsRemain ==
  ASSUME RevisionsStay, NEW e \in Items, NEW v \in RevisionsOf(e)
  PROVE  v \in RevisionsOf(e)' /\ revision'[v] = revision[v]
BY DEF RevisionsStay, RevisionsOf, Known

LEMMA CorrectionStays ==
  ASSUME TypeOK, TypeOK', ItemsMoveOn, RevisionsStay,
         NEW q \in CorrectHandler, CorrectionHeld(q), revision'[q.draws] = None
  PROVE  CorrectionHeld(q)'
<1>1. /\ q.item \in Items /\ q.draws \in Revisions /\ q.expected \in Nat
      /\ q.row.supersedes \in RevisionsOf(q.item)
  BY DEF CorrectHandler, CorrectionHeld
<1>2. item[q.item] # None /\ item[q.item].revision \in Nat
  BY <1>1 DEF CorrectionHeld, TypeOK, ItemRow
<1>3. /\ item'[q.item] # None
      /\ item'[q.item] = item[q.item] \/ item'[q.item].revision = item[q.item].revision + 1
  BY <1>1, <1>2 DEF ItemsMoveOn
<1>4. q.row.supersedes \in RevisionsOf(q.item)' /\ revision'[q.row.supersedes] = revision[q.row.supersedes]
  BY <1>1, RevisionsRemain
<1>5. ASSUME q.phase = "begun"
      PROVE  /\ item'[q.item].revision >= q.expected
             /\ item'[q.item].revision = q.expected => item'[q.item] = q.seen
  <2>1. /\ item[q.item].revision >= q.expected
        /\ item[q.item].revision = q.expected => item[q.item] = q.seen
    BY <1>5 DEF CorrectionHeld
  <2> QED BY <1>1, <1>2, <1>3, <2>1
<1> QED BY <1>3, <1>4, <1>5 DEF CorrectionHeld

LEMMA AssessmentStays ==
  ASSUME TypeOK, TypeOK', ItemsMoveOn, RevisionsStay,
         NEW q \in AssessHandler, AssessmentHeld(q)
  PROVE  AssessmentHeld(q)'
<1> SUFFICES ASSUME NEW e \in Items, q.before[e] # None
             PROVE  /\ item'[e] # None
                    /\ q.before[e].current \in RevisionsOf(e)'
                    /\ item'[e].current = q.before[e].current /\ item'[e].lifecycle = "active"
                         => item'[e] = q.before[e]
  BY DEF AssessmentHeld
<1>1. /\ item[e] # None
      /\ q.before[e].current \in RevisionsOf(e)
      /\ item[e].current = q.before[e].current /\ item[e].lifecycle = "active"
           => item[e] = q.before[e]
  BY DEF AssessmentHeld
<1>2. q.before[e].current \in RevisionsOf(e)'
  BY <1>1, RevisionsRemain
<1>3. revision[q.before[e].current] # None
  BY <1>1 DEF RevisionsOf, Known
<1>4. CASE item'[e] = item[e]
  BY <1>1, <1>2, <1>4
<1>5. CASE item'[e] # item[e]
  BY <1>1, <1>2, <1>3, <1>5 DEF ItemsMoveOn
<1> QED BY <1>4, <1>5

\* A step that moves evidence on, and does not write the revision that a
\* handler drew, takes nothing from what the handler holds.
LEMMA HeldStays ==
  ASSUME TypeOK, TypeOK', ItemsMoveOn, RevisionsStay, HandlersHold,
         NEW k \in Handlers, NEW r, r = handler[k], r # None,
         Corrects(k) => revision'[r.draws] = None
  PROVE  Held(r)'
<1>1. Held(r)
  BY DEF HandlersHold
<1>2. CASE r.kind = "correct"
  <2>1. r \in CorrectHandler
    BY <1>2, KindOfHandler
  <2>2. revision'[r.draws] = None
    BY <1>2 DEF Corrects
  <2> QED BY <1>1, <1>2, <2>1, <2>2, CorrectionStays DEF Held
<1>3. CASE r.kind = "assess"
  <2>1. r \in AssessHandler
    BY <1>3, KindOfHandler
  <2> QED BY <1>1, <1>3, <2>1, AssessmentStays DEF Held
<1>4. CASE r.kind # "correct" /\ r.kind # "assess"
  BY <1>4 DEF Held
<1> QED BY <1>2, <1>3, <1>4

LEMMA HandlersRest ==
  ASSUME TypeOK, TypeOK', ItemsMoveOn, RevisionsStay, HandlersHold, DrawsApart,
         UNCHANGED handler,
         \A k \in Handlers : Corrects(k) => revision'[handler[k].draws] = None
  PROVE  HandlersHold' /\ DrawsApart'
<1>1. ASSUME NEW k \in Handlers, NEW r, r = handler'[k], r # None
      PROVE  Held(r)'
  BY <1>1, HeldStays
<1>2. HandlersHold'
  BY <1>1 DEF HandlersHold
<1> QED BY <1>2 DEF DrawsApart, Corrects

\* One handler goes on, what the others hold stays.
LEMMA HandlersStay ==
  ASSUME TypeOK, TypeOK', ItemsMoveOn, RevisionsStay, HandlersHold, DrawsApart,
         NEW h \in Handlers, NEW q, Goes(h, q),
         q # None => Held(q)',
         q # None /\ q.kind = "correct" =>
           \A k \in Handlers \ {h} : Corrects(k) => handler[k].draws # q.draws,
         \A k \in Handlers \ {h} : Corrects(k) => revision'[handler[k].draws] = None
  PROVE  HandlersHold' /\ DrawsApart'
<1>1. handler'[h] = q /\ \A k \in Handlers \ {h} : handler'[k] = handler[k]
  BY DEF Goes, TypeOK
<1>2. ASSUME NEW k \in Handlers \ {h}, NEW r, r = handler[k], r # None
      PROVE  Held(r)'
  BY <1>2, HeldStays
<1>3. ASSUME NEW k \in Handlers, NEW r, r = handler'[k], r # None
      PROVE  Held(r)'
  BY <1>1, <1>2, <1>3
<1>4. HandlersHold'
  BY <1>3 DEF HandlersHold
<1>5. DrawsApart'
  <2> SUFFICES ASSUME NEW j \in Handlers, NEW k \in Handlers, j # k, Corrects(j)', Corrects(k)'
               PROVE  handler'[j].draws # handler'[k].draws
    BY DEF DrawsApart
  <2>1. CASE j = h
    BY <1>1, <2>1 DEF Corrects
  <2>2. CASE k = h
    BY <1>1, <2>2 DEF Corrects
  <2>3. CASE j # h /\ k # h
    BY <1>1, <2>3 DEF Corrects, DrawsApart
  <2> QED BY <2>1, <2>2, <2>3
<1> QED BY <1>4, <1>5

-----------------------------------------------------------------------------
(* Tables and handlers keep their shapes. *)

LEMMA RowsOfItems ==
  ASSUME NEW r \in ItemRow, NEW v \in Revisions
  PROVE  /\ r.revision + 1 \in Nat \ {0}
         /\ [r EXCEPT !.lifecycle = "withdrawn", !.revision = @ + 1] \in ItemRow
         /\ [r EXCEPT !.current = v, !.revision = @ + 1] \in ItemRow
<1>1. r.revision \in Nat \ {0}
  BY DEF ItemRow
<1>2. r.revision + 1 \in Nat \ {0}
  BY <1>1
<1>3. ASSUME NEW n \in Nat \ {0}
      PROVE  /\ [r EXCEPT !.lifecycle = "withdrawn", !.revision = n] \in ItemRow
             /\ [r EXCEPT !.current = v, !.revision = n] \in ItemRow
  BY DEF ItemRow
<1> QED BY <1>2, <1>3

LEMMA EvidenceTypes ==
  ASSUME TypeOK, CorrectionsFormAChain, NEW actor \in Accounts, NEW key \in Keys, NEW e \in Items
  PROVE  /\ Submit(actor, key, e) => TypeOK'
         /\ \A expected : Withdraw(actor, key, e, expected) => TypeOK'
         /\ \A h \in Handlers, expected \in Nat :
              BuildCorrection(h, actor, key, e, expected) => TypeOK'
<1>1. ASSUME Submit(actor, key, e) PROVE TypeOK'
  <2>1. PICK v \in Revisions :
          /\ revision' = [revision EXCEPT ![v] =
               [item |-> e, number |-> 1, supersedes |-> None, account |-> actor]]
          /\ item' = [item EXCEPT ![e] =
               [current |-> v, lifecycle |-> "active", creator |-> actor, revision |-> 1]]
    BY <1>1 DEF Submit
  <2>2. item' \in [Items -> ItemRow \cup {None}]
    BY <2>1 DEF TypeOK, ItemRow
  <2>3. revision' \in [Revisions -> RevisionRow \cup {None}]
    BY <2>1 DEF TypeOK, RevisionRow
  <2>4. events' \subseteq EventRow /\ idempotency' \subseteq IdempotencyRow
    BY <1>1 DEF Submit, Record, Remember, TypeOK, EventRow, IdempotencyRow, Operations
  <2> QED BY <1>1, <2>2, <2>3, <2>4 DEF Submit, TypeOK, reviews
<1>2. ASSUME NEW expected, Withdraw(actor, key, e, expected) PROVE TypeOK'
  <2>1. /\ item[e] \in ItemRow /\ expected = item[e].revision
        /\ item' = [item EXCEPT ![e] = [item[e] EXCEPT !.lifecycle = "withdrawn", !.revision = @ + 1]]
    BY <1>2 DEF Withdraw, TypeOK
  <2>2. [item[e] EXCEPT !.lifecycle = "withdrawn", !.revision = @ + 1] \in ItemRow
    BY <2>1, RowsOfItems DEF ItemRow
  <2>3. item' \in [Items -> ItemRow \cup {None}]
    BY <2>1, <2>2 DEF TypeOK
  <2>4. events' \subseteq EventRow /\ idempotency' \subseteq IdempotencyRow
    BY <1>2, <2>1 DEF Withdraw, Record, Remember, TypeOK, ItemRow, EventRow, IdempotencyRow, Operations
  <2> QED BY <1>2, <2>3, <2>4 DEF Withdraw, TypeOK, reviews
<1>3. ASSUME NEW h \in Handlers, NEW expected \in Nat,
             BuildCorrection(h, actor, key, e, expected)
      PROVE  TypeOK'
  <2>1. item[e] \in ItemRow
    BY <1>3 DEF BuildCorrection, TypeOK
  <2>2. PICK v \in Revisions :
          /\ revision[v] = None
          /\ Goes(h, [kind |-> "correct", phase |-> "built", actor |-> actor, key |-> key,
                   item |-> e, expected |-> expected, draws |-> v,
                   row |-> [item |-> e, number |-> revision[item[e].current].number + 1,
                            supersedes |-> item[e].current, account |-> actor],
                   seen |-> None])
    BY <1>3 DEF BuildCorrection
  <2>3. item[e].current \in Revisions
    BY <2>1 DEF ItemRow
  <2>4. revision[item[e].current] \in RevisionRow
    BY <1>3, <2>3 DEF TypeOK, CorrectionsFormAChain, RevisionsOf, Known, BuildCorrection
  <2>5. [item |-> e, number |-> revision[item[e].current].number + 1,
         supersedes |-> item[e].current, account |-> actor] \in RevisionRow
    BY <2>3, <2>4 DEF RevisionRow
  <2>6. handler' \in [Handlers -> CorrectHandler \cup AssessHandler \cup DecideHandler \cup {None}]
    BY <2>2, <2>5 DEF Goes, TypeOK, CorrectHandler
  <2> QED BY <1>3, <2>6 DEF BuildCorrection, TypeOK, evidence, reviews
<1> QED BY <1>1, <1>2, <1>3

LEMMA CorrectionTypes ==
  ASSUME TypeOK, HandlersHold, NEW h \in Handlers, NEW q, q = handler[h]
  PROVE  BeginCorrection(h) \/ FinishCorrection(h) => TypeOK'
<1>1. ASSUME At(h, "correct", "built") \/ At(h, "correct", "begun") PROVE q \in CorrectHandler
  BY <1>1, KindOfHandler DEF At
<1>2. ASSUME BeginCorrection(h) PROVE TypeOK'
  <2>1. q \in CorrectHandler
    BY <1>1, <1>2 DEF BeginCorrection
  <2>2. item[q.item] \in ItemRow \cup {None}
    BY <2>1 DEF TypeOK, CorrectHandler
  <2>3. [q EXCEPT !.phase = "begun", !.seen = item[q.item]] \in CorrectHandler
    BY <1>2, <2>1, <2>2 DEF CorrectHandler
  <2> QED BY <1>2, <2>3 DEF BeginCorrection, Goes, TypeOK, evidence, reviews
<1>3. ASSUME FinishCorrection(h) PROVE TypeOK'
  <2>1. q \in CorrectHandler
    BY <1>1, <1>3 DEF FinishCorrection
  <2>2. /\ q.item \in Items /\ q.draws \in Revisions /\ q.row \in RevisionRow
        /\ q.actor \in Accounts /\ q.key \in Keys
    BY <2>1 DEF CorrectHandler
  <2>3. revision' \in [Revisions -> RevisionRow \cup {None}]
    BY <1>3, <2>2 DEF FinishCorrection, TypeOK
  <2>4. item[q.item] \in ItemRow
    BY <1>3, <2>2 DEF FinishCorrection, At, HandlersHold, Held, CorrectionHeld, TypeOK
  <2>5. [item[q.item] EXCEPT !.current = q.draws, !.revision = @ + 1] \in ItemRow
    BY <2>2, <2>4, RowsOfItems
  <2>6. item' = [item EXCEPT ![q.item] = [item[q.item] EXCEPT !.current = q.draws, !.revision = @ + 1]]
    BY <1>3 DEF FinishCorrection
  <2>7. item' \in [Items -> ItemRow \cup {None}] /\ item'[q.item] \in ItemRow
    BY <2>2, <2>5, <2>6 DEF TypeOK
  <2>8. events' \subseteq EventRow
    <3>1. item'[q.item].revision \in Nat \ {0}
      BY <2>7 DEF ItemRow
    <3>2. events' = events \cup
            {[item |-> q.item, change |-> item'[q.item].revision, actor |-> q.actor]}
      BY <1>3 DEF FinishCorrection, Record
    <3> QED BY <2>2, <3>1, <3>2 DEF TypeOK, EventRow
  <2>9. idempotency' \subseteq IdempotencyRow
    BY <1>3, <2>2 DEF FinishCorrection, Remember, TypeOK, IdempotencyRow, Operations
  <2> QED BY <1>3, <2>3, <2>7, <2>8, <2>9 DEF FinishCorrection, Goes, TypeOK, reviews
<1> QED BY <1>2, <1>3

LEMMA ActiveAreRevisions ==
  ASSUME TypeOK PROVE ActiveRevisions \subseteq Revisions
BY DEF TypeOK, ActiveRevisions, ItemRow

LEMMA AssessmentTypes ==
  ASSUME TypeOK, NEW h \in Handlers, NEW q, q = handler[h]
  PROVE  /\ \A actor \in Accounts, key \in Keys, envelope \in Envelopes :
              StartAssessment(h, actor, key, envelope) => TypeOK'
         /\ CheckAssessment(h) => TypeOK'
         /\ CoalesceAssessment(h) => TypeOK'
         /\ BeginAssessment(h) => TypeOK'
         /\ FinishAssessment(h) => TypeOK'
<1> DEFINE Work == CorrectHandler \cup AssessHandler \cup DecideHandler \cup {None}
<1>1. ASSUME NEW r \in Work, Goes(h, r) PROVE handler' \in [Handlers -> Work]
  BY <1>1 DEF Goes, TypeOK
<1>2. ASSUME NEW p, At(h, "assess", p) PROVE q \in AssessHandler
  BY <1>2, KindOfHandler DEF At
<1>3. ASSUME NEW actor \in Accounts, NEW key \in Keys, NEW envelope \in Envelopes,
             StartAssessment(h, actor, key, envelope)
      PROVE  TypeOK'
  <2>1. PICK a \in Assessments :
          Goes(h, [kind |-> "assess", phase |-> "running", actor |-> actor, key |-> key,
                   evidence |-> ActiveRevisions, envelope |-> envelope, draws |-> a,
                   stored |-> FALSE, before |-> item])
    BY <1>3 DEF StartAssessment
  <2>2. [kind |-> "assess", phase |-> "running", actor |-> actor, key |-> key,
         evidence |-> ActiveRevisions, envelope |-> envelope, draws |-> a,
         stored |-> FALSE, before |-> item] \in AssessHandler
    BY ActiveAreRevisions DEF TypeOK, AssessHandler
  <2>3. handler' \in [Handlers -> Work]
    BY <1>1, <2>1, <2>2
  <2> QED BY <1>3, <2>3 DEF StartAssessment, TypeOK, evidence, reviews
<1>4. ASSUME CheckAssessment(h) PROVE TypeOK'
  <2>1. q \in AssessHandler
    BY <1>2, <1>4 DEF CheckAssessment
  <2>2. [q EXCEPT !.phase = "checked"] \in AssessHandler
    BY <2>1 DEF AssessHandler
  <2>3. handler' \in [Handlers -> Work]
    BY <1>1, <1>4, <2>2 DEF CheckAssessment
  <2> QED BY <1>4, <2>3 DEF CheckAssessment, TypeOK, evidence, reviews
<1>5. ASSUME CoalesceAssessment(h) PROVE TypeOK'
  <2>1. q.actor \in Accounts /\ q.key \in Keys
    BY <1>2, <1>5 DEF CoalesceAssessment, AssessHandler
  <2>2. idempotency' \subseteq IdempotencyRow
    BY <1>5, <2>1 DEF CoalesceAssessment, Remember, TypeOK, IdempotencyRow, Operations
  <2>3. handler' \in [Handlers -> Work]
    BY <1>1, <1>5 DEF CoalesceAssessment
  <2> QED BY <1>5, <2>2, <2>3 DEF CoalesceAssessment, TypeOK, evidence, reviews
<1>6. ASSUME BeginAssessment(h) PROVE TypeOK'
  <2>1. q \in AssessHandler
    BY <1>2, <1>6 DEF BeginAssessment
  <2>2. [q EXCEPT !.phase = "begun", !.stored = q.evidence \in sets] \in AssessHandler
    <3>1. ASSUME NEW b \in BOOLEAN
          PROVE  [q EXCEPT !.phase = "begun", !.stored = b] \in AssessHandler
      BY <2>1 DEF AssessHandler
    <3>2. (q.evidence \in sets) \in BOOLEAN
      OBVIOUS
    <3> HIDE DEF Work
    <3> QED BY <3>1, <3>2
  <2>3. handler' \in [Handlers -> Work]
    BY <1>1, <1>6, <2>2 DEF BeginAssessment
  <2> QED BY <1>6, <2>3 DEF BeginAssessment, TypeOK, evidence, reviews
<1>7. ASSUME FinishAssessment(h) PROVE TypeOK'
  <2>1. /\ q.actor \in Accounts /\ q.key \in Keys /\ q.evidence \in SUBSET Revisions
        /\ q.envelope \in Envelopes /\ q.draws \in Assessments
    BY <1>2, <1>7 DEF FinishAssessment, AssessHandler
  <2>2. idempotency' \subseteq IdempotencyRow
    BY <1>7, <2>1 DEF FinishAssessment, Remember, TypeOK, IdempotencyRow, Operations
  <2>3. handler' \in [Handlers -> Work]
    BY <1>1, <1>7 DEF FinishAssessment
  <2>4. assessment' \in [Assessments -> AssessmentRow \cup {None}]
    BY <1>7, <2>1, ActiveAreRevisions DEF FinishAssessment, TypeOK, AssessmentRow
  <2>5. sets' \subseteq SUBSET Revisions
    BY <1>7, <2>1 DEF FinishAssessment, TypeOK
  <2> QED BY <1>7, <2>2, <2>3, <2>4, <2>5 DEF FinishAssessment, TypeOK, evidence, reviews
<1> QED BY <1>3, <1>4, <1>5, <1>6, <1>7

LEMMA ReviewTypes ==
  ASSUME TypeOK, NEW actor \in Accounts, NEW key, NEW w \in Reviews
  PROVE  /\ key \in Keys /\ RequestReview(actor, key, w) => TypeOK'
         /\ AssignReview(actor, w, 1) => TypeOK'
<1>1. ASSUME key \in Keys, RequestReview(actor, key, w) PROVE TypeOK'
  <2>1. review' \in [Reviews -> ReviewRow \cup {None}]
    BY <1>1 DEF RequestReview, TypeOK, ReviewRow
  <2>2. idempotency' \subseteq IdempotencyRow
    BY <1>1 DEF RequestReview, Remember, TypeOK, IdempotencyRow, Operations
  <2> QED BY <1>1, <2>1, <2>2 DEF RequestReview, TypeOK, evidence
<1>2. ASSUME AssignReview(actor, w, 1) PROVE TypeOK'
  <2>1. review' \in [Reviews -> ReviewRow \cup {None}]
    BY <1>2 DEF AssignReview, TypeOK, ReviewRow
  <2> QED BY <1>2, <2>1 DEF AssignReview, TypeOK, evidence
<1> QED BY <1>1, <1>2

LEMMA RowsOfReviews ==
  ASSUME NEW r \in ReviewRow
  PROVE  [r EXCEPT !.state = "completed", !.revision = @ + 1] \in ReviewRow
<1>1. r.revision \in Nat \ {0}
  BY DEF ReviewRow
<1>2. r.revision + 1 \in Nat \ {0}
  BY <1>1
<1>3. ASSUME NEW n \in Nat \ {0}
      PROVE  [r EXCEPT !.state = "completed", !.revision = n] \in ReviewRow
  BY DEF ReviewRow
<1> QED BY <1>2, <1>3

LEMMA DecisionTypes ==
  ASSUME TypeOK, DecisionsHold, NEW h \in Handlers, NEW q, q = handler[h]
  PROVE  /\ \A actor \in Accounts, key \in Keys, w \in Reviews, expected \in {1, 2},
               v \in Known :
              CheckDecision(h, actor, key, w, expected, {v}) => TypeOK'
         /\ FinishDecision(h) => TypeOK'
         /\ Abandon(h) => TypeOK'
<1>1. ASSUME NEW actor \in Accounts, NEW key \in Keys, NEW w \in Reviews,
             NEW expected \in {1, 2}, NEW v \in Known,
             CheckDecision(h, actor, key, w, expected, {v})
      PROVE  TypeOK'
  <2>1. [kind |-> "decide", phase |-> "checked", actor |-> actor, key |-> key,
         review |-> w, expected |-> expected, cited |-> {v}] \in DecideHandler
    BY DEF DecideHandler, Known
  <2> QED BY <1>1, <2>1 DEF CheckDecision, Goes, TypeOK, evidence, reviews
<1>2. ASSUME FinishDecision(h) PROVE TypeOK'
  <2>1. /\ q.actor \in Accounts /\ q.key \in Keys /\ q.review \in Reviews
        /\ q.cited \in SUBSET Revisions
    BY <1>2, KindOfHandler DEF FinishDecision, At, DecideHandler
  <2>2. review[q.review] \in ReviewRow
    BY <1>2, <2>1 DEF FinishDecision, At, DecisionsHold, TypeOK
  <2>3. [review[q.review] EXCEPT !.state = "completed", !.revision = @ + 1] \in ReviewRow
    BY <2>2, RowsOfReviews
  <2>4. review' = [review EXCEPT ![q.review] =
                     [review[q.review] EXCEPT !.state = "completed", !.revision = @ + 1]]
    BY <1>2 DEF FinishDecision
  <2>5. review' \in [Reviews -> ReviewRow \cup {None}]
    BY <2>3, <2>4 DEF TypeOK
  <2>6. idempotency' \subseteq IdempotencyRow /\ decisions' \subseteq DecisionRow
    BY <1>2, <2>1
       DEF FinishDecision, Remember, TypeOK, IdempotencyRow, Operations, DecisionRow
  <2> QED BY <1>2, <2>5, <2>6 DEF FinishDecision, Goes, TypeOK, evidence
<1>3. ASSUME Abandon(h) PROVE TypeOK'
  BY <1>3 DEF Abandon, Goes, TypeOK, evidence, reviews
<1> QED BY <1>1, <1>2, <1>3

-----------------------------------------------------------------------------
(* Evidence moves on, and each item keeps its chain. *)

\* What a step that changes evidence establishes.
EvidenceKept == ItemsMoveOn /\ RevisionsStay /\ RevisionsHold' /\ CorrectionsFormAChain'

LEMMA EvidenceRests ==
  ASSUME IInv, UNCHANGED evidence
  PROVE  EvidenceKept
<1>1. item' = item /\ revision' = revision
  BY DEF evidence
<1>2. RevisionsHold'
  BY <1>1 DEF IInv, RevisionsHold, RevisionsOf, Known
<1>3. CorrectionsFormAChain'
  BY <1>1 DEF IInv, CorrectionsFormAChain, RevisionsOf, Known
<1> QED BY <1>1, <1>2, <1>3 DEF EvidenceKept, ItemsMoveOn, RevisionsStay

\* A new item: its first revision is its only one.
LEMMA SubmitKeeps ==
  ASSUME IInv, TypeOK', NEW actor \in Accounts, NEW key, NEW e \in Items,
         Submit(actor, key, e)
  PROVE  /\ EvidenceKept
         /\ \A k \in Handlers : Corrects(k) => revision'[handler[k].draws] = None
<1>1. PICK v \in Revisions :
        /\ revision[v] = None /\ ~Drawn("correct", v)
        /\ revision' = [revision EXCEPT ![v] =
             [item |-> e, number |-> 1, supersedes |-> None, account |-> actor]]
        /\ item' = [item EXCEPT ![e] =
             [current |-> v, lifecycle |-> "active", creator |-> actor, revision |-> 1]]
  BY DEF Submit
<1>2. TypeOK /\ item[e] = None
  BY DEF Submit, IInv
<1>3. /\ revision'[v] # None /\ revision'[v].item = e /\ revision'[v].number = 1
      /\ item'[e] # None /\ item'[e].current = v
  <2>1. revision'[v] \in RevisionRow
    BY <1>1, <1>2 DEF TypeOK, RevisionRow
  <2>2. item'[e] \in ItemRow
    BY <1>1, <1>2 DEF TypeOK, ItemRow
  <2> QED BY <1>1, <1>2, <2>1, <2>2, NoneAssumption DEF TypeOK
<1>4. /\ \A f \in Items \ {e} : item'[f] = item[f]
      /\ \A u \in Revisions \ {v} : revision'[u] = revision[u]
  BY <1>1, <1>2 DEF TypeOK
<1>5. RevisionsOf(e)' = {v}
  <2>1. \A u \in Known : revision[u].item # e
    BY <1>2 DEF IInv, RevisionsHold
  <2> QED BY <1>1, <1>3, <1>4, <2>1 DEF RevisionsOf, Known
<1>6. \A f \in Items \ {e} : RevisionsOf(f)' = RevisionsOf(f)
  BY <1>1, <1>3, <1>4 DEF RevisionsOf, Known
<1>7. ItemsMoveOn /\ RevisionsStay
  BY <1>1, <1>2, <1>4 DEF ItemsMoveOn, RevisionsStay
<1>8. RevisionsHold'
  <2>1. ASSUME NEW u \in Known' PROVE item'[revision'[u].item] # None
    <3>1. CASE u = v
      BY <1>3, <3>1
    <3>2. CASE u # v
      <4>1. u \in Known /\ revision'[u] = revision[u] /\ revision[u] \in RevisionRow
        BY <1>2, <1>4, <2>1, <3>2 DEF Known, TypeOK
      <4>2. revision[u].item \in Items /\ item[revision[u].item] # None
        BY <4>1 DEF RevisionRow, IInv, RevisionsHold
      <4> QED BY <1>3, <1>4, <4>1, <4>2
    <3> QED BY <3>1, <3>2
  <2>2. ASSUME NEW f \in Items, item'[f] # None, NEW u \in RevisionsOf(f)', u # item'[f].current
        PROVE  \E w \in RevisionsOf(f)' : revision'[w].supersedes = u
    <3>1. f # e
      BY <1>3, <1>5, <2>2
    <3>2. item'[f] = item[f] /\ RevisionsOf(f)' = RevisionsOf(f)
      BY <1>4, <1>6, <3>1
    <3>3. PICK w \in RevisionsOf(f) : revision[w].supersedes = u
      BY <2>2, <3>2 DEF IInv, RevisionsHold
    <3>4. revision'[w] = revision[w]
      BY <1>7, <3>3 DEF RevisionsStay, RevisionsOf, Known
    <3> QED BY <3>2, <3>3, <3>4
  <2> QED BY <2>1, <2>2 DEF RevisionsHold
<1>9. CorrectionsFormAChain'
  <2>1. ASSUME NEW f \in Items, item'[f] # None
        PROVE  /\ item'[f].current \in RevisionsOf(f)'
               /\ \A u \in RevisionsOf(f)' :
                    /\ revision'[u].number <= revision'[item'[f].current].number
                    /\ \A w \in RevisionsOf(f)' : revision'[u].number = revision'[w].number => u = w
                    /\ revision'[u].number > 1 =>
                         /\ revision'[u].supersedes \in RevisionsOf(f)'
                         /\ revision'[revision'[u].supersedes].number = revision'[u].number - 1
    <3>1. CASE f = e
      BY <1>3, <1>5, <3>1
    <3>2. CASE f # e
      <4>1. item'[f] = item[f] /\ RevisionsOf(f)' = RevisionsOf(f)
        BY <1>4, <1>6, <3>2
      <4>2. \A u \in RevisionsOf(f) : revision'[u] = revision[u]
        BY <1>7 DEF RevisionsStay, RevisionsOf, Known
      <4> QED BY <2>1, <4>1, <4>2 DEF IInv, CorrectionsFormAChain
    <3> QED BY <3>1, <3>2
  <2> QED BY <2>1 DEF CorrectionsFormAChain
<1>10. \A k \in Handlers : Corrects(k) => revision'[handler[k].draws] = None
  <2> SUFFICES ASSUME NEW k \in Handlers, Corrects(k) PROVE revision'[handler[k].draws] = None
    OBVIOUS
  <2>1. handler[k].draws # v
    BY <1>1 DEF Drawn, Corrects
  <2>2. CorrectionHeld(handler[k]) /\ handler[k].draws \in Revisions
    BY <1>2, KindOfHandler DEF IInv, HandlersHold, Held, Corrects, CorrectHandler
  <2> QED BY <1>4, <2>1, <2>2 DEF CorrectionHeld
<1> QED BY <1>7, <1>8, <1>9, <1>10 DEF EvidenceKept

LEMMA WithdrawKeeps ==
  ASSUME IInv, TypeOK', NEW actor, NEW key, NEW e \in Items, NEW expected,
         Withdraw(actor, key, e, expected)
  PROVE  EvidenceKept
<1>1. /\ TypeOK /\ item[e] # None /\ item[e].lifecycle = "active" /\ revision' = revision
      /\ item' = [item EXCEPT ![e].lifecycle = "withdrawn", ![e].revision = @ + 1]
  BY DEF Withdraw, IInv
<1>2. item[e] \in ItemRow
  BY <1>1 DEF TypeOK
<1>3. /\ item'[e] # None /\ item'[e].current = item[e].current
      /\ item'[e].lifecycle = "withdrawn" /\ item'[e].revision = item[e].revision + 1
  <2>1. item'[e] = [item[e] EXCEPT !.lifecycle = "withdrawn", !.revision = @ + 1]
    BY <1>1 DEF TypeOK
  <2>2. item'[e] \in ItemRow
    BY <1>2, <2>1, RowsOfItems DEF ItemRow
  <2> QED BY <1>2, <2>1, <2>2, NoneAssumption DEF ItemRow
<1>4. \A f \in Items \ {e} : item'[f] = item[f]
  BY <1>1 DEF TypeOK
<1>5. \A f \in Items : item'[f] # None <=> item[f] # None
  BY <1>1, <1>3, <1>4
<1>6. \A f \in Items : item[f] # None => item'[f].current = item[f].current
  BY <1>3, <1>4
<1>7. ItemsMoveOn /\ RevisionsStay
  BY <1>1, <1>3, <1>4 DEF ItemsMoveOn, RevisionsStay
<1>8. RevisionsHold'
  <2>1. \A u \in Known : revision[u].item \in Items
    BY <1>1 DEF Known, TypeOK, RevisionRow
  <2>2. \A u \in Known : item'[revision[u].item] # None
    BY <1>5, <2>1 DEF IInv, RevisionsHold
  <2>3. ASSUME NEW f \in Items, item'[f] # None, NEW u \in RevisionsOf(f), u # item'[f].current
        PROVE  \E w \in RevisionsOf(f) : revision[w].supersedes = u
    BY <1>5, <1>6, <2>3 DEF IInv, RevisionsHold
  <2> QED BY <1>1, <2>2, <2>3 DEF RevisionsHold, RevisionsOf, Known
<1>9. CorrectionsFormAChain'
  <2>1. ASSUME NEW f \in Items, item'[f] # None
        PROVE  /\ item'[f].current \in RevisionsOf(f)'
               /\ \A u \in RevisionsOf(f)' :
                    /\ revision'[u].number <= revision'[item'[f].current].number
                    /\ \A w \in RevisionsOf(f)' : revision'[u].number = revision'[w].number => u = w
                    /\ revision'[u].number > 1 =>
                         /\ revision'[u].supersedes \in RevisionsOf(f)'
                         /\ revision'[revision'[u].supersedes].number = revision'[u].number - 1
    <3>1. RevisionsOf(f)' = RevisionsOf(f) /\ revision' = revision
      BY <1>1 DEF RevisionsOf, Known
    <3>2. item[f] # None /\ item'[f].current = item[f].current
      BY <1>5, <1>6, <2>1
    <3> QED BY <3>1, <3>2 DEF IInv, CorrectionsFormAChain
  <2> QED BY <2>1 DEF CorrectionsFormAChain
<1> QED BY <1>7, <1>8, <1>9 DEF EvidenceKept

\* The unique keys refuse a row whose predecessor is superseded, so the row that
\* is admitted follows the current revision; and the item is still the one the
\* transaction read, which was active.
\* A correction that passes the unique keys follows the current revision, whatever
\* the service had read.
LEMMA FollowsCurrent ==
  ASSUME IInv, NEW h \in Handlers, FinishCorrection(h)
  PROVE  LET q == handler[h] IN
         /\ q \in CorrectHandler /\ q.phase = "begun" /\ CorrectionHeld(q)
         /\ q.item \in Items /\ item[q.item] # None
         /\ item[q.item].current \in RevisionsOf(q.item)
         /\ revision[item[q.item].current].number \in Nat
         /\ q.row.supersedes = item[q.item].current
         /\ q.row.number = revision[item[q.item].current].number + 1
<1> PICK q : q = handler[h]
  OBVIOUS
<1>1. TypeOK /\ q \in CorrectHandler /\ q.phase = "begun" /\ CorrectionHeld(q)
  BY KindOfHandler DEF FinishCorrection, At, IInv, HandlersHold, Held
<1>2. q.item \in Items /\ item[q.item] # None
  BY <1>1 DEF CorrectHandler, CorrectionHeld
<1>3. q.row.supersedes = item[q.item].current
  <2>1. q.row.supersedes \in RevisionsOf(q.item)
    BY <1>1 DEF CorrectionHeld
  <2>2. \A w \in Known : revision[w].supersedes # q.row.supersedes
    BY DEF FinishCorrection, Admits, Known
  <2> QED BY <1>2, <2>1, <2>2 DEF IInv, RevisionsHold, RevisionsOf
<1>4. item[q.item].current \in RevisionsOf(q.item)
  BY <1>2 DEF IInv, CorrectionsFormAChain
<1>5. revision[item[q.item].current] \in RevisionRow
  BY <1>1, <1>4 DEF RevisionsOf, Known, TypeOK
<1>6. revision[item[q.item].current].number \in Nat
  BY <1>5 DEF RevisionRow
<1>7. q.row.number = revision[item[q.item].current].number + 1
  BY <1>1, <1>3 DEF CorrectionHeld
<1> QED BY <1>1, <1>2, <1>3, <1>4, <1>6, <1>7

LEMMA CorrectionKeeps ==
  ASSUME IInv, TypeOK', NEW h \in Handlers, FinishCorrection(h)
  PROVE  /\ EvidenceKept
         /\ \A k \in Handlers \ {h} : Corrects(k) => revision'[handler[k].draws] = None
<1> PICK q : q = handler[h]
  OBVIOUS
<1> DEFINE e == q.item
           v == q.draws
<1>1. /\ TypeOK /\ q \in CorrectHandler /\ q.phase = "begun" /\ CorrectionHeld(q)
  BY KindOfHandler DEF FinishCorrection, At, IInv, HandlersHold, Held
<1>2. /\ e \in Items /\ v \in Revisions /\ q.row \in RevisionRow /\ item[e] \in ItemRow
  BY <1>1 DEF CorrectHandler, CorrectionHeld, TypeOK
<1>3. /\ item[e] = q.seen /\ item[e].lifecycle = "active"
      /\ revision[v] = None /\ q.row.item = e
  BY <1>1, <1>2 DEF CorrectionHeld, FinishCorrection, StillSeen
<1>4. /\ revision' = [revision EXCEPT ![v] = q.row]
      /\ item' = [item EXCEPT ![e].current = v, ![e].revision = @ + 1]
  BY DEF FinishCorrection
<1>5. /\ revision'[v] = q.row /\ q.row # None
      /\ \A u \in Revisions \ {v} : revision'[u] = revision[u]
  BY <1>1, <1>2, <1>4, NoneAssumption DEF TypeOK
<1>6. /\ item'[e] # None /\ item'[e].current = v
      /\ item'[e].revision = item[e].revision + 1
  <2>1. item'[e] = [item[e] EXCEPT !.current = v, !.revision = @ + 1]
    BY <1>1, <1>2, <1>4 DEF TypeOK
  <2>2. [item[e] EXCEPT !.current = v, !.revision = @ + 1] \in ItemRow
    BY <1>2, RowsOfItems
  <2>3. item'[e] \in ItemRow
    BY <2>1, <2>2
  <2> QED BY <1>2, <2>1, <2>3, NoneAssumption DEF ItemRow
<1>7. \A f \in Items \ {e} : item'[f] = item[f]
  BY <1>1, <1>4 DEF TypeOK
<1>8. RevisionsOf(e)' = RevisionsOf(e) \cup {v}
  BY <1>2, <1>3, <1>5 DEF RevisionsOf, Known
<1>9. \A f \in Items \ {e} : RevisionsOf(f)' = RevisionsOf(f)
  BY <1>2, <1>3, <1>5 DEF RevisionsOf, Known
<1>10. v \notin Known /\ \A f \in Items : v \notin RevisionsOf(f)
  BY <1>3 DEF Known, RevisionsOf
<1>11. q.row.supersedes = item[e].current
  BY FollowsCurrent
<1>12. q.row.number = revision[item[e].current].number + 1
  BY FollowsCurrent
<1>13. /\ item[e] # None /\ item[e].current \in RevisionsOf(e)
       /\ revision[item[e].current].number \in Nat
  BY FollowsCurrent
<1>14. ItemsMoveOn /\ RevisionsStay
  BY <1>3, <1>5, <1>6, <1>7 DEF ItemsMoveOn, RevisionsStay
<1>15. RevisionsHold'
  <2>1. ASSUME NEW u \in Known' PROVE item'[revision'[u].item] # None
    <3>1. CASE u = v
      BY <1>3, <1>5, <1>6, <3>1
    <3>2. CASE u # v
      <4>1. u \in Known /\ revision'[u] = revision[u] /\ revision[u] \in RevisionRow
        BY <1>1, <1>5, <2>1, <3>2 DEF Known, TypeOK
      <4>2. revision[u].item \in Items /\ item[revision[u].item] # None
        BY <4>1 DEF RevisionRow, IInv, RevisionsHold
      <4> QED BY <1>6, <1>7, <4>1, <4>2
    <3> QED BY <3>1, <3>2
  <2>2. ASSUME NEW f \in Items, item'[f] # None, NEW u \in RevisionsOf(f)', u # item'[f].current
        PROVE  \E w \in RevisionsOf(f)' : revision'[w].supersedes = u
    <3>1. CASE f = e /\ u = item[e].current
      BY <1>5, <1>8, <1>11, <3>1
    <3>2. CASE ~ (f = e /\ u = item[e].current)
      <4>1. item[f] # None /\ u \in RevisionsOf(f) /\ u # item[f].current
        BY <1>6, <1>7, <1>8, <1>9, <1>13, <2>2, <3>2
      <4>2. PICK w \in RevisionsOf(f) : revision[w].supersedes = u
        BY <4>1 DEF IInv, RevisionsHold
      <4>3. w \in RevisionsOf(f)' /\ revision'[w] = revision[w]
        BY <1>14, RevisionsRemain
      <4> QED BY <4>2, <4>3
    <3> QED BY <3>1, <3>2
  <2> QED BY <2>1, <2>2 DEF RevisionsHold
<1>16. CorrectionsFormAChain'
  <2>1. ASSUME NEW f \in Items, item'[f] # None
        PROVE  /\ item'[f].current \in RevisionsOf(f)'
               /\ \A u \in RevisionsOf(f)' :
                    /\ revision'[u].number <= revision'[item'[f].current].number
                    /\ \A w \in RevisionsOf(f)' : revision'[u].number = revision'[w].number => u = w
                    /\ revision'[u].number > 1 =>
                         /\ revision'[u].supersedes \in RevisionsOf(f)'
                         /\ revision'[revision'[u].supersedes].number = revision'[u].number - 1
    <3>1. \A u \in RevisionsOf(f) : revision'[u] = revision[u] /\ revision[u] \in RevisionRow
      BY <1>1, <1>14 DEF RevisionsStay, RevisionsOf, Known, TypeOK
    <3>2. \A u \in RevisionsOf(f) : revision[u].number \in Nat
      BY <3>1 DEF RevisionRow
    <3>3. CASE f = e
      <4>1. \A u \in RevisionsOf(e) :
              /\ revision[u].number <= revision[item[e].current].number
              /\ \A w \in RevisionsOf(e) : revision[u].number = revision[w].number => u = w
              /\ revision[u].number > 1 =>
                   /\ revision[u].supersedes \in RevisionsOf(e)
                   /\ revision[revision[u].supersedes].number = revision[u].number - 1
        BY <1>2, <1>13 DEF IInv, CorrectionsFormAChain
      <4>2. \A u \in RevisionsOf(e) :
              /\ revision'[u].number < revision'[v].number
              /\ revision'[u].number > 1 =>
                   /\ revision'[u].supersedes \in RevisionsOf(e)
                   /\ revision'[revision'[u].supersedes].number = revision'[u].number - 1
        BY <1>5, <1>12, <1>13, <3>1, <3>2, <3>3, <4>1
      <4>3. /\ revision'[v].supersedes \in RevisionsOf(e)
            /\ revision'[revision'[v].supersedes].number = revision'[v].number - 1
        BY <1>5, <1>11, <1>12, <1>13, <3>1, <3>3
      <4>4. revision'[v].number \in Nat
        BY <1>5, <1>12, <1>13
      <4>5. \A u \in RevisionsOf(e)' : u = v \/ u \in RevisionsOf(e)
        BY <1>8
      <4> QED BY <1>6, <1>8, <3>1, <3>2, <3>3, <4>1, <4>2, <4>3, <4>4, <4>5
    <3>4. CASE f # e
      <4>1. item'[f] = item[f] /\ RevisionsOf(f)' = RevisionsOf(f)
        BY <1>7, <1>9, <3>4
      <4> QED BY <2>1, <3>1, <4>1 DEF IInv, CorrectionsFormAChain
    <3> QED BY <3>3, <3>4
  <2> QED BY <2>1 DEF CorrectionsFormAChain
<1>17. ASSUME NEW k \in Handlers \ {h}, Corrects(k) PROVE revision'[handler[k].draws] = None
  <2>1. Corrects(h)
    BY DEF FinishCorrection, At, Corrects
  <2>2. handler[k].draws # v
    BY <1>17, <2>1 DEF IInv, DrawsApart
  <2>3. CorrectionHeld(handler[k]) /\ handler[k].draws \in Revisions
    BY <1>1, <1>17, KindOfHandler DEF IInv, HandlersHold, Held, Corrects, CorrectHandler
  <2> QED BY <1>5, <2>2, <2>3 DEF CorrectionHeld
<1> QED BY <1>14, <1>15, <1>16, <1>17 DEF EvidenceKept

-----------------------------------------------------------------------------
(* Every step keeps the invariant. *)

LEMMA DrawsAreFree ==
  ASSUME IInv, NEW k \in Handlers, Corrects(k)
  PROVE  revision[handler[k].draws] = None
BY KindOfHandler DEF IInv, HandlersHold, Held, Corrects, CorrectionHeld

\* A handler goes on without touching evidence.
LEMMA HandlerGoesOn ==
  ASSUME IInv, TypeOK', UNCHANGED evidence, NEW h \in Handlers, NEW q, Goes(h, q),
         q # None => Held(q)',
         q # None /\ q.kind = "correct" =>
           \A k \in Handlers \ {h} : Corrects(k) => handler[k].draws # q.draws
  PROVE  EvidenceKept /\ HandlersHold' /\ DrawsApart'
<1>1. EvidenceKept
  BY EvidenceRests
<1>2. \A k \in Handlers \ {h} : Corrects(k) => revision'[handler[k].draws] = None
  BY DrawsAreFree DEF evidence
<1> QED BY <1>1, <1>2, HandlersStay DEF EvidenceKept, IInv

LEMMA ReviewsRest ==
  ASSUME IInv, UNCHANGED reviews, NEW h \in Handlers, NEW q, Goes(h, q),
         q # None /\ q.kind = "decide" => review[q.review] # None
  PROVE  DecisionsHold' /\ DecidedOnce'
<1>1. handler'[h] = q /\ \A k \in Handlers \ {h} : handler'[k] = handler[k]
  BY DEF Goes, IInv, TypeOK
<1>2. review' = review /\ decisions' = decisions
  BY DEF reviews
<1> QED BY <1>1, <1>2 DEF IInv, DecisionsHold, DecidedOnce

LEMMA AssessmentsRest ==
  ASSUME OneAssessmentPerEnvelope, UNCHANGED assessment PROVE OneAssessmentPerEnvelope'
BY DEF OneAssessmentPerEnvelope

\* What each step establishes.
Kept == IInv' /\ ItemsMoveOn

LEMMA SubmitStep ==
  ASSUME IInv, NEW actor \in Accounts, NEW key \in Keys, NEW e \in Items,
         Submit(actor, key, e)
  PROVE  Kept
<1>1. TypeOK'
  BY EvidenceTypes DEF IInv
<1>2. EvidenceKept /\ \A k \in Handlers : Corrects(k) => revision'[handler[k].draws] = None
  BY <1>1, SubmitKeeps
<1>3. HandlersHold' /\ DrawsApart'
  BY <1>1, <1>2, HandlersRest DEF IInv, EvidenceKept, Submit
<1>4. OneAssessmentPerEnvelope' /\ DecisionsHold' /\ DecidedOnce'
  BY DEF IInv, Submit, reviews, OneAssessmentPerEnvelope, DecisionsHold, DecidedOnce
<1> QED BY <1>1, <1>2, <1>3, <1>4 DEF Kept, IInv, EvidenceKept

LEMMA WithdrawStep ==
  ASSUME IInv, NEW actor \in Accounts, NEW key \in Keys, NEW e \in Items, NEW expected,
         Withdraw(actor, key, e, expected)
  PROVE  Kept
<1>1. TypeOK'
  BY EvidenceTypes DEF IInv
<1>2. EvidenceKept
  BY <1>1, WithdrawKeeps
<1>3. \A k \in Handlers : Corrects(k) => revision'[handler[k].draws] = None
  BY DrawsAreFree DEF Withdraw
<1>4. HandlersHold' /\ DrawsApart'
  BY <1>1, <1>2, <1>3, HandlersRest DEF IInv, EvidenceKept, Withdraw
<1>5. OneAssessmentPerEnvelope' /\ DecisionsHold' /\ DecidedOnce'
  BY DEF IInv, Withdraw, reviews, OneAssessmentPerEnvelope, DecisionsHold, DecidedOnce
<1> QED BY <1>1, <1>2, <1>4, <1>5 DEF Kept, IInv, EvidenceKept

LEMMA BuildStep ==
  ASSUME IInv, NEW h \in Handlers, NEW actor \in Accounts, NEW key \in Keys,
         NEW e \in Items, NEW expected \in Nat,
         BuildCorrection(h, actor, key, e, expected)
  PROVE  Kept
<1>1. TypeOK'
  BY EvidenceTypes DEF IInv
<1>2. PICK v, q :
        /\ v \in Revisions /\ revision[v] = None /\ ~Drawn("correct", v)
        /\ q = [kind |-> "correct", phase |-> "built", actor |-> actor, key |-> key,
                item |-> e, expected |-> expected, draws |-> v,
                row |-> [item |-> e, number |-> revision[item[e].current].number + 1,
                         supersedes |-> item[e].current, account |-> actor],
                seen |-> None]
        /\ Goes(h, q)
  BY DEF BuildCorrection
<1>3. /\ UNCHANGED evidence /\ UNCHANGED assessment /\ UNCHANGED reviews
      /\ item' = item /\ revision' = revision /\ item[e] # None
  BY DEF BuildCorrection, evidence
<1>4. item[e].current \in RevisionsOf(e)
  BY <1>3 DEF IInv, CorrectionsFormAChain
<1>5. Held(q)'
  BY <1>2, <1>3, <1>4 DEF Held, CorrectionHeld, RevisionsOf, Known
<1>6. \A k \in Handlers \ {h} : Corrects(k) => handler[k].draws # q.draws
  BY <1>2 DEF Drawn, Corrects
<1>7. EvidenceKept /\ HandlersHold' /\ DrawsApart'
  BY <1>1, <1>2, <1>3, <1>5, <1>6, HandlerGoesOn
<1>8. DecisionsHold' /\ DecidedOnce'
  BY <1>2, <1>3, ReviewsRest
<1>9. OneAssessmentPerEnvelope'
  BY <1>3, AssessmentsRest DEF IInv
<1> QED BY <1>1, <1>7, <1>8, <1>9 DEF Kept, IInv, EvidenceKept

LEMMA BeginCorrectionStep ==
  ASSUME IInv, NEW h \in Handlers, BeginCorrection(h)
  PROVE  Kept
<1> PICK q, r : q = handler[h] /\ r = [q EXCEPT !.phase = "begun", !.seen = item[q.item]]
  OBVIOUS
<1>1. TypeOK'
  BY CorrectionTypes DEF IInv
<1>2. /\ UNCHANGED evidence /\ UNCHANGED assessment /\ UNCHANGED reviews
      /\ item' = item /\ revision' = revision /\ Goes(h, r)
      /\ item[q.item].revision = q.expected /\ item[q.item].lifecycle = "active"
  BY DEF BeginCorrection, evidence
<1>3. q \in CorrectHandler /\ CorrectionHeld(q)
  BY KindOfHandler DEF BeginCorrection, At, IInv, HandlersHold, Held
<1>4. /\ r.kind = "correct" /\ r.item = q.item /\ r.draws = q.draws /\ r.row = q.row
      /\ r.expected = q.expected /\ r.seen = item[q.item]
  BY <1>3 DEF CorrectHandler
<1>5. q.item \in Items /\ item[q.item] \in ItemRow
  BY <1>3 DEF CorrectHandler, CorrectionHeld, IInv, TypeOK
<1>6. Held(r)'
  <2>1. item[q.item].revision >= q.expected
    BY <1>2, <1>5 DEF ItemRow
  <2>2. CorrectionHeld(r)
    BY <1>2, <1>3, <1>4, <1>5, <2>1 DEF CorrectionHeld
  <2>3. CorrectionHeld(r)'
    BY <1>2, <2>2 DEF CorrectionHeld, RevisionsOf, Known
  <2> QED BY <1>4, <2>3 DEF Held
<1>7. \A k \in Handlers \ {h} : Corrects(k) => handler[k].draws # r.draws
  BY <1>4 DEF IInv, DrawsApart, BeginCorrection, At, Corrects
<1>8. EvidenceKept /\ HandlersHold' /\ DrawsApart'
  BY <1>1, <1>2, <1>6, <1>7, HandlerGoesOn
<1>9. DecisionsHold' /\ DecidedOnce'
  BY <1>2, <1>4, ReviewsRest
<1>10. OneAssessmentPerEnvelope'
  BY <1>2, AssessmentsRest DEF IInv
<1> QED BY <1>1, <1>8, <1>9, <1>10 DEF Kept, IInv, EvidenceKept

LEMMA FinishCorrectionStep ==
  ASSUME IInv, NEW h \in Handlers, FinishCorrection(h)
  PROVE  Kept
<1>1. TypeOK'
  BY CorrectionTypes DEF IInv
<1>2. /\ EvidenceKept
      /\ \A k \in Handlers \ {h} : Corrects(k) => revision'[handler[k].draws] = None
  BY <1>1, CorrectionKeeps
<1>3. Goes(h, None) /\ UNCHANGED assessment /\ UNCHANGED reviews
  BY DEF FinishCorrection
<1>4. HandlersHold' /\ DrawsApart'
  BY <1>1, <1>2, <1>3, HandlersStay DEF IInv, EvidenceKept
<1>5. DecisionsHold' /\ DecidedOnce'
  BY <1>3, ReviewsRest
<1>6. OneAssessmentPerEnvelope'
  BY <1>3, AssessmentsRest DEF IInv
<1> QED BY <1>1, <1>2, <1>4, <1>5, <1>6 DEF Kept, IInv, EvidenceKept

\* What a handler froze is what its item shows.
LEMMA StartStep ==
  ASSUME IInv, NEW h \in Handlers, NEW actor \in Accounts, NEW key \in Keys,
         NEW envelope \in Envelopes, StartAssessment(h, actor, key, envelope)
  PROVE  Kept
<1>1. TypeOK'
  BY AssessmentTypes DEF IInv
<1>2. PICK a, q :
        /\ a \in Assessments
        /\ q = [kind |-> "assess", phase |-> "running", actor |-> actor, key |-> key,
                evidence |-> ActiveRevisions, envelope |-> envelope, draws |-> a,
                stored |-> FALSE, before |-> item]
        /\ Goes(h, q)
  BY DEF StartAssessment
<1>3. /\ UNCHANGED evidence /\ UNCHANGED assessment /\ UNCHANGED reviews
      /\ item' = item /\ revision' = revision
  BY DEF StartAssessment, evidence
<1>4. AssessmentHeld(q)
  <2>1. q.evidence = ActiveRevisions /\ q.before = item
    BY <1>2
  <2>2. \A e \in Items : item[e] # None => item[e].current \in RevisionsOf(e)
    BY DEF IInv, CorrectionsFormAChain
  <2> QED BY <2>1, <2>2 DEF AssessmentHeld, ActiveRevisions, ActiveAt
<1>5. Held(q)'
  <2>1. AssessmentHeld(q)'
    BY <1>3, <1>4 DEF AssessmentHeld, RevisionsOf, Known
  <2> QED BY <1>2, <2>1 DEF Held
<1>6. EvidenceKept /\ HandlersHold' /\ DrawsApart'
  BY <1>1, <1>2, <1>3, <1>5, HandlerGoesOn
<1>7. DecisionsHold' /\ DecidedOnce'
  BY <1>2, <1>3, ReviewsRest
<1>8. OneAssessmentPerEnvelope'
  BY <1>3, AssessmentsRest DEF IInv
<1> QED BY <1>1, <1>6, <1>7, <1>8 DEF Kept, IInv, EvidenceKept

\* A handler at work on an assessment keeps what it froze, or ends.
LEMMA AssessmentGoesOn ==
  ASSUME IInv, TypeOK', UNCHANGED evidence, UNCHANGED reviews,
         NEW h \in Handlers, NEW p, At(h, "assess", p), NEW r, Goes(h, r),
         \/ r = None
         \/ r \in AssessHandler /\ r.evidence = handler[h].evidence
                                /\ r.before = handler[h].before
  PROVE  EvidenceKept /\ HandlersHold' /\ DrawsApart' /\ DecisionsHold' /\ DecidedOnce'
<1> PICK q : q = handler[h]
  OBVIOUS
<1>1. q \in AssessHandler /\ AssessmentHeld(q)
  BY KindOfHandler DEF At, IInv, HandlersHold, Held
<1>2. item' = item /\ revision' = revision
  BY DEF evidence
<1>3. r # None => r.kind = "assess" /\ AssessmentHeld(r)
  BY <1>1 DEF AssessmentHeld, AssessHandler
<1>4. r # None => AssessmentHeld(r)'
  BY <1>2, <1>3 DEF AssessmentHeld, RevisionsOf, Known
<1>5. EvidenceKept /\ HandlersHold' /\ DrawsApart'
  BY <1>3, <1>4, HandlerGoesOn DEF Held
<1>6. DecisionsHold' /\ DecidedOnce'
  BY <1>3, ReviewsRest
<1> QED BY <1>5, <1>6

LEMMA CheckAssessmentStep ==
  ASSUME IInv, NEW h \in Handlers, CheckAssessment(h)
  PROVE  Kept
<1> PICK q, r : q = handler[h] /\ r = IF SameEvidence(q) THEN [q EXCEPT !.phase = "checked"] ELSE None
  OBVIOUS
<1>1. TypeOK'
  BY AssessmentTypes DEF IInv
<1>2. /\ UNCHANGED evidence /\ UNCHANGED assessment /\ UNCHANGED reviews
      /\ At(h, "assess", "running") /\ Goes(h, r)
  BY DEF CheckAssessment
<1>3. q \in AssessHandler
  BY <1>2, KindOfHandler DEF At, IInv
<1>4. r = None \/ (r \in AssessHandler /\ r.evidence = q.evidence /\ r.before = q.before)
  <2>1. PICK c : c = [q EXCEPT !.phase = "checked"] /\ (r = None \/ r = c)
    OBVIOUS
  <2>2. c \in AssessHandler /\ c.evidence = q.evidence /\ c.before = q.before
    BY <1>3, <2>1 DEF AssessHandler
  <2> QED BY <2>1, <2>2
<1>5. EvidenceKept /\ HandlersHold' /\ DrawsApart' /\ DecisionsHold' /\ DecidedOnce'
  BY <1>1, <1>2, <1>4, AssessmentGoesOn
<1>6. OneAssessmentPerEnvelope'
  BY <1>2, AssessmentsRest DEF IInv
<1> QED BY <1>1, <1>5, <1>6 DEF Kept, IInv, EvidenceKept

LEMMA CoalesceStep ==
  ASSUME IInv, NEW h \in Handlers, CoalesceAssessment(h)
  PROVE  Kept
<1>1. TypeOK'
  BY AssessmentTypes DEF IInv
<1>2. /\ UNCHANGED evidence /\ UNCHANGED assessment /\ UNCHANGED reviews
      /\ At(h, "assess", "checked") /\ Goes(h, None)
  BY DEF CoalesceAssessment
<1>3. EvidenceKept /\ HandlersHold' /\ DrawsApart' /\ DecisionsHold' /\ DecidedOnce'
  BY <1>1, <1>2, AssessmentGoesOn
<1>4. OneAssessmentPerEnvelope'
  BY <1>2, AssessmentsRest DEF IInv
<1> QED BY <1>1, <1>3, <1>4 DEF Kept, IInv, EvidenceKept

LEMMA BeginAssessmentStep ==
  ASSUME IInv, NEW h \in Handlers, BeginAssessment(h)
  PROVE  Kept
<1> PICK q : q = handler[h]
  OBVIOUS
<1> PICK b : b = (q.evidence \in sets)
  OBVIOUS
<1> PICK r : r = [q EXCEPT !.phase = "begun", !.stored = b]
  OBVIOUS
<1>1. TypeOK'
  BY AssessmentTypes DEF IInv
<1>2. /\ UNCHANGED evidence /\ UNCHANGED assessment /\ UNCHANGED reviews
      /\ At(h, "assess", "checked") /\ Goes(h, r)
  BY DEF BeginAssessment
<1>3. q \in AssessHandler
  BY <1>2, KindOfHandler DEF At, IInv
<1>4. r \in AssessHandler /\ r.evidence = q.evidence /\ r.before = q.before
  <2>1. b \in BOOLEAN
    OBVIOUS
  <2> QED BY <1>3, <2>1 DEF AssessHandler
<1>5. EvidenceKept /\ HandlersHold' /\ DrawsApart' /\ DecisionsHold' /\ DecidedOnce'
  BY <1>1, <1>2, <1>4, AssessmentGoesOn
<1>6. OneAssessmentPerEnvelope'
  BY <1>2, AssessmentsRest DEF IInv
<1> QED BY <1>1, <1>5, <1>6 DEF Kept, IInv, EvidenceKept

LEMMA FinishAssessmentStep ==
  ASSUME IInv, NEW h \in Handlers, FinishAssessment(h)
  PROVE  Kept
<1> PICK q : q = handler[h]
  OBVIOUS
<1>1. TypeOK'
  BY AssessmentTypes DEF IInv
<1>2. /\ UNCHANGED evidence /\ UNCHANGED reviews
      /\ At(h, "assess", "begun") /\ Goes(h, None)
  BY DEF FinishAssessment
<1>3. EvidenceKept /\ HandlersHold' /\ DrawsApart' /\ DecisionsHold' /\ DecidedOnce'
  BY <1>1, <1>2, AssessmentGoesOn
<1>4. OneAssessmentPerEnvelope'
  <2>1. q \in AssessHandler
    BY <1>2, KindOfHandler DEF At, IInv
  <2>2. PICK row : /\ row = [evidence |-> q.evidence, envelope |-> q.envelope,
                             active |-> ActiveRevisions]
                   /\ assessment' = [assessment EXCEPT ![q.draws] = row]
    BY DEF FinishAssessment
  <2>3. /\ assessment'[q.draws] = row
        /\ \A a \in Assessments \ {q.draws} : assessment'[a] = assessment[a]
    BY <2>1, <2>2 DEF AssessHandler, IInv, TypeOK
  <2>4. \A a \in Assessments : ~SameEnvelope(a, q)
    BY DEF FinishAssessment, EnvelopeFree
  <2> QED BY <2>2, <2>3, <2>4 DEF OneAssessmentPerEnvelope, SameEnvelope, IInv
<1> QED BY <1>1, <1>3, <1>4 DEF Kept, IInv, EvidenceKept

\* A review that is requested is new, one that is assigned is not decided.
LEMMA ReviewStep ==
  ASSUME IInv, NEW actor \in Accounts, NEW key, NEW w \in Reviews,
         (key \in Keys /\ RequestReview(actor, key, w)) \/ AssignReview(actor, w, 1)
  PROVE  Kept
<1>1. TypeOK'
  BY ReviewTypes DEF IInv
<1>2. PICK row : row \in ReviewRow /\ review' = [review EXCEPT ![w] = row]
  <2>1. ASSUME RequestReview(actor, key, w)
        PROVE  \E row \in ReviewRow : review' = [review EXCEPT ![w] = row]
    <3>1. [state |-> "open", assignee |-> None, revision |-> 1] \in ReviewRow
      BY DEF ReviewRow
    <3> QED BY <2>1, <3>1 DEF RequestReview
  <2>2. ASSUME AssignReview(actor, w, 1)
        PROVE  \E row \in ReviewRow : review' = [review EXCEPT ![w] = row]
    <3>1. [state |-> "assigned", assignee |-> actor, revision |-> 1 + 1] \in ReviewRow
      BY DEF ReviewRow
    <3> QED BY <2>2, <3>1 DEF AssignReview
  <2> QED BY <2>1, <2>2
<1>3. /\ UNCHANGED evidence /\ decisions' = decisions /\ handler' = handler
      /\ UNCHANGED assessment /\ revision' = revision
  BY DEF RequestReview, AssignReview, evidence
<1>4. EvidenceKept
  BY <1>3, EvidenceRests
<1>5. HandlersHold' /\ DrawsApart'
  BY <1>1, <1>3, <1>4, DrawsAreFree, HandlersRest DEF IInv, EvidenceKept
<1>6. /\ review'[w] # None
      /\ \A u \in Reviews \ {w} : review'[u] = review[u]
  BY <1>2, NoneAssumption DEF IInv, TypeOK
<1>7. \A d \in decisions : d.review \in Reviews /\ d.review # w
  <2> SUFFICES ASSUME NEW d \in decisions PROVE d.review \in Reviews /\ d.review # w
    OBVIOUS
  <2>1. d.review \in Reviews /\ review[d.review] # None /\ review[d.review].state = "completed"
    BY DEF IInv, TypeOK, DecisionRow, DecisionsHold, DecidedOnce
  <2> QED BY <2>1 DEF RequestReview, AssignReview
<1>8. DecisionsHold'
  <2>1. ASSUME NEW k \in Handlers, handler[k] # None, handler[k].kind = "decide"
        PROVE  review'[handler[k].review] # None
    <3>1. handler[k].review \in Reviews /\ review[handler[k].review] # None
      BY <2>1, KindOfHandler DEF IInv, DecisionsHold, DecideHandler
    <3> QED BY <1>6, <3>1
  <2> QED BY <1>3, <1>6, <1>7, <2>1 DEF IInv, DecisionsHold
<1>9. DecidedOnce'
  BY <1>3, <1>6, <1>7 DEF IInv, DecidedOnce
<1>10. OneAssessmentPerEnvelope'
  BY <1>3, AssessmentsRest DEF IInv
<1> QED BY <1>1, <1>4, <1>5, <1>8, <1>9, <1>10 DEF Kept, IInv, EvidenceKept

LEMMA CheckDecisionStep ==
  ASSUME IInv, NEW h \in Handlers, NEW actor \in Accounts, NEW key \in Keys,
         NEW w \in Reviews, NEW expected \in {1, 2}, NEW v \in Known,
         CheckDecision(h, actor, key, w, expected, {v})
  PROVE  Kept
<1>1. TypeOK'
  BY DecisionTypes DEF IInv
<1>2. PICK q : /\ q = [kind |-> "decide", phase |-> "checked", actor |-> actor, key |-> key,
                       review |-> w, expected |-> expected, cited |-> {v}]
               /\ Goes(h, q)
  BY DEF CheckDecision
<1>3. /\ UNCHANGED evidence /\ UNCHANGED assessment /\ UNCHANGED reviews
      /\ review[w] # None
  BY DEF CheckDecision
<1>4. q.kind = "decide" /\ q.review = w
  BY <1>2
<1>5. Held(q)'
  BY <1>4 DEF Held
<1>6. EvidenceKept /\ HandlersHold' /\ DrawsApart'
  BY <1>1, <1>2, <1>3, <1>4, <1>5, HandlerGoesOn
<1>7. DecisionsHold' /\ DecidedOnce'
  BY <1>2, <1>3, <1>4, ReviewsRest
<1>8. OneAssessmentPerEnvelope'
  BY <1>3, AssessmentsRest DEF IInv
<1> QED BY <1>1, <1>6, <1>7, <1>8 DEF Kept, IInv, EvidenceKept

\* A review that is completed was assigned, so nothing had decided it.
LEMMA FinishDecisionStep ==
  ASSUME IInv, NEW h \in Handlers, FinishDecision(h)
  PROVE  Kept
<1> PICK q : q = handler[h]
  OBVIOUS
<1>1. TypeOK'
  BY DecisionTypes DEF IInv
<1>2. /\ UNCHANGED evidence /\ UNCHANGED assessment /\ Goes(h, None)
      /\ At(h, "decide", "checked")
  BY DEF FinishDecision
<1>3. EvidenceKept /\ HandlersHold' /\ DrawsApart'
  BY <1>1, <1>2, HandlerGoesOn
<1>4. q.review \in Reviews /\ review[q.review] \in ReviewRow
  BY <1>2, KindOfHandler DEF At, IInv, TypeOK, DecisionsHold, DecideHandler
<1>5. PICK d : /\ d = [review |-> q.review, reviewer |-> q.actor, cited |-> q.cited]
               /\ decisions' = decisions \cup {d}
  BY DEF FinishDecision
<1>6. /\ review'[q.review] # None /\ review'[q.review].state = "completed"
      /\ review'[q.review].assignee = review[q.review].assignee
      /\ \A u \in Reviews \ {q.review} : review'[u] = review[u]
  <2>1. review'[q.review] = [review[q.review] EXCEPT !.state = "completed", !.revision = @ + 1]
    BY <1>4 DEF FinishDecision, IInv, TypeOK
  <2>2. review'[q.review].state = "completed" /\ review[q.review].state = "assigned"
    BY <1>4, <2>1 DEF ReviewRow, FinishDecision, Decidable
  <2>3. review'[q.review] # None
    BY <1>4, <2>1, RowsOfReviews, NoneAssumption
  <2> QED BY <1>4, <2>1, <2>2, <2>3 DEF FinishDecision, IInv, TypeOK, ReviewRow
<1>7. review[q.review].assignee = q.actor /\ review[q.review].state = "assigned"
  BY DEF FinishDecision, Decidable
<1>8. \A c \in decisions : c.review \in Reviews /\ c.review # q.review
  BY <1>7 DEF IInv, TypeOK, DecisionRow, DecidedOnce
<1>9. d.review = q.review /\ d.reviewer = q.actor
  BY <1>5
<1>10. DecisionsHold'
  <2>1. handler'[h] = None /\ \A k \in Handlers \ {h} : handler'[k] = handler[k]
    BY <1>2 DEF Goes, IInv, TypeOK
  <2>2. ASSUME NEW k \in Handlers, handler[k] # None, handler[k].kind = "decide"
        PROVE  review'[handler[k].review] # None
    <3>1. handler[k].review \in Reviews /\ review[handler[k].review] # None
      BY <2>2, KindOfHandler DEF IInv, DecisionsHold, DecideHandler
    <3> QED BY <1>6, <3>1
  <2> QED BY <1>5, <1>6, <1>8, <1>9, <2>1, <2>2 DEF IInv, DecisionsHold
<1>11. DecidedOnce'
  BY <1>5, <1>6, <1>7, <1>8, <1>9 DEF IInv, DecidedOnce
<1>12. OneAssessmentPerEnvelope'
  BY <1>2, AssessmentsRest DEF IInv
<1> QED BY <1>1, <1>3, <1>10, <1>11, <1>12 DEF Kept, IInv, EvidenceKept

LEMMA AbandonStep ==
  ASSUME IInv, NEW h \in Handlers, Abandon(h)
  PROVE  Kept
<1>1. TypeOK'
  BY DecisionTypes DEF IInv
<1>2. /\ UNCHANGED evidence /\ UNCHANGED assessment /\ UNCHANGED reviews /\ Goes(h, None)
  BY DEF Abandon
<1>3. EvidenceKept /\ HandlersHold' /\ DrawsApart'
  BY <1>1, <1>2, HandlerGoesOn
<1>4. DecisionsHold' /\ DecidedOnce'
  BY <1>2, ReviewsRest
<1>5. OneAssessmentPerEnvelope'
  BY <1>2, AssessmentsRest DEF IInv
<1> QED BY <1>1, <1>3, <1>4, <1>5 DEF Kept, IInv, EvidenceKept

LEMMA StutterStep == ASSUME IInv, UNCHANGED vars PROVE Kept
<1>1. EvidenceKept
  BY EvidenceRests DEF vars
<1>2. TypeOK' /\ OneAssessmentPerEnvelope' /\ DecisionsHold' /\ DecidedOnce'
  BY DEF vars, evidence, reviews, IInv, TypeOK, OneAssessmentPerEnvelope, DecisionsHold, DecidedOnce
<1>3. HandlersHold' /\ DrawsApart'
  BY <1>1, <1>2, DrawsAreFree, HandlersRest DEF IInv, EvidenceKept, vars, evidence
<1> QED BY <1>1, <1>2, <1>3 DEF Kept, IInv, EvidenceKept

LEMMA StepInv == ASSUME IInv, [Next]_vars PROVE Kept
<1>1. ASSUME NEW actor \in Accounts, NEW operation \in Operations,
             NEW key \in KeysFor[operation], Call(actor, operation, key)
      PROVE  Kept
  <2>1. key \in Keys
    BY <1>1 DEF Keys
  <2>2. Expected \subseteq Nat
    BY DEF Expected
  <2> QED BY <1>1, <2>1, <2>2, SubmitStep, WithdrawStep, BuildStep, StartStep, ReviewStep,
             CheckDecisionStep DEF Call
<1>2. ASSUME NEW actor \in Accounts, NEW w \in Reviews, AssignReview(actor, w, 1) PROVE Kept
  BY <1>2, ReviewStep
<1>3. ASSUME NEW h \in Handlers, Continue(h) PROVE Kept
  BY <1>3, BeginCorrectionStep, FinishCorrectionStep, CheckAssessmentStep, CoalesceStep,
     BeginAssessmentStep, FinishAssessmentStep, FinishDecisionStep, AbandonStep DEF Continue
<1> QED BY <1>1, <1>2, <1>3, StutterStep DEF Next

LEMMA InitInv == ASSUME Init PROVE IInv
<1>1. \A h \in Handlers : handler[h] = None
  BY DEF Init
<1>2. \A e \in Items : item[e] = None
  BY DEF Init
<1>3. Known = {}
  BY DEF Init, Known
<1>4. TypeOK
  BY DEF Init, TypeOK
<1>5. RevisionsHold /\ CorrectionsFormAChain
  BY <1>2, <1>3 DEF RevisionsHold, CorrectionsFormAChain
<1>6. HandlersHold /\ DrawsApart
  BY <1>1 DEF HandlersHold, DrawsApart, Corrects
<1>7. OneAssessmentPerEnvelope /\ DecisionsHold /\ DecidedOnce
  BY <1>1 DEF Init, OneAssessmentPerEnvelope, DecisionsHold, DecidedOnce
<1> QED BY <1>4, <1>5, <1>6, <1>7 DEF IInv

-----------------------------------------------------------------------------
(* The theorems. *)

THEOREM Invariance == Spec => []IInv
<1>1. Init => IInv
  BY InitInv
<1>2. IInv /\ [Next]_vars => IInv'
  BY StepInv DEF Kept
<1> QED BY <1>1, <1>2, PTL DEF Spec

\* Tables and handlers keep their shapes (evidence/types.ts, schema.prisma).
THEOREM TypeCorrect == Spec => []TypeOK
BY Invariance, PTL DEF IInv

\* However corrections of an item race (prisma-repository.ts, correctEvidence),
\* its revisions are one chain that ends in the current one.
THEOREM ChainSafe == Spec => []CorrectionsFormAChain
BY Invariance, PTL DEF IInv

\* saveAssessment stores one assessment for each envelope, whichever requests
\* run at once.
THEOREM AssessmentSafe == Spec => []OneAssessmentPerEnvelope
BY Invariance, PTL DEF IInv

\* recordReviewerDecision completes a review once, for its assignee.
THEOREM DecisionSafe == Spec => []DecidedOnce
BY Invariance, PTL DEF IInv

\* Withdrawn evidence stays as it is, whatever correction began before.
THEOREM WithdrawalSafe == Spec => WithdrawnStaysWithdrawn
<1>1. IInv /\ [Next]_vars =>
        [\A e \in Items : item[e] # None /\ item[e].lifecycle = "withdrawn"
           => item'[e] = item[e]]_vars
  BY StepInv DEF Kept, ItemsMoveOn
<1> QED BY <1>1, Invariance, PTL DEF Spec, WithdrawnStaysWithdrawn

\* Only a check of the same digest takes a running assessment to a checked one.
LEMMA OnlyTheCheck ==
  ASSUME IInv, Next, NEW h \in Handlers, At(h, "assess", "running"), At(h, "assess", "checked")'
  PROVE  CheckAssessment(h) /\ SameEvidence(handler[h])
<1>1. ASSUME NEW k \in Handlers, NEW r, Goes(k, r)
      PROVE  /\ k # h => handler'[h] = handler[h]
             /\ k = h => handler'[h] = r
  BY <1>1 DEF Goes, IInv, TypeOK
<1>2. handler'[h] # handler[h] /\ handler'[h] # None /\ ~Idle(h)
  BY DEF At, Idle
<1>3. ASSUME NEW actor \in Accounts, NEW operation \in Operations,
             NEW key \in KeysFor[operation], Call(actor, operation, key)
      PROVE  FALSE
  <2>1. handler' = handler \/ \E k \in Handlers : Idle(k) /\ \E r : Goes(k, r)
    BY <1>3 DEF Call, Submit, Withdraw, BuildCorrection, StartAssessment, RequestReview,
                CheckDecision
  <2> QED BY <1>1, <1>2, <2>1
<1>4. ASSUME NEW actor \in Accounts, NEW w \in Reviews, AssignReview(actor, w, 1) PROVE FALSE
  BY <1>2, <1>4 DEF AssignReview
<1>5. ASSUME NEW k \in Handlers, Continue(k) PROVE k = h /\ CheckAssessment(h)
  <2>1. \E r : Goes(k, r)
    BY <1>5 DEF Continue, BeginCorrection, FinishCorrection, CheckAssessment,
                CoalesceAssessment, BeginAssessment, FinishAssessment, FinishDecision, Abandon
  <2>2. k = h
    BY <1>1, <1>2, <2>1
  <2>3. ~BeginCorrection(h) /\ ~FinishCorrection(h) /\ ~FinishDecision(h)
    BY DEF BeginCorrection, FinishCorrection, FinishDecision, At
  <2>4. ~CoalesceAssessment(h) /\ ~BeginAssessment(h) /\ ~FinishAssessment(h)
    BY DEF CoalesceAssessment, BeginAssessment, FinishAssessment, At
  <2>5. ~Abandon(h)
    BY <1>1, <1>2 DEF Abandon
  <2> QED BY <1>5, <2>2, <2>3, <2>4, <2>5 DEF Continue
<1>6. CheckAssessment(h)
  BY <1>3, <1>4, <1>5 DEF Next
<1>7. SameEvidence(handler[h])
  <2>1. ASSUME ~SameEvidence(handler[h]) PROVE Goes(h, None)
    BY <1>6, <2>1 DEF CheckAssessment
  <2> QED BY <1>1, <1>2, <2>1
<1> QED BY <1>6, <1>7

\* Equal digests mean that every item stood still: a revision is of one item,
\* and an item that is current with the same revision has not moved.
LEMMA SameEvidenceStoodStill ==
  ASSUME IInv, NEW h \in Handlers, At(h, "assess", "running"), SameEvidence(handler[h]),
         NEW e \in Items, handler[h].before[e] # None,
         handler[h].before[e].lifecycle = "active"
  PROVE  item[e] = handler[h].before[e]
<1> PICK q : q = handler[h]
  OBVIOUS
<1>1. AssessmentHeld(q)
  BY DEF At, IInv, HandlersHold, Held
<1>2. q.before[e].current \in ActiveRevisions
  BY <1>1 DEF AssessmentHeld, ActiveAt, SameEvidence
<1>3. PICK f \in Items : /\ item[f] # None /\ item[f].lifecycle = "active"
                         /\ item[f].current = q.before[e].current
  BY <1>2 DEF ActiveRevisions
<1>4. item[f].current \in RevisionsOf(f) /\ q.before[e].current \in RevisionsOf(e)
  BY <1>1, <1>3 DEF AssessmentHeld, IInv, CorrectionsFormAChain
<1>5. f = e
  BY <1>3, <1>4 DEF RevisionsOf
<1> QED BY <1>1, <1>3, <1>5 DEF AssessmentHeld

\* An assessment that passes the check (service.ts, requestAssessment) was of
\* evidence that stood still while the provider worked.
THEOREM StillnessSafe == Spec => UsedEvidenceStoodStill
<1>1. IInv /\ [Next]_vars =>
        [\A h \in Handlers : At(h, "assess", "running") /\ At(h, "assess", "checked")'
           => \A e \in Items :
                LET row == handler[h].before[e] IN
                row # None /\ row.lifecycle = "active" => item[e] = row]_vars
  BY OnlyTheCheck, SameEvidenceStoodStill
<1> QED BY <1>1, Invariance, PTL DEF Spec, UsedEvidenceStoodStill

-----------------------------------------------------------------------------
(* Refinement: the revisions of an item are a numbered, append-only history.  *)

EntryOf(v) == Abstract!Entry(revision[v].number, v, revision[v].account)

\* A row is inserted under an id that no row has.
Inserts(v, row) ==
  /\ v \in Revisions /\ revision[v] = None
  /\ row \in RevisionRow
  /\ revision' = [revision EXCEPT ![v] = row]

LEMMA HistoryOf ==
  ASSUME NEW e \in Items
  PROVE  /\ History[e] = {EntryOf(v) : v \in RevisionsOf(e)}
         /\ History'[e] = {EntryOf(v)' : v \in RevisionsOf(e)'}
BY DEF History, EntryOf, Abstract!Entry

\* An insert adds one entry to one history.
LEMMA InsertedHistory ==
  ASSUME TypeOK, NEW v, NEW row, Inserts(v, row)
  PROVE  History' = [History EXCEPT ![row.item] =
                       @ \cup {Abstract!Entry(row.number, v, row.account)}]
<1> PICK f \in Items : f = row.item
  BY DEF Inserts, RevisionRow
<1> DEFINE entry == Abstract!Entry(row.number, v, row.account)
<1>1. /\ revision'[v] = row /\ row # None
      /\ \A u \in Revisions \ {v} : revision'[u] = revision[u]
  BY NoneAssumption DEF Inserts, TypeOK
<1>2. EntryOf(v)' = entry
  BY <1>1 DEF EntryOf
<1>3. \A e \in Items : \A u \in RevisionsOf(e) : EntryOf(u)' = EntryOf(u)
  BY <1>1 DEF Inserts, RevisionsOf, Known, EntryOf
<1>4. RevisionsOf(f)' = RevisionsOf(f) \cup {v}
  BY <1>1 DEF Inserts, RevisionsOf, Known
<1>5. \A e \in Items \ {f} : RevisionsOf(e)' = RevisionsOf(e)
  BY <1>1 DEF Inserts, RevisionsOf, Known
<1> HIDE DEF entry
<1>6. History'[f] = History[f] \cup {entry}
  BY <1>2, <1>3, <1>4, HistoryOf
<1>7. \A e \in Items \ {f} : History'[e] = History[e]
  <2> TAKE e \in Items \ {f}
  <2>1. RevisionsOf(e)' = RevisionsOf(e) /\ \A u \in RevisionsOf(e) : EntryOf(u)' = EntryOf(u)
    BY <1>3, <1>5
  <2> QED BY <2>1, HistoryOf
<1>8. /\ History = [e \in Items |-> History[e]]
      /\ History' = [e \in Items |-> History'[e]]
  BY DEF History
<1>9. History' = [History EXCEPT ![f] = @ \cup {entry}]
  BY <1>6, <1>7, <1>8
<1> QED BY <1>9 DEF entry

LEMMA SubmitStarts ==
  ASSUME IInv, NEW actor \in Accounts, NEW key, NEW e \in Items, Submit(actor, key, e)
  PROVE  Abstract!Next
<1> PICK v \in Revisions, row \in RevisionRow :
      /\ revision[v] = None
      /\ row = [item |-> e, number |-> 1, supersedes |-> None, account |-> actor]
      /\ revision' = [revision EXCEPT ![v] = row]
  <2>1. \A v \in Revisions :
          [item |-> e, number |-> 1, supersedes |-> None, account |-> actor] \in RevisionRow
    BY DEF RevisionRow
  <2> QED BY <2>1 DEF Submit
<1>1. Inserts(v, row)
  BY DEF Inserts
<1>2. History' = [History EXCEPT ![e] = @ \cup {Abstract!Entry(1, v, actor)}]
  BY <1>1, InsertedHistory DEF IInv
<1>3. History[e] = {}
  <2>1. RevisionsOf(e) = {}
    BY DEF Submit, IInv, RevisionsHold, RevisionsOf
  <2> QED BY <2>1, HistoryOf
<1>4. History' = [History EXCEPT ![e] = {Abstract!Entry(1, v, actor)}]
  BY <1>2, <1>3
<1> QED BY <1>3, <1>4 DEF Abstract!Next, Abstract!Start

LEMMA CorrectionRevises ==
  ASSUME IInv, NEW h \in Handlers, FinishCorrection(h)
  PROVE  Abstract!Next
<1> PICK q : q = handler[h]
  OBVIOUS
<1> PICK e, v, row : e = q.item /\ v = q.draws /\ row = q.row
  OBVIOUS
<1>1. /\ q \in CorrectHandler /\ CorrectionHeld(q)
      /\ e \in Items /\ item[e] # None
      /\ item[e].current \in RevisionsOf(e)
      /\ row.number = revision[item[e].current].number + 1
  BY FollowsCurrent
<1>2. Inserts(v, row) /\ row.item = e
  BY <1>1 DEF Inserts, CorrectHandler, CorrectionHeld, FinishCorrection
<1>3. row.account \in Accounts /\ v \in Revisions
  BY <1>2 DEF Inserts, RevisionRow
<1>4. History' = [History EXCEPT ![e] = @ \cup {Abstract!Entry(row.number, v, row.account)}]
  BY <1>2, InsertedHistory DEF IInv
<1>5. \A u \in RevisionsOf(e) : revision[u].number <= revision[item[e].current].number
  BY <1>1 DEF IInv, CorrectionsFormAChain
<1>6. v \notin RevisionsOf(e)
  BY <1>2 DEF Inserts, RevisionsOf, Known
<1>7. PICK last : last = EntryOf(item[e].current)
  OBVIOUS
<1>8. last \in History[e] /\ last.number = revision[item[e].current].number
  BY <1>1, <1>7, HistoryOf DEF EntryOf, Abstract!Entry
<1>9. \A entry \in History[e] : entry.number <= last.number /\ entry.version # v
  <2>1. \A u \in RevisionsOf(e) : EntryOf(u).number <= last.number /\ EntryOf(u).version # v
    BY <1>5, <1>6, <1>8 DEF EntryOf, Abstract!Entry
  <2> QED BY <1>1, <2>1, HistoryOf
<1>10. History' = [History EXCEPT ![e] = @ \cup {Abstract!Entry(last.number + 1, v, row.account)}]
  BY <1>1, <1>4, <1>8
<1>11. v \in Revisions \ {entry.version : entry \in History[e]}
  BY <1>3, <1>9
<1>12. Abstract!Revise(e)
  BY <1>3, <1>8, <1>9, <1>10, <1>11 DEF Abstract!Revise
<1> QED BY <1>1, <1>12 DEF Abstract!Next

\* Nothing but a submission and the end of a correction inserts a revision.
LEMMA OnlyInserts ==
  ASSUME [Next]_vars
  PROVE  \/ UNCHANGED revision
         \/ \E actor \in Accounts, key \in Keys, e \in Items : Submit(actor, key, e)
         \/ \E h \in Handlers : FinishCorrection(h)
<1>1. ASSUME NEW actor \in Accounts, NEW operation \in Operations,
             NEW key \in KeysFor[operation], Call(actor, operation, key)
      PROVE  UNCHANGED revision \/ \E e \in Items : Submit(actor, key, e)
  BY <1>1 DEF Call, Withdraw, BuildCorrection, StartAssessment, RequestReview, CheckDecision,
              evidence
<1>2. ASSUME NEW h \in Handlers, Continue(h) PROVE UNCHANGED revision \/ FinishCorrection(h)
  BY <1>2 DEF Continue, BeginCorrection, CheckAssessment, CoalesceAssessment, BeginAssessment,
              FinishAssessment, FinishDecision, Abandon, evidence
<1>3. ASSUME NEW actor \in Accounts, NEW w \in Reviews, AssignReview(actor, w, 1)
      PROVE  UNCHANGED revision
  BY <1>3 DEF AssignReview, evidence
<1>4. ASSUME UNCHANGED vars PROVE UNCHANGED revision
  BY <1>4 DEF vars, evidence
<1>5. \A operation \in Operations : KeysFor[operation] \subseteq Keys
  BY DEF Keys
<1> QED BY <1>1, <1>2, <1>3, <1>4, <1>5 DEF Next

\* Whatever submissions and corrections race (prisma-repository.ts), the revisions
\* of an item are a numbered, append-only history: a correction adds the entry
\* after the last, and no other step adds, changes or removes one.
THEOREM Implements == Spec => ImplementsHistory
<1>1. Init => Abstract!Init
  <2> SUFFICES ASSUME Init, NEW e \in Items PROVE History[e] = {}
    BY DEF Abstract!Init
  <2>1. RevisionsOf(e) = {}
    BY DEF Init, RevisionsOf, Known
  <2> QED BY <2>1, HistoryOf
<1>2. ASSUME IInv, [Next]_vars PROVE [Abstract!Next]_History
  <2>1. UNCHANGED revision => History' = History
    BY DEF History, RevisionsOf, Known
  <2> QED BY <1>2, <2>1, OnlyInserts, SubmitStarts, CorrectionRevises
<1> QED BY <1>1, <1>2, Invariance, PTL DEF Spec, ImplementsHistory, Abstract!Spec
=============================================================================
