------------------------- MODULE CalibrationProofs -------------------------
(***************************************************************************)
(* The safety of the gated calibration, for every staffing, set of         *)
(* documents and approvals, every key and sheet, any number of scorers,    *)
(* records, attempts and results, and any bounds; and what appending does  *)
(* to the custody ledger, for every chain and record.                      *)
(***************************************************************************)
EXTENDS GatedCalibration, CustodyLedger, FiniteSetTheorems, SequenceTheorems, TLAPS

-----------------------------------------------------------------------------
(* The inductive invariant. *)

\* A record says what the evaluation of the evidence kept with it gives.
Faithful(e) ==
  /\ DOMAIN e.staff \subseteq Slots
  /\ \A s \in DOMAIN e.staff : e.staff[s] \in RoleAssignment
  /\ e.documents \in [Documents -> Document]
  /\ e.record.evaluatedAt \in Nat /\ e.record.expiresAt \in Nat
  /\ e.record = Evaluation(e.staff, e.documents, e.combinations, e.incidents,
                           e.record.evaluatedAt, e.record.expiresAt)
RecordsHold ==
  /\ records \in Seq({records[i] : i \in DOMAIN records})
  /\ \A i \in DOMAIN records : Faithful(records[i])

\* A gate that was passed: the record let it at that moment.
Opened(i, at) ==
  /\ i \in DOMAIN records /\ at \in Nat /\ at <= now
  /\ ValidRecord(records[i].record, at)

\* The attempt before, if it is a second one, is a result that was written
\* under a gate no later than its own.
Begun(q, written) ==
  /\ q.submission \in LockedSubmission
  /\ PrerequisitesHold(q.submission, q.prior)
  /\ q.prior = None \/ \E r \in written : r.result = q.prior /\ r.gateAt <= q.at
RunHolds == run # NoRun => Opened(run.record, run.at) /\ Begun(run, results)

ResultsHold ==
  \A r \in results :
    /\ Opened(r.record, r.gateAt)
    /\ r.result \in CalibrationResult
    /\ r.result.pass = Passes(r.result.answers)

\* A second attempt's result follows the failed first result it was begun on.
FollowsFailure ==
  \A r \in results : r.result.attemptNumber = 2 =>
    \E q \in results :
      /\ q.result.attemptId = r.result.priorAttemptId
      /\ q.result.scorerAlias = r.result.scorerAlias
      /\ q.result.attemptNumber = 1
      /\ ~q.result.pass
      /\ q.gateAt <= r.gateAt

IInv ==
  /\ TypeOK
  /\ RecordsHold
  /\ RunHolds
  /\ ResultsHold
  /\ FollowsFailure
-----------------------------------------------------------------------------
(* The passing of a sheet. *)

\* A critical error is an answer that differs and is harmful.
Wrong(sheet) ==
  {i \in DOMAIN sheet \cap DOMAIN Key : sheet[i].label # Key[i].expectedLabel}
Harmful(sheet, i) ==
  \/ "unsafe" \in {sheet[i].label, Key[i].expectedLabel}
  \/ /\ sheet[i].label = "demonstrated"
     /\ \/ Key[i].critical = "control"
        \/ Key[i].critical = "ambiguous" /\ Key[i].expectedLabel = "ambiguous"

\* The sheet answers the fixtures of the key, ten or more, one by one.
InKeyOrder(sheet) ==
  /\ Len(Key) >= 10
  /\ DOMAIN sheet = DOMAIN Key
  /\ \A i \in DOMAIN Key : sheet[i].fixtureId = Key[i].fixtureId

LEMMA KeyType ==
  /\ Len(Key) \in Nat /\ DOMAIN Key = 1..Len(Key)
  /\ \A i \in DOMAIN Key : /\ Key[i].expectedLabel \in CalibrationLabels
                          /\ Key[i].critical \in CriticalRules
<1> DEFINE K == [fixtureId : Fixtures, expectedLabel : CalibrationLabels,
                 critical : CriticalRules]
<1>1. Key \in Seq(K)
  BY KeyAssumption
<1>2. \A k \in K : k.expectedLabel \in CalibrationLabels /\ k.critical \in CriticalRules
  OBVIOUS
<1> HIDE DEF K
<1>3. Len(Key) \in Nat /\ DOMAIN Key = 1..Len(Key) /\ \A i \in 1..Len(Key) : Key[i] \in K
  BY <1>1
<1> QED
  BY <1>2, <1>3

LEMMA SheetType ==
  ASSUME NEW sheet \in Sheets
  PROVE  /\ Len(sheet) \in Nat /\ DOMAIN sheet = 1..Len(sheet)
         /\ \A i \in DOMAIN sheet : sheet[i].label \in CalibrationLabels
         /\ \A i, j \in DOMAIN sheet : sheet[i].fixtureId = sheet[j].fixtureId => i = j
<1> DEFINE A == [fixtureId : Fixtures, label : CalibrationLabels]
<1>1. /\ sheet \in Seq(A)
      /\ \A i, j \in DOMAIN sheet : sheet[i].fixtureId = sheet[j].fixtureId => i = j
  BY SheetsAssumption
<1>2. \A answer \in A : answer.label \in CalibrationLabels
  OBVIOUS
<1> HIDE DEF A
<1>3. Len(sheet) \in Nat /\ DOMAIN sheet = 1..Len(sheet) /\ \A i \in 1..Len(sheet) : sheet[i] \in A
  BY <1>1
<1> QED
  BY <1>1, <1>2, <1>3

\* A sheet in the key's order is complete, and only such a sheet.
LEMMA CompleteMeans ==
  ASSUME NEW sheet \in Sheets
  PROVE  Complete(sheet) <=> InKeyOrder(sheet)
<1>1. /\ Len(sheet) \in Nat /\ DOMAIN sheet = 1..Len(sheet)
      /\ Len(Key) \in Nat /\ DOMAIN Key = 1..Len(Key)
  BY SheetType, KeyType
<1>2. ASSUME NEW m \in Nat, NEW n \in Nat, m < n
      PROVE  1..m # 1..n
  <2>1. n \in 1..n /\ n \notin 1..m
    BY <1>2
  <2> QED
    BY <2>1
<1>3. Len(sheet) = Len(Key) \/ Len(sheet) < Len(Key) \/ Len(Key) < Len(sheet)
  <2>1. \A m, n \in Nat : m = n \/ m < n \/ n < m
    OBVIOUS
  <2> QED
    BY <1>1, <2>1, Zenon
<1>4. 1..Len(sheet) = 1..Len(Key) => Len(sheet) = Len(Key)
  BY <1>1, <1>2, <1>3
<1> QED
  BY <1>1, <1>4 DEF Complete, InKeyOrder

\* In such a sheet the answer found for a fixture is the one in its place.
LEMMA SubmittedInPlace ==
  ASSUME NEW sheet \in Sheets, InKeyOrder(sheet), NEW i \in DOMAIN Key
  PROVE  Submitted(sheet, Key[i].fixtureId) = {sheet[i].label}
<1>1. {j \in DOMAIN sheet : sheet[j].fixtureId = Key[i].fixtureId} = {i}
  BY SheetType DEF InKeyOrder
<1> QED
  BY <1>1 DEF Submitted

\* The counts that compareLockedAttempt takes say what a sheet must be to pass:
\* in the key's order, nearly all of it right, and nothing in it harmful.
LEMMA PassesMeans ==
  ASSUME NEW sheet \in Sheets
  PROVE  Passes(sheet) <=> /\ InKeyOrder(sheet)
                           /\ Cardinality(Wrong(sheet)) * 10 <= Len(Key)
                           /\ \A i \in Wrong(sheet) : ~Harmful(sheet, i)
<1> SUFFICES ASSUME InKeyOrder(sheet)
             PROVE  /\ UnsafeBinaryCorrect(sheet) = Len(Key)
                    /\ CriticalBoundaryErrors(sheet) = 0
                    /\ ExactEnough(sheet)
                    <=> /\ Cardinality(Wrong(sheet)) * 10 <= Len(Key)
                        /\ \A i \in Wrong(sheet) : ~Harmful(sheet, i)
  BY CompleteMeans DEF Passes
<1> DEFINE Places == DOMAIN Key
           Right == {i \in Places : Key[i].expectedLabel \in Submitted(sheet, Key[i].fixtureId)}
           Safe == {i \in Places : \E answer \in Submitted(sheet, Key[i].fixtureId) :
                      (answer = "unsafe") = (Key[i].expectedLabel = "unsafe")}
           Errors == {i \in Places : \A answer \in Submitted(sheet, Key[i].fixtureId) :
                        CriticalError(Key[i], answer)}
<1>0. \A i \in Places : Submitted(sheet, Key[i].fixtureId) = {sheet[i].label}
  BY SubmittedInPlace
<1>c. IsFiniteSet(Places) /\ Cardinality(Places) = Len(Key) /\ Len(Key) \in Nat
  <2>1. Len(Key) \in Nat /\ Places = 1..Len(Key)
    BY KeyType
  <2>2. /\ IsFiniteSet(1..Len(Key))
        /\ Cardinality(1..Len(Key)) = IF 1 > Len(Key) THEN 0 ELSE Len(Key) - 1 + 1
    BY <2>1, FS_Interval
  <2> QED
    BY <2>1, <2>2
<1>1. /\ Right \subseteq Places /\ Safe \subseteq Places /\ Errors \subseteq Places
      /\ Wrong(sheet) = Places \ Right
  BY <1>0 DEF Wrong, InKeyOrder
<1>2. /\ IsFiniteSet(Right) /\ IsFiniteSet(Safe) /\ IsFiniteSet(Errors)
      /\ Places \cap Right = Right
  BY <1>1, <1>c, FS_Subset
<1>3. ExactEnough(sheet) <=> Cardinality(Wrong(sheet)) * 10 <= Len(Key)
  <2>1. Cardinality(Wrong(sheet)) = Cardinality(Places) - Cardinality(Right)
    BY <1>1, <1>2, <1>c, FS_Difference
  <2>2. Cardinality(Right) \in Nat
    BY <1>2, FS_CardinalityType
  <2>3. ExactCorrect(sheet) = Cardinality(Right)
    BY DEF ExactCorrect
  <2>4. \A n, m, w \in Int : w = n - m => (m * 100 >= n * 90 <=> w * 10 <= n)
    OBVIOUS
  <2> HIDE DEF Right, Places
  <2> QED
    BY <1>c, <2>1, <2>2, <2>3, <2>4 DEF ExactEnough
<1>4. UnsafeBinaryCorrect(sheet) = Len(Key) <=> Safe = Places
  <2>1. Cardinality(Places) = Cardinality(Safe) => Places = Safe
    BY <1>1, <1>2, <1>c, FS_Subset
  <2>2. UnsafeBinaryCorrect(sheet) = Cardinality(Safe)
    BY DEF UnsafeBinaryCorrect
  <2> HIDE DEF Safe, Places
  <2> QED
    BY <1>c, <2>1, <2>2
<1>5. CriticalBoundaryErrors(sheet) = 0 <=> Errors = {}
  BY <1>2, FS_EmptySet DEF CriticalBoundaryErrors
<1>6. \A i \in Places : /\ sheet[i].label \in CalibrationLabels
                       /\ Key[i].expectedLabel \in CalibrationLabels
                       /\ Key[i].critical \in CriticalRules
  BY KeyType, SheetType DEF InKeyOrder
<1>7. (Safe = Places /\ Errors = {}) <=> \A i \in Wrong(sheet) : ~Harmful(sheet, i)
  <2>1. ASSUME NEW i \in Places
        PROVE  i \in Safe /\ i \notin Errors <=> (i \in Wrong(sheet) => ~Harmful(sheet, i))
    <3>1. i \in Safe <=> (sheet[i].label = "unsafe" <=> Key[i].expectedLabel = "unsafe")
      BY <1>0, <2>1
    <3>2. i \notin Errors <=> ~CriticalError(Key[i], sheet[i].label)
      BY <1>0, <2>1
    <3>3. i \in Wrong(sheet) <=> sheet[i].label # Key[i].expectedLabel
      BY <2>1 DEF Wrong, InKeyOrder
    <3>4. /\ sheet[i].label \in CalibrationLabels /\ Key[i].expectedLabel \in CalibrationLabels
          /\ Key[i].critical \in CriticalRules
      BY <1>6, <2>1
    <3> HIDE DEF Safe, Errors
    <3> QED
      BY <3>1, <3>2, <3>3, <3>4 DEF CriticalError, Harmful
  <2>2. Wrong(sheet) \subseteq Places
    BY DEF Wrong
  <2> HIDE DEF Safe, Errors, Places
  <2> QED
    BY <1>1, <2>1, <2>2
<1> QED
  BY <1>3, <1>4, <1>5, <1>7
-----------------------------------------------------------------------------
(* The records. *)

\* A longer list of records keeps the old ones where they were.
LEMMA RecordAppended ==
  ASSUME RecordsHold, NEW e, records' = Append(records, e)
  PROVE  /\ records' \in Seq({records'[i] : i \in DOMAIN records'})
         /\ \A i \in DOMAIN records : i \in DOMAIN records' /\ records'[i] = records[i]
         /\ \A i \in DOMAIN records' : i \in DOMAIN records \/ records'[i] = e
<1> DEFINE S == {records[i] : i \in DOMAIN records} \cup {e}
<1>1. records \in Seq(S)
  BY DEF RecordsHold
<1> HIDE DEF S
<1>2. e \in S
  BY DEF S
<1>3. /\ records' \in Seq(S) /\ DOMAIN records' = 1..Len(records) + 1
      /\ DOMAIN records = 1..Len(records) /\ Len(records) \in Nat
      /\ records'[Len(records) + 1] = e
      /\ \A i \in 1..Len(records) : records'[i] = records[i]
  BY <1>1, <1>2
<1> DEFINE T == {records'[i] : i \in DOMAIN records'}
<1>4. records' \in [1..Len(records) + 1 -> S] /\ Len(records) + 1 \in Nat
  <2>1. PICK n \in Nat : records' \in [1..n -> S]
    <3>1. records' \in Seq(S)
      BY <1>3
    <3>2. Seq(S) = UNION {[1..n -> S] : n \in Nat}
      BY SeqDef
    <3> QED
      BY ONLY <3>1, <3>2, Zenon
  <2>2. DOMAIN records' = 1..Len(records) + 1
    BY <1>3
  <2> QED
    BY <2>1, <2>2, <1>3
<1>5. \A i \in 1..Len(records) + 1 : records'[i] \in T
  BY <1>3
<1> HIDE DEF T
<1>6. records' \in [1..Len(records) + 1 -> T]
  BY <1>4, <1>5
<1>7. records' \in Seq(T)
  BY <1>4, <1>6, SeqDef
<1> QED
  BY <1>3, <1>7 DEF T

\* A gate that was passed stays passed as time goes on and records come in.
LEMMA OpenedStays ==
  ASSUME NEW i, NEW at, Opened(i, at), now \in Nat, now' \in Nat, now <= now',
         i \in DOMAIN records => i \in DOMAIN records' /\ records'[i] = records[i]
  PROVE  Opened(i, at)'
BY DEF Opened
-----------------------------------------------------------------------------
(* The steps. *)

\* Steps of the people and of the clock leave the records, the script and the
\* results alone, and the evidence in its shape.
Aside ==
  \/ Tick
  \/ \E s \in DOMAIN staff \cap Revocable : Revoke(s) \/ TakeOff(s)
  \/ \E i \in Incidents : ChangeIncident(i)
  \/ UNCHANGED vars

Evidence ==
  /\ now \in Moments
  /\ DOMAIN staff \subseteq Slots
  /\ \A s \in DOMAIN staff : staff[s] \in RoleAssignment
  /\ documents \in [Documents -> Document]
  /\ combinations \subseteq ConditionalCombination
  /\ incidents \subseteq Incidents

LEMMA EvidenceNext ==
  ASSUME Evidence, [Next]_vars
  PROVE  /\ Evidence' /\ now \in Nat /\ now' \in Nat /\ now <= now'
         /\ Aside => UNCHANGED <<records, run, results>>
         /\ Aside \/ now' = now
<1>0. now \in Nat /\ MaxTime \in Nat
  BY MomentsAssumption DEF Evidence, Moments
<1>1. CASE Tick
  BY <1>0, <1>1 DEF Tick, Evidence, Moments, Aside
<1>2. ASSUME NEW s \in DOMAIN staff, Revoke(s)
      PROVE  Evidence'
  <2>1. [staff[s] EXCEPT !.status = "revoked"] \in RoleAssignment
    BY DEF Evidence, RoleAssignment
  <2>2. /\ DOMAIN staff' = DOMAIN staff
        /\ \A t \in DOMAIN staff : staff'[t] = IF t = s
             THEN [staff[s] EXCEPT !.status = "revoked"] ELSE staff[t]
    BY <1>2 DEF Revoke
  <2> QED
    BY <1>2, <2>1, <2>2 DEF Revoke, Evidence, Moments
<1>3. ASSUME NEW s \in DOMAIN staff, TakeOff(s)
      PROVE  Evidence'
  BY <1>3 DEF TakeOff, Evidence, Moments
<1>4. ASSUME NEW i \in Incidents, ChangeIncident(i)
      PROVE  Evidence'
  BY <1>4 DEF ChangeIncident, Evidence, Moments
<1>5. ASSUME UNCHANGED <<staff, documents, combinations, incidents, now>>
      PROVE  Evidence'
  BY <1>5 DEF Evidence, Moments
<1>6. \/ Aside
      \/ UNCHANGED <<staff, documents, combinations, incidents, now>>
  BY DEF Next, Aside, Evaluate, BeginRun, FinishRun, StopRun
<1>7. ASSUME Aside
      PROVE  /\ UNCHANGED <<records, run, results>>
             /\ Tick \/ now' = now
  BY <1>7 DEF Aside, Tick, Revoke, TakeOff, ChangeIncident, vars
<1>8. Evidence'
  <2>1. UNCHANGED vars => Evidence'
    BY <1>5 DEF vars
  <2> QED
    BY <1>1, <1>2, <1>3, <1>4, <1>5, <1>6, <2>1 DEF Aside
<1>9. now' = now \/ now' = now + 1
  BY <1>6, <1>7 DEF Tick
<1> QED
  BY <1>0, <1>6, <1>7, <1>8, <1>9 DEF Tick

\* A result of the right shape, whatever the attempt was.
LEMMA ComparisonType ==
  ASSUME NEW submission \in LockedSubmission, NEW prior,
         prior = None \/ prior \in CalibrationResult
  PROVE  /\ Comparison(submission, prior) \in CalibrationResult
         /\ Comparison(submission, prior).pass =
              Passes(Comparison(submission, prior).answers)
<1> DEFINE pass == Passes(submission.answers)
<1>1. pass \in BOOLEAN
  BY DEF Passes, Complete, ExactEnough
<1>2. PriorAttemptId(prior) \in AttemptIds \cup {None}
  BY DEF PriorAttemptId, CalibrationResult
<1> HIDE DEF pass
<1>3. Comparison(submission, prior) =
        [scorerAlias |-> submission.scorerAlias,
         attemptNumber |-> submission.attemptNumber,
         attemptId |-> submission.attemptId, answers |-> submission.answers,
         pass |-> pass,
         priorAttemptId |-> PriorAttemptId(prior),
         disposition |-> IF pass THEN "pass"
                         ELSE IF submission.attemptNumber = 1 THEN "remediation_required"
                         ELSE "ineligible_replace"]
  BY DEF Comparison, pass
<1> QED
  BY <1>1, <1>2, <1>3 DEF LockedSubmission, CalibrationResult, pass

LEMMA IInvInit == Init => IInv
<1> SUFFICES ASSUME Init PROVE IInv
  OBVIOUS
<1>1. Evidence
  BY StartsAssumption, MomentsAssumption DEF Init, Evidence, Moments
<1>2. records = <<>> /\ run = NoRun /\ results = {} /\ DOMAIN records = {}
  BY DEF Init
<1>3. TypeOK
  BY <1>1, <1>2 DEF TypeOK, Evidence
<1>4. RecordsHold
  BY <1>2 DEF RecordsHold
<1> QED
  BY <1>2, <1>3, <1>4 DEF IInv, RunHolds, ResultsHold, FollowsFailure

\* What a passed gate, a begun attempt and a result rest on stays as it is.
LEMMA HeldStays ==
  ASSUME IInv, now \in Nat, now' \in Nat, now <= now',
         \A i \in DOMAIN records : i \in DOMAIN records' /\ records'[i] = records[i],
         UNCHANGED <<run, results>>
  PROVE  RunHolds' /\ ResultsHold' /\ FollowsFailure'
<1>1. RunHolds'
  BY DEF IInv, RunHolds, Opened, Begun
<1>2. ResultsHold'
  BY OpenedStays DEF IInv, ResultsHold
<1>3. FollowsFailure'
  BY DEF IInv, FollowsFailure
<1> QED
  BY <1>1, <1>2, <1>3

LEMMA IInvNext == IInv /\ [Next]_vars => IInv'
<1> SUFFICES ASSUME IInv, [Next]_vars PROVE IInv'
  OBVIOUS
<1>e. Evidence
  BY DEF IInv, TypeOK, Evidence
<1>n. /\ Evidence' /\ now \in Nat /\ now' \in Nat /\ now <= now'
      /\ Aside => UNCHANGED <<records, run, results>>
      /\ Aside \/ now' = now
  BY <1>e, EvidenceNext
<1>r. /\ \A i \in DOMAIN records : IsCollectiveReadinessRecord(records[i].record)
      /\ \A r \in results : r.result \in CalibrationResult /\ r.record \in DOMAIN records
  BY DEF IInv, TypeOK
<1>k. ASSUME UNCHANGED records PROVE RecordsHold'
  BY <1>k DEF IInv, RecordsHold
<1>1. CASE Aside
  <2>1. RunHolds' /\ ResultsHold' /\ FollowsFailure' /\ RecordsHold'
    BY <1>1, <1>n, <1>k, HeldStays
  <2>2. TypeOK'
    BY <1>1, <1>n, <1>r DEF TypeOK, Evidence
  <2> QED
    BY <2>1, <2>2 DEF IInv
<1>2. ASSUME NEW t \in Expiries, Evaluate(t) PROVE IInv'
  <2> DEFINE rec == Evaluation(staff, documents, combinations, incidents, now, t)
             e == [record |-> rec,
                   staff |-> staff, documents |-> documents, combinations |-> combinations,
                   incidents |-> incidents]
  <2>1. records' = Append(records, e) /\ UNCHANGED <<run, results, now>>
    BY <1>2 DEF Evaluate
  <2>2. rec.evaluatedAt = now /\ rec.expiresAt = t /\ t \in Nat
    BY MomentsAssumption DEF Evaluation
  <2>3. Faithful(e)
    BY <1>e, <1>n, <2>2 DEF Faithful, Evidence
  <2>4. IsCollectiveReadinessRecord(e.record)
    <3>1. /\ documents["controls"].validUntil \in Nat
          /\ \A s \in DOMAIN staff : staff[s].validUntil \in Nat
                                     /\ staff[s].status \in {"active", "revoked"}
          /\ DOMAIN staff \subseteq Slots
      BY <1>e DEF Evidence, Document, Documents, RoleAssignment
    <3> QED
      BY <1>n, <2>2, <3>1 DEF IsCollectiveReadinessRecord, Evaluation
  <2> HIDE DEF e, rec
  <2>5. /\ records' \in Seq({records'[i] : i \in DOMAIN records'})
        /\ \A i \in DOMAIN records : i \in DOMAIN records' /\ records'[i] = records[i]
        /\ \A i \in DOMAIN records' : i \in DOMAIN records \/ records'[i] = e
    BY <2>1, RecordAppended DEF IInv
  <2>6. RecordsHold'
    <3>1. \A i \in DOMAIN records' : Faithful(records'[i])
      BY <2>3, <2>5 DEF IInv, RecordsHold
    <3> QED
      BY <2>5, <3>1 DEF RecordsHold, Faithful
  <2>7. RunHolds' /\ ResultsHold' /\ FollowsFailure'
    BY <1>n, <2>1, <2>5, HeldStays
  <2>8. TypeOK'
    BY <1>n, <1>r, <2>1, <2>4, <2>5 DEF TypeOK, Evidence
  <2> QED
    BY <2>6, <2>7, <2>8 DEF IInv
<1>3. ASSUME NEW i \in DOMAIN records, BeginRun(i) PROVE IInv'
  <2>1. PICK submission \in NewSubmissions, prior \in Priors :
          /\ PrerequisitesHold(submission, prior)
          /\ run' = [record |-> i, at |-> now, submission |-> submission, prior |-> prior]
          /\ ValidRecord(records[i].record, now)
          /\ UNCHANGED <<now, records, results>>
    BY <1>3 DEF BeginRun
  <2>2. submission \in LockedSubmission
    BY DEF NewSubmissions
  <2>3. Opened(i, now)'
    BY <1>n, <2>1 DEF Opened
  <2>4. prior = None \/ \E r \in results : r.result = prior /\ r.gateAt <= now
    <3>1. \A r \in results : r.gateAt <= now
      BY DEF IInv, ResultsHold, Opened
    <3> QED
      BY <3>1 DEF Priors
  <2>5. RunHolds'
    BY <2>1, <2>2, <2>3, <2>4 DEF RunHolds, Begun, Opened
  <2>6. ResultsHold' /\ FollowsFailure'
    BY <2>1 DEF IInv, ResultsHold, FollowsFailure, Opened
  <2>7. TypeOK'
    BY <1>n, <1>r, <2>1 DEF TypeOK, Evidence
  <2> QED
    BY <1>k, <2>1, <2>5, <2>6, <2>7 DEF IInv
<1>4. CASE FinishRun
  <2>0. run # NoRun /\ Opened(run.record, run.at) /\ Begun(run, results)
    BY <1>4 DEF FinishRun, IInv, RunHolds
  <2>1. PICK new : /\ new.result = Comparison(run.submission, run.prior)
                   /\ new.record = run.record /\ new.gateAt = run.at
                   /\ results' = results \cup {new}
                   /\ run' = NoRun /\ UNCHANGED <<now, records>>
    BY <1>4 DEF FinishRun
  <2>2. /\ run.submission \in LockedSubmission
        /\ PrerequisitesHold(run.submission, run.prior)
        /\ run.prior = None \/ \E r \in results : r.result = run.prior /\ r.gateAt <= run.at
    BY <2>0 DEF Begun
  <2>3. run.prior = None \/ run.prior \in CalibrationResult
    BY <1>r, <2>2
  <2>4. new.result \in CalibrationResult /\ new.result.pass = Passes(new.result.answers)
    BY <2>1, <2>2, <2>3, ComparisonType
  <2>5. ResultsHold'
    BY <2>0, <2>1, <2>4 DEF IInv, ResultsHold, Opened
  <2>6. FollowsFailure'
    <3>1. ASSUME new.result.attemptNumber = 2
          PROVE  \E q \in results :
                   /\ q.result.attemptId = new.result.priorAttemptId
                   /\ q.result.scorerAlias = new.result.scorerAlias
                   /\ q.result.attemptNumber = 1
                   /\ ~q.result.pass
                   /\ q.gateAt <= new.gateAt
      <4>1. /\ new.result.attemptNumber = run.submission.attemptNumber
            /\ new.result.scorerAlias = run.submission.scorerAlias
            /\ new.result.priorAttemptId = PriorAttemptId(run.prior)
        BY <2>1 DEF Comparison
      <4>2. /\ run.prior # None /\ run.prior.scorerAlias = run.submission.scorerAlias
            /\ run.prior.attemptNumber = 1 /\ ~run.prior.pass
        BY <2>2, <3>1, <4>1 DEF PrerequisitesHold
      <4> QED
        BY <2>1, <2>2, <4>1, <4>2 DEF PriorAttemptId
    <3> QED
      BY <2>1, <3>1 DEF IInv, FollowsFailure
  <2>7. RunHolds'
    BY <2>1 DEF RunHolds
  <2>8. TypeOK'
    BY <1>n, <1>r, <2>0, <2>1, <2>4 DEF TypeOK, Evidence, Opened
  <2> QED
    BY <1>k, <2>1, <2>5, <2>6, <2>7, <2>8 DEF IInv
<1>5. CASE StopRun
  <2>1. run' = NoRun /\ UNCHANGED <<now, records, results>>
    BY <1>5 DEF StopRun
  <2>2. RunHolds' /\ ResultsHold' /\ FollowsFailure'
    BY <2>1 DEF IInv, RunHolds, ResultsHold, FollowsFailure, Opened
  <2>3. TypeOK'
    BY <1>n, <1>r, <2>1 DEF TypeOK, Evidence
  <2> QED
    BY <1>k, <2>1, <2>2, <2>3 DEF IInv
<1> QED
  BY <1>1, <1>2, <1>3, <1>4, <1>5 DEF Next, Aside

LEMMA Invariance == Spec => []IInv
BY IInvInit, IInvNext, PTL DEF Spec
-----------------------------------------------------------------------------
(* The staffing of a record that is READY. *)

LEMMA PairSize ==
  ASSUME NEW a, NEW b, a # b
  PROVE  IsFiniteSet({a, b}) /\ Cardinality({a, b}) = 2
<1>1. IsFiniteSet({a}) /\ Cardinality({a}) = 1
  BY FS_Singleton
<1>2. {a, b} = {a} \cup {b} /\ b \notin {a}
  OBVIOUS
<1> QED
  BY <1>1, <1>2, FS_AddElement

LEMMA SlotsFinite == IsFiniteSet(Slots)
<1> DEFINE E == {"SCR-1"} \cup {"SCR-2"} \cup {"ADJ"} \cup {"OPR"} \cup {"ADM"} \cup {"KEY"}
                  \cup {"REC"} \cup {"PRV"} \cup {"RCV"} \cup {"HDR"}
<1>1. \A x : IsFiniteSet({x})
  BY FS_Singleton
<1>2. \A X, Y : IsFiniteSet(X) /\ IsFiniteSet(Y) => IsFiniteSet(X \cup Y)
  BY FS_Union
<1>3. IsFiniteSet(E)
  BY ONLY <1>1, <1>2
<1>4. Slots = E
  BY DEF Slots, ROLE_CODES
<1> QED
  BY <1>3, <1>4

\* Every slot is filled when every role has its number of assignments.
LEMMA AllSlotsFilled ==
  ASSUME NEW staffing, DOMAIN staffing \subseteq Slots,
         \A role \in ROLE_CODES : Cardinality(Filled(staffing, role)) = RequiredNumber(role)
  PROVE  DOMAIN staffing = Slots
<1>1. ASSUME NEW s \in Slots, s \notin {"SCR-1", "SCR-2"}
      PROVE  s \in DOMAIN staffing
  <2>1. s \in ROLE_CODES /\ s # "SCR"
    BY <1>1 DEF Slots
  <2>2. Cardinality(Filled(staffing, s)) = 1
    BY <2>1 DEF RequiredNumber
  <2>3. Filled(staffing, s) # {}
    BY <2>2, FS_EmptySet
  <2>4. \A t \in DOMAIN staffing : RoleOf(t) = s => t = s
    BY <2>1 DEF RoleOf
  <2> QED
    BY <2>3, <2>4 DEF Filled
<1>2. "SCR-1" \in DOMAIN staffing /\ "SCR-2" \in DOMAIN staffing
  <2>1. Cardinality(Filled(staffing, "SCR")) = 2
    BY DEF RequiredNumber, ROLE_CODES
  <2>2. Filled(staffing, "SCR") \subseteq {"SCR-1", "SCR-2"}
    BY DEF Filled, RoleOf, Slots, ROLE_CODES
  <2>3. IsFiniteSet({"SCR-1", "SCR-2"}) /\ Cardinality({"SCR-1", "SCR-2"}) = 2
    BY PairSize
  <2>4. Filled(staffing, "SCR") = {"SCR-1", "SCR-2"}
    BY <2>1, <2>2, <2>3, FS_Subset
  <2> QED
    BY <2>4 DEF Filled
<1> QED
  BY <1>1, <1>2

\* What the access matrix lets whom do, of the powers that must stay apart.
LEMMA WhoMay ==
  ASSUME NEW role \in ROLE_CODES
  PROVE  /\ AuthorizeAccess(role, "KEYS", "R", TRUE, FALSE) => role = "KEY"
         /\ AuthorizeAccess(role, "RAW", "R", TRUE, FALSE) => role \in {"SCR", "ADJ"}
         /\ AuthorizeAccess(role, "CAL", "A", TRUE, FALSE) => role = "SCR"
         /\ AuthorizeAccess(role, "CAL", "X", TRUE, FALSE) => role = "ADM"
         /\ AuthorizeAccess(role, "IDMAP", "R", TRUE, FALSE) => role = "OPR"
         /\ AuthorizeAccess(role, "BACKUP", "X", TRUE, FALSE) => role = "RCV"
         /\ AuthorizeAccess(role, "RAW", "M", TRUE, FALSE) => role = "PRV"
<1>1. AuthorizeAccess(role, "KEYS", "R", TRUE, FALSE) => role = "KEY"
  BY DEF AuthorizeAccess, ACCESS_MATRIX, ROLE_CODES
<1>2. AuthorizeAccess(role, "RAW", "R", TRUE, FALSE) => role \in {"SCR", "ADJ"}
  BY DEF AuthorizeAccess, ACCESS_MATRIX, ROLE_CODES
<1>3. AuthorizeAccess(role, "CAL", "A", TRUE, FALSE) => role = "SCR"
  BY DEF AuthorizeAccess, ACCESS_MATRIX, ROLE_CODES
<1>4. AuthorizeAccess(role, "CAL", "X", TRUE, FALSE) => role = "ADM"
  BY DEF AuthorizeAccess, ACCESS_MATRIX, ROLE_CODES
<1>5. AuthorizeAccess(role, "IDMAP", "R", TRUE, FALSE) => role = "OPR"
  BY DEF AuthorizeAccess, ACCESS_MATRIX, ROLE_CODES
<1>6. AuthorizeAccess(role, "BACKUP", "X", TRUE, FALSE) => role = "RCV"
  BY DEF AuthorizeAccess, ACCESS_MATRIX, ROLE_CODES
<1>7. AuthorizeAccess(role, "RAW", "M", TRUE, FALSE) => role = "PRV"
  BY DEF AuthorizeAccess, ACCESS_MATRIX, ROLE_CODES
<1> QED
  BY <1>1, <1>2, <1>3, <1>4, <1>5, <1>6, <1>7

\* In a staffing that is separated a person holds one role, or one of the
\* three pairs that may be approved.
LEMMA RolesOfOne ==
  ASSUME NEW staffing, DOMAIN staffing \subseteq Slots, NEW combos, NEW moment,
         Separated(staffing, combos, moment),
         NEW p \in Slots, NEW s \in HeldBy(staffing, p), NEW t \in HeldBy(staffing, p)
  PROVE  \/ RoleOf(s) = RoleOf(t)
         \/ {RoleOf(s), RoleOf(t)} \in {{"ADM", "OPR"}, {"KEY", "PRV"}, {"HDR", "REC"}}
<1> SUFFICES ASSUME s # t, RoleOf(s) # RoleOf(t)
             PROVE  {RoleOf(s), RoleOf(t)} \in {{"ADM", "OPR"}, {"KEY", "PRV"}, {"HDR", "REC"}}
  OBVIOUS
<1> DEFINE held == HeldBy(staffing, p)
<1>1. IsFiniteSet(held)
  <2>1. held \subseteq Slots
    BY DEF HeldBy
  <2> QED
    BY <2>1, SlotsFinite, FS_Subset
<1>2. /\ {s, t} \subseteq held /\ IsFiniteSet({s, t}) /\ Cardinality({s, t}) = 2
  BY PairSize
<1>3. Cardinality(held) > 1
  <2>1. Cardinality({s, t}) <= Cardinality(held) /\ Cardinality(held) \in Nat
    BY <1>1, <1>2, FS_Subset, FS_CardinalityType
  <2> QED
    BY <1>2, <2>1
<1>4. /\ Cardinality(held) = 2
      /\ Approved({RoleOf(u) : u \in held}, combos, moment)
  BY <1>3 DEF Separated
<1>5. held = {s, t}
  BY <1>1, <1>2, <1>4, FS_Subset
<1>6. {RoleOf(u) : u \in held} = {RoleOf(s), RoleOf(t)}
  BY <1>5
<1> HIDE DEF held
<1>7. \E code : <<{RoleOf(s), RoleOf(t)}, code>> \in CONDITIONALS
  BY <1>4, <1>6 DEF Approved
<1> QED
  BY <1>7 DEF CONDITIONALS
-----------------------------------------------------------------------------
(* Every reachable state. *)

\* The evidence, the records and the results keep their shapes.
THEOREM TypeCorrect == Spec => []TypeOK
<1>1. IInv => TypeOK
  BY DEF IInv
<1> QED
  BY <1>1, Invariance, PTL

\* A second attempt follows a failed first attempt of the same scorer, and each
\* of the two was made under a record that was READY and in force at its gate.
THEOREM RetrySafe == Spec => []RetryFollowsOwnFailure
<1>1. ASSUME NEW i, NEW at, Opened(i, at)
      PROVE  LET record == records[i].record
             IN  /\ record.decision = "READY"
                 /\ record.evaluatedAt <= at /\ at < record.expiresAt
                 /\ at < record.controlsUntil
                 /\ \A s \in DOMAIN record.roleAssignments :
                      /\ record.roleAssignments[s].status = "active"
                      /\ at < record.roleAssignments[s].validUntil
  BY <1>1 DEF Opened, ValidRecord, ValidAssignment
<1>2. IInv => \A r \in results : MadeUnderAValidRecord(r)
  BY <1>1 DEF IInv, ResultsHold, MadeUnderAValidRecord
<1>3. IInv => RetryFollowsOwnFailure
  BY <1>2 DEF IInv, FollowsFailure, RetryFollowsOwnFailure
<1> QED
  BY <1>3, Invariance, PTL

\* A scorer passes exactly with a sheet that earns it: the fixtures of the key,
\* ten or more, answered in its order, nearly all of them right and none
\* harmfully wrong.  This holds whatever the key and the answers.
THEOREM PassSafe == Spec => []PassIsEarned
<1>1. IInv => PassIsEarned
  <2> SUFFICES ASSUME IInv, NEW r \in results
               PROVE  r.result.pass <=>
                        /\ InKeyOrder(r.result.answers)
                        /\ Cardinality(Wrong(r.result.answers)) * 10 <= Len(Key)
                        /\ \A i \in Wrong(r.result.answers) : ~Harmful(r.result.answers, i)
    BY DEF PassIsEarned, Wrong, Harmful, InKeyOrder
  <2>1. r.result \in CalibrationResult /\ r.result.pass = Passes(r.result.answers)
    BY DEF IInv, ResultsHold
  <2>2. r.result.answers \in Sheets
    BY <2>1 DEF CalibrationResult
  <2> QED
    BY <2>1, <2>2, PassesMeans
<1> QED
  BY <1>1, Invariance, PTL

\* The key is read only under a record whose evidence carried it.
THEOREM GateSafe == Spec => []GateRestsOnEvidence
<1>1. IInv => GateRestsOnEvidence
  <2> SUFFICES ASSUME IInv, NEW o \in Openings
               PROVE
    LET e == records[o[1]]
        r == e.record
    IN  /\ r.evaluatedAt <= o[2] /\ o[2] < r.expiresAt
        /\ DOMAIN e.staff = Slots
        /\ \A s \in Slots : /\ e.staff[s].status = "active"
                            /\ o[2] < e.staff[s].validUntil
        /\ \A d \in Documents : /\ e.documents[d].sound
                                /\ r.evaluatedAt < e.documents[d].validUntil
        /\ e.documents["restoreEvidence"].topology = e.documents["topology"].topology
        /\ o[2] < e.documents["controls"].validUntil
        /\ e.incidents = {}
    BY DEF GateRestsOnEvidence
  <2>1. PICK i, at : o = <<i, at>> /\ Opened(i, at)
    <3>1. CASE \E r \in results : o = <<r.record, r.gateAt>>
      BY <3>1 DEF IInv, ResultsHold
    <3>2. CASE run # NoRun /\ o = <<run.record, run.at>>
      BY <3>2 DEF IInv, RunHolds
    <3> QED
      BY <3>1, <3>2 DEF Openings
  <2> DEFINE e == records[i]
             r == e.record
  <2>2. o[1] = i /\ o[2] = at
    BY <2>1
  <2>3. Faithful(e) /\ ValidRecord(r, at)
    BY <2>1 DEF Opened, IInv, RecordsHold
  <2> HIDE DEF e
  <2>4. /\ r.evaluatedAt <= at /\ at < r.expiresAt
        /\ at < r.controlsUntil /\ r.decision = "READY"
        /\ \A s \in DOMAIN r.roleAssignments : ValidAssignment(r.roleAssignments[s], at)
    BY <2>3 DEF ValidRecord
  <2>5. r = Evaluation(e.staff, e.documents, e.combinations, e.incidents,
                       r.evaluatedAt, r.expiresAt)
    BY <2>3 DEF Faithful
  <2>6. /\ r.controlsUntil = e.documents["controls"].validUntil
        /\ DOMAIN r.roleAssignments = DOMAIN e.staff
        /\ \A s \in DOMAIN e.staff :
             /\ r.roleAssignments[s].validUntil = e.staff[s].validUntil
             /\ r.roleAssignments[s].status = e.staff[s].status
        /\ Ready(e.staff, e.documents, e.combinations, e.incidents, r.evaluatedAt, r.expiresAt)
    <3> DEFINE ev == Evaluation(e.staff, e.documents, e.combinations, e.incidents,
                                r.evaluatedAt, r.expiresAt)
    <3>1. /\ ev.controlsUntil = e.documents["controls"].validUntil
          /\ ev.roleAssignments = [s \in DOMAIN e.staff |->
               [validUntil |-> e.staff[s].validUntil, status |-> e.staff[s].status]]
          /\ ev.decision =
               IF Ready(e.staff, e.documents, e.combinations, e.incidents,
                        r.evaluatedAt, r.expiresAt)
               THEN "READY" ELSE "BLOCKED"
      BY DEF Evaluation
    <3>2. r = ev
      BY <2>5
    <3> HIDE DEF ev
    <3> QED
      BY <2>4, <3>1, <3>2
  <2>7. DOMAIN e.staff = Slots
    BY <2>3, <2>6, AllSlotsFilled DEF Faithful, Ready, Separated
  <2>8. \A s \in Slots : e.staff[s].status = "active" /\ at < e.staff[s].validUntil
    BY <2>4, <2>6, <2>7 DEF ValidAssignment
  <2>9. \A d \in Documents : /\ e.documents[d].sound
                             /\ r.evaluatedAt < e.documents[d].validUntil
    BY <2>6 DEF Ready, Documents, Stands, ValidTopology, ValidRestoreEvidence,
                ValidRetentionPolicy, ValidHolds, FounderApproved, ControlsPass
  <2>10. /\ e.documents["restoreEvidence"].topology = e.documents["topology"].topology
         /\ e.incidents = {}
    BY <2>6 DEF Ready, ValidRestoreEvidence
  <2> QED
    BY <2>2, <2>4, <2>6, <2>7, <2>8, <2>9, <2>10 DEF e
<1> QED
  BY <1>1, Invariance, PTL

\* Two roles that separationFor lets one person hold.
MayMeet(a, b) == \/ a = b
                 \/ {a, b} \subseteq {"ADM", "OPR"}
                 \/ {a, b} \subseteq {"KEY", "PRV"}
                 \/ {a, b} \subseteq {"HDR", "REC"}

\* Two powers of one person are of one role or of an approved pair.
LEMMA TwoPowers ==
  ASSUME NEW staffing, DOMAIN staffing \subseteq Slots, NEW combos, NEW moment,
         Separated(staffing, combos, moment), NEW p \in Slots,
         NEW c, NEW x, NEW d, NEW y, Can(staffing, p, c, x), Can(staffing, p, d, y)
  PROVE  \E a, b \in ROLE_CODES : /\ AuthorizeAccess(a, c, x, TRUE, FALSE)
                                  /\ AuthorizeAccess(b, d, y, TRUE, FALSE)
                                  /\ MayMeet(a, b)
<1>1. PICK s \in DOMAIN staffing : /\ staffing[s].person = p
                                  /\ AuthorizeAccess(RoleOf(s), c, x, TRUE, FALSE)
  BY DEF Can
<1>2. PICK t \in DOMAIN staffing : /\ staffing[t].person = p
                                  /\ AuthorizeAccess(RoleOf(t), d, y, TRUE, FALSE)
  BY DEF Can
<1>3. s \in HeldBy(staffing, p) /\ t \in HeldBy(staffing, p)
  BY <1>1, <1>2 DEF HeldBy
<1>4. \A u \in Slots : RoleOf(u) \in ROLE_CODES
  BY DEF RoleOf, Slots, ROLE_CODES
<1>5. \/ RoleOf(s) = RoleOf(t)
      \/ {RoleOf(s), RoleOf(t)} \in {{"ADM", "OPR"}, {"KEY", "PRV"}, {"HDR", "REC"}}
  BY <1>3, RolesOfOne
<1>6. MayMeet(RoleOf(s), RoleOf(t))
  BY <1>5, Zenon DEF MayMeet
<1> QED
  BY <1>1, <1>2, <1>4, <1>6

\* Nobody holds powers that must not meet under a record that is READY.
THEOREM PowersSafe == Spec => []PowersStayApart
<1>1. IInv => PowersStayApart
  <2> SUFFICES ASSUME IInv, NEW i \in DOMAIN records, records[i].record.decision = "READY",
                      NEW p \in Slots
               PROVE
      /\ ~(Can(records[i].staff, p, "KEYS", "R") /\ Can(records[i].staff, p, "RAW", "R"))
      /\ ~(Can(records[i].staff, p, "KEYS", "R") /\ Can(records[i].staff, p, "CAL", "A"))
      /\ ~(Can(records[i].staff, p, "KEYS", "R") /\ Can(records[i].staff, p, "CAL", "X"))
      /\ ~(Can(records[i].staff, p, "RAW", "R") /\ Can(records[i].staff, p, "IDMAP", "R"))
      /\ ~(Can(records[i].staff, p, "BACKUP", "X") /\ Can(records[i].staff, p, "RAW", "M"))
    BY DEF PowersStayApart
  <2> DEFINE e == records[i]
  <2>1. Faithful(e)
    BY DEF IInv, RecordsHold
  <2> HIDE DEF e
  <2>2. e.record.decision = "READY"
    BY DEF e
  <2>3. Separated(e.staff, e.combinations, e.record.evaluatedAt)
    <3> DEFINE ev == Evaluation(e.staff, e.documents, e.combinations, e.incidents,
                                e.record.evaluatedAt, e.record.expiresAt)
    <3>1. e.record = ev
      BY <2>1 DEF Faithful
    <3>2. ev.decision =
            IF Ready(e.staff, e.documents, e.combinations, e.incidents,
                     e.record.evaluatedAt, e.record.expiresAt)
            THEN "READY" ELSE "BLOCKED"
      BY DEF Evaluation
    <3> HIDE DEF ev
    <3> QED
      BY <2>2, <3>1, <3>2 DEF Ready
  <2>4. DOMAIN e.staff \subseteq Slots
    BY <2>1 DEF Faithful
  <2>5. ~(Can(e.staff, p, "KEYS", "R") /\ Can(e.staff, p, "RAW", "R"))
    <3> SUFFICES ASSUME Can(e.staff, p, "KEYS", "R"), Can(e.staff, p, "RAW", "R") PROVE FALSE
      OBVIOUS
    <3>1. PICK a, b \in ROLE_CODES :
            /\ AuthorizeAccess(a, "KEYS", "R", TRUE, FALSE)
            /\ AuthorizeAccess(b, "RAW", "R", TRUE, FALSE)
            /\ MayMeet(a, b)
      BY <2>3, <2>4, TwoPowers
    <3> QED
      BY <3>1, WhoMay DEF MayMeet
  <2>6. ~(Can(e.staff, p, "KEYS", "R") /\ Can(e.staff, p, "CAL", "A"))
    <3> SUFFICES ASSUME Can(e.staff, p, "KEYS", "R"), Can(e.staff, p, "CAL", "A") PROVE FALSE
      OBVIOUS
    <3>1. PICK a, b \in ROLE_CODES :
            /\ AuthorizeAccess(a, "KEYS", "R", TRUE, FALSE)
            /\ AuthorizeAccess(b, "CAL", "A", TRUE, FALSE)
            /\ MayMeet(a, b)
      BY <2>3, <2>4, TwoPowers
    <3> QED
      BY <3>1, WhoMay DEF MayMeet
  <2>7. ~(Can(e.staff, p, "KEYS", "R") /\ Can(e.staff, p, "CAL", "X"))
    <3> SUFFICES ASSUME Can(e.staff, p, "KEYS", "R"), Can(e.staff, p, "CAL", "X") PROVE FALSE
      OBVIOUS
    <3>1. PICK a, b \in ROLE_CODES :
            /\ AuthorizeAccess(a, "KEYS", "R", TRUE, FALSE)
            /\ AuthorizeAccess(b, "CAL", "X", TRUE, FALSE)
            /\ MayMeet(a, b)
      BY <2>3, <2>4, TwoPowers
    <3> QED
      BY <3>1, WhoMay DEF MayMeet
  <2>8. ~(Can(e.staff, p, "RAW", "R") /\ Can(e.staff, p, "IDMAP", "R"))
    <3> SUFFICES ASSUME Can(e.staff, p, "RAW", "R"), Can(e.staff, p, "IDMAP", "R") PROVE FALSE
      OBVIOUS
    <3>1. PICK a, b \in ROLE_CODES :
            /\ AuthorizeAccess(a, "RAW", "R", TRUE, FALSE)
            /\ AuthorizeAccess(b, "IDMAP", "R", TRUE, FALSE)
            /\ MayMeet(a, b)
      BY <2>3, <2>4, TwoPowers
    <3> QED
      BY <3>1, WhoMay DEF MayMeet
  <2>9. ~(Can(e.staff, p, "BACKUP", "X") /\ Can(e.staff, p, "RAW", "M"))
    <3> SUFFICES ASSUME Can(e.staff, p, "BACKUP", "X"), Can(e.staff, p, "RAW", "M") PROVE FALSE
      OBVIOUS
    <3>1. PICK a, b \in ROLE_CODES :
            /\ AuthorizeAccess(a, "BACKUP", "X", TRUE, FALSE)
            /\ AuthorizeAccess(b, "RAW", "M", TRUE, FALSE)
            /\ MayMeet(a, b)
      BY <2>3, <2>4, TwoPowers
    <3> QED
      BY <3>1, WhoMay DEF MayMeet
  <2> QED
    BY <2>5, <2>6, <2>7, <2>8, <2>9 DEF e
<1> QED
  BY <1>1, Invariance, PTL
-----------------------------------------------------------------------------
(* What appending does to the custody ledger, for every chain and record.  *)

\* A record that the chain it joins can account for: what it corrects was
\* entered, and so was the incident it refers to.
Accounted(chain, record) ==
  /\ record.recordType = "correction" =>
       /\ record.bounded
       /\ \E j \in DOMAIN chain : chain[j].record.recordId = record.targetRecordId
  /\ record.recordType # "incident" /\ record.incidentId # NoIncident =>
       \E j \in DOMAIN chain : /\ chain[j].record.recordType = "incident"
                               /\ chain[j].record.incidentId = record.incidentId

\* The old places of a longer chain are what they were, heads included.
LEMMA AppendedPlaces ==
  ASSUME NEW S, NEW chain \in Seq(S), NEW e \in S
  PROVE  LET longer == Append(chain, e)
             last == Len(chain) + 1
         IN  /\ Len(chain) \in Nat /\ DOMAIN chain = 1..Len(chain)
             /\ Len(longer) = last /\ DOMAIN longer = 1..last
             /\ longer[last] = e
             /\ \A i \in DOMAIN chain : longer[i] = chain[i]
             /\ \A i \in DOMAIN chain : HeadBefore(longer, i) = HeadBefore(chain, i)
             /\ HeadBefore(longer, last) = CurrentHead(chain)
<1> DEFINE longer == Append(chain, e)
           last == Len(chain) + 1
<1>1. Len(chain) \in Nat /\ DOMAIN chain = 1..Len(chain)
  OBVIOUS
<1>2. Len(longer) = last /\ DOMAIN longer = 1..last /\ longer[last] = e
  OBVIOUS
<1>3. \A i \in DOMAIN chain : longer[i] = chain[i]
  OBVIOUS
<1>4. ASSUME NEW i \in DOMAIN chain
      PROVE  HeadBefore(longer, i) = HeadBefore(chain, i)
  <2>1. CASE i = 1
    BY <2>1 DEF HeadBefore
  <2>2. CASE i # 1
    <3>1. i - 1 \in DOMAIN chain
      BY <1>1, <2>2
    <3> QED
      BY <1>3, <2>2, <3>1 DEF HeadBefore
  <2> QED
    BY <2>1, <2>2
<1>5. HeadBefore(longer, last) = CurrentHead(chain)
  <2>1. CASE last = 1
    BY <2>1 DEF HeadBefore, CurrentHead
  <2>2. CASE last # 1
    <3>1. last - 1 \in DOMAIN chain
      BY <1>1, <2>2
    <3> QED
      BY <1>3, <2>2, <3>1 DEF HeadBefore, CurrentHead
  <2> QED
    BY <2>1, <2>2
<1> QED
  BY <1>1, <1>2, <1>3, <1>4, <1>5

\* appendLedgerRecord and validateLedgerChain agree: a record that is let in and
\* that the chain can account for leaves a valid chain valid.
THEOREM AppendKeepsValid ==
  ASSUME NEW S, NEW chain \in Seq(S), NEW record, NEW observedHead,
         SealLedgerRecord(record, CurrentHead(chain)) \in S,
         ValidLedgerChain(chain), Appendable(chain, record, observedHead),
         Accounted(chain, record)
  PROVE  ValidLedgerChain(AppendLedgerRecord(chain, record))
<1> DEFINE e == SealLedgerRecord(record, CurrentHead(chain))
           longer == Append(chain, e)
           last == Len(chain) + 1
<1>1. /\ Len(chain) \in Nat /\ DOMAIN chain = 1..Len(chain)
      /\ DOMAIN longer = 1..last /\ longer[last] = e
      /\ \A i \in DOMAIN chain : longer[i] = chain[i]
      /\ \A i \in DOMAIN chain : HeadBefore(longer, i) = HeadBefore(chain, i)
      /\ HeadBefore(longer, last) = CurrentHead(chain)
  BY AppendedPlaces
<1>2. \A i \in DOMAIN longer : i \in DOMAIN chain \/ i = last
  BY <1>1
<1>3. DOMAIN chain \subseteq DOMAIN longer
  BY <1>1
<1>4. e.record = record /\ e.recordDigest = <<CurrentHead(chain), record>>
  BY DEF SealLedgerRecord
<1> HIDE DEF e, longer, last
<1>5. Unbroken(longer)
  <2> SUFFICES ASSUME NEW i \in DOMAIN longer
               PROVE  longer[i] = SealLedgerRecord(longer[i].record, HeadBefore(longer, i))
    BY DEF Unbroken
  <2>1. CASE i \in DOMAIN chain
    BY <1>1, <2>1 DEF ValidLedgerChain, Unbroken
  <2>2. CASE i = last
    BY <1>1, <1>4, <2>2 DEF e
  <2> QED
    BY <1>2, <2>1, <2>2
<1>6. NotReplayed(longer)
  <2>1. \A i \in DOMAIN chain : chain[i].record.recordId # record.recordId
    BY DEF Appendable
  <2>2. \A i \in DOMAIN chain : chain[i].recordDigest = <<chain[i].previousDigest, chain[i].record>>
    BY DEF ValidLedgerChain, Unbroken, SealLedgerRecord
  <2>3. \A i \in DOMAIN chain : /\ chain[i].record.recordId # e.record.recordId
                                /\ chain[i].recordDigest # e.recordDigest
    BY <1>4, <2>1, <2>2
  <2> QED
    BY <1>1, <1>2, <2>3 DEF NotReplayed, ValidLedgerChain
<1>7. ASSUME NEW i \in DOMAIN longer
      PROVE  CorrectionHolds(longer, i)
  <2>1. CASE i \in DOMAIN chain
    <3>1. \A j \in 1..i : j \in DOMAIN chain
      BY <1>1, <2>1
    <3> QED
      BY <1>1, <2>1, <3>1 DEF CorrectionHolds, ValidLedgerChain
  <2>2. CASE i = last
    <3>1. \A j \in DOMAIN chain : j \in 1..i
      BY <1>1, <2>2 DEF last
    <3> QED
      BY <1>1, <1>4, <2>2, <3>1 DEF CorrectionHolds, Accounted
  <2> QED
    BY <1>2, <2>1, <2>2
<1>8. ASSUME NEW i \in DOMAIN longer
      PROVE  IncidentIsThere(longer, i)
  <2>1. CASE i \in DOMAIN chain
    BY <1>1, <1>3, <2>1 DEF IncidentIsThere, ValidLedgerChain
  <2>2. CASE i = last
    BY <1>1, <1>3, <1>4, <2>2 DEF IncidentIsThere, Accounted
  <2> QED
    BY <1>2, <2>1, <2>2
<1> QED
  BY <1>5, <1>6, <1>7, <1>8 DEF ValidLedgerChain, AppendLedgerRecord, longer, e
=============================================================================
