-------------------------- MODULE GatedCalibration --------------------------
(***************************************************************************)
(* Collective readiness and the calibration it gates, as the operators run *)
(* them: the readiness evaluation writes a record, and                     *)
(* scripts/run-readiness-gated-scorer-calibration.ts takes one, checks it  *)
(* against the clock, and only then reads the answer key and writes a      *)
(* result.  Between those steps time passes, assignments are revoked and   *)
(* incidents are opened or closed, by people outside the code.             *)
(*                                                                         *)
(* People are taken to hand the functions what is true: an evaluation gets *)
(* the present evidence and the present time, and a prior attempt is one   *)
(* of the results written.  Submissions are files that may exist at will.  *)
(***************************************************************************)
EXTENDS RoleCustody, ScorerCalibration

CONSTANTS
  Starts,        \* what holds at first: [staff, documents, combinations]
  Incidents,     \* incidents that can be open
  Revocable,     \* bound: the slots whose assignment may be revoked
  Expiries,      \* bound: the moments a caller lets a record expire
  MaxTime,       \* bound: the last moment
  MaxRecords,    \* bound: readiness records
  MaxResults     \* bound: calibration results, and attempts begun

\* Assignments, documents and approvals come in the shapes the code parses.
ASSUME StartsAssumption ==
  \A s \in Starts :
    /\ DOMAIN s.staff \subseteq Slots
    /\ \A slot \in DOMAIN s.staff : s.staff[slot] \in RoleAssignment
    /\ s.documents \in [Documents -> Document]
    /\ s.combinations \subseteq ConditionalCombination
ASSUME MomentsAssumption == MaxTime \in Nat /\ Expiries \subseteq Nat

VARIABLES
  now,
  staff, documents, combinations, incidents,  \* the evidence as it stands
  records,      \* readiness records written, each with what was judged
  run,          \* the calibration script: NoRun, or what it has read
  results       \* calibration results written, each with its authorization

vars == <<now, staff, documents, combinations, incidents, records, run, results>>

NoRun == [record |-> 0]
Moments == 0 .. MaxTime
-----------------------------------------------------------------------------
Init ==
  /\ now = 0
  /\ \E s \in Starts : /\ staff = s.staff
                       /\ documents = s.documents
                       /\ combinations = s.combinations
  /\ incidents = {}
  /\ records = <<>>
  /\ run = NoRun
  /\ results = {}

Tick ==
  /\ now < MaxTime
  /\ now' = now + 1
  /\ UNCHANGED <<staff, documents, combinations, incidents, records, run, results>>

\* People: an assignment is revoked, or taken off the list; an incident
\* is opened or closed.
Revoke(s) ==
  /\ staff[s].status = "active"
  /\ staff' = [staff EXCEPT ![s].status = "revoked"]
  /\ UNCHANGED <<now, documents, combinations, incidents, records, run, results>>

TakeOff(s) ==
  /\ staff[s].status = "revoked"
  /\ staff' = [t \in DOMAIN staff \ {s} |-> staff[t]]
  /\ UNCHANGED <<now, documents, combinations, incidents, records, run, results>>

ChangeIncident(i) ==
  /\ incidents' = IF i \in incidents THEN incidents \ {i} ELSE incidents \cup {i}
  /\ UNCHANGED <<now, staff, documents, combinations, records, run, results>>

\* evaluateCollectiveReadiness, on what stands now.  expiresAt is the caller's.
Evaluate(expiresAt) ==
  /\ Len(records) < MaxRecords
  /\ records' = Append(records,
       [record |-> Evaluation(staff, documents, combinations, incidents, now, expiresAt),
        staff |-> staff, documents |-> documents, combinations |-> combinations,
        incidents |-> incidents])
  /\ UNCHANGED <<now, staff, documents, combinations, incidents, run, results>>

\* Attempt ids are fresh: the attempts begun have the ids 1, 2, ...
NewSubmissions ==
  {s \in LockedSubmission : s.attemptId = Cardinality(results) + 1}
Priors == {r.result : r \in results} \cup {None}

\* The script up to loadKey: the gate, then the submission, the scorer's
\* attestation and the prior attempt.
BeginRun(i) ==
  /\ run = NoRun
  /\ Cardinality(results) < MaxResults
  /\ ValidRecord(records[i].record, now)
  /\ \E submission \in NewSubmissions, attestation \in Attestations, prior \in Priors :
       /\ EligibilityHolds(submission, attestation)
       /\ PrerequisitesHold(submission, prior)
       /\ run' = [record |-> i, at |-> now, submission |-> submission, prior |-> prior]
  /\ UNCHANGED <<now, staff, documents, combinations, incidents, records, results>>

\* The key is loaded and compared; the result goes to a file of its own.
FinishRun ==
  /\ run # NoRun
  /\ results' = results \cup
       {[result |-> Comparison(run.submission, run.prior),
         record |-> run.record, gateAt |-> run.at]}
  /\ run' = NoRun
  /\ UNCHANGED <<now, staff, documents, combinations, incidents, records>>

\* The script stops on an error (a key that does not match, a result file
\* that is there) or with its process: nothing was written.
StopRun ==
  /\ run # NoRun
  /\ run' = NoRun
  /\ UNCHANGED <<now, staff, documents, combinations, incidents, records, results>>

Next ==
  \/ Tick
  \/ \E s \in DOMAIN staff \cap Revocable : Revoke(s) \/ TakeOff(s)
  \/ \E i \in Incidents : ChangeIncident(i)
  \/ \E t \in Expiries : Evaluate(t)
  \/ \E i \in DOMAIN records : BeginRun(i)
  \/ FinishRun
  \/ StopRun

Spec == Init /\ [][Next]_vars
-----------------------------------------------------------------------------
\* The evidence, the records and the results are well formed.
TypeOK ==
  /\ now \in Moments
  /\ DOMAIN staff \subseteq Slots
  /\ \A s \in DOMAIN staff : staff[s] \in RoleAssignment
  /\ documents \in [Documents -> Document]
  /\ combinations \subseteq ConditionalCombination
  /\ incidents \subseteq Incidents
  /\ \A i \in DOMAIN records : IsCollectiveReadinessRecord(records[i].record)
  /\ \A r \in results : /\ r.result \in CalibrationResult
                        /\ r.record \in DOMAIN records

\* The key is read only under a record whose evidence carried it: at the
\* evaluation every role had its people, every document was valid and nothing
\* was open, and at the gate no assignment or control it lists had lapsed.
Openings == {<<r.record, r.gateAt>> : r \in results}
              \cup IF run = NoRun THEN {} ELSE {<<run.record, run.at>>}
GateRestsOnEvidence ==
  \A o \in Openings :
    LET e == records[o[1]]
        r == e.record
    IN  /\ r.evaluatedAt <= o[2] /\ o[2] < r.expiresAt
        /\ DOMAIN e.staff = Slots
        /\ \A s \in Slots : /\ e.staff[s].status = "active"
                            /\ o[2] < e.staff[s].validUntil
        /\ \A d \in Documents : /\ e.documents[d].sound
                                /\ r.evaluatedAt < e.documents[d].validUntil
        /\ e.documents["restoreEvidence"].topology = e.documents["topology"].topology
        /\ o[2] < e.documents["controls"].validUntil
        /\ e.incidents = {}

\* Nobody holds powers that must not meet under a record that is READY: the
\* keys and the raw answers, the keys and the scoring, running a comparison
\* and reading its keys.  Roles alone would allow each of these pairs.
Can(st, person, class, permission) ==
  \E s \in DOMAIN st :
    /\ st[s].person = person
    /\ AuthorizeAccess(RoleOf(s), class, permission, TRUE, FALSE)
PowersStayApart ==
  \A i \in DOMAIN records : records[i].record.decision = "READY" =>
    \A p \in Slots :
      LET can(class, permission) == Can(records[i].staff, p, class, permission) IN
      /\ ~(can("KEYS", "R") /\ can("RAW", "R"))
      /\ ~(can("KEYS", "R") /\ can("CAL", "A"))
      /\ ~(can("KEYS", "R") /\ can("CAL", "X"))
      /\ ~(can("RAW", "R") /\ can("IDMAP", "R"))
      /\ ~(can("BACKUP", "X") /\ can("RAW", "M"))

\* The record a result was made under let it: READY, in force when the run
\* passed its gate, and listing nobody who was not assigned then.
MadeUnderAValidRecord(r) ==
  LET record == records[r.record].record
  IN  /\ record.decision = "READY"
      /\ record.evaluatedAt <= r.gateAt /\ r.gateAt < record.expiresAt
      /\ r.gateAt < record.controlsUntil
      /\ \A s \in DOMAIN record.roleAssignments :
           /\ record.roleAssignments[s].status = "active"
           /\ r.gateAt < record.roleAssignments[s].validUntil

\* A second attempt follows a failed first attempt of the same scorer, and
\* each of the two was made under a record that was valid when it began.
RetryFollowsOwnFailure ==
  \A r \in results : r.result.attemptNumber = 2 =>
    /\ MadeUnderAValidRecord(r)
    /\ \E q \in results :
         /\ q.result.attemptId = r.result.priorAttemptId
         /\ q.result.scorerAlias = r.result.scorerAlias
         /\ q.result.attemptNumber = 1
         /\ ~q.result.pass
         /\ q.gateAt <= r.gateAt
         /\ MadeUnderAValidRecord(q)

\* A scorer passes exactly with a sheet that answers the fixtures of the key,
\* ten or more, one by one in its order, with at most one answer in ten that
\* differs, and none that crosses the unsafe boundary or finds demonstrated
\* what a critical rule says is not.
PassIsEarned ==
  \A r \in results :
    LET sheet == r.result.answers
        wrong == {i \in DOMAIN sheet \cap DOMAIN Key : sheet[i].label # Key[i].expectedLabel}
        harmful(i) ==
          \/ "unsafe" \in {sheet[i].label, Key[i].expectedLabel}
          \/ /\ sheet[i].label = "demonstrated"
             /\ \/ Key[i].critical = "control"
                \/ Key[i].critical = "ambiguous" /\ Key[i].expectedLabel = "ambiguous"
    IN  r.result.pass <=> /\ Len(Key) >= 10
                          /\ DOMAIN sheet = DOMAIN Key
                          /\ \A i \in DOMAIN Key : sheet[i].fixtureId = Key[i].fixtureId
                          /\ Cardinality(wrong) * 10 <= Len(Key)
                          /\ \A i \in wrong : ~harmful(i)

\* docs/sprints/sprint-6.5.4-role-custody-readiness-protocol-design-v1.md:365:
\* "The record expires at the earliest assignment/control/evidence expiry":
\* no key is read once any evidence the record rests on has lapsed.
RecordExpiresWithItsEvidence ==
  \A o \in Openings : \A d \in Documents :
    o[2] < records[o[1]].documents[d].validUntil
=============================================================================
