---------------------------- MODULE RoleCustody ----------------------------
(***************************************************************************)
(* The checks on who holds which role and on the evidence that lets scorer *)
(* calibration begin (server/evaluation/role-custody-readiness.ts).  The   *)
(* code has no state: these operators are its functions.                   *)
(*                                                                         *)
(* A document is reduced to the moment it lapses and to whether the rest   *)
(* of it (schema, digests, references, formats) is sound.  Two assignments *)
(* can be of role SCR, hence slots: one for each assignment wanted.        *)
(***************************************************************************)
EXTENDS Naturals, FiniteSets

ROLE_CODES == {"SCR", "ADJ", "OPR", "ADM", "KEY", "REC", "PRV", "RCV", "HDR"}
STORAGE_CLASSES ==
  {"IDMAP", "RAW", "LEDGER", "CAL", "PRES", "KEYS", "BACKUP", "INC"}
Permissions == {"R", "A", "M", "X"}

Slots == (ROLE_CODES \ {"SCR"}) \cup {"SCR-1", "SCR-2"}
RoleOf(slot) == IF slot \in {"SCR-1", "SCR-2"} THEN "SCR" ELSE slot

\* A person has the name of a slot: the one filled by them if nobody doubles.
RoleAssignment == [person : Slots, validUntil : Nat,
                   status : {"active", "revoked"}]
\* The other documents, each with its validity, whether its content holds, and
\* the topology it describes or was made in: "controls" stands for the twenty
\* readiness controls, which are alike, and "holds" for the earliest review.
Documents == {"topology", "restoreEvidence", "retentionPolicy", "holds",
              "founderApproval", "controls"}
Document == [validUntil : Nat, sound : BOOLEAN, topology : {"one", "other"}]
ConditionalCombination ==
  [roles : {{a, b} : a, b \in ROLE_CODES}, rationaleCode : STRING,
   validUntil : Nat]
-----------------------------------------------------------------------------
\* ACCESS_MATRIX: what each assigned role may do with each storage class.
ACCESS_MATRIX(role, class) ==
  CASE role = "SCR" /\ class \in {"RAW", "LEDGER", "PRES"} -> {"R"}
    [] role = "SCR" /\ class = "CAL" -> {"R", "A"}
    [] role = "OPR" /\ class = "IDMAP" -> {"R", "A"}
    [] role = "OPR" /\ class \in {"RAW", "PRES"} -> {"X"}
    [] role = "OPR" /\ class = "CAL" -> {"M"}
    [] role = "ADM" /\ class = "IDMAP" -> {"M"}
    [] role = "ADM" /\ class = "CAL" -> {"R", "X"}
    [] role = "ADM" /\ class = "PRES" -> {"R"}
    [] role = "ADM" /\ class = "KEYS" -> {"X"}
    [] role \in {"KEY", "REC"} /\ class = "CAL" -> {"R"}
    [] role = "KEY" /\ class = "PRES" -> {"M"}
    [] role = "KEY" /\ class = "KEYS" -> {"R", "X"}
    [] role = "PRV" /\ class # "INC" -> {"M"}
    [] role = "RCV" /\ class = "LEDGER" -> {"R"}
    [] role = "RCV" /\ class = "BACKUP" -> {"X"}
    [] role = "HDR" /\ class = "LEDGER" -> {"R", "A"}
    [] role = "HDR" /\ class = "INC" -> {"R"}
    [] role = "ADJ" /\ class = "RAW" -> {"R"}
    [] role \in {"OPR", "ADM", "KEY", "REC", "ADJ"} /\ class = "LEDGER" -> {"A"}
    [] role # "HDR" /\ class = "INC" -> {"A", "R"}
    [] OTHER -> {}

ASSUME AccessMatrixAssumption ==
  \A role \in ROLE_CODES, class \in STORAGE_CLASSES :
    ACCESS_MATRIX(role, class) \subseteq Permissions

\* authorizeAccess, for an access in scope and logged.
AuthorizeAccess(role, class, permission, active, incidentException) ==
  /\ active
  /\ IF /\ role = "PRV" /\ permission = "R"
        /\ class \in {"IDMAP", "RAW", "CAL", "PRES", "KEYS", "BACKUP"}
     THEN incidentException
     ELSE permission \in ACCESS_MATRIX(role, class)
-----------------------------------------------------------------------------
(* The separation of roles.  A staffing gives each listed slot its         *)
(* assignment; combinations hold one approval per pair at most.            *)

RequiredNumber(role) == IF role = "SCR" THEN 2 ELSE 1
Filled(staff, role) == {s \in DOMAIN staff : RoleOf(s) = role}
HeldByAlias(staff, person) == DOMAIN staff \cap {person}
HeldBy(staff, person) == {s \in DOMAIN staff : staff[s].person = person}

\* CONDITIONALS: the pairs of roles one person may hold, with approval.
CONDITIONALS == {<<{"ADM", "OPR"}, "mechanical_administration">>,
                 <<{"KEY", "PRV"}, "compartmented_privacy_key">>,
                 <<{"HDR", "REC"}, "read_only_recorder_witness">>}

Approved(roles, combinations, now) ==
  \E c \in combinations :
    /\ c.roles = roles
    /\ now < c.validUntil
    /\ <<roles, c.rationaleCode>> \in CONDITIONALS

\* validateSeparation gives no reason.
Separated(staff, combinations, now) ==
  /\ \A role \in ROLE_CODES :
       Cardinality(Filled(staff, role)) = RequiredNumber(role)
  /\ \A p \in Slots :
       LET held == HeldBy(staff, p)
           roles == {RoleOf(s) : s \in held}
       IN  Cardinality(held) > 1 =>
             /\ Cardinality(held) = 2
             /\ Approved(roles, combinations, now)
  /\ \A c \in combinations :
       /\ <<c.roles, c.rationaleCode>> \in CONDITIONALS
       /\ \E p \in Slots : /\ Cardinality(HeldBy(staff, p)) = 2
                           /\ {RoleOf(s) : s \in HeldBy(staff, p)} = c.roles
  /\ Cardinality({staff[s].person : s \in Filled(staff, "SCR")}) = 2
-----------------------------------------------------------------------------
(* Collective readiness: the decision, the record of it, and the gate that *)
(* takes a record for the decision later.                                  *)

ValidAssignment(assignment, now) ==
  assignment.status = "active" /\ now < assignment.validUntil

Stands(document, now) == document.sound /\ now < document.validUntil

ValidTopology(documents, now) == Stands(documents["topology"], now)
\* A restore counts for the topology it was rehearsed in, and no other.
ValidRestoreEvidence(documents, now) ==
  /\ Stands(documents["restoreEvidence"], now)
  /\ documents["restoreEvidence"].topology = documents["topology"].topology
ValidRetentionPolicy(documents, now) == Stands(documents["retentionPolicy"], now)
ValidHolds(documents, now) == Stands(documents["holds"], now)
FounderApproved(documents, now) == Stands(documents["founderApproval"], now)
ControlsPass(documents, now) == Stands(documents["controls"], now)

\* evaluateCollectiveReadiness finds no reason.
Ready(staff, documents, combinations, openIncidents, now, expiresAt) ==
  /\ now < expiresAt
  /\ \A s \in DOMAIN staff : ValidAssignment(staff[s], now)
  /\ Separated(staff, combinations, now)
  /\ ValidTopology(documents, now) /\ ValidRestoreEvidence(documents, now)
  /\ ValidRetentionPolicy(documents, now) /\ ValidHolds(documents, now)
  /\ FounderApproved(documents, now) /\ ControlsPass(documents, now)
  /\ openIncidents = {}

IsCollectiveReadinessRecord(r) ==
  /\ r.evaluatedAt \in Nat /\ r.expiresAt \in Nat /\ r.controlsUntil \in Nat
  /\ DOMAIN r.roleAssignments \subseteq Slots
  /\ \A s \in DOMAIN r.roleAssignments :
       r.roleAssignments[s] \in [validUntil : Nat, status : {"active", "revoked"}]
  /\ r.decision \in {"READY", "BLOCKED"}

Evaluation(staff, documents, combinations, openIncidents, now, expiresAt) ==
  [evaluatedAt |-> now, expiresAt |-> expiresAt,
   roleAssignments |-> [s \in DOMAIN staff |->
     [validUntil |-> staff[s].validUntil, status |-> staff[s].status]],
   controlsUntil |-> documents["controls"].validUntil,
   decision |-> IF Ready(staff, documents, combinations, openIncidents, now, expiresAt)
                THEN "READY" ELSE "BLOCKED"]

\* validateCollectiveReadinessRecord, and with it scorerCalibrationGate: what
\* the record repeats of the evidence is judged again, the rest is not.
ValidRecordOnce(record, now) ==
  /\ record.evaluatedAt <= now /\ now < record.expiresAt
  /\ record.decision = "READY"
ValidRecord(record, now) ==
  /\ record.evaluatedAt <= now /\ now < record.expiresAt
  /\ \A role \in ROLE_CODES : Cardinality({s \in DOMAIN record.roleAssignments :
       RoleOf(s) = role}) = RequiredNumber(role)
  /\ \A s \in DOMAIN record.roleAssignments :
       ValidAssignment(record.roleAssignments[s], now)
  /\ now < record.controlsUntil
  /\ record.decision = "READY"
=============================================================================
