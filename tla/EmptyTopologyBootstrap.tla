----------------------- MODULE EmptyTopologyBootstrap -----------------------
(***************************************************************************)
(* The rehearsal of the custody topology on an empty private root          *)
(* (server/evaluation/empty-topology-bootstrap.ts, started by              *)
(* scripts/run-empty-topology-bootstrap.ts): directories are made, filled  *)
(* with synthetic files, backed up, restored beside them, compared and     *)
(* emptied again, and only then is the evidence written.                   *)
(*                                                                         *)
(* Each step is one call of the file system, so a second process on the    *)
(* same root, a call that fails or a process that dies can come between    *)
(* any two; so is each removal of the clean-up, whose failures the code    *)
(* swallows.  Removing a directory tree is one step, which may fail and     *)
(* leave a part.  Keys, digests and modes are taken to be right: a file is  *)
(* its name, and the archive and what is decrypted from the backup are the  *)
(* same set of files.                                                       *)
(***************************************************************************)
EXTENDS Naturals, Sequences, Functions, FiniteSets

CONSTANTS
  Runs,          \* processes started with the same private root
  MaxUnremoved,  \* bound: files one clean-up fails to remove
  None

ASSUME RunsAssumption == None \notin Runs

VARIABLES
  root,          \* the private root: "absent", "made", or "laid out"
  compartments,  \* the synthetic files in the compartments
  target,        \* files in the restore target, None when it is not there
  evidence,      \* bounded-evidence.json in the root: the records written there
  published,     \* records that were also written where the process was told
  phase,         \* run |-> how far it is: waiting, running, failing, ...
  step,          \* run |-> its place in Program
  ephemeral,     \* run |-> ephemeralPaths, the files it means to remove, or in
                 \* its clean-up those it has not come to
  unremoved,     \* for checking: run |-> what its clean-up failed to remove
  owner,         \* for checking: the run that made the root
  disturbed      \* for checking: runs that were refused, or that a failed call, a
                 \* crash or another run on the same root came in the way of

bootstrapVars == <<root, compartments, target, evidence, published, phase, step,
                   ephemeral, unremoved, owner, disturbed>>
-----------------------------------------------------------------------------
BOOTSTRAP_STORAGE_CLASSES == <<"IDMAP", "RAW", "LEDGER", "CAL", "PRES", "KEYS", "BACKUP", "INC">>
SOURCE_CLASSES == <<"IDMAP", "RAW", "LEDGER", "CAL", "PRES", "KEYS", "INC">>
Classes == Range(BOOTSTRAP_STORAGE_CLASSES)

Template(class) == <<class, "access-template">>
LedgerFile == <<"LEDGER", "ledger">>
IncidentFile == <<"INC", "incident">>
BackupFile == <<"BACKUP", "backup">>
RestoreTarget == <<"root", "isolated-restore-target">>

Templates(classes) == [i \in DOMAIN classes |-> Template(classes[i])]
\* Everything but what lies in BACKUP is archived, and restored in this order.
Archive == Templates(SOURCE_CLASSES) \o <<LedgerFile, IncidentFile>>
Written == Templates(BOOTSTRAP_STORAGE_CLASSES) \o <<LedgerFile, IncidentFile, BackupFile>>

Op(op) == [op |-> op, file |-> None]
Each(op, files) == [i \in DOMAIN files |-> [op |-> op, file |-> files[i]]]

\* runOperationalEmptyBootstrap, call by call.
ProgramEvidenceFirst ==
  <<Op("root"), Op("layout")>> \o Each("write", Written)
    \o <<Op("target")>> \o Each("restore", Archive) \o <<Op("verify"), Op("drop")>>
    \o <<Op("evidence")>> \o Each("remove", Written) \o <<Op("check")>>
Program ==
  <<Op("root"), Op("layout")>> \o Each("write", Written)
    \o <<Op("target")>> \o Each("restore", Archive) \o <<Op("verify"), Op("drop")>>
    \o Each("remove", Written) \o <<Op("check"), Op("evidence")>>

\* Files are registered for removal once they are written; the ledger file
\* together with the incident file, which is written after it.
RegistersLast(f) == IF f = LedgerFile THEN {} ELSE {f}
Registers(f) == CASE f = LedgerFile -> {}
                  [] f = IncidentFile -> {LedgerFile, IncidentFile}
                  [] OTHER -> {f}

\* The evidence as far as it tells of the root and of the restored backup.
\* What it says was restored was read while the restore target was there, and
\* what it says is empty was empty when it was listed.
EmptyBootstrapEvidence(r) ==
  [bootstrapRunId |-> r,
   compartments |-> [class \in Classes |-> "EMPTY"],
   coveredClasses |-> Range(SOURCE_CLASSES),
   sourceManifest |-> Archive,        restoredManifest |-> Archive,
   expectedRecordCount |-> Len(Archive), restoredRecordCount |-> Len(Archive),
   cleanupVerified |-> TRUE]

\* validateEmptyBootstrapEvidence: asked before the evidence is written, and of
\* whatever evidence readiness is evaluated on.
ValidEmptyBootstrapEvidence(e) ==
  /\ DOMAIN e.compartments = Classes
  /\ \A class \in DOMAIN e.compartments : e.compartments[class] = "EMPTY"
  /\ Cardinality(e.coveredClasses) = Len(BOOTSTRAP_STORAGE_CLASSES) - 1
  /\ "BACKUP" \notin e.coveredClasses
  /\ e.sourceManifest = e.restoredManifest
  /\ e.expectedRecordCount = e.restoredRecordCount
  /\ e.cleanupVerified

Running(r) == phase[r] = "running"
Now(r) == Program[step[r]]
Over(r) == phase[r] \in {"refused", "failed", "crashed", "published", "unpublished"}
-----------------------------------------------------------------------------
BootstrapInit ==
  /\ root = "absent"
  /\ compartments = {}
  /\ target = None
  /\ evidence = {} /\ published = {}
  /\ phase = [r \in Runs |-> "waiting"]
  /\ step = [r \in Runs |-> 1]
  /\ ephemeral = [r \in Runs |-> {}]
  /\ unremoved = [r \in Runs |-> {}]
  /\ owner = None
  /\ disturbed = {}

\* The checks of the arguments, which throw before anything is done.
Start(r) ==
  /\ phase[r] = "waiting"
  /\ \/ phase' = [phase EXCEPT ![r] = "running"] /\ UNCHANGED disturbed
     \/ phase' = [phase EXCEPT ![r] = "refused"] /\ disturbed' = disturbed \cup {r}
  /\ UNCHANGED <<root, compartments, target, evidence, published, step, ephemeral,
                 unremoved, owner>>

Advance(r) ==
  IF step[r] = Len(Program)
  THEN phase' = [phase EXCEPT ![r] = "returning"] /\ UNCHANGED step
  ELSE step' = [step EXCEPT ![r] = @ + 1] /\ UNCHANGED phase
Raise(r) == phase' = [phase EXCEPT ![r] = "failing"] /\ UNCHANGED step

Contents(dir) == IF dir = None THEN {} ELSE dir

\* What each call needs, or it throws.
Possible(r) ==
  CASE Now(r).op = "root" -> root = "absent"
    [] Now(r).op = "target" -> target = None
    [] Now(r).op = "restore" -> Now(r).file \notin Contents(target)
    [] Now(r).op = "verify" -> Range(Archive) \subseteq Contents(target)
    [] Now(r).op = "drop" -> target # None
    [] Now(r).op = "remove" -> Now(r).file \in ephemeral[r] => Now(r).file \in compartments
    [] Now(r).op = "check" -> compartments = {}
    [] Now(r).op = "evidence" -> ValidEmptyBootstrapEvidence(EmptyBootstrapEvidence(r))
    [] OTHER -> TRUE

\* What a call does.  A restored file's directories are made anew if needed.
Effect(r) ==
  LET op == Now(r).op
      f == Now(r).file
  IN  /\ root' = CASE op = "root" -> "made" [] op = "layout" -> "laid out" [] OTHER -> root
      /\ owner' = IF op = "root" THEN r ELSE owner
      /\ compartments' = CASE op = "write" -> compartments \cup {f}
                           [] op = "remove" -> compartments \ ({f} \cap ephemeral[r])
                           [] OTHER -> compartments
      /\ target' = CASE op = "target" -> {}
                     [] op = "restore" -> Contents(target) \cup {f}
                     [] op = "drop" -> None
                     [] OTHER -> target
      /\ evidence' = IF op = "evidence"
                      THEN evidence \cup {EmptyBootstrapEvidence(r)} ELSE evidence

\* ephemeralPaths is emptied with the listing that follows the last removal.
Step(r) ==
  /\ Running(r)
  /\ IF Possible(r)
     THEN /\ Effect(r)
          /\ ephemeral' = [ephemeral EXCEPT ![r] =
               CASE Now(r).op = "write" -> @ \cup Registers(Now(r).file)
                 [] Now(r).op = "check" -> {}
                 [] OTHER -> @]
          /\ Advance(r)
          /\ UNCHANGED <<published, unremoved, disturbed>>
     ELSE /\ Raise(r)
          /\ disturbed' = IF Now(r).op = "root" THEN disturbed \cup {r} ELSE disturbed
          /\ UNCHANGED <<root, compartments, target, evidence, published, ephemeral,
                         unremoved, owner>>

\* A call that fails, or the process with it, having done its work or not.
Broken(r) == Effect(r) \/ UNCHANGED <<root, compartments, target, evidence, owner>>
Fault(r) ==
  /\ Running(r) /\ Possible(r)
  /\ Broken(r)
  /\ Raise(r)
  /\ disturbed' = disturbed \cup {r}
  /\ UNCHANGED <<published, ephemeral, unremoved>>
Die(r) ==
  /\ Running(r) \/ phase[r] \in {"failing", "returning", "returned"}
  /\ IF Running(r) /\ Possible(r) THEN Broken(r)
     ELSE UNCHANGED <<root, compartments, target, evidence, owner>>
  /\ phase' = [phase EXCEPT ![r] = "crashed"]
  /\ disturbed' = disturbed \cup {r}
  /\ UNCHANGED <<published, step, ephemeral, unremoved>>

Cleaning(r) == phase[r] \in {"failing", "returning"}

\* finally: the registered files go one by one, in the order of their
\* registration.  One that cannot be removed stays, and the loop goes on.
IsFirst(f, files) ==
  \E i \in DOMAIN Written : /\ f = Written[i] /\ f \in files
                            /\ \A j \in 1 .. i - 1 : Written[j] \notin files
Throws(r) == phase' = [phase EXCEPT ![r] = "failed"]
GoesOn(r) == UNCHANGED phase
RemoveFile(r) ==
  \E f \in ephemeral[r] :
    /\ Cleaning(r) /\ IsFirst(f, ephemeral[r])
    /\ ephemeral' = [ephemeral EXCEPT ![r] = @ \ {f}]
    /\ \/ /\ compartments' = compartments \ {f}
          /\ UNCHANGED <<phase, unremoved>>
       \/ /\ f \in compartments
          /\ Cardinality(unremoved[r]) < MaxUnremoved
          /\ unremoved' = [unremoved EXCEPT ![r] = @ \cup {f}]
          /\ GoesOn(r)
          /\ UNCHANGED compartments
    /\ UNCHANGED <<root, target, evidence, published, step, owner, disturbed>>

\* What a removal of a tree that fails leaves of it: one file that is missing is
\* as good as all to the one call that asks, the comparison with the backup.
Parts(dir) == {dir, {}}

\* Then the restore target goes, whoever made it, or what of it can be removed.
RemoveTarget(r) ==
  /\ Cleaning(r) /\ ephemeral[r] = {}
  /\ \/ target' = None /\ UNCHANGED unremoved
     \/ /\ target # None /\ target' \in Parts(target)
        /\ unremoved' = [unremoved EXCEPT ![r] = @ \cup {RestoreTarget}]
  /\ disturbed' = IF target # None /\ owner # r THEN disturbed \cup {owner} ELSE disturbed
  /\ phase' = [phase EXCEPT ![r] = IF @ = "failing" THEN "failed" ELSE "returned"]
  /\ UNCHANGED <<root, compartments, evidence, published, step, ephemeral, owner>>

\* The script writes the evidence where it was told, to a new file only,
\* and reports the readiness that follows.
Publish(r) ==
  /\ phase[r] = "returned"
  /\ \/ /\ published' = published \cup {EmptyBootstrapEvidence(r)}
        /\ phase' = [phase EXCEPT ![r] = "published"]
        /\ UNCHANGED disturbed
     \/ /\ phase' = [phase EXCEPT ![r] = "unpublished"]
        /\ disturbed' = disturbed \cup {r}
        /\ UNCHANGED published
  /\ UNCHANGED <<root, compartments, target, evidence, step, ephemeral, unremoved, owner>>

BootstrapNext ==
  \E r \in Runs : \/ Start(r) \/ Step(r) \/ Fault(r) \/ Die(r)
                 \/ RemoveFile(r) \/ RemoveTarget(r) \/ Publish(r)

\* A process that runs goes on until it has ended.
Fairness ==
  \A r \in Runs :
    WF_bootstrapVars(Step(r) \/ RemoveFile(r) \/ RemoveTarget(r) \/ Publish(r))
BootstrapSpec == BootstrapInit /\ [][BootstrapNext]_bootstrapVars /\ Fairness
-----------------------------------------------------------------------------
\* evaluateBootstrapCollectiveReadinessV3: the evidence, and the approvals of
\* people, which the script gives as missing.
Approvals == {"empty_bootstrap_checkpoint", "randomized_order_checkpoint",
              "real_roles_qualified", "handoff_restore", "other_controls"}
ReadyV3(e, approvals) == ValidEmptyBootstrapEvidence(e) /\ approvals = Approvals
-----------------------------------------------------------------------------
\* What evidence says is so, then and ever after: of a root made by the run that
\* wrote it and by no other, whose compartments it calls empty are, whose restore
\* target is gone, and whose backup held what the other compartments were given.
EvidenceIsEarned ==
  \A e \in evidence \cup published :
    /\ e \in evidence
    /\ root = "laid out" /\ owner = e.bootstrapRunId
    /\ \A class \in Classes :
         e.compartments[class] = "EMPTY" => ~ \E f \in compartments : f[1] = class
    /\ e.cleanupVerified => target = None
    /\ {f[1] : f \in Range(e.restoredManifest)} = e.coveredClasses

\* What a failed run leaves in the compartments is what one statement was
\* writing when it failed and the files whose own removal failed: a removal
\* that fails keeps no other file, nor the restore target, from being removed.
OneStatement == {{Template(c)} : c \in Classes}
                  \cup {{LedgerFile, IncidentFile}, {BackupFile}}
FailureLeavesOneStep ==
  \A r \in Runs : phase[r] = "failed" /\ owner = r =>
    /\ \E files \in OneStatement : compartments \ unremoved[r] \subseteq files
    /\ target # None => RestoreTarget \in unremoved[r]

\* A run that starts comes to an end, and unless a call fails, the process
\* dies or another run is on the same root, it ends with its evidence
\* published and ready to be approved.
UndisturbedRunsSucceed ==
  \A r \in Runs :
    Running(r) ~> \/ /\ Over(r)
                     /\ r \in disturbed
                  \/ \E e \in published :
                       /\ e.bootstrapRunId = r
                       /\ ReadyV3(e, Approvals)
=============================================================================
