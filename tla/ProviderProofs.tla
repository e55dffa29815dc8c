--------------------------- MODULE ProviderProofs ---------------------------
(***************************************************************************)
(* What a draft that the validation accepts may conclude, for every policy *)
(* and every evidence set; that the gates before a provider agree, for     *)
(* every environment; and the safety of the evaluations, for any number of *)
(* them, all limits, drafts and evidence.                                  *)
(***************************************************************************)
EXTENDS AssessmentProvider, ProviderGates, FiniteSetTheorems, TLAPS

-----------------------------------------------------------------------------
(* Accepted drafts. *)

\* A citation on both sides is found twice in the list of all citations.
LEMMA CitedOnBothSides ==
  ASSUME NEW s, IsList(s), NEW t, IsList(t), IsInjective(s \o t),
         NEW i \in DOMAIN s, NEW j \in DOMAIN t
  PROVE  s[i] # t[j]
<1> DEFINE S == Range(s) \cup Range(t)
<1>0. s \in Seq(S) /\ t \in Seq(S)
  BY DEF IsList
<1> HIDE DEF S
<1>1. i \in 1..Len(s) /\ j \in 1..Len(t) /\ Len(s) \in Nat /\ Len(t) \in Nat
  BY <1>0
<1>2. i \in DOMAIN (s \o t) /\ Len(s) + j \in DOMAIN (s \o t) /\ i # Len(s) + j
  BY <1>0, <1>1
<1>3. (s \o t)[i] = s[i] /\ (s \o t)[Len(s) + j] = t[j]
  BY <1>0, <1>1
<1> QED
  BY <1>2, <1>3 DEF IsInjective

\* Every supporting citation is a citation.
LEMMA SupportingIsCited ==
  ASSUME NEW s, IsList(s), NEW t, IsList(t), NEW i \in DOMAIN s
  PROVE  s[i] \in Range(s \o t)
<1> DEFINE S == Range(s) \cup Range(t)
<1>0. s \in Seq(S) /\ t \in Seq(S)
  BY DEF IsList
<1> HIDE DEF S
<1>1. i \in DOMAIN (s \o t) /\ (s \o t)[i] = s[i]
  BY <1>0
<1> QED
  BY <1>1 DEF Range

\* In a draft that is accepted there is a finding, of lists, for each criterion.
LEMMA FindingsOfDraft ==
  ASSUME NEW evidence, NEW draft, Shaped(draft), ValidDraft(draft, evidence),
         NEW i \in DOMAIN Criteria
  PROVE  /\ IsList(draft.findings[i].supporting)
         /\ IsList(draft.findings[i].conflicting)
         /\ IsList(draft.findings[i].claims)
         /\ ValidFinding(Criteria[i], draft.findings[i], evidence)
<1>1. Len(draft.findings) = Len(Criteria)
  BY DEF ValidDraft
<1>2. Criteria \in Seq(Range(Criteria)) /\ draft.findings \in Seq(Range(draft.findings))
  BY CriteriaAssumption DEF IsList, Shaped
<1>3. i \in DOMAIN draft.findings
  BY <1>1, <1>2
<1> QED
  BY <1>3 DEF Shaped, ValidDraft

\* No accepted draft concludes on a criterion whose revisions contradict each
\* other: all of them would have to be cited as conflicting and one of them as
\* supporting, and a citation counts once.
THEOREM AcceptedIsUncontested ==
  ASSUME NEW evidence, NEW draft, Shaped(draft), ValidDraft(draft, evidence)
  PROVE  Uncontested(draft, evidence)
<1> SUFFICES ASSUME NEW i \in DOMAIN Criteria,
                    draft.findings[i].result \in Conclusive,
                    Conflicted(Criteria[i], evidence)
             PROVE  FALSE
  BY DEF Uncontested
<1> DEFINE f == draft.findings[i]
           c == Criteria[i]
<1>1. ValidCitations(c, f, evidence)
  BY FindingsOfDraft DEF ValidFinding
<1>2. IsList(f.supporting) /\ IsList(f.conflicting)
  BY FindingsOfDraft
<1>3. f.supporting # <<>> /\ OfCriterion(c, evidence) \subseteq Range(f.conflicting)
  BY <1>1 DEF ValidCitations
<1>4. 1 \in DOMAIN f.supporting
  BY <1>2, <1>3 DEF IsList
<1>5. f.supporting[1] \in Range(f.conflicting)
  <2>1. f.supporting[1] \in Range(Cited(f))
    BY <1>2, <1>4, SupportingIsCited DEF Cited
  <2> QED
    BY <2>1, <1>1, <1>3 DEF ValidCitations
<1>6. PICK j \in DOMAIN f.conflicting : f.conflicting[j] = f.supporting[1]
  BY <1>5 DEF Range
<1>7. IsInjective(f.supporting \o f.conflicting)
  BY <1>1 DEF ValidCitations, Cited
<1> QED
  BY <1>2, <1>4, <1>6, <1>7, CitedOnBothSides

\* Every conclusion of an accepted draft rests on a claim of a usable revision
\* it cites, for a requirement of the criterion that it names.
THEOREM AcceptedRestsOnClaims ==
  ASSUME NEW evidence, NEW draft, Shaped(draft), ValidDraft(draft, evidence)
  PROVE  RestsOnClaims(draft, evidence)
<1> SUFFICES ASSUME NEW i \in DOMAIN Criteria, draft.findings[i].result \in Conclusive
             PROVE  \E e \in OfCriterion(Criteria[i], evidence)
                               \cap Range(Cited(draft.findings[i])) :
                      /\ Usable(e)
                      /\ SupportedBy(Criteria[i], e) \cap draft.findings[i].requirements # {}
  BY DEF RestsOnClaims
<1> DEFINE f == draft.findings[i]
           c == Criteria[i]
<1>1. ValidClaims(c, f, evidence) /\ ValidCitations(c, f, evidence)
  BY FindingsOfDraft DEF ValidFinding
<1>2. IsList(f.claims) /\ f.claims # <<>>
  BY <1>1, FindingsOfDraft DEF ValidClaims
<1>3. f.claims[1] \in Range(f.claims)
  BY <1>2 DEF Range, IsList
<1>4. /\ f.claims[1] \in ClaimReferences(evidence)
      /\ f.claims[1].revision \in Range(Cited(f))
      /\ SupportedBy(c, f.claims[1].revision) \cap f.requirements # {}
  BY <1>1, <1>3 DEF ValidClaims
<1>5. Usable(f.claims[1].revision)
  BY <1>4 DEF ClaimReferences
<1>6. f.claims[1].revision \in OfCriterion(c, evidence)
  BY <1>1, <1>4 DEF ValidCitations
<1> QED
  BY <1>4, <1>5, <1>6
-----------------------------------------------------------------------------
(* The gates. *)

\* The capability, the parser, the adapter's own check and the authorization
\* snapshot read one environment in different ways, and agree: a model that is
\* selected is refused by none of them, and no kill switch leaves it selected.
THEOREM GatesAgree ==
  ASSUME NEW env \in Env, NEW synthetic \in BOOLEAN
  PROVE  SelectedIsEnabled(env, synthetic) /\ KillSwitchHolds(env, synthetic)
<1>1. ASSUME Selects(env, synthetic) = "openai"
      PROVE  /\ env.provider = "openai" /\ env.node = "development"
             /\ env.enabled = "true" /\ env.openAi = "true" /\ env.model = "true"
             /\ env.kill # "true" /\ env.allowlist = "sole" /\ synthetic /\ Parses(env)
  <2>1. Blocked(env, synthetic) = {}
    BY <1>1 DEF Selects
  <2>2. env.provider = "openai"
    BY <2>1 DEF Blocked
  <2>3. UNION {
    IF env.node # "development" THEN {"OPENAI_NOT_DEVELOPMENT"} ELSE {},
    IF {env.enabled, env.openAi, env.model} # {"true"} THEN {"OPENAI_FLAGS_DISABLED"} ELSE {},
    IF env.kill = "true" THEN {"OPENAI_KILL_SWITCH"} ELSE {},
    IF env.key THEN {} ELSE {"OPENAI_KEY_ABSENT"},
    IF env.allowlist # "sole" THEN {"OPENAI_MODEL_NOT_SOLE_ALLOWLISTED"} ELSE {},
    IF synthetic THEN {} ELSE {"OPENAI_DATA_NOT_SYNTHETIC"},
    IF Parses(env) THEN {} ELSE {"OPENAI_CONFIGURATION_INVALID"}} = {}
    BY <2>1, <2>2 DEF Blocked
  <2>4. \A u, v, w, x, y, z, t :
          UNION {u, v, w, x, y, z, t} = {} =>
            u = {} /\ v = {} /\ w = {} /\ x = {} /\ y = {} /\ z = {} /\ t = {}
    OBVIOUS
  <2>5. /\ (IF env.node # "development" THEN {"OPENAI_NOT_DEVELOPMENT"} ELSE {}) = {}
        /\ (IF {env.enabled, env.openAi, env.model} # {"true"}
            THEN {"OPENAI_FLAGS_DISABLED"} ELSE {}) = {}
        /\ (IF env.kill = "true" THEN {"OPENAI_KILL_SWITCH"} ELSE {}) = {}
        /\ (IF env.allowlist # "sole"
            THEN {"OPENAI_MODEL_NOT_SOLE_ALLOWLISTED"} ELSE {}) = {}
        /\ (IF synthetic THEN {} ELSE {"OPENAI_DATA_NOT_SYNTHETIC"}) = {}
        /\ (IF Parses(env) THEN {} ELSE {"OPENAI_CONFIGURATION_INVALID"}) = {}
    BY ONLY <2>3, <2>4, Zenon
  <2>6. {env.enabled, env.openAi, env.model} = {"true"}
    BY <2>5
  <2>7. env.enabled = "true" /\ env.openAi = "true" /\ env.model = "true"
    BY ONLY <2>6
  <2> QED
    BY <2>2, <2>5, <2>7
<1>2. SelectedIsEnabled(env, synthetic)
  BY <1>1 DEF SelectedIsEnabled, OpenAiEnabled, SnapshotAllowed, Config
<1>3. ASSUME env.kill # "false"
      PROVE  Selects(env, synthetic) = "deterministic"
  <2>1. env.kill \in {"true", "other"}
    BY <1>3 DEF Env, Flag
  <2>2. Selects(env, synthetic) # "openai"
    BY <2>1, <1>1 DEF Parses, Flags
  <2> QED
    BY <2>2 DEF Selects
<1>4. ASSUME env.kill = "true", env.provider = "openai"
      PROVE  BudgetState(env, synthetic) = "paused"
  <2>1. "OPENAI_KILL_SWITCH" \in Blocked(env, synthetic)
    BY <1>4 DEF Blocked
  <2>2. Blocked(env, synthetic) \notin {{}, {"OPENAI_NOT_SELECTED"}}
    BY <2>1
  <2> QED
    BY <2>1, <2>2 DEF BudgetState
<1> QED
  BY <1>2, <1>3, <1>4 DEF KillSwitchHolds
-----------------------------------------------------------------------------
(* The inductive invariant of the evaluations. *)

\* Places before a request can be sent, and the way out from there.
Before == {"idle", "locked", "checked", "marked", "ready", "unlocking", "refused"}

\* Places where a guarded evaluation has the .consumed file; where it found or
\* left the record as consumed; and where its draft is on the way out.
Holding == {"locked", "checked", "marked", "ready", "unlocking",
            "calling", "sleeping", "drafted", "finalized", "failed"}
Spending == {"marked", "ready", "calling", "sleeping", "drafted", "failed"}
Leaving == {"finalized", "returned"}

Places == Before \cup Inside \cup Ended \cup {"drafted", "finalized", "failed"}
Wires == {"closed", "open", "abandoned", "cut"}
RunRow ==
  [pc : Places, at : Nat, deadline : Nat, attempts : Nat, wake : Int,
   wire : Wires, aborted : BOOLEAN, draft : Drafts \cup {None}]
Outcomes == {None} \cup ({"completed", "failed"} \X Runs)
AdapterRow == [active : Int, requests : SUBSET (Nat \X Runs), last : Outcomes]

TypeOK ==
  /\ now \in Nat
  /\ guarded \in BOOLEAN
  /\ run \in [Runs -> RunRow]
  /\ adapter \in [Runs \cup {None} -> AdapterRow]
  /\ record \in {"authorized", "consumed", "completed", "failed"}
  /\ lock \in Runs \cup {None}

\* A guarded evaluation has the .consumed file from the moment it takes it to
\* its end or the clean-up, and for good once a request was sent; the record
\* agrees with the place it is at.
FilesFollow(r) ==
  /\ run[r].pc \in Holding => lock = r
  /\ run[r].pc = "checked" => record = "authorized"
  /\ run[r].pc \in Spending => record = "consumed"
  /\ run[r].pc \in Leaving => record = "completed"
  /\ run[r].attempts > 0 =>
       run[r].pc \notin Before /\ lock = r /\ record # "authorized"
AuthorizationHeld == guarded => \A r \in Runs : FilesFollow(r)

\* A record that is completed is of an evaluation that was.
CompletedIsOfOne ==
  guarded /\ record = "completed" => \E r \in Runs : adapter[r].last = <<"completed", r>>

\* Attempts are within the limit, one is left to an evaluation that pauses,
\* and a draft was accepted in time.
AttemptsHold(r) ==
  /\ run[r].attempts <= MaxAttempts
  /\ run[r].pc = "sleeping" => run[r].attempts < MaxAttempts
InTime(r) ==
  run[r].pc \in {"drafted", "finalized", "returned"} =>
    /\ ~run[r].aborted /\ run[r].at <= run[r].deadline
    /\ run[r].draft \in ValidDrafts
EvaluationsHold == \A r \in Runs : AttemptsHold(r) /\ InTime(r)

\* Of the shared adapter: what its counters count, and that no window of a
\* minute that ends with a start has too many of them.
Insiders == {r \in Runs : run[r].pc \in Inside}
Window(requests, q) == {p \in requests : p[1] <= q[1] /\ q[1] < p[1] + Minute}
WindowsHold(requests, time) ==
  /\ IsFiniteSet(requests)
  /\ \A q \in requests :
       q[1] <= time /\ Cardinality(Window(requests, q)) <= MaxRequestsPerMinute
CountersHold ==
  ~guarded =>
    /\ IsFiniteSet(Insiders)
    /\ adapter[None].active = Cardinality(Insiders)
    /\ adapter[None].active <= MaxConcurrent
    /\ WindowsHold(adapter[None].requests, now)

\* Without the guard there is nothing to finalize.
Unguarded ==
  ~guarded => \A r \in Runs : run[r].pc \in {"idle"} \cup Inside \cup {"returned", "thrown"}

IInv ==
  /\ TypeOK
  /\ AuthorizationHeld
  /\ CompletedIsOfOne
  /\ EvaluationsHold
  /\ CountersHold
  /\ Unguarded
-----------------------------------------------------------------------------
(* Type correctness. *)

\* A step to another place changes no more of an evaluation than that.
LEMMA GotoType ==
  ASSUME TypeOK, NEW r \in Runs, NEW pc \in Places, Goto(r, pc)
  PROVE  /\ run' \in [Runs -> RunRow]
         /\ run'[r].pc = pc
         /\ UNCHANGED <<run[r].at, run[r].deadline, run[r].attempts, run[r].aborted, run[r].draft>>
         /\ \A s \in Runs : s # r => run'[s] = run[s]
<1> DEFINE row == [run[r] EXCEPT !.pc = pc]
<1>1. run[r] \in RunRow
  BY DEF TypeOK
<1>2. /\ row \in RunRow /\ row.pc = pc
      /\ row.at = run[r].at /\ row.deadline = run[r].deadline /\ row.attempts = run[r].attempts
      /\ row.aborted = run[r].aborted /\ row.draft = run[r].draft
  BY <1>1 DEF RunRow
<1>3. run' = [run EXCEPT ![r] = row]
  BY DEF Goto
<1> HIDE DEF row
<1>4. run'[r] = row /\ run' \in [Runs -> RunRow]
  BY <1>2, <1>3 DEF TypeOK
<1> QED
  BY <1>2, <1>3, <1>4 DEF TypeOK

\* evaluate leaves with a result, at the present time.
LEMMA LeaveType ==
  ASSUME TypeOK, NEW r \in Runs, NEW pc \in Places, NEW status \in {"completed", "failed"},
         NEW draft \in Drafts \cup {None}, Leave(r, pc, status, draft), UNCHANGED guarded
  PROVE  /\ run' \in [Runs -> RunRow]
         /\ run'[r].pc = pc /\ run'[r].at = now /\ run'[r].draft = draft
         /\ UNCHANGED <<run[r].deadline, run[r].attempts, run[r].aborted>>
         /\ \A s \in Runs : s # r => run'[s] = run[s]
         /\ adapter' \in [Runs \cup {None} -> AdapterRow]
         /\ adapter'[AdapterOf(r)].active = Freed(r, status)
         /\ adapter'[AdapterOf(r)].last = <<status, r>>
         /\ adapter'[AdapterOf(r)].requests = adapter[AdapterOf(r)].requests
         /\ \A a \in Runs \cup {None} : a # AdapterOf(r) => adapter'[a] = adapter[a]
<1> DEFINE row == [run[r] EXCEPT !.pc = pc, !.wire = "closed", !.at = now, !.draft = draft]
           a == AdapterOf(r)
           new == [adapter[a] EXCEPT !.active = Freed(r, status), !.last = <<status, r>>]
<1>0. run[r] \in RunRow
  BY DEF TypeOK
<1>1. /\ row \in RunRow /\ row.pc = pc /\ row.at = now /\ row.draft = draft
      /\ row.deadline = run[r].deadline /\ row.attempts = run[r].attempts
      /\ row.aborted = run[r].aborted
  BY <1>0 DEF TypeOK, RunRow, Wires
<1>2. run' = [run EXCEPT ![r] = row]
  BY DEF Leave
<1>3. a \in Runs \cup {None} /\ adapter[a] \in AdapterRow
  BY DEF TypeOK, AdapterOf
<1>4. new \in AdapterRow
  <2>1. adapter[a].active \in Int
    BY <1>3 DEF AdapterRow
  <2>2. Freed(r, status) \in Int
    BY <2>1 DEF Freed
  <2>3. <<status, r>> \in Outcomes
    BY DEF Outcomes
  <2> QED
    BY <1>3, <2>2, <2>3 DEF AdapterRow
<1>5. adapter' = [adapter EXCEPT ![a] = new]
  BY <1>3 DEF Leave, TypeOK
<1>6. /\ new.active = Freed(r, status) /\ new.last = <<status, r>>
      /\ new.requests = adapter[a].requests
  BY <1>3 DEF AdapterRow
<1> HIDE DEF row, new
<1>7. /\ run'[r] = row /\ run' \in [Runs -> RunRow]
      /\ \A s \in Runs : s # r => run'[s] = run[s]
  BY <1>1, <1>2 DEF TypeOK
<1>8. /\ adapter'[a] = new /\ adapter' \in [Runs \cup {None} -> AdapterRow]
      /\ \A b \in Runs \cup {None} : b # a => adapter'[b] = adapter[b]
  BY <1>3, <1>4, <1>5 DEF TypeOK
<1> QED
  BY <1>1, <1>6, <1>7, <1>8

\* A timer, a connection that closes and an abort change no more of a call
\* than its wire and whether it is aborted.
LEMMA WireMoves ==
  ASSUME TypeOK, NEW r \in Runs, ~Throw(r),
         TimerFires(r) \/ CloseInBody(r) \/ Abort(r) \/ GiveUp(r)
  PROVE  \E row \in RunRow :
           /\ run' = [run EXCEPT ![r] = row]
           /\ run[r].pc = "calling"
           /\ row.pc = "calling" /\ row.attempts = run[r].attempts
           /\ UNCHANGED adapter
<1>r. /\ run[r] \in RunRow /\ run[r].aborted \in BOOLEAN /\ run[r].wire \in Wires
      /\ {"closed", "open", "abandoned", "cut"} \subseteq Wires
  BY DEF TypeOK, RunRow, Wires
<1>1. PICK wire \in Wires, aborted \in BOOLEAN :
        /\ run[r].pc = "calling" /\ UNCHANGED adapter
        /\ run' = [run EXCEPT ![r] = [run[r] EXCEPT !.aborted = aborted, !.wire = wire]]
  <2>1. CASE Abort(r)
    BY <2>1, <1>r DEF Abort
  <2>2. CASE TimerFires(r) \/ CloseInBody(r)
    <3>1. run[r] = [run[r] EXCEPT !.aborted = run[r].aborted]
      BY <1>r DEF RunRow
    <3> QED
      BY <2>2, <3>1, <1>r DEF TimerFires, CloseInBody
  <2> QED
    BY <2>1, <2>2 DEF GiveUp
<1> DEFINE row == [run[r] EXCEPT !.aborted = aborted, !.wire = wire]
<1>2. row \in RunRow /\ row.pc = run[r].pc /\ row.attempts = run[r].attempts
  BY <1>r DEF RunRow
<1> QED
  BY <1>1, <1>2

LEMMA TypeInit == Init => TypeOK
<1> SUFFICES ASSUME Init PROVE TypeOK
  OBVIOUS
<1>1. NewRun \in RunRow
  BY DEF NewRun, RunRow, Places, Before, Wires
<1>2. NewAdapter \in AdapterRow
  BY DEF NewAdapter, AdapterRow, Outcomes
<1> QED
  BY <1>1, <1>2 DEF Init, TypeOK

LEMMA TypeNext == TypeOK /\ [Next]_vars => TypeOK'
<1> SUFFICES ASSUME TypeOK, [Next]_vars PROVE TypeOK'
  OBVIOUS
<1> USE DEF Others, Files
<1>p. /\ {"locked", "checked", "unlocking", "marked", "ready", "refused"} \subseteq Places
      /\ {"failed", "thrown", "returned", "drafted", "finalized", "crashed"} \subseteq Places
      /\ {"calling", "sleeping"} \subseteq Places /\ Failing \in Places
  BY DEF Places, Before, Inside, Ended, Failing
<1>r. \A r \in Runs : run[r] \in RunRow /\ run[r].aborted \in BOOLEAN
                    /\ run[r].wire \in Wires /\ run[r].attempts \in Nat
  BY DEF TypeOK, RunRow
<1>w. {"closed", "open", "abandoned", "cut"} \subseteq Wires
  BY DEF Wires
<1>1. CASE Tick
  BY <1>1 DEF Tick, TypeOK
<1>2. ASSUME NEW r \in Runs, NEW pc \in Places, Goto(r, pc)
      PROVE  run' \in [Runs -> RunRow]
  BY <1>2, GotoType
<1>3. ASSUME NEW r \in Runs, TakeLock(r) PROVE TypeOK'
  <2>1. now \in Nat /\ run[r] \in RunRow
    BY DEF TypeOK
  <2>2. run' = [run EXCEPT ![r] = [run[r] EXCEPT !.pc = "locked", !.at = now]]
    BY <1>3, <2>1 DEF TakeLock, TypeOK
  <2>3. [run[r] EXCEPT !.pc = "locked", !.at = now] \in RunRow
    BY <2>1, <1>p DEF RunRow
  <2>4. run' \in [Runs -> RunRow]
    BY <2>2, <2>3 DEF TypeOK
  <2> QED
    BY <1>3, <2>4 DEF TakeLock, TypeOK
<1>4. ASSUME NEW r \in Runs,
             \/ Refuse(r) \/ CheckRecord(r) \/ MarkConsumed(r) \/ SignLock(r) \/ Unlock(r)
             \/ FinalizeCompleted(r) \/ Return(r) \/ FinalizeFailed(r) \/ Crash(r)
      PROVE  TypeOK'
  <2>1. PICK pc \in Places : Goto(r, pc)
    BY <1>4, <1>p DEF Refuse, CheckRecord, MarkConsumed, SignLock, Unlock,
                      FinalizeCompleted, Return, FinalizeFailed, Crash
  <2>2. run' \in [Runs -> RunRow]
    BY <2>1, <1>2
  <2>3. UNCHANGED <<now, guarded, adapter>>
    BY <1>4 DEF Refuse, CheckRecord, MarkConsumed, SignLock, Unlock,
                FinalizeCompleted, Return, FinalizeFailed, Crash
  <2>4. /\ record' \in {record, "consumed", "completed", "failed"}
        /\ lock' \in {lock, None}
    BY <1>4 DEF Refuse, CheckRecord, MarkConsumed, SignLock, Unlock,
                FinalizeCompleted, Return, FinalizeFailed, Crash
  <2> QED
    BY <2>2, <2>3, <2>4 DEF TypeOK
<1>5. ASSUME NEW r \in Runs, Decline(r) \/ Exhausted(r) PROVE TypeOK'
  <2> DEFINE a == AdapterOf(r)
  <2>1. a \in Runs \cup {None} /\ adapter[a] \in AdapterRow
    BY DEF TypeOK, AdapterOf
  <2>2. Recent(a) \in SUBSET (Nat \X Runs)
    BY <2>1 DEF Recent, AdapterRow
  <2>3. /\ [adapter[a] EXCEPT !.last = None] \in AdapterRow
        /\ [adapter[a] EXCEPT !.last = None, !.requests = Recent(a)] \in AdapterRow
    BY <2>1, <2>2 DEF AdapterRow, Outcomes
  <2>4. \/ adapter' = [adapter EXCEPT ![a] = [adapter[a] EXCEPT !.last = None]]
        \/ adapter' = [adapter EXCEPT ![a] = [adapter[a] EXCEPT !.last = None,
                                                                !.requests = Recent(a)]]
    BY <1>5, <2>1 DEF Decline, Exhausted, TypeOK
  <2>5. adapter' \in [Runs \cup {None} -> AdapterRow]
    BY <2>1, <2>3, <2>4 DEF TypeOK
  <2>6. Goto(r, Failing) /\ UNCHANGED <<Others, Files>>
    BY <1>5 DEF Decline, Exhausted
  <2> QED
    BY <1>2, <1>p, <2>5, <2>6 DEF TypeOK
<1>6. ASSUME NEW r \in Runs, Admit(r) PROVE TypeOK'
  <2> DEFINE a == AdapterOf(r)
             row == [run[r] EXCEPT !.pc = "calling", !.at = now, !.deadline = now + Timeout,
                                   !.attempts = 1, !.wire = "open"]
             new == [active |-> adapter[a].active + 1,
                     requests |-> Recent(a) \cup {<<now, r>>}, last |-> None]
  <2>1. a \in Runs \cup {None} /\ adapter[a] \in AdapterRow
    BY DEF TypeOK, AdapterOf
  <2>2. Recent(a) \cup {<<now, r>>} \in SUBSET (Nat \X Runs)
    BY <2>1 DEF Recent, AdapterRow, TypeOK
  <2>3. new \in AdapterRow
    <3>1. adapter[a].active + 1 \in Int
      BY <2>1 DEF AdapterRow
    <3> QED
      BY <2>2, <3>1 DEF AdapterRow, Outcomes
  <2>4. adapter' = [adapter EXCEPT ![a] = new]
    BY <1>6, <2>1 DEF Admit, TypeOK
  <2>5. row \in RunRow
    <3>1. now + Timeout \in Nat /\ now \in Nat
      BY LimitsAssumption DEF TypeOK
    <3> QED
      BY <1>p, <1>r, <1>w, <3>1 DEF RunRow
  <2>6. run' = [run EXCEPT ![r] = row]
    BY <1>6 DEF Admit
  <2>7. adapter' \in [Runs \cup {None} -> AdapterRow] /\ run' \in [Runs -> RunRow]
    BY <2>1, <2>3, <2>4, <2>5, <2>6 DEF TypeOK
  <2> QED
    BY <1>6, <2>7 DEF Admit, TypeOK
<1>7. ASSUME NEW r \in Runs, Throw(r), UNCHANGED <<Others, Files>> PROVE TypeOK'
  <2>1. run' \in [Runs -> RunRow] /\ adapter' \in [Runs \cup {None} -> AdapterRow]
    BY <1>7, <1>p, LeaveType DEF Throw
  <2> QED
    BY <1>7, <2>1 DEF TypeOK
<1>8. ASSUME NEW r \in Runs, NEW draft \in Drafts \cup {None}, Answer(r, draft) PROVE TypeOK'
  <2>1. CASE Throw(r)
    BY <2>1, <1>7, <1>8 DEF Answer
  <2>2. CASE Leave(r, IF guarded THEN "drafted" ELSE "returned", "completed", draft)
    <3>1. run' \in [Runs -> RunRow] /\ adapter' \in [Runs \cup {None} -> AdapterRow]
      BY <2>2, <1>p, <1>8, LeaveType DEF Answer
    <3> QED
      BY <1>8, <3>1 DEF TypeOK, Answer
  <2> QED
    BY <2>1, <2>2, <1>8 DEF Answer
<1>9. ASSUME NEW r \in Runs, NEW row \in RunRow, run' = [run EXCEPT ![r] = row],
             UNCHANGED <<Others, adapter, Files>>
      PROVE  TypeOK'
  <2>1. run' \in [Runs -> RunRow]
    BY <1>9 DEF TypeOK
  <2> QED
    BY <1>9, <2>1 DEF TypeOK
<1>10. ASSUME NEW r \in Runs, NEW transient \in BOOLEAN, Fail(r, transient) PROVE TypeOK'
  <2> DEFINE row == [run[r] EXCEPT !.pc = "sleeping", !.wire = "closed", !.wake = now + Pause(r)]
  <2>1. CASE Throw(r)
    BY <2>1, <1>7, <1>10 DEF Fail
  <2>2. CASE run' = [run EXCEPT ![r] = row] /\ UNCHANGED adapter
    <3>1. now + Pause(r) \in Int
      <4>1. now \in Nat /\ run[r].deadline \in Nat /\ run[r].attempts \in Nat
        BY DEF TypeOK, RunRow
      <4>2. Backoff(run[r].attempts) \in Int
        BY <4>1 DEF Backoff
      <4>3. (IF now < run[r].deadline THEN run[r].deadline - now ELSE 0) \in Int
        BY <4>1
      <4>4. \A m, n \in Int : Min({m, n}) \in Int
        BY DEF Min
      <4>5. Pause(r) \in Int
        BY <4>2, <4>3, <4>4 DEF Pause
      <4> QED
        BY <4>1, <4>5
    <3>2. row \in RunRow
      BY <3>1, <1>p, <1>r, <1>w DEF RunRow
    <3> QED
      BY <2>2, <3>2, <1>9, <1>10 DEF Fail
  <2> QED
    BY <2>1, <2>2, <1>10 DEF Fail
<1>11. ASSUME NEW r \in Runs, Retry(r) PROVE TypeOK'
  <2> DEFINE row == [run[r] EXCEPT !.pc = "calling", !.wire = "open",
                                   !.attempts = run[r].attempts + 1]
  <2>1. CASE Throw(r)
    BY <2>1, <1>7, <1>11 DEF Retry
  <2>2. CASE run' = [run EXCEPT ![r] = row] /\ UNCHANGED adapter
    <3>1. run[r].attempts + 1 \in Nat
      BY DEF TypeOK, RunRow
    <3>2. row \in RunRow
      BY <3>1, <1>p, <1>r, <1>w DEF RunRow
    <3> QED
      BY <2>2, <3>2, <1>9, <1>11 DEF Retry
  <2> QED
    BY <2>1, <2>2, <1>11, <1>r DEF Retry
<1>12. ASSUME NEW r \in Runs, TimerFires(r) \/ CloseInBody(r) PROVE TypeOK'
  <2>1. PICK wire \in Wires : run' = [run EXCEPT ![r] = [run[r] EXCEPT !.wire = wire]]
    BY <1>12 DEF TimerFires, CloseInBody, Wires
  <2>2. [run[r] EXCEPT !.wire = wire] \in RunRow
    BY DEF TypeOK, RunRow
  <2> QED
    BY <1>12, <2>1, <2>2, <1>9 DEF TimerFires, CloseInBody
<1>13. ASSUME NEW r \in Runs, Abort(r) PROVE TypeOK'
  <2>1. CASE Throw(r)
    BY <2>1, <1>7, <1>13 DEF Abort
  <2>2. CASE ~Throw(r)
    <3>1. PICK wire \in Wires :
            run' = [run EXCEPT ![r] = [run[r] EXCEPT !.aborted = TRUE, !.wire = wire]]
      BY <2>2, <1>13, <1>r, <1>w DEF Abort
    <3>2. [run[r] EXCEPT !.aborted = TRUE, !.wire = wire] \in RunRow
      BY DEF TypeOK, RunRow
    <3> QED
      BY <1>13, <2>2, <3>1, <3>2, <1>9 DEF Abort
  <2> QED
    BY <2>1, <2>2
<1>14. ASSUME NEW r \in Runs, GiveUp(r) PROVE TypeOK'
  BY <1>14, <1>7 DEF GiveUp
<1>15. CASE UNCHANGED vars
  BY <1>15 DEF vars, TypeOK
<1> QED
  BY <1>1, <1>3, <1>4, <1>5, <1>6, <1>8, <1>10, <1>11, <1>12, <1>13, <1>14, <1>15 DEF Next
-----------------------------------------------------------------------------
(* The authorization. *)

\* Sets of places, spelled out once.
LEMMA PlacesApart ==
  /\ Before \cap (Spending \cup Leaving) = {"marked", "ready"}
  /\ {"calling", "sleeping", "drafted", "failed"} \subseteq Holding \cap Spending
  /\ Inside \subseteq Holding \cap Spending
BY DEF Before, Spending, Leaving, Holding, Inside

\* A step that leaves the files alone keeps them held, when the evaluation it
\* is of goes on from where it held them.
LEMMA FilesKept ==
  ASSUME TypeOK, TypeOK', AuthorizationHeld, NEW r \in Runs, UNCHANGED <<guarded, record, lock>>,
         \A s \in Runs : s # r => run'[s] = run[s],
         guarded => FilesFollow(r)'
  PROVE  AuthorizationHeld'
<1> SUFFICES ASSUME guarded, NEW s \in Runs PROVE FilesFollow(s)'
  BY DEF AuthorizationHeld
<1>1. CASE s = r
  BY <1>1
<1>2. CASE s # r
  BY <1>2 DEF AuthorizationHeld, FilesFollow
<1> QED
  BY <1>1, <1>2

\* The places of a single step, when it leaves the files alone.
LEMMA FilesOnTheWay ==
  ASSUME TypeOK, guarded, NEW r \in Runs, FilesFollow(r), UNCHANGED <<record, lock>>,
         \/ run'[r].pc = run[r].pc
         \/ run[r].pc = "idle" /\ run'[r].pc = "refused"
         \/ run[r].pc = "locked" /\ run'[r].pc = "checked" /\ record = "authorized"
         \/ run[r].pc \in Before \cap Holding /\ run'[r].pc = "unlocking"
         \/ run[r].pc = "marked" /\ run'[r].pc = "ready"
         \/ run[r].pc \in Spending /\ run'[r].pc \in {"calling", "sleeping", "drafted", "failed"}
         \/ run[r].pc = "finalized" /\ run'[r].pc = "returned"
         \/ run[r].pc = "failed" /\ run'[r].pc = "thrown"
         \/ run'[r].pc = "crashed",
         \/ run'[r].attempts = run[r].attempts
         \/ run[r].pc \in Spending /\ run'[r].pc \in {"calling", "sleeping", "drafted", "failed"},
         run'[r].pc \in Before => run'[r].attempts = run[r].attempts /\ run[r].pc \in Before
  PROVE  FilesFollow(r)'
<1>1. run'[r].pc \in Before => ~(run'[r].attempts > 0)
  BY DEF FilesFollow
<1>2. run[r].pc \in Spending => lock = r /\ record = "consumed"
  BY DEF FilesFollow, Spending, Holding
<1>3. run'[r].attempts > 0 => lock = r /\ record # "authorized"
  BY <1>2 DEF FilesFollow
<1>4. run'[r].pc \in Holding => lock = r
  BY <1>2 DEF FilesFollow, Holding, Before, Spending
<1>5. run'[r].pc = "checked" => record = "authorized"
  BY <1>2 DEF FilesFollow
<1>6. run'[r].pc \in Spending => record = "consumed"
  BY <1>2 DEF FilesFollow, Spending
<1>7. run'[r].pc \in Leaving => record = "completed"
  BY DEF FilesFollow, Leaving, Spending
<1> QED
  BY <1>1, <1>3, <1>4, <1>5, <1>6, <1>7 DEF FilesFollow

LEMMA AuthorizationNext ==
  ASSUME TypeOK, TypeOK', AuthorizationHeld, [Next]_vars
  PROVE  AuthorizationHeld'
<1> USE DEF Others, Files
<1>r. \A r \in Runs : /\ run[r] \in RunRow /\ run[r].attempts \in Nat
                      /\ run[r].aborted \in BOOLEAN /\ run[r].wire \in Wires
                      /\ guarded => FilesFollow(r)
  BY DEF TypeOK, RunRow, AuthorizationHeld
<1>p. /\ {"locked", "checked", "unlocking", "marked", "ready", "refused"} \subseteq Places
      /\ {"failed", "thrown", "returned", "drafted", "finalized", "crashed"} \subseteq Places
      /\ {"calling", "sleeping"} \subseteq Places /\ Failing \in Places
  BY DEF Places, Before, Inside, Ended, Failing
<1>1. CASE Tick \/ UNCHANGED vars
  BY <1>1 DEF Tick, vars, AuthorizationHeld, FilesFollow
<1>2. ASSUME NEW r \in Runs, NEW pc \in Places, Goto(r, pc), UNCHANGED <<guarded, record, lock>>,
             guarded =>
               \/ run[r].pc = "idle" /\ pc = "refused"
               \/ run[r].pc = "locked" /\ pc = "checked" /\ record = "authorized"
               \/ run[r].pc \in Before \cap Holding /\ pc = "unlocking"
               \/ run[r].pc = "marked" /\ pc = "ready"
               \/ run[r].pc \in Spending /\ pc \in {"drafted", "failed"}
               \/ run[r].pc = "finalized" /\ pc = "returned"
               \/ run[r].pc = "failed" /\ pc = "thrown"
               \/ pc = "crashed"
      PROVE  AuthorizationHeld'
  <2>1. /\ run'[r].pc = pc /\ run'[r].attempts = run[r].attempts
        /\ \A s \in Runs : s # r => run'[s] = run[s]
    BY <1>2, <1>r, GotoType
  <2>2. ASSUME guarded PROVE FilesFollow(r)'
    <3>1. pc \in Before => run[r].pc \in Before
      BY <1>2, <2>2 DEF Before
    <3> QED
      BY <1>2, <2>1, <2>2, <3>1, <1>r, FilesOnTheWay
  <2> QED
    BY <1>2, <2>1, <2>2, FilesKept
<1>3. ASSUME NEW r \in Runs, TakeLock(r) PROVE AuthorizationHeld'
  <2>1. /\ run'[r].pc = "locked" /\ run'[r].attempts = run[r].attempts
        /\ \A s \in Runs : s # r => run'[s] = run[s]
    BY <1>3, <1>r DEF TakeLock, TypeOK, RunRow
  <2>2. FilesFollow(r)'
    BY <1>3, <2>1, <1>r DEF TakeLock, FilesFollow, Before, Spending, Leaving
  <2>3. \A s \in Runs : s # r => FilesFollow(s)'
    BY <1>3, <2>1, <1>r, RunsAssumption DEF TakeLock, LockIsFree, FilesFollow
  <2> QED
    BY <2>2, <2>3 DEF AuthorizationHeld
<1>4. ASSUME NEW r \in Runs, Refuse(r) \/ CheckRecord(r) \/ SignLock(r) PROVE AuthorizationHeld'
  BY <1>4, <1>2, <1>p DEF Refuse, CheckRecord, SignLock, Before, Holding
<1>5. ASSUME NEW r \in Runs, MarkConsumed(r) PROVE AuthorizationHeld'
  <2>1. CASE Goto(r, "unlocking") /\ UNCHANGED record
    BY <2>1, <1>5, <1>2, <1>p DEF MarkConsumed, Before, Holding
  <2>2. CASE Goto(r, "marked") /\ record' = "consumed"
    <3>1. /\ run'[r].pc = "marked" /\ run'[r].attempts = run[r].attempts
          /\ \A s \in Runs : s # r => run'[s] = run[s]
      BY <2>2, <1>r, <1>p, GotoType
    <3>2. SUFFICES ASSUME guarded, NEW s \in Runs PROVE FilesFollow(s)'
      BY <1>5 DEF MarkConsumed, AuthorizationHeld
    <3>3. lock = r /\ record = "authorized" /\ run[r].pc = "checked"
      BY <1>5, <1>r, <3>2 DEF MarkConsumed, FilesFollow, Holding
    <3>4. FilesFollow(r)'
      BY <1>5, <2>2, <3>1, <3>2, <3>3, <1>r DEF MarkConsumed, FilesFollow, Before, Leaving
    <3>5. s # r => FilesFollow(s)'
      BY <1>5, <2>2, <3>1, <3>2, <3>3, <1>r
         DEF MarkConsumed, FilesFollow, Holding, Spending, Leaving
    <3> QED
      BY <3>4, <3>5
  <2> QED
    BY <2>1, <2>2, <1>5 DEF MarkConsumed
<1>6. ASSUME NEW r \in Runs, Unlock(r) PROVE AuthorizationHeld'
  <2>1. /\ run'[r].pc = "refused" /\ run'[r].attempts = run[r].attempts
        /\ \A s \in Runs : s # r => run'[s] = run[s]
    BY <1>6, <1>r, <1>p, GotoType DEF Unlock
  <2>2. SUFFICES ASSUME guarded, NEW s \in Runs PROVE FilesFollow(s)'
    BY <1>6 DEF Unlock, AuthorizationHeld
  <2>3. lock = r /\ run[r].pc = "unlocking"
    BY <1>6, <1>r, <2>2 DEF Unlock, FilesFollow, Holding
  <2>4. FilesFollow(r)'
    BY <1>6, <2>1, <2>2, <2>3, <1>r
       DEF Unlock, FilesFollow, Before, Holding, Spending, Leaving
  <2>5. s # r => FilesFollow(s)'
    BY <1>6, <2>1, <2>2, <2>3, <1>r DEF Unlock, FilesFollow
  <2> QED
    BY <2>4, <2>5
<1>7. ASSUME NEW r \in Runs, Decline(r) \/ Exhausted(r) PROVE AuthorizationHeld'
  <2>1. Goto(r, Failing) /\ UNCHANGED <<guarded, record, lock>>
    BY <1>7 DEF Decline, Exhausted
  <2>2. guarded => run[r].pc \in Spending /\ Failing = "failed"
    BY <1>7 DEF Decline, Exhausted, CanStart, Failing, Spending
  <2> QED
    BY <1>2, <1>p, <2>1, <2>2
\* Inside an evaluation, and into and out of it.
<1>8. ASSUME NEW r \in Runs, UNCHANGED <<guarded, record, lock>>,
             \A s \in Runs : s # r => run'[s] = run[s],
             guarded => /\ run[r].pc \in Spending
                        /\ run'[r].pc \in {"calling", "sleeping", "drafted", "failed"}
      PROVE  AuthorizationHeld'
  <2>1. ASSUME guarded PROVE FilesFollow(r)'
    <3>1. run'[r].pc \notin Before
      BY <1>8, <2>1 DEF Before
    <3> QED
      BY <1>8, <2>1, <3>1, <1>r, FilesOnTheWay
  <2> QED
    BY <1>8, <2>1, FilesKept
<1>9. ASSUME NEW r \in Runs, run[r].pc \in Inside, UNCHANGED <<guarded, record, lock>>,
             Throw(r)
      PROVE  AuthorizationHeld'
  <2>1. /\ run'[r].pc = Failing
        /\ \A s \in Runs : s # r => run'[s] = run[s]
    BY <1>9, <1>r, <1>p, LeaveType DEF Throw
  <2> QED
    BY <1>8, <1>9, <2>1, PlacesApart DEF Failing
<1>10. ASSUME NEW r \in Runs, Admit(r) PROVE AuthorizationHeld'
  <2>1. /\ run'[r].pc = "calling"
        /\ \A s \in Runs : s # r => run'[s] = run[s]
    BY <1>10, <1>r DEF Admit, TypeOK, RunRow
  <2>2. guarded => run[r].pc \in Spending
    BY <1>10 DEF Admit, CanStart, Spending
  <2> QED
    BY <1>8, <1>10, <2>1, <2>2 DEF Admit
<1>11. ASSUME NEW r \in Runs, NEW draft \in Drafts \cup {None}, Answer(r, draft)
       PROVE  AuthorizationHeld'
  <2>0. run[r].pc \in Inside /\ UNCHANGED <<guarded, record, lock>>
    BY <1>11 DEF Answer, Inside
  <2>1. CASE Throw(r)
    BY <2>0, <2>1, <1>9
  <2>2. CASE Leave(r, IF guarded THEN "drafted" ELSE "returned", "completed", draft)
    <3>1. /\ run'[r].pc = IF guarded THEN "drafted" ELSE "returned"
          /\ \A s \in Runs : s # r => run'[s] = run[s]
      BY <2>0, <2>2, <1>r, <1>p, LeaveType
    <3> QED
      BY <1>8, <2>0, <3>1, PlacesApart
  <2> QED
    BY <2>1, <2>2, <1>11 DEF Answer
<1>12. ASSUME NEW r \in Runs, NEW transient \in BOOLEAN, Fail(r, transient)
       PROVE  AuthorizationHeld'
  <2>0. run[r].pc \in Inside /\ UNCHANGED <<guarded, record, lock>>
    BY <1>12 DEF Fail, Inside
  <2>1. CASE Throw(r)
    BY <2>0, <2>1, <1>9
  <2>2. CASE ~Throw(r)
    <3>1. /\ run'[r].pc = "sleeping"
          /\ \A s \in Runs : s # r => run'[s] = run[s]
      BY <2>2, <1>12, <1>r DEF Fail, TypeOK, RunRow
    <3> QED
      BY <1>8, <2>0, <3>1, PlacesApart
  <2> QED
    BY <2>1, <2>2
<1>13. ASSUME NEW r \in Runs, Retry(r) PROVE AuthorizationHeld'
  <2>0. run[r].pc \in Inside /\ UNCHANGED <<guarded, record, lock>>
    BY <1>13 DEF Retry, Inside
  <2>1. CASE Throw(r)
    BY <2>0, <2>1, <1>9
  <2>2. CASE ~Throw(r)
    <3>1. /\ run'[r].pc = "calling"
          /\ \A s \in Runs : s # r => run'[s] = run[s]
      <4>1. run' = [run EXCEPT ![r] = [run[r] EXCEPT
              !.pc = "calling", !.wire = "open", !.attempts = run[r].attempts + 1]]
        BY <2>2, <1>13, <1>r DEF Retry
      <4> QED
        BY <4>1, <1>r DEF TypeOK, RunRow
    <3> QED
      BY <1>8, <2>0, <3>1, PlacesApart
  <2> QED
    BY <2>1, <2>2
<1>14. ASSUME NEW r \in Runs, TimerFires(r) \/ CloseInBody(r) \/ Abort(r) \/ GiveUp(r)
       PROVE  AuthorizationHeld'
  <2>0. run[r].pc \in Inside /\ UNCHANGED <<guarded, record, lock>>
    BY <1>14 DEF TimerFires, CloseInBody, Abort, GiveUp, Inside
  <2>1. CASE Throw(r)
    BY <2>0, <2>1, <1>9
  <2>2. CASE ~Throw(r)
    <3>1. /\ run'[r].pc = "calling"
          /\ \A s \in Runs : s # r => run'[s] = run[s]
      BY <2>2, <1>14, WireMoves DEF TypeOK
    <3> QED
      BY <1>8, <2>0, <3>1, PlacesApart
  <2> QED
    BY <2>1, <2>2
<1>15. ASSUME NEW r \in Runs, Return(r) \/ Crash(r) PROVE AuthorizationHeld'
  BY <1>15, <1>2, <1>p DEF Return, Crash
<1>16. ASSUME NEW r \in Runs, FinalizeCompleted(r) \/ FinalizeFailed(r) PROVE AuthorizationHeld'
  <2>1. PICK pc \in {"finalized", "failed", "thrown"} :
          /\ Goto(r, pc)
          /\ \/ pc = "finalized" /\ run[r].pc = "drafted" /\ record' = "completed"
             \/ pc = "failed" /\ run[r].pc = "drafted" /\ UNCHANGED record
             \/ pc = "thrown" /\ run[r].pc = "failed" /\ record' \in {record, "failed"}
    BY <1>16 DEF FinalizeCompleted, FinalizeFailed
  <2>2. UNCHANGED <<guarded, lock>>
    BY <1>16 DEF FinalizeCompleted, FinalizeFailed
  <2>3. /\ run'[r].pc = pc /\ run'[r].attempts = run[r].attempts
        /\ \A s \in Runs : s # r => run'[s] = run[s]
    BY <2>1, <1>r, <1>p, GotoType
  <2>4. SUFFICES ASSUME guarded, NEW s \in Runs PROVE FilesFollow(s)'
    BY <2>2 DEF AuthorizationHeld
  <2>5. lock = r /\ record = "consumed" /\ run[r].pc \notin Before
    BY <2>1, <2>4, <1>r DEF FilesFollow, Holding, Spending, Before
  <2>6. pc \notin Before
    BY DEF Before
  <2>7. FilesFollow(r)'
    BY <2>1, <2>2, <2>3, <2>4, <2>5, <2>6, <1>r
       DEF FilesFollow, Holding, Spending, Leaving
  <2>8. s # r => FilesFollow(s)'
    BY <2>1, <2>2, <2>3, <2>4, <2>5, <1>r DEF FilesFollow, Holding, Spending, Leaving
  <2> QED
    BY <2>7, <2>8
<1> QED
  BY <1>1, <1>3, <1>4, <1>5, <1>6, <1>7, <1>10, <1>11, <1>12, <1>13, <1>14, <1>15, <1>16 DEF Next

\* A completed record stays that of an evaluation that was: under a guard only
\* an evaluation whose record reads consumed touches its adapter.
LEMMA CompletedNext ==
  ASSUME TypeOK, AuthorizationHeld, CompletedIsOfOne, [Next]_vars
  PROVE  CompletedIsOfOne'
<1> USE DEF Others, Files
<1> SUFFICES ASSUME guarded', record' = "completed"
             PROVE  \E r \in Runs : adapter'[r].last = <<"completed", r>>
  BY DEF CompletedIsOfOne
<1>g. guarded /\ \A r \in Runs : FilesFollow(r) /\ AdapterOf(r) = r
  <2>1. guarded' = guarded
    BY DEF Next, vars, Tick, TakeLock, Refuse, CheckRecord, MarkConsumed, SignLock, Unlock,
           Decline, Exhausted, Admit, Answer, Fail, Retry, TimerFires, GiveUp, Abort,
           CloseInBody, FinalizeCompleted, Return, FinalizeFailed, Crash
  <2> QED
    BY <2>1 DEF AuthorizationHeld, AdapterOf
<1>k. ASSUME record = "completed", UNCHANGED adapter
      PROVE  \E r \in Runs : adapter'[r].last = <<"completed", r>>
  BY <1>k, <1>g DEF CompletedIsOfOne
<1>s. ASSUME NEW r \in Runs, run[r].pc \in Spending, UNCHANGED record PROVE FALSE
  BY <1>s, <1>g DEF FilesFollow
<1>1. CASE Tick \/ UNCHANGED vars
  BY <1>1, <1>k DEF Tick, vars
<1>2. ASSUME NEW r \in Runs,
             \/ TakeLock(r) \/ Refuse(r) \/ CheckRecord(r) \/ MarkConsumed(r) \/ SignLock(r)
             \/ Unlock(r) \/ Return(r) \/ FinalizeFailed(r) \/ Crash(r)
      PROVE  record = "completed" /\ UNCHANGED adapter
  BY <1>2 DEF TakeLock, Refuse, CheckRecord, MarkConsumed, SignLock, Unlock,
              Return, FinalizeFailed, Crash
<1>3. ASSUME NEW r \in Runs, FinalizeCompleted(r)
      PROVE  \E s \in Runs : adapter'[s].last = <<"completed", s>>
  BY <1>3, <1>g, <1>k DEF FinalizeCompleted
<1>4. ASSUME NEW r \in Runs, Decline(r) \/ Exhausted(r) \/ Admit(r) PROVE FALSE
  BY <1>4, <1>g, <1>s DEF Decline, Exhausted, Admit, CanStart, Spending
<1>5. ASSUME NEW r \in Runs,
             \/ \E draft \in Drafts \cup {None} : Answer(r, draft)
             \/ \E transient \in BOOLEAN : Fail(r, transient)
             \/ Retry(r) \/ TimerFires(r) \/ GiveUp(r) \/ Abort(r) \/ CloseInBody(r)
      PROVE  FALSE
  BY <1>5, <1>s DEF Answer, Fail, Retry, TimerFires, GiveUp, Abort, CloseInBody, Inside, Spending
<1> QED
  BY <1>1, <1>2, <1>3, <1>4, <1>5, <1>k DEF Next
-----------------------------------------------------------------------------
(* The drafts. *)

LEMMA EvaluationsNext ==
  ASSUME TypeOK, EvaluationsHold, [Next]_vars
  PROVE  EvaluationsHold'
<1> USE DEF Others, Files
<1> DEFINE Done == {"drafted", "finalized", "returned"}
<1>r. \A r \in Runs :
        /\ run[r] \in RunRow /\ run[r].attempts \in Nat /\ run[r].aborted \in BOOLEAN
        /\ run[r].wire \in Wires /\ AttemptsHold(r) /\ InTime(r)
  BY DEF TypeOK, RunRow, EvaluationsHold
<1>p. /\ {"locked", "checked", "unlocking", "marked", "ready", "refused"} \subseteq Places
      /\ {"failed", "thrown", "returned", "drafted", "finalized", "crashed"} \subseteq Places
      /\ {"calling", "sleeping"} \subseteq Places /\ Failing \in Places
      /\ Failing \notin Done \cup {"sleeping"}
  BY DEF Places, Before, Inside, Ended, Failing
<1>1. CASE Tick \/ UNCHANGED vars
  BY <1>1 DEF Tick, vars, EvaluationsHold, AttemptsHold, InTime
<1>2. ASSUME NEW r \in Runs, \A s \in Runs : s # r => run'[s] = run[s],
             AttemptsHold(r)', InTime(r)'
      PROVE  EvaluationsHold'
  BY <1>2 DEF EvaluationsHold, AttemptsHold, InTime
<1>3. ASSUME NEW r \in Runs, NEW pc \in Places \ {"sleeping"}, Goto(r, pc),
             pc \in Done => run[r].pc \in Done
      PROVE  EvaluationsHold'
  <2>1. /\ run'[r].pc = pc /\ \A s \in Runs : s # r => run'[s] = run[s]
        /\ UNCHANGED <<run[r].at, run[r].deadline, run[r].attempts,
                       run[r].aborted, run[r].draft>>
    BY <1>3, GotoType
  <2> QED
    BY <1>2, <1>3, <1>r, <2>1 DEF AttemptsHold, InTime
<1>4. ASSUME NEW r \in Runs,
             \/ Refuse(r) \/ CheckRecord(r) \/ MarkConsumed(r) \/ SignLock(r) \/ Unlock(r)
             \/ Decline(r) \/ Exhausted(r)
             \/ FinalizeCompleted(r) \/ Return(r) \/ FinalizeFailed(r) \/ Crash(r)
      PROVE  EvaluationsHold'
  <2>1. PICK pc \in Places \ {"sleeping"} :
               Goto(r, pc) /\ (pc \in Done => run[r].pc \in Done)
    BY <1>4, <1>p DEF Refuse, CheckRecord, MarkConsumed, SignLock, Unlock, Decline, Exhausted,
                      FinalizeCompleted, Return, FinalizeFailed, Crash
  <2> QED
    BY <1>3, <2>1
<1>5. ASSUME NEW r \in Runs, UNCHANGED guarded, Throw(r) PROVE EvaluationsHold'
  <2>1. /\ run'[r].pc = Failing /\ run'[r].attempts = run[r].attempts
        /\ \A s \in Runs : s # r => run'[s] = run[s]
    BY <1>5, <1>p, LeaveType DEF Throw
  <2> QED
    BY <1>2, <1>r, <1>p, <2>1 DEF AttemptsHold, InTime
\* Any other step inside an evaluation.
<1>6. ASSUME NEW r \in Runs, NEW row \in RunRow, run' = [run EXCEPT ![r] = row],
             row.pc \notin Done, row.attempts <= MaxAttempts,
             row.pc = "sleeping" => row.attempts < MaxAttempts
      PROVE  EvaluationsHold'
  <2>1. run'[r] = row /\ \A s \in Runs : s # r => run'[s] = run[s]
    BY <1>6 DEF TypeOK
  <2> QED
    BY <1>2, <1>6, <2>1 DEF AttemptsHold, InTime
<1>7. ASSUME NEW r \in Runs, TakeLock(r) PROVE EvaluationsHold'
  <2> DEFINE row == [run[r] EXCEPT !.pc = "locked", !.at = now]
  <2>1. row \in RunRow /\ row.pc = "locked" /\ row.attempts = run[r].attempts
    BY <1>r, <1>p DEF RunRow, TypeOK
  <2>2. run' = [run EXCEPT ![r] = row]
    BY <1>7, <1>r DEF TakeLock, TypeOK, RunRow
  <2> QED
    BY <1>6, <1>r, <2>1, <2>2 DEF AttemptsHold
<1>8. ASSUME NEW r \in Runs, Admit(r) PROVE EvaluationsHold'
  <2> DEFINE row == [run[r] EXCEPT !.pc = "calling", !.at = now, !.deadline = now + Timeout,
                                   !.attempts = 1, !.wire = "open"]
  <2>1. now + Timeout \in Nat /\ now \in Nat /\ MaxAttempts >= 1
    BY LimitsAssumption DEF TypeOK
  <2>2. row \in RunRow /\ row.pc = "calling" /\ row.attempts = 1
    BY <1>r, <1>p, <2>1 DEF RunRow, Wires
  <2>3. run' = [run EXCEPT ![r] = row]
    BY <1>8 DEF Admit
  <2> QED
    BY <1>6, <2>1, <2>2, <2>3
<1>9. ASSUME NEW r \in Runs, NEW draft \in Drafts \cup {None}, Answer(r, draft)
      PROVE  EvaluationsHold'
  <2>1. CASE Throw(r)
    BY <2>1, <1>5, <1>9 DEF Answer
  <2>2. CASE ~Throw(r)
    <3>1. /\ Leave(r, IF guarded THEN "drafted" ELSE "returned", "completed", draft)
          /\ draft \in ValidDrafts /\ Accepts(r) /\ UNCHANGED guarded
          /\ run[r].pc = "calling"
      BY <1>9, <2>2 DEF Answer
    <3>2. /\ run'[r].pc \in Done /\ run'[r].at = now /\ run'[r].draft = draft
          /\ UNCHANGED <<run[r].deadline, run[r].attempts, run[r].aborted>>
          /\ \A s \in Runs : s # r => run'[s] = run[s]
      BY <3>1, <1>p, LeaveType
    <3> QED
      BY <1>2, <1>r, <3>1, <3>2 DEF AttemptsHold, InTime, Accepts
  <2> QED
    BY <2>1, <2>2
<1>10. ASSUME NEW r \in Runs, NEW transient \in BOOLEAN, Fail(r, transient)
       PROVE  EvaluationsHold'
  <2>1. CASE Throw(r)
    BY <2>1, <1>5, <1>10 DEF Fail
  <2>2. CASE ~Throw(r)
    <3>1. /\ run' = [run EXCEPT ![r] = [run[r] EXCEPT
                !.pc = "sleeping", !.wire = "closed", !.wake = now + Pause(r)]]
          /\ run[r].attempts < MaxAttempts
      BY <1>10, <2>2 DEF Fail, MayRetry
    <3>2. /\ run'[r].pc = "sleeping" /\ run'[r].attempts = run[r].attempts
          /\ \A s \in Runs : s # r => run'[s] = run[s]
      BY <3>1, <1>r DEF TypeOK, RunRow
    <3> QED
      BY <1>2, <1>r, <3>1, <3>2 DEF AttemptsHold, InTime
  <2> QED
    BY <2>1, <2>2
<1>11. ASSUME NEW r \in Runs, Retry(r) PROVE EvaluationsHold'
  <2>1. CASE Throw(r)
    BY <2>1, <1>5, <1>11 DEF Retry
  <2>2. CASE ~Throw(r)
    <3> DEFINE row == [run[r] EXCEPT
          !.pc = "calling", !.wire = "open", !.attempts = run[r].attempts + 1]
    <3>1. run' = [run EXCEPT ![r] = row] /\ run[r].attempts < MaxAttempts
      BY <1>11, <2>2, <1>r DEF Retry, AttemptsHold
    <3>2. run[r].attempts + 1 \in Nat /\ run[r].attempts + 1 <= MaxAttempts
      BY <3>1, <1>r, LimitsAssumption
    <3>3. row \in RunRow /\ row.pc = "calling" /\ row.attempts = run[r].attempts + 1
      BY <1>r, <1>p, <3>2 DEF RunRow, Wires
    <3> QED
      BY <1>6, <3>1, <3>2, <3>3
  <2> QED
    BY <2>1, <2>2
<1>12. ASSUME NEW r \in Runs, TimerFires(r) \/ CloseInBody(r) \/ Abort(r) \/ GiveUp(r)
       PROVE  EvaluationsHold'
  <2>0. UNCHANGED guarded
    BY <1>12 DEF TimerFires, CloseInBody, Abort, GiveUp
  <2>1. CASE Throw(r)
    BY <2>0, <2>1, <1>5
  <2>2. CASE ~Throw(r)
    <3>1. PICK row \in RunRow : /\ run' = [run EXCEPT ![r] = row]
                               /\ row.pc = "calling" /\ row.attempts = run[r].attempts
      BY <1>12, <2>2, WireMoves
    <3> QED
      BY <1>6, <1>r, <3>1 DEF AttemptsHold
  <2> QED
    BY <2>1, <2>2
<1> QED
  BY <1>1, <1>4, <1>7, <1>8, <1>9, <1>10, <1>11, <1>12 DEF Next
-----------------------------------------------------------------------------
(* The budgets of the shared adapter. *)

\* A step of one evaluation moves at most that one in or out.
LEMMA InsidersMove ==
  ASSUME NEW r \in Runs, \A s \in Runs : s # r => run'[s] = run[s]
  PROVE  Insiders' = IF run'[r].pc \in Inside THEN Insiders \cup {r} ELSE Insiders \ {r}
BY DEF Insiders

\* What is left of the requests has no fuller window, now or later.
LEMMA WindowsShrink ==
  ASSUME NEW R \in SUBSET (Nat \X Runs), NEW Q \in SUBSET R,
         NEW t \in Nat, NEW u \in Nat, t <= u, WindowsHold(R, t)
  PROVE  WindowsHold(Q, u)
<1>1. IsFiniteSet(R) /\ IsFiniteSet(Q)
  BY FS_Subset DEF WindowsHold
<1>2. ASSUME NEW q \in Q
      PROVE  Cardinality(Window(Q, q)) <= MaxRequestsPerMinute
  <2>1. Window(Q, q) \subseteq Window(R, q) /\ Window(R, q) \subseteq R
    BY DEF Window
  <2>2. IsFiniteSet(Window(R, q)) /\ IsFiniteSet(Window(Q, q))
    BY <1>1, <2>1, FS_Subset
  <2>3. Cardinality(Window(Q, q)) <= Cardinality(Window(R, q))
    BY <2>1, <2>2, FS_Subset
  <2>4. Cardinality(Window(R, q)) <= MaxRequestsPerMinute
    BY DEF WindowsHold
  <2>5. /\ Cardinality(Window(R, q)) \in Nat /\ Cardinality(Window(Q, q)) \in Nat
        /\ MaxRequestsPerMinute \in Nat
    BY <2>2, FS_CardinalityType, LimitsAssumption
  <2> QED
    BY ONLY <2>3, <2>4, <2>5
<1>3. \A q \in Q : q[1] <= u
  <2>1. \A q \in Q : q[1] <= t /\ q[1] \in Nat
    BY DEF WindowsHold
  <2> QED
    BY <2>1
<1> QED
  BY <1>1, <1>2, <1>3 DEF WindowsHold

\* A start within the rate makes no window too full: that of an earlier
\* request has ended, and those that the new one ends are the recent ones.
LEMMA WindowsGrow ==
  ASSUME TypeOK, NEW a \in Runs \cup {None}, NEW r \in Runs,
         WindowsHold(adapter[a].requests, now), WithinRate(a)
  PROVE  WindowsHold(Recent(a) \cup {<<now, r>>}, now)
<1> DEFINE R == adapter[a].requests
           Q == Recent(a)
           q0 == <<now, r>>
<1>1. R \in SUBSET (Nat \X Runs) /\ now \in Nat /\ Q \in SUBSET R
  BY DEF TypeOK, AdapterRow, Recent
<1>2. /\ IsFiniteSet(Q) /\ IsFiniteSet(Q \cup {q0})
      /\ Cardinality(Q \cup {q0}) <= MaxRequestsPerMinute
  <2>1. IsFiniteSet(Q)
    BY <1>1, FS_Subset DEF WindowsHold
  <2>2. /\ IsFiniteSet(Q \cup {q0})
        /\ Cardinality(Q \cup {q0}) = Cardinality(Q) \/ Cardinality(Q \cup {q0}) = Cardinality(Q) + 1
    BY <2>1, FS_AddElement
  <2>3. Cardinality(Q) < MaxRequestsPerMinute
    BY DEF WithinRate
  <2>4. Cardinality(Q) \in Nat /\ MaxRequestsPerMinute \in Nat
    BY <2>1, FS_CardinalityType, LimitsAssumption
  <2> QED
    BY <2>1, <2>2, <2>3, <2>4
<1>3. ASSUME NEW q \in Q \cup {q0}
      PROVE  q[1] <= now /\ Cardinality(Window(Q \cup {q0}, q)) <= MaxRequestsPerMinute
  <2>1. q[1] \in Nat /\ q[1] <= now
    BY <1>1 DEF WindowsHold
  <2>2. CASE q[1] = now
    <3>1. Window(Q \cup {q0}, q) \subseteq Q \cup {q0}
      BY DEF Window
    <3>2. /\ Cardinality(Window(Q \cup {q0}, q)) <= Cardinality(Q \cup {q0})
          /\ IsFiniteSet(Window(Q \cup {q0}, q))
      BY <1>2, <3>1, FS_Subset
    <3>3. /\ Cardinality(Window(Q \cup {q0}, q)) \in Nat /\ Cardinality(Q \cup {q0}) \in Nat
          /\ MaxRequestsPerMinute \in Nat
      BY <1>2, <3>2, FS_CardinalityType, LimitsAssumption
    <3>4. Cardinality(Q \cup {q0}) <= MaxRequestsPerMinute
      BY <1>2
    <3>5. Cardinality(Window(Q \cup {q0}, q)) <= MaxRequestsPerMinute
      BY ONLY <3>2, <3>3, <3>4
    <3> QED
      BY <2>1, <3>5
  <2>3. CASE q[1] # now
    <3>1. q \in Q
      BY <2>3
    <3>2. Window(Q \cup {q0}, q) = Window(Q, q)
      BY <1>1, <2>1, <2>3 DEF Window
    <3>3. Cardinality(Window(Q, q)) <= MaxRequestsPerMinute
      <4>1. now <= now
        BY <1>1
      <4>2. WindowsHold(Q, now)
        BY <1>1, <4>1, WindowsShrink
      <4> QED
        BY <3>1, <4>2 DEF WindowsHold
    <3> QED
      BY <2>1, <3>2, <3>3
  <2> QED
    BY <2>2, <2>3
<1> QED
  BY <1>2, <1>3 DEF WindowsHold

LEMMA CountersNext ==
  ASSUME TypeOK, TypeOK', CountersHold, Unguarded, [Next]_vars
  PROVE  CountersHold' /\ Unguarded'
<1> USE DEF Others, Files
<1>g. guarded' = guarded /\ now <= now'
  <2>1. guarded' = guarded /\ (now' = now \/ Tick)
    BY DEF Next, vars, Tick, TakeLock, Refuse, CheckRecord, MarkConsumed, SignLock, Unlock,
           Decline, Exhausted, Admit, Answer, Fail, Retry, TimerFires, GiveUp, Abort,
           CloseInBody, FinalizeCompleted, Return, FinalizeFailed, Crash
  <2>2. now \in Nat
    BY DEF TypeOK
  <2> QED
    BY <2>1, <2>2 DEF Tick
<1> SUFFICES ASSUME ~guarded PROVE CountersHold' /\ Unguarded'
  BY <1>g DEF CountersHold, Unguarded
<1> DEFINE Lot == {"idle"} \cup Inside \cup {"returned", "thrown"}
           A == adapter[None]
<1>c. /\ IsFiniteSet(Insiders) /\ A.active = Cardinality(Insiders) /\ A.active <= MaxConcurrent
      /\ WindowsHold(A.requests, now) /\ Cardinality(Insiders) \in Nat /\ MaxConcurrent \in Nat
  BY FS_CardinalityType, LimitsAssumption DEF CountersHold
<1>t. /\ now \in Nat /\ now' \in Nat /\ A.requests \in SUBSET (Nat \X Runs)
      /\ A \in AdapterRow
  BY DEF TypeOK, AdapterRow
<1>r. \A r \in Runs : /\ run[r] \in RunRow /\ run[r].pc \in Lot /\ AdapterOf(r) = None
                      /\ run[r].aborted \in BOOLEAN
  BY DEF TypeOK, Unguarded, AdapterOf, RunRow
<1>p. Failing \in Places /\ {"returned", "thrown"} \subseteq Places /\ Failing = "thrown"
  BY DEF Places, Ended, Failing
<1>e. {"returned", "thrown", "idle"} \cap Inside = {}
  BY DEF Inside
\* Nobody comes or goes, and requests are at most forgotten.
<1>1. ASSUME Insiders' = Insiders, adapter'[None].active = A.active,
             adapter'[None].requests \subseteq A.requests
      PROVE  CountersHold'
  <2>1. WindowsHold(adapter'[None].requests, now')
    BY <1>1, <1>c, <1>g, <1>t, WindowsShrink
  <2> QED
    BY <1>1, <1>c, <2>1 DEF CountersHold, WindowsHold, Window
<1>2. ASSUME NEW r \in Runs, \A s \in Runs : s # r => run'[s] = run[s], run'[r].pc \in Lot
      PROVE  Unguarded'
  BY <1>2, <1>r DEF Unguarded
<1>3. CASE Tick \/ UNCHANGED vars
  <2>1. Insiders' = Insiders /\ adapter' = adapter /\ run' = run
    BY <1>3 DEF Tick, vars, Insiders
  <2>2. Unguarded'
    BY <2>1, <1>g DEF Unguarded
  <2> QED
    BY <1>1, <2>1, <2>2
<1>4. ASSUME NEW r \in Runs,
             \/ TakeLock(r) \/ Refuse(r) \/ CheckRecord(r) \/ MarkConsumed(r) \/ SignLock(r)
             \/ Unlock(r) \/ FinalizeCompleted(r) \/ Return(r) \/ FinalizeFailed(r) \/ Crash(r)
      PROVE  FALSE
  BY <1>4, <1>r DEF TakeLock, Refuse, CheckRecord, MarkConsumed, SignLock, Unlock,
                    FinalizeCompleted, Return, FinalizeFailed, Crash, Inside
<1>5. ASSUME NEW r \in Runs, Decline(r) \/ Exhausted(r) PROVE CountersHold' /\ Unguarded'
  <2>1. Goto(r, Failing) /\ run[r].pc = "idle"
    BY <1>5 DEF Decline, Exhausted, CanStart
  <2>2. run'[r].pc = "thrown" /\ \A s \in Runs : s # r => run'[s] = run[s]
    BY <2>1, <1>p, GotoType
  <2>3. Insiders' = Insiders
    BY <2>1, <2>2, <1>e, InsidersMove DEF Insiders
  <2>4. \/ adapter' = [adapter EXCEPT ![None] = [A EXCEPT !.last = None]]
        \/ adapter' = [adapter EXCEPT ![None] = [A EXCEPT !.last = None, !.requests = Recent(None)]]
    BY <1>5, <1>r, <1>t DEF Decline, Exhausted, TypeOK
  <2>5. Recent(None) \subseteq A.requests
    BY DEF Recent
  <2>6. adapter'[None].active = A.active /\ adapter'[None].requests \subseteq A.requests
    <3>1. None \in DOMAIN adapter
      BY DEF TypeOK
    <3>2. /\ [A EXCEPT !.last = None].active = A.active
          /\ [A EXCEPT !.last = None].requests = A.requests
          /\ [A EXCEPT !.last = None, !.requests = Recent(None)].active = A.active
          /\ [A EXCEPT !.last = None, !.requests = Recent(None)].requests = Recent(None)
      BY <1>t DEF AdapterRow
    <3> QED
      BY ONLY <2>4, <2>5, <3>1, <3>2
  <2> QED
    BY <1>1, <1>2, <2>2, <2>3, <2>6
<1>6. ASSUME NEW r \in Runs, Admit(r) PROVE CountersHold' /\ Unguarded'
  <2> DEFINE new == [active |-> A.active + 1,
                     requests |-> Recent(None) \cup {<<now, r>>}, last |-> None]
  <2>1. /\ run[r].pc = "idle" /\ WithinRate(None) /\ WithinConcurrency(None)
        /\ adapter' = [adapter EXCEPT ![None] = new] /\ now' = now
    BY <1>6, <1>r, <1>t DEF Admit, CanStart, TypeOK
  <2>2. run'[r].pc = "calling" /\ \A s \in Runs : s # r => run'[s] = run[s]
    BY <1>6, <1>r DEF Admit, TypeOK, RunRow
  <2>3. Insiders' = Insiders \cup {r} /\ r \notin Insiders
    BY <2>1, <2>2, <1>e, InsidersMove DEF Insiders, Inside
  <2>4. IsFiniteSet(Insiders') /\ Cardinality(Insiders') = Cardinality(Insiders) + 1
    BY <2>3, <1>c, FS_AddElement
  <2>5. /\ adapter'[None].active = A.active + 1
        /\ adapter'[None].requests = Recent(None) \cup {<<now, r>>}
    BY <2>1 DEF TypeOK
  <2>6. WindowsHold(adapter'[None].requests, now')
    BY <2>1, <2>5, <1>c, WindowsGrow
  <2>7. A.active + 1 <= MaxConcurrent
    BY <2>1, <1>c DEF WithinConcurrency
  <2>8. CountersHold'
    BY <2>4, <2>5, <2>6, <2>7, <1>c DEF CountersHold, WindowsHold, Window
  <2> QED
    BY <1>2, <2>2, <2>8 DEF Inside
\* Whoever leaves gives one slot back.
<1>7. ASSUME NEW r \in Runs, run[r].pc \in Inside, NEW pc \in {"returned", "thrown"},
             NEW status \in {"completed", "failed"}, NEW draft \in Drafts \cup {None},
             Leave(r, pc, status, draft)
      PROVE  CountersHold' /\ Unguarded'
  <2>1. /\ run'[r].pc = pc /\ \A s \in Runs : s # r => run'[s] = run[s]
        /\ adapter'[None].active = A.active - 1
        /\ adapter'[None].requests = A.requests
    <3>1. pc \in Places /\ UNCHANGED guarded /\ AdapterOf(r) = None
      BY <1>p, <1>g, <1>r
    <3>2. Freed(r, status) = A.active - 1
      BY <3>1 DEF Freed
    <3> QED
      BY <1>7, <3>1, <3>2, LeaveType
  <2>2. Insiders' = Insiders \ {r} /\ r \in Insiders
    BY <1>7, <2>1, <1>e, InsidersMove DEF Insiders
  <2>3. IsFiniteSet(Insiders') /\ Cardinality(Insiders') = Cardinality(Insiders) - 1
    BY <2>2, <1>c, FS_RemoveElement
  <2>4. WindowsHold(adapter'[None].requests, now')
    BY <2>1, <1>c, <1>g, <1>t, WindowsShrink
  <2>5. CountersHold'
    BY <2>1, <2>3, <2>4, <1>c DEF CountersHold, WindowsHold, Window
  <2> QED
    BY <1>2, <2>1, <2>5
<1>8. ASSUME NEW r \in Runs, run[r].pc \in Inside, Throw(r) PROVE CountersHold' /\ Unguarded'
  BY <1>7, <1>8, <1>p DEF Throw
\* Whoever stays inside leaves the adapter alone.
<1>9. ASSUME NEW r \in Runs, run[r].pc \in Inside, run'[r].pc \in Inside,
             \A s \in Runs : s # r => run'[s] = run[s], UNCHANGED adapter
      PROVE  CountersHold' /\ Unguarded'
  <2>1. Insiders' = Insiders
    BY <1>9, InsidersMove DEF Insiders
  <2> QED
    BY <1>1, <1>2, <1>9, <2>1
<1>10. ASSUME NEW r \in Runs, NEW draft \in Drafts \cup {None}, Answer(r, draft)
       PROVE  CountersHold' /\ Unguarded'
  <2>1. run[r].pc \in Inside
    BY <1>10 DEF Answer, Inside
  <2>2. Throw(r) \/ Leave(r, "returned", "completed", draft)
    BY <1>10 DEF Answer
  <2> QED
    BY <1>7, <1>8, <2>1, <2>2
<1>11. ASSUME NEW r \in Runs, NEW transient \in BOOLEAN, Fail(r, transient)
       PROVE  CountersHold' /\ Unguarded'
  <2>1. run[r].pc \in Inside
    BY <1>11 DEF Fail, Inside
  <2>2. CASE Throw(r)
    BY <1>8, <2>1, <2>2
  <2>3. CASE ~Throw(r)
    <3>1. /\ run'[r].pc = "sleeping" /\ UNCHANGED adapter
          /\ \A s \in Runs : s # r => run'[s] = run[s]
      <4>1. /\ run' = [run EXCEPT ![r] = [run[r] EXCEPT
                  !.pc = "sleeping", !.wire = "closed", !.wake = now + Pause(r)]]
            /\ UNCHANGED adapter
        BY <1>11, <2>3 DEF Fail
      <4> QED
        BY <4>1, <1>r DEF TypeOK, RunRow
    <3> QED
      BY <1>9, <2>1, <3>1 DEF Inside
  <2> QED
    BY <2>2, <2>3
<1>12. ASSUME NEW r \in Runs, Retry(r) PROVE CountersHold' /\ Unguarded'
  <2>1. run[r].pc \in Inside
    BY <1>12 DEF Retry, Inside
  <2>2. CASE Throw(r)
    BY <1>8, <2>1, <2>2
  <2>3. CASE ~Throw(r)
    <3>1. /\ run' = [run EXCEPT ![r] = [run[r] EXCEPT
                !.pc = "calling", !.wire = "open", !.attempts = run[r].attempts + 1]]
          /\ UNCHANGED adapter
      BY <1>12, <2>3, <1>r DEF Retry
    <3>2. run'[r].pc = "calling" /\ \A s \in Runs : s # r => run'[s] = run[s]
      BY <3>1, <1>r DEF TypeOK, RunRow
    <3> QED
      BY <1>9, <2>1, <3>1, <3>2 DEF Inside
  <2> QED
    BY <2>2, <2>3
<1>13. ASSUME NEW r \in Runs, TimerFires(r) \/ CloseInBody(r) \/ Abort(r) \/ GiveUp(r)
       PROVE  CountersHold' /\ Unguarded'
  <2>1. run[r].pc \in Inside
    BY <1>13 DEF TimerFires, CloseInBody, Abort, GiveUp, Inside
  <2>2. CASE Throw(r)
    BY <1>8, <2>1, <2>2
  <2>3. CASE ~Throw(r)
    <3>1. /\ run'[r].pc = "calling" /\ UNCHANGED adapter
          /\ \A s \in Runs : s # r => run'[s] = run[s]
      BY <1>13, <2>3, WireMoves DEF TypeOK
    <3> QED
      BY <1>9, <2>1, <3>1 DEF Inside
  <2> QED
    BY <2>2, <2>3
<1> QED
  BY <1>3, <1>4, <1>5, <1>6, <1>10, <1>11, <1>12, <1>13 DEF Next
-----------------------------------------------------------------------------
(* Every reachable state. *)

LEMMA IInvInit == Init => IInv
<1> SUFFICES ASSUME Init PROVE IInv
  OBVIOUS
<1>1. TypeOK
  BY TypeInit
<1>2. AuthorizationHeld
  BY DEF Init, AuthorizationHeld, FilesFollow, NewRun, Holding, Spending, Leaving
<1>3. CompletedIsOfOne
  BY DEF Init, CompletedIsOfOne
<1>4. EvaluationsHold
  <2>1. MaxAttempts \in Nat
    BY LimitsAssumption
  <2> QED
    BY <2>1 DEF Init, EvaluationsHold, AttemptsHold, InTime, NewRun
<1>5. CountersHold
  <2>1. Insiders = {} /\ adapter[None].active = 0 /\ adapter[None].requests = {}
    BY DEF Init, Insiders, Inside, NewRun, NewAdapter
  <2>2. IsFiniteSet({}) /\ Cardinality({}) = 0 /\ MaxConcurrent \in Nat
    BY FS_EmptySet, LimitsAssumption
  <2> QED
    BY <2>1, <2>2 DEF CountersHold, WindowsHold
<1>6. Unguarded
  BY DEF Init, Unguarded, NewRun
<1> QED
  BY <1>1, <1>2, <1>3, <1>4, <1>5, <1>6 DEF IInv

LEMMA IInvNext == IInv /\ [Next]_vars => IInv'
<1> SUFFICES ASSUME IInv, [Next]_vars PROVE IInv'
  OBVIOUS
<1>1. TypeOK /\ TypeOK'
  BY TypeNext DEF IInv
<1> QED
  BY <1>1, AuthorizationNext, CompletedNext, EvaluationsNext, CountersNext DEF IInv

LEMMA Invariance == Spec => []IInv
BY IInvInit, IInvNext, PTL DEF Spec

\* Every evaluation, adapter and file keeps its shape.
THEOREM TypeCorrect == Spec => []TypeOK
<1>1. IInv => TypeOK
  BY DEF IInv
<1> QED
  BY <1>1, Invariance, PTL

\* However many processes consume an authorization, fail and stop, it lets one
\* evaluation at most reach the provider, and is spent from then on.
THEOREM UsedOnce == Spec => []AuthorizationUsedOnce
<1>1. IInv => AuthorizationUsedOnce
  <2> SUFFICES ASSUME IInv, guarded
               PROVE  /\ Cardinality(Reached) <= 1
                      /\ Reached # {} => lock \in Reached /\ record # "authorized"
    BY DEF AuthorizationUsedOnce
  <2>1. \A r \in Reached : lock = r /\ record # "authorized"
    BY DEF IInv, AuthorizationHeld, FilesFollow, Reached
  <2>2. CASE Reached = {}
    BY <2>2, FS_EmptySet
  <2>3. CASE Reached # {}
    <3>1. Reached = {lock}
      BY <2>1, <2>3
    <3>2. Cardinality({lock}) = 1
      BY FS_Singleton
    <3> QED
      BY <2>1, <3>1, <3>2
  <2> QED
    BY <2>2, <2>3
<1> QED
  BY <1>1, Invariance, PTL

\* The authorization file tells what became of the evaluation.
THEOREM RecordTells == Spec => []RecordTellsTheOutcome
<1>1. IInv => RecordTellsTheOutcome
  BY DEF IInv, AuthorizationHeld, FilesFollow, CompletedIsOfOne, RecordTellsTheOutcome, Leaving
<1> QED
  BY <1>1, Invariance, PTL

\* The shared adapter counts its evaluations rightly and within its limits, and
\* lets no minute have more starts than allowed.
THEOREM BudgetsSafe == Spec => []BudgetsHold
<1>1. IInv => BudgetsHold
  BY DEF IInv, CountersHold, BudgetsHold, WindowsHold, Window, Insiders
<1> QED
  BY <1>1, Invariance, PTL

\* A draft that is accepted came in time, within the attempts allowed, and
\* concludes nothing that is contested or that no citation supports.
THEOREM DraftsSafe == Spec => []DraftsAreTimely
<1>1. IInv => DraftsAreTimely
  <2> SUFFICES ASSUME IInv, NEW r \in Runs
               PROVE  /\ run[r].attempts <= MaxAttempts
                      /\ run[r].pc \in {"drafted", "finalized", "returned"} =>
                           /\ ~run[r].aborted /\ run[r].at <= run[r].deadline
                           /\ Uncontested(run[r].draft, Evidence)
                           /\ RestsOnClaims(run[r].draft, Evidence)
    BY DEF DraftsAreTimely
  <2>1. AttemptsHold(r) /\ InTime(r)
    BY DEF IInv, EvaluationsHold
  <2>2. ASSUME run[r].draft \in ValidDrafts
        PROVE  /\ Uncontested(run[r].draft, Evidence)
               /\ RestsOnClaims(run[r].draft, Evidence)
    <3>1. Shaped(run[r].draft) /\ ValidDraft(run[r].draft, Evidence)
      BY <2>2, ShapesAssumption DEF ValidDrafts
    <3> QED
      BY <3>1, AcceptedIsUncontested, AcceptedRestsOnClaims
  <2> QED
    BY <2>1, <2>2 DEF AttemptsHold, InTime
<1> QED
  BY <1>1, Invariance, PTL
=============================================================================
