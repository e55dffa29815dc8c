------------------------- MODULE AssessmentProvider -------------------------
(***************************************************************************)
(* Evaluations by the OpenAI adapter (server/evidence/openai-adapter.ts)   *)
(* over its transport, in the two ways the code sets them up:              *)
(*  - guarded: every request has an adapter of its own, behind the one-use *)
(*    authorization file (development-provider.ts, smoke-authorization.ts, *)
(*    scripts/openai-smoke-live.ts); the requests may be of different      *)
(*    processes and a process may stop anywhere;                           *)
(*  - not guarded: concurrent evaluations share one adapter and its        *)
(*    budgets, and their callers may abort them.                           *)
(*                                                                         *)
(* A step is what runs between two awaits.  Time is counted in units of    *)
(* the first back-off; the limits on tokens and costs are a reason to      *)
(* refuse, no more.  The configuration is of an environment that selects   *)
(* the model (ProviderGates), so its gates are open.                       *)
(***************************************************************************)
EXTENDS AssessmentDraft, FiniteSetsExt

CONSTANTS
  Runs,            \* evaluations
  Evidence,        \* the frozen evidence set they are about
  Drafts,          \* what the model may answer
  MaxAttempts, MaxConcurrent, MaxRequestsPerMinute,
  Minute,          \* the window of the request budget
  Timeout,         \* the least of timeoutMs and maxLatencyMs
  ExpiresAt,       \* expiry of the authorization
  LastStart,       \* bound: no evaluation is begun later
  MaxTime          \* bound: the last moment

\* The adapter that is shared is none of the guarded ones; the limits are in
\* the ranges parseAiProviderConfig admits; what is no draft at all is None.
ASSUME RunsAssumption == None \notin Runs
ASSUME LimitsAssumption ==
  /\ {MaxAttempts, MaxConcurrent, MaxRequestsPerMinute, Timeout} \subseteq Nat \ {0}
  /\ Minute \in Nat
ASSUME ShapesAssumption == None \notin Drafts /\ \A d \in Drafts : Shaped(d)

VARIABLES
  now,
  guarded,    \* which of the two ways
  run,        \* evaluation |-> where it is and what it holds
  adapter,    \* adapter |-> its counters and its last metadata
  record,     \* status of the authorization file
  lock        \* who created the .consumed file, or None

vars == <<now, guarded, run, adapter, record, lock>>

\* The evaluations that are not guarded share the adapter None.
AdapterOf(r) == IF guarded THEN r ELSE None

NewRun == [pc |-> "idle", at |-> 0, deadline |-> 0, attempts |-> 0,
           wake |-> 0, wire |-> "closed", aborted |-> FALSE, draft |-> None]
NewAdapter == [active |-> 0, requests |-> {}, last |-> None]

Inside == {"calling", "sleeping"}            \* evaluate holds a slot
Ended == {"returned", "thrown", "refused", "crashed"}
-----------------------------------------------------------------------------
Init ==
  /\ now = 0
  /\ guarded \in BOOLEAN
  /\ run = [r \in Runs |-> NewRun]
  /\ adapter = [a \in Runs \cup {None} |-> NewAdapter]
  /\ record = "authorized"
  /\ lock = None

Tick ==
  /\ now < MaxTime
  /\ now' = now + 1
  /\ UNCHANGED <<guarded, run, adapter, record, lock>>

Goto(r, pc) == run' = [run EXCEPT ![r].pc = pc]
Files == <<record, lock>>
Others == <<now, guarded>>
-----------------------------------------------------------------------------
(* consumeSmokeAuthorization.  Each file operation may fail.               *)

\* The clock is read on the call; only one creates the .consumed file.
LockIgnored == TRUE
LockIsFree == lock = None
TakeLock(r) ==
  /\ guarded /\ run[r].pc = "idle" /\ now <= LastStart
  /\ LockIsFree
  /\ lock' = r
  /\ run' = [run EXCEPT ![r].pc = "locked", ![r].at = now]
  /\ UNCHANGED <<Others, adapter, record>>

\* The file is there already, or cannot be created.
Refuse(r) ==
  /\ guarded /\ run[r].pc = "idle" /\ now <= LastStart
  /\ Goto(r, "refused")
  /\ UNCHANGED <<Others, adapter, Files>>

\* A record that is not readable or not of this configuration fails as well.
CheckRecord(r) ==
  /\ run[r].pc = "locked"
  /\ \/ /\ record = "authorized" /\ run[r].at < ExpiresAt
        /\ Goto(r, "checked")
     \/ Goto(r, "unlocking")
  /\ UNCHANGED <<Others, adapter, Files>>

MarkConsumed(r) ==
  /\ run[r].pc = "checked"
  /\ \/ record' = "consumed" /\ Goto(r, "marked")
     \/ UNCHANGED record /\ Goto(r, "unlocking")
  /\ UNCHANGED <<Others, adapter, lock>>

SignLock(r) ==
  /\ run[r].pc = "marked"
  /\ Goto(r, "ready") \/ Goto(r, "unlocking")
  /\ UNCHANGED <<Others, adapter, Files>>

\* On any error: the .consumed file is removed, if that succeeds.
Unlock(r) ==
  /\ run[r].pc = "unlocking"
  /\ lock' \in {None, lock}
  /\ Goto(r, "refused")
  /\ UNCHANGED <<Others, adapter, record>>
-----------------------------------------------------------------------------
(* OpenAiAssessmentAdapter.evaluate.                                        *)

CanStart(r) == run[r].pc = IF guarded THEN "ready" ELSE "idle"
Recent(a) == {q \in adapter[a].requests : q[1] + Minute > now}
WithinRate(a) == Cardinality(Recent(a)) < MaxRequestsPerMinute
WithinConcurrency(a) == adapter[a].active < MaxConcurrent

\* Where a failed evaluation leads: the guard has still to finalize.
Failing == IF guarded THEN "failed" ELSE "thrown"

\* No slot was taken: the evidence reads like an instruction or the run would
\* cost too much, found before the window of requests is moved on, or ...
Decline(r) ==
  /\ CanStart(r) /\ now <= LastStart
  /\ adapter' = [adapter EXCEPT ![AdapterOf(r)].last = None]
  /\ Goto(r, Failing)
  /\ UNCHANGED <<Others, Files>>

\* ... the rate or the concurrency budget is exhausted.
Exhausted(r) ==
  LET a == AdapterOf(r) IN
  /\ CanStart(r) /\ now <= LastStart
  /\ ~(WithinRate(a) /\ WithinConcurrency(a))
  /\ adapter' = [adapter EXCEPT ![a].last = None, ![a].requests = Recent(a)]
  /\ Goto(r, Failing)
  /\ UNCHANGED <<Others, Files>>

\* The slot is taken and the first attempt sent.
Admit(r) ==
  LET a == AdapterOf(r) IN
  /\ CanStart(r) /\ now <= LastStart
  /\ WithinRate(a) /\ WithinConcurrency(a)
  /\ adapter' = [adapter EXCEPT
       ![a] = [active |-> @.active + 1,
               requests |-> Recent(a) \cup {<<now, r>>}, last |-> None]]
  /\ run' = [run EXCEPT ![r] = [@ EXCEPT
       !.pc = "calling", !.at = now, !.deadline = now + Timeout,
       !.attempts = 1, !.wire = "open"]]
  /\ UNCHANGED <<Others, Files>>

\* evaluate returns or throws; either way the slot is given back.
FreedOnDraft(r, status) ==
  adapter[AdapterOf(r)].active - (IF status = "completed" THEN 1 ELSE 0)
Freed(r, status) == adapter[AdapterOf(r)].active - 1
Leave(r, pc, status, draft) ==
  /\ run' = [run EXCEPT ![r] = [@ EXCEPT
       !.pc = pc, !.wire = "closed", !.at = now, !.draft = draft]]
  /\ adapter' = [adapter EXCEPT ![AdapterOf(r)].active = Freed(r, status),
                                ![AdapterOf(r)].last = <<status, r>>]
Throw(r) == Leave(r, Failing, "failed", None)

\* An answer comes, before the timer has fired or although it has.  It
\* counts when the run was not aborted, the deadline has not passed, and there
\* is a valid draft in it; None is a refusal or an answer that is not complete.
ValidDrafts == {d \in Drafts : ValidDraft(d, Evidence)}
AcceptsWhenever(r) == TRUE
Accepts(r) == ~run[r].aborted /\ now <= run[r].deadline
Answer(r, draft) ==
  /\ run[r].pc = "calling" /\ run[r].wire \in {"open", "abandoned"}
  /\ IF draft \in ValidDrafts /\ Accepts(r)
     THEN Leave(r, IF guarded THEN "drafted" ELSE "returned", "completed", draft)
     ELSE Throw(r)
  /\ UNCHANGED <<Others, Files>>

\* The transport fails: a transient error is retried after a pause.
Backoff(n) == 2 ^ (n - 1)
Pause(r) == Min({Backoff(run[r].attempts),
                 IF now < run[r].deadline THEN run[r].deadline - now ELSE 0})
MayRetry(r) == run[r].attempts < MaxAttempts
Fail(r, transient) ==
  /\ run[r].pc = "calling" /\ run[r].wire \in {"open", "abandoned"}
  /\ IF transient /\ MayRetry(r)
     THEN /\ run' = [run EXCEPT ![r] = [@ EXCEPT
               !.pc = "sleeping", !.wire = "closed", !.wake = now + Pause(r)]]
          /\ UNCHANGED adapter
     ELSE Throw(r)
  /\ UNCHANGED <<Others, Files>>

\* The next attempt, unless the run was aborted or its time is over.
Retry(r) ==
  /\ run[r].pc = "sleeping" /\ now >= run[r].wake
  /\ IF run[r].aborted \/ now >= run[r].deadline
     THEN Throw(r)
     ELSE /\ run' = [run EXCEPT ![r] = [@ EXCEPT
               !.pc = "calling", !.wire = "open", !.attempts = run[r].attempts + 1]]
          /\ UNCHANGED adapter
  /\ UNCHANGED <<Others, Files>>

\* The attempt's timer, set for what remained of the time.
TimerOfFirst(r) ==
  /\ run[r].pc = "calling" /\ run[r].wire = "open" /\ now >= run[r].deadline
  /\ run[r].attempts = 1
  /\ run' = [run EXCEPT ![r].wire = "abandoned"]
  /\ UNCHANGED <<Others, adapter, Files>>
TimerFires(r) ==
  /\ run[r].pc = "calling" /\ run[r].wire = "open" /\ now >= run[r].deadline
  /\ run' = [run EXCEPT ![r].wire = "abandoned"]
  /\ UNCHANGED <<Others, adapter, Files>>

\* The transport gives up an abandoned request: an error, not transient.
GiveUp(r) ==
  /\ run[r].pc = "calling" /\ run[r].wire = "abandoned"
  /\ Throw(r)
  /\ UNCHANGED <<Others, Files>>

\* The caller aborts: a pause ends at once, a request is abandoned.
Abort(r) ==
  /\ ~guarded /\ run[r].pc \in Inside /\ ~run[r].aborted
  /\ \/ run[r].pc = "sleeping" /\ Throw(r)
     \/ /\ run[r].pc = "calling"
        /\ run' = [run EXCEPT ![r] = [@ EXCEPT !.aborted = TRUE,
             !.wire = IF run[r].wire = "open" THEN "abandoned" ELSE run[r].wire]]
        /\ UNCHANGED adapter
  /\ UNCHANGED <<Others, Files>>

\* The server closes the connection inside a body (openai-https-transport.ts):
\* no "end", no "error" on the request, and nothing left to abort.
CloseInBody(r) ==
  /\ run[r].pc = "calling" /\ run[r].wire = "open"
  /\ run' = [run EXCEPT ![r].wire = "cut"]
  /\ UNCHANGED <<Others, adapter, Files>>
-----------------------------------------------------------------------------
(* finalizeSmokeAuthorization, around the evaluation.                       *)

ReturnFirst(r) ==
  /\ run[r].pc = "drafted"
  /\ record' \in {record, "completed"}
  /\ Goto(r, "finalized")
  /\ UNCHANGED <<Others, adapter, lock>>
FinalizeCompleted(r) ==
  /\ run[r].pc = "drafted"
  /\ \/ /\ adapter[AdapterOf(r)].last = <<"completed", r>>
        /\ record = "consumed"
        /\ record' = "completed"
        /\ Goto(r, "finalized")
     \/ Goto(r, "failed") /\ UNCHANGED record
  /\ UNCHANGED <<Others, adapter, lock>>
\* The draft goes to the caller once the record says so.
Return(r) ==
  /\ run[r].pc = "finalized"
  /\ Goto(r, "returned")
  /\ UNCHANGED <<Others, adapter, Files>>

FinalizeFailed(r) ==
  /\ run[r].pc = "failed"
  /\ record' \in {record} \cup (IF record = "consumed" THEN {"failed"} ELSE {})
  /\ Goto(r, "thrown")
  /\ UNCHANGED <<Others, adapter, lock>>

\* The process stops: the files stay as they are.
Crash(r) ==
  /\ guarded /\ run[r].pc \notin Ended \cup {"idle"}
  /\ Goto(r, "crashed")
  /\ UNCHANGED <<Others, adapter, Files>>
-----------------------------------------------------------------------------
\* What the program and its timers do, whatever callers and servers do.
Proceed(r) ==
  \/ CheckRecord(r) \/ MarkConsumed(r) \/ SignLock(r) \/ Unlock(r)
  \/ (guarded /\ (Decline(r) \/ Exhausted(r) \/ Admit(r)))
  \/ TimerFires(r) \/ GiveUp(r) \/ Retry(r)
  \/ FinalizeCompleted(r) \/ Return(r) \/ FinalizeFailed(r)

Next ==
  \/ Tick
  \/ \E r \in Runs :
       \/ TakeLock(r) \/ Refuse(r)
       \/ CheckRecord(r) \/ MarkConsumed(r) \/ SignLock(r) \/ Unlock(r)
       \/ Decline(r) \/ Exhausted(r) \/ Admit(r)
       \/ GiveUp(r)
       \/ \E draft \in Drafts \cup {None} : Answer(r, draft)
       \/ \E transient \in BOOLEAN : Fail(r, transient)
       \/ Retry(r) \/ TimerFires(r)
       \/ Abort(r) \/ CloseInBody(r)
       \/ FinalizeCompleted(r) \/ Return(r) \/ FinalizeFailed(r)
       \/ Crash(r)

\* Time passes, timers fire, file operations and abandoned requests end.
Fairness == WF_vars(Tick) /\ \A r \in Runs : WF_vars(Proceed(r))
Spec == Init /\ [][Next]_vars /\ Fairness
-----------------------------------------------------------------------------
\* An authorization lets one evaluation at most reach the provider, whichever
\* processes consume it, fail or stop: once a request was sent under it the
\* .consumed file stays and the record never reads as authorized.
Reached == {r \in Runs : run[r].attempts > 0}
AuthorizationUsedOnce ==
  guarded => /\ Cardinality(Reached) <= 1
             /\ Reached # {} => lock \in Reached /\ record # "authorized"

\* The file tells what became of the evaluation: a draft goes out only when
\* the record says completed, and it says completed only after an evaluation
\* that was, and failed only when no draft goes out.
RecordTellsTheOutcome ==
  guarded =>
    /\ \A r \in Runs : run[r].pc = "returned" => record = "completed"
    /\ record = "completed" => \E r \in Runs : adapter[r].last = <<"completed", r>>
    /\ record = "failed" => \A r \in Runs : run[r].pc \notin {"finalized", "returned"}

\* Slots and budgets: the counter is the number of evaluations that hold a
\* slot, within its limit, and no minute has more starts than allowed, even
\* when evaluations fail, are aborted, or retry.
BudgetsHold ==
  ~guarded =>
    /\ adapter[None].active = Cardinality({r \in Runs : run[r].pc \in Inside})
    /\ adapter[None].active <= MaxConcurrent
    /\ \A q \in adapter[None].requests :
         Cardinality({p \in adapter[None].requests :
           p[1] <= q[1] /\ q[1] < p[1] + Minute}) <= MaxRequestsPerMinute

\* A draft that is accepted came in time, on a run nobody had aborted, in
\* the allowed number of attempts, and concludes nothing that the evidence
\* contradicts or that no usable revision it cites supports.
DraftsAreTimely ==
  \A r \in Runs :
    /\ run[r].attempts <= MaxAttempts
    /\ run[r].pc \in {"drafted", "finalized", "returned"} =>
         /\ ~run[r].aborted /\ run[r].at <= run[r].deadline
         /\ Uncontested(run[r].draft, Evidence) /\ RestsOnClaims(run[r].draft, Evidence)

\* Every evaluation that takes a slot gives it back, by its deadline's timer
\* if by nothing else; only a connection that closes inside a body defeats it.
EvaluationsEnd ==
  \A r \in Runs :
    (run[r].pc \in Inside) ~> (run[r].pc \notin Inside \/ run[r].wire = "cut")

\* docs/sprints/sprint-6.2.1-smoke-test-plan.md:103 sets an "End-to-end
\* timeout" of 15000 ms: every evaluation ends, whatever the provider does.
EndToEndTimeout ==
  \A r \in Runs : (run[r].pc \in Inside) ~> (run[r].pc \notin Inside)
=============================================================================
