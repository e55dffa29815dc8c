# HumenMadeMoney: verification project

TLA+ models of the agreement platform under `src/apps/web`, the TLC
configurations that check them on small instances, and TLAPS proofs of their
central properties for every value of the constants. Paths below are relative
to `src/apps/web` unless they begin with `docs/`.

## 1. The system

People write an *agreement* (a document kept in versions), accept it, submit
*evidence* about it, have the evidence *assessed*, have humans *review* what an
assessment cannot decide, and finally *resolve* each outcome of the agreement by
a simulated settlement with a balanced ledger. The server is a set of TypeScript
services over PostgreSQL. Every HTTP request runs one operation of one service;
there are no workers or queues, and the only timers are those of a request that
waits for a model provider. Beside the server stands an *evaluation harness* of
offline scripts over files: who may calibrate scorers, in which order eligibility
questions are asked, how human reviews are recorded. What makes the code hard is what requests do to each other: handlers
that read, wait and write while others do the same, transactions that
interleave, answers that are lost and requests repeated with the same
idempotency key, revisions that are stale when they arrive, clocks read before a
transaction begins, processes that stop between two steps.

### 1.1 Inventory

| Component | State it keeps | Operations | What makes it hard |
|---|---|---|---|
| Resolution policy (`server/resolution/domain.ts`) | none | lifecycle table, effect check, readiness blockers, ledger entries | blockers must match the tables in every state a proposal can be left in |
| Resolution service (`server/resolution/service.ts` and two migrations) | proposals, disputes, grants, Financial Safety statuses, executions, ledger entries, audits, idempotency records | propose, dispute, resolve dispute, grant, revoke, transition safety, cancel, execute; list, get, evaluate | long command sequences; execution skips the lifecycle table; stale revisions; repeated keys; a clock read too early |
| Resolution transport and workflow page (`server/resolution/transport.ts`, `components/agreement/ResolutionWorkflow.tsx`) | requests in flight | key, `If-Match`, fingerprint; reading and sending | lost and duplicated deliveries, answers about another proposal |
| Agreement service (`server/agreements/application`, `domain`) | none of its own | create, get, update, list | decides and builds the next version on a read made before the transaction |
| Agreement repositories (`server/agreements/persistence`) | agreements, versions, memberships, audits, idempotency records | create, saveNextVersion, list, find, idempotency lookup | claims by conditional update, unique keys, commits whose acknowledgement is lost, keyset pages over rows that move |
| Agreement transport and presentation | none | parsing, formatting, wiring | no state |
| Agreement language (`lib/agreement-language`) | none | validation of one document | sequential |
| Evidence service (`server/evidence/service.ts`, `domain.ts`, `validation.ts`, `action-semantics.ts`) | none of its own | submit, correct, withdraw, request assessment, request review, assign, decide | reads, runs a provider for a long time, compares, writes |
| Evidence repositories (`prisma-repository.ts`, `in-memory-repository.ts`) | items, revisions, provenance, sets, assessments, reviews, decisions, idempotency records | one Read Committed transaction for each command | two transactions may both read before either writes |
| Assessment providers (`adapter.ts`, `openai-adapter.ts`, `openai-https-transport.ts`, `development-provider.ts`, `ai-config.ts`, `provider-registry.ts`, `assessment-orchestrator.ts`) | slots and request times of one adapter | parse the environment, select a provider, evaluate with retries under a deadline, validate the draft | timeouts, aborts, late answers, slots; a draft that cites what contradicts it |
| Smoke authorization (`smoke-authorization.ts`, `scripts/openai-smoke-*.ts`) | a record file and a lock file | create, consume, finalize | processes that stop between file operations, operations that fail |
| Accounts and sessions (`server/auth`) | sessions | sign in, resolve (renew, expire), sign out | judges a session by a read that others outdate |
| Development sign-in limiter | counters of attempts | check, record | windows and bounds |
| MCP server (`server/mcp`) | request guard, tool receipts | tools over the services | replays, limits |
| Role custody and scorer calibration (`role-custody-readiness.ts`, `scorer-calibration.ts`, `scripts/run-readiness-gated-scorer-calibration.ts`) | record files | judge assignments and documents, write a readiness record, take it for the decision later, compare a submission with the key; append to and validate the custody ledger | a record outlives what it was judged on; separation of roles by people, not by names |
| KEY/PRV administration (`key-prv-randomized-order.ts`) | histories of snapshots | lock, present, answer, complete, abort, void, resume, replace | long command sequences; a shuffle that must be unbiased |
| Human review ledger (`human-review.ts`, `scripts/capture-human-review-result.ts`) | one append-only file | capture, aggregate | read and append without a lock |
| Empty topology bootstrap (`empty-topology-bootstrap.ts` and its script) | directories and files | a rehearsal of backup and restore, then evidence of it | calls that fail, crashes, a second run on the same root |
| Offline evaluation (`offline-runner.ts`, `orientation-validation.ts`) | none | score fixtures | sequential |
| HTTP routes, user interface, seeds and scripts | none | thin | nothing of their own |

### 1.2 How the components interact

A route authenticates (sessions), parses (transport) and calls one service
operation; the service calls its repository, once or several times, and the last
call is one transaction. The services share tables, not calls: a resolution
reads the accepted version and memberships that the agreement service keeps, the
assessment and the reviewer decision that the evidence service wrote; a dispute
opens a human review request, which the evidence service assigns and decides,
and a dispute can be resolved only with that decision. The assessment request is
the only operation that calls out (a provider) between its reads and its write.

### 1.3 What makes each component correct

- *Resolution*: one live proposal per outcome; nothing settled twice; everything
  that justified an execution stays true afterwards; an open dispute freezes its
  proposal; a finished proposal is immutable; the ledger balances; revisions
  count changes; a retried command is answered as a replay.
- *Agreements*: versions of an agreement are one chain without gaps, ended by
  the current one; an update revises only the version its client had seen; no
  member loses its party; a key takes effect once, and two deliveries of one
  command converge; timestamps never go back; paging repeats and loses nothing.
- *Evidence*: corrections form one chain; withdrawn evidence stays withdrawn; an
  assessment is of evidence that stood still while it ran; equal assessments
  coalesce; a review is decided once, and not by whoever wrote what is judged.
- *Providers, smoke authorization*: an authorization is used at most once and its
  record tells what came of it; every way out of an evaluation gives its slot
  back; what is returned was in time, concludes nothing the evidence contradicts
  and rests on claims that were offered; every reader of the environment agrees
  on which provider is on.
- *Sessions*: a revoked or expired session never becomes active again; renewal
  does not outlive the absolute limit; a session that was replaced is over.
- *Calibration*: the key is read only under a readiness record whose evidence
  carried it; nobody holds powers that must not meet; a second attempt follows
  one's own failed first one; a pass is earned. A chain that is confirmed cannot
  be altered unnoticed.
- *KEY/PRV*: an outcome rests on every item answered once in its order; all
  orders are equally likely; what an incident voided stays void.
- *Human review*: a qualified ledger rests on independent reviewers, and an
  outsider settled where the first two of them differ.
- *Bootstrap*: evidence says what is so; a failure leaves behind no more than one
  statement's files and what could not be removed; a run that nothing disturbs
  ends with evidence.

`PROJECT.json` lists under `hazards` where, line by line, each of these can go
wrong, with the properties that would show it.

## 2. Modules

```
ResolutionDomain            policy, no state
  Resolution                the service: one action per command
    ResolutionClient        + clients and a connection that loses and repeats
    (implements) OutcomeSettlement
    ResolutionProofs        (of Resolution and ResolutionClient)
AgreementVersions           create and update, step by step
    (implements) AgreementHistory
  AgreementPages            + a client that lists its agreements page by page
    AgreementVersionsProofs (of both)
EvidenceWorkflow            evidence, assessments, reviews, step by step
    (implements) AgreementHistory, for the revisions of an item
    EvidenceProofs
Sessions                    sign-in, resolve, sign-out, step by step
    SessionsProofs
AssessmentDraft             claims, drafts, deterministic evaluation: no state
  AssessmentProvider        evaluations, authorization file, transport, timers
ProviderGates               environment, capability, selection: no state
    ProviderProofs          (of all three)
RoleCustody                 roles, documents, readiness record: no state
ScorerCalibration           comparison with the key: no state
  GatedCalibration          both of them, with the clock and the people
CustodyLedger               the chained ledger: no state
    CalibrationProofs       (of GatedCalibration and CustodyLedger)
KeyPrvAdministration        eligibility administrations, snapshot by snapshot
    KeyPrvProofs
HumanReviewLedger           capture script and aggregation
EmptyTopologyBootstrap      bootstrap run, call by call
    HumanReviewProofs       (of both)
MC*                         small instances for TLC
```

Definitions named `...Always`, `...But...`, `Any...` and the like, introduced by
"Mutant of", are plausible wrong versions of the definition that follows them.
No specification uses them; `PROJECT.json` pairs each property with the mutant
that violates it, as evidence that the property depends on that piece of code.
Where a module says what is "for checking", the variable or field is a history
that no guard reads.

### 2.1 ResolutionDomain and Resolution

`ResolutionDomain` is `domain.ts`: `ALLOWED_TRANSITIONS`, `ValidEffect`,
`BalancedEntries`, and `Blockers`, a function from the blocker codes to whether
they hold, of which `Ready` is that none does. One accepted version of one
agreement is fixed; what its document says (parties, approvers, minimum
approvals, self-approval, outcomes, economic sides, amount, deadlines, window)
are constants. An amount stands for the amount and its currency. A consequence
(an outcome and an effect) stands for the digest the code stores; the digest is of
the effect as the client wrote it, so an effect carries a `text`, which is all of it
that no term is compared with: the description, the `destinationRef` (which only
must not be blank), further fields. Two effects of different text are two
consequences, in the model as in the code, and "no consequence is settled twice" says
no more than that.

`Resolution` has one variable per table and a clock. Each command is one
Serializable transaction, so one action with every guard and write of it;
a command that throws rolls back and is no step. `Change` is the method `change`
that all commands on an existing proposal share (`service.ts:72`): idempotency
lookup, revision, terminal state, lifecycle table, update, audit, record.
`Execute` does not go through it, as in the code. `Propose` and `Execute` take a
time up to `MaxLag` older than `now`: the service reads the clock before the
transaction. `AssignReview` and `RecordReviewerDecision` are the part of the
evidence service that a dispute waits for.

What the code does that a reader may not expect, and the model keeps: the states
`proposed`, `authorized`, `execution_ready` and `expired` are never entered;
`held` has no way back and still can be executed; a command that leaves the
state alone (grant, a safety command `clear`) does not change the revision; a
second dispute of a disputed proposal does not either; renewing a revoked grant
keeps its first account; grant does not look at the expiry.

### 2.2 ResolutionClient

Adds, for each account, a command it composed after reading a proposal, and the
last answer it got. Delivering is any number of `Commit`, `Replay`, `Reuse` and
`Fail` steps; a lost answer is one after which the client sends again. `Commit`
performs the very actions of `Resolution`, with the revision and the body the
client composed; `Fail` covers refusals and serialization failures, which the
service does not retry. The page draws a new key for each call
(`ResolutionWorkflow.tsx:12`); the model lets a client keep its key, which the
service is built for. Other people propose, review and let time pass in
`Background`; they cite no decision and set no expiry there.

### 2.3 AgreementVersions and AgreementHistory

A handler (`request[r]`) is a record of what `create` or `update` holds between
its awaits, with a phase: `read` (the aggregate and then the clock, from which
the next version is built), `lookup` (the idempotency record), `transact` (the
transaction: one step, because its first statement takes the row or key any
competitor also needs), `caught` (the transaction threw, or committed and the
acknowledgement was lost; a second lookup decides the answer), `answered`. `End`
is the answer leaving or the process stopping, at any phase. Handlers of any
accounts interleave at these points.

The modelled repository is the Prisma one. No code path accepts a version or
adds members to an existing agreement, so these come from `Seed`. Terms are a
value that determines the parties present in it; the validation of documents and
the kinds of amendments are left out.

`AgreementHistory` is the abstract service: every agreement has a set of
numbered entries, to which the next number is added.

### 2.4 AgreementPages

A composition: the handlers of `AgreementVersions` create and revise agreements
(`Elsewhere` is its `Next`), and one account, `Lister`, pages through its own by
`list`. Each page is two steps, reading the ids of the account's agreements
(`ReadScope`) and the query (`ListPage`), and anything may happen between them
and between two pages. The order, the boundary of a cursor, its binding to the
scope and its expiry (15 minutes, here `CursorLife`) are the code's. `Refuse` is a
cursor that is not accepted and a query that fails; the client may ask again
with the cursor it has, or start over (`Restart`). Filters are left out: they
narrow the rows and are bound to the cursor like the scope. Memberships are
active ones: no code path ends one.

### 2.5 EvidenceWorkflow

The commands of `server/evidence/service.ts` over `prisma-repository.ts`. The
transactions are Read Committed: one that reads a row it writes later, and a
command that works on what it read before its transaction, are handlers with a
step for each (`correct`: built, begun; `assess`: running, checked, begun;
`decide`: checked); the rest are one step. Conditional updates (`StillSeen`,
`Decidable`) and unique keys (`Admits`, `EnvelopeFree`, `KeyFree`) are guards of
the last step. `Abandon` is every refusal, rollback and stop.

One evidence requirement and one accepted version are modelled; an evidence set
is the set of revision ids its digest covers; `Envelopes` stand for the adapter,
prompt, schema and policy versions of an assessment; what an assessment finds is
left out. Controlled observations are submitted like other evidence. A call with
a used key writes nothing and is no step. Submissions by a reviewer's own party
are admitted when the document lists it as a submitter, as
`tests/evidence-workflow.test.ts` does. A decision cites one known revision; the
code does not check cited revisions against the tables.

### 2.6 Sessions

`server/auth/service.ts` over its repository. `signIn` and `resolve` are requests
with a step for each read and each write (`judged`, `renewing`, `expiring`,
`replacing`); sign-out, and the status of the account, which the code reads with
the session, change in between. A session stands for its token. `Conditional`
chooses the repository: the Prisma one updates only a row whose state and
rotation are those that were read, the in-memory one stores what it is given.
CSRF tokens are derived and compared, and no state depends on them.

### 2.7 AssessmentProvider, AssessmentDraft, ProviderGates

`AssessmentProvider` is one evaluation per `r` in `Runs`, from the guard to the
answer, in the two set-ups the code has: behind the one-use authorization, with
an adapter of its own and processes that may stop anywhere (`guarded`), or
sharing an adapter with its budgets. Its phases are the awaits: taking the lock
file (`TakeLock`, `Refuse`), checking and rewriting the record (`CheckRecord`,
`MarkConsumed`, `SignLock`, `Unlock`), admission to the budgets (`Admit`,
`Decline`, `Exhausted`), the answer, the timer, the abort, the back-off
(`Answer`, `TimerFires`, `Abort`, `GiveUp`, `Retry`), and the way out with
`FinalizeCompleted` or `FinalizeFailed`. `wire` says how far the response came;
`cut` is a connection that closes inside a body. Every file operation may fail.

`AssessmentDraft` is what an answer must look like to be returned: the claims
offered to the model (`ClaimReferences`), the validation of its draft
(`ValidDraft`, criterion by criterion), the deterministic evaluation, the state
of a requirement, and the route the orchestrator takes for each failure
(`RouteOfFailure`). `ProviderGates` is the environment seen by its three readers:
the capability participants are shown, the selection for a request, and the
values the adapter checks again.

### 2.8 RoleCustody, ScorerCalibration, GatedCalibration, CustodyLedger

The code of the first two has no state: `Separated`, `Ready`, `Evaluation`,
`ValidRecord`; `PrerequisitesHold`, `EligibilityHolds`, `Comparison`. A document
is reduced to when it lapses, whether the rest of it is sound and which topology
it is about. `GatedCalibration` is how operators run them: a record is evaluated
on what stands, and the script later checks it against the clock (`BeginRun`),
reads the key and writes a result (`FinishRun`), while time passes, assignments
are revoked, people leave and incidents open. The two sides of the gate judge
different things: the record repeats assignments and controls, and only those
are judged again. A key and the answers of a sheet are lists: `Complete` asks for
the fixtures of the key one by one in its order, and for at least ten of them
(`scorer-calibration.ts:257`).

`CustodyLedger` is the chain of role and custody events: `Appendable` compares
the head the caller saw, `ValidLedgerChain` has one conjunct per reason the code
can give. A digest is what it is the digest of.

### 2.9 KeyPrvAdministration

Every method of the ledger class is synchronous, so one action, and appends a
snapshot. `Sample` and `Replay` are the rejection sampling and the shuffle over a
generator of `Words` values in place of 2^64. `Resume` goes on from the
current snapshot of an aborted request; what an incident voided it refuses.

### 2.10 HumanReviewLedger

A capture is two steps, reading and sealing (`BeginCapture`) and appending
(`FinishCapture`), with a crash between them or inside the append, which leaves
a torn line. `Qualified` is `aggregateHumanReview` over what the file holds.
An answer is a result, an action, citations and an authority boundary; the first
three are its signature, which is compared between reviewers and with the key
(`Expected`), and each of the four is a measure with a threshold of its own
(`Thresholds`). As in the code, it is the first two submissions of the file that
are compared (`human-review.ts:101`), however many there are.

### 2.11 EmptyTopologyBootstrap

`Program` is the sequence of file system calls of
`runOperationalEmptyBootstrap`; `Step` performs the next or throws when it is not
`Possible`, `Fault` is a call that fails after or before its effect, `Die` a
process that ends, `Publish` the script's last write. The clean-up is a step for
each registered file (`RemoveFile`) and one for the restore target
(`RemoveTarget`); each may fail, which the code swallows
(`empty-topology-bootstrap.ts:167-168`), so the file stays and the loop goes on,
and `unremoved` remembers it. A removal of the target that fails may leave all of
it or an empty part (`Parts`), which is what later calls can tell apart. The
storage classes are those of the code, so a program has 38 calls. Keys,
digests and modes are taken to be right, so a file is its name; the evidence is a
record of what it claims, and `EvidenceIsEarned` compares it with what is there.
Its only constants are the runs, `MaxUnremoved` and `None`, so it has no MC module.

## 3. Runs

| Run | Instance | What it shows |
|---|---|---|
| `resolution_one` | 1 proposal, 2 disputes, 2 keys, 3 accounts (proposer, approver, reviewer), self-approval prohibited, `MaxAudits` 5, `MaxTime` 2, `MaxLag` 1, window 1, deadline 2 or none | `ExecutionStaysJustified`, `DisputesFreeze`, `TerminalImmutable` |
| `resolution_two` | 2 proposals for one outcome, payments under 2 destinations and a blank one, no disputes, 1 key, deadline 2, reviewer decision required, `MaxAudits` 3, `MaxTime` 2 | `OneActiveProposalPerOutcome`, `SettledAtMostOnce`, and `ImplementsSettlement` |
| `resolution_client` | 2 clients, 1 proposal, 1 key, all seven operations, `MaxLag` 0, `MaxTime` 1, `MaxAudits` 4 | `RetryIsReplayed`, `CommitsOnWhatWasSeen` |
| `agreement_versions` | 1 seeded and 2 new agreements, 4 versions, 2 accounts, 1 key, 2 handlers, `MaxTime` 1 | `HistoryIsAChain`, `RetryIsReplayed`, `CreateTwinsConverge`, `RevisesWhatWasSeen`, `ImplementsHistory` |
| `agreement_pages` | 3 seeded and 1 new agreement, 3 fresh versions, 1 account, 1 handler, pages of 1 or 2, `CursorLife` 2, `MaxTime` 2 | `NoneListedTwice`, `UntouchedAreListed` |
| `evidence_workflow` | 1 item, 3 revisions, 2 assessments, 1 review, a participant and a reviewer, 2 handlers, 2 keys for the commands that race | `CorrectionsFormAChain`, `OneAssessmentPerEnvelope`, `DecidedOnce`, `WithdrawnStaysWithdrawn`, `UsedEvidenceStoodStill` |
| `sessions` | 2 sessions, 2 requests, 1 account, `Conditional`, idle 2, absolute 3, renewal window 2, `MaxTime` 4 | `ReplacedIsOver`, `LifetimesHold`, `EndedStaysEnded` |
| `provider` | 3 evaluations, 2 attempts, 1 slot, 2 requests per minute, time-out 2, two criteria with consistent, stale and contradictory revisions, `MaxTime` 4 | `AuthorizationUsedOnce`, `RecordTellsTheOutcome`, `BudgetsHold`, `DraftsAreTimely`, and `EvaluationsEnd` under fairness |
| `key_prv` | 3 items, 8 generator words, 2 requests, 1 incident, 9 snapshots in all | `OutcomeIsEarned`, `OrderIsUnbiased`, `VoidIsFinal` |
| `gated_calibration` | a key of 10 fixtures, 8 sheets (one in another order, one with another fixture, one with an answer more), 2 scorers, 2 attestations, 66 starts, 1 record, 2 results, `MaxTime` 2 | `GateRestsOnEvidence`, `PowersStayApart`, `RetryFollowsOwnFailure`, `PassIsEarned` |
| `human_review` | 2 captures, 2 cases, 10 records of up to 4 reviewers, 4 lines | `QualifiedIsIndependent`, `OneAtATimeKeepsTheChain` |
| `bootstrap` | 2 runs on one root, the eight storage classes, at most 2 files one clean-up fails to remove | `EvidenceIsEarned`, `FailureLeavesOneStep`, and `UndisturbedRunsSucceed` under fairness |

The type invariants, and those invariants that are proved for every instance and
no longer spent a run on, are in section 4. The modules of two runs also check
assumptions over small sets of inputs, which TLC evaluates before the run:

- `MCAssessmentProvider`: accepted drafts conclude nothing contested and rest on
  claims (`DraftsAssumption`, and `ConclusionsAssumption`, that some conclude);
  the deterministic evaluation finds satisfied only what some revision says, none
  denies and none unusable stands against (`DeterministicAssumption`); the gates agree over
  every environment (`GatesAssumption`).
- `MCGatedCalibration`: of every custody chain of up to three appends, when it is
  valid (`AppendedAssumption`); of two custodians who saw one head one appends,
  and an altered, reordered or shortened chain is not confirmed with the head and
  count of the original (`HeadAssumption`).

### 3.1 Why the bounds are enough

- *Proposals, disputes.* What one proposal does to another is only to occupy its
  outcome or to have settled its consequence; two show both. Two disputes are
  needed for the case of one resolved while another is open.
- *Destinations.* One side is paid under two destination texts; a third adds no
  order of commands.
- *`MaxAudits`* bounds the commands on one proposal. An execution takes three
  (propose, grant, execute); five leave room for a dispute and its resolution, a
  revocation and a new grant, or commands after the end.
- *Time.* Windows and deadlines are 1 and 2, so a clock of 1 or 2 with a lag of
  1 reaches before, at and after each of them.
- *Handlers.* The races of interest are between two handlers; each also meets
  whatever earlier handlers left behind, since a handler's slot is reused.
- *Identifiers* are drawn once and never again. Four versions allow one seeded
  agreement to be revised three times, or two creations with revisions; three
  revisions of an item allow two corrections. Two new agreements are needed for
  two creations with one key to be possible at all.
- *Keys.* One key shared by everyone makes every replay, conflict and reuse
  happen; a second one is there where a command must be possible twice.
- *Pages.* Four agreements and pages of two put ties across a boundary; with
  five or more the boundary cases are the same ones. One handler is enough: each
  of its steps interleaves with the client's, and what it read before a page it
  may write after it. Three fresh versions are three writes during a listing.
- *Sessions.* Two sessions are one and its successor; two requests are the reader
  and the one that outdates it. Idle 2, absolute 3 and a renewal window of 2 make
  a session renewable and cut short by its absolute lifetime before moment 4.
- *Evaluations.* Two of three share a slot or an authorization while the third
  comes after them. One slot and two requests a minute make both budgets refuse;
  two attempts include one retry; a minute and a time-out of 2 with starts up to 2
  and time up to 4 let the window and every deadline pass. Of two criteria one has
  evidence that agrees and one that contradicts itself.
- *Calibration.* Documents lapse at 1 or last; records expire at 1 or 3; time 2
  is past the first and within the second. Ten fixtures are the smallest subset
  the code accepts: one wrong answer passes, two do not. Two answers swapped, one
fixture replaced and one answer too many are the ways a sheet is not the key's. Each start has at most
  one thing off, except where two approved pairs meet. Every later change (of the
  staff, an incident) is free.
- *KEY/PRV.* With three items every swap of the shuffle happens, and with eight
  words the last block is incomplete for bound 3 but not for 2. Nine snapshots
  take one administration to completion and its replacement through the answers,
  or two through an abort and a resumption.
- *Human review.* Four lines are three submissions and an adjudication, two
  adjudications of one pair, or a fork and what follows it. Three reviewers who
  differ in pairs show which of them are compared.
- *Bootstrap.* The program is as long as it is, with all classes. Two files that
  cannot be removed are one with others before and after it and a second one;
  the restore target may fail on top.

`CHECK_DEADLOCK FALSE` stands where these bounds stop the system: a clock at
`MaxTime`, commands at `MaxAudits`, ids used up. `AgreementPages` can always go
on and is checked for deadlock.

Where symmetry is declared it is over keys, disputes, handlers, scorers and drawn ids, none of
which any definition tells apart.

### 3.2 Fairness

People are not fair: a proposal nobody cancels stays, a review its reviewer never
decides stays open. So Resolution, AgreementVersions, AgreementPages,
EvidenceWorkflow, Sessions and the calibration models state none and claim no
liveness. Two components go on by themselves:

- `AssessmentProvider`: weak fairness of the clock, and of `Proceed(r)`, which is
  what a process does without waiting for anybody: its file operations, its
  timers, its back-off, giving up on an aborted request, its way out. The runtime
  fires timers and settles file operations. None is assumed of the provider's
  answers, of callers who abort, or of crashes. With this `EvaluationsEnd` holds,
  except for a connection that closes inside a body (section 5).
- `EmptyTopologyBootstrap`: weak fairness of the next call, the removals of the
  clean-up and the script's write, none of faults and crashes. With this `UndisturbedRunsSucceed`:
  a run that starts comes to an end, and ends with evidence unless a fault, a
  crash or another run came in its way.

## 4. Proofs

| Module | Theorems |
|---|---|
| `ResolutionProofs` | `TypeCorrect`, `OneActive`, `SettledOnce`, `ExecutionsAreRecorded`, `Freeze`, `StaysJustified`, `TerminalIsImmutable`, `Implements` (OutcomeSettlement), `RevisionsCount`, `LedgerBalances`, `OncePerKey`; with clients, `ClientsImplementService`, `RetrySafe`, `SeenSafe` |
| `AgreementVersionsProofs` | `TypeCorrect`, `ChainHolds`, `PartiesHold`, `OncePerKey`, `RevisesSeen`, `UpdatedAtMonotone`, `RetryAnswered`, `CreatesConverge`, `Implements` (AgreementHistory); of pages, `PagesReadOnly`, `ListedOnce`, `UntouchedListed` |
| `EvidenceProofs` | `TypeCorrect`, `ChainSafe`, `AssessmentSafe`, `DecisionSafe`, `WithdrawalSafe`, `StillnessSafe`, `Implements` (AgreementHistory) |
| `SessionsProofs` | `TypeCorrect`, `SessionsKeepTheirLifetimes`, and with the conditional repository `NoSessionIsResurrected`, `ReplacedSessionsAreOver` |
| `ProviderProofs` | `AcceptedIsUncontested`, `AcceptedRestsOnClaims`, `GatesAgree`, `TypeCorrect`, `UsedOnce`, `RecordTells`, `BudgetsSafe`, `DraftsSafe` |
| `CalibrationProofs` | `TypeCorrect`, `RetrySafe`, `PassSafe`, `GateSafe`, `PowersSafe`, `AppendKeepsValid` |
| `KeyPrvProofs` | `TypeCorrect`, `OrderSafe`, `OutcomeSafe`, `VoidSafe` |
| `HumanReviewProofs` | `TypeCorrect`, `ChainSafe`, `QualifiedSafe`; of the bootstrap, `EarnedSafe`, `FailureSafe` |

They hold for every set of proposals, disputes, accounts, parties, keys,
versions, items, handlers, sessions, evaluations, captures and requests, every
policy the assumptions admit, every evidence set, draft, environment, staffing,
key, sheet and chain, lists and pages of any length, every number of questions and
of generator words, and all values of the bounds, which therefore do not limit them. Some of the invariants are shown by theorems
only and no longer by a run: `ExecutionRecorded` (`Recorded`), `LedgerConserved`
(`LedgerBalances`), `RevisionCountsChanges` (`RevisionsCount`),
`BoundPartiesPresent` (`PartiesHold`), `CommittedOncePerKey` of Resolution and of
AgreementVersions (`OncePerKey`), `UpdatedAtNeverGoesBack` (`UpdatedAtMonotone`),
and the `TypeOK` of each module (its `TypeCorrect`). The `ImplementsHistory` of
EvidenceWorkflow is likewise proved and not a run of its own. TLC was asked about every
inductive invariant below, on the instance of the component's run, before it
was proved.

### 4.1 Assumptions

`PartyAssumption`, `PolicyAssumption`, `EconomyAssumption` and
`ServiceAssumption` say what an accepted document looks like after validation
(an eligible approver exists, at least one approval and no more than there are
approvers, finite parties, a natural amount); `VersionsAssumption` and
`SeedAssumption` do for agreements, with every seeded member's party in the
seeded terms. `NoneAssumption` and `RowsAssumption` say that the value for "no
row" is not a row; `OptionsAssumption` and `IdleAssumption` that the lifetimes of
sessions are natural numbers and an idle one is no longer than an absolute one,
as in the defaults; `ConditionalAssumption`, that there are two repositories.
`EvidenceAssumption` gives every account a party and a role; `ClientAssumption`
lists what clients of ResolutionClient send.

Of the providers, `CriteriaAssumption` says that criteria come in a list,
`RunsAssumption` that the shared adapter is not one of the guarded ones,
`LimitsAssumption` that the limits are in the ranges `parseAiProviderConfig`
admits, and `ShapesAssumption` that a draft offered to the validation has the
shape the JSON schema of the answer enforces. Of the evaluation harness,
`KeyAssumption`, `FixturesAssumption`, `SheetsAssumption`, `AttestationsAssumption`
and `StartsAssumption` say in which shapes the code parses a key, the sheets, the
attestations and the evidence, and that there are finitely many fixtures;
`MomentsAssumption` that moments are natural numbers; `ItemsAssumption` and
`WordsAssumption` that there are at least two questions and a number of generator
words; `InputsAssumption` that the key and every submission answer all sampled
cases and that an answer has one of the two authority boundaries, which the schema
requires; `ReviewersAssumption` that a case takes at least two reviewers.
`AccessMatrixAssumption` is about constants of the code.

Of pages, `PagesAssumption` says that identifiers are ordered (they are integers;
the code compares strings), that there are finitely many and that a page has at least one
row (`limit` is at least 1), and `CursorAssumption` that "no cursor" is not a
cursor. `RunsAssumption` of the bootstrap says that "no run" is not a run. TLC
evaluates all of them in the runs.

### 4.2 Resolution

The invariants the runs check are not inductive one by one. `IInv` is their
conjunction with `TypeOK` and two facts about reachability:

- `OnlyReached`: a proposal is in one of the five states that commands lead to.
  Without it, a proposal in `execution_ready` or `expired` is a counterexample
  to induction for `DisputesFreeze`.
- `DisputesOfProposals`: a dispute is of a proposal that exists; otherwise
  proposing could give an id an open dispute from the start.

`ExecutionStaysJustified` needs `ExecutionRecorded`: a settled proposal is
finished, so no command changes its row, grants or disputes. `SettledAtMostOnce`
follows from the unique keys alone, and `OneActiveProposalPerOutcome` from
`OutcomeFree` because nothing makes a finished proposal live again.

The argument goes through `Step`: every action, seen as what it does to
proposals and executions, *rests*, *opens* a proposal, *moves* one along the
lifecycle, or *settles* one (`StepShape`). The invariants about proposals are
shown for the four shapes; those about disputes and grants for the commands
(`CommandMeans`, `FreezeCommand`, `JustifiedNext`). The refinement maps the same
four shapes to a stutter, `Open`, a stutter or `Withdraw`, and `Settle`; the live
proposal of an outcome is chosen, and `OneActive` makes the choice unique.
`LedgerBalances` has an invariant of its own, `LInv`: every entry belongs to an
execution, and those of an execution are its `BalancedEntries`. `OncePerKey` has
`KeyInv`: the records of a proposal are finitely many and as many as its audits;
a command adds one that was not among them because its key was fresh.

With clients the argument is `ClientInv`. `SeenOnce`: the revision a client read is
no later than the present one, and if it is the present one, the row it read is the
present row; so the comparison of revisions compares rows, although grants, clears
and second disputes leave the revision alone. `RecordFound`: once a command took
effect, the record its retries look for is there, with their body, and records are
never removed. `RevisionsAreAudited` (a revision counts no more than the commands on
its proposal) places a client's revision among those the service's `Next` ranges
over; with it every step of `ClientNext` is a step of Resolution or none, which is
`ClientsImplementService`, and the other theorems hold with clients by it.

### 4.3 AgreementVersions

What the properties rest on is what handlers hold between steps. `IInv` adds to
the checked invariants:

- `RowsHold`: every version belongs to an existing agreement; no head is stamped
  later than the clock;
- `HandlersHold`: the version a handler drew is unused until it commits; no two
  handlers drew the same ids; a built row carries the request's terms, is not
  from the future, and, *if* its predecessor is still the head, is not stamped
  before it. The last condition is what makes `UpdatedAtNeverGoesBack` true: the
  clock is read after the aggregate, and the claim of the head at the end shows
  that the aggregate read was the current one.

The steps fall into those that leave the tables alone (one lemma each) and the
two commits, which share `Writes`: the tables afterwards (`WrittenTables`), then
types, keys, handlers, rows, chain and parties. Refinement: a commit adds one
entry, with the next number, to one history (`WrittenHistory`).

`RetryAnswered` and `CreatesConverge` are about what handlers may still answer.
`AnswersHold`, a second invariant on top of the first, says of every handler: who
owns the agreement it is to revise; that a unique-key error was caused by a record
of its own key, which is there; that a retry of what was done can no longer reach
the transaction, and finds the record; and that a refused create will never find
itself done. It rests on `TablesGrow`: records and ownership stay, and no second
record is made for a key.

*Pages.* `PagesReadOnly` makes every behaviour with a listing one of
AgreementVersions, so `IInv` holds in it. `PagesInv` relates the cursor to what was
sent: what is on the pages exists and is not beyond the cursor (`OnlyBehind`), and
what was not revised since the listing began is on a page or beyond the cursor
(`NoneMissed`). The first stays true when an agreement is revised because its
timestamp does not go back (`HeadAges`, from which `UpdatedAtMonotone` follows too), so
in a list that begins with the newest it moves to the front, behind the cursor, and never
across it. The second needs that a row of the account stays one of the
account (`MineStays`). A page is defined by how many rows come before each of its
rows; that it is the front of what the query found, with every other row after its
last one (`PageIsFront`, `PageBoundary`), goes by cardinalities, and that a page has
a last row by the row with the fewest after it (`LastExists`).

### 4.4 Evidence

What a handler read may be old when it writes, and no lock protects it. `IInv` says
what is left of it: of a correction, that its row follows a revision of its item
and that an item which still has the revision it expected is the item it saw
(`CorrectionHeld`); of an assessment, that an item which shows the revision it
showed at the freeze has not moved since (`AssessmentHeld`). Both hold because an
item only moves forward (`ItemsMoveOn`): it is withdrawn for good, or shows a
revision that was not there. `RevisionsHold`, that every revision but the current
one is superseded, makes a correction of an old read fail on the unique key. Each
action is shown to keep `IInv` and `ItemsMoveOn`; `WithdrawalSafe` is the latter,
and `StillnessSafe` follows from what a handler in its last phase knows.

`Implements` is the refinement of AgreementHistory, with items for agreements, as
far as numbers and authors go: the revisions of an item are its entries. A revision
is only ever inserted, by a submission, which starts a history, or by the end of a
correction (`OnlyInserts`); that this one revises the history, with the number
after the last, is `FollowsCurrent`: a correction that passes the unique keys
follows what is current now, although it was built on an older read.

### 4.5 Sessions

What a request read is old when it writes. `IInv` is `TypeOK`, `LifetimesHold` and
`RequestsHold`: the expiry a request read is within the lifetimes of the session
as it is *now*, since these only grow or stay (`Keeps`), and a moment it judged
good was before the absolute expiry. Without the second, a request that judged
long ago could write an expiry past the absolute one. Every action is shown to
keep the sessions' fixed fields and to add only sessions that replace none or an
existing one (`Adds`); `SessionsStay` then gives the invariant for all of them.
The conditional update is used only for `NoSessionIsResurrected` and
`ReplacedSessionsAreOver`, and these are false without it (section 5).

### 4.6 Providers

*Drafts and gates.* `AcceptedIsUncontested`: all revisions of a contested criterion
would have to be cited as conflicting and one as supporting, and a citation counts
once. `AcceptedRestsOnClaims` follows a claim from the draft to a usable revision it
cites. `GatesAgree` is a case analysis of what selection requires.

*Evaluations.* `IInv` has one part for each resource. `FilesFollow`: at each place
of an evaluation, whether it holds the `.consumed` file and what the record says;
an evaluation that has sent a request never returns to the places before it, so
the file stays and nobody else can get there. `CompletedIsOfOne`: a completed
record is of an evaluation whose adapter completed. `AttemptsHold` and `InTime`: one
attempt is left to whoever pauses, and a draft was accepted before the deadline and
the abort. `CountersHold`: the counter is the number of evaluations inside, and no
window of a minute that *ends with a start* holds too many starts; from this the
claim for all windows follows, since a window with a start in it can be cut at its
last start. Nothing is assumed of the provider, the clock or the file system.

### 4.7 Calibration and custody

`IInv` traces every result to what justified it: a record is what `Evaluation`
gives of the evidence kept with it (`Faithful`), whoever holds the key passed the
gate at a moment that is past (`Opened`), and a second attempt holds a first result
that was written under a gate no later than its own (`Begun`). Nothing has to be
said of the present evidence, which changes freely. From `Opened`, both attempts of
`RetrySafe` were made under a record that was READY and in force at their gates.
`PassSafe` needs the order of the answers first: a sheet that names the fixtures of
the key in turn, each once, answers each fixture with one label (`InKeyOrder`), and
then the sums and the threshold of the code count exactly the wrong answers
(`PassesMeans`); no sheet passes against a key of fewer than ten. `PowersSafe` needs
that no chain of approved combinations joins two powers: `MayMeet` is what one
person may hold at all, and by `TwoPowers` no two powers that must stay apart are
within it, whatever is approved.

`AppendKeepsValid` takes the reasons of the validation one by one: the old places
and heads of a longer chain are what they were (`AppendedPlaces`). That a chain is
determined by its head is an induction over chains; `HeadAssumption` checks it for
short ones.

### 4.8 KEY/PRV administration

`OrderSafe` is a fact about an algorithm, for every number of items and of words.
The shuffle is a recursive function; its values are found by induction over the
natural numbers, stated about sets (`Induction`, `Recursion`) since the library's
induction theorems take an operator. By `ShuffleSteps` and `ReplayPermutes` the result
is a permutation. A swap at position `k` settles what stands there (`Settled`), so the
indices can be read off an order from the last to the first, and every permutation
is the order of exactly one seed (`SeedOfOrder`). That every index is given by equally
many accepted words (`EquallyMany`) needs the accepted words to be whole blocks of the
bound (`WholeBlocks`), which is what the rejected last block is for; the count goes by
a bijection between the words of two indices.

`SnapshotsSound` says of every snapshot in every history that it is integral and that
an outcome it records is the one its own answers give. It is about all snapshots of
the history, of which the current one is the last.
`VoidSafe` follows from what `Resumable` and the status of a voided record allow.

### 4.9 Human review ledger

`Told` says what the loop of `aggregateHumanReview` knows after any number of lines,
and is shown by following one line (`Examine`): the ids seen, that the chain held so
far if it says so, and that the submissions it has kept are those of the file, in the
order of its lines, when nothing was rejected; so the two that are compared are those
of the first two submission lines (`FirstTwoSubmissions`), which `QualifiedSafe` is
about for any number of reviewers. So a file that qualifies is what `QualifiedSafe` says of it,
however it came about; enough distinct reviewers for as many submissions means that
each reviewer worked once (`OneEach`). `Alone` is for the file that was never read by
two captures at once: a capture under way has read all of it, so what it appends fits.

### 4.10 Bootstrap

Two facts carry `BootstrapInv`. Only the run that made the root gets past its first
call (`OwnerHolds`), since making the root fails for all others; so what lies in the
directories follows from the owner's place in `Program`, and what another run's
clean-up removes can only be less. And while the owner lives, each file in the
compartments is registered for removal or the work of the statement it is at
(`FilesHold`, with `Pending` for that statement), or among those its clean-up failed to
remove: so when the clean-up has come to its end after a failure, what is left beyond
those is no more than one statement's files. `RemoveFileHolds` and `RemoveTargetHolds`
take the clean-up one removal at a time. `EvidenceHolds` puts
evidence at the last of the 38 places, after the check that the compartments are
empty and after the restore target was dropped, which stays so because nothing
but the owner's calls makes files. `ProgramCalls` evaluates the program once, place
by place (`WrittenAt`, `EachCalls`); `EffectAt` then says what a call does by its
place. A step that ends a call, successfully or not, is `CallMade`, and one that only
changes the phase `PhaseMoves`; every action is one of the two or a removal of the
clean-up.

### 4.11 What only TLC checks

All liveness, `EvaluationsEnd` and `UndisturbedRunsSucceed`, which is outside TLAPS'
reach; that a chain is determined by its head, an induction over data. Every
safety invariant and action property the runs check has a theorem.

## 5. Where code and documents disagree

Each configuration below checks what a document, a runbook or a test says, and
TLC finds it violated by what the code does. They are not among the runs of
`PROJECT.json`; `tlc -config <name>.cfg <module>` reproduces each in seconds.

| Configuration (module) | Statement | Code |
|---|---|---|
| `MCResolutionDestination` (`MCResolution`) | "Destination references must be fixed in the accepted version before the assessed outcome. Sprint 5.7 cannot add or change a destination." (`docs/sprints/sprint-5.7-technical-design.md:159`) | a proposal's `destinationRef` need only not be blank (`resolution/domain.ts:34`) and is digested with the rest (`domain.ts:16`), so a settled payment is settled again to another destination; the sides' `settlementDestinationRef` (`lib/agreement-language/types.ts:18`) is not looked at |
| `MCResolutionRestricted` (`MCResolution`) | "`restricted` additionally prevents creation of a financial simulated proposal" (same, line 135) | propose never reads the state (`resolution/service.ts:28`) |
| `MCResolutionReplay` (`MCResolutionClient`) | a reused key "returns the original resource/status" (same, line 203) | it shows the proposal in the URL: the scope of a key is the agreement and the fingerprint is of the body only (`resolution/service.ts:72`, `transport.ts:4`) |
| `MCAgreementTwins` (`MCAgreementVersions`) | "Concurrent same-key requests must converge on one write" (`docs/sprints/sprint-5.3-technical-design.md:310`), "attempt to insert the idempotency row before domain writes" (`sprint-5.5-technical-design.md:201-204`) | the head is claimed first, so the second of two deliveries may get a version conflict against its own twin (`prisma-repository.ts:72-73`) |
| `MCEvidenceStale` (`MCEvidenceWorkflow`) | "Compare-and-swap revision checks prevent a late provider response from completing a cancelled, timed-out, killed, superseded, or stale assessment." (`docs/sprints/sprint-6.3-technical-design.md:146`) | the last comparison is before the saving transaction (`evidence/service.ts:93,97`) |
| `MCEvidenceOwn` (`MCEvidenceWorkflow`) | "reviewer cannot decide their own challenged evidence" (`tests/evidence-workflow.test.ts:41`) | only current revisions are looked at, so one can cite a superseded revision of one's own (`evidence/service.ts:105`) |
| `MCSessionsInMemory` (`MCSessions`) | "`update` must not resurrect a revoked/expired session through a stale renewal" (`docs/sprints/sprint-5.5-technical-design.md:97`) | the in-memory repository stores what it is given (`auth/in-memory.ts:15`) |
| `MCEndToEndTimeout` (`MCAssessmentProvider`) | "End-to-end timeout" of 15000 ms (`docs/sprints/sprint-6.2.1-smoke-test-plan.md:103`) | a connection closed inside a body emits neither end nor an error of the request, and the abort finds nothing left to abort (`openai-https-transport.ts:58`) |
| `MCRecordExpiry` (`MCGatedCalibration`) | "The record expires at the earliest assignment/control/evidence expiry." (`docs/sprints/sprint-6.5.4-role-custody-readiness-protocol-design-v1.md:365`) | the record is valid until the caller's expiry, and only assignments and controls are judged again (`role-custody-readiness.ts:520-533`) |
| `KeyPrvReplaced` (`KeyPrvAdministration`) | "A replacement requires a terminal prior record" (`docs/runbooks/sprint-6.5.4-role-custody-readiness-protocol-v2.md:27`) | an aborted record can be resumed after its replacement was authorized or locked (`key-prv-randomized-order.ts:282`) |

Read from the definitions, without a configuration:

- `docs/sprints/sprint-5.6-technical-design.md:174` wants conflicting inputs to
  give `indeterminate`; conflicts are looked for under one requirement at a time
  and only among booleans (`adapter.ts:22-24`). A deterministic `not_satisfied`
  cites nothing in support, which the validation of model drafts would refuse. A
  conclusive model finding may take its claim from a revision it cites only as
  conflicting.
- saveReview does not deduplicate open requests
  (`sprint-5.6-technical-design.md:256` speaks of it); saveAssessment writes no
  audit record; of two requests with different keys for one envelope the loser gets
  an error instead of the assessment (`sprint-6.3-technical-design.md:142`);
  evidence keys are scoped by actor and operation, not by agreement; the list of
  evidence is cut at a hundred items before inactive ones are filtered out.
- "Any active accepted-version participant may submit one or more append-oriented
  dispute claims while the proposal is non-terminal and not executed"
  (`sprint-5.7-technical-design.md:121`); the lifecycle table has no way from `held`
  to `disputed` (`resolution/domain.ts:13`), so a held proposal, which can still be
  executed, cannot be disputed.
- `sprint-5.7-technical-design.md:212` says the expiry prevents new authorization;
  grant does not check it. Nothing moves a lapsed proposal to `expired`: it blocks
  its outcome until somebody cancels it. The safety state is of the version, but
  the command is guarded by one proposal's revision.
- The in-memory agreement repository evicts idempotency records after a thousand
  keys, after which a retry creates a second agreement.
- Two renewals of one session may be written in the other order, and the session
  ends earlier than the later one said.
- The gate of calibration does not see a revocation or an incident after the
  record was evaluated; an eligibility attestation names no scorer; the scorer's
  alias in a submission is not compared with the record's assignments; and
  `scripts/run-scorer-calibration.ts` compares with no record at all.
- "A disagreement is any difference in result, action, or exact citation set for
  the same case. Unresolved disagreement blocks qualification."
  (`docs/ai-evaluation-labeling-protocol.md:35`); only the first two submissions are
  compared (`human-review.ts:101`), so where a later reviewer alone differs nothing
  has to be settled. `QualifiedIsIndependent` claims no more than that.
- The clean-up of a failed bootstrap swallows the failure of each removal
  (`empty-topology-bootstrap.ts:167-168`), so the error that is reported says nothing
  of files that stayed; the run in which that happens writes no evidence.
- `validateLedgerChain` lets a correction target itself, since its own id is added
  before targets are looked up (line 471), never compares the digest a correction
  names with that of its target, and does not look for repeated source digests,
  which `appendLedgerRecord` refuses.

## 6. Not modelled, and the plan

Out of the model for good, with the reason:

- parsing, formatting, rendering, logging, routes, seeds: no state;
- the agreement language: sequential validation of one document, well covered
  by unit tests; its result is the constants and assumptions of the models;
- the in-memory repositories of agreements and evidence: stand-ins for development;
- `cleanupExpiredIdempotency`, `cleanupExpired`: nothing calls them;
- the sign-in limiter: one synchronous function over a map, whose eviction needs
  more keys than an instance holds;
- the MCP server: its tools are calls of the services above, its guard and
  receipts keep no state between requests that a property would be about;
- the text of a model request, its schema and minimized input; tokens and costs,
  which are only reasons to refuse, and `attemptsMaximum`, which is not used;
- the synthetic restore simulation, the A-01 gate (`a01PrecontactGate`: a valid
  READY record, two distinct scorer passes and two given flags) and the other
  readiness functions of `role-custody-readiness.ts` that only read: pure
  functions of their input;
- the attestations of the roles other than scorer (`validateRoleEligibility`):
  documents that only tests check, no gate in the code takes one;
- timestamps of grants and disputes and the CHECK constraints about their order.

What would come next, in this order:

1. EvidenceWorkflow composed with AssessmentProvider: the assessment handler with
   the provider's time-outs between its reads and its write.
2. The custody ledger as a process of several custodians, when the code gets one
   that keeps it: today nothing but tests calls its functions.

## 7. Running it

```
tlc -workers 2 -config MCResolutionOne.cfg MCResolution
tlc -workers 2 -config MCAssessmentProvider.cfg MCAssessmentProvider
tlc -workers 2 -config MCGatedCalibration.cfg MCGatedCalibration
tlapm ResolutionProofs.tla
tlapm KeyPrvProofs.tla
```

`PROJECT.json` lists every run with its module and configuration. The longest,
`agreement_versions`, `evidence_workflow` and `provider`, take up to two minutes
each.
