------------------------- MODULE AgreementVersions -------------------------
(***************************************************************************)
(* Creating and revising agreements                                        *)
(* (apps/web/server/agreements/application/service.ts) over PostgreSQL     *)
(* (persistence/prisma-repository.ts).                                     *)
(*                                                                         *)
(* A handler of a request reads outside its transaction: the current       *)
(* aggregate, the clock and the idempotency record come first, each in a   *)
(* step of its own, and the transaction's writes come last, all or none.   *)
(* Other handlers take steps in between, the database may fail, and the    *)
(* process may stop.  A transaction is one step: its first statement takes *)
(* the row (or the unique key) that any competing transaction also needs.  *)
(*                                                                         *)
(* No code path accepts a version or adds a member to an agreement that    *)
(* exists; both come from the seed.                                        *)
(***************************************************************************)
EXTENDS Integers, FiniteSets

CONSTANTS
  Agreements,      \* identifiers of agreements, drawn or seeded
  Versions,        \* identifiers of versions, drawn or seeded
  Accounts,
  Parties,
  CreatorPartyOf,  \* [Accounts -> Parties or None]: whom the account may create for
  Contents,        \* terms clients submit
  PartiesOf,       \* [Contents -> SUBSET Parties]
  Keys,            \* idempotency keys clients use
  Requests,        \* bound: handlers at work at once
  Seed,            \* [Agreements -> None or the seeded version and members]
  None,            \* an absent row, reference or key
  MaxTime          \* bound: the clock

Membership   == [account : Accounts, party : Parties, role : {"owner", "participant"}]
VersionState == {"draft", "proposed", "accepted"}
SeedRow ==
  [version : Versions, state : VersionState, content : Contents, members : SUBSET Membership]

ASSUME VersionsAssumption ==
  /\ CreatorPartyOf \in [Accounts -> Parties \cup {None}]
  /\ PartiesOf \in [Contents -> SUBSET Parties]
  /\ None \notin Parties \cup Versions \cup Keys \cup Requests \cup Agreements
  /\ MaxTime \in Nat

\* Seeded agreements have versions of their own, with every member's party.
ASSUME SeedAssumption ==
  /\ Seed \in [Agreements -> SeedRow \cup {None}]
  /\ None \notin SeedRow
  /\ \A a \in Agreements : Seed[a] # None =>
       /\ \A m \in Seed[a].members : m.party \in PartiesOf[Seed[a].content]
       /\ \A b \in Agreements \ {a} : Seed[b] # None => Seed[b].version # Seed[a].version

VARIABLES
  clock,        \* the servers' clock
  head,         \* agreements: the current version, when it changed, the revision
  version,      \* agreement_versions
  members,      \* agreement_memberships
  audits,       \* audit_records: the version made and the one it says it followed
  idempotency,  \* idempotency_records
  request       \* the handlers at work

tables == <<head, version, members, audits, idempotency>>
vars   == <<clock, tables, request>>

HeadRow == [current : Versions, updatedAt : Nat, revision : Nat]
VersionRow ==
  [agreement : Agreements, number : Nat \ {0}, previous : Versions \cup {None},
   state : VersionState, content : Contents, createdAt : Nat]
AuditRow == [version : Versions, previous : Versions \cup {None}, actor : Accounts]

Operation == {"create", "update"}

\* scope is the agreement of an update and the sentinel of all creates;
\* content and expected are what the request fingerprint covers.
IdempotencyRow ==
  [actor : Accounts, operation : Operation, scope : Agreements \cup {None}, key : Keys,
   content : Contents, expected : Versions \cup {None}, version : Versions]

Answer == {"committed", "replayed", "refused", "duplicate", "version_conflict",
           "idempotency_conflict", "error"}

\* What a handler holds between its awaits.  row is the version it will write
\* as version, error why its transaction failed.  retried is a history field:
\* the same command had already committed when this request came in.
Handler ==
  [phase : {"read", "lookup", "transact", "caught", "answered"},
   operation : Operation, actor : Accounts, key : Keys \cup {None},
   agreement : Agreements, content : Contents, expected : Versions \cup {None},
   version : Versions, row : VersionRow \cup {None},
   error : {"unique", "other", None}, answer : Answer \cup {None}, retried : BOOLEAN]

ASSUME RowsAssumption == None \notin HeadRow \cup VersionRow \cup Handler \cup Answer

-----------------------------------------------------------------------------
(* Rows and requests. *)

Exists(a) == head[a] # None
VersionsOf(a) == {v \in Versions : version[v] # None /\ version[v].agreement = a}
At(r, phase) == request[r] # None /\ request[r].phase = phase

\* Identifiers are random: none is in a table or drawn by another handler.
FreshVersion(v) ==
  /\ version[v] = None
  /\ \A a \in Agreements : Seed[a] # None => Seed[a].version # v
  /\ \A r \in Requests : request[r] # None => request[r].version # v
FreshAgreement(a) ==
  /\ ~Exists(a)
  /\ \A r \in Requests : request[r] # None => request[r].agreement # a

Scope(q) == IF q.operation = "create" THEN None ELSE q.agreement

IsFor(e, q) ==
  e.actor = q.actor /\ e.operation = q.operation /\ e.scope = Scope(q) /\ e.key = q.key
SameBody(e, q) == e.content = q.content /\ e.expected = q.expected

\* idempotencyResult: none, a replay, or a key reused for another request.
Known(q) == \E e \in idempotency : IsFor(e, q)
Done(q)  == \E e \in idempotency : IsFor(e, q) /\ SameBody(e, q)
PriorAnswer(q) == IF Done(q) THEN "replayed" ELSE "idempotency_conflict"

Reply(q, answer) == [q EXCEPT !.phase = "answered", !.answer = answer]
Goes(r, q) == request' = [request EXCEPT ![r] = q]

-----------------------------------------------------------------------------
(* Requests come in. *)

MayCreate(actor) == CreatorPartyOf[actor] # None

NewHandler(operation, actor, key, a, content, expected, v) ==
  LET q == [phase |-> "read", operation |-> operation, actor |-> actor, key |-> key,
            agreement |-> a, content |-> content, expected |-> expected, version |-> v,
            row |-> None, error |-> None, answer |-> None, retried |-> FALSE]
  IN  [q EXCEPT !.retried = Done(q)]

ReceiveCreate(r, actor, key, content) ==
  /\ request[r] = None
  /\ MayCreate(actor)
  /\ \E a \in Agreements, v \in Versions :
       /\ FreshAgreement(a) /\ FreshVersion(v)
       /\ Goes(r, [NewHandler("create", actor, key, a, content, None, v) EXCEPT
                     !.phase = "lookup",
                     !.row = [agreement |-> a, number |-> 1, previous |-> None,
                              state |-> "draft", content |-> content, createdAt |-> clock]])
  /\ UNCHANGED <<clock, tables>>

\* A client revises the version it has read: expected exists when it is sent.
ReceiveUpdate(r, actor, key, a, expected, content) ==
  /\ request[r] = None
  /\ expected \in VersionsOf(a)
  /\ \E v \in Versions :
       FreshVersion(v) /\ Goes(r, NewHandler("update", actor, key, a, content, expected, v))
  /\ UNCHANGED <<clock, tables>>

-----------------------------------------------------------------------------
(* The handler's steps. *)

IsOwner(actor, a) == \E m \in members[a] : m.account = actor /\ m.role = "owner"

Revisable(a) == version[head[a].current].state \in {"draft", "proposed"}

Successor(a, content) ==
  LET current == version[head[a].current] IN
  [agreement |-> a, number |-> current.number + 1, previous |-> head[a].current,
   state |-> current.state, content |-> content, createdAt |-> clock]

\* update: read the aggregate, then the clock, and build the next version.
Read(r) ==
  LET q == request[r] IN
  /\ At(r, "read")
  /\ Goes(r, IF IsOwner(q.actor, q.agreement) /\ Revisable(q.agreement)
             THEN [q EXCEPT !.phase = "lookup", !.row = Successor(q.agreement, q.content)]
             ELSE Reply(q, "refused"))
  /\ UNCHANGED <<clock, tables>>

\* Mutant of FirstAnswer: the record is looked for only after a failure.
NoFirstAnswer(q) == None

\* The first lookup; a create then checks that its owner is a party of it.
FirstAnswer(q) ==
  IF Known(q) THEN PriorAnswer(q)
  ELSE IF q.operation = "create" /\ CreatorPartyOf[q.actor] \notin PartiesOf[q.content]
  THEN "duplicate" ELSE None

LookUp(r) ==
  LET q == request[r] IN
  /\ At(r, "lookup")
  /\ Goes(r, IF FirstAnswer(q) = None THEN [q EXCEPT !.phase = "transact"]
             ELSE Reply(q, FirstAnswer(q)))
  /\ UNCHANGED <<clock, tables>>

-----------------------------------------------------------------------------
(* The transaction. *)

KeyFree(q) == q.key = None \/ ~Known(q)

\* updateMany claims the head while the expected version is current.
Claims(q) == Exists(q.agreement) /\ head[q.agreement].current = q.expected

\* Mutants of Fits: any version is appended; the expected one is not asked for.
FitsAlways(q) == TRUE
FitsTheRead(q) == head[q.agreement].current = q.row.previous

\* The version built earlier must follow the one claimed now.
Fits(q) ==
  /\ Claims(q)
  /\ q.row.previous = head[q.agreement].current
  /\ q.row.number = version[head[q.agreement].current].number + 1

KeepsBoundParties(q) == \A m \in members[q.agreement] : m.party \in PartiesOf[q.content]

Fails(q, error) == [q EXCEPT !.phase = "caught", !.error = error]

AuditOf(q) == [version |-> q.version, previous |-> q.row.previous, actor |-> q.actor]
RecordOf(q) ==
  [actor |-> q.actor, operation |-> q.operation, scope |-> Scope(q), key |-> q.key,
   content |-> q.content, expected |-> q.expected, version |-> q.version]

Record(q) ==
  /\ audits' = audits \cup {AuditOf(q)}
  /\ idempotency' = IF q.key = None THEN idempotency ELSE idempotency \cup {RecordOf(q)}

\* A transaction commits; its handler learns of it, or loses the connection.
Commits(r) ==
  /\ Record(request[r])
  /\ version' = [version EXCEPT ![request[r].version] = request[r].row]
  /\ Goes(r, Reply(request[r], "committed")) \/ Goes(r, Fails(request[r], "other"))
  /\ UNCHANGED clock

CommitCreate(r) ==
  LET q == request[r] IN
  /\ At(r, "transact") /\ q.operation = "create"
  /\ KeyFree(q)
  /\ head' = [head EXCEPT ![q.agreement] =
       [current |-> q.version, updatedAt |-> q.row.createdAt, revision |-> 0]]
  /\ members' = [members EXCEPT ![q.agreement] =
       {[account |-> q.actor, party |-> CreatorPartyOf[q.actor], role |-> "owner"]}]
  /\ Commits(r)

CommitUpdate(r) ==
  LET q == request[r] IN
  /\ At(r, "transact") /\ q.operation = "update"
  /\ Fits(q) /\ KeyFree(q) /\ KeepsBoundParties(q)
  /\ head' = [head EXCEPT ![q.agreement] =
       [current |-> q.version, updatedAt |-> q.row.createdAt, revision |-> @.revision + 1]]
  /\ UNCHANGED members
  /\ Commits(r)

\* No head was claimed; the key is not looked at again.
Conflict(r) ==
  LET q == request[r] IN
  /\ At(r, "transact") /\ q.operation = "update"
  /\ ~Claims(q)
  /\ Goes(r, Reply(q, "version_conflict"))
  /\ UNCHANGED <<clock, tables>>

\* The transaction throws: its key was recorded meanwhile, a member's party
\* or the predecessor does not fit, or the database gave up on it.
Throw(r) ==
  LET q == request[r]
      reached == q.operation = "create" \/ Claims(q)
      invalid == q.operation = "update" /\ ~(KeepsBoundParties(q) /\ Fits(q))
  IN
  /\ At(r, "transact")
  /\ \/ reached /\ ~KeyFree(q) /\ Goes(r, Fails(q, "unique"))
     \/ reached /\ KeyFree(q) /\ invalid /\ Goes(r, Fails(q, "other"))
     \/ Goes(r, Fails(q, "other"))
  /\ UNCHANGED <<clock, tables>>

\* Mutant of SecondAnswer: the error is answered without a second lookup.
AnswerOfError(q) ==
  IF q.error # "unique" THEN "error"
  ELSE IF q.operation = "create" THEN "duplicate" ELSE "version_conflict"

SecondAnswer(q) == IF Known(q) THEN PriorAnswer(q) ELSE AnswerOfError(q)

Recover(r) ==
  /\ At(r, "caught")
  /\ Goes(r, Reply(request[r], SecondAnswer(request[r])))
  /\ UNCHANGED <<clock, tables>>

\* A read outside the transaction fails: 500, whatever came before it.
ReadFails(r) ==
  /\ At(r, "read") \/ At(r, "lookup") \/ At(r, "caught")
  /\ Goes(r, Reply(request[r], "error"))
  /\ UNCHANGED <<clock, tables>>

\* The answer leaves, or the process stops with whatever it had not committed.
End(r) ==
  /\ request[r] # None
  /\ Goes(r, None)
  /\ UNCHANGED <<clock, tables>>

Tick ==
  /\ clock < MaxTime
  /\ clock' = clock + 1
  /\ UNCHANGED <<tables, request>>

-----------------------------------------------------------------------------
SeedVersionRow(a) ==
  [agreement |-> a, number |-> 1, previous |-> None, state |-> Seed[a].state,
   content |-> Seed[a].content, createdAt |-> 0]

Init ==
  /\ clock = 0
  /\ head = [a \in Agreements |-> IF Seed[a] = None THEN None
               ELSE [current |-> Seed[a].version, updatedAt |-> 0, revision |-> 0]]
  /\ version = [v \in Versions |->
       IF \E a \in Agreements : Seed[a] # None /\ Seed[a].version = v
       THEN SeedVersionRow(CHOOSE a \in Agreements : Seed[a] # None /\ Seed[a].version = v)
       ELSE None]
  /\ members = [a \in Agreements |-> IF Seed[a] = None THEN {} ELSE Seed[a].members]
  /\ audits = {} /\ idempotency = {}
  /\ request = [r \in Requests |-> None]

Receive(r) ==
  \E actor \in Accounts, key \in Keys \cup {None}, content \in Contents :
    \/ ReceiveCreate(r, actor, key, content)
    \/ \E a \in Agreements, expected \in Versions :
         ReceiveUpdate(r, actor, key, a, expected, content)

Step(r) ==
  \/ Receive(r) \/ Read(r) \/ LookUp(r) \/ CommitCreate(r) \/ CommitUpdate(r)
  \/ Conflict(r) \/ Throw(r) \/ Recover(r) \/ ReadFails(r) \/ End(r)

Next == Tick \/ \E r \in Requests : Step(r)

Spec == Init /\ [][Next]_vars

-----------------------------------------------------------------------------
(* Properties. *)

\* Tables and handlers keep their shapes.
TypeOK ==
  /\ clock \in Nat
  /\ head \in [Agreements -> HeadRow \cup {None}]
  /\ version \in [Versions -> VersionRow \cup {None}]
  /\ members \in [Agreements -> SUBSET Membership]
  /\ audits \subseteq AuditRow
  /\ idempotency \subseteq IdempotencyRow
  /\ request \in [Requests -> Handler \cup {None}]

Number(v) == version[v].number

\* The current version is the agreement's last, counted by its revision;
\* every version but the first follows the one numbered just below it, and no
\* number is given twice, although each was built from an earlier read.
HistoryIsAChain ==
  \A a \in Agreements : Exists(a) =>
    /\ head[a].current \in VersionsOf(a)
    /\ Number(head[a].current) = head[a].revision + 1
    /\ \A v \in VersionsOf(a) :
         /\ Number(v) <= Number(head[a].current)
         /\ Number(v) = 1 <=> version[v].previous = None
         /\ Number(v) > 1 =>
              /\ version[v].previous \in VersionsOf(a)
              /\ Number(version[v].previous) = Number(v) - 1
         /\ \A w \in VersionsOf(a) : Number(v) = Number(w) => v = w

\* No member, active or invited, loses the party it stands for.
BoundPartiesPresent ==
  \A a \in Agreements : Exists(a) =>
    \A m \in members[a] : m.party \in PartiesOf[version[head[a].current].content]

\* A key takes effect once, however many handlers found it unused.
CommittedOncePerKey ==
  \A e, f \in idempotency :
    e.actor = f.actor /\ e.operation = f.operation /\ e.scope = f.scope /\ e.key = f.key => e = f

\* A retry of a command that had committed is answered as a replay (or not at
\* all), also when the version it was sent against is no longer current.
RetryIsReplayed ==
  \A r \in Requests : At(r, "answered") /\ request[r].retried =>
    request[r].answer \in {"replayed", "error"}

\* The same command in two handlers converges on one write: whichever answers
\* once the write is there says so, or that it failed, not that it was refused.
TwinsConverge(operation) ==
  \A r \in Requests :
    At(r, "answered") /\ request[r].operation = operation /\ Done(request[r])
      => request[r].answer \in {"committed", "replayed", "error"}

CreateTwinsConverge == TwinsConverge("create")

\* sprint-5.5-technical-design.md:204 promises the same of an update.
UpdateTwinsConverge == TwinsConverge("update")

\* An agreement is revised only by a request sent against its current version,
\* although handlers read, build and write at different times.
RevisesWhatWasSeen ==
  [][\A a \in Agreements : Exists(a) /\ head'[a] # head[a] =>
       \E r \in Requests :
         /\ request[r] # None /\ request[r].expected = head[a].current
         /\ head'[a].current = request[r].version]_vars

\* The head's timestamp, which lists are sorted and paged by, never goes back,
\* although handlers read the clock before they write.
UpdatedAtNeverGoesBack ==
  [][\A a \in Agreements : Exists(a) => head'[a].updatedAt >= head[a].updatedAt]_vars

\* The service implements a numbered, append-only history of terms.
History ==
  [a \in Agreements |->
     {[number |-> Number(v), version |-> v, content |-> version[v].content] : v \in VersionsOf(a)}]

Abstract == INSTANCE AgreementHistory WITH history <- History

ImplementsHistory == Abstract!Spec
=============================================================================
