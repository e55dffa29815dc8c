---------------------- MODULE AgreementVersionsProofs ----------------------
(***************************************************************************)
(* Theorems about AgreementVersions, for any agreements, accounts, keys    *)
(* and terms, and for any number of handlers at work at once; and, at the  *)
(* end, about AgreementPages, for lists and pages of any length.           *)
(*                                                                         *)
(* What the properties rest on is what a handler holds between its steps:  *)
(* the version it draws stays unused, a row it built follows a version     *)
(* that is there, and is not stamped before the head it follows.           *)
(***************************************************************************)
EXTENDS AgreementPages, FiniteSetTheorems, WellFoundedInduction, TLAPS

-----------------------------------------------------------------------------
(* The inductive invariant. *)

Built(q)   == q.phase \in {"lookup", "transact"}
Pending(q) == q.phase \in {"read", "lookup", "transact"}

\* The row a handler built is the one its request asks for.
RowBuilt(q) ==
  /\ q.row \in VersionRow
  /\ q.row.agreement = q.agreement
  /\ q.row.content = q.content
  /\ q.row.createdAt <= clock

CreateHeld(q) ==
  /\ CreatorPartyOf[q.actor] \in Parties
  /\ q.phase # "read"
  /\ Built(q) => q.row.number = 1 /\ q.row.previous = None /\ ~Exists(q.agreement)
  /\ q.phase = "transact" => CreatorPartyOf[q.actor] \in PartiesOf[q.content]

UpdateHeld(q) ==
  /\ Exists(q.agreement)
  /\ Built(q) =>
       /\ q.row.previous \in Versions /\ version[q.row.previous] # None
       /\ q.row.previous = head[q.agreement].current
            => head[q.agreement].updatedAt <= q.row.createdAt

Held(q) ==
  /\ Built(q) => RowBuilt(q)
  /\ Pending(q) => version[q.version] = None
  /\ q.operation = "create" => CreateHeld(q)
  /\ q.operation = "update" => UpdateHeld(q)

\* Two handlers never draw the same identifiers.
Apart(p, q) ==
  /\ p.version # q.version
  /\ p.operation = "create" /\ q.operation = "create" /\ Built(p) /\ Built(q)
       => p.agreement # q.agreement

HandlersHold ==
  /\ \A r \in Requests : request[r] # None => Held(request[r])
  /\ \A r, s \in Requests :
       r # s /\ request[r] # None /\ request[s] # None => Apart(request[r], request[s])

\* Every version belongs to an agreement; no head is from the future.
RowsHold ==
  /\ \A v \in Versions : version[v] # None => Exists(version[v].agreement)
  /\ \A a \in Agreements : Exists(a) => head[a].updatedAt <= clock

IInv ==
  /\ TypeOK
  /\ RowsHold
  /\ HandlersHold
  /\ HistoryIsAChain
  /\ BoundPartiesPresent
  /\ CommittedOncePerKey

-----------------------------------------------------------------------------
(* The initial states. *)

LEMMA SeedVersions ==
  ASSUME Init, NEW v \in Versions
  PROVE  \/ version[v] = None
         \/ \E a \in Agreements : Seed[a] # None /\ Seed[a].version = v /\ version[v] = SeedVersionRow(a)
<1> DEFINE Seeds(a) == Seed[a] # None /\ Seed[a].version = v
<1>1. CASE \E a \in Agreements : Seeds(a)
  <2>1. version[v] = SeedVersionRow(CHOOSE a \in Agreements : Seeds(a))
    BY <1>1 DEF Init
  <2>2. (CHOOSE a \in Agreements : Seeds(a)) \in Agreements /\ Seeds(CHOOSE a \in Agreements : Seeds(a))
    BY <1>1
  <2> HIDE DEF Seeds
  <2>3. \E a \in Agreements : Seeds(a) /\ version[v] = SeedVersionRow(a)
    BY <2>1, <2>2
  <2> QED BY <2>3 DEF Seeds
<1>2. CASE ~ \E a \in Agreements : Seeds(a)
  BY <1>2 DEF Init
<1> QED BY <1>1, <1>2

LEMMA SeedRows ==
  ASSUME NEW a \in Agreements, Seed[a] # None
  PROVE  /\ Seed[a] \in SeedRow
         /\ SeedVersionRow(a) \in VersionRow
<1>1. Seed[a] \in SeedRow
  BY SeedAssumption
<1> QED BY <1>1 DEF SeedVersionRow, VersionRow, SeedRow

\* A seeded agreement has its seeded version and no other.
LEMMA SeededHistory ==
  ASSUME Init, NEW a \in Agreements
  PROVE  /\ Seed[a] = None => VersionsOf(a) = {}
         /\ Seed[a] # None => VersionsOf(a) = {Seed[a].version} /\ version[Seed[a].version] = SeedVersionRow(a)
<1>1. \A v \in VersionsOf(a) : Seed[a] # None /\ Seed[a].version = v /\ version[v] = SeedVersionRow(a)
  <2> TAKE v \in VersionsOf(a)
  <2>1. version[v] # None /\ version[v].agreement = a /\ v \in Versions
    BY DEF VersionsOf
  <2>2. PICK b \in Agreements : Seed[b] # None /\ Seed[b].version = v /\ version[v] = SeedVersionRow(b)
    BY <2>1, SeedVersions
  <2>3. version[v].agreement = b
    BY <2>2 DEF SeedVersionRow
  <2> QED BY <2>1, <2>2, <2>3
<1>2. ASSUME Seed[a] # None
      PROVE  Seed[a].version \in VersionsOf(a)
  <2>1. Seed[a].version \in Versions
    BY <1>2, SeedRows DEF SeedRow
  <2>2. version[Seed[a].version] # None
    <3>1. version[Seed[a].version] =
            SeedVersionRow(CHOOSE b \in Agreements : Seed[b] # None /\ Seed[b].version = Seed[a].version)
      BY <1>2, <2>1 DEF Init
    <3>2. PICK b \in Agreements :
            /\ Seed[b] # None
            /\ b = CHOOSE c \in Agreements : Seed[c] # None /\ Seed[c].version = Seed[a].version
      BY <1>2
    <3>3. SeedVersionRow(b) \in VersionRow
      BY <3>2, SeedRows
    <3> QED BY <3>1, <3>2, <3>3, RowsAssumption
  <2>3. PICK b \in Agreements :
          Seed[b] # None /\ Seed[b].version = Seed[a].version /\ version[Seed[a].version] = SeedVersionRow(b)
    BY <2>1, <2>2, SeedVersions
  <2>4. a = b
    BY <1>2, <2>3, SeedAssumption
  <2>5. version[Seed[a].version].agreement = a
    BY <2>3, <2>4 DEF SeedVersionRow
  <2> QED BY <2>1, <2>2, <2>5 DEF VersionsOf
<1> QED BY <1>1, <1>2

LEMMA InitType == Init => TypeOK
<1> SUFFICES ASSUME Init PROVE TypeOK
  OBVIOUS
<1>1. clock \in Nat /\ audits \subseteq AuditRow /\ idempotency \subseteq IdempotencyRow
  BY DEF Init
<1>2. request \in [Requests -> Handler \cup {None}]
  BY DEF Init
<1>3. head \in [Agreements -> HeadRow \cup {None}]
  <2>1. \A a \in Agreements : Seed[a] # None =>
          [current |-> Seed[a].version, updatedAt |-> 0, revision |-> 0] \in HeadRow
    BY SeedRows DEF SeedRow, HeadRow
  <2> QED BY <2>1 DEF Init
<1>4. version \in [Versions -> VersionRow \cup {None}]
  <2>1. \A v \in Versions : version[v] \in VersionRow \cup {None}
    BY SeedVersions, SeedRows
  <2>2. version = [v \in Versions |-> version[v]]
    BY DEF Init
  <2> QED BY <2>1, <2>2
<1>5. members \in [Agreements -> SUBSET Membership]
  <2>1. \A a \in Agreements : Seed[a] # None => Seed[a].members \subseteq Membership
    BY SeedRows DEF SeedRow
  <2> QED BY <2>1 DEF Init
<1> QED BY <1>1, <1>2, <1>3, <1>4, <1>5 DEF TypeOK

\* A head is there exactly for a seeded agreement.
LEMMA SeededHeads ==
  ASSUME Init, NEW a \in Agreements
  PROVE  /\ Exists(a) <=> Seed[a] # None
         /\ Exists(a) =>
              head[a].current = Seed[a].version /\ head[a].updatedAt = 0 /\ head[a].revision = 0
<1>1. CASE Seed[a] = None
  BY <1>1 DEF Init, Exists
<1>2. CASE Seed[a] # None
  <2>1. head[a] = [current |-> Seed[a].version, updatedAt |-> 0, revision |-> 0]
    BY <1>2 DEF Init
  <2>2. head[a] \in HeadRow
    BY <1>2, <2>1, SeedRows DEF SeedRow, HeadRow
  <2>3. head[a].current = Seed[a].version /\ head[a].updatedAt = 0 /\ head[a].revision = 0
    BY <2>1
  <2> QED BY <1>2, <2>1, <2>2, <2>3, RowsAssumption DEF Exists
<1> QED BY <1>1, <1>2

LEMMA InitInv == Init => IInv
<1> SUFFICES ASSUME Init PROVE IInv
  OBVIOUS
<1>1. TypeOK
  BY InitType
<1>2. RowsHold
  <2>1. \A v \in Versions : version[v] # None => Exists(version[v].agreement)
    <3> SUFFICES ASSUME NEW v \in Versions, version[v] # None
                 PROVE  Exists(version[v].agreement)
      OBVIOUS
    <3>1. PICK a \in Agreements : Seed[a] # None /\ version[v] = SeedVersionRow(a)
      BY SeedVersions
    <3>2. version[v].agreement = a
      BY <3>1 DEF SeedVersionRow
    <3> QED BY <3>1, <3>2, SeededHeads
  <2>2. \A a \in Agreements : Exists(a) => head[a].updatedAt <= clock
    <3> SUFFICES ASSUME NEW a \in Agreements, Exists(a)
                 PROVE  head[a].updatedAt <= clock
      OBVIOUS
    <3>1. head[a].updatedAt = 0
      BY SeededHeads
    <3>2. clock = 0
      BY DEF Init
    <3> QED BY <3>1, <3>2
  <2> QED BY <2>1, <2>2 DEF RowsHold
<1>3. HandlersHold
  <2>1. \A r \in Requests : request[r] = None
    BY DEF Init
  <2> QED BY <2>1 DEF HandlersHold
<1>4. HistoryIsAChain
  <2> SUFFICES ASSUME NEW a \in Agreements, Exists(a)
               PROVE  /\ head[a].current \in VersionsOf(a)
                      /\ Number(head[a].current) = head[a].revision + 1
                      /\ \A v \in VersionsOf(a) :
                           /\ Number(v) <= Number(head[a].current)
                           /\ Number(v) = 1 <=> version[v].previous = None
                           /\ Number(v) > 1 =>
                                /\ version[v].previous \in VersionsOf(a)
                                /\ Number(version[v].previous) = Number(v) - 1
                           /\ \A w \in VersionsOf(a) : Number(v) = Number(w) => v = w
    BY DEF HistoryIsAChain
  <2>1. Seed[a] # None /\ head[a].current = Seed[a].version /\ head[a].revision = 0
    BY SeededHeads
  <2>2. VersionsOf(a) = {Seed[a].version} /\ version[Seed[a].version] = SeedVersionRow(a)
    BY <2>1, SeededHistory
  <2>3. Number(Seed[a].version) = 1 /\ version[Seed[a].version].previous = None
    BY <2>2 DEF Number, SeedVersionRow
  <2>4. ASSUME NEW v \in VersionsOf(a)
        PROVE  v = Seed[a].version
    BY <2>2
  <2>5. Seed[a].version \in VersionsOf(a)
    BY <2>2
  <2>6. Number(Seed[a].version) <= 1 /\ ~(Number(Seed[a].version) > 1)
    BY <2>3
  <2>7. Number(head[a].current) = head[a].revision + 1
    BY <2>1, <2>3
  <2> QED BY <2>1, <2>3, <2>4, <2>5, <2>6, <2>7
<1>5. BoundPartiesPresent
  <2> SUFFICES ASSUME NEW a \in Agreements, Exists(a), NEW m \in members[a]
               PROVE  m.party \in PartiesOf[version[head[a].current].content]
    BY DEF BoundPartiesPresent
  <2>1. Seed[a] # None /\ head[a].current = Seed[a].version
    BY SeededHeads
  <2>2. version[Seed[a].version].content = Seed[a].content
    <3>1. version[Seed[a].version] = SeedVersionRow(a)
      BY <2>1, SeededHistory
    <3> QED BY <3>1 DEF SeedVersionRow
  <2>3. members[a] = Seed[a].members
    BY <2>1 DEF Init
  <2>4. m.party \in PartiesOf[Seed[a].content]
    BY <2>1, <2>3, SeedAssumption
  <2> QED BY <2>1, <2>2, <2>4
<1>6. CommittedOncePerKey
  BY DEF Init, CommittedOncePerKey
<1> QED BY <1>1, <1>2, <1>3, <1>4, <1>5, <1>6 DEF IInv

-----------------------------------------------------------------------------
(* Steps of one handler that write no table. *)

LEMMA QuietStep ==
  ASSUME IInv, NEW r \in Requests, NEW q \in Handler \cup {None},
         Goes(r, q), UNCHANGED <<clock, tables>>,
         q # None => Held(q),
         \A s \in Requests :
           q # None /\ s # r /\ request[s] # None => Apart(q, request[s]) /\ Apart(request[s], q)
  PROVE  IInv'
<1> USE DEF IInv
<1>1. request' \in [Requests -> Handler \cup {None}] /\ request' = [request EXCEPT ![r] = q]
  BY DEF Goes, TypeOK
<1>2. TypeOK'
  BY <1>1 DEF TypeOK, tables
<1>3. HandlersHold'
  <2>1. ASSUME NEW s \in Requests, request'[s] # None
        PROVE  Held(request'[s])
    BY <1>1, <2>1 DEF HandlersHold, TypeOK
  <2>3. ASSUME NEW s \in Requests, NEW t \in Requests, s # t, request'[s] # None, request'[t] # None
        PROVE  Apart(request'[s], request'[t])
    BY <1>1, <2>3 DEF HandlersHold, TypeOK
  <2>4. \A s \in Requests : request'[s] # None => Held(request[s])'
    <3> TAKE s \in Requests
    <3> HAVE request'[s] # None
    <3>1. Held(request'[s])
      BY <2>1
    <3> QED BY <3>1 DEF Held, RowBuilt, CreateHeld, UpdateHeld, Exists, tables, Built, Pending
  <2> QED BY <2>3, <2>4 DEF HandlersHold, Apart, Built
<1>4. RowsHold'
  BY DEF RowsHold, Exists, tables
<1>5. HistoryIsAChain'
  BY DEF HistoryIsAChain, VersionsOf, Number, Exists, tables
<1>6. BoundPartiesPresent' /\ CommittedOncePerKey'
  BY DEF BoundPartiesPresent, CommittedOncePerKey, Exists, tables
<1> QED BY <1>2, <1>3, <1>4, <1>5, <1>6

\* A handler moves on with what it drew and for what it was asked.
LEMMA OwnStep ==
  ASSUME IInv, NEW r \in Requests, request[r] # None, NEW q \in Handler,
         q.version = request[r].version, q.operation = request[r].operation,
         q.agreement = request[r].agreement,
         q.operation = "create" /\ Built(q) => Built(request[r]),
         Held(q), Goes(r, q), UNCHANGED <<clock, tables>>
  PROVE  IInv'
<1>1. \A s \in Requests :
        s # r /\ request[s] # None => Apart(q, request[s]) /\ Apart(request[s], q)
  BY DEF IInv, HandlersHold, Apart
<1> QED BY <1>1, QuietStep

\* Answering keeps what the other lemmas ask of a handler.
LEMMA ReplyHolds ==
  ASSUME NEW q \in Handler, Held(q), NEW answer \in Answer
  PROVE  /\ Reply(q, answer) \in Handler /\ Held(Reply(q, answer)) /\ ~Built(Reply(q, answer))
         /\ Reply(q, answer).version = q.version /\ Reply(q, answer).operation = q.operation
         /\ Reply(q, answer).agreement = q.agreement
<1> DEFINE p == Reply(q, answer)
<1>1. p \in Handler
  BY DEF Reply, Handler
<1>2. /\ p.version = q.version /\ p.operation = q.operation /\ p.agreement = q.agreement
      /\ p.actor = q.actor /\ p.phase = "answered"
  BY DEF Reply, Handler
<1>3. ~Built(p) /\ ~Pending(p)
  BY <1>2 DEF Built, Pending
<1> HIDE DEF p
<1>4. p.operation = "create" => CreateHeld(p)
  BY <1>2, <1>3 DEF Held, CreateHeld
<1>5. p.operation = "update" => UpdateHeld(p)
  BY <1>2, <1>3 DEF Held, UpdateHeld
<1>6. Held(p)
  BY <1>3, <1>4, <1>5 DEF Held
<1> QED BY <1>1, <1>2, <1>3, <1>6 DEF p

LEMMA ReplyStep ==
  ASSUME IInv, NEW r \in Requests, request[r] # None, NEW answer \in Answer,
         Goes(r, Reply(request[r], answer)), UNCHANGED <<clock, tables>>
  PROVE  IInv'
<1>1. request[r] \in Handler /\ Held(request[r])
  BY DEF IInv, TypeOK, HandlersHold
<1> QED BY <1>1, ReplyHolds, OwnStep

LEMMA FailsHolds ==
  ASSUME NEW q \in Handler, Held(q), NEW error \in {"unique", "other"}
  PROVE  /\ Fails(q, error) \in Handler /\ Held(Fails(q, error)) /\ ~Built(Fails(q, error))
         /\ Fails(q, error).version = q.version /\ Fails(q, error).operation = q.operation
         /\ Fails(q, error).agreement = q.agreement
<1> DEFINE p == Fails(q, error)
<1>1. p \in Handler
  BY DEF Fails, Handler
<1>2. /\ p.version = q.version /\ p.operation = q.operation /\ p.agreement = q.agreement
      /\ p.actor = q.actor /\ p.phase = "caught"
  BY DEF Fails, Handler
<1>3. ~Built(p) /\ ~Pending(p)
  BY <1>2 DEF Built, Pending
<1> HIDE DEF p
<1>4. p.operation = "create" => CreateHeld(p)
  BY <1>2, <1>3 DEF Held, CreateHeld
<1>5. p.operation = "update" => UpdateHeld(p)
  BY <1>2, <1>3 DEF Held, UpdateHeld
<1>6. Held(p)
  BY <1>3, <1>4, <1>5 DEF Held
<1> QED BY <1>1, <1>2, <1>3, <1>6 DEF p

LEMMA FailStep ==
  ASSUME IInv, NEW r \in Requests, request[r] # None, NEW error \in {"unique", "other"},
         Goes(r, Fails(request[r], error)), UNCHANGED <<clock, tables>>
  PROVE  IInv'
<1>1. request[r] \in Handler /\ Held(request[r])
  BY DEF IInv, TypeOK, HandlersHold
<1> QED BY <1>1, FailsHolds, OwnStep

LEMMA NewHandlerType ==
  ASSUME NEW operation \in Operation, NEW actor \in Accounts, NEW key \in Keys \cup {None},
         NEW a \in Agreements, NEW content \in Contents, NEW expected \in Versions \cup {None},
         NEW v \in Versions
  PROVE  NewHandler(operation, actor, key, a, content, expected, v) \in Handler
<1> DEFINE base == [phase |-> "read", operation |-> operation, actor |-> actor, key |-> key,
                    agreement |-> a, content |-> content, expected |-> expected, version |-> v,
                    row |-> None, error |-> None, answer |-> None, retried |-> FALSE]
<1>1. base \in Handler
  BY DEF Handler
<1>2. Done(base) \in BOOLEAN
  BY DEF Done
<1> HIDE DEF Done
<1>3. [base EXCEPT !.retried = Done(base)] \in Handler
  BY <1>1, <1>2 DEF Handler
<1> QED BY <1>3 DEF NewHandler

LEMMA StepReceiveCreate ==
  ASSUME IInv, NEW r \in Requests, NEW actor \in Accounts, NEW key \in Keys \cup {None},
         NEW content \in Contents, ReceiveCreate(r, actor, key, content)
  PROVE  IInv'
<1>1. PICK a \in Agreements, v \in Versions :
        /\ FreshAgreement(a) /\ FreshVersion(v)
        /\ Goes(r, [NewHandler("create", actor, key, a, content, None, v) EXCEPT
                      !.phase = "lookup",
                      !.row = [agreement |-> a, number |-> 1, previous |-> None,
                               state |-> "draft", content |-> content, createdAt |-> clock]])
  BY DEF ReceiveCreate
<1> DEFINE base == NewHandler("create", actor, key, a, content, None, v)
<1>2. /\ base \in Handler /\ base.operation = "create" /\ base.actor = actor
      /\ base.agreement = a /\ base.content = content /\ base.version = v
  <2>1. base \in Handler
    BY NewHandlerType DEF Operation
  <2> QED BY <2>1 DEF NewHandler
<1> DEFINE row == [agreement |-> a, number |-> 1, previous |-> None,
                   state |-> "draft", content |-> content, createdAt |-> clock]
           q == [base EXCEPT !.phase = "lookup", !.row = row]
<1>3. row \in VersionRow /\ row.agreement = a /\ row.content = content /\ row.createdAt = clock
      /\ row.number = 1 /\ row.previous = None /\ clock \in Nat
  BY DEF IInv, TypeOK, VersionRow, VersionState
<1> HIDE DEF base, row
<1>4. /\ q \in Handler /\ q.phase = "lookup" /\ q.row = row /\ q.operation = "create"
      /\ q.actor = actor /\ q.agreement = a /\ q.content = content /\ q.version = v
  BY <1>2, <1>3 DEF Handler
<1> HIDE DEF q
<1>5. CreatorPartyOf[actor] \in Parties
  BY VersionsAssumption DEF ReceiveCreate, MayCreate
<1>6. Held(q)
  <2>1. Built(q) /\ Pending(q)
    BY <1>4 DEF Built, Pending
  <2>2. RowBuilt(q)
    BY <1>3, <1>4 DEF RowBuilt
  <2>3. CreateHeld(q)
    BY <1>1, <1>3, <1>4, <1>5 DEF CreateHeld, FreshAgreement
  <2>4. version[q.version] = None
    BY <1>1, <1>4 DEF FreshVersion
  <2> QED BY <1>4, <2>2, <2>3, <2>4 DEF Held
<1>7. \A s \in Requests :
        s # r /\ request[s] # None => Apart(q, request[s]) /\ Apart(request[s], q)
  BY <1>1, <1>4 DEF FreshVersion, FreshAgreement, Apart
<1>8. Goes(r, q) /\ UNCHANGED <<clock, tables>>
  BY <1>1 DEF ReceiveCreate, q, base, row
<1> QED BY <1>4, <1>6, <1>7, <1>8, QuietStep

LEMMA StepReceiveUpdate ==
  ASSUME IInv, NEW r \in Requests, NEW actor \in Accounts, NEW key \in Keys \cup {None},
         NEW a \in Agreements, NEW expected \in Versions, NEW content \in Contents,
         ReceiveUpdate(r, actor, key, a, expected, content)
  PROVE  IInv'
<1>1. PICK v \in Versions :
        FreshVersion(v) /\ Goes(r, NewHandler("update", actor, key, a, content, expected, v))
  BY DEF ReceiveUpdate
<1> DEFINE q == NewHandler("update", actor, key, a, content, expected, v)
<1>2. /\ q \in Handler /\ q.phase = "read" /\ q.operation = "update"
      /\ q.agreement = a /\ q.version = v
  <2>1. q \in Handler
    BY NewHandlerType DEF Operation
  <2> QED BY <2>1 DEF NewHandler
<1> HIDE DEF q
<1>3. Exists(a)
  BY DEF ReceiveUpdate, VersionsOf, IInv, RowsHold
<1>4. Held(q)
  BY <1>1, <1>2, <1>3 DEF Held, Built, Pending, UpdateHeld, FreshVersion
<1>5. \A s \in Requests :
        s # r /\ request[s] # None => Apart(q, request[s]) /\ Apart(request[s], q)
  BY <1>1, <1>2 DEF FreshVersion, Apart
<1>6. Goes(r, q) /\ UNCHANGED <<clock, tables>>
  BY <1>1 DEF ReceiveUpdate, q
<1> QED BY <1>2, <1>4, <1>5, <1>6, QuietStep

LEMMA StepRead ==
  ASSUME IInv, NEW r \in Requests, Read(r)
  PROVE  IInv'
<1> DEFINE q == request[r]
           a == q.agreement
           row == Successor(a, q.content)
           p == [q EXCEPT !.phase = "lookup", !.row = row]
<1>1. q \in Handler /\ q # None /\ q.phase = "read" /\ Held(q) /\ UNCHANGED <<clock, tables>>
  BY DEF IInv, TypeOK, HandlersHold, Read, At
<1>2. q.operation = "update" /\ Exists(a) /\ a \in Agreements /\ q.content \in Contents
  BY <1>1 DEF Held, CreateHeld, UpdateHeld, Handler, Operation
<1>3. CASE Goes(r, Reply(q, "refused"))
  BY <1>1, <1>3, ReplyStep DEF Answer
<1>4. CASE Goes(r, p)
  <2>1. head[a] \in HeadRow /\ head[a].current \in VersionsOf(a)
    BY <1>2 DEF IInv, TypeOK, HistoryIsAChain, Exists
  <2>2. /\ head[a].current \in Versions /\ version[head[a].current] # None
        /\ version[head[a].current] \in VersionRow
    BY <2>1 DEF VersionsOf, IInv, TypeOK
  <2>3. clock \in Nat /\ head[a].updatedAt <= clock /\ head[a].updatedAt \in Nat
    BY <1>2, <2>1 DEF IInv, TypeOK, RowsHold, HeadRow
  <2>4. /\ row \in VersionRow /\ row.agreement = a /\ row.content = q.content
        /\ row.createdAt = clock /\ row.previous = head[a].current
    BY <1>2, <2>2, <2>3 DEF Successor, VersionRow
  <2> HIDE DEF row
  <2>5. /\ p \in Handler /\ p.phase = "lookup" /\ p.row = row /\ p.operation = "update"
        /\ p.agreement = a /\ p.version = q.version /\ p.content = q.content
    BY <1>1, <1>2, <2>4 DEF Handler
  <2> HIDE DEF p
  <2>6. Held(p)
    <3>1. RowBuilt(p)
      BY <2>3, <2>4, <2>5 DEF RowBuilt
    <3>2. UpdateHeld(p)
      BY <1>2, <2>2, <2>3, <2>4, <2>5 DEF UpdateHeld
    <3>3. version[p.version] = None
      BY <1>1, <2>5 DEF Held, Pending
    <3> QED BY <2>5, <3>1, <3>2, <3>3 DEF Held
  <2> QED BY <1>1, <1>2, <1>4, <2>5, <2>6, OwnStep
<1> QED BY <1>3, <1>4 DEF Read

LEMMA StepLookUp ==
  ASSUME IInv, NEW r \in Requests, LookUp(r)
  PROVE  IInv'
<1> DEFINE q == request[r]
           p == [q EXCEPT !.phase = "transact"]
<1>1. q \in Handler /\ q # None /\ q.phase = "lookup" /\ Held(q) /\ UNCHANGED <<clock, tables>>
  BY DEF IInv, TypeOK, HandlersHold, LookUp, At
<1>2. CASE FirstAnswer(q) # None
  <2>1. FirstAnswer(q) \in Answer
    BY <1>2 DEF FirstAnswer, PriorAnswer, Answer
  <2>2. Goes(r, Reply(q, FirstAnswer(q)))
    BY <1>2 DEF LookUp
  <2> HIDE DEF q
  <2> QED BY <1>1, <2>1, <2>2, ReplyStep DEF q
<1>3. CASE FirstAnswer(q) = None
  <2>1. q.operation = "create" => CreatorPartyOf[q.actor] \in PartiesOf[q.content]
    <3>1. PriorAnswer(q) # None /\ "duplicate" # None
      BY RowsAssumption DEF PriorAnswer, Answer
    <3> QED BY <1>3, <3>1 DEF FirstAnswer
  <2>2. Goes(r, p)
    BY <1>3 DEF LookUp
  <2>3. /\ p \in Handler /\ p.phase = "transact" /\ p.row = q.row /\ p.operation = q.operation
        /\ p.agreement = q.agreement /\ p.version = q.version /\ p.content = q.content
        /\ p.actor = q.actor
    BY <1>1 DEF Handler
  <2> HIDE DEF p
  <2>4. Held(p)
    <3>1. RowBuilt(p)
      BY <1>1, <2>3 DEF Held, Built, RowBuilt
    <3>2. p.operation = "create" => CreateHeld(p)
      BY <1>1, <2>1, <2>3 DEF Held, Built, CreateHeld
    <3>3. p.operation = "update" => UpdateHeld(p)
      BY <1>1, <2>3 DEF Held, Built, UpdateHeld
    <3>4. version[p.version] = None
      BY <1>1, <2>3 DEF Held, Pending
    <3> QED BY <3>1, <3>2, <3>3, <3>4 DEF Held
  <2> QED BY <1>1, <2>2, <2>3, <2>4, OwnStep DEF Built
<1> QED BY <1>2, <1>3
\* The steps that end in an answer or in a failure, with nothing written.
LEMMA StepAnswers ==
  ASSUME IInv, NEW r \in Requests, Conflict(r) \/ Throw(r) \/ Recover(r) \/ ReadFails(r)
  PROVE  IInv'
<1>1. request[r] # None /\ UNCHANGED <<clock, tables>>
  BY DEF Conflict, Throw, Recover, ReadFails, At
<1>2. \/ \E answer \in Answer : Goes(r, Reply(request[r], answer))
      \/ \E error \in {"unique", "other"} : Goes(r, Fails(request[r], error))
  <2>1. CASE Conflict(r)
    BY <2>1 DEF Conflict, Answer
  <2>2. CASE Throw(r)
    BY <2>2 DEF Throw
  <2>3. CASE Recover(r)
    <3>1. SecondAnswer(request[r]) \in Answer
      BY DEF SecondAnswer, PriorAnswer, AnswerOfError, Answer
    <3> QED BY <2>3, <3>1 DEF Recover
  <2>4. CASE ReadFails(r)
    BY <2>4 DEF ReadFails, Answer
  <2> QED BY <2>1, <2>2, <2>3, <2>4
<1>3. ASSUME NEW answer \in Answer, Goes(r, Reply(request[r], answer))
      PROVE  IInv'
  BY <1>1, <1>3, ReplyStep
<1>4. ASSUME NEW error \in {"unique", "other"}, Goes(r, Fails(request[r], error))
      PROVE  IInv'
  BY <1>1, <1>4, FailStep
<1> QED BY <1>2, <1>3, <1>4

LEMMA StepEnd ==
  ASSUME IInv, NEW r \in Requests, End(r)
  PROVE  IInv'
BY QuietStep DEF End

LEMMA StepTick ==
  ASSUME IInv, Tick
  PROVE  IInv'
<1>1. clock \in Nat /\ clock' = clock + 1 /\ UNCHANGED <<tables, request>>
  BY DEF IInv, TypeOK, Tick
<1>2. TypeOK'
  BY <1>1 DEF IInv, TypeOK, tables
<1>3. RowsHold'
  BY <1>1 DEF IInv, TypeOK, HeadRow, RowsHold, Exists, tables
<1>4. HandlersHold'
  <2>1. \A s \in Requests : request[s] # None => Held(request[s])'
    <3> SUFFICES ASSUME NEW s \in Requests, request[s] # None
                 PROVE  Held(request[s])'
      OBVIOUS
    <3>1. Held(request[s])
      BY DEF IInv, HandlersHold
    <3>2. RowBuilt(request[s]) => RowBuilt(request[s])'
      BY <1>1 DEF RowBuilt, VersionRow
    <3> QED BY <1>1, <3>1, <3>2 DEF Held, CreateHeld, UpdateHeld, Exists, tables, Built, Pending
  <2> QED BY <1>1, <2>1 DEF IInv, HandlersHold, Apart, Built
<1>5. HistoryIsAChain' /\ BoundPartiesPresent' /\ CommittedOncePerKey'
  BY <1>1 DEF IInv, HistoryIsAChain, VersionsOf, Number, Exists, tables, BoundPartiesPresent,
              CommittedOncePerKey
<1> QED BY <1>2, <1>3, <1>4, <1>5 DEF IInv

-----------------------------------------------------------------------------
(* A transaction that commits. *)

\* What a commit of either kind does.
Writes(r, revision) ==
  LET q == request[r] IN
  /\ At(r, "transact") /\ KeyFree(q) /\ Commits(r)
  /\ head' = [head EXCEPT ![q.agreement] =
       [current |-> q.version, updatedAt |-> q.row.createdAt, revision |-> revision]]

LEMMA CreateWrites ==
  ASSUME IInv, NEW r \in Requests, CommitCreate(r)
  PROVE  Writes(r, 0)
BY DEF CommitCreate, Writes

LEMMA UpdateWrites ==
  ASSUME IInv, NEW r \in Requests, CommitUpdate(r)
  PROVE  /\ head[request[r].agreement] \in HeadRow
         /\ Writes(r, head[request[r].agreement].revision + 1)
<1> DEFINE q == request[r]
<1>1. q \in Handler /\ Exists(q.agreement)
  BY DEF CommitUpdate, At, Fits, Claims, IInv, TypeOK
<1>2. head[q.agreement] \in HeadRow
  BY <1>1 DEF IInv, TypeOK, Handler, Exists
<1> QED BY <1>1, <1>2 DEF CommitUpdate, Writes, IInv, TypeOK, Handler

\* The handler that commits, and what it held.
LEMMA WriterHeld ==
  ASSUME IInv, NEW r \in Requests, NEW n \in Nat, Writes(r, n)
  PROVE  LET q == request[r] IN
         /\ q \in Handler /\ q # None /\ q.phase = "transact" /\ Held(q)
         /\ q.agreement \in Agreements /\ q.version \in Versions /\ version[q.version] = None
         /\ q.row \in VersionRow /\ q.row # None /\ q.row.agreement = q.agreement
         /\ q.row.content = q.content /\ q.row.createdAt <= clock /\ q.row.createdAt \in Nat
<1> DEFINE q == request[r]
<1>1. q \in Handler /\ q # None /\ q.phase = "transact" /\ Held(q)
  BY DEF Writes, At, IInv, TypeOK, HandlersHold
<1>2. RowBuilt(q) /\ version[q.version] = None
  BY <1>1 DEF Held, Built, Pending
<1>3. q.agreement \in Agreements /\ q.version \in Versions
  BY <1>1 DEF Handler
<1>4. q.row \in VersionRow /\ q.row # None /\ q.row.createdAt \in Nat
  BY <1>2, RowsAssumption DEF RowBuilt, VersionRow
<1> QED BY <1>1, <1>2, <1>3, <1>4 DEF RowBuilt

\* One version is new; the others, and the other agreements, stay.
LEMMA WrittenTables ==
  ASSUME IInv, NEW r \in Requests, NEW n \in Nat, Writes(r, n)
  PROVE  LET q == request[r] IN
         /\ version'[q.version] = q.row
         /\ \A v \in Versions : v # q.version => version'[v] = version[v]
         /\ \A v \in Versions : version[v] # None => v # q.version
         /\ head'[q.agreement] \in HeadRow /\ head'[q.agreement] # None
         /\ head'[q.agreement].current = q.version
         /\ head'[q.agreement].updatedAt = q.row.createdAt
         /\ head'[q.agreement].revision = n
         /\ \A a \in Agreements : a # q.agreement => head'[a] = head[a]
<1> DEFINE q == request[r]
<1>1. /\ q.agreement \in Agreements /\ q.version \in Versions /\ version[q.version] = None
      /\ q.row.createdAt \in Nat
  BY WriterHeld
<1>2. version' = [version EXCEPT ![q.version] = q.row] /\ version \in [Versions -> VersionRow \cup {None}]
  BY DEF Writes, Commits, IInv, TypeOK
<1> DEFINE row == [current |-> q.version, updatedAt |-> q.row.createdAt, revision |-> n]
<1>3. /\ row \in HeadRow /\ row # None
      /\ row.current = q.version /\ row.updatedAt = q.row.createdAt /\ row.revision = n
  BY <1>1, RowsAssumption DEF HeadRow
<1>4. head' = [head EXCEPT ![q.agreement] = row] /\ head \in [Agreements -> HeadRow \cup {None}]
  BY DEF Writes, IInv, TypeOK
<1> HIDE DEF row, q
<1>5. head'[q.agreement] = row /\ \A a \in Agreements : a # q.agreement => head'[a] = head[a]
  BY <1>1, <1>4
<1>6. version'[q.version] = q.row /\ \A v \in Versions : v # q.version => version'[v] = version[v]
  BY <1>1, <1>2
<1> QED BY <1>1, <1>3, <1>5, <1>6 DEF q

LEMMA WrittenVersions ==
  ASSUME IInv, NEW r \in Requests, NEW n \in Nat, Writes(r, n), NEW a \in Agreements
  PROVE  VersionsOf(a)' = IF a = request[r].agreement THEN VersionsOf(a) \cup {request[r].version}
                          ELSE VersionsOf(a)
<1> DEFINE q == request[r]
<1>1. /\ q.version \in Versions /\ version[q.version] = None
      /\ q.row # None /\ q.row.agreement = q.agreement
  BY WriterHeld
<1>2. /\ version'[q.version] = q.row
      /\ \A v \in Versions : v # q.version => version'[v] = version[v]
  BY WrittenTables
<1> HIDE DEF q
<1>3. VersionsOf(a)' = IF a = q.agreement THEN VersionsOf(a) \cup {q.version} ELSE VersionsOf(a)
  BY <1>1, <1>2 DEF VersionsOf
<1> QED BY <1>3 DEF q

LEMMA WrittenTypes ==
  ASSUME IInv, NEW r \in Requests, NEW n \in Nat, Writes(r, n),
         members' \in [Agreements -> SUBSET Membership]
  PROVE  TypeOK'
<1> DEFINE q == request[r]
<1>1. /\ q \in Handler /\ q.agreement \in Agreements /\ q.version \in Versions
      /\ q.row \in VersionRow
  BY WriterHeld
<1>2. TypeOK
  BY DEF IInv
<1>3. clock' \in Nat
  BY <1>2 DEF Writes, Commits, TypeOK
<1>4. version' \in [Versions -> VersionRow \cup {None}]
  BY <1>1, <1>2 DEF Writes, Commits, TypeOK
<1>5. head' \in [Agreements -> HeadRow \cup {None}]
  <2>1. head'[q.agreement] \in HeadRow
    BY WrittenTables
  <2>2. head' = [head EXCEPT ![q.agreement] = head'[q.agreement]]
    BY <1>1, <1>2 DEF Writes, TypeOK
  <2> QED BY <1>2, <2>1, <2>2 DEF TypeOK
<1>6. audits' \subseteq AuditRow
  <2>1. AuditOf(q) \in AuditRow
    BY <1>1 DEF AuditOf, AuditRow, Handler, VersionRow
  <2> QED BY <1>2, <2>1 DEF Writes, Commits, Record, TypeOK
<1>7. idempotency' \subseteq IdempotencyRow
  <2>1. q.key # None => RecordOf(q) \in IdempotencyRow
    BY <1>1 DEF RecordOf, IdempotencyRow, Scope, Handler
  <2> QED BY <1>2, <2>1 DEF Writes, Commits, Record, TypeOK
<1>8. request' \in [Requests -> Handler \cup {None}]
  <2>1. Reply(q, "committed") \in Handler /\ Fails(q, "other") \in Handler
    BY <1>1 DEF Reply, Fails, Handler, Answer
  <2> QED BY <1>2, <2>1 DEF Writes, Commits, Goes, TypeOK
<1> QED BY <1>3, <1>4, <1>5, <1>6, <1>7, <1>8 DEF TypeOK

LEMMA WrittenKeys ==
  ASSUME IInv, NEW r \in Requests, NEW n \in Nat, Writes(r, n)
  PROVE  CommittedOncePerKey'
<1> DEFINE q == request[r]
<1>1. CASE q.key = None
  BY <1>1 DEF Writes, Commits, Record, IInv, CommittedOncePerKey
<1>2. CASE q.key # None
  <2>1. \A e \in idempotency : ~IsFor(e, q)
    BY <1>2 DEF Writes, KeyFree, Known
  <2>2. idempotency' = idempotency \cup {RecordOf(q)}
    BY <1>2 DEF Writes, Commits, Record
  <2>3. /\ RecordOf(q).actor = q.actor /\ RecordOf(q).operation = q.operation
        /\ RecordOf(q).scope = Scope(q) /\ RecordOf(q).key = q.key
    BY DEF RecordOf
  <2> HIDE DEF q
  <2>4. \A e \in idempotency :
          ~(/\ e.actor = RecordOf(q).actor /\ e.operation = RecordOf(q).operation
            /\ e.scope = RecordOf(q).scope /\ e.key = RecordOf(q).key)
    BY <2>1, <2>3 DEF IsFor
  <2> QED BY <2>2, <2>4 DEF IInv, CommittedOncePerKey
<1> QED BY <1>1, <1>2

LEMMA WrittenHandlers ==
  ASSUME IInv, NEW r \in Requests, NEW n \in Nat, Writes(r, n)
  PROVE  HandlersHold'
<1> DEFINE q == request[r]
<1>1. /\ q \in Handler /\ q # None /\ q.phase = "transact" /\ Held(q)
      /\ q.agreement \in Agreements /\ q.version \in Versions /\ version[q.version] = None
  BY WriterHeld
<1>2. /\ \A v \in Versions : v # q.version => version'[v] = version[v]
      /\ \A v \in Versions : version[v] # None => v # q.version
      /\ head'[q.agreement] # None /\ head'[q.agreement].current = q.version
      /\ \A a \in Agreements : a # q.agreement => head'[a] = head[a]
  BY WrittenTables
<1>3. clock' = clock
  BY DEF Writes, Commits
<1>4. PICK p \in {Reply(q, "committed"), Fails(q, "other")} : request' = [request EXCEPT ![r] = p]
  BY DEF Writes, Commits, Goes
<1>5. /\ p \in Handler /\ Held(p) /\ ~Built(p) /\ ~Pending(p) /\ p.version = q.version
      /\ p.operation = q.operation /\ p.agreement = q.agreement
  <2>1. p.phase \in {"answered", "caught"}
    BY <1>1 DEF Reply, Fails, Handler
  <2>2. ~Pending(p)
    BY <2>1 DEF Pending
  <2>3. CASE p = Reply(q, "committed")
    <3>1. "committed" \in Answer
      BY DEF Answer
    <3> HIDE DEF q
    <3> QED BY <1>1, <2>2, <2>3, <3>1, ReplyHolds
  <2>4. CASE p = Fails(q, "other")
    <3> HIDE DEF q
    <3> QED BY <1>1, <2>2, <2>4, FailsHolds
  <2> QED BY <2>3, <2>4
<1>6. request \in [Requests -> Handler \cup {None}]
  BY DEF IInv, TypeOK
<1> HIDE DEF q
<1>7. ASSUME NEW a \in Agreements, Exists(a)
      PROVE  Exists(a)'
  BY <1>2, <1>7 DEF Exists
<1>8. head'[p.agreement] # None
  BY <1>2, <1>5
<1>9. Held(request[r])'
  <2>1. request'[r] = p
    BY <1>4, <1>6
  <2>2. p.operation = "create" => CreatorPartyOf[p.actor] \in Parties /\ p.phase # "read"
    BY <1>5 DEF Held, CreateHeld
  <2> QED BY <1>5, <1>8, <2>1, <2>2 DEF Held, CreateHeld, UpdateHeld, Exists, Built, Pending
<1>10. ASSUME NEW s \in Requests, s # r, request[s] # None
       PROVE  Held(request[s])'
  <2> DEFINE h == request[s]
  <2>1. h \in Handler /\ Held(h) /\ Apart(q, h) /\ request'[s] = h
    BY <1>1, <1>4, <1>6, <1>10 DEF IInv, HandlersHold, q
  <2> HIDE DEF h
  <2>2. h.agreement \in Agreements /\ h.version \in Versions /\ h.version # q.version
    BY <2>1 DEF Handler, Apart
  <2>3. Built(h) => RowBuilt(h)
    BY <2>1 DEF Held
  <2>4. Pending(h) => version'[h.version] = None
    BY <1>2, <2>1, <2>2 DEF Held
  <2>5. ASSUME h.operation = "create", Built(h)
        PROVE  head'[h.agreement] = None
    <3>1. ~Exists(h.agreement)
      BY <2>1, <2>5 DEF Held, CreateHeld
    <3>2. h.agreement # q.agreement
      <4>1. CASE q.operation = "create"
        BY <1>1, <2>1, <2>5, <4>1 DEF Apart, Built
      <4>2. CASE q.operation = "update"
        BY <1>1, <3>1, <4>2 DEF Held, UpdateHeld
      <4> QED BY <1>1, <4>1, <4>2 DEF Handler, Operation
    <3> QED BY <1>2, <2>2, <3>1, <3>2 DEF Exists
  <2>6. ASSUME h.operation = "update"
        PROVE  /\ head'[h.agreement] # None
               /\ Built(h) =>
                    /\ h.row.previous \in Versions /\ version'[h.row.previous] # None
                    /\ h.row.previous = head'[h.agreement].current
                         => head'[h.agreement].updatedAt <= h.row.createdAt
    <3>1. UpdateHeld(h)
      BY <2>1, <2>6 DEF Held
    <3>2. head'[h.agreement] # None
      BY <1>7, <2>2, <3>1 DEF UpdateHeld, Exists
    <3>3. ASSUME Built(h)
          PROVE  /\ h.row.previous \in Versions /\ h.row.previous # q.version
                 /\ version'[h.row.previous] # None
      BY <1>2, <3>1, <3>3 DEF UpdateHeld
    <3>4. ASSUME Built(h), h.row.previous = head'[h.agreement].current
          PROVE  head'[h.agreement].updatedAt <= h.row.createdAt
      <4>1. head'[h.agreement] = head[h.agreement]
        BY <1>2, <2>2, <3>3, <3>4
      <4> QED BY <3>1, <3>4, <4>1 DEF UpdateHeld
    <3> QED BY <3>2, <3>3, <3>4
  <2>7. h.operation = "create" =>
          /\ CreatorPartyOf[h.actor] \in Parties /\ h.phase # "read"
          /\ Built(h) => h.row.number = 1 /\ h.row.previous = None
          /\ h.phase = "transact" => CreatorPartyOf[h.actor] \in PartiesOf[h.content]
    BY <2>1 DEF Held, CreateHeld
  <2> QED BY <1>3, <2>1, <2>3, <2>4, <2>5, <2>6, <2>7
       DEF Held, RowBuilt, CreateHeld, UpdateHeld, Exists, Built, Pending
<1>11. ASSUME NEW s \in Requests, NEW t \in Requests, s # t, request'[s] # None, request'[t] # None
       PROVE  Apart(request'[s], request'[t])
  <2>1. CASE s # r /\ t # r
    BY <1>4, <1>6, <1>11, <2>1 DEF IInv, HandlersHold
  <2>2. CASE s = r
    <3>1. Apart(q, request[t]) /\ request'[t] = request[t] /\ request'[r] = p
      BY <1>1, <1>4, <1>6, <1>11, <2>2 DEF IInv, HandlersHold, q
    <3> QED BY <1>5, <2>2, <3>1 DEF Apart
  <2>3. CASE t = r
    <3>1. Apart(request[s], q) /\ request'[s] = request[s] /\ request'[r] = p
      BY <1>1, <1>4, <1>6, <1>11, <2>3 DEF IInv, HandlersHold, q
    <3> QED BY <1>5, <2>3, <3>1 DEF Apart
  <2> QED BY <2>1, <2>2, <2>3
<1>12. \A s \in Requests : request'[s] # None => Held(request[s])'
  BY <1>4, <1>6, <1>9, <1>10
<1> QED BY <1>11, <1>12 DEF HandlersHold, Apart, Built

LEMMA WrittenRows ==
  ASSUME IInv, NEW r \in Requests, NEW n \in Nat, Writes(r, n)
  PROVE  RowsHold'
<1> DEFINE q == request[r]
<1>1. /\ q.agreement \in Agreements /\ q.version \in Versions
      /\ q.row.agreement = q.agreement /\ q.row.createdAt <= clock
  BY WriterHeld
<1>2. /\ version'[q.version] = q.row
      /\ \A v \in Versions : v # q.version => version'[v] = version[v]
      /\ head'[q.agreement] # None /\ head'[q.agreement].updatedAt = q.row.createdAt
      /\ \A a \in Agreements : a # q.agreement => head'[a] = head[a]
  BY WrittenTables
<1>3. clock' = clock
  BY DEF Writes, Commits
<1> HIDE DEF q
<1>4. ASSUME NEW v \in Versions, version'[v] # None
      PROVE  head'[version'[v].agreement] # None
  <2>1. CASE v = q.version
    BY <1>1, <1>2, <2>1
  <2>2. CASE v # q.version
    <3>1. version'[v] = version[v] /\ version[v] \in VersionRow /\ head[version[v].agreement] # None
      BY <1>2, <1>4, <2>2 DEF IInv, TypeOK, RowsHold, Exists
    <3>2. version[v].agreement \in Agreements
      BY <3>1 DEF VersionRow
    <3> QED BY <1>2, <3>1, <3>2
  <2> QED BY <2>1, <2>2
<1>5. ASSUME NEW a \in Agreements, head'[a] # None
      PROVE  head'[a].updatedAt <= clock'
  BY <1>1, <1>2, <1>3, <1>5 DEF IInv, RowsHold, Exists
<1> QED BY <1>4, <1>5 DEF RowsHold, Exists

\* The agreements the commit is not about.
LEMMA OtherAgreements ==
  ASSUME IInv, NEW r \in Requests, NEW n \in Nat, Writes(r, n),
         NEW a \in Agreements, a # request[r].agreement, Exists(a)'
  PROVE  /\ head'[a] = head[a] /\ Exists(a) /\ VersionsOf(a)' = VersionsOf(a)
         /\ head[a].current \in VersionsOf(a)
         /\ \A v \in VersionsOf(a) : version'[v] = version[v]
<1>1. head'[a] = head[a] /\ Exists(a)
  BY WrittenTables DEF Exists
<1>2. VersionsOf(a)' = VersionsOf(a)
  BY WrittenVersions
<1>3. \A v \in VersionsOf(a) : version'[v] = version[v]
  BY WrittenTables DEF VersionsOf
<1>4. head[a].current \in VersionsOf(a)
  BY <1>1 DEF IInv, HistoryIsAChain
<1> QED BY <1>1, <1>2, <1>3, <1>4

\* The chain of one agreement.
Chain(a) ==
  /\ head[a].current \in VersionsOf(a)
  /\ Number(head[a].current) = head[a].revision + 1
  /\ \A v \in VersionsOf(a) :
       /\ Number(v) <= Number(head[a].current)
       /\ Number(v) = 1 <=> version[v].previous = None
       /\ Number(v) > 1 =>
            /\ version[v].previous \in VersionsOf(a)
            /\ Number(version[v].previous) = Number(v) - 1
       /\ \A w \in VersionsOf(a) : Number(v) = Number(w) => v = w

LEMMA CreateChain ==
  ASSUME IInv, NEW r \in Requests, CommitCreate(r), NEW a \in Agreements, a = request[r].agreement
  PROVE  Chain(a)'
<1> DEFINE q == request[r]
<1>1. Writes(r, 0) /\ 0 \in Nat
  BY CreateWrites
<1>2. q.operation = "create" /\ q.phase = "transact"
  BY DEF CommitCreate, At
<1>3. /\ q.version \in Versions /\ q.row # None /\ Held(q)
      /\ version'[q.version] = q.row /\ head'[a].current = q.version /\ head'[a].revision = 0
  BY <1>1, WriterHeld, WrittenTables
<1>4. ~Exists(a) /\ q.row.number = 1 /\ q.row.previous = None
  BY <1>2, <1>3 DEF Held, CreateHeld, Built
<1>5. VersionsOf(a) = {}
  BY <1>4 DEF IInv, RowsHold, VersionsOf
<1>6. VersionsOf(a)' = {q.version}
  BY <1>1, <1>3, <1>5, WrittenVersions
<1> HIDE DEF q
<1>7. \A v \in VersionsOf(a)' : v = q.version
  BY <1>6
<1> QED BY <1>3, <1>4, <1>6, <1>7 DEF Chain, Number

LEMMA UpdateChain ==
  ASSUME IInv, NEW r \in Requests, CommitUpdate(r), NEW a \in Agreements, a = request[r].agreement
  PROVE  Chain(a)'
<1> DEFINE q == request[r]
<1>1. head[a] \in HeadRow /\ Writes(r, head[a].revision + 1) /\ head[a].revision + 1 \in Nat
  BY UpdateWrites DEF HeadRow
<1>2. Exists(a) /\ q.row.previous = head[a].current /\ q.row.number = Number(head[a].current) + 1
  BY DEF CommitUpdate, Fits, Claims, Number
<1>3. /\ q.version \in Versions /\ version[q.version] = None
      /\ version'[q.version] = q.row /\ head'[a].current = q.version
      /\ head'[a].revision = head[a].revision + 1
      /\ \A v \in Versions : v # q.version => version'[v] = version[v]
  BY <1>1, WriterHeld, WrittenTables
<1>4. VersionsOf(a)' = VersionsOf(a) \cup {q.version}
  BY <1>1, WrittenVersions
<1>5. Chain(a)
  BY <1>2 DEF IInv, HistoryIsAChain, Chain
<1>6. PICK last \in Versions, next \in Versions : last = head[a].current /\ next = q.version
  BY <1>1, <1>3 DEF HeadRow
<1> HIDE DEF q
<1>7. \A v \in VersionsOf(a) :
        /\ v \in Versions /\ v # next /\ version'[v] = version[v] /\ Number(v)' = Number(v)
        /\ Number(v) \in Nat /\ Number(v) >= 1
  BY <1>3, <1>6 DEF VersionsOf, Number, IInv, TypeOK, VersionRow
<1>8. last \in VersionsOf(a) /\ Number(last) = head[a].revision + 1 /\ Number(last) >= 1 /\ Number(last) \in Nat
  BY <1>5, <1>6, <1>7 DEF Chain
<1>9. /\ Number(next)' = Number(last) + 1 /\ version'[next].previous = last
      /\ VersionsOf(a)' = VersionsOf(a) \cup {next}
  BY <1>2, <1>3, <1>4, <1>6 DEF Number
<1>10. \A v \in VersionsOf(a) :
         /\ Number(v) <= Number(last)
         /\ Number(v) = 1 <=> version[v].previous = None
         /\ Number(v) > 1 =>
              /\ version[v].previous \in VersionsOf(a)
              /\ Number(version[v].previous) = Number(v) - 1
         /\ \A w \in VersionsOf(a) : Number(v) = Number(w) => v = w
  BY <1>5, <1>6 DEF Chain
<1>11. ASSUME NEW v \in VersionsOf(a)'
       PROVE  /\ Number(v)' <= Number(next)'
              /\ Number(v)' = 1 <=> version'[v].previous = None
              /\ Number(v)' > 1 =>
                   /\ version'[v].previous \in VersionsOf(a)'
                   /\ Number(version[v].previous)' = Number(v)' - 1
              /\ \A w \in VersionsOf(a)' : Number(v)' = Number(w)' => v = w
  <2>1. CASE v \in VersionsOf(a)
    <3>1. \A w \in VersionsOf(a)' : Number(v)' = Number(w)' => v = w
      BY <1>7, <1>8, <1>9, <1>10, <2>1
    <3>2. version'[v] = version[v] /\ Number(v)' = Number(v)
      BY <1>7, <2>1
    <3>3. Number(v) > 1 => Number(version[v].previous)' = Number(v) - 1
      <4> SUFFICES ASSUME Number(v) > 1 PROVE Number(version[v].previous)' = Number(v) - 1
        OBVIOUS
      <4>1. PICK u \in VersionsOf(a) : u = version[v].previous /\ Number(u) = Number(v) - 1
        BY <1>10, <2>1
      <4>2. Number(u)' = Number(u) /\ version'[v].previous = u
        BY <1>7, <3>2, <4>1
      <4> QED BY <4>1, <4>2 DEF Number
    <3> QED BY <1>7, <1>8, <1>9, <1>10, <2>1, <3>1, <3>2, <3>3
  <2>2. CASE v = next
    <3>1. last # None
      BY <1>6, VersionsAssumption
    <3>2. \A w \in VersionsOf(a)' : Number(v)' = Number(w)' => v = w
      BY <1>7, <1>8, <1>9, <1>10, <2>2
    <3>3. Number(last)' = Number(last) /\ last \in VersionsOf(a)'
      BY <1>7, <1>8, <1>9
    <3>4. Number(version[v].previous)' = Number(v)' - 1
      BY <1>8, <1>9, <2>2, <3>3 DEF Number
    <3> QED BY <1>8, <1>9, <2>2, <3>1, <3>2, <3>3, <3>4
  <2> QED BY <1>9, <2>1, <2>2
<1>12. /\ head'[a].current = next /\ next \in VersionsOf(a)'
       /\ Number(next)' = head'[a].revision + 1
  BY <1>1, <1>3, <1>6, <1>8, <1>9 DEF HeadRow
<1> QED BY <1>11, <1>12 DEF Chain, Number

LEMMA WrittenChain ==
  ASSUME IInv, NEW r \in Requests, CommitCreate(r) \/ CommitUpdate(r)
  PROVE  HistoryIsAChain'
<1>1. PICK n \in Nat : Writes(r, n)
  BY CreateWrites, UpdateWrites DEF HeadRow
<1>2. ASSUME NEW a \in Agreements, Exists(a)'
      PROVE  Chain(a)'
  <2>1. CASE a = request[r].agreement
    BY <2>1, CreateChain, UpdateChain
  <2>2. CASE a # request[r].agreement
    <3>1. /\ head'[a] = head[a] /\ Exists(a) /\ VersionsOf(a)' = VersionsOf(a)
          /\ head[a].current \in VersionsOf(a)
          /\ \A v \in VersionsOf(a) : version'[v] = version[v]
      BY <1>1, <1>2, <2>2, OtherAgreements
    <3>2. Chain(a)
      BY <3>1 DEF IInv, HistoryIsAChain, Chain
    <3>3. \A v \in VersionsOf(a) : Number(v) = 1 \/ Number(v) > 1
      BY DEF VersionsOf, Number, IInv, TypeOK, VersionRow
    <3> QED BY <3>1, <3>2, <3>3 DEF Chain, Number
  <2> QED BY <2>1, <2>2
<1> QED BY <1>2 DEF HistoryIsAChain, Chain

LEMMA WrittenParties ==
  ASSUME IInv, NEW r \in Requests, CommitCreate(r) \/ CommitUpdate(r)
  PROVE  members' \in [Agreements -> SUBSET Membership] /\ BoundPartiesPresent'
<1> DEFINE q == request[r]
<1>1. PICK n \in Nat : Writes(r, n)
  BY CreateWrites, UpdateWrites DEF HeadRow
<1>2. /\ q \in Handler /\ q.phase = "transact" /\ Held(q) /\ q.agreement \in Agreements
      /\ q.row.content = q.content
      /\ version'[q.version] = q.row /\ head'[q.agreement].current = q.version
  BY <1>1, WriterHeld, WrittenTables
<1>3. members \in [Agreements -> SUBSET Membership]
  BY DEF IInv, TypeOK
<1>4. ASSUME NEW a \in Agreements, a # q.agreement, Exists(a)', members'[a] = members[a],
             NEW m \in members'[a]
      PROVE  m.party \in PartiesOf[version'[head'[a].current].content]
  <2>1. /\ head'[a] = head[a] /\ Exists(a) /\ head[a].current \in VersionsOf(a)
        /\ \A v \in VersionsOf(a) : version'[v] = version[v]
    BY <1>1, <1>4, OtherAgreements
  <2>2. m.party \in PartiesOf[version[head[a].current].content]
    BY <1>4, <2>1 DEF IInv, BoundPartiesPresent
  <2> QED BY <2>1, <2>2
<1>5. CASE CommitCreate(r)
  <2> DEFINE owner == [account |-> q.actor, party |-> CreatorPartyOf[q.actor], role |-> "owner"]
  <2>1. members' = [members EXCEPT ![q.agreement] = {owner}] /\ q.operation = "create"
    BY <1>5 DEF CommitCreate
  <2>2. CreatorPartyOf[q.actor] \in Parties /\ CreatorPartyOf[q.actor] \in PartiesOf[q.content]
    BY <1>2, <2>1 DEF Held, CreateHeld
  <2>3. owner \in Membership /\ owner.party = CreatorPartyOf[q.actor]
    BY <1>2, <2>2 DEF Membership, Handler
  <2> HIDE DEF owner, q
  <2>4. members' \in [Agreements -> SUBSET Membership]
    BY <1>3, <2>1, <2>3
  <2>5. members'[q.agreement] = {owner} /\ \A a \in Agreements : a # q.agreement => members'[a] = members[a]
    BY <1>2, <1>3, <2>1
  <2>6. \A m \in members'[q.agreement] :
          m.party \in PartiesOf[version'[head'[q.agreement].current].content]
    BY <1>2, <2>2, <2>3, <2>5
  <2> QED BY <1>4, <2>4, <2>5, <2>6 DEF BoundPartiesPresent, Exists
<1>6. CASE CommitUpdate(r)
  <2>1. UNCHANGED members /\ KeepsBoundParties(q)
    BY <1>6 DEF CommitUpdate
  <2>2. \A m \in members'[q.agreement] :
          m.party \in PartiesOf[version'[head'[q.agreement].current].content]
    BY <1>2, <2>1 DEF KeepsBoundParties
  <2> HIDE DEF q
  <2> QED BY <1>3, <1>4, <2>1, <2>2 DEF BoundPartiesPresent, Exists
<1> QED BY <1>5, <1>6

LEMMA StepCommit ==
  ASSUME IInv, NEW r \in Requests, CommitCreate(r) \/ CommitUpdate(r)
  PROVE  IInv'
<1>1. PICK n \in Nat : Writes(r, n)
  BY CreateWrites, UpdateWrites DEF HeadRow
<1>2. TypeOK' /\ BoundPartiesPresent'
  BY <1>1, WrittenParties, WrittenTypes
<1>3. RowsHold' /\ HandlersHold' /\ CommittedOncePerKey'
  BY <1>1, WrittenRows, WrittenHandlers, WrittenKeys
<1> QED BY <1>2, <1>3, WrittenChain DEF IInv

-----------------------------------------------------------------------------
(* The invariant holds in every reachable state. *)

LEMMA StepInv == IInv /\ [Next]_vars => IInv'
<1> SUFFICES ASSUME IInv, [Next]_vars PROVE IInv'
  OBVIOUS
<1>1. CASE Tick
  BY <1>1, StepTick
<1>2. ASSUME NEW r \in Requests, Step(r)
      PROVE  IInv'
  <2>1. CASE Receive(r)
    BY <2>1, StepReceiveCreate, StepReceiveUpdate DEF Receive
  <2>2. CASE Read(r)
    BY <2>2, StepRead
  <2>3. CASE LookUp(r)
    BY <2>3, StepLookUp
  <2>4. CASE CommitCreate(r) \/ CommitUpdate(r)
    BY <2>4, StepCommit
  <2>5. CASE Conflict(r) \/ Throw(r) \/ Recover(r) \/ ReadFails(r)
    BY <2>5, StepAnswers
  <2>6. CASE End(r)
    BY <2>6, StepEnd
  <2> QED BY <1>2, <2>1, <2>2, <2>3, <2>4, <2>5, <2>6 DEF Step
<1>3. CASE UNCHANGED vars
  BY <1>3 DEF vars, tables, IInv, TypeOK, RowsHold, HandlersHold, Held, RowBuilt, CreateHeld,
              UpdateHeld, Apart, Built, Pending, HistoryIsAChain, VersionsOf, Number, Exists,
              BoundPartiesPresent, CommittedOncePerKey
<1> QED BY <1>1, <1>2, <1>3 DEF Next

LEMMA Invariance == Spec => []IInv
<1>1. Init => IInv
  BY InitInv
<1>2. IInv /\ [Next]_vars => IInv'
  BY StepInv
<1> QED BY <1>1, <1>2, PTL DEF Spec

\* Tables and handlers keep their shapes.
THEOREM TypeCorrect == Spec => []TypeOK
<1>1. IInv => TypeOK
  BY DEF IInv
<1> QED BY <1>1, Invariance, PTL

\* The versions of an agreement are a chain that ends in the current one, and
\* its revision counts them, although each was built from an earlier read.
THEOREM ChainHolds == Spec => []HistoryIsAChain
<1>1. IInv => HistoryIsAChain
  BY DEF IInv
<1> QED BY <1>1, Invariance, PTL

\* No update drops the party a member stands for.
THEOREM PartiesHold == Spec => []BoundPartiesPresent
<1>1. IInv => BoundPartiesPresent
  BY DEF IInv
<1> QED BY <1>1, Invariance, PTL

\* An idempotency key takes effect once, however many handlers race with it.
THEOREM OncePerKey == Spec => []CommittedOncePerKey
<1>1. IInv => CommittedOncePerKey
  BY DEF IInv
<1> QED BY <1>1, Invariance, PTL

-----------------------------------------------------------------------------
(* What a step may do to a head. *)

\* An agreement that exists changes when an update of it commits.
LEMMA HeadMoves ==
  ASSUME IInv, [Next]_vars, NEW a \in Agreements, Exists(a), head'[a] # head[a]
  PROVE  \E r \in Requests :
           /\ CommitUpdate(r) /\ request[r].agreement = a /\ request[r] # None
           /\ \E n \in Nat : Writes(r, n)
<1>1. head' # head
  OBVIOUS
<1>2. PICK r \in Requests : CommitCreate(r) \/ CommitUpdate(r)
  BY <1>1 DEF Next, Step, vars, tables, Tick, Receive, ReceiveCreate, ReceiveUpdate, Read, LookUp,
              Conflict, Throw, Recover, ReadFails, End
<1>3. PICK n \in Nat : Writes(r, n)
  BY <1>2, CreateWrites, UpdateWrites DEF HeadRow
<1>4. request[r].agreement = a
  BY <1>3, WrittenTables
<1>5. request[r] # None /\ Held(request[r]) /\ request[r].phase = "transact"
  BY <1>3, WriterHeld
<1>6. ~CommitCreate(r)
  BY <1>4, <1>5 DEF CommitCreate, Held, CreateHeld, Built
<1> QED BY <1>2, <1>3, <1>4, <1>5, <1>6

\* An agreement is revised only by a request sent against its current version.
THEOREM RevisesSeen == Spec => RevisesWhatWasSeen
<1> DEFINE Seen(a) == \E r \in Requests :
             /\ request[r] # None /\ request[r].expected = head[a].current
             /\ head'[a].current = request[r].version
<1>1. ASSUME IInv, [Next]_vars, NEW a \in Agreements, Exists(a), head'[a] # head[a]
      PROVE  Seen(a)
  <2>1. PICK r \in Requests : /\ CommitUpdate(r) /\ request[r].agreement = a /\ request[r] # None
                              /\ \E n \in Nat : Writes(r, n)
    BY <1>1, HeadMoves
  <2>2. request[r].expected = head[a].current
    BY <2>1 DEF CommitUpdate, Fits, Claims
  <2>3. head'[a].current = request[r].version
    BY <1>1, <2>1, WrittenTables
  <2> QED BY <2>1, <2>2, <2>3
<1>2. IInv /\ [Next]_vars =>
        [\A a \in Agreements : Exists(a) /\ head'[a] # head[a] => Seen(a)]_vars
  BY <1>1
<1> QED BY <1>2, Invariance, PTL DEF Spec, RevisesWhatWasSeen

\* The row a handler writes was stamped no earlier than the head it follows.
LEMMA HeadAges ==
  ASSUME IInv, [Next]_vars, NEW a \in Agreements, Exists(a)
  PROVE  /\ head[a].updatedAt \in Nat /\ head'[a].updatedAt \in Nat
         /\ head'[a].updatedAt >= head[a].updatedAt
<1>1. head[a].updatedAt \in Nat
  BY DEF IInv, TypeOK, HeadRow, Exists
<1>2. CASE head'[a] = head[a]
  BY <1>1, <1>2
<1>3. CASE head'[a] # head[a]
  <2>1. PICK r \in Requests : /\ CommitUpdate(r) /\ request[r].agreement = a /\ request[r] # None
                              /\ \E n \in Nat : Writes(r, n)
    BY <1>3, HeadMoves
  <2>2. /\ request[r].operation = "update" /\ request[r].phase = "transact" /\ Held(request[r])
        /\ request[r].row.createdAt \in Nat
    BY <2>1, WriterHeld DEF CommitUpdate
  <2>3. request[r].row.previous = head[a].current
    BY <2>1 DEF CommitUpdate, Fits
  <2>4. head[a].updatedAt <= request[r].row.createdAt
    BY <2>1, <2>2, <2>3 DEF Held, UpdateHeld, Built
  <2>5. head'[a].updatedAt = request[r].row.createdAt
    BY <2>1, WrittenTables
  <2> QED BY <1>1, <2>2, <2>4, <2>5
<1> QED BY <1>2, <1>3

\* The timestamp of a head never goes back, although handlers read the clock
\* before they write.
THEOREM UpdatedAtMonotone == Spec => UpdatedAtNeverGoesBack
<1>1. IInv /\ [Next]_vars =>
        [\A a \in Agreements : Exists(a) => head'[a].updatedAt >= head[a].updatedAt]_vars
  BY HeadAges
<1> QED BY <1>1, Invariance, PTL DEF Spec, UpdatedAtNeverGoesBack

-----------------------------------------------------------------------------
(* What is answered.  A second invariant, of the records and of what each    *)
(* handler may still answer, on top of the first.                            *)

Owned(actor, a) == Exists(a) /\ IsOwner(actor, a) /\ Revisable(a)

\* What was recorded would pass the checks again.
RecordsHold ==
  \A e \in idempotency :
    /\ e.operation = "create" => CreatorPartyOf[e.actor] \in PartiesOf[e.content]
    /\ e.operation = "update" => e.scope \in Agreements /\ Owned(e.actor, e.scope)

\* A create that is refused will never find itself done: its key names another
\* request, or its terms leave its own party out.
CreateAnswered(q) ==
  \/ q.answer \in {"committed", "replayed", "error"}
  \/ q.answer = "idempotency_conflict" /\ Known(q) /\ ~Done(q)
  \/ q.answer = "duplicate" /\ CreatorPartyOf[q.actor] \notin PartiesOf[q.content]

Answered(q) ==
  /\ q.operation = "update" /\ Built(q) =>
       Owned(q.actor, q.agreement) /\ q.row.state \in {"draft", "proposed"}
  /\ q.phase = "caught" /\ q.error = "unique" => Known(q)
  /\ q.retried =>
       /\ Done(q) /\ q.phase \notin {"transact", "caught"}
       /\ q.phase = "answered" => q.answer \in {"replayed", "error"}
  /\ q.operation = "create" /\ q.phase = "answered" => CreateAnswered(q)

AnswersHold ==
  /\ RecordsHold
  /\ \A r \in Requests : request[r] # None => Answered(request[r])

\* What a step leaves standing of the records and of who may revise what.
TablesGrow ==
  /\ idempotency \subseteq idempotency'
  /\ \A a \in Agreements : \A actor : Owned(actor, a) => Owned(actor, a)'
  /\ \A e \in idempotency' \ idempotency, f \in idempotency :
       ~ (/\ e.actor = f.actor /\ e.operation = f.operation
          /\ e.scope = f.scope /\ e.key = f.key)

LEMMA QuietGrowth ==
  ASSUME UNCHANGED tables PROVE TablesGrow
BY DEF tables, TablesGrow, Owned, Exists, IsOwner, Revisable

\* A commit appends a version in the state of the one it follows, and a record
\* whose key was free.
LEMMA WrittenGrowth ==
  ASSUME IInv, AnswersHold, NEW r \in Requests, CommitCreate(r) \/ CommitUpdate(r)
  PROVE  TablesGrow
<1> PICK q : q = request[r]
  OBVIOUS
<1>1. PICK n \in Nat : Writes(r, n)
  BY CreateWrites, UpdateWrites DEF HeadRow
<1>2. /\ q \in Handler /\ q # None /\ q.phase = "transact" /\ Held(q)
      /\ q.agreement \in Agreements
  BY <1>1, WriterHeld
<1>3. idempotency \subseteq idempotency'
  BY <1>1 DEF Writes, Commits, Record
<1>4. ASSUME NEW e \in idempotency' \ idempotency, NEW f \in idempotency,
             e.actor = f.actor, e.operation = f.operation, e.scope = f.scope, e.key = f.key
      PROVE  FALSE
  <2>1. q.key # None /\ e = RecordOf(q)
    BY <1>1, <1>4 DEF Writes, Commits, Record
  <2>2. ~Known(q)
    BY <1>1, <2>1 DEF Writes, KeyFree
  <2>3. e.actor = q.actor /\ e.operation = q.operation /\ e.scope = Scope(q) /\ e.key = q.key
    BY <2>1 DEF RecordOf
  <2>4. IsFor(f, q)
    BY <1>4, <2>3 DEF IsFor
  <2> QED BY <2>2, <2>4 DEF Known
<1>5. ASSUME NEW a \in Agreements, NEW actor, Owned(actor, a)
      PROVE  Owned(actor, a)'
  <2>1. CASE a # q.agreement
    <3>1. head'[a] = head[a] /\ Exists(a)'
      BY <1>1, <1>5, <2>1, WrittenTables DEF Owned, Exists
    <3>2. head[a].current \in VersionsOf(a) /\ \A v \in VersionsOf(a) : version'[v] = version[v]
      BY <1>1, <2>1, <3>1, OtherAgreements
    <3>3. members'[a] = members[a]
      BY <1>2, <2>1 DEF CommitCreate, CommitUpdate, IInv, TypeOK
    <3> QED BY <1>5, <3>1, <3>2, <3>3 DEF Owned, IsOwner, Revisable
  <2>2. CASE a = q.agreement
    <3>1. ~CommitCreate(r)
      BY <1>2, <1>5, <2>2 DEF CommitCreate, Owned, Held, CreateHeld, Built
    <3>2. CommitUpdate(r) /\ q.operation = "update"
      BY <3>1 DEF CommitUpdate
    <3>3. q.row.state \in {"draft", "proposed"}
      BY <1>2, <3>2 DEF AnswersHold, Answered, Built
    <3>4. head'[a] # None /\ version'[head'[a].current] = q.row
      BY <1>1, <2>2, WrittenTables
    <3>5. members' = members
      BY <3>2 DEF CommitUpdate
    <3> QED BY <1>5, <3>3, <3>4, <3>5 DEF Owned, Exists, IsOwner, Revisable
  <2> QED BY <2>1, <2>2
<1> QED BY <1>3, <1>4, <1>5 DEF TablesGrow

\* What a handler may answer outlives the steps of the others.
LEMMA AnsweredStays ==
  ASSUME TablesGrow, NEW q \in Handler, Answered(q)
  PROVE  Answered(q)'
<1>1. Known(q) => Known(q)'
  BY DEF TablesGrow, Known
<1>2. Done(q) => Done(q)'
  BY DEF TablesGrow, Done
<1>3. Known(q) /\ ~Done(q) => ~Done(q)'
  BY DEF TablesGrow, Known, Done, IsFor
<1>4. \A actor : Owned(actor, q.agreement) => Owned(actor, q.agreement)'
  BY DEF TablesGrow, Handler
<1>5. CreateAnswered(q) => CreateAnswered(q)'
  BY <1>1, <1>3 DEF CreateAnswered
<1> QED BY <1>1, <1>2, <1>4, <1>5 DEF Answered

LEMMA RecordsStay ==
  ASSUME RecordsHold, TablesGrow, UNCHANGED idempotency PROVE RecordsHold'
BY DEF RecordsHold, TablesGrow

\* A handler goes on, and no record is written.
LEMMA AnswersStay ==
  ASSUME IInv, AnswersHold, NEW r \in Requests, NEW q, Goes(r, q), UNCHANGED tables,
         q # None => Answered(q)
  PROVE  AnswersHold'
<1>1. TablesGrow /\ RecordsHold'
  BY QuietGrowth, RecordsStay DEF AnswersHold, tables
<1>2. ASSUME NEW s \in Requests, NEW p, p = request'[s], p # None
      PROVE  Answered(p)'
  <2>1. CASE s = r
    <3>1. p = q /\ Answered(q)
      BY <1>2, <2>1 DEF Goes, IInv, TypeOK
    <3> QED BY <3>1 DEF tables, Answered, Owned, Exists, IsOwner, Revisable, Known, Done, CreateAnswered
  <2>2. CASE s # r
    <3>1. p = request[s] /\ p \in Handler
      BY <1>2, <2>2 DEF Goes, IInv, TypeOK
    <3> QED BY <1>1, <1>2, <3>1, AnsweredStays DEF AnswersHold
  <2> QED BY <2>1, <2>2
<1> QED BY <1>1, <1>2 DEF AnswersHold

\* Two handlers that ask the same find the same records.
LEMMA SameRequest ==
  ASSUME NEW p, NEW q, p.actor = q.actor, p.operation = q.operation, p.key = q.key,
         p.agreement = q.agreement, p.content = q.content, p.expected = q.expected
  PROVE  (Known(p) <=> Known(q)) /\ (Done(p) <=> Done(q))
BY DEF Known, Done, IsFor, SameBody, Scope

\* A handler ends in an answer, or fails, with what it was asked.
LEMMA ReplyKeeps ==
  ASSUME NEW q \in Handler, NEW answer, NEW p, p = Reply(q, answer)
  PROVE  /\ p.phase = "answered" /\ p.answer = answer
         /\ p.actor = q.actor /\ p.operation = q.operation /\ p.key = q.key
         /\ p.agreement = q.agreement /\ p.content = q.content
         /\ p.expected = q.expected /\ p.retried = q.retried
BY DEF Reply, Handler

LEMMA FailKeeps ==
  ASSUME NEW q \in Handler, NEW error, NEW p, p = Fails(q, error)
  PROVE  /\ p.phase = "caught" /\ p.error = error
         /\ p.actor = q.actor /\ p.operation = q.operation /\ p.key = q.key
         /\ p.agreement = q.agreement /\ p.content = q.content
         /\ p.expected = q.expected /\ p.retried = q.retried
BY DEF Fails, Handler

\* What it takes for a reply to be a right one.
LEMMA ReplyAnswers ==
  ASSUME IInv, AnswersHold, NEW r \in Requests, NEW q \in Handler, q = request[r],
         NEW answer \in Answer, Goes(r, Reply(q, answer)), UNCHANGED tables,
         q.retried => Done(q) /\ answer \in {"replayed", "error"},
         q.operation = "create" =>
           \/ answer \in {"committed", "replayed", "error"}
           \/ answer = "idempotency_conflict" /\ Known(q) /\ ~Done(q)
           \/ answer = "duplicate" /\ CreatorPartyOf[q.actor] \notin PartiesOf[q.content]
  PROVE  AnswersHold'
<1> PICK p : p = Reply(q, answer)
  OBVIOUS
<1>1. /\ p.phase = "answered" /\ p.answer = answer
      /\ p.actor = q.actor /\ p.operation = q.operation /\ p.key = q.key
      /\ p.agreement = q.agreement /\ p.content = q.content
      /\ p.expected = q.expected /\ p.retried = q.retried
  BY ReplyKeeps
<1>2. (Known(p) <=> Known(q)) /\ (Done(p) <=> Done(q))
  BY <1>1, SameRequest
<1>3. Answered(p)
  BY <1>1, <1>2 DEF Answered, CreateAnswered, Built
<1> QED BY <1>3, AnswersStay

LEMMA FailAnswers ==
  ASSUME IInv, AnswersHold, NEW r \in Requests, NEW q \in Handler, q = request[r],
         NEW error \in {"unique", "other"}, Goes(r, Fails(q, error)), UNCHANGED tables,
         ~q.retried, error = "unique" => Known(q)
  PROVE  AnswersHold'
<1> PICK p : p = Fails(q, error)
  OBVIOUS
<1>1. /\ p.phase = "caught" /\ p.error = error
      /\ p.actor = q.actor /\ p.operation = q.operation /\ p.key = q.key
      /\ p.agreement = q.agreement /\ p.content = q.content
      /\ p.expected = q.expected /\ p.retried = q.retried
  BY FailKeeps
<1>2. Known(p) <=> Known(q)
  BY <1>1, SameRequest
<1>3. Answered(p)
  BY <1>1, <1>2 DEF Answered, Built
<1> QED BY <1>3, AnswersStay

LEMMA NewHandlerAnswered ==
  ASSUME NEW operation, NEW actor, NEW key, NEW a, NEW content, NEW expected, NEW v,
         NEW q, q = NewHandler(operation, actor, key, a, content, expected, v)
  PROVE  /\ q.phase = "read" /\ q.operation = operation
         /\ q.retried => Done(q)
<1> PICK base : base = [phase |-> "read", operation |-> operation, actor |-> actor, key |-> key,
                    agreement |-> a, content |-> content, expected |-> expected, version |-> v,
                    row |-> None, error |-> None, answer |-> None, retried |-> FALSE]
  OBVIOUS
<1> PICK done : done = Done(base)
  OBVIOUS
<1>1. q = [base EXCEPT !.retried = done]
  BY DEF NewHandler
<1>2. /\ q.phase = "read" /\ q.operation = operation /\ q.retried = done
      /\ q.actor = base.actor /\ q.operation = base.operation /\ q.key = base.key
      /\ q.agreement = base.agreement /\ q.content = base.content /\ q.expected = base.expected
  BY <1>1
<1>3. Done(q) <=> Done(base)
  BY <1>2, SameRequest
<1> QED BY <1>1, <1>2, <1>3

LEMMA ReceiveAnswers ==
  ASSUME IInv, AnswersHold, NEW r \in Requests, Receive(r)
  PROVE  AnswersHold'
<1>1. PICK actor \in Accounts, key \in Keys \cup {None}, content \in Contents :
        \/ ReceiveCreate(r, actor, key, content)
        \/ \E a \in Agreements, expected \in Versions :
             ReceiveUpdate(r, actor, key, a, expected, content)
  BY DEF Receive
<1>2. UNCHANGED tables
  BY <1>1 DEF ReceiveCreate, ReceiveUpdate
<1>3. CASE ReceiveCreate(r, actor, key, content)
  <2>1. PICK a \in Agreements, v \in Versions :
          Goes(r, [NewHandler("create", actor, key, a, content, None, v) EXCEPT
                     !.phase = "lookup",
                     !.row = [agreement |-> a, number |-> 1, previous |-> None,
                              state |-> "draft", content |-> content, createdAt |-> clock]])
    BY <1>3 DEF ReceiveCreate
  <2>2. PICK base : base = NewHandler("create", actor, key, a, content, None, v)
    OBVIOUS
  <2>3. PICK row : row = [agreement |-> a, number |-> 1, previous |-> None,
                          state |-> "draft", content |-> content, createdAt |-> clock]
    OBVIOUS
  <2>4. PICK q : q = [base EXCEPT !.phase = "lookup", !.row = row]
    OBVIOUS
  <2>5. "create" \in Operation /\ None \in Versions \cup {None}
    BY DEF Operation
  <2>6. base \in Handler
    BY <2>2, <2>5, NewHandlerType
  <2>7. base.phase = "read" /\ base.operation = "create" /\ (base.retried => Done(base))
    BY <2>2, <2>5, NewHandlerAnswered
  <2>8. /\ q.phase = "lookup" /\ q.operation = base.operation /\ q.retried = base.retried
        /\ q.actor = base.actor /\ q.key = base.key /\ q.agreement = base.agreement
        /\ q.content = base.content /\ q.expected = base.expected
    BY <2>4, <2>6 DEF Handler
  <2>9. Done(q) <=> Done(base)
    BY <2>8, SameRequest
  <2>10. Answered(q)
    BY <2>7, <2>8, <2>9 DEF Answered
  <2> QED BY <1>2, <2>1, <2>2, <2>3, <2>4, <2>10, AnswersStay
<1>4. ASSUME NEW a \in Agreements, NEW expected \in Versions,
             ReceiveUpdate(r, actor, key, a, expected, content)
      PROVE  AnswersHold'
  <2>1. PICK v \in Versions : Goes(r, NewHandler("update", actor, key, a, content, expected, v))
    BY <1>4 DEF ReceiveUpdate
  <2> PICK q : q = NewHandler("update", actor, key, a, content, expected, v)
    OBVIOUS
  <2>2. q.phase = "read" /\ q.operation = "update" /\ (q.retried => Done(q))
    BY NewHandlerAnswered DEF Operation
  <2>3. Answered(q)
    BY <2>2 DEF Answered, Built
  <2> QED BY <1>2, <2>1, <2>3, AnswersStay
<1> QED BY <1>1, <1>3, <1>4

\* A retry finds its actor still the owner, and the agreement still revisable.
LEMMA ReadAnswers ==
  ASSUME IInv, AnswersHold, NEW r \in Requests, Read(r)
  PROVE  AnswersHold'
<1> PICK q : q = request[r]
  OBVIOUS
<1>1. /\ q \in Handler /\ q # None /\ q.phase = "read" /\ Held(q) /\ Answered(q)
      /\ UNCHANGED tables
  BY DEF IInv, TypeOK, HandlersHold, AnswersHold, Read, At
<1>2. q.operation = "update" /\ Exists(q.agreement) /\ q.agreement \in Agreements
  BY <1>1 DEF Held, CreateHeld, UpdateHeld, Handler, Operation
<1>3. CASE ~(IsOwner(q.actor, q.agreement) /\ Revisable(q.agreement))
  <2>1. Goes(r, Reply(q, "refused"))
    BY <1>3 DEF Read
  <2>2. ~q.retried
    <3>1. Done(q) => Owned(q.actor, q.agreement)
      BY <1>2 DEF Done, IsFor, Scope, AnswersHold, RecordsHold
    <3> QED BY <1>1, <1>3, <3>1 DEF Answered, Owned
  <2> QED BY <1>1, <1>2, <2>1, <2>2, ReplyAnswers DEF Answer
<1>4. CASE IsOwner(q.actor, q.agreement) /\ Revisable(q.agreement)
  <2>1. PICK row : row = Successor(q.agreement, q.content)
    OBVIOUS
  <2>2. PICK p : p = [q EXCEPT !.phase = "lookup", !.row = row]
    OBVIOUS
  <2>3. Goes(r, p)
    BY <1>4, <2>1, <2>2 DEF Read
  <2>4. row.state \in {"draft", "proposed"}
    BY <1>4, <2>1 DEF Successor, Revisable
  <2>5. /\ p.phase = "lookup" /\ p.operation = q.operation /\ p.retried = q.retried
        /\ p.actor = q.actor /\ p.key = q.key /\ p.agreement = q.agreement
        /\ p.content = q.content /\ p.expected = q.expected /\ p.row = row
    BY <1>1, <2>2 DEF Handler
  <2>6. Done(p) <=> Done(q)
    BY <2>5, SameRequest
  <2>7. Answered(p)
    BY <1>1, <1>2, <1>4, <2>4, <2>5, <2>6 DEF Answered, Owned
  <2> QED BY <1>1, <2>3, <2>7, AnswersStay
<1> QED BY <1>3, <1>4

LEMMA LookUpAnswers ==
  ASSUME IInv, AnswersHold, NEW r \in Requests, LookUp(r)
  PROVE  AnswersHold'
<1> PICK q : q = request[r]
  OBVIOUS
<1>1. /\ q \in Handler /\ q # None /\ q.phase = "lookup" /\ Answered(q) /\ UNCHANGED tables
  BY DEF IInv, TypeOK, AnswersHold, LookUp, At
<1>2. (q.retried => Done(q)) /\ (Done(q) => Known(q))
  BY <1>1 DEF Answered, Done, Known
<1>3. CASE Known(q)
  <2>1. /\ FirstAnswer(q) = PriorAnswer(q) /\ FirstAnswer(q) \in Answer
        /\ PriorAnswer(q) = IF Done(q) THEN "replayed" ELSE "idempotency_conflict"
    BY <1>3 DEF FirstAnswer, PriorAnswer, Answer
  <2>2. Goes(r, Reply(q, PriorAnswer(q)))
    BY <2>1, RowsAssumption DEF LookUp
  <2> QED BY <1>1, <1>2, <1>3, <2>1, <2>2, ReplyAnswers
<1>4. CASE ~Known(q) /\ FirstAnswer(q) # None
  <2>1. /\ q.operation = "create" /\ CreatorPartyOf[q.actor] \notin PartiesOf[q.content]
        /\ FirstAnswer(q) = "duplicate"
    BY <1>4 DEF FirstAnswer
  <2>2. Goes(r, Reply(q, "duplicate"))
    BY <1>4, <2>1 DEF LookUp
  <2> QED BY <1>1, <1>2, <1>4, <2>1, <2>2, ReplyAnswers DEF Answer
<1>5. CASE ~Known(q) /\ FirstAnswer(q) = None
  <2> PICK p : p = [q EXCEPT !.phase = "transact"]
    OBVIOUS
  <2>1. Goes(r, p)
    BY <1>5 DEF LookUp
  <2>2. /\ p.phase = "transact" /\ p.operation = q.operation /\ p.retried = q.retried
        /\ p.actor = q.actor /\ p.agreement = q.agreement /\ p.row = q.row
    BY <1>1 DEF Handler
  <2>3. Answered(p)
    BY <1>1, <1>2, <1>5, <2>2 DEF Answered, Built
  <2> QED BY <1>1, <2>1, <2>3, AnswersStay
<1> QED BY <1>3, <1>4, <1>5

\* A transaction that fails for its key leaves a record to be found.
LEMMA LastAnswers ==
  ASSUME IInv, AnswersHold, NEW r \in Requests,
         Conflict(r) \/ Throw(r) \/ Recover(r) \/ ReadFails(r) \/ End(r)
  PROVE  AnswersHold'
<1> PICK q : q = request[r]
  OBVIOUS
<1>1. /\ q \in Handler /\ q # None /\ Answered(q) /\ UNCHANGED tables
  BY DEF IInv, TypeOK, AnswersHold, Conflict, Throw, Recover, ReadFails, End, At
<1>2. CASE Conflict(r)
  <2>1. q.phase = "transact" /\ q.operation = "update" /\ Goes(r, Reply(q, "version_conflict"))
    BY <1>2 DEF Conflict, At
  <2> QED BY <1>1, <2>1, ReplyAnswers DEF Answered, Answer
<1>3. CASE Throw(r)
  <2>1. q.phase = "transact"
    BY <1>3 DEF Throw, At
  <2>2. ~q.retried
    BY <1>1, <2>1 DEF Answered
  <2>3. (Goes(r, Fails(q, "unique")) /\ Known(q)) \/ Goes(r, Fails(q, "other"))
    BY <1>3 DEF Throw, KeyFree
  <2> QED BY <1>1, <2>2, <2>3, FailAnswers
<1>4. CASE Recover(r)
  <2>1. q.phase = "caught" /\ Goes(r, Reply(q, SecondAnswer(q)))
    BY <1>4 DEF Recover, At
  <2>2. ~q.retried /\ (q.error = "unique" => Known(q))
    BY <1>1, <2>1 DEF Answered
  <2>3. \/ SecondAnswer(q) \in {"replayed", "error"}
        \/ SecondAnswer(q) = "idempotency_conflict" /\ Known(q) /\ ~Done(q)
    BY <2>2 DEF SecondAnswer, PriorAnswer, AnswerOfError
  <2>4. SecondAnswer(q) \in Answer
    BY <2>3 DEF Answer
  <2> QED BY <1>1, <2>1, <2>2, <2>3, <2>4, ReplyAnswers
<1>5. CASE ReadFails(r)
  BY <1>1, <1>5, ReplyAnswers DEF ReadFails, Answer, Answered
<1>6. CASE End(r)
  BY <1>6, AnswersStay DEF End
<1> QED BY <1>2, <1>3, <1>4, <1>5, <1>6

LEMMA CommitAnswers ==
  ASSUME IInv, AnswersHold, NEW r \in Requests, CommitCreate(r) \/ CommitUpdate(r)
  PROVE  AnswersHold'
<1> PICK q : q = request[r]
  OBVIOUS
<1>1. TablesGrow
  BY WrittenGrowth
<1>2. PICK n \in Nat : Writes(r, n)
  BY CreateWrites, UpdateWrites DEF HeadRow
<1>3. /\ q \in Handler /\ q # None /\ q.phase = "transact" /\ Held(q)
      /\ q.agreement \in Agreements /\ Answered(q)
  BY <1>2, WriterHeld DEF AnswersHold
<1>4. RecordsHold'
  <2> SUFFICES ASSUME NEW e \in idempotency'
               PROVE  /\ e.operation = "create" => CreatorPartyOf[e.actor] \in PartiesOf[e.content]
                      /\ e.operation = "update" => e.scope \in Agreements /\ Owned(e.actor, e.scope)'
    BY DEF RecordsHold
  <2>1. CASE e \in idempotency
    BY <1>1, <2>1 DEF AnswersHold, RecordsHold, TablesGrow
  <2>2. CASE e \notin idempotency
    <3>1. e = RecordOf(q)
      BY <1>2, <2>2 DEF Writes, Commits, Record
    <3>2. /\ e.operation = q.operation /\ e.actor = q.actor /\ e.content = q.content
          /\ q.operation = "update" => e.scope = q.agreement
      BY <3>1 DEF RecordOf, Scope
    <3>3. q.operation = "create" => CreatorPartyOf[q.actor] \in PartiesOf[q.content]
      BY <1>3 DEF Held, CreateHeld
    <3>4. q.operation = "update" => Owned(q.actor, q.agreement)'
      BY <1>1, <1>3 DEF Answered, Built, TablesGrow
    <3> QED BY <1>3, <3>2, <3>3, <3>4
  <2> QED BY <2>1, <2>2
<1>5. ASSUME NEW s \in Requests, NEW p, p = request'[s], p # None
      PROVE  Answered(p)'
  <2>1. CASE s = r
    <3>1. p = Reply(q, "committed") \/ p = Fails(q, "other")
      BY <1>2, <1>5, <2>1 DEF Writes, Commits, Goes, IInv, TypeOK
    <3>2. /\ \/ p.phase = "answered" /\ p.answer = "committed"
             \/ p.phase = "caught" /\ p.error = "other"
          /\ p.retried = q.retried /\ p.operation = q.operation
      BY <1>3, <3>1, ReplyKeeps, FailKeeps
    <3>3. ~q.retried
      BY <1>3 DEF Answered
    <3> QED BY <3>2, <3>3 DEF Answered, CreateAnswered, Built
  <2>2. CASE s # r
    <3>1. p = request[s] /\ p \in Handler
      BY <1>2, <1>5, <2>2 DEF Writes, Commits, Goes, IInv, TypeOK
    <3> QED BY <1>1, <1>5, <3>1, AnsweredStays DEF AnswersHold
  <2> QED BY <2>1, <2>2
<1> QED BY <1>4, <1>5 DEF AnswersHold

LEMMA AnswersInvariance == Spec => []AnswersHold
<1>1. Init => AnswersHold
  BY DEF Init, AnswersHold, RecordsHold
<1>2. IInv /\ AnswersHold /\ [Next]_vars => AnswersHold'
  <2> SUFFICES ASSUME IInv, AnswersHold, [Next]_vars PROVE AnswersHold'
    OBVIOUS
  <2>1. ASSUME NEW r \in Requests, Step(r) PROVE AnswersHold'
    BY <2>1, ReceiveAnswers, ReadAnswers, LookUpAnswers, LastAnswers, CommitAnswers DEF Step
  <2>2. CASE UNCHANGED <<tables, request>>
    <3>1. RecordsHold'
      BY <2>2, QuietGrowth, RecordsStay DEF AnswersHold, tables
    <3>2. ASSUME NEW s \in Requests, NEW p, p = request'[s], p # None
          PROVE  Answered(p)'
      BY <2>2, <3>2, QuietGrowth, AnsweredStays DEF AnswersHold, IInv, TypeOK
    <3> QED BY <3>1, <3>2 DEF AnswersHold
  <2> QED BY <2>1, <2>2 DEF Next, Tick, vars
<1> QED BY <1>1, <1>2, Invariance, PTL DEF Spec

\* A command that had committed when its retry came in is answered as a replay
\* (or not at all), whatever became of the agreement since.
THEOREM RetryAnswered == Spec => []RetryIsReplayed
<1>1. AnswersHold => RetryIsReplayed
  BY DEF AnswersHold, Answered, RetryIsReplayed, At
<1> QED BY <1>1, AnswersInvariance, PTL

\* The same create in two handlers converges on one write, and neither is told
\* that it was refused.
THEOREM CreatesConverge == Spec => []CreateTwinsConverge
<1>1. AnswersHold => CreateTwinsConverge
  <2> SUFFICES ASSUME AnswersHold, NEW r \in Requests, At(r, "answered"),
                      request[r].operation = "create", Done(request[r])
               PROVE  request[r].answer \in {"committed", "replayed", "error"}
    BY DEF CreateTwinsConverge, TwinsConverge
  <2>1. CreateAnswered(request[r])
    BY DEF AnswersHold, Answered, At
  <2>2. CreatorPartyOf[request[r].actor] \in PartiesOf[request[r].content]
    BY DEF AnswersHold, RecordsHold, Done, IsFor, SameBody
  <2> QED BY <2>1, <2>2 DEF CreateAnswered
<1> QED BY <1>1, AnswersInvariance, PTL

-----------------------------------------------------------------------------
(* The service implements a numbered, append-only history. *)

EntryOf(v) == [number |-> Number(v), version |-> v, content |-> version[v].content]

LEMMA HistoryOf ==
  ASSUME NEW a \in Agreements
  PROVE  History[a] = {EntryOf(v) : v \in VersionsOf(a)}
BY DEF History, EntryOf

LEMMA InitHistory == Init => Abstract!Init
<1> SUFFICES ASSUME Init, NEW a \in Agreements
             PROVE  \/ History[a] = {}
                    \/ \E v \in Versions, content \in Contents :
                         History[a] = {Abstract!Entry(1, v, content)}
  BY DEF Abstract!Init
<1>1. CASE Seed[a] = None
  BY <1>1, SeededHistory, HistoryOf
<1>2. CASE Seed[a] # None
  <2>1. Seed[a].version \in Versions /\ Seed[a].content \in Contents
    BY <1>2, SeedRows DEF SeedRow
  <2>2. VersionsOf(a) = {Seed[a].version} /\ version[Seed[a].version] = SeedVersionRow(a)
    BY <1>2, SeededHistory
  <2>3. EntryOf(Seed[a].version) = Abstract!Entry(1, Seed[a].version, Seed[a].content)
    BY <2>2 DEF EntryOf, Number, SeedVersionRow, Abstract!Entry
  <2>4. History[a] = {EntryOf(Seed[a].version)}
    BY <2>2, HistoryOf
  <2> QED BY <2>1, <2>3, <2>4
<1> QED BY <1>1, <1>2

\* A commit adds one entry to one history.
LEMMA WrittenHistory ==
  ASSUME IInv, NEW r \in Requests, NEW n \in Nat, Writes(r, n)
  PROVE  LET q == request[r] IN
         History' = [History EXCEPT ![q.agreement] =
                       @ \cup {Abstract!Entry(q.row.number, q.version, q.content)}]
<1> DEFINE q == request[r]
           entry == Abstract!Entry(q.row.number, q.version, q.content)
<1>1. /\ q.agreement \in Agreements /\ q.version \in Versions
      /\ q.row.content = q.content /\ version'[q.version] = q.row
      /\ \A v \in Versions : v # q.version => version'[v] = version[v]
      /\ \A v \in Versions : version[v] # None => v # q.version
  BY WriterHeld, WrittenTables
<1>2. PICK b \in Agreements, next \in Versions : b = q.agreement /\ next = q.version
  BY <1>1
<1>3. EntryOf(next)' = entry
  BY <1>1, <1>2 DEF EntryOf, Number, Abstract!Entry
<1>4. \A a \in Agreements : \A v \in VersionsOf(a) : EntryOf(v)' = EntryOf(v)
  BY <1>1 DEF VersionsOf, EntryOf, Number
<1>5. \A a \in Agreements :
        VersionsOf(a)' = IF a = b THEN VersionsOf(a) \cup {next} ELSE VersionsOf(a)
  BY <1>2, WrittenVersions
<1>6. \A a \in Agreements : History'[a] = {EntryOf(v)' : v \in VersionsOf(a)'}
  BY DEF History, EntryOf
<1> HIDE DEF entry, q
<1>7. \A a \in Agreements : History'[a] = IF a = b THEN History[a] \cup {entry} ELSE History[a]
  <2> TAKE a \in Agreements
  <2>1. History'[a] = {EntryOf(v)' : v \in VersionsOf(a)'}
    BY <1>6
  <2>2. History[a] = {EntryOf(v) : v \in VersionsOf(a)}
    BY HistoryOf
  <2>3. CASE a = b
    <3>1. VersionsOf(a)' = VersionsOf(a) \cup {next}
      BY <1>5, <2>3
    <3> QED BY <1>3, <1>4, <2>1, <2>2, <2>3, <3>1
  <2>4. CASE a # b
    <3>1. VersionsOf(a)' = VersionsOf(a)
      BY <1>5, <2>4
    <3> QED BY <1>4, <2>1, <2>2, <2>4, <3>1
  <2> QED BY <2>3, <2>4
<1>8. /\ History = [a \in Agreements |-> History[a]]
      /\ History' = [a \in Agreements |-> History'[a]]
  BY DEF History
<1>9. History' = [History EXCEPT ![b] = @ \cup {entry}]
  BY <1>7, <1>8
<1> QED BY <1>2, <1>9 DEF entry, q

LEMMA StepHistory == IInv /\ [Next]_vars => [Abstract!Next]_History
<1> SUFFICES ASSUME IInv, [Next]_vars, History' # History PROVE Abstract!Next
  OBVIOUS
<1>1. version' # version
  BY DEF History, VersionsOf, Number
<1>2. PICK r \in Requests : CommitCreate(r) \/ CommitUpdate(r)
  BY <1>1 DEF Next, Step, vars, tables, Tick, Receive, ReceiveCreate, ReceiveUpdate, Read, LookUp,
              Conflict, Throw, Recover, ReadFails, End
<1> DEFINE q == request[r]
<1>3. PICK n \in Nat : Writes(r, n)
  BY <1>2, CreateWrites, UpdateWrites DEF HeadRow
<1>4. /\ q \in Handler /\ q.phase = "transact" /\ Held(q) /\ q.version \in Versions
      /\ version[q.version] = None /\ q.content \in Contents
  BY <1>3, WriterHeld DEF Handler
<1>5. PICK a \in Agreements, next \in Versions, content \in Contents :
        a = q.agreement /\ next = q.version /\ content = q.content
  BY <1>3, <1>4, WriterHeld
<1>6. History' = [History EXCEPT ![a] = @ \cup {Abstract!Entry(q.row.number, next, content)}]
  BY <1>3, <1>5, WrittenHistory
<1>7. History[a] = {EntryOf(v) : v \in VersionsOf(a)}
  BY HistoryOf
<1>8. CASE CommitCreate(r)
  <2>1. ~Exists(a) /\ q.row.number = 1
    BY <1>4, <1>5, <1>8 DEF CommitCreate, Held, CreateHeld, Built
  <2>2. History[a] = {}
    BY <1>7, <2>1 DEF IInv, RowsHold, VersionsOf
  <2> HIDE DEF q
  <2>3. History' = [History EXCEPT ![a] = {Abstract!Entry(1, next, content)}]
    BY <1>6, <2>1, <2>2
  <2> QED BY <2>2, <2>3 DEF Abstract!Next, Abstract!Start
<1>9. CASE CommitUpdate(r)
  <2>1. /\ Exists(a) /\ head[a].current \in VersionsOf(a)
        /\ q.row.number = Number(head[a].current) + 1
        /\ \A v \in VersionsOf(a) : Number(v) <= Number(head[a].current)
    BY <1>5, <1>9 DEF CommitUpdate, Fits, Claims, Number, IInv, HistoryIsAChain
  <2> DEFINE last == EntryOf(head[a].current)
  <2>2. last \in History[a] /\ last.number = Number(head[a].current)
    BY <1>7, <2>1 DEF EntryOf
  <2>3. \A e \in History[a] : e.number <= last.number /\ e.version # next
    <3>1. \A v \in VersionsOf(a) :
            EntryOf(v).number <= last.number /\ EntryOf(v).version # next
      BY <1>4, <1>5, <2>1, <2>2 DEF EntryOf, VersionsOf
    <3> QED BY <1>7, <3>1
  <2> HIDE DEF last, q
  <2>4. History' = [History EXCEPT ![a] = @ \cup {Abstract!Entry(last.number + 1, next, content)}]
    BY <1>6, <2>1, <2>2
  <2>5. next \notin {e.version : e \in History[a]}
    BY <2>3
  <2>6. Abstract!Revise(a)
    BY <1>5, <2>2, <2>3, <2>4, <2>5 DEF Abstract!Revise
  <2> QED BY <2>6 DEF Abstract!Next
<1> QED BY <1>2, <1>8, <1>9

\* Whatever handlers race, an agreement is a numbered, append-only history:
\* every commit adds the next entry, and no other step changes one.
THEOREM Implements == Spec => ImplementsHistory
<1>1. Init => Abstract!Init
  BY InitHistory
<1>2. IInv /\ [Next]_vars => [Abstract!Next]_History
  BY StepHistory
<1> QED BY <1>1, <1>2, Invariance, PTL DEF Spec, ImplementsHistory, Abstract!Spec

-----------------------------------------------------------------------------
(* Listing page by page.  The order of a list, and what a page takes of it.  *)

LEMMA Smallest ==
  ASSUME NEW S, S # {}, NEW f \in [S -> Nat]
  PROVE  \E x \in S : \A y \in S : f[x] <= f[y]
<1> DEFINE Less == {p \in Nat \X Nat : p[1] < p[2]}
           T == {f[x] : x \in S}
<1>1. OpToRel(<, Nat) = Less
  BY DEF OpToRel
<1>2. IsWellFoundedOn(Less, Nat)
  BY <1>1, NatLessThanWellFounded
<1>3. T \subseteq Nat /\ T # {}
  OBVIOUS
<1> HIDE DEF Less, T
<1>4. PICK n \in T : \A m \in T : ~ (<<m, n>> \in Less)
  BY <1>2, <1>3, WFMin
<1>5. PICK x \in S : f[x] = n
  BY <1>4 DEF T
<1>6. ASSUME NEW y \in S PROVE f[x] <= f[y]
  <2>1. f[y] \in T /\ f[y] \in Nat /\ n \in Nat
    BY <1>3, <1>4 DEF T
  <2>2. ~ (f[y] < n)
    BY <1>4, <2>1 DEF Less
  <2> QED
    BY <1>5, <2>1, <2>2
<1> QED
  BY <1>5, <1>6

\* A finite set in strict order has a last element: the one with the fewest after it.
LEMMA LastExists ==
  ASSUME NEW S, IsFiniteSet(S), S # {}, NEW R,
         \A a \in S : <<a, a>> \notin R,
         \A a, b, c \in S : <<a, b>> \in R /\ <<b, c>> \in R => <<a, c>> \in R,
         \A a, b \in S : a # b => <<a, b>> \in R \/ <<b, a>> \in R
  PROVE  \E a \in S : \A b \in S \ {a} : <<b, a>> \in R
<1> DEFINE After(a) == {c \in S : <<a, c>> \in R}
           f == [a \in S |-> Cardinality(After(a))]
<1>1. \A a \in S : IsFiniteSet(After(a)) /\ Cardinality(After(a)) \in Nat
  <2> TAKE a \in S
  <2>1. After(a) \in SUBSET S
    OBVIOUS
  <2> HIDE DEF After
  <2>2. IsFiniteSet(After(a))
    BY <2>1, FS_Subset
  <2> QED
    BY <2>2, FS_CardinalityType
<1>2. f \in [S -> Nat]
  BY <1>1
<1> HIDE DEF f
<1>3. PICK a \in S : \A b \in S : f[a] <= f[b]
  BY <1>2, Smallest
<1>4. ASSUME NEW b \in S \ {a}, <<b, a>> \notin R PROVE FALSE
  <2>1. <<a, b>> \in R
    BY <1>4
  <2>2. After(b) \in SUBSET After(a) /\ b \in After(a) /\ b \notin After(b)
    BY <2>1
  <2>3. IsFiniteSet(After(a)) /\ Cardinality(After(a)) \in Nat /\ Cardinality(After(b)) \in Nat
    BY <1>1
  <2> HIDE DEF After
  <2>4. Cardinality(After(b)) <= Cardinality(After(a)) /\ Cardinality(After(a)) # Cardinality(After(b))
    BY <2>2, <2>3, FS_Subset
  <2>5. Cardinality(After(a)) <= Cardinality(After(b))
    BY <1>3 DEF f
  <2> QED
    BY ONLY <2>3, <2>4, <2>5
<1> QED
  BY <1>4

\* The order of a list is strict and total: identifiers break the ties.
LEMMA ListOrder ==
  ASSUME NEW S \in SUBSET Agreements, \A a \in S : UpdatedAt(a) \in Nat
  PROVE  /\ \A a \in S : ~ Before(a, a)
         /\ \A a, b, c \in S : Before(a, b) /\ Before(b, c) => Before(a, c)
         /\ \A a, b \in S : a # b => Before(a, b) \/ Before(b, a)
         /\ IsFiniteSet(S)
<1>1. \A a \in S : a \in Int /\ UpdatedAt(a) \in Nat
  BY PagesAssumption
<1>2. IsFiniteSet(S)
  BY PagesAssumption, FS_Subset
<1> QED
  BY <1>1, <1>2 DEF Before

LEMMA LastOfPage ==
  ASSUME NEW S \in SUBSET Agreements, S # {}, \A a \in S : UpdatedAt(a) \in Nat
  PROVE  LastOf(S) \in S /\ \A b \in S \ {LastOf(S)} : Before(b, LastOf(S))
<1> DEFINE R == {p \in S \X S : Before(p[1], p[2])}
<1>1. \A a, b \in S : <<a, b>> \in R <=> Before(a, b)
  OBVIOUS
<1>2. /\ IsFiniteSet(S) /\ \A a \in S : <<a, a>> \notin R
      /\ \A a, b, c \in S : <<a, b>> \in R /\ <<b, c>> \in R => <<a, c>> \in R
      /\ \A a, b \in S : a # b => <<a, b>> \in R \/ <<b, a>> \in R
  <2> HIDE DEF R
  <2>1. /\ \A a \in S : ~ Before(a, a)
        /\ \A a, b, c \in S : Before(a, b) /\ Before(b, c) => Before(a, c)
        /\ \A a, b \in S : a # b => Before(a, b) \/ Before(b, a)
        /\ IsFiniteSet(S)
    BY ListOrder
  <2> QED
    BY ONLY <1>1, <2>1
<1> HIDE DEF R
<1>3. PICK a \in S : \A b \in S \ {a} : <<b, a>> \in R
  BY <1>2, LastExists
<1>4. \E x \in S : \A b \in S \ {x} : Before(b, x)
  BY <1>1, <1>3
<1> QED
  BY <1>4 DEF LastOf

LEMMA FirstOfRows ==
  ASSUME NEW S \in SUBSET Agreements, S # {}, \A a \in S : UpdatedAt(a) \in Nat
  PROVE  \E a \in S : \A b \in S : ~ Before(b, a)
<1> DEFINE R == {p \in S \X S : Before(p[2], p[1])}
<1>1. \A a, b \in S : <<a, b>> \in R <=> Before(b, a)
  OBVIOUS
<1>2. /\ \A a \in S : ~ Before(a, a)
      /\ \A a, b, c \in S : Before(a, b) /\ Before(b, c) => Before(a, c)
      /\ \A a, b \in S : a # b => Before(a, b) \/ Before(b, a)
      /\ IsFiniteSet(S)
  BY ListOrder
<1> HIDE DEF R
<1>3. /\ IsFiniteSet(S) /\ \A a \in S : <<a, a>> \notin R
      /\ \A a, b, c \in S : <<a, b>> \in R /\ <<b, c>> \in R => <<a, c>> \in R
      /\ \A a, b \in S : a # b => <<a, b>> \in R \/ <<b, a>> \in R
  BY ONLY <1>1, <1>2
<1>4. PICK a \in S : \A b \in S \ {a} : <<b, a>> \in R
  BY <1>3, LastExists
<1>5. \A b \in S \ {a} : Before(a, b)
  BY <1>1, <1>4
<1> QED
  BY <1>2, <1>5

\* A page is the front of the rows, and is empty only when there are none.
LEMMA PageIsFront ==
  ASSUME scope \subseteq Agreements, \A a \in scope : UpdatedAt(a) \in Nat, NEW limit \in Nat \ {0}
  PROVE  /\ PageOf(limit) \subseteq Rows
         /\ \A a \in PageOf(limit), b \in Rows : Before(b, a) => b \in PageOf(limit)
         /\ Rows # {} => PageOf(limit) # {}
<1>1. Rows \in SUBSET Agreements /\ \A a \in Rows : UpdatedAt(a) \in Nat
  BY DEF Rows
<1>2. /\ \A a \in Rows : ~ Before(a, a)
      /\ \A a, b, c \in Rows : Before(a, b) /\ Before(b, c) => Before(a, c)
      /\ IsFiniteSet(Rows)
  BY <1>1, ListOrder
<1> DEFINE Ahead(a) == {b \in Rows : Before(b, a)}
<1>3. PageOf(limit) = {a \in Rows : Cardinality(Ahead(a)) < limit}
  BY DEF PageOf
<1>4. \A a \in Rows : IsFiniteSet(Ahead(a)) /\ Cardinality(Ahead(a)) \in Nat
  <2> TAKE a \in Rows
  <2>1. Ahead(a) \in SUBSET Rows
    OBVIOUS
  <2> HIDE DEF Ahead
  <2>2. IsFiniteSet(Ahead(a))
    BY <1>2, <2>1, FS_Subset
  <2> QED
    BY <2>2, FS_CardinalityType
<1>5. ASSUME NEW a \in PageOf(limit), NEW b \in Rows, Before(b, a) PROVE b \in PageOf(limit)
  <2>1. a \in Rows /\ Cardinality(Ahead(a)) < limit
    BY <1>3
  <2>2. Ahead(b) \in SUBSET Ahead(a)
    BY <1>2, <1>5, <2>1
  <2> HIDE DEF Ahead
  <2>3. Cardinality(Ahead(b)) <= Cardinality(Ahead(a))
    BY <1>4, <2>1, <2>2, FS_Subset
  <2>4. Cardinality(Ahead(b)) < limit
    BY <1>4, <2>1, <2>3
  <2> QED
    BY <1>3, <2>4
<1>6. ASSUME Rows # {} PROVE PageOf(limit) # {}
  <2>1. PICK a \in Rows : \A b \in Rows : ~ Before(b, a)
    BY <1>1, <1>6, FirstOfRows
  <2>2. Ahead(a) = {}
    BY <2>1
  <2>3. Cardinality(Ahead(a)) = 0
    BY <2>2, FS_EmptySet
  <2> QED
    BY <1>3, <2>3
<1> QED
  BY <1>3, <1>5, <1>6

\* The last row of a page that is not the last is where the next one begins.
LEMMA PageBoundary ==
  ASSUME scope \subseteq Agreements, \A a \in scope : UpdatedAt(a) \in Nat,
         NEW limit \in Nat \ {0}, PageOf(limit) # Rows
  PROVE  LET last == LastOf(PageOf(limit)) IN
         /\ last \in Rows
         /\ \A a \in PageOf(limit) : a = last \/ Before(a, last)
         /\ \A a \in Rows \ PageOf(limit) : Before(last, a)
<1> DEFINE page == PageOf(limit)
<1>1. /\ page \subseteq Rows /\ page # {} /\ Rows \in SUBSET Agreements
      /\ \A a \in page, b \in Rows : Before(b, a) => b \in page
      /\ \A a \in Rows : UpdatedAt(a) \in Nat
  BY PageIsFront DEF Rows
<1> HIDE DEF page
<1>2. LastOf(page) \in page /\ \A b \in page \ {LastOf(page)} : Before(b, LastOf(page))
  BY <1>1, LastOfPage
<1>3. \A a, b \in Rows : a # b => Before(a, b) \/ Before(b, a)
  BY <1>1, ListOrder
<1>4. ASSUME NEW a \in Rows \ page PROVE Before(LastOf(page), a)
  BY <1>1, <1>2, <1>3
<1> QED
  BY <1>1, <1>2, <1>4 DEF page

-----------------------------------------------------------------------------
(* Listing page by page.  What is on the pages so far lies before the        *)
(* cursor, and what was left alone lies on them or beyond it.                *)

PagesTypes ==
  /\ cursor \in Cursor \cup {None}
  /\ stage \in {"start", "query", "between", "done", "refused"}
  /\ scope \subseteq Mine
  /\ listed \in [Agreements -> {0, 1}]
  /\ untouched \subseteq scope
  /\ stage \in {"start", "done"} => cursor = None
  /\ stage = "start" => untouched = {}

OnlyBehind == stage # "done" => \A a \in Agreements : listed[a] = 1 => Exists(a) /\ ~ Beyond(a)

NoneMissed == \A a \in untouched : listed[a] = 1 \/ (stage # "done" /\ Beyond(a))

PagesInv == PagesTypes /\ OnlyBehind /\ NoneMissed

\* The reader takes no step of the service's, nor keeps it from any.
THEOREM PagesReadOnly == PagesSpec => Spec
<1>1. PagesInit => Init
  BY DEF PagesInit
<1>2. [PagesNext]_pagesVars => [Next]_vars
  BY DEF PagesNext, pagesVars, Elsewhere, ReadScope, ListPage, Refuse, Restart
<1> QED
  BY <1>1, <1>2, PTL DEF PagesSpec, Spec

\* An agreement stays, with its members.
LEMMA MembersStay ==
  ASSUME IInv, [Next]_vars, NEW a \in Agreements, Exists(a)
  PROVE  Exists(a)' /\ members'[a] = members[a]
<1>1. Exists(a)'
  <2>1. CASE head'[a] = head[a]
    BY <2>1 DEF Exists
  <2>2. CASE head'[a] # head[a]
    BY <2>2, HeadMoves, WrittenTables DEF Exists
  <2> QED
    BY <2>1, <2>2
<1>2. CASE members' = members
  BY <1>1, <1>2
<1>3. CASE members' # members
  <2>1. PICK r \in Requests : CommitCreate(r)
    BY <1>3 DEF Next, Step, vars, tables, Tick, Receive, ReceiveCreate, ReceiveUpdate, Read, LookUp,
                CommitUpdate, Conflict, Throw, Recover, ReadFails, End
  <2>2. Held(request[r]) /\ request[r].phase = "transact" /\ request[r].operation = "create"
    BY <2>1, CreateWrites, WriterHeld DEF CommitCreate
  <2>3. ~ Exists(request[r].agreement)
    BY <2>2 DEF Held, CreateHeld, Built
  <2>4. members' = [members EXCEPT ![request[r].agreement] =
          {[account |-> request[r].actor, party |-> CreatorPartyOf[request[r].actor], role |-> "owner"]}]
    BY <2>1 DEF CommitCreate
  <2> QED
    BY <1>1, <2>3, <2>4 DEF IInv, TypeOK
<1> QED
  BY <1>2, <1>3

LEMMA MineStays ==
  ASSUME IInv, [Next]_vars
  PROVE  Mine \subseteq Mine'
BY MembersStay DEF Mine

\* What lies behind the cursor stays behind it: timestamps only grow.
LEMMA BehindStays ==
  ASSUME IInv, [Next]_vars, UNCHANGED cursor, cursor \in Cursor \cup {None},
         NEW a \in Agreements, Exists(a), ~ Beyond(a)
  PROVE  ~ Beyond(a)'
<1>1. cursor # None /\ cursor.at \in Nat /\ cursor.id \in Int /\ a \in Int
  BY PagesAssumption DEF Beyond, Cursor
<1>2. /\ head[a].updatedAt \in Nat /\ head'[a].updatedAt \in Nat
      /\ head'[a].updatedAt >= head[a].updatedAt
  BY HeadAges
<1>3. head[a].updatedAt > cursor.at \/ (head[a].updatedAt = cursor.at /\ ~ (a > cursor.id))
  BY <1>1, <1>2 DEF Beyond, UpdatedAt
<1>4. head'[a].updatedAt > cursor.at \/ (head'[a].updatedAt = cursor.at /\ ~ (a > cursor.id))
  BY <1>1, <1>2, <1>3
<1>5. cursor' # None /\ ~ (head'[a].updatedAt < cursor'.at)
      /\ ~ (head'[a].updatedAt = cursor'.at /\ a > cursor'.id)
  BY <1>1, <1>2, <1>4
<1> QED
  BY <1>5 DEF Beyond, UpdatedAt

LEMMA PagesInitInv == PagesInit => PagesInv
BY DEF PagesInit, PagesInv, PagesTypes, OnlyBehind, NoneMissed

LEMMA ElsewhereHolds ==
  ASSUME IInv, PagesInv, Elsewhere
  PROVE  PagesInv'
<1>1. /\ [Next]_vars /\ untouched' = {a \in untouched : head'[a] = head[a]}
      /\ cursor' = cursor /\ stage' = stage /\ scope' = scope /\ listed' = listed
  BY DEF Elsewhere
<1>2. PagesTypes'
  <2>1. scope' \subseteq Mine'
    BY <1>1, MineStays DEF PagesInv, PagesTypes
  <2> QED
    BY <1>1, <2>1 DEF PagesInv, PagesTypes
<1>3. OnlyBehind'
  <2>1. ASSUME stage # "done", NEW a \in Agreements, listed[a] = 1
        PROVE  Exists(a)' /\ ~ Beyond(a)'
    <3>1. Exists(a) /\ ~ Beyond(a) /\ cursor \in Cursor \cup {None}
      BY <2>1 DEF PagesInv, PagesTypes, OnlyBehind
    <3> QED
      BY <1>1, <3>1, MembersStay, BehindStays
  <2> QED
    BY <1>1, <2>1 DEF OnlyBehind
<1>4. NoneMissed'
  <2>1. ASSUME NEW a \in untouched'
        PROVE  listed[a] = 1 \/ (stage # "done" /\ Beyond(a)')
    <3>1. a \in untouched /\ head'[a] = head[a]
      BY <1>1, <2>1
    <3>2. Beyond(a) => Beyond(a)'
      BY <1>1, <3>1 DEF Beyond, UpdatedAt
    <3> QED
      BY <3>1, <3>2 DEF PagesInv, NoneMissed
  <2> QED
    BY <1>1, <2>1 DEF NoneMissed
<1> QED
  BY <1>2, <1>3, <1>4 DEF PagesInv

LEMMA ReadScopeHolds ==
  ASSUME PagesInv, ReadScope
  PROVE  PagesInv'
<1>1. /\ head' = head /\ members' = members /\ cursor' = cursor /\ listed' = listed
      /\ scope' = Mine /\ stage' = "query" /\ stage # "done"
      /\ untouched' = IF stage = "start" THEN Mine ELSE untouched
  BY DEF ReadScope, vars, tables
<1>2. Mine' = Mine /\ \A a \in Agreements : (Beyond(a)' <=> Beyond(a)) /\ (Exists(a)' <=> Exists(a))
  BY <1>1 DEF Mine, Exists, Beyond, UpdatedAt
<1>3. PagesTypes'
  BY <1>1, <1>2 DEF PagesInv, PagesTypes
<1>4. OnlyBehind'
  BY <1>1, <1>2 DEF PagesInv, OnlyBehind
<1>5. NoneMissed'
  <2>1. ASSUME NEW a \in untouched' PROVE listed'[a] = 1 \/ Beyond(a)'
    <3>1. a \in Agreements
      BY <1>1, <2>1 DEF PagesInv, PagesTypes, Mine
    <3>2. CASE stage = "start"
      <4>1. cursor' = None
        BY <1>1, <3>2 DEF PagesInv, PagesTypes
      <4> QED
        BY <4>1 DEF Beyond
    <3>3. CASE stage # "start"
      <4>1. listed[a] = 1 \/ Beyond(a)
        BY <1>1, <2>1, <3>3 DEF PagesInv, NoneMissed
      <4> QED
        BY <1>1, <1>2, <3>1, <4>1
    <3> QED
      BY <3>2, <3>3
  <2> QED
    BY <1>1, <2>1 DEF NoneMissed
<1> QED
  BY <1>3, <1>4, <1>5 DEF PagesInv

LEMMA RefuseHolds ==
  ASSUME PagesInv, Refuse
  PROVE  PagesInv'
BY DEF Refuse, vars, tables, PagesInv, PagesTypes, OnlyBehind, NoneMissed, Mine, Exists, Beyond, UpdatedAt

LEMMA RestartHolds ==
  ASSUME PagesInv, Restart
  PROVE  PagesInv'
BY DEF Restart, vars, tables, PagesInv, PagesTypes, OnlyBehind, NoneMissed, Mine, Exists, Beyond, UpdatedAt

\* A page takes the front of what lies beyond the cursor, and the cursor moves
\* behind it.
LEMMA ListPageHolds ==
  ASSUME IInv, PagesInv, NEW limit \in 1..MaxLimit, ListPage(limit)
  PROVE  PagesInv'
<1> DEFINE page == PageOf(limit)
           last == LastOf(page)
<1>1. /\ stage = "query" /\ scope' = scope /\ untouched' = untouched
      /\ head' = head /\ members' = members /\ clock' = clock
      /\ listed' = [a \in Agreements |-> IF a \in page THEN listed[a] + 1 ELSE listed[a]]
      /\ cursor' = IF page # Rows
                   THEN [at |-> UpdatedAt(last), id |-> last, scope |-> scope,
                         expiresAt |-> clock + CursorLife]
                   ELSE None
      /\ stage' = IF page # Rows THEN "between" ELSE "done"
  BY DEF ListPage, vars, tables
<1>2. /\ scope \subseteq Mine /\ scope \subseteq Agreements /\ untouched \subseteq scope
      /\ listed \in [Agreements -> {0, 1}] /\ cursor \in Cursor \cup {None}
      /\ \A a \in Agreements : listed[a] = 1 => Exists(a) /\ ~ Beyond(a)
      /\ \A a \in untouched : listed[a] = 1 \/ Beyond(a)
  BY <1>1 DEF PagesInv, PagesTypes, OnlyBehind, NoneMissed, Mine
<1>3. limit \in Nat \ {0}
  BY PagesAssumption
<1>4. \A a \in Agreements : Exists(a) => UpdatedAt(a) \in Nat
  BY DEF IInv, TypeOK, HeadRow, Exists, UpdatedAt
<1>5. \A a \in scope : Exists(a) /\ UpdatedAt(a) \in Nat
  BY <1>2, <1>4 DEF Mine
<1>6. page \subseteq Rows /\ Rows = {a \in scope : Beyond(a)}
  BY <1>2, <1>3, <1>5, PageIsFront DEF Rows
<1>7. \A a \in page : listed[a] = 0
  BY <1>2, <1>6
<1>8. /\ Mine' = Mine
      /\ \A a \in Agreements : Exists(a)' <=> Exists(a)
      /\ \A a : UpdatedAt(a)' = UpdatedAt(a)
  BY <1>1 DEF Mine, Exists, UpdatedAt
<1> HIDE DEF page, last
<1>9. /\ listed' \in [Agreements -> {0, 1}]
      /\ \A a \in page : a \in Agreements => listed'[a] = 1
      /\ \A a \in Agreements : listed'[a] = 1 <=> a \in page \/ listed[a] = 1
  BY <1>1, <1>2, <1>7
<1>10. CASE page = Rows
  <2>1. cursor' = None /\ stage' = "done"
    BY <1>1, <1>10
  <2>2. ASSUME NEW a \in untouched PROVE listed'[a] = 1
    BY <1>2, <1>6, <1>9, <1>10, <2>2
  <2>3. PagesTypes' /\ OnlyBehind'
    BY <1>1, <1>2, <1>8, <1>9, <2>1 DEF PagesTypes, OnlyBehind
  <2>4. NoneMissed'
    BY <1>1, <2>1, <2>2 DEF NoneMissed
  <2> QED
    BY <2>3, <2>4 DEF PagesInv
<1>11. CASE page # Rows
  <2>1. /\ last \in Rows
        /\ \A a \in page : a = last \/ Before(a, last)
        /\ \A a \in Rows \ page : Before(last, a)
    BY <1>2, <1>3, <1>5, <1>11, PageBoundary DEF page, last
  <2>2. /\ stage' = "between" /\ cursor' # None /\ cursor' \in Cursor
        /\ cursor'.at = UpdatedAt(last) /\ cursor'.id = last
    <3>1. cursor' = [at |-> UpdatedAt(last), id |-> last, scope |-> scope,
                     expiresAt |-> clock + CursorLife] /\ stage' = "between"
      BY <1>1, <1>11
    <3>2. last \in Agreements /\ UpdatedAt(last) \in Nat /\ clock + CursorLife \in Nat
      BY <1>2, <1>5, <1>6, <2>1, PagesAssumption DEF IInv, TypeOK
    <3>3. cursor' \in Cursor
      BY <1>2, <3>1, <3>2 DEF Cursor
    <3> QED
      BY <3>1, <3>3, CursorAssumption
  <2>3. \A a \in Agreements : Beyond(a)' <=>
          UpdatedAt(a) < UpdatedAt(last) \/ (UpdatedAt(a) = UpdatedAt(last) /\ a > last)
    BY <1>8, <2>2 DEF Beyond
  <2>4. last \in Agreements /\ last \in Int /\ UpdatedAt(last) \in Nat /\ Beyond(last)
    BY <1>2, <1>5, <1>6, <2>1, PagesAssumption
  <2>5. \A a \in Agreements : Exists(a) => a \in Int /\ UpdatedAt(a) \in Nat
    BY <1>4, PagesAssumption
  <2>6. ASSUME NEW a \in Agreements, a \in page \/ listed[a] = 1
        PROVE  Exists(a) /\ ~ Beyond(a)'
    <3>1. CASE a \in page
      <4>1. a \in scope /\ Exists(a) /\ (a = last \/ Before(a, last))
        BY <1>5, <1>6, <2>1, <3>1
      <4>2. a \in Int /\ UpdatedAt(a) \in Nat
        BY <2>5, <4>1
      <4> QED
        BY <2>3, <2>4, <4>1, <4>2 DEF Before
    <3>2. CASE listed[a] = 1
      <4>1. Exists(a) /\ ~ Beyond(a)
        BY <1>2, <3>2
      <4>2. a \in Int /\ UpdatedAt(a) \in Nat
        BY <2>5, <4>1
      <4>3. cursor # None /\ cursor.at \in Nat /\ cursor.id \in Int
        BY <1>2, <4>1, PagesAssumption DEF Beyond, Cursor
      <4>4. Before(a, last)
        BY <2>4, <4>1, <4>2, <4>3 DEF Beyond, Before
      <4> QED
        BY <2>3, <2>4, <4>1, <4>2, <4>4 DEF Before
    <3> QED
      BY <2>6, <3>1, <3>2
  <2>7. ASSUME NEW a \in untouched PROVE listed'[a] = 1 \/ Beyond(a)'
    <3>1. a \in scope /\ a \in Agreements /\ Exists(a) /\ a \in Int /\ UpdatedAt(a) \in Nat
      BY <1>2, <1>5, <2>5
    <3>2. CASE listed[a] = 1 \/ a \in page
      BY <1>9, <3>1, <3>2
    <3>3. CASE listed[a] # 1 /\ a \notin page
      <4>1. a \in Rows \ page
        BY <1>2, <1>6, <3>1, <3>3
      <4>2. Before(last, a)
        BY <2>1, <4>1
      <4> QED
        BY <2>3, <2>4, <3>1, <4>2 DEF Before
    <3> QED
      BY <3>2, <3>3
  <2>8. PagesTypes'
    BY <1>1, <1>2, <1>8, <1>9, <2>2 DEF PagesTypes
  <2>9. OnlyBehind'
    BY <1>8, <1>9, <2>6 DEF OnlyBehind
  <2>10. NoneMissed'
    BY <1>1, <2>2, <2>7 DEF NoneMissed
  <2> QED
    BY <2>8, <2>9, <2>10 DEF PagesInv
<1> QED
  BY <1>10, <1>11

LEMMA PagesStepInv == IInv /\ PagesInv /\ [PagesNext]_pagesVars => PagesInv'
<1> SUFFICES ASSUME IInv, PagesInv, [PagesNext]_pagesVars PROVE PagesInv'
  OBVIOUS
<1>1. CASE PagesNext
  BY <1>1, ElsewhereHolds, ReadScopeHolds, RefuseHolds, RestartHolds, ListPageHolds DEF PagesNext
<1>2. CASE UNCHANGED pagesVars
  BY <1>2 DEF pagesVars, vars, tables, reader, PagesInv, PagesTypes, OnlyBehind, NoneMissed, Mine,
              Exists, Beyond, UpdatedAt
<1> QED
  BY <1>1, <1>2

LEMMA PagesInvariance == PagesSpec => []PagesInv
<1>1. PagesSpec => []IInv
  BY PagesReadOnly, Invariance, PTL
<1> QED
  BY <1>1, PagesInitInv, PagesStepInv, PTL DEF PagesSpec

\* No agreement is on two pages of a listing, however many handlers revise it
\* meanwhile and wherever it moves (the keyset of PrismaAgreementRepository.list
\* over timestamps that only grow).
THEOREM ListedOnce == PagesSpec => []NoneListedTwice
<1>1. PagesInv => NoneListedTwice
  BY DEF PagesInv, PagesTypes, NoneListedTwice
<1> QED
  BY <1>1, PagesInvariance, PTL

\* Whatever was there when the listing began, and was not revised since, is on
\* one of its pages when the last has come in, for pages of any sizes.
THEOREM UntouchedListed == PagesSpec => []UntouchedAreListed
<1>1. PagesInv => UntouchedAreListed
  BY DEF PagesInv, NoneMissed, UntouchedAreListed
<1> QED
  BY <1>1, PagesInvariance, PTL
=============================================================================
