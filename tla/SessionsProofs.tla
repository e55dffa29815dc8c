--------------------------- MODULE SessionsProofs ---------------------------
(***************************************************************************)
(* Theorems about Sessions, for any accounts, sessions and requests and    *)
(* any lifetimes.                                                          *)
(*                                                                         *)
(* What a request read is old when it writes.  The expiry it read is still *)
(* within the lifetimes of the session, since these only grow or stay, and *)
(* a moment it judged good was before the absolute expiry: RequestsHold.   *)
(***************************************************************************)
EXTENDS Sessions, TLAPS

-----------------------------------------------------------------------------
(* The inductive invariant. *)

\* Stated of any sessions and moment, as a step relates it to two of each.
RequestHolds(r, ss, t) ==
  /\ r \in {Waiting} \cup Resolving \cup SigningIn
  /\ r.pc = "replacing" => /\ r.now <= t
                           /\ r.previous # None => ss[r.previous].state # "absent"
  /\ r.pc \notin {"waiting", "replacing"} =>
       /\ ss[r.session].state # "absent"
       /\ r.idleExpiresAt <= ss[r.session].absoluteExpiresAt
       /\ r.idleExpiresAt <= ss[r.session].used + Idle
  /\ r.pc \in {"judged", "renewing"} => r.now < ss[r.session].absoluteExpiresAt

RequestsHold == \A q \in Requests : RequestHolds(request[q], sessions, now)

IInv == TypeOK /\ LifetimesHold /\ RequestsHold

\* The renewed expiry is one of the two moments it is the least of.
LEMMA LeastOfTwo ==
  ASSUME NEW a \in Nat, NEW b \in Nat
  PROVE  Min({a, b}) \in Nat /\ Min({a, b}) <= a /\ Min({a, b}) <= b
<1>1. \E x \in {a, b} : \A y \in {a, b} : x =< y
  <2>1. CASE a <= b
    BY <2>1
  <2>2. CASE ~(a <= b)
    BY <2>2
  <2> QED  BY <2>1, <2>2
<1>2. Min({a, b}) \in {a, b} /\ \A y \in {a, b} : Min({a, b}) =< y
  BY <1>1 DEF Min
<1> QED  BY <1>2

LEMMA GreatestOfTwo ==
  ASSUME NEW a \in Nat, NEW b \in Nat
  PROVE  Max({a, b}) \in {a, b} /\ Max({a, b}) >= a /\ Max({a, b}) >= b
<1>1. \E x \in {a, b} : \A y \in {a, b} : x >= y
  <2>1. CASE a >= b
    BY <2>1
  <2>2. CASE ~(a >= b)
    BY <2>2
  <2> QED  BY <2>1, <2>2
<1>2. Max({a, b}) \in {a, b} /\ \A y \in {a, b} : Max({a, b}) >= y
  BY <1>1 DEF Max
<1> QED  BY <1>2
-----------------------------------------------------------------------------
(* What the operations of the repository do to a session.                  *)

LEMMA TypeOfRevoked ==
  ASSUME TypeOK, NEW s \in SessionIds, NEW x \in SessionIds
  PROVE  /\ Revoked(s) \in [SessionIds -> SessionRecord \cup {NoSession}]
         /\ Exists(x) => /\ Revoked(s)[x] \in SessionRecord
                         /\ Revoked(s)[x].createdAt = sessions[x].createdAt
                         /\ Revoked(s)[x].absoluteExpiresAt = sessions[x].absoluteExpiresAt
                         /\ Revoked(s)[x].idleExpiresAt = sessions[x].idleExpiresAt
                         /\ Revoked(s)[x].replaced = sessions[x].replaced
                         /\ Revoked(s)[x].used = sessions[x].used
         /\ ~Exists(x) => Revoked(s)[x] = sessions[x]
         /\ Conditional => Revoked(s)[s].state # "active" \/ ~Exists(s)
         /\ sessions[x].state \in {"revoked", "expired"} /\ Conditional =>
              Revoked(s)[x].state = sessions[x].state
<1>1. sessions[s] \in SessionRecord \cup {NoSession} /\ sessions[x] \in SessionRecord \cup {NoSession}
  BY DEF TypeOK
<1>2. CASE sessions[s].state = "active" \/ (~Conditional /\ Exists(s))
  <2>1. sessions[s] \in SessionRecord
    BY <1>1, <1>2 DEF Exists, NoSession
  <2>2. Revoked(s) = [sessions EXCEPT ![s].state = "revoked"]
    BY <1>2 DEF Revoked
  <2>3. [sessions[s] EXCEPT !.state = "revoked"] \in SessionRecord
    BY <2>1 DEF SessionRecord
  <2> QED  BY <1>1, <2>1, <2>2, <2>3, <1>2 DEF TypeOK, Exists, SessionRecord, NoSession
<1>3. CASE ~(sessions[s].state = "active" \/ (~Conditional /\ Exists(s)))
  BY <1>1, <1>3 DEF TypeOK, Exists, Revoked, NoSession
<1> QED  BY <1>2, <1>3

LEMMA TypeOfUpdated ==
  ASSUME TypeOK, NEW s \in SessionIds, Exists(s), NEW x \in SessionIds,
         NEW state \in {"active", "revoked", "expired"}, NEW e \in Nat
  PROVE  /\ Updated(s, state, e) \in [SessionIds -> SessionRecord \cup {NoSession}]
         /\ Exists(x) => /\ Updated(s, state, e)[x] \in SessionRecord
                         /\ Updated(s, state, e)[x].createdAt = sessions[x].createdAt
                         /\ Updated(s, state, e)[x].absoluteExpiresAt = sessions[x].absoluteExpiresAt
                         /\ Updated(s, state, e)[x].replaced = sessions[x].replaced
                         /\ Updated(s, state, e)[x].used = sessions[x].used
                         /\ \/ Updated(s, state, e)[x].idleExpiresAt = sessions[x].idleExpiresAt
                            \/ x = s /\ Updated(s, state, e)[x].idleExpiresAt = e
         /\ ~Exists(x) => Updated(s, state, e)[x] = sessions[x]
         /\ sessions[x].state \in {"revoked", "expired"} /\ Conditional =>
              Updated(s, state, e)[x].state = sessions[x].state
<1>1. sessions[s] \in SessionRecord /\ sessions[x] \in SessionRecord \cup {NoSession}
  BY DEF TypeOK, Exists, NoSession
<1>2. CASE Matches(s)
  <2>1. Updated(s, state, e) = [sessions EXCEPT ![s] = [[@ EXCEPT !.state = state] EXCEPT !.idleExpiresAt = e]]
    BY <1>1, <1>2 DEF Updated, TypeOK
  <2>2. [[sessions[s] EXCEPT !.state = state] EXCEPT !.idleExpiresAt = e] \in SessionRecord
    BY <1>1 DEF SessionRecord
  <2> QED  BY <1>1, <2>1, <2>2, <1>2 DEF TypeOK, Exists, SessionRecord, NoSession, Matches
<1>3. CASE ~Matches(s)
  BY <1>1, <1>3 DEF TypeOK, Exists, Updated, NoSession
<1> QED  BY <1>2, <1>3

LEMMA TypeOfUsed ==
  ASSUME NEW ss \in [SessionIds -> SessionRecord \cup {NoSession}], NEW s \in SessionIds,
         ss[s] \in SessionRecord, NEW at \in Nat, NEW x \in SessionIds
  PROVE  /\ Used(ss, s, at) \in [SessionIds -> SessionRecord \cup {NoSession}]
         /\ x # s => Used(ss, s, at)[x] = ss[x]
         /\ Used(ss, s, at)[s] \in SessionRecord
         /\ Used(ss, s, at)[s].account = ss[s].account
         /\ Used(ss, s, at)[s].state = ss[s].state
         /\ Used(ss, s, at)[s].createdAt = ss[s].createdAt
         /\ Used(ss, s, at)[s].idleExpiresAt = ss[s].idleExpiresAt
         /\ Used(ss, s, at)[s].absoluteExpiresAt = ss[s].absoluteExpiresAt
         /\ Used(ss, s, at)[s].replaced = ss[s].replaced
         /\ Used(ss, s, at)[s].used >= at
         /\ Used(ss, s, at)[s].used >= ss[s].used
         /\ Used(ss, s, at)[s].used \in {ss[s].used, at}
<1> DEFINE m == Max({ss[s].used, at})
<1>1. ss[s].used \in Nat
  BY DEF SessionRecord
<1>2. m \in {ss[s].used, at} /\ m >= ss[s].used /\ m >= at
  BY <1>1, GreatestOfTwo
<1>3. m \in Nat
  BY <1>1, <1>2
<1>4. Used(ss, s, at) = [ss EXCEPT ![s] = [@ EXCEPT !.used = m]]
  BY DEF Used
<1> HIDE DEF m
<1>5. [ss[s] EXCEPT !.used = m] \in SessionRecord
  BY <1>3 DEF SessionRecord
<1>6. [ss[s] EXCEPT !.used = m].used = m
  BY DEF SessionRecord
<1> QED  BY <1>2, <1>4, <1>5, <1>6 DEF SessionRecord
-----------------------------------------------------------------------------
(* The initial states. *)

LEMMA InitIInv == ASSUME Init PROVE IInv
<1>1. TypeOK
  BY DEF Init, TypeOK, AccountState, Waiting, Exists, NoSession
<1>2. LifetimesHold
  BY DEF Init, LifetimesHold, Exists, NoSession
<1>3. RequestsHold
  BY DEF Init, RequestsHold, RequestHolds, Waiting
<1> QED  BY <1>1, <1>2, <1>3 DEF IInv
-----------------------------------------------------------------------------
(* What a step does to the sessions that are there, whichever it is, and    *)
(* what this leaves of the invariant.                                      *)

SessionsType == [SessionIds -> SessionRecord \cup {NoSession}]

Keeps(ss, tt) ==
  \A x \in SessionIds : ss[x].state # "absent" =>
    /\ tt[x] \in SessionRecord
    /\ tt[x].createdAt = ss[x].createdAt
    /\ tt[x].absoluteExpiresAt = ss[x].absoluteExpiresAt
    /\ tt[x].replaced = ss[x].replaced
    /\ tt[x].used >= ss[x].used

\* A session that a step adds replaces none, or one that was there.
Adds(ss, tt) ==
  \A x \in SessionIds :
    ss[x].state = "absent" /\ tt[x].state # "absent" /\ tt[x].replaced # None =>
      ss[tt[x].replaced].state # "absent"

LEMMA HeldRequestStays ==
  ASSUME NEW ss \in SessionsType, NEW tt \in SessionsType, NEW t \in Nat, NEW u \in Nat,
         Keeps(ss, tt), t <= u, NEW r, RequestHolds(r, ss, t)
  PROVE  RequestHolds(r, tt, u)
<1>1. r = Waiting \/ r \in Resolving \/ r \in SigningIn
  BY DEF RequestHolds
<1>2. CASE r = Waiting
  BY <1>2 DEF Waiting, RequestHolds
<1>3. CASE r \in SigningIn
  <2>1. /\ r.pc = "replacing" /\ r.now \in Nat /\ r.previous \in SessionIds \cup {None}
        /\ r.now <= t
        /\ r.previous # None => ss[r.previous].state # "absent"
    BY <1>3 DEF RequestHolds, SigningIn
  <2>2. r.previous # None => tt[r.previous].state # "absent"
    BY <2>1 DEF Keeps, SessionRecord
  <2>3. r.now <= u
    BY <2>1
  <2>4. r.pc \notin {"judged", "renewing"}
    BY <2>1
  <2> QED  BY <1>3, <2>1, <2>2, <2>3, <2>4 DEF RequestHolds
<1>4. CASE r \in Resolving
  <2>1. /\ r.pc \in {"read", "expiring", "judged", "renewing", "revoking"}
        /\ r.session \in SessionIds /\ r.idleExpiresAt \in Nat /\ r.now \in Nat
    BY <1>4 DEF Resolving
  <2>2. /\ ss[r.session].state # "absent"
        /\ r.idleExpiresAt <= ss[r.session].absoluteExpiresAt
        /\ r.idleExpiresAt <= ss[r.session].used + Idle
        /\ r.pc \in {"judged", "renewing"} => r.now < ss[r.session].absoluteExpiresAt
    BY <2>1 DEF RequestHolds
  <2>3. /\ tt[r.session] \in SessionRecord /\ ss[r.session] \in SessionRecord
        /\ tt[r.session].absoluteExpiresAt = ss[r.session].absoluteExpiresAt
        /\ tt[r.session].used >= ss[r.session].used
    BY <2>1, <2>2 DEF Keeps, SessionsType, NoSession
  <2>4. tt[r.session].used \in Nat /\ ss[r.session].used \in Nat /\ Idle \in Nat
        /\ tt[r.session].state # "absent" /\ tt[r.session].absoluteExpiresAt \in Nat
    BY <2>3, OptionsAssumption DEF SessionRecord
  <2>5. r.idleExpiresAt <= tt[r.session].used + Idle
    BY <2>1, <2>2, <2>3, <2>4
  <2>6. r.pc \notin {"waiting", "replacing"} => r.idleExpiresAt <= tt[r.session].absoluteExpiresAt
    BY <2>2, <2>3
  <2>7. r.pc \in {"judged", "renewing"} => r.now < tt[r.session].absoluteExpiresAt
    BY <2>2, <2>3
  <2>8. r.pc # "replacing"
    BY <2>1
  <2> QED  BY <1>4, <2>4, <2>5, <2>6, <2>7, <2>8 DEF RequestHolds
<1> QED  BY <1>1, <1>2, <1>3, <1>4

LEMMA RequestsStay ==
  ASSUME TypeOK, RequestsHold, sessions' \in SessionsType, Keeps(sessions, sessions'),
         Adds(sessions, sessions'), now' \in Nat, now <= now', accounts' \in [Accounts -> AccountState],
         \/ request' = request
         \/ \E q \in Requests : \E step : RequestHolds(step, sessions, now) /\ request' = [request EXCEPT ![q] = step]
  PROVE  TypeOK' /\ RequestsHold'
<1>1. sessions \in SessionsType /\ now \in Nat /\ DOMAIN request = Requests
  BY DEF TypeOK, SessionsType
<1>2. \A q \in Requests : RequestHolds(request'[q], sessions, now)
  BY <1>1 DEF TypeOK, RequestsHold
<1>3. \A q \in Requests : RequestHolds(request'[q], sessions', now')
  BY <1>1, <1>2, HeldRequestStays
<1>4. request' \in [Requests -> {Waiting} \cup Resolving \cup SigningIn]
  <2>1. request' = [q \in Requests |-> request'[q]]
    BY DEF TypeOK
  <2>2. \A q \in Requests : request'[q] \in {Waiting} \cup Resolving \cup SigningIn
    BY <1>3 DEF RequestHolds
  <2> QED  BY <2>1, <2>2
<1>5. ASSUME NEW s \in SessionIds, sessions'[s].state # "absent", sessions'[s].replaced # None
      PROVE  sessions'[sessions'[s].replaced].state # "absent"
  <2>1. sessions'[s] \in SessionRecord
    BY <1>5 DEF SessionsType, NoSession
  <2>2. sessions'[s].replaced \in SessionIds
    BY <1>5, <2>1 DEF SessionRecord
  <2>3. sessions[sessions'[s].replaced].state # "absent"
    <3>1. CASE sessions[s].state # "absent"
      BY <1>5, <3>1 DEF Keeps, TypeOK, Exists
    <3>2. CASE sessions[s].state = "absent"
      BY <1>5, <3>2 DEF Adds
    <3> QED  BY <3>1, <3>2
  <2> QED  BY <2>2, <2>3 DEF Keeps, SessionRecord
<1>6. TypeOK'
  BY <1>3, <1>4, <1>5 DEF TypeOK, SessionsType, Exists, RequestHolds
<1> QED  BY <1>3, <1>6 DEF RequestsHold
-----------------------------------------------------------------------------
(* Each action of a request or of a user keeps the invariant.              *)

\* The lifetimes of the sessions, as a formula of any sessions.
LEMMA SessionsStay ==
  ASSUME IInv, sessions' \in SessionsType, Keeps(sessions, sessions'),
         Adds(sessions, sessions'), now' \in Nat, now <= now', accounts' \in [Accounts -> AccountState],
         \/ request' = request
         \/ \E q \in Requests : \E step : RequestHolds(step, sessions, now) /\ request' = [request EXCEPT ![q] = step],
         \A x \in SessionIds : Exists(x) =>
           /\ sessions'[x].idleExpiresAt <= sessions[x].absoluteExpiresAt
           /\ sessions'[x].idleExpiresAt <= sessions'[x].used + Idle
           /\ sessions'[x].used > sessions[x].createdAt => sessions'[x].used < sessions[x].absoluteExpiresAt,
         \A x \in SessionIds : ~Exists(x) /\ Exists(x)' =>
           /\ sessions'[x].used = sessions'[x].createdAt
           /\ sessions'[x].idleExpiresAt = sessions'[x].createdAt + Idle
           /\ sessions'[x].absoluteExpiresAt = sessions'[x].createdAt + Absolute
  PROVE  IInv'
<1>1. TypeOK' /\ RequestsHold'
  BY RequestsStay DEF IInv
<1>2. ASSUME NEW x \in SessionIds, Exists(x)'
      PROVE  /\ sessions'[x].idleExpiresAt <= sessions'[x].absoluteExpiresAt
             /\ sessions'[x].absoluteExpiresAt = sessions'[x].createdAt + Absolute
             /\ sessions'[x].idleExpiresAt <= sessions'[x].used + Idle
             /\ sessions'[x].used > sessions'[x].createdAt => sessions'[x].used < sessions'[x].absoluteExpiresAt
  <2>1. sessions'[x] \in SessionRecord
    BY <1>2 DEF SessionsType, Exists, NoSession
  <2>2. CASE Exists(x)
    BY <2>2 DEF Keeps, Exists, IInv, LifetimesHold
  <2>3. CASE ~Exists(x)
    <3>1. sessions'[x].createdAt \in Nat
      BY <2>1 DEF SessionRecord
    <3> QED  BY <1>2, <2>3, <3>1, OptionsAssumption, IdleAssumption
  <2> QED  BY <2>2, <2>3
<1>3. LifetimesHold'
  BY <1>2 DEF LifetimesHold
<1> QED  BY <1>1, <1>3 DEF IInv

LEMMA SessionsUnchanged ==
  ASSUME IInv, UNCHANGED sessions
  PROVE  /\ sessions' \in SessionsType /\ Keeps(sessions, sessions') /\ Adds(sessions, sessions')
         /\ \A x \in SessionIds : Exists(x) =>
              /\ sessions'[x].idleExpiresAt <= sessions[x].absoluteExpiresAt
              /\ sessions'[x].idleExpiresAt <= sessions'[x].used + Idle
              /\ sessions'[x].used > sessions[x].createdAt => sessions'[x].used < sessions[x].absoluteExpiresAt
         /\ \A x \in SessionIds : ~(~Exists(x) /\ Exists(x)')
<1>1. sessions \in SessionsType
  BY DEF IInv, TypeOK, SessionsType
<1>2. \A x \in SessionIds : Exists(x) => sessions[x] \in SessionRecord /\ sessions[x].used \in Nat
  BY <1>1 DEF SessionsType, Exists, NoSession, SessionRecord
<1> QED  BY <1>1, <1>2 DEF IInv, LifetimesHold, Exists, Keeps, Adds

LEMMA SessionsRevoked ==
  ASSUME IInv, NEW s \in SessionIds, sessions' = Revoked(s)
  PROVE  /\ sessions' \in SessionsType /\ Keeps(sessions, sessions') /\ Adds(sessions, sessions')
         /\ \A x \in SessionIds : Exists(x) =>
              /\ sessions'[x].idleExpiresAt <= sessions[x].absoluteExpiresAt
              /\ sessions'[x].idleExpiresAt <= sessions'[x].used + Idle
              /\ sessions'[x].used > sessions[x].createdAt => sessions'[x].used < sessions[x].absoluteExpiresAt
         /\ \A x \in SessionIds : ~(~Exists(x) /\ Exists(x)')
<1>1. TypeOK
  BY DEF IInv
<1>2. sessions' \in SessionsType
  BY <1>1, TypeOfRevoked DEF SessionsType
<1>3. ASSUME NEW x \in SessionIds
      PROVE /\ Exists(x) => /\ sessions'[x] \in SessionRecord
                            /\ sessions'[x].createdAt = sessions[x].createdAt
                            /\ sessions'[x].absoluteExpiresAt = sessions[x].absoluteExpiresAt
                            /\ sessions'[x].idleExpiresAt = sessions[x].idleExpiresAt
                            /\ sessions'[x].replaced = sessions[x].replaced
                            /\ sessions'[x].used = sessions[x].used
            /\ ~Exists(x) => sessions'[x] = sessions[x]
  BY <1>1, TypeOfRevoked
<1>4. \A x \in SessionIds : Exists(x) => sessions'[x].used >= sessions[x].used
  BY <1>3 DEF SessionRecord
<1>5. Keeps(sessions, sessions') /\ Adds(sessions, sessions')
  BY <1>3, <1>4 DEF Keeps, Adds, Exists
<1> QED  BY <1>2, <1>3, <1>5 DEF IInv, LifetimesHold, Exists

LEMMA SignInKeeps ==
  ASSUME IInv, NEW q \in Requests, NEW a \in Accounts, NEW p \in SessionIds \cup {None}, SignIn(q, a, p)
  PROVE  IInv'
<1> DEFINE step == [pc |-> "replacing", account |-> a, now |-> now, previous |-> p]
<1>1. now \in Nat
  BY DEF IInv, TypeOK
<1>2. step \in SigningIn
  BY <1>1 DEF SigningIn
<1>3. RequestHolds(step, sessions, now)
  BY <1>1, <1>2 DEF RequestHolds, SignIn, Exists
<1>4. request' = [request EXCEPT ![q] = step] /\ UNCHANGED <<now, accounts, sessions>>
  BY DEF SignIn, Goto
<1> HIDE DEF step
<1>5. now' \in Nat /\ now <= now' /\ accounts' \in [Accounts -> AccountState]
  BY <1>4 DEF IInv, TypeOK
<1>6. \E r \in Requests : \E st : RequestHolds(st, sessions, now) /\ request' = [request EXCEPT ![r] = st]
  BY <1>3, <1>4
<1> QED  BY <1>4, <1>5, <1>6, SessionsUnchanged, SessionsStay

\* A request that waits, or goes on from where it was, with what it read.
LEMMA WaitingHolds == RequestHolds(Waiting, sessions, now)
BY DEF RequestHolds, Waiting

LEMMA UnderWay ==
  ASSUME IInv, NEW q \in Requests, request[q].pc \in {"read", "expiring", "judged", "renewing", "revoking"}
  PROVE  /\ request[q] \in Resolving /\ request[q].session \in SessionIds
         /\ request[q].idleExpiresAt \in Nat /\ request[q].now \in Nat
         /\ Exists(request[q].session) /\ sessions[request[q].session] \in SessionRecord
         /\ RequestHolds(request[q], sessions, now)
<1>1. request[q] \in Resolving
  BY DEF IInv, TypeOK, Waiting, SigningIn
<1>2. RequestHolds(request[q], sessions, now)
  BY DEF IInv, RequestsHold
<1>3. Exists(request[q].session)
  BY <1>2 DEF RequestHolds, Exists
<1>4. request[q].session \in SessionIds /\ request[q].idleExpiresAt \in Nat /\ request[q].now \in Nat
  BY <1>1 DEF Resolving
<1> QED  BY <1>1, <1>2, <1>3, <1>4 DEF IInv, TypeOK, Exists, NoSession

LEMMA FindByDigestKeeps ==
  ASSUME IInv, NEW q \in Requests, NEW s \in SessionIds, FindByDigest(q, s)
  PROVE  IInv'
<1> DEFINE step == [pc |-> "read", session |-> s, now |-> now, idleExpiresAt |-> sessions[s].idleExpiresAt]
<1>1. now \in Nat /\ sessions[s] \in SessionRecord /\ Exists(s)
  BY DEF IInv, TypeOK, FindByDigest, NoSession, Exists
<1>2. step \in Resolving
  BY <1>1 DEF Resolving, SessionRecord
<1>3. RequestHolds(step, sessions, now)
  BY <1>1, <1>2 DEF RequestHolds, Exists, IInv, LifetimesHold
<1>4. request' = [request EXCEPT ![q] = step] /\ UNCHANGED <<now, accounts, sessions>>
  BY DEF FindByDigest, Goto
<1> HIDE DEF step
<1>5. now' \in Nat /\ now <= now' /\ accounts' \in [Accounts -> AccountState]
  BY <1>4 DEF IInv, TypeOK
<1>6. \E r \in Requests : \E st : RequestHolds(st, sessions, now) /\ request' = [request EXCEPT ![r] = st]
  BY <1>3, <1>4
<1> QED  BY <1>4, <1>5, <1>6, SessionsUnchanged, SessionsStay

LEMMA JudgeKeeps ==
  ASSUME IInv, NEW q \in Requests, Judge(q)
  PROVE  IInv'
<1> DEFINE r == request[q]
           step == [r EXCEPT !.pc = IF Lapsed(r) THEN "expiring" ELSE "judged", !.now = now]
<1>0. r.pc = "read"
  BY DEF Judge
<1>1. /\ r \in Resolving /\ r.session \in SessionIds /\ r.idleExpiresAt \in Nat
      /\ sessions[r.session] \in SessionRecord /\ RequestHolds(r, sessions, now)
  BY <1>0, UnderWay
<1>2. now \in Nat
  BY DEF IInv, TypeOK
<1>3. request' = [request EXCEPT ![q] = step] /\ UNCHANGED <<now, accounts, sessions>>
  BY DEF Judge, Goto
<1>4. RequestHolds(step, sessions, now)
  <2>1. CASE Lapsed(r)
    <3>1. step \in Resolving /\ step.pc = "expiring" /\ step.session = r.session /\ step.idleExpiresAt = r.idleExpiresAt
      BY <1>1, <1>2, <2>1 DEF Resolving
    <3> QED  BY <1>0, <1>1, <2>1, <3>1 DEF RequestHolds
  <2>2. CASE ~Lapsed(r)
    <3>1. step \in Resolving /\ step.pc = "judged" /\ step.session = r.session
          /\ step.idleExpiresAt = r.idleExpiresAt /\ step.now = now
      BY <1>1, <1>2, <2>2 DEF Resolving
    <3>2. now < sessions[r.session].absoluteExpiresAt
      BY <1>1, <1>2, <2>2 DEF Lapsed, SessionRecord
    <3> QED  BY <1>0, <1>1, <3>1, <3>2 DEF RequestHolds
  <2> QED  BY <2>1, <2>2
<1> HIDE DEF step, r
<1>5. now' \in Nat /\ now <= now' /\ accounts' \in [Accounts -> AccountState]
  BY <1>2, <1>3 DEF IInv, TypeOK
<1>6. \E t \in Requests : \E st : RequestHolds(st, sessions, now) /\ request' = [request EXCEPT ![t] = st]
  BY <1>3, <1>4
<1> QED  BY <1>3, <1>5, <1>6, SessionsUnchanged, SessionsStay

LEMMA ReadAccountKeeps ==
  ASSUME IInv, NEW q \in Requests, ReadAccount(q)
  PROVE  IInv'
<1> DEFINE r == request[q]
<1>0. r.pc = "judged"
  BY DEF ReadAccount
<1>1. /\ r \in Resolving /\ r.session \in SessionIds /\ r.idleExpiresAt \in Nat /\ r.now \in Nat
      /\ sessions[r.session] \in SessionRecord /\ RequestHolds(r, sessions, now) /\ Exists(r.session)
  BY <1>0, UnderWay
<1>2. now' \in Nat /\ now <= now' /\ accounts' \in [Accounts -> AccountState] /\ sessions \in SessionsType
  BY DEF IInv, TypeOK, ReadAccount, SessionsType
<1>3. CASE sessions' = Used(sessions, r.session, r.now) /\ Goto(q, Waiting)
  <2> DEFINE s == r.session
  <2>1. /\ sessions' \in SessionsType /\ sessions'[s] \in SessionRecord
        /\ \A x \in SessionIds \ {s} : sessions'[x] = sessions[x]
        /\ sessions'[s].createdAt = sessions[s].createdAt
        /\ sessions'[s].idleExpiresAt = sessions[s].idleExpiresAt
        /\ sessions'[s].absoluteExpiresAt = sessions[s].absoluteExpiresAt
        /\ sessions'[s].replaced = sessions[s].replaced
        /\ sessions'[s].used >= sessions[s].used
        /\ sessions'[s].used \in {sessions[s].used, r.now}
    BY <1>1, <1>2, <1>3, TypeOfUsed DEF SessionsType
  <2>2. r.now < sessions[s].absoluteExpiresAt
    BY <1>0, <1>1 DEF RequestHolds
  <2> HIDE DEF s
  <2>3. \A x \in SessionIds : Exists(x) => sessions[x] \in SessionRecord /\ sessions[x].used \in Nat
    BY <1>2 DEF SessionsType, Exists, NoSession, SessionRecord
  <2>4. Keeps(sessions, sessions') /\ Adds(sessions, sessions')
    BY <1>1, <2>1, <2>3 DEF Keeps, Adds, Exists, s
  <2>5. ASSUME NEW x \in SessionIds, Exists(x)
        PROVE  /\ sessions'[x].idleExpiresAt <= sessions[x].absoluteExpiresAt
               /\ sessions'[x].idleExpiresAt <= sessions'[x].used + Idle
               /\ sessions'[x].used > sessions[x].createdAt => sessions'[x].used < sessions[x].absoluteExpiresAt
    <3>1. /\ sessions[x].idleExpiresAt <= sessions[x].absoluteExpiresAt
          /\ sessions[x].idleExpiresAt <= sessions[x].used + Idle
          /\ sessions[x].used > sessions[x].createdAt => sessions[x].used < sessions[x].absoluteExpiresAt
      BY <2>5 DEF IInv, LifetimesHold
    <3>2. CASE x # s
      BY <2>1, <3>1, <3>2
    <3>3. CASE x = s
      <4>1. sessions'[s].used \in Nat /\ sessions[s].used \in Nat /\ sessions[s].idleExpiresAt \in Nat /\ Idle \in Nat
        BY <1>1, <2>1, OptionsAssumption DEF SessionRecord, s
      <4>2. sessions'[s].idleExpiresAt <= sessions'[s].used + Idle
        BY <2>1, <3>1, <3>3, <4>1
      <4> QED  BY <2>1, <2>2, <3>1, <3>3, <4>2
    <3> QED  BY <3>2, <3>3
  <2>6. \A x \in SessionIds : ~(~Exists(x) /\ Exists(x)')
    BY <1>1, <2>1 DEF Exists, s
  <2>7. \E t \in Requests : \E st : RequestHolds(st, sessions, now) /\ request' = [request EXCEPT ![t] = st]
    BY <1>3, WaitingHolds DEF Goto
  <2> QED  BY <1>2, <2>1, <2>4, <2>5, <2>6, <2>7, SessionsStay
<1>4. CASE UNCHANGED sessions /\ \E step : RequestHolds(step, sessions, now) /\ Goto(q, step)
  <2>1. \E t \in Requests : \E st : RequestHolds(st, sessions, now) /\ request' = [request EXCEPT ![t] = st]
    BY <1>4 DEF Goto
  <2> QED  BY <1>2, <1>4, <2>1, SessionsUnchanged, SessionsStay
<1>5. /\ RequestHolds([r EXCEPT !.pc = "renewing"], sessions, now)
      /\ RequestHolds([r EXCEPT !.pc = "revoking"], sessions, now)
  BY <1>0, <1>1 DEF RequestHolds, Resolving
<1> QED  BY <1>3, <1>4, <1>5, WaitingHolds DEF ReadAccount

\* What Updated leaves, given an expiry within the session's lifetimes.
LEMMA SessionsUpdated ==
  ASSUME IInv, NEW s \in SessionIds, Exists(s), NEW state \in {"active", "revoked", "expired"},
         NEW e \in Nat, e <= sessions[s].absoluteExpiresAt
  PROVE  /\ Updated(s, state, e) \in SessionsType
         /\ Keeps(sessions, Updated(s, state, e)) /\ Adds(sessions, Updated(s, state, e))
         /\ \A x \in SessionIds : /\ Exists(x) =>
                                       /\ Updated(s, state, e)[x].used = sessions[x].used
                                       /\ \/ Updated(s, state, e)[x].idleExpiresAt = sessions[x].idleExpiresAt
                                          \/ x = s /\ Updated(s, state, e)[x].idleExpiresAt = e
                                  /\ ~Exists(x) => Updated(s, state, e)[x] = sessions[x]
<1>1. TypeOK
  BY DEF IInv
<1> DEFINE tt == Updated(s, state, e)
<1>2. tt \in SessionsType
  BY <1>1, TypeOfUpdated DEF SessionsType
<1>3. ASSUME NEW x \in SessionIds
      PROVE /\ Exists(x) => /\ tt[x] \in SessionRecord
                            /\ tt[x].createdAt = sessions[x].createdAt
                            /\ tt[x].absoluteExpiresAt = sessions[x].absoluteExpiresAt
                            /\ tt[x].replaced = sessions[x].replaced
                            /\ tt[x].used = sessions[x].used
                            /\ \/ tt[x].idleExpiresAt = sessions[x].idleExpiresAt
                               \/ x = s /\ tt[x].idleExpiresAt = e
            /\ ~Exists(x) => tt[x] = sessions[x]
  BY <1>1, TypeOfUpdated
<1> HIDE DEF tt
<1>4. \A x \in SessionIds : Exists(x) => tt[x].used >= sessions[x].used
  BY <1>3 DEF SessionRecord
<1>5. Keeps(sessions, tt) /\ Adds(sessions, tt)
  BY <1>3, <1>4 DEF Keeps, Adds, Exists
<1> QED  BY <1>2, <1>3, <1>5 DEF tt

LEMMA ExpireKeeps ==
  ASSUME IInv, NEW q \in Requests, Expire(q)
  PROVE  IInv'
<1> DEFINE r == request[q]
<1>0. r.pc = "expiring"
  BY DEF Expire
<1>1. /\ r.session \in SessionIds /\ r.idleExpiresAt \in Nat
      /\ sessions[r.session] \in SessionRecord /\ RequestHolds(r, sessions, now) /\ Exists(r.session)
  BY <1>0, UnderWay
<1>2. /\ r.idleExpiresAt <= sessions[r.session].absoluteExpiresAt
      /\ r.idleExpiresAt <= sessions[r.session].used + Idle
  BY <1>0, <1>1 DEF RequestHolds
<1>3. /\ sessions' = Updated(r.session, "expired", r.idleExpiresAt) /\ UNCHANGED <<now, accounts>>
      /\ request' = [request EXCEPT ![q] = Waiting]
  BY DEF Expire, Goto
<1> HIDE DEF r
<1>4. /\ sessions' \in SessionsType /\ Keeps(sessions, sessions') /\ Adds(sessions, sessions')
      /\ \A x \in SessionIds : /\ Exists(x) =>
                                    /\ sessions'[x].used = sessions[x].used
                                    /\ \/ sessions'[x].idleExpiresAt = sessions[x].idleExpiresAt
                                       \/ x = r.session /\ sessions'[x].idleExpiresAt = r.idleExpiresAt
                               /\ ~Exists(x) => sessions'[x] = sessions[x]
  BY <1>1, <1>2, <1>3, SessionsUpdated
<1>5. ASSUME NEW x \in SessionIds, Exists(x)
      PROVE  /\ sessions'[x].idleExpiresAt <= sessions[x].absoluteExpiresAt
             /\ sessions'[x].idleExpiresAt <= sessions'[x].used + Idle
             /\ sessions'[x].used > sessions[x].createdAt => sessions'[x].used < sessions[x].absoluteExpiresAt
  BY <1>2, <1>4, <1>5 DEF IInv, LifetimesHold
<1>6. \A x \in SessionIds : ~(~Exists(x) /\ Exists(x)')
  BY <1>4 DEF Exists
<1>7. now' \in Nat /\ now <= now' /\ accounts' \in [Accounts -> AccountState]
  BY <1>3 DEF IInv, TypeOK
<1>8. \E t \in Requests : \E st : RequestHolds(st, sessions, now) /\ request' = [request EXCEPT ![t] = st]
  BY <1>3, WaitingHolds
<1> QED  BY <1>4, <1>5, <1>6, <1>7, <1>8, SessionsStay

LEMMA RenewKeeps ==
  ASSUME IInv, NEW q \in Requests, Renew(q)
  PROVE  IInv'
<1> DEFINE r == request[q]
           s == r.session
           e == Renewed(r)
           tt == Updated(s, "active", e)
<1>0. r.pc = "renewing"
  BY DEF Renew
<1>1. /\ s \in SessionIds /\ r.now \in Nat
      /\ sessions[s] \in SessionRecord /\ RequestHolds(r, sessions, now) /\ Exists(s)
  BY <1>0, UnderWay
<1>2. r.now < sessions[s].absoluteExpiresAt
  BY <1>0, <1>1 DEF RequestHolds
<1>3. /\ sessions' = Used(tt, s, r.now) /\ UNCHANGED <<now, accounts>>
      /\ request' = [request EXCEPT ![q] = Waiting]
  BY DEF Renew, Goto
<1>4. e \in Nat /\ e <= r.now + Idle /\ e <= sessions[s].absoluteExpiresAt
  <2>1. r.now + Idle \in Nat /\ sessions[s].absoluteExpiresAt \in Nat
    BY <1>1, OptionsAssumption DEF SessionRecord
  <2> QED  BY <2>1, LeastOfTwo DEF Renewed
<1> HIDE DEF e, s, r
<1>5. /\ tt \in SessionsType /\ Keeps(sessions, tt) /\ Adds(sessions, tt)
      /\ \A x \in SessionIds : /\ Exists(x) =>
                                    /\ tt[x].used = sessions[x].used
                                    /\ \/ tt[x].idleExpiresAt = sessions[x].idleExpiresAt
                                       \/ x = s /\ tt[x].idleExpiresAt = e
                               /\ ~Exists(x) => tt[x] = sessions[x]
  BY <1>1, <1>4, SessionsUpdated
<1> HIDE DEF tt
<1>6. tt[s] \in SessionRecord /\ tt[s].used = sessions[s].used
  BY <1>1, <1>5 DEF Keeps, Exists
<1>7. /\ sessions' \in SessionsType /\ sessions'[s] \in SessionRecord
      /\ \A x \in SessionIds \ {s} : sessions'[x] = tt[x]
      /\ sessions'[s].createdAt = tt[s].createdAt
      /\ sessions'[s].idleExpiresAt = tt[s].idleExpiresAt
      /\ sessions'[s].absoluteExpiresAt = tt[s].absoluteExpiresAt
      /\ sessions'[s].replaced = tt[s].replaced
      /\ sessions'[s].used >= tt[s].used /\ sessions'[s].used >= r.now
      /\ sessions'[s].used \in {tt[s].used, r.now}
  BY <1>1, <1>3, <1>5, <1>6, TypeOfUsed DEF SessionsType
<1>8. Keeps(sessions, sessions') /\ Adds(sessions, sessions')
  BY <1>1, <1>5, <1>6, <1>7 DEF Keeps, Adds, Exists
<1>9. ASSUME NEW x \in SessionIds, Exists(x)
      PROVE  /\ sessions'[x].idleExpiresAt <= sessions[x].absoluteExpiresAt
             /\ sessions'[x].idleExpiresAt <= sessions'[x].used + Idle
             /\ sessions'[x].used > sessions[x].createdAt => sessions'[x].used < sessions[x].absoluteExpiresAt
  <2>1. /\ sessions[x].idleExpiresAt <= sessions[x].absoluteExpiresAt
        /\ sessions[x].idleExpiresAt <= sessions[x].used + Idle
        /\ sessions[x].used > sessions[x].createdAt => sessions[x].used < sessions[x].absoluteExpiresAt
    BY <1>9 DEF IInv, LifetimesHold
  <2>2. CASE x # s
    BY <1>5, <1>7, <1>9, <2>1, <2>2
  <2>3. CASE x = s
    <3>1. sessions'[s].used \in Nat /\ sessions[s].used \in Nat /\ sessions[s].idleExpiresAt \in Nat /\ Idle \in Nat
      BY <1>1, <1>7, OptionsAssumption DEF SessionRecord
    <3>2. sessions'[s].idleExpiresAt \in {sessions[s].idleExpiresAt, e}
      BY <1>1, <1>5, <1>7
    <3>3. sessions'[s].idleExpiresAt <= sessions'[s].used + Idle
      BY <1>1, <1>4, <1>6, <1>7, <2>1, <2>3, <3>1, <3>2
    <3>4. sessions'[s].idleExpiresAt <= sessions[s].absoluteExpiresAt
      BY <1>4, <2>1, <2>3, <3>2
    <3>5. sessions'[s].used > sessions[s].createdAt => sessions'[s].used < sessions[s].absoluteExpiresAt
      BY <1>2, <1>6, <1>7, <2>1, <2>3
    <3> QED  BY <2>3, <3>3, <3>4, <3>5
  <2> QED  BY <2>2, <2>3
<1>10. \A x \in SessionIds : ~(~Exists(x) /\ Exists(x)')
  BY <1>1, <1>5, <1>7 DEF Exists
<1>11. now' \in Nat /\ now <= now' /\ accounts' \in [Accounts -> AccountState]
  BY <1>3 DEF IInv, TypeOK
<1>12. \E t \in Requests : \E st : RequestHolds(st, sessions, now) /\ request' = [request EXCEPT ![t] = st]
  BY <1>3, WaitingHolds
<1> QED  BY <1>7, <1>8, <1>9, <1>10, <1>11, <1>12, SessionsStay

LEMMA RevokeDisabledKeeps ==
  ASSUME IInv, NEW q \in Requests, RevokeDisabled(q)
  PROVE  IInv'
<1>1. request[q].session \in SessionIds /\ sessions' = Revoked(request[q].session)
  BY UnderWay DEF RevokeDisabled
<1>2. \E t \in Requests : \E st : RequestHolds(st, sessions, now) /\ request' = [request EXCEPT ![t] = st]
  BY WaitingHolds DEF RevokeDisabled, Goto
<1>3. now' \in Nat /\ now <= now' /\ accounts' \in [Accounts -> AccountState]
  BY DEF IInv, TypeOK, RevokeDisabled
<1> QED  BY <1>1, <1>2, <1>3, SessionsRevoked, SessionsStay

LEMMA SignOutKeeps ==
  ASSUME IInv, NEW s \in SessionIds, SignOut(s)
  PROVE  IInv'
<1>1. sessions' = Revoked(s) /\ UNCHANGED <<now, accounts, request>>
  BY DEF SignOut
<1>2. now' \in Nat /\ now <= now' /\ accounts' \in [Accounts -> AccountState]
  BY <1>1 DEF IInv, TypeOK
<1> QED  BY <1>1, <1>2, SessionsRevoked, SessionsStay

LEMMA ReplaceKeeps ==
  ASSUME IInv, NEW q \in Requests, NEW s \in SessionIds, Replace(q, s)
  PROVE  IInv'
<1> DEFINE r == request[q]
           record == [account |-> r.account, state |-> "active", createdAt |-> r.now,
                      idleExpiresAt |-> r.now + Idle, absoluteExpiresAt |-> r.now + Absolute,
                      replaced |-> r.previous, used |-> r.now]
<1>1. r \in SigningIn /\ RequestHolds(r, sessions, now)
  BY DEF IInv, TypeOK, RequestsHold, Replace, Waiting, Resolving
<1>2. /\ r.now \in Nat /\ r.previous \in SessionIds \cup {None} /\ r.account \in Accounts
      /\ r.previous # None => sessions[r.previous].state # "absent"
  BY <1>1 DEF RequestHolds, SigningIn, Replace
<1>3. record \in SessionRecord
  BY <1>2, OptionsAssumption DEF SessionRecord
<1>4. /\ ~Exists(s) /\ sessions' = Replaced(r.previous, s, record) /\ UNCHANGED <<now, accounts>>
      /\ request' = [request EXCEPT ![q] = Waiting]
  BY DEF Replace, Goto
<1>5. record.createdAt = r.now /\ record.idleExpiresAt = r.now + Idle /\ record.used = r.now
      /\ record.absoluteExpiresAt = r.now + Absolute /\ record.replaced = r.previous
  OBVIOUS
<1> HIDE DEF record, r
<1>6. ASSUME NEW x \in SessionIds
      PROVE  sessions'[x] = IF x = s THEN record ELSE IF x = r.previous THEN Revoked(x)[x] ELSE sessions[x]
  BY <1>4 DEF Replaced
<1>7. ASSUME NEW x \in SessionIds, x # s
      PROVE /\ sessions'[x] \in SessionRecord \cup {NoSession}
            /\ Exists(x) => /\ sessions'[x] \in SessionRecord
                            /\ sessions'[x].createdAt = sessions[x].createdAt
                            /\ sessions'[x].absoluteExpiresAt = sessions[x].absoluteExpiresAt
                            /\ sessions'[x].idleExpiresAt = sessions[x].idleExpiresAt
                            /\ sessions'[x].replaced = sessions[x].replaced
                            /\ sessions'[x].used = sessions[x].used
            /\ ~Exists(x) => sessions'[x] = sessions[x]
  <2>1. CASE x = r.previous
    <3>1. sessions'[x] = Revoked(x)[x]
      BY <1>6, <1>7, <2>1
    <3> QED  BY <3>1, TypeOfRevoked DEF IInv
  <2>2. CASE x # r.previous
    <3>1. sessions'[x] = sessions[x]
      BY <1>6, <1>7, <2>2
    <3> QED  BY <3>1 DEF IInv, TypeOK, Exists, NoSession
  <2> QED  BY <2>1, <2>2
<1>8. sessions' \in SessionsType
  <2>1. \A x \in SessionIds : sessions'[x] \in SessionRecord \cup {NoSession}
    BY <1>3, <1>6, <1>7
  <2>2. sessions' = [x \in SessionIds |-> sessions'[x]]
    BY <1>4 DEF Replaced
  <2> QED  BY <2>1, <2>2 DEF SessionsType
<1>9. \A x \in SessionIds : Exists(x) => sessions'[x].used >= sessions[x].used
  BY <1>4, <1>7 DEF SessionRecord
<1>10. Keeps(sessions, sessions')
  BY <1>4, <1>7, <1>9 DEF Keeps, Exists
<1>11. Adds(sessions, sessions')
  BY <1>2, <1>4, <1>5, <1>6, <1>7 DEF Adds, Exists
<1>12. ASSUME NEW x \in SessionIds, Exists(x)
       PROVE  /\ sessions'[x].idleExpiresAt <= sessions[x].absoluteExpiresAt
              /\ sessions'[x].idleExpiresAt <= sessions'[x].used + Idle
              /\ sessions'[x].used > sessions[x].createdAt => sessions'[x].used < sessions[x].absoluteExpiresAt
  BY <1>4, <1>7, <1>12 DEF IInv, LifetimesHold
<1>13. ASSUME NEW x \in SessionIds, ~Exists(x), Exists(x)'
       PROVE  /\ sessions'[x].used = sessions'[x].createdAt
              /\ sessions'[x].idleExpiresAt = sessions'[x].createdAt + Idle
              /\ sessions'[x].absoluteExpiresAt = sessions'[x].createdAt + Absolute
  BY <1>5, <1>6, <1>7, <1>13 DEF Exists
<1>14. now' \in Nat /\ now <= now' /\ accounts' \in [Accounts -> AccountState]
  BY <1>4 DEF IInv, TypeOK
<1>15. \E t \in Requests : \E st : RequestHolds(st, sessions, now) /\ request' = [request EXCEPT ![t] = st]
  BY <1>4, WaitingHolds
<1> QED  BY <1>8, <1>10, <1>11, <1>12, <1>13, <1>14, <1>15, SessionsStay

LEMMA NextKeeps == ASSUME IInv, [Next]_vars PROVE IInv'
<1>1. CASE Tick
  <2>1. now' \in Nat /\ now <= now' /\ UNCHANGED <<accounts, sessions, request>>
    BY <1>1 DEF Tick, IInv, TypeOK
  <2>2. accounts' \in [Accounts -> AccountState]
    BY <2>1 DEF IInv, TypeOK
  <2> QED  BY <2>1, <2>2, SessionsUnchanged, SessionsStay
<1>2. ASSUME NEW a \in Accounts, NEW state \in AccountState, SetAccountState(a, state)
      PROVE  IInv'
  <2>1. now' \in Nat /\ now <= now' /\ UNCHANGED <<sessions, request>>
    BY <1>2 DEF SetAccountState, IInv, TypeOK
  <2>2. accounts' \in [Accounts -> AccountState]
    BY <1>2 DEF SetAccountState, IInv, TypeOK
  <2> QED  BY <2>1, <2>2, SessionsUnchanged, SessionsStay
<1>3. CASE UNCHANGED vars
  <2>1. now' \in Nat /\ now <= now' /\ UNCHANGED <<accounts, sessions, request>>
    BY <1>3 DEF vars, IInv, TypeOK
  <2>2. accounts' \in [Accounts -> AccountState]
    BY <2>1 DEF IInv, TypeOK
  <2> QED  BY <2>1, <2>2, SessionsUnchanged, SessionsStay
<1> QED
  BY <1>1, <1>2, <1>3, SignOutKeeps, SignInKeeps, ReplaceKeeps, FindByDigestKeeps, JudgeKeeps,
     ExpireKeeps, ReadAccountKeeps, RenewKeeps, RevokeDisabledKeeps DEF Next
-----------------------------------------------------------------------------
(* The theorems.                                                           *)

\* The invariant of the service, whichever repository it has.
THEOREM Invariance == Spec => []IInv
<1>1. Init => IInv
  BY InitIInv
<1>2. IInv /\ [Next]_vars => IInv'
  BY NextKeeps
<1> QED  BY <1>1, <1>2, PTL DEF Spec

\* The accounts, the sessions and the requests have their shapes.
THEOREM TypeCorrect == Spec => []TypeOK
BY Invariance, PTL DEF IInv

\* However requests renew it from what they read before, a session keeps its
\* absolute lifetime and lasts no more than the idle time past its last use.
THEOREM SessionsKeepTheirLifetimes == Spec => []LifetimesHold
BY Invariance, PTL DEF IInv

-----------------------------------------------------------------------------
(* With the conditional updates of the Prisma repository.                  *)

Ended(s) == sessions[s].state \in {"revoked", "expired"}

LEMMA StepKeepsEnded ==
  ASSUME IInv, [Next]_vars, Conditional = TRUE, NEW s \in SessionIds, Ended(s)
  PROVE  sessions'[s].state = sessions[s].state
<1>0. Exists(s) /\ sessions[s].state # "active" /\ TypeOK /\ sessions \in SessionsType
  BY DEF Ended, Exists, IInv, TypeOK, SessionsType
<1>1. ASSUME NEW t \in SessionIds, sessions' = Revoked(t)
      PROVE  sessions'[s].state = sessions[s].state
  BY <1>0, <1>1, TypeOfRevoked DEF Ended
<1>2. ASSUME NEW q \in Requests, NEW t \in SessionIds, Replace(q, t)
      PROVE  sessions'[s].state = sessions[s].state
  <2>1. s # t
    BY <1>0, <1>2 DEF Replace
  <2>2. sessions'[s] = sessions[s] \/ sessions'[s] = Revoked(s)[s]
    BY <1>2, <2>1 DEF Replace, Replaced
  <2> QED  BY <1>0, <2>2, TypeOfRevoked DEF Ended
<1>3. ASSUME NEW q \in Requests, Expire(q)
      PROVE  sessions'[s].state = sessions[s].state
  <2>1. request[q].session \in SessionIds /\ request[q].idleExpiresAt \in Nat /\ Exists(request[q].session)
    BY <1>3, UnderWay DEF Expire
  <2>2. sessions' = Updated(request[q].session, "expired", request[q].idleExpiresAt)
    BY <1>3 DEF Expire
  <2> QED  BY <1>0, <2>1, <2>2, TypeOfUpdated DEF Ended
<1>4. ASSUME NEW q \in Requests, ReadAccount(q)
      PROVE  sessions'[s].state = sessions[s].state
  <2>1. CASE UNCHANGED sessions
    BY <2>1
  <2>2. CASE sessions' = Used(sessions, request[q].session, request[q].now)
    <3>1. /\ request[q].session \in SessionIds /\ request[q].now \in Nat
          /\ sessions[request[q].session] \in SessionRecord
      BY <1>4, UnderWay DEF ReadAccount
    <3> QED  BY <1>0, <2>2, <3>1, TypeOfUsed DEF SessionsType
  <2> QED  BY <1>4, <2>1, <2>2 DEF ReadAccount
<1>5. ASSUME NEW q \in Requests, Renew(q)
      PROVE  sessions'[s].state = sessions[s].state
  <2> DEFINE r == request[q]
             e == Renewed(r)
             tt == Updated(r.session, "active", e)
  <2>1. /\ r.session \in SessionIds /\ r.now \in Nat /\ Exists(r.session)
        /\ sessions[r.session] \in SessionRecord
    BY <1>5, UnderWay DEF Renew
  <2>2. e \in Nat
    <3>1. r.now + Idle \in Nat /\ sessions[r.session].absoluteExpiresAt \in Nat
      BY <2>1, OptionsAssumption DEF SessionRecord
    <3> QED  BY <3>1, LeastOfTwo DEF Renewed
  <2>3. sessions' = Used(tt, r.session, r.now)
    BY <1>5 DEF Renew
  <2> HIDE DEF e
  <2>4. /\ tt \in SessionsType /\ tt[r.session] \in SessionRecord /\ tt[s].state = sessions[s].state
    BY <1>0, <2>1, <2>2, TypeOfUpdated DEF Ended, SessionsType
  <2> HIDE DEF r, tt
  <2>5. sessions'[s].state = tt[s].state
    BY <2>1, <2>3, <2>4, TypeOfUsed DEF SessionsType
  <2> QED  BY <2>4, <2>5
<1>6. CASE UNCHANGED sessions
  BY <1>6
<1>7. ASSUME NEW q \in Requests, RevokeDisabled(q)
      PROVE  sessions'[s].state = sessions[s].state
  BY <1>1, <1>7, UnderWay DEF RevokeDisabled
<1> QED
  BY <1>1, <1>2, <1>3, <1>4, <1>5, <1>6, <1>7
  DEF Next, vars, Tick, SetAccountState, SignOut, SignIn, FindByDigest, Judge

LEMMA ReplacedIsOverKept ==
  ASSUME IInv, [Next]_vars, Conditional = TRUE, ReplacedIsOver, IInv'
  PROVE  ReplacedIsOver'
<1> SUFFICES ASSUME NEW s \in SessionIds, Exists(s)', sessions'[s].replaced # None
             PROVE  sessions'[sessions'[s].replaced].state # "active"
  BY DEF ReplacedIsOver
<1> DEFINE p == sessions'[s].replaced
<1>1. /\ sessions'[s] \in SessionRecord /\ p \in SessionIds
  BY DEF IInv, TypeOK, Exists, NoSession, SessionRecord
<1>2. TypeOK /\ sessions \in SessionsType
  BY DEF IInv, TypeOK, SessionsType
<1>3. ASSUME Exists(p), sessions[p].state # "active" PROVE sessions'[p].state # "active"
  <2>1. Ended(p)
    BY <1>1, <1>2, <1>3 DEF Ended, Exists, SessionsType, SessionRecord, NoSession
  <2> QED  BY <1>1, <1>3, <2>1, StepKeepsEnded
<1>4. CASE Exists(s) /\ sessions[s].replaced = p
  <2>1. Exists(p)
    BY <1>1, <1>2, <1>4 DEF TypeOK
  <2>2. sessions[p].state # "active"
    BY <1>4 DEF ReplacedIsOver
  <2> QED  BY <1>3, <2>1, <2>2
<1>5. CASE \E q \in Requests, t \in SessionIds : Replace(q, t)
  <2>1. PICK q \in Requests, t \in SessionIds : Replace(q, t)
    BY <1>5
  <2> DEFINE r == request[q]
  <2>2. CASE s = t
    <3>1. p = r.previous
      BY <2>1, <2>2 DEF Replace, Replaced
    <3>2. r.previous # None => Exists(r.previous)
      BY <2>1 DEF IInv, RequestsHold, RequestHolds, Replace, Exists
    <3>3. Exists(p) /\ p # t
      BY <2>1, <3>1, <3>2 DEF Replace
    <3>4. sessions'[p] = Revoked(p)[p]
      BY <1>1, <2>1, <3>1, <3>3 DEF Replace, Replaced
    <3> QED  BY <1>1, <1>2, <3>3, <3>4, TypeOfRevoked
  <2>3. CASE s # t
    <3>1. sessions'[s] = sessions[s] \/ sessions'[s] = Revoked(s)[s]
      BY <2>1, <2>3 DEF Replace, Replaced
    <3>2. Exists(s) /\ sessions[s].replaced = sessions'[s].replaced
      BY <1>2, <3>1, TypeOfRevoked DEF Exists
    <3> QED  BY <1>4, <3>2
  <2> QED  BY <2>2, <2>3
<1>6. CASE ~\E q \in Requests, t \in SessionIds : Replace(q, t)
  <2>1. Exists(s) /\ sessions[s].replaced = p
    <3>1. CASE UNCHANGED sessions
      BY <3>1 DEF Exists
    <3>2. ASSUME NEW t \in SessionIds, sessions' = Revoked(t)
          PROVE  Exists(s) /\ sessions[s].replaced = p
      BY <1>2, <3>2, TypeOfRevoked DEF Exists
    <3>3. ASSUME NEW q \in Requests, Expire(q)
          PROVE  Exists(s) /\ sessions[s].replaced = p
      <4>1. request[q].session \in SessionIds /\ request[q].idleExpiresAt \in Nat /\ Exists(request[q].session)
        BY <3>3, UnderWay DEF Expire
      <4>2. sessions' = Updated(request[q].session, "expired", request[q].idleExpiresAt)
        BY <3>3 DEF Expire
      <4> QED  BY <1>2, <4>1, <4>2, TypeOfUpdated DEF Exists
    <3>4. ASSUME NEW q \in Requests, ReadAccount(q)
          PROVE  Exists(s) /\ sessions[s].replaced = p
      <4>1. CASE sessions' = Used(sessions, request[q].session, request[q].now)
        <5>1. /\ request[q].session \in SessionIds /\ request[q].now \in Nat
              /\ sessions[request[q].session] \in SessionRecord
          BY <3>4, UnderWay DEF ReadAccount
        <5> QED  BY <1>2, <4>1, <5>1, TypeOfUsed DEF SessionsType, Exists
      <4> QED  BY <3>1, <3>4, <4>1 DEF ReadAccount
    <3>5. ASSUME NEW q \in Requests, Renew(q)
          PROVE  Exists(s) /\ sessions[s].replaced = p
      <4> DEFINE r == request[q]
                 e == Renewed(r)
                 tt == Updated(r.session, "active", e)
      <4>1. /\ r.session \in SessionIds /\ r.now \in Nat /\ Exists(r.session)
            /\ sessions[r.session] \in SessionRecord
        BY <3>5, UnderWay DEF Renew
      <4>2. e \in Nat
        <5>1. r.now + Idle \in Nat /\ sessions[r.session].absoluteExpiresAt \in Nat
          BY <4>1, OptionsAssumption DEF SessionRecord
        <5> QED  BY <5>1, LeastOfTwo DEF Renewed
      <4>3. sessions' = Used(tt, r.session, r.now)
        BY <3>5 DEF Renew
      <4> HIDE DEF e
      <4>4. /\ tt \in SessionsType /\ tt[r.session] \in SessionRecord
            /\ Exists(s) => tt[s].replaced = sessions[s].replaced
            /\ ~Exists(s) => tt[s] = sessions[s]
        BY <1>2, <4>1, <4>2, TypeOfUpdated DEF SessionsType
      <4> HIDE DEF r, tt
      <4>5. sessions'[s].state = tt[s].state /\ sessions'[s].replaced = tt[s].replaced
        BY <4>1, <4>3, <4>4, TypeOfUsed DEF SessionsType
      <4> QED  BY <4>4, <4>5 DEF Exists
    <3>6. ASSUME NEW q \in Requests, RevokeDisabled(q)
          PROVE  Exists(s) /\ sessions[s].replaced = p
      BY <3>2, <3>6, UnderWay DEF RevokeDisabled
    <3> HIDE DEF p
    <3> QED
      BY <1>6, <3>1, <3>2, <3>3, <3>4, <3>5, <3>6
      DEF Next, vars, Tick, SetAccountState, SignOut, SignIn, FindByDigest, Judge
  <2> QED  BY <1>4, <2>1
<1> QED  BY <1>5, <1>6

\* No stale renewal or expiry brings back a session that has ended, when the
\* repository compares the state as the Prisma one does.
THEOREM NoSessionIsResurrected == Conditional = TRUE /\ Spec => EndedStaysEnded
<1>1. ASSUME Conditional = TRUE, IInv, [Next]_vars
      PROVE  [\A s \in SessionIds : sessions[s].state \in {"revoked", "expired"} =>
                sessions'[s].state = sessions[s].state]_sessions
  BY <1>1, StepKeepsEnded DEF Ended
<1>2. CASE Conditional = TRUE
  <2>1. IInv /\ [Next]_vars =>
          [\A s \in SessionIds : sessions[s].state \in {"revoked", "expired"} =>
             sessions'[s].state = sessions[s].state]_sessions
    BY <1>1, <1>2
  <2> QED  BY <2>1, Invariance, PTL DEF Spec, EndedStaysEnded
<1>3. CASE Conditional # TRUE
  BY <1>3
<1> QED  BY <1>2, <1>3

\* And a session somebody signed in anew from is over for good.
THEOREM ReplacedSessionsAreOver == Conditional = TRUE /\ Spec => []ReplacedIsOver
<1>1. Init => ReplacedIsOver
  BY DEF Init, ReplacedIsOver, Exists, NoSession
<1>2. CASE Conditional = TRUE
  <2>1. IInv /\ IInv' /\ ReplacedIsOver /\ [Next]_vars => ReplacedIsOver'
    BY <1>2, ReplacedIsOverKept
  <2> QED  BY <1>1, <2>1, Invariance, PTL DEF Spec
<1>3. CASE Conditional # TRUE
  BY <1>3
<1> QED  BY <1>2, <1>3
=============================================================================
