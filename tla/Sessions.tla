------------------------------ MODULE Sessions ------------------------------
(***************************************************************************)
(* Sign-in sessions (server/auth/service.ts over a session repository).    *)
(* Requests run concurrently: every read and every write of the database   *)
(* is a step, and what a request read may be stale when it writes.         *)
(*                                                                         *)
(* A session stands for its token and the digest of it.  Both repositories *)
(* are here: Conditional is TRUE for prisma.ts, whose updates have a WHERE *)
(* clause, and FALSE for in-memory.ts, which stores the record it is given.*)
(***************************************************************************)
EXTENDS Integers, FiniteSetsExt

CONSTANTS
  Accounts, SessionIds, Requests, None,
  Conditional,
  Idle, Absolute, RenewalWindow,   \* AuthenticationOptions
  MaxTime                          \* bound: the last moment

ASSUME ConditionalAssumption == Conditional \in BOOLEAN
ASSUME NoneAssumption == None \notin SessionIds
ASSUME OptionsAssumption == /\ Idle \in Nat /\ Absolute \in Nat
                            /\ RenewalWindow \in Nat /\ MaxTime \in Nat

\* As in the defaults, half an hour and eight hours.
ASSUME IdleAssumption == Idle <= Absolute

VARIABLES
  now,
  accounts,   \* account |-> its state
  sessions,   \* session |-> its record, or NoSession
  request     \* request |-> where it is, its session and what it read

vars == <<now, accounts, sessions, request>>
-----------------------------------------------------------------------------
AccountState == {"active", "suspended", "disabled"}
SessionRecord ==
  [account : Accounts, state : {"active", "revoked", "expired"},
   createdAt : Nat, idleExpiresAt : Nat, absoluteExpiresAt : Nat,
   replaced : SessionIds \cup {None},
   used : Nat]       \* for checking: when it last gave a user, or its creation
NoSession == [state |-> "absent"]

Exists(s) == sessions[s].state # "absent"

\* What a request carries: in "replacing" the session it replaces, else the
\* session it resolves with the idle expiry it read, and its clock.
Waiting == [pc |-> "waiting"]
Resolving == [pc : {"read", "expiring", "judged", "renewing", "revoking"},
              session : SessionIds, idleExpiresAt : Nat, now : Nat]
SigningIn == [pc : {"replacing"}, account : Accounts, now : Nat,
              previous : SessionIds \cup {None}]
-----------------------------------------------------------------------------
Init ==
  /\ now = 0
  /\ accounts = [a \in Accounts |-> "active"]
  /\ sessions = [s \in SessionIds |-> NoSession]
  /\ request = [q \in Requests |-> Waiting]

Tick ==
  /\ now < MaxTime
  /\ now' = now + 1
  /\ UNCHANGED <<accounts, sessions, request>>

\* Operators change the state of an account.
SetAccountState(a, state) ==
  /\ accounts' = [accounts EXCEPT ![a] = state]
  /\ UNCHANGED <<now, sessions, request>>

Goto(q, step) == request' = [request EXCEPT ![q] = step]

\* SessionRepository.revoke, once its session exists.
Revoked(s) ==
  IF sessions[s].state = "active" \/ (~Conditional /\ Exists(s))
  THEN [sessions EXCEPT ![s].state = "revoked"] ELSE sessions

\* A repository that compares nothing.
UpdatedWhole(s, state, idleExpiresAt) ==
  [sessions EXCEPT ![s].state = state, ![s].idleExpiresAt = idleExpiresAt]

\* SessionRepository.update with what request q read: the Prisma repository
\* compares the state (and the rotation, which nothing changes); the other
\* one stores the record as it was read, but for what the caller sets.
Matches(s) == ~Conditional \/ sessions[s].state = "active"
Updated(s, state, idleExpiresAt) ==
  IF Matches(s)
  THEN [sessions EXCEPT ![s].state = state, ![s].idleExpiresAt = idleExpiresAt]
  ELSE sessions
-----------------------------------------------------------------------------
(* signInDevelopment: the account and the clock are read, then one          *)
(* transaction revokes the session of the token the browser still had and   *)
(* creates a new one.                                                       *)

SignIn(q, a, previous) ==
  /\ request[q] = Waiting
  /\ accounts[a] = "active"
  /\ previous # None => Exists(previous)
  /\ Goto(q, [pc |-> "replacing", account |-> a, now |-> now, previous |-> previous])
  /\ UNCHANGED <<now, accounts, sessions>>

\* A sign-in that leaves the session it replaces alone.
CreatedOnly(previous, s, record) == [sessions EXCEPT ![s] = record]

\* SessionRepository.replace.
Replaced(previous, s, record) ==
  [x \in SessionIds |-> IF x = s THEN record
                        ELSE IF x = previous THEN Revoked(x)[x] ELSE sessions[x]]
Replace(q, s) ==
  LET r == request[q] IN
  /\ r.pc = "replacing"
  /\ ~Exists(s)
  /\ sessions' = Replaced(r.previous, s,
       [account |-> r.account, state |-> "active", createdAt |-> r.now,
        idleExpiresAt |-> r.now + Idle, absoluteExpiresAt |-> r.now + Absolute,
        replaced |-> r.previous, used |-> r.now])
  /\ Goto(q, Waiting)
  /\ UNCHANGED <<now, accounts>>

\* signOut; the id it looks up first never changes.
SignOut(s) ==
  /\ Exists(s)
  /\ sessions' = Revoked(s)
  /\ UNCHANGED <<now, accounts, request>>
-----------------------------------------------------------------------------
(* resolve, for a token whose session is active; any other is anonymous.   *)

FindByDigest(q, s) ==
  /\ request[q] = Waiting
  /\ sessions[s].state = "active"
  /\ Goto(q, [pc |-> "read", session |-> s, now |-> now,
              idleExpiresAt |-> sessions[s].idleExpiresAt])
  /\ UNCHANGED <<now, accounts, sessions>>

\* The expiry is judged by the clock of now and the record read before.
Lapsed(r) == \/ r.idleExpiresAt <= now
             \/ sessions[r.session].absoluteExpiresAt <= now
Judge(q) ==
  LET r == request[q] IN
  /\ r.pc = "read"
  /\ Goto(q, [r EXCEPT !.pc = IF Lapsed(r) THEN "expiring" ELSE "judged", !.now = now])
  /\ UNCHANGED <<now, accounts, sessions>>

Expire(q) ==
  LET r == request[q] IN
  /\ r.pc = "expiring"
  /\ sessions' = Updated(r.session, "expired", r.idleExpiresAt)
  /\ Goto(q, Waiting)
  /\ UNCHANGED <<now, accounts>>

\* The request goes on as the session's user.
Used(ss, s, at) == [ss EXCEPT ![s].used = Max({@, at})]

Renews(r) == r.idleExpiresAt - r.now < RenewalWindow
ReadAccount(q) ==
  LET r == request[q]
      state == accounts[sessions[r.session].account]
  IN  /\ r.pc = "judged"
      /\ \/ /\ state = "active" /\ ~Renews(r)
            /\ sessions' = Used(sessions, r.session, r.now)
            /\ Goto(q, Waiting)
         \/ /\ state = "active" /\ Renews(r)
            /\ Goto(q, [r EXCEPT !.pc = "renewing"])
            /\ UNCHANGED sessions
         \/ /\ state = "suspended"
            /\ Goto(q, Waiting)
            /\ UNCHANGED sessions
         \/ /\ state = "disabled"
            /\ Goto(q, [r EXCEPT !.pc = "revoking"])
            /\ UNCHANGED sessions
      /\ UNCHANGED <<now, accounts>>

\* A renewal that forgets the absolute lifetime.
RenewedFromExpiry(r) == r.idleExpiresAt + Idle

Renewed(r) == Min({r.now + Idle, sessions[r.session].absoluteExpiresAt})
Renew(q) ==
  LET r == request[q] IN
  /\ r.pc = "renewing"
  /\ sessions' = Used(Updated(r.session, "active", Renewed(r)), r.session, r.now)
  /\ Goto(q, Waiting)
  /\ UNCHANGED <<now, accounts>>

RevokeDisabled(q) ==
  LET r == request[q] IN
  /\ r.pc = "revoking"
  /\ sessions' = Revoked(r.session)
  /\ Goto(q, Waiting)
  /\ UNCHANGED <<now, accounts>>
-----------------------------------------------------------------------------
Next ==
  \/ Tick
  \/ \E a \in Accounts, state \in AccountState : SetAccountState(a, state)
  \/ \E s \in SessionIds : SignOut(s)
  \/ \E q \in Requests :
       \/ \E a \in Accounts, p \in SessionIds \cup {None} : SignIn(q, a, p)
       \/ \E s \in SessionIds : Replace(q, s) \/ FindByDigest(q, s)
       \/ Judge(q) \/ Expire(q) \/ ReadAccount(q) \/ Renew(q) \/ RevokeDisabled(q)

Spec == Init /\ [][Next]_vars
-----------------------------------------------------------------------------
\* The accounts, the sessions and the requests have their shapes, and a
\* request that is under way, or a successor, names sessions that exist.
TypeOK ==
  /\ now \in Nat
  /\ accounts \in [Accounts -> AccountState]
  /\ sessions \in [SessionIds -> SessionRecord \cup {NoSession}]
  /\ request \in [Requests -> {Waiting} \cup Resolving \cup SigningIn]
  /\ \A q \in Requests : /\ request[q].pc \notin {"waiting", "replacing"} =>
                              Exists(request[q].session)
                         /\ request[q].pc = "replacing" /\ request[q].previous # None =>
                              Exists(request[q].previous)
  /\ \A s \in SessionIds : Exists(s) /\ sessions[s].replaced # None =>
                             Exists(sessions[s].replaced)

\* docs/sprints/sprint-5.5-technical-design.md:97: "`update` must not
\* resurrect a revoked/expired session through a stale renewal": whatever a
\* request read before, a session that has ended does not become active.
EndedStaysEnded ==
  [][\A s \in SessionIds : sessions[s].state \in {"revoked", "expired"} =>
       sessions'[s].state = sessions[s].state]_sessions

\* A session somebody has signed in anew from is over: its token is of no use
\* beside the one that replaced it.
ReplacedIsOver ==
  \A s \in SessionIds : Exists(s) /\ sessions[s].replaced # None =>
    sessions[sessions[s].replaced].state # "active"

\* However requests renew it, a session lasts no longer than its absolute
\* lifetime, nor more than the idle time past its last use.
LifetimesHold ==
  \A s \in SessionIds : Exists(s) =>
    LET r == sessions[s] IN
    /\ r.idleExpiresAt <= r.absoluteExpiresAt
    /\ r.absoluteExpiresAt = r.createdAt + Absolute
    /\ r.idleExpiresAt <= r.used + Idle
    /\ r.used > r.createdAt => r.used < r.absoluteExpiresAt
=============================================================================
