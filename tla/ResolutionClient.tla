-------------------------- MODULE ResolutionClient --------------------------
(***************************************************************************)
(* Clients of the resolution service over an unreliable connection: a      *)
(* client reads a proposal, composes a command with the revision it read   *)
(* and an idempotency key, and sends it, again and again if it likes: any  *)
(* answer may be lost and any request delivered more than once.            *)
(*                                                                         *)
(* The route handlers take the key, the If-Match revision and the digest   *)
(* of the body from the request (server/resolution/transport.ts); service  *)
(* .ts looks the key up before anything else.                              *)
(***************************************************************************)
EXTENDS Resolution

CONSTANTS
  Submits   \* bound: the operations clients send

ASSUME ClientAssumption == Submits \subseteq Operations \ {"propose_resolution"}

VARIABLES
  request,  \* [Accounts -> the command the client is sending, or None]
  reply     \* [Accounts -> the last answer to it, or NoReply]

clientVars == <<vars, request, reply>>

\* A request has an operation, a key, a proposal, a body, the row the client had
\* seen when it composed it, and commits: a history variable, how often the
\* command has taken effect.  A reply has a kind, "created", "replayed",
\* "reused" or "failed", and the proposal it is about.
NoReply == [kind |-> "none"]

-----------------------------------------------------------------------------
(* What the service makes of a delivered request. *)

Bodies(operation) ==
  CASE operation = "submit_dispute" -> [claim : {"claim"}]
    [] operation = "resolve_dispute" -> [dispute : Disputes]
    [] operation = "transition_financial_safety" -> [state : SafetyInputs]
    [] OTHER -> {NoBody}

\* The record idem finds for the request: the scope of a key is the agreement.
RecordOf(a) ==
  {r \in idempotency[request[a].operation] : r.actor = a /\ r.key = request[a].key}

\* Mutant of Recorded: the revision is checked before the key is looked up.
RecordedIfCurrent(a) ==
  /\ RecordOf(a) # {}
  /\ request[a].seen.revision = proposal[request[a].proposal].revision

Recorded(a) == RecordOf(a) # {}

\* The service's step for the request, with its body's parameters.
Performed(a) ==
  LET r == request[a]
      revision == r.seen.revision IN
  \/ /\ r.operation = "submit_dispute"
     /\ \E d \in Disputes : SubmitDispute(a, r.key, r.proposal, revision, d)
  \/ /\ r.operation = "resolve_dispute"
     /\ ResolveDispute(a, r.key, r.proposal, revision, r.body.dispute)
  \/ /\ r.operation = "grant_authorization"
     /\ GrantAuthorization(a, r.key, r.proposal, revision)
  \/ /\ r.operation = "revoke_authorization"
     /\ RevokeAuthorization(a, r.key, r.proposal, revision)
  \/ /\ r.operation = "transition_financial_safety"
     /\ TransitionSafety(a, r.key, r.proposal, revision, r.body.state)
  \/ /\ r.operation = "cancel_resolution"
     /\ Cancel(a, r.key, r.proposal, revision)
  \/ /\ r.operation = "execute_simulated"
     /\ \E at \in ReadableTimes : Execute(a, r.key, r.proposal, revision, at)

Answer(a, kind) ==
  reply' = [reply EXCEPT ![a] = [kind |-> kind, about |-> request[a].proposal]]

-----------------------------------------------------------------------------
(* Actions. *)

\* A client reads a proposal and decides on a command about what it read.
Compose(a, operation, key, p, body) ==
  /\ request[a] = None
  /\ Exists(p)
  /\ request' = [request EXCEPT ![a] =
       [operation |-> operation, key |-> key, proposal |-> p, body |-> body,
        seen |-> proposal[p], commits |-> 0]]
  /\ UNCHANGED <<vars, reply>>

\* The request takes effect.  The idempotency lookup comes first.
Commit(a) ==
  /\ request[a] # None
  /\ ~Recorded(a)
  /\ Performed(a)
  /\ request' = [request EXCEPT ![a].commits = @ + 1]
  /\ Answer(a, "created")

\* A record with the same fingerprint: the answer is the present view of the
\* proposal in the URL, and nothing is written.
Replay(a) ==
  /\ request[a] # None
  /\ Recorded(a)
  /\ \E r \in RecordOf(a) : r.body = request[a].body
  /\ Answer(a, "replayed")
  /\ UNCHANGED <<vars, request>>

\* A record with another fingerprint: IDEMPOTENCY_KEY_REUSED.
Reuse(a) ==
  /\ request[a] # None
  /\ Recorded(a)
  /\ \A r \in RecordOf(a) : r.body # request[a].body
  /\ Answer(a, "reused")
  /\ UNCHANGED <<vars, request>>

\* Without a record, a guard refuses the request or the transaction is rolled
\* back by a serialization failure, which the service does not retry.
Fail(a) ==
  /\ request[a] # None
  /\ ~Recorded(a)
  /\ Answer(a, "failed")
  /\ UNCHANGED <<vars, request>>

\* The client turns to something else, whether or not it had an answer.
Forget(a) ==
  /\ request[a] # None
  /\ request' = [request EXCEPT ![a] = None]
  /\ reply' = [reply EXCEPT ![a] = NoReply]
  /\ UNCHANGED vars

\* What goes on besides: proposals, reviews of disputes, time.
Background ==
  /\ \/ Tick
     \/ \E a \in Accounts, key \in Keys, p \in Proposals, c \in ProposedInputs,
           assessment \in Assessments, at \in ReadableTimes :
          Propose(a, key, p, c, assessment, None, Never, at)
     \/ \E a \in Accounts, d \in Disputes :
          AssignReview(a, d) \/ RecordReviewerDecision(a, d)
  /\ UNCHANGED <<request, reply>>

ClientInit ==
  /\ Init
  /\ request = [a \in Accounts |-> None]
  /\ reply = [a \in Accounts |-> NoReply]

ClientNext ==
  \/ Background
  \/ \E a \in Accounts :
       \/ \E operation \in Submits, key \in Keys, p \in Proposals :
            \E body \in Bodies(operation) : Compose(a, operation, key, p, body)
       \/ Commit(a) \/ Replay(a) \/ Reuse(a) \/ Fail(a) \/ Forget(a)

ClientSpec == ClientInit /\ [][ClientNext]_clientVars

-----------------------------------------------------------------------------
(* Properties. *)

\* A command takes effect only on the proposal row its client had read, with
\* however many other commands between the reading and the delivery
\* (service.ts: expectedRevision, RESOLUTION_CONFLICT).
CommitsOnWhatWasSeen ==
  [][\A a \in Accounts :
       request[a] # None /\ request'[a] # None
         /\ request'[a].commits # request[a].commits =>
           proposal[request[a].proposal] = request[a].seen]_clientVars

\* However often a request is delivered it takes effect at most once, and once
\* it has, its client is never told that it failed: not even when the proposal
\* has moved on since (service.ts: idem before the revision check).
RetryIsReplayed ==
  \A a \in Accounts : request[a] # None =>
    /\ request[a].commits <= 1
    /\ request[a].commits = 1 => reply[a].kind \in {"created", "replayed"}

\* An answer that says "replayed" shows the proposal that the first use of the
\* key changed.
ReplayShowsTheOriginal ==
  \A a \in Accounts : request[a] # None /\ reply[a].kind = "replayed" =>
    \E r \in RecordOf(a) : r.resource = reply[a].about
=============================================================================
