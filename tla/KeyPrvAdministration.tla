------------------------ MODULE KeyPrvAdministration ------------------------
(***************************************************************************)
(* The offline ledger of KEY/PRV eligibility administrations               *)
(* (server/evaluation/key-prv-randomized-order.ts).  A request is locked   *)
(* once with a shuffled order of the items, presented, answered item by    *)
(* item, then completed or aborted, resumed, or replaced by another        *)
(* request.  Every operation is synchronous, hence one action, and appends *)
(* a snapshot; the last snapshot is the current record.                    *)
(*                                                                         *)
(* A digest covers a snapshot and, through its predecessor's digest, all   *)
(* before it: it names one snapshot of one request, <<request, position>>. *)
(* Timestamps are the caller's and only refuse a call; they are left out,  *)
(* but for whether the presentation has started.                           *)
(***************************************************************************)
EXTENDS Naturals, Sequences, SequencesExt, FiniteSets

CONSTANTS
  Requests,      \* administrationRequestDigests
  Items,         \* number of instrument items (24 in the code)
  Words,         \* number of words the generator draws from (2^64)
  Incidents,     \* incidentDigests
  None,
  MaxSnapshots   \* bound: snapshots in all the histories together

ASSUME ItemsAssumption == Items \in Nat \ {0, 1}
ASSUME WordsAssumption == Words \in Nat

VARIABLES
  histories,       \* request |-> its snapshots, oldest first
  authorizations,  \* request |-> the replacement authorization waiting for it
  replaced         \* for checking: the digests a lock has replaced

vars == <<histories, authorizations, replaced>>
-----------------------------------------------------------------------------
(* The order: Fisher-Yates over the canonical items.  A seed stands for    *)
(* the draws it leads to, one index of 1..i for every i above 1.           *)

ItemIds == 1 .. Items
CanonicalOrder == [i \in ItemIds |-> i]
Seeds == {s \in [2 .. Items -> ItemIds] : \A i \in 2 .. Items : s[i] <= i}

\* sampleBoundedUint64: words from the last, incomplete block are redrawn.
AcceptedAll(bound) == 0 .. Words - 1
Accepted(bound) == {w \in 0 .. Words - 1 : w < (Words \div bound) * bound}
Sample(word, bound) == word % bound

Swap(order, i, j) == [order EXCEPT ![i] = order[j], ![j] = order[i]]
\* The order after each of the Items - 1 swaps; the last place is settled first.
Shuffle(seed) ==
  LET order[k \in 0 .. Items - 1] ==
        IF k = 0 THEN CanonicalOrder
        ELSE Swap(order[k - 1], Items + 1 - k, seed[Items + 1 - k])
  IN  order
Replay(seed) == Shuffle(seed)[Items - 1]
-----------------------------------------------------------------------------
Statuses == {"locked", "presenting", "completed", "aborted", "void_incident"}
Digests == Requests \X (Nat \ {0})

Administration ==
  [seed : Seeds \cup {None},     \* None: the order is the canonical one
   order : [ItemIds -> ItemIds],
   started : BOOLEAN,            \* presentationStartedAt is set
   responses : Seq([item : ItemIds, response : BOOLEAN]),
   lastCompletedOrdinal : 0 .. Items,
   status : Statuses,
   outcome : {"pending", "eligible", "ineligible", "uncertain"},
   prior : Digests \cup {None},
   incident : Incidents \cup {None}]

Locked(r) == histories[r] # <<>>
Current(r) == Last(histories[r])
CurrentDigest(r) == <<r, Len(histories[r])>>
In(r, statuses) == Locked(r) /\ Current(r).status \in statuses
AllTrue(rec) == \A i \in DOMAIN rec.responses : rec.responses[i].response

\* verifyAdministrationIntegrity gives no reason.
Integral(rec) ==
  /\ IsInjective(rec.order)
  /\ rec.order = IF rec.seed = None THEN CanonicalOrder ELSE Replay(rec.seed)
  /\ \A i \in DOMAIN rec.responses : rec.responses[i].item = rec.order[i]
  /\ Len(rec.responses) = rec.lastCompletedOrdinal

\* evaluateCombinedEligibility: one outcome, for KEY and for PRV.
CombinedEligibility(rec) ==
  CASE ~Integral(rec) \/ rec.status # "completed" \/ Len(rec.responses) # Items
         -> "uncertain"
    [] OTHER -> IF AllTrue(rec) THEN "eligible" ELSE "ineligible"
-----------------------------------------------------------------------------
Init ==
  /\ histories = [r \in Requests |-> <<>>]
  /\ authorizations = [r \in Requests |-> None]
  /\ replaced = {}

Room == FoldFunction(LAMBDA h, n : Len(h) + n, 0, histories) < MaxSnapshots
Write(r, rec) ==
  /\ Room
  /\ histories' = [histories EXCEPT ![r] = Append(@, rec)]

\* authorizeReplacement: for a stopped prior, known by its current digest.
AuthorizeReplacement(prior, new, incident) ==
  /\ In(prior, {"aborted", "void_incident"})
  /\ ~Locked(new)
  /\ authorizations[new] = None
  /\ authorizations' = [authorizations EXCEPT
       ![new] = [prior |-> CurrentDigest(prior), incident |-> incident]]
  /\ UNCHANGED <<histories, replaced>>

\* lock: one order per request; consumes the authorization, if there is one.
Lock(r, seed) ==
  LET auth == authorizations[r] IN
  /\ ~Locked(r)
  /\ Write(r, [seed |-> seed,
               order |-> IF seed = None THEN CanonicalOrder ELSE Replay(seed),
               started |-> FALSE, responses |-> <<>>, lastCompletedOrdinal |-> 0,
               status |-> "locked", outcome |-> "pending",
               prior |-> IF auth = None THEN None ELSE auth.prior,
               incident |-> IF auth = None THEN None ELSE auth.incident])
  /\ authorizations' = [authorizations EXCEPT ![r] = None]
  /\ replaced' = IF auth = None THEN replaced ELSE replaced \cup {auth.prior}

StartPresentation(r) ==
  /\ In(r, {"locked"})
  /\ Write(r, [Current(r) EXCEPT !.status = "presenting", !.started = TRUE])
  /\ UNCHANGED <<authorizations, replaced>>

\* recordResponse: the next item of the locked order, and no other.
AnyItem(rec, item) == TRUE
IsNext(rec, item) == /\ Len(rec.responses) < Items
                     /\ rec.order[Len(rec.responses) + 1] = item
RecordResponse(r, item, answer) ==
  /\ In(r, {"presenting"})
  /\ IsNext(Current(r), item)
  /\ Write(r, [Current(r) EXCEPT
       !.responses = Append(@, [item |-> item, response |-> answer]),
       !.lastCompletedOrdinal = Len(Current(r).responses) + 1])
  /\ UNCHANGED <<authorizations, replaced>>

Complete(r) ==
  /\ In(r, {"presenting"})
  /\ Len(Current(r).responses) = Items
  /\ Write(r, [Current(r) EXCEPT !.status = "completed",
       !.outcome = IF AllTrue(Current(r)) THEN "eligible" ELSE "ineligible"])
  /\ UNCHANGED <<authorizations, replaced>>

\* abort: voids the record when an incident is named, and otherwise clears
\* the incident the record carried.
Abort(r, incident) ==
  /\ In(r, {"locked", "presenting"})
  /\ Write(r, [Current(r) EXCEPT
       !.status = IF incident = None THEN "aborted" ELSE "void_incident",
       !.outcome = "uncertain", !.incident = incident])
  /\ UNCHANGED <<authorizations, replaced>>

\* resume: the answers already given stand; a void record is not resumed.
Resumed(rec) ==
  [rec EXCEPT !.status = IF rec.started THEN "presenting" ELSE "locked",
              !.outcome = "pending"]
ResumableStopped(rec) == rec.status \in {"aborted", "void_incident"}
Resumable(rec) == rec.status = "aborted" /\ rec.incident = None
Resume(r) ==
  /\ Locked(r)
  /\ Resumable(Current(r))
  /\ Write(r, Resumed(Current(r)))
  /\ UNCHANGED <<authorizations, replaced>>

Next ==
  \E r \in Requests :
    \/ \E new \in Requests, i \in Incidents : AuthorizeReplacement(r, new, i)
    \/ \E seed \in Seeds \cup {None} : Lock(r, seed)
    \/ StartPresentation(r)
    \/ \E item \in ItemIds, answer \in BOOLEAN : RecordResponse(r, item, answer)
    \/ Complete(r)
    \/ \E i \in Incidents \cup {None} : Abort(r, i)
    \/ Resume(r)

Spec == Init /\ [][Next]_vars
-----------------------------------------------------------------------------
\* Every snapshot and every waiting authorization is well formed.
TypeOK ==
  /\ histories \in [Requests -> Seq(Administration)]
  /\ authorizations \in
       [Requests -> [prior : Digests, incident : Incidents] \cup {None}]
  /\ replaced \subseteq Digests

\* The verifier accepts every snapshot the ledger wrote, and the outcome the
\* ledger records is the one the evaluation derives from the answers.
OutcomeIsEarned ==
  \A r \in Requests : \A i \in DOMAIN histories[r] :
    LET rec == histories[r][i] IN
    /\ Integral(rec)
    /\ rec.outcome \in {"eligible", "ineligible"}
         => rec.outcome = CombinedEligibility(rec)
    /\ rec.outcome = "eligible"
         => /\ \A item \in ItemIds : \E n \in DOMAIN rec.responses :
                 rec.responses[n] = [item |-> item, response |-> TRUE]
            /\ Len(rec.responses) = Items

\* A request not yet locked may get any order, and each as easily as another:
\* as many words lead to each index an entry can be swapped with, every
\* order has one seed, and no item is lost or shown twice.
OrderIsUnbiased ==
  (\A r \in Requests : ~Locked(r)) =>
    /\ \A bound \in 2 .. Items : \A i, j \in 0 .. bound - 1 :
         Cardinality({w \in Accepted(bound) : Sample(w, bound) = i})
           = Cardinality({w \in Accepted(bound) : Sample(w, bound) = j})
    /\ \A s, t \in Seeds : Replay(s) = Replay(t) => s = t
    /\ \A s \in Seeds : IsInjective(Replay(s))

\* A record voided by an incident stays as it is.
VoidIsFinal ==
  [][\A r \in Requests : In(r, {"void_incident"}) =>
       histories'[r] = histories[r]]_histories

\* docs/runbooks/sprint-6.5.4-role-custody-readiness-protocol-v2.md:27: "A
\* replacement requires a terminal prior record": once replaced, a record is
\* not taken up again.
ReplacedStaysTerminal ==
  \A d \in replaced : In(d[1], {"aborted", "void_incident"})
=============================================================================
