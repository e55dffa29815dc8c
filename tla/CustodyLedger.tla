---------------------------- MODULE CustodyLedger ----------------------------
(***************************************************************************)
(* The ledger of role, custody and readiness events                        *)
(* (server/evaluation/role-custody-readiness.ts): a chain in which every   *)
(* record is sealed with the digest of the one before.  Whoever appends    *)
(* names the head they saw; the chain and its head are checked later by    *)
(* somebody else.  The code has no state: these are its functions.         *)
(*                                                                         *)
(* A digest is what it is the digest of.  "bounded" says of a correction   *)
(* that it leaves raw digests, eligibility, status and outcome alone and   *)
(* names the digest of something.                                          *)
(***************************************************************************)
EXTENDS Naturals, Sequences

CONSTANTS
  RecordIds, Sources,   \* ids of records, digests of what an event is about
  IncidentIds, NoIncident

LedgerEvent ==
  [recordType : {"event"}, recordId : RecordIds, sourceDigests : SUBSET Sources,
   incidentId : IncidentIds \cup {NoIncident}]
CorrectionEvent ==
  [recordType : {"correction"}, recordId : RecordIds, targetRecordId : RecordIds,
   bounded : BOOLEAN, incidentId : IncidentIds \cup {NoIncident}]
IncidentEvent ==
  [recordType : {"incident"}, recordId : RecordIds, incidentId : IncidentIds]
LedgerRecord == LedgerEvent \cup CorrectionEvent \cup IncidentEvent
-----------------------------------------------------------------------------
GENESIS == <<>>
SealLedgerRecord(record, previousDigest) ==
  [record |-> record, previousDigest |-> previousDigest,
   recordDigest |-> <<previousDigest, record>>]

\* The digest that record i of the chain, or the next one, is sealed with.
HeadBefore(chain, i) == IF i = 1 THEN GENESIS ELSE chain[i - 1].recordDigest
CurrentHead(chain) == HeadBefore(chain, Len(chain) + 1)

SourcesOf(record) == IF record.recordType = "event" THEN record.sourceDigests ELSE {}

\* appendLedgerRecord throws unless the head seen is the head and neither the
\* record nor what it is about was entered before.
Appendable(chain, record, observedHead) ==
  /\ observedHead = CurrentHead(chain)
  /\ \A i \in DOMAIN chain :
       /\ chain[i].record.recordId # record.recordId
       /\ SourcesOf(chain[i].record) \cap SourcesOf(record) = {}
AppendLedgerRecord(chain, record) ==
  Append(chain, SealLedgerRecord(record, CurrentHead(chain)))
-----------------------------------------------------------------------------
(* validateLedgerChain, one operator for each reason it can give.          *)

Unbroken(chain) ==
  \A i \in DOMAIN chain :
    chain[i] = SealLedgerRecord(chain[i].record, HeadBefore(chain, i))

NotReplayed(chain) ==
  \A i, j \in DOMAIN chain : i # j =>
    /\ chain[i].record.recordId # chain[j].record.recordId
    /\ chain[i].recordDigest # chain[j].recordDigest

\* The id of the correction itself is already among those it may target.
CorrectionHolds(chain, i) ==
  chain[i].record.recordType = "correction" =>
    /\ chain[i].record.bounded
    /\ \E j \in 1 .. i : chain[j].record.recordId = chain[i].record.targetRecordId

\* The incident may be entered later than what refers to it.
IncidentIsThere(chain, i) ==
  /\ chain[i].record.recordType # "incident"
  /\ chain[i].record.incidentId # NoIncident
  => \E j \in DOMAIN chain : /\ chain[j].record.recordType = "incident"
                             /\ chain[j].record.incidentId = chain[i].record.incidentId

ValidLedgerChain(chain) ==
  /\ Unbroken(chain)
  /\ NotReplayed(chain)
  /\ \A i \in DOMAIN chain : CorrectionHolds(chain, i) /\ IncidentIsThere(chain, i)

\* The status of confirmLedgerHead: confirmed, or a mismatch.
ConfirmLedgerHead(chain, recordCount, recomputedHead, expectedHead) ==
  /\ ValidLedgerChain(chain)
  /\ CurrentHead(chain) = expectedHead /\ recomputedHead = CurrentHead(chain)
  /\ recordCount = Len(chain)
=============================================================================
