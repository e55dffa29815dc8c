------------------------- MODULE MCGatedCalibration -------------------------
(***************************************************************************)
(* For TLC: ten fixtures, as many as the smallest subset, a key with every *)
(* kind of boundary, sheets on either side of each threshold, in another   *)
(* order, with another fixture or one more than the key has, and starts    *)
(* with one thing off: two slots with one person, an approved or an        *)
(* unapproved pair, a third role on top, a document that lapses early or   *)
(* does not hold, or a restore rehearsed in another topology.  The custody *)
(* ledger, which the readiness controls rest on, is checked on every chain *)
(* of three appends and every way of altering one.                         *)
(***************************************************************************)
EXTENDS GatedCalibration, TLC

\* No definition tells the scorers apart.
Symmetry == Permutations(ScorerAliases)

MCFixtures == 1 .. 11
Label(f) == CASE f = 1 -> "unsafe" [] f = 2 -> "ambiguous" [] f = 3 -> "not_demonstrated"
              [] OTHER -> "demonstrated"
MCKey == [i \in 1 .. 10 |->
  [fixtureId |-> i, expectedLabel |-> Label(i),
   critical |-> CASE i = 2 -> "ambiguous" [] i = 3 -> "control" [] OTHER -> "other"]]

\* The right answers to some fixtures in turn, but for those changed.
Answers(fixtures, changed) == [i \in DOMAIN fixtures |->
  [fixtureId |-> fixtures[i],
   label |-> IF fixtures[i] \in DOMAIN changed THEN changed[fixtures[i]] ELSE Label(fixtures[i])]]
InOrder == [i \in 1 .. 10 |-> i]
MCSheets ==
  {Answers(InOrder, changed) : changed \in
     {<<>>, 4 :> "ambiguous", 1 :> "ambiguous", 3 :> "demonstrated",
      4 :> "ambiguous" @@ 5 :> "ambiguous"}}
  \cup {Answers(fixtures, <<>>) : fixtures \in
     {[InOrder EXCEPT ![4] = 5, ![5] = 4], [InOrder EXCEPT ![10] = 11], Append(InOrder, 11)}}

\* One attestation counts; the other leaves a statement out.
CONSTANTS operator, administrator
Attested(by, attested, verified) ==
  [administratorAlias |-> by, attested |-> attested, administratorVerified |-> verified]
MCAttestations == {Attested(operator, TRUE, TRUE), Attested(administrator, FALSE, TRUE)}

\* Later than every moment of the run.
Lasting == MaxTime + 1
Sound == [validUntil |-> Lasting, sound |-> TRUE, topology |-> "one"]
GoodDocuments == [d \in Documents |-> Sound]
Staffed(fill) == [s \in Slots |-> [person |-> IF s \in DOMAIN fill THEN fill[s] ELSE s,
                                   validUntil |-> Lasting, status |-> "active"]]
\* One person in all of some slots; which of them gives the name is no matter.
Together(slots) == [s \in slots |-> CHOOSE t \in slots : TRUE]
Mechanical == [roles |-> {"ADM", "OPR"}, rationaleCode |-> "mechanical_administration",
               validUntil |-> Lasting]
KeyPrivacy == [roles |-> {"KEY", "PRV"}, rationaleCode |-> "compartmented_privacy_key",
               validUntil |-> Lasting]
ScorerKey == [roles |-> {"SCR", "KEY"}, rationaleCode |-> "compartmented_privacy_key",
              validUntil |-> Lasting]
Start(st, docs, combos) == [staff |-> st, documents |-> docs, combinations |-> combos]

MCStarts ==
  {Start(Staffed(<<>>), [GoodDocuments EXCEPT ![d] = x], {}) :
     d \in Documents, x \in {Sound, [Sound EXCEPT !.validUntil = 1],
                             [Sound EXCEPT !.sound = FALSE]}}
  \cup {Start(Staffed(<<>>),
              [GoodDocuments EXCEPT !["restoreEvidence"].topology = "other"], {})}
  \cup {Start([Staffed(<<>>) EXCEPT ![s].validUntil = 1], GoodDocuments, {}) :
          s \in {"KEY", "SCR-2"}}
  \cup {Start(Staffed(Together({a, b})), GoodDocuments, {}) : a, b \in Slots}
  \cup {Start(Staffed("ADM" :> "OPR"), GoodDocuments, {Mechanical}),
        Start(Staffed("ADM" :> "OPR"), GoodDocuments,
              {[Mechanical EXCEPT !.validUntil = 1]}),
        Start(Staffed("ADM" :> "OPR" @@ "KEY" :> "PRV"), GoodDocuments,
              {Mechanical, KeyPrivacy}),
        Start(Staffed("ADM" :> "OPR" @@ "KEY" :> "OPR"), GoodDocuments, {Mechanical}),
        Start(Staffed("SCR-1" :> "KEY"), GoodDocuments, {ScorerKey})}
-----------------------------------------------------------------------------
Ledger == INSTANCE CustodyLedger WITH
  RecordIds <- 1 .. 3, Sources <- {"sent", "read"}, IncidentIds <- {"leak"},
  NoIncident <- None

Event(id, sources, incident) ==
  [recordType |-> "event", recordId |-> id, sourceDigests |-> sources,
   incidentId |-> incident]
Correction(id, target, bounded) ==
  [recordType |-> "correction", recordId |-> id, targetRecordId |-> target,
   bounded |-> bounded, incidentId |-> None]
Entries ==
  {Event(id, {x}, n) : id \in 1 .. 3, x \in {"sent", "read"}, n \in {None, "leak"}}
    \cup {Correction(id, t, b) : id, t \in 1 .. 3, b \in BOOLEAN}
    \cup {[recordType |-> "incident", recordId |-> id, incidentId |-> "leak"] : id \in 1 .. 3}

\* The chains that appending can make, of at most three records.
Appended(chains) ==
  chains \cup {Ledger!AppendLedgerRecord(c, e) :
    <<c, e>> \in {p \in chains \X Entries :
      Ledger!Appendable(p[1], p[2], Ledger!CurrentHead(p[1]))}}
Pairs == Appended(Appended({<<>>}))
Chains == Appended(Pairs)

\* A chain that was appended to is unbroken and repeats nothing, and it is valid
\* exactly if each correction is bounded and about itself or something earlier,
\* and every incident that is referred to was entered.
ASSUME AppendedAssumption ==
  \A c \in Chains :
    LET record(i) == c[i].record
    IN  /\ Ledger!Unbroken(c) /\ Ledger!NotReplayed(c)
        /\ Ledger!ValidLedgerChain(c) <=>
             \A i \in DOMAIN c :
               CASE record(i).recordType = "correction" ->
                      /\ record(i).bounded
                      /\ record(i).targetRecordId \in {record(j).recordId : j \in 1 .. i}
                 [] record(i).recordType = "event" /\ record(i).incidentId # None ->
                      \E j \in DOMAIN c : record(j).recordType = "incident"
                 [] OTHER -> TRUE

\* Of two custodians that saw the same head one appends, and a chain that is
\* confirmed by its head and its count cannot be altered unnoticed: not a record
\* of it, nor the order, nor by leaving out the first or the last.
ASSUME HeadAssumption ==
  /\ \A c \in Pairs, e, f \in Entries :
       LET head == Ledger!CurrentHead(c)
       IN  ~ Ledger!Appendable(Ledger!AppendLedgerRecord(c, e), f, head)
  /\ \A c \in Pairs \ {<<>>} :
       LET head == Ledger!CurrentHead(c)
           confirmed(d) == Ledger!ConfirmLedgerHead(d, Len(c), head, head)
           altered == {[c EXCEPT ![i].record = e] : i \in DOMAIN c, e \in Entries} \ {c}
           resealed == {[c EXCEPT ![i] = Ledger!SealLedgerRecord(e, c[i].previousDigest)] :
                          i \in DOMAIN c, e \in Entries} \ {c}
           others == {Tail(c), SubSeq(c, 1, Len(c) - 1)}
                       \cup IF Len(c) = 2 THEN {<<c[2], c[1]>>} ELSE {}
       IN  \A d \in altered \cup resealed \cup others : ~ confirmed(d)
=============================================================================
