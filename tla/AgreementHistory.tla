-------------------------- MODULE AgreementHistory --------------------------
(***************************************************************************)
(* What the agreement service promises of an agreement, without requests,  *)
(* keys or transactions: its terms are a numbered history.  A new entry    *)
(* follows the last one; no entry is changed, removed or numbered twice.   *)
(* The evidence service promises the same of the revisions of an item      *)
(* (EvidenceWorkflow), with items for agreements.                          *)
(***************************************************************************)
EXTENDS Integers

CONSTANTS
  Agreements,
  Versions,      \* identifiers of versions
  Contents       \* the terms of a version

VARIABLE
  history        \* [Agreements -> sets of entries]

Entry(number, v, content) == [number |-> number, version |-> v, content |-> content]

Start(a) ==
  /\ history[a] = {}
  /\ \E v \in Versions, content \in Contents :
       history' = [history EXCEPT ![a] = {Entry(1, v, content)}]

Revise(a) ==
  \E last \in history[a] :
    /\ \A e \in history[a] : e.number <= last.number
    /\ \E v \in Versions \ {e.version : e \in history[a]}, content \in Contents :
         history' = [history EXCEPT ![a] = @ \cup {Entry(last.number + 1, v, content)}]

\* An agreement is new, or was seeded with its first version.
Init ==
  \A a \in Agreements :
    \/ history[a] = {}
    \/ \E v \in Versions, content \in Contents : history[a] = {Entry(1, v, content)}

Next == \E a \in Agreements : Start(a) \/ Revise(a)

Spec == Init /\ [][Next]_history
=============================================================================
