-------------------------- MODULE OutcomeSettlement --------------------------
(***************************************************************************)
(* What the resolution service promises about the outcomes of an accepted  *)
(* agreement version, without proposals, approvals or disputes: at any     *)
(* time an outcome has at most one consequence on the table; it is         *)
(* withdrawn or settled; and no consequence is settled twice.  What makes  *)
(* two consequences one is the caller's to say: for the resolution service *)
(* it is the same outcome and the same effect, text included.              *)
(***************************************************************************)
CONSTANTS
  Outcomes,
  Consequences,   \* records with an outcome
  None            \* no consequence

VARIABLES
  open,           \* [Outcomes -> Consequences \cup {None}]
  settled         \* the consequences settled so far

Init ==
  /\ open = [o \in Outcomes |-> None]
  /\ settled = {}

Open(c) ==
  /\ open[c.outcome] = None
  /\ open' = [open EXCEPT ![c.outcome] = c]
  /\ UNCHANGED settled

Withdraw(o) ==
  /\ open[o] # None
  /\ open' = [open EXCEPT ![o] = None]
  /\ UNCHANGED settled

Settle(o) ==
  /\ open[o] # None
  /\ open[o] \notin settled
  /\ settled' = settled \cup {open[o]}
  /\ open' = [open EXCEPT ![o] = None]

Next ==
  \/ \E c \in Consequences : c.outcome \in Outcomes /\ Open(c)
  \/ \E o \in Outcomes : Withdraw(o) \/ Settle(o)

Spec == Init /\ [][Next]_<<open, settled>>
=============================================================================
