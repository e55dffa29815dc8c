---------------------------- MODULE MCResolution ----------------------------
(***************************************************************************)
(* A small agreement for TLC: the owner proposes and cancels, the partner  *)
(* must approve (self-approval is prohibited), a reviewer decides disputes.*)
(***************************************************************************)
EXTENDS Resolution, TLC

CONSTANTS owner, partner, reviewer, client, provider, platform,
          satisfied, unsatisfied, decision, p1, p2, d1, d2, k1, k2

MCPartyOf == owner :> client @@ partner :> provider @@ reviewer :> platform
MCRoleOf  == owner :> "owner" @@ partner :> "participant" @@ reviewer :> "reviewer"

MCSideParties == [payer |-> {client}, payee |-> {provider}, both |-> {client, provider}]

Value(text, destination) ==
  [kind |-> "simulated_value", amount |-> 5, text |-> text,
   source |-> "payer", destination |-> destination]

SomeText == CHOOSE text \in Texts \ BlankTexts : TRUE

\* Payments of the protected amount: to the payee under each destinationRef, a
\* blank one too, and to a side that has the payer on it.
MCPayments ==
  [outcome : Outcomes,
   effect : {Value(text, "payee") : text \in Texts} \cup {Value(SomeText, "both")}]

MCProposedInputs ==
  MCPayments \cup [outcome : Outcomes, effect : {e \in NonFinancial : e.text = SomeText}]

Symmetry == Permutations(Keys) \cup Permutations(Disputes)
=============================================================================
