------------------------- MODULE MCResolutionClient -------------------------
(***************************************************************************)
(* Clients for TLC: an owner who proposes, cancels and holds, and a        *)
(* partner who must approve.                                               *)
(***************************************************************************)
EXTENDS ResolutionClient, TLC

CONSTANTS owner, partner, client, provider, satisfied, p1, p2, d1, k1, k2

MCPartyOf == owner :> client @@ partner :> provider
MCRoleOf  == owner :> "owner" @@ partner :> "reviewer"

MCSideParties == [payer |-> {client}, payee |-> {provider}]

MCProposedInputs == [outcome : Outcomes, effect : NonFinancial]
=============================================================================
