-------------------------- MODULE MCAgreementPages --------------------------
(***************************************************************************)
(* For TLC: an account pages through three agreements it was seeded with   *)
(* and one it may create meanwhile.                                        *)
(***************************************************************************)
EXTENDS AgreementPages, TLC

CONSTANTS owner, client, terms, v1, v2, v3, w1, w2, w3

MCCreatorPartyOf == owner :> client
MCPartiesOf == terms :> {client}

SeededWith(v) ==
  [version |-> v, state |-> "draft", content |-> terms,
   members |-> {[account |-> owner, party |-> client, role |-> "owner"]}]
MCSeed == <<SeededWith(v1), SeededWith(v2), SeededWith(v3), None>>

Symmetry == Permutations({w1, w2, w3})
=============================================================================
