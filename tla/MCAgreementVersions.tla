------------------------ MODULE MCAgreementVersions ------------------------
(***************************************************************************)
(* For TLC: one seeded agreement of an owner and a member, who may revise  *)
(* it or create others, under terms that drop a party or keep both.   *)
(***************************************************************************)
EXTENDS AgreementVersions, TLC

CONSTANTS owner, member, client, provider, seeded, fresh1, fresh2, v0, full, reduced, SeedState,
          v1, v2, v3, k1, r1, r2

MCCreatorPartyOf == owner :> client @@ member :> None

MCPartiesOf == full :> {client, provider} @@ reduced :> {provider}

MCSeed ==
  fresh1 :> None @@ fresh2 :> None @@
  seeded :> [version |-> v0, state |-> SeedState, content |-> full,
             members |-> {[account |-> owner, party |-> client, role |-> "owner"],
                          [account |-> member, party |-> provider, role |-> "participant"]}]

Symmetry ==
  Permutations(Requests) \cup Permutations({fresh1, fresh2}) \cup Permutations(Versions \ {v0})
=============================================================================
