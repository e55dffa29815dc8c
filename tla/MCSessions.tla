----------------------------- MODULE MCSessions -----------------------------
(***************************************************************************)
(* For TLC: sessions and requests are interchangeable.                     *)
(***************************************************************************)
EXTENDS Sessions, TLC

Symmetry == Permutations(SessionIds) \cup Permutations(Requests)
=============================================================================
