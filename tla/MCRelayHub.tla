----------------------------- MODULE MCRelayHub -----------------------------
(* RelayHub for TLC: accounts are interchangeable, so symmetry is sound for *)
(* the invariants and action properties checked here.                       *)
EXTENDS RelayHub, TLC

AddressSymmetry == Permutations(Address)
=============================================================================
