---------------------------- MODULE MCIcePairing ----------------------------
(* IcePairing with interchangeable allocations and interchangeable ufrags. *)
EXTENDS IcePairing, TLC

Symmetry == Permutations(Allocs) \cup Permutations(Ufrags)
============================================================================
