---------------------------- MODULE MCRevocation ----------------------------
(* Small instances of Revocation for TLC. *)
EXTENDS Revocation, TLC

Symmetry == Permutations(Keys)
=============================================================================
