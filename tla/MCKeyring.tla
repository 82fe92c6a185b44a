----------------------------- MODULE MCKeyring -----------------------------
(* Keyring for TLC.  Key ids are ordered, so only the rest is symmetric.   *)
EXTENDS Keyring, TLC

Symmetry ==
    Permutations(Replicas) \cup Permutations(Operators) \cup Permutations(Parties)
=============================================================================
