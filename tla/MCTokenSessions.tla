-------------------------- MODULE MCTokenSessions --------------------------
(* Small instances of TokenSessions for TLC. *)
EXTENDS TokenSessions, TLC

Symmetry ==
    Permutations(Families) \cup Permutations(Tokens) \cup Permutations(Procs)
=============================================================================
