--------------------------- MODULE MCProfileSync ---------------------------
(* Small instances of ProfileSync for TLC.                                   *)
EXTENDS ProfileSync, TLC

Symmetry == Permutations(Requests) \cup Permutations(Tasks) \cup Permutations(Workers)

=============================================================================
