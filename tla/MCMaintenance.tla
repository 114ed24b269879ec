---------------------------- MODULE MCMaintenance ----------------------------
(* Small instances of Maintenance for TLC.                                   *)
EXTENDS Maintenance, TLC

Symmetry == Permutations(Workers) \cup Permutations(Commands)

=============================================================================
