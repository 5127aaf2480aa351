------------------------------ MODULE MCMigrate ------------------------------
(* Instances of Migrate for TLC.                                           *)
EXTENDS Migrate, TLC

CONSTANTS n1, n2, k1, k2

Symmetry == Permutations(Node) \cup Permutations(Key)

=============================================================================
