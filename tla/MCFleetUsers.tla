---------------------------- MODULE MCFleetUsers ----------------------------
(* Instances of FleetUsers for TLC.                                        *)
EXTENDS FleetUsers

CONSTANTS n1, n2, alice, bob, u1, u2, r1, r2, s1, s2

(* Nodes, user_ids, runs, slots and users are interchangeable.             *)
Symmetry ==
  Permutations(Node) \cup Permutations(Tag) \cup Permutations(Uid)
    \cup Permutations(Run) \cup Permutations(Slot)

=============================================================================
