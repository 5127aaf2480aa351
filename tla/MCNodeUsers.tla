---------------------------- MODULE MCNodeUsers ----------------------------
(* Instances of NodeUsers for TLC: the owner and one more user.            *)
EXTENDS NodeUsers, TLC

CONSTANTS owner, alice, p1, p2, c1, c2, c3

(* UUIDs and processes are interchangeable.                                *)
Symmetry == Permutations(Cred) \cup Permutations(Proc)

=============================================================================
