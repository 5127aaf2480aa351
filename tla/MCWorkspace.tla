----------------------------- MODULE MCWorkspace -----------------------------
(* Instances of Workspace for TLC.                                         *)
EXTENDS Workspace, TLC

CONSTANTS m1, m2, a, b

(* Nothing is claimed of what follows an overlap with an init or import.  *)
Followed == ~ raced

Symmetry == Permutations(Machine) \cup Permutations(Proc)

=============================================================================
