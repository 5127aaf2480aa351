----------------------------- MODULE MCProvision -----------------------------
(* Instances of Provision for TLC.                                         *)
EXTENDS Provision, TLC

CONSTANTS c1, c2, k1, k2

(* With two commands, what is left of a node after a rollback beside       *)
(* another command or from a torn backup is not followed: only TypeOK and  *)
(* InstalledKeepsIdentity speak of it, and both are proved of it too.      *)
Followed == "beside" \notin scars /\ torn = {}

Symmetry == Permutations(Cmd) \cup Permutations(Ctl)

=============================================================================
