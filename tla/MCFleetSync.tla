---------------------------- MODULE MCFleetSync ----------------------------
(* Instances of FleetSync for TLC: see the .cfg files.                     *)
EXTENDS FleetSync, TLC

(* Event ids are interchangeable, and so are the hosts a node may move to. *)
Symmetry == Permutations(EventId) \cup Permutations(Host \ {First})

LiveSpec == Spec /\ Fairness

=============================================================================
