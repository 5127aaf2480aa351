----------------------------- MODULE MCAccountd -----------------------------
(* The instance of Accountd for TLC: see Accountd.cfg.                     *)
EXTENDS Accountd

LiveSpec == Spec /\ Fairness

=============================================================================
