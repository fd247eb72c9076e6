----------------------------- MODULE MCOutdoors -----------------------------
(* An instance of Outdoors for TLC. *)
EXTENDS Outdoors, TLC

\* What the user does, and how many writes fail or crashes happen.
MCLimits == {[acts |-> 3, troubles |-> 1], [acts |-> 2, troubles |-> 2]}
MCSymmetry == Permutations(Outputs)
=============================================================================
