----------------------------- MODULE MCGovernor -----------------------------
(* The governor with two holders and two proposals, for TLC.                *)
EXTENDS Governor, TLC

CONSTANTS u1, u2

UsersMC == {u1, u2}

Symmetry == Permutations(UsersMC)

=============================================================================
