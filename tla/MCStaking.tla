----------------------------- MODULE MCStaking -----------------------------
(* The vault with three users, the fewest for which a swap moves a staker   *)
(* who is neither the one that leaves nor the first.                        *)
EXTENDS Staking, TLC

CONSTANTS u1, u2, u3

UsersMC == {u1, u2, u3}

Symmetry == Permutations(UsersMC)

=============================================================================
