---------------------------- MODULE MCHierarchy ----------------------------
(* Hierarchy on a small set of users, for TLC. *)
EXTENDS Hierarchy, TLC

CONSTANTS u1, u2

UsersMC == {u1, u2}

(* A fresh deployment: nobody holds a rank. *)
FreshRanksMC == {[u \in UsersMC |-> 0]}

(* The owner has made one user Rank II. *)
SeededRanksMC == {[u \in UsersMC |-> IF u = u1 THEN 2 ELSE 0]}

Symmetry == Permutations(UsersMC)

=============================================================================
