-------------------------- MODULE MCFirstProtocol --------------------------
(* The first protocol with two users and two contracts, for TLC.            *)
EXTENDS FirstProtocol

CONSTANTS u1, u2, c1, c2

UsersMC == {u1, u2}
ContractsMC == {c1, c2}
Symmetry == Permutations(UsersMC) \cup Permutations(ContractsMC)

MaxVotesMC == [s \in Stages |-> 2]
ValidationsNeededMC == [s \in Stages |-> 1]
InitialRanksMC == {[u \in UsersMC |-> 2]}
InitialMembersMC ==
    [c \in RankChanges |-> IF c \in {"ToRankII", "FromRankII"} THEN 1 ELSE 0]
votesNeededMC ==
    [c \in RankChanges |-> IF c \in {"ToRankII", "FromRankII"} THEN 2 ELSE 1]

(* Once ranks have moved, only a short process is followed. *)
RanksAsGiven ==
    /\ rank \in InitialRanks
    /\ members = InitialMembers
    /\ promoteVotes = Zero /\ demoteVotes = Zero

Bounded == RanksAsGiven \/ (submitted <= 1 /\ VotesOnRecord <= 1)

=============================================================================
