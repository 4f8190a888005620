------------------------------- MODULE Ranks -------------------------------
(***************************************************************************)
(* The state that the two halves of src/src/MobulaTokensProtocol.sol have  *)
(* in common: the rank of every user, which the hierarchy changes and the  *)
(* votes on listings read.                                                 *)
(***************************************************************************)
EXTENDS Naturals

CONSTANTS
    Users,            \* addresses that submit, vote, claim and hold ranks
    InitialRanks      \* the rank maps a run may start from

(* 0: no rank, 1: Rank I, 2: Rank II. *)
RankMaps == [Users -> 0..2]

ASSUME RanksAssumption == InitialRanks \subseteq RankMaps

VARIABLE rank         \* user -> rank
=============================================================================
