----------------------------- MODULE MCListings -----------------------------
(***************************************************************************)
(* Small instances of Listings for TLC.  The numbers keep the shape of the *)
(* deployment script (floor price 100, a percentage to accept, a smaller   *)
(* one to send back) with fewer votes to a verdict.                        *)
(***************************************************************************)
EXTENDS Listings, TLC

CONSTANTS u1, u2, u3

TwoUsers == {u1, u2}
ThreeUsers == {u1, u2, u3}
FixedRankSymmetry == Permutations({u1, u2})

NoSettings == [p \in Parameters |-> {}]

AllRankII == {[u \in Users |-> 2]}
OneRankII == {[u \in Users |-> IF u = u1 THEN 2 ELSE 0]}

(* Two votes decide a stage, one acceptance is enough, two modification     *)
(* requests send a listing back; a vote is worth one MOBL.                  *)
VotingConfig ==
    [p \in Parameters |->
        CASE p = "submitFloorPrice" -> 100
          [] p \in {"sortingMaxVotes", "validationMaxVotes"} -> 2
          [] p \in {"sortingMinAcceptancesPct", "validationMinAcceptancesPct"} -> 50
          [] p \in {"sortingMinModificationsPct", "validationMinModificationsPct"} -> 100
          [] p \in {"tokensPerVote", "editCoeffMultiplier", "protocolAPI"} -> 1
          [] OTHER -> 0]

(* One vote decides a stage; submissions and sorting votes wait a block.    *)
(* The floor price does not divide the payments: three payments of a third  *)
(* leave a listing in the pool, one of all three does not.                  *)
SubmissionConfig ==
    [VotingConfig EXCEPT !["sortingMaxVotes"] = 1, !["validationMaxVotes"] = 1,
                         !["voteCooldown"] = 1, !["whitelistedCooldown"] = 1,
                         !["submitFloorPrice"] = 3]

(* The owner lowers the votes to a verdict and the percentage to accept     *)
(* while votes are open, and tries a percentage that is refused.            *)
OwnerSettings ==
    [NoSettings EXCEPT !["sortingMaxVotes"] = {1},
                       !["validationMinAcceptancesPct"] = {0, 101}]

(* The API stops and starts accepting the protocol's calls. *)
ApiMoves == [NoSettings EXCEPT !["protocolAPI"] = {0, 1}]
=============================================================================
