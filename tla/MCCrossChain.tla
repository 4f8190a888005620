---------------------------- MODULE MCCrossChain ----------------------------
(* Submissions by a user present on both chains, voted on by the same user. *)
EXTENDS CrossChain, TLC

CONSTANT u1

OneUser == {u1}

RankII == {[u \in Users |-> 2]}

NoSettings == [p \in Parameters |-> {}]

(* One vote decides a stage, and one request sends a listing back. *)
ConfigMC ==
    [p \in Parameters |->
        CASE p = "submitFloorPrice" -> 100
          [] p \in Percentages -> 50
          [] p \in {"tokensPerVote", "voteCooldown", "whitelistedCooldown"} -> 0
          [] OTHER -> 1]
=============================================================================
