----------------------------- MODULE MCProtocol -----------------------------
(* The whole contract on one listing and three users, one of each rank.     *)
EXTENDS MobulaTokensProtocol, TLC

CONSTANTS u1, u2, u3

UsersMC == {u1, u2, u3}

OneOfEachRank ==
    {[u \in Users |-> CASE u = u1 -> 2 [] u = u2 -> 1 [] u = u3 -> 0]}

(* Two votes sort a listing, two validate it, one modification request      *)
(* sends it back; sorting votes wait a block after an update.               *)
ConfigMC ==
    [p \in Parameters |->
        CASE p = "submitFloorPrice" -> 100
          [] p \in {"sortingMaxVotes", "validationMaxVotes"} -> 2
          [] p \in {"sortingMinAcceptancesPct", "sortingMinModificationsPct",
                    "validationMinAcceptancesPct",
                    "validationMinModificationsPct"} -> 50
          [] p \in {"tokensPerVote", "editCoeffMultiplier", "protocolAPI",
                    "voteCooldown"} -> 1
          [] OTHER -> 0]

NoSettings == [p \in Parameters |-> {}]

(* One quota each, so that every rank change can happen and none for ever;  *)
(* ordered thresholds that leave unfinished tallies behind.                 *)
InitMC ==
    /\ ProtocolInit
    /\ members = [c \in RankChanges |-> 1]
    /\ votesNeeded = [c \in RankChanges |-> IF c = "FromRankI" THEN 1 ELSE 2]

SpecMC == InitMC /\ [][ProtocolNext]_protocolVars
=============================================================================
