------------------------------ MODULE Hierarchy ------------------------------
(***************************************************************************)
(* The rank hierarchy of src/src/MobulaTokensProtocol.sol: users hold rank *)
(* 0 (none), 1 (Rank I) or 2 (Rank II); Rank II users vote to promote and  *)
(* demote, the owner overrides, and the owner sets how many members may    *)
(* still change rank and how many votes a change takes.                    *)
(*                                                                         *)
(* One step is one transaction.  A call that reverts changes nothing, so   *)
(* the conditions under which the code reverts are the negated guards.     *)
(***************************************************************************)
EXTENDS Ranks

CONSTANTS
    MaxTally,         \* bound: votes counted for one user
    MaxSetting        \* bound: values the owner gives to a quota or threshold

ASSUME HierarchyAssumption ==
    /\ MaxTally \in Nat
    /\ MaxSetting \in Nat

(* The four voted rank changes.  Each has a quota of members ("members     *)
(* ToPromoteToRankI" and its three siblings) and a number of votes needed. *)
Promotions == {"ToRankI", "ToRankII"}
Demotions == {"FromRankI", "FromRankII"}
RankChanges == Promotions \cup Demotions

VARIABLES
    promoteVotes,     \* user -> votes counted for the user's promotion
    demoteVotes,      \* user -> votes counted for the user's demotion
    members,          \* rank change -> members that may still make it
    votesNeeded       \* rank change -> votes it takes

hierarchyVars == <<rank, promoteVotes, demoteVotes, members, votesNeeded>>

Zero == [u \in Users |-> 0]

(* The constructor leaves every mapping at zero.  The owner then sets the   *)
(* quotas and thresholds, in any way, and may seed ranks with               *)
(* emergencyPromote: the voted methods need a Rank II user to start with.   *)
HierarchyInit ==
    /\ rank \in InitialRanks
    /\ promoteVotes = Zero
    /\ demoteVotes = Zero
    /\ members \in [RankChanges -> 0..MaxSetting]
    /\ votesNeeded \in [RankChanges -> 0..MaxSetting]

Promotion(u) == IF rank[u] = 0 THEN "ToRankI" ELSE "ToRankII"
(* Mutant: the two demotion quotas are swapped. *)
DemotionSwapped(u) == IF rank[u] = 1 THEN "FromRankII" ELSE "FromRankI"
Demotion(u) == IF rank[u] = 1 THEN "FromRankI" ELSE "FromRankII"

(* _promote and _demote: the tally that led to the change is deleted, the  *)
(* opposite tally is kept.                                                 *)
(* Mutant: the tally stays. *)
RaiseRankKeepingTally(u) ==
    /\ rank' = [rank EXCEPT ![u] = @ + 1]
    /\ UNCHANGED promoteVotes

RaiseRank(u) ==
    /\ promoteVotes' = [promoteVotes EXCEPT ![u] = 0]
    /\ rank' = [rank EXCEPT ![u] = @ + 1]

LowerRank(u) ==
    /\ demoteVotes' = [demoteVotes EXCEPT ![u] = 0]
    /\ rank' = [rank EXCEPT ![u] = @ - 1]

-----------------------------------------------------------------------------
(* Votes of Rank II users.  The code keeps no record of who voted: one      *)
(* caller may vote for the same user again and again.                       *)

(* Who can be promoted, by votes or by the owner, and whether the vote now  *)
(* cast is the one that was missing.  Mutants: any user; one vote late.     *)
AnyRank(u) == TRUE
Promotable(u) == rank[u] <= 1

CompletesLate(tally, needed) == tally = needed
Completes(tally, needed) == tally + 1 = needed

Promote(caller, u) ==
    /\ rank[caller] >= 2
    /\ Promotable(u)
    /\ members[Promotion(u)] # 0
    /\ promoteVotes[u] < MaxTally
    /\ \/ /\ Completes(promoteVotes[u], votesNeeded[Promotion(u)])
          /\ members' = [members EXCEPT ![Promotion(u)] = @ - 1]
          /\ RaiseRank(u)
       \/ /\ ~Completes(promoteVotes[u], votesNeeded[Promotion(u)])
          /\ promoteVotes' = [promoteVotes EXCEPT ![u] = @ + 1]
          /\ UNCHANGED <<rank, members>>
    /\ UNCHANGED <<demoteVotes, votesNeeded>>

Demote(caller, u) ==
    /\ rank[caller] >= 2
    /\ rank[u] # 0
    /\ members[Demotion(u)] # 0
    /\ demoteVotes[u] < MaxTally
    /\ \/ /\ Completes(demoteVotes[u], votesNeeded[Demotion(u)])
          /\ members' = [members EXCEPT ![Demotion(u)] = @ - 1]
          /\ LowerRank(u)
       \/ /\ ~Completes(demoteVotes[u], votesNeeded[Demotion(u)])
          /\ demoteVotes' = [demoteVotes EXCEPT ![u] = @ + 1]
          /\ UNCHANGED <<rank, members>>
    /\ UNCHANGED <<promoteVotes, votesNeeded>>

-----------------------------------------------------------------------------
(* Owner calls. *)

EmergencyPromote(u) ==
    /\ Promotable(u)
    /\ RaiseRank(u)
    /\ UNCHANGED <<demoteVotes, members, votesNeeded>>

EmergencyDemote(u) ==
    /\ rank[u] # 0
    /\ LowerRank(u)
    /\ UNCHANGED <<promoteVotes, members, votesNeeded>>

(* updateMembersTo... and updateMembersToDemoteFrom..., one setter for each *)
(* rank change.                                                             *)
UpdateMembers(c, n) ==
    /\ members' = [members EXCEPT ![c] = n]
    /\ UNCHANGED <<rank, promoteVotes, demoteVotes, votesNeeded>>

(* updateVotesNeededTo..., one setter for each rank change. *)
UpdateVotesNeeded(c, n) ==
    /\ votesNeeded' = [votesNeeded EXCEPT ![c] = n]
    /\ UNCHANGED <<rank, promoteVotes, demoteVotes, members>>

VoteStep == \E caller, u \in Users : Promote(caller, u) \/ Demote(caller, u)

EmergencyStep == \E u \in Users : EmergencyPromote(u) \/ EmergencyDemote(u)

SettingStep ==
    \E c \in RankChanges, n \in 0..MaxSetting :
        UpdateMembers(c, n) \/ UpdateVotesNeeded(c, n)

HierarchyNext == VoteStep \/ EmergencyStep \/ SettingStep

HierarchySpec == HierarchyInit /\ [][HierarchyNext]_hierarchyVars

(* The hierarchy left to its voters: the owner has configured it and seeded *)
(* the first ranks, and does nothing more.                                  *)
VotesOnlySpec ==
    /\ HierarchyInit /\ \A c \in RankChanges : votesNeeded[c] >= 1
    /\ [][VoteStep]_hierarchyVars

-----------------------------------------------------------------------------
(* A hierarchy whose thresholds stay as deployed and are ordered: an        *)
(* unfinished tally survives a move from Rank I down to no rank, or from    *)
(* Rank I up to Rank II, so the threshold that waits there must not be      *)
(* smaller than the one the tally was counted against.                      *)

OrderedThresholds ==
    /\ \A c \in RankChanges : votesNeeded[c] >= 1
    /\ votesNeeded["ToRankII"] <= votesNeeded["ToRankI"]
    /\ votesNeeded["FromRankI"] <= votesNeeded["FromRankII"]

FixedThresholdsNext ==
    \/ VoteStep
    \/ EmergencyStep
    \/ \E c \in RankChanges, n \in 0..MaxSetting : UpdateMembers(c, n)

FixedThresholdsSpec ==
    /\ HierarchyInit /\ OrderedThresholds
    /\ [][FixedThresholdsNext]_hierarchyVars

-----------------------------------------------------------------------------
(* Properties *)

(* Ranks stay within 0..2 however votes and owner calls interleave: the     *)
(* unchecked-looking ++rank and --rank of _promote and _demote never leave  *)
(* the range that onlyRanked and onlyRankII assume.                         *)
HierarchyTypeOK ==
    /\ rank \in [Users -> 0..2]
    /\ promoteVotes \in [Users -> Nat]
    /\ demoteVotes \in [Users -> Nat]
    /\ members \in [RankChanges -> Nat]
    /\ votesNeeded \in [RankChanges -> Nat]

(* A user who cannot be promoted any further carries no promotion votes,    *)
(* one who cannot be demoted carries no demotion votes: the deletes in      *)
(* _promote and _demote are enough to keep a tally from outliving the last  *)
(* change it could lead to.                                                 *)
NoTallyBeyondReach ==
    \A u \in Users :
        /\ rank[u] = 2 => promoteVotes[u] = 0
        /\ rank[u] = 0 => demoteVotes[u] = 0

(* The documented meaning of votesNeededToRankIPromotion ("Amount of votes  *)
(* needed for a Rank I promotion"): while promotions are available, nobody  *)
(* is left without a rank who has received that many votes.  promote        *)
(* compares with ==, so a tally carried over from a demotion, or a lowered  *)
(* threshold, jumps over it and no later vote promotes the user.            *)
PromotedAtThreshold ==
    \A u \in Users :
        rank[u] = 0 /\ members["ToRankI"] # 0 =>
            promoteVotes[u] < votesNeeded["ToRankI"]

(* With fixed, ordered thresholds no tally ever reaches its threshold       *)
(* without the rank change taking place, in all four directions and across  *)
(* every promotion and demotion that carries a tally along.                 *)
NoOverdueRankChange ==
    \A u \in Users :
        /\ rank[u] = 0 => promoteVotes[u] < votesNeeded["ToRankI"]
        /\ rank[u] = 1 => promoteVotes[u] < votesNeeded["ToRankII"]
        /\ rank[u] = 1 => demoteVotes[u] < votesNeeded["FromRankI"]
        /\ rank[u] = 2 => demoteVotes[u] < votesNeeded["FromRankII"]

(* Every voted rank change is paid for by exactly one member of the         *)
(* matching quota, a quota is spent on nothing else, and no vote moves a    *)
(* user across two ranks.  (A property of the votes: the owner's overrides  *)
(* cost no quota.)                                                          *)
Moved(a, b) == \E u \in Users : rank[u] = a /\ rank'[u] = b
Spent(c) == members'[c] + 1 = members[c]
QuotaPaysRankChange ==
    [][/\ Moved(0, 1) <=> Spent("ToRankI")
       /\ Moved(1, 2) <=> Spent("ToRankII")
       /\ Moved(1, 0) <=> Spent("FromRankI")
       /\ Moved(2, 1) <=> Spent("FromRankII")
       /\ ~Moved(0, 2) /\ ~Moved(2, 0)]_hierarchyVars

=============================================================================
