--------------------------- MODULE ProtocolProofs ---------------------------
(***************************************************************************)
(* Proofs about the rank hierarchy and about the contract as a whole, for  *)
(* any set of users, any quotas, any configuration and any bounds.  Ranks  *)
(* stay within 0..2, no tally outlives its use, each change by votes is    *)
(* paid for by a quota, and with fixed, ordered thresholds every tally     *)
(* that is reached takes effect.  To the listings of the contract the      *)
(* hierarchy is no more than ranks that move by one at any moment, so what *)
(* is proved of Listings (votes, money, ballots) and of Hierarchy by       *)
(* themselves holds of the two together, and votes outlive the ranks of    *)
(* those who cast them.                                                    *)
(***************************************************************************)
EXTENDS MobulaTokensProtocol, AccountingProofs

-----------------------------------------------------------------------------
(* The hierarchy *)

HierarchyInv == HierarchyTypeOK /\ NoTallyBeyondReach

LEMMA HierarchyInitially == HierarchyInit => HierarchyInv
<1> SUFFICES ASSUME HierarchyInit PROVE HierarchyInv
  OBVIOUS
<1>1. HierarchyTypeOK
  BY HierarchyAssumption, RanksAssumption
      DEF RankMaps, HierarchyInit, HierarchyTypeOK, Zero
<1>2. NoTallyBeyondReach
  BY DEF HierarchyInit, NoTallyBeyondReach, Zero
<1> QED
  BY <1>1, <1>2 DEF HierarchyInv

(* _promote, called for a user below Rank II. *)
LEMMA RaiseRankInv ==
    ASSUME HierarchyInv, NEW u \in Users, Promotable(u), RaiseRank(u),
           UNCHANGED demoteVotes
    PROVE  /\ rank' \in [Users -> 0..2]
           /\ promoteVotes' \in [Users -> Nat]
           /\ NoTallyBeyondReach'
  BY DEF HierarchyInv, HierarchyTypeOK, NoTallyBeyondReach, RaiseRank, Promotable

(* _demote, called for a ranked user. *)
LEMMA LowerRankInv ==
    ASSUME HierarchyInv, NEW u \in Users, rank[u] # 0, LowerRank(u),
           UNCHANGED promoteVotes
    PROVE  /\ rank' \in [Users -> 0..2]
           /\ demoteVotes' \in [Users -> Nat]
           /\ NoTallyBeyondReach'
  BY DEF HierarchyInv, HierarchyTypeOK, NoTallyBeyondReach, LowerRank

LEMMA PromoteInv ==
    ASSUME HierarchyInv, NEW caller \in Users, NEW u \in Users,
           Promote(caller, u)
    PROVE  HierarchyInv'
<1> DEFINE c == Promotion(u)
<1>1. c \in RankChanges /\ members[c] \in Nat \ {0}
  BY DEF Promote, Promotion, Promotions, RankChanges, HierarchyInv,
     HierarchyTypeOK
<1>2. UNCHANGED <<demoteVotes, votesNeeded>> /\ Promotable(u)
  BY DEF Promote
<1>3. CASE Completes(promoteVotes[u], votesNeeded[c])
  <2>1. RaiseRank(u) /\ members' = [members EXCEPT ![c] = @ - 1]
    BY <1>3 DEF Promote
  <2>2. members' \in [RankChanges -> Nat]
    BY <1>1, <2>1 DEF HierarchyInv, HierarchyTypeOK
  <2> QED
    BY <1>2, <2>1, <2>2, RaiseRankInv DEF HierarchyInv, HierarchyTypeOK
<1>4. CASE ~Completes(promoteVotes[u], votesNeeded[c])
  <2>1. /\ promoteVotes' = [promoteVotes EXCEPT ![u] = @ + 1]
        /\ UNCHANGED <<rank, members>>
    BY <1>4 DEF Promote
  <2> QED
    BY <1>2, <2>1 DEF HierarchyInv, HierarchyTypeOK, NoTallyBeyondReach,
       Promotable
<1> QED
  BY <1>3, <1>4

LEMMA DemoteInv ==
    ASSUME HierarchyInv, NEW caller \in Users, NEW u \in Users,
           Demote(caller, u)
    PROVE  HierarchyInv'
<1> DEFINE c == Demotion(u)
<1>1. c \in RankChanges /\ members[c] \in Nat \ {0}
  BY DEF Demote, Demotion, Demotions, RankChanges, HierarchyInv,
     HierarchyTypeOK
<1>2. UNCHANGED <<promoteVotes, votesNeeded>> /\ rank[u] # 0
  BY DEF Demote
<1>3. CASE Completes(demoteVotes[u], votesNeeded[c])
  <2>1. LowerRank(u) /\ members' = [members EXCEPT ![c] = @ - 1]
    BY <1>3 DEF Demote
  <2>2. members' \in [RankChanges -> Nat]
    BY <1>1, <2>1 DEF HierarchyInv, HierarchyTypeOK
  <2> QED
    BY <1>2, <2>1, <2>2, LowerRankInv DEF HierarchyInv, HierarchyTypeOK
<1>4. CASE ~Completes(demoteVotes[u], votesNeeded[c])
  <2>1. /\ demoteVotes' = [demoteVotes EXCEPT ![u] = @ + 1]
        /\ UNCHANGED <<rank, members>>
    BY <1>4 DEF Demote
  <2> QED
    BY <1>2, <2>1 DEF HierarchyInv, HierarchyTypeOK, NoTallyBeyondReach
<1> QED
  BY <1>3, <1>4

LEMMA EmergencyInv ==
    ASSUME HierarchyInv, EmergencyStep
    PROVE  HierarchyInv'
<1>1. PICK u \in Users : EmergencyPromote(u) \/ EmergencyDemote(u)
  BY DEF EmergencyStep
<1>2. CASE EmergencyPromote(u)
  BY <1>2, RaiseRankInv DEF EmergencyPromote, HierarchyInv, HierarchyTypeOK
<1>3. CASE EmergencyDemote(u)
  BY <1>3, LowerRankInv DEF EmergencyDemote, HierarchyInv, HierarchyTypeOK
<1> QED
  BY <1>1, <1>2, <1>3

LEMMA SettingInv ==
    ASSUME HierarchyInv, NEW c \in RankChanges, NEW n \in 0..MaxSetting,
           UpdateMembers(c, n) \/ UpdateVotesNeeded(c, n)
    PROVE  HierarchyInv'
<1>1. n \in Nat
  BY HierarchyAssumption
<1>2. CASE UpdateMembers(c, n)
  BY <1>1, <1>2 DEF UpdateMembers, HierarchyInv, HierarchyTypeOK,
     NoTallyBeyondReach
<1>3. CASE UpdateVotesNeeded(c, n)
  BY <1>1, <1>3 DEF UpdateVotesNeeded, HierarchyInv, HierarchyTypeOK,
     NoTallyBeyondReach
<1> QED
  BY <1>2, <1>3

(* In every reachable state of the hierarchy, owner included, ranks and     *)
(* tallies have their types and no tally is left beyond reach.              *)
THEOREM HierarchyIsSafe ==
    HierarchySpec => [](HierarchyTypeOK /\ NoTallyBeyondReach)
<1>1. HierarchyInv /\ [HierarchyNext]_hierarchyVars => HierarchyInv'
  <2> SUFFICES ASSUME HierarchyInv, [HierarchyNext]_hierarchyVars
               PROVE  HierarchyInv'
    OBVIOUS
  <2>1. CASE VoteStep
    BY <2>1, PromoteInv, DemoteInv DEF VoteStep
  <2>2. CASE EmergencyStep
    BY <2>2, EmergencyInv
  <2>3. CASE SettingStep
    BY <2>3, SettingInv DEF SettingStep
  <2>4. CASE UNCHANGED hierarchyVars
    BY <2>4 DEF hierarchyVars, HierarchyInv, HierarchyTypeOK,
       NoTallyBeyondReach
  <2> QED
    BY <2>1, <2>2, <2>3, <2>4 DEF HierarchyNext
<1>2. HierarchyInv => HierarchyTypeOK /\ NoTallyBeyondReach
  BY DEF HierarchyInv
<1> QED
  BY <1>1, <1>2, HierarchyInitially, PTL DEF HierarchySpec

(* No tally is left for a promotion or demotion that cannot be voted.       *)
THEOREM TalliesStayReachable == HierarchySpec => []NoTallyBeyondReach
<1> QED
  BY HierarchyIsSafe, PTL

-----------------------------------------------------------------------------
(* Fixed, ordered thresholds.  The invariant needs the tally of Rank II     *)
(* users to be zero (NoTallyBeyondReach): a Rank II user falls to Rank I    *)
(* with whatever promotion tally is left.                                   *)

FixedInv == HierarchyInv /\ OrderedThresholds /\ NoOverdueRankChange

LEMMA FixedPromote ==
    ASSUME FixedInv, NEW caller \in Users, NEW u \in Users,
           Promote(caller, u)
    PROVE  FixedInv'
<1> USE DEF FixedInv, HierarchyInv, HierarchyTypeOK, OrderedThresholds,
     NoOverdueRankChange, NoTallyBeyondReach, RankChanges, Promotions, Demotions
<1>1. HierarchyInv'
  BY PromoteInv
<1>2. UNCHANGED <<demoteVotes, votesNeeded>> /\ rank[u] \in {0, 1}
  BY DEF Promote, Promotable
<1>3. CASE RaiseRank(u)
  BY <1>1, <1>2, <1>3 DEF RaiseRank
<1>4. CASE /\ ~Completes(promoteVotes[u], votesNeeded[Promotion(u)])
           /\ promoteVotes' = [promoteVotes EXCEPT ![u] = @ + 1]
           /\ UNCHANGED rank
  BY <1>1, <1>2, <1>4 DEF Completes, Promotion
<1> QED
  BY <1>3, <1>4 DEF Promote

LEMMA FixedDemote ==
    ASSUME FixedInv, NEW caller \in Users, NEW u \in Users,
           Demote(caller, u)
    PROVE  FixedInv'
<1> USE DEF FixedInv, HierarchyInv, HierarchyTypeOK, OrderedThresholds,
     NoOverdueRankChange, NoTallyBeyondReach, RankChanges, Promotions, Demotions
<1>1. HierarchyInv'
  BY DemoteInv
<1>2. UNCHANGED <<promoteVotes, votesNeeded>> /\ rank[u] \in {1, 2}
  BY DEF Demote
<1>3. CASE LowerRank(u)
  BY <1>1, <1>2, <1>3 DEF LowerRank
<1>4. CASE /\ ~Completes(demoteVotes[u], votesNeeded[Demotion(u)])
           /\ demoteVotes' = [demoteVotes EXCEPT ![u] = @ + 1]
           /\ UNCHANGED rank
  BY <1>1, <1>2, <1>4 DEF Completes, Demotion
<1> QED
  BY <1>3, <1>4 DEF Demote

LEMMA FixedEmergency ==
    ASSUME FixedInv, EmergencyStep
    PROVE  FixedInv'
<1> USE DEF FixedInv, HierarchyInv, HierarchyTypeOK, OrderedThresholds,
     NoOverdueRankChange, NoTallyBeyondReach, RankChanges, Promotions, Demotions
<1>1. HierarchyInv'
  BY EmergencyInv
<1>2. PICK u \in Users : EmergencyPromote(u) \/ EmergencyDemote(u)
  BY DEF EmergencyStep
<1>3. CASE EmergencyPromote(u)
  BY <1>1, <1>3 DEF EmergencyPromote, RaiseRank, Promotable
<1>4. CASE EmergencyDemote(u)
  BY <1>1, <1>4 DEF EmergencyDemote, LowerRank
<1> QED
  BY <1>2, <1>3, <1>4

(* With thresholds that stand and are ordered, no user ever holds as many   *)
(* votes as a rank change takes without having made it: the comparison with *)
(* == in promote and demote never misses its moment, whatever the quotas    *)
(* and the owner's overrides.                                               *)
THEOREM NoRankChangeIsOverdue ==
    FixedThresholdsSpec => []NoOverdueRankChange
<1>1. HierarchyInit /\ OrderedThresholds => FixedInv
  <2> SUFFICES ASSUME HierarchyInit, OrderedThresholds PROVE FixedInv
    OBVIOUS
  <2>1. HierarchyInv
    BY HierarchyInitially
  <2>2. NoOverdueRankChange
    <3>1. /\ 0 < votesNeeded["ToRankI"] /\ 0 < votesNeeded["ToRankII"]
          /\ 0 < votesNeeded["FromRankI"] /\ 0 < votesNeeded["FromRankII"]
      BY <2>1 DEF OrderedThresholds, HierarchyInv, HierarchyTypeOK,
         RankChanges, Promotions, Demotions
    <3>2. \A u \in Users : promoteVotes[u] = 0 /\ demoteVotes[u] = 0
      BY DEF HierarchyInit, Zero
    <3> QED
      BY <3>1, <3>2 DEF NoOverdueRankChange
  <2> QED
    BY <2>1, <2>2 DEF FixedInv
<1>2. FixedInv /\ [FixedThresholdsNext]_hierarchyVars => FixedInv'
  <2> SUFFICES ASSUME FixedInv, [FixedThresholdsNext]_hierarchyVars
               PROVE  FixedInv'
    OBVIOUS
  <2>1. CASE VoteStep
    BY <2>1, FixedPromote, FixedDemote DEF VoteStep
  <2>2. CASE EmergencyStep
    BY <2>2, FixedEmergency
  <2>3. ASSUME NEW c \in RankChanges, NEW n \in 0..MaxSetting,
               UpdateMembers(c, n)
        PROVE  FixedInv'
    BY <2>3, SettingInv DEF FixedInv, UpdateMembers, OrderedThresholds,
       NoOverdueRankChange
  <2>4. CASE UNCHANGED hierarchyVars
    BY <2>4 DEF hierarchyVars, FixedInv, HierarchyInv, HierarchyTypeOK,
       NoTallyBeyondReach, OrderedThresholds, NoOverdueRankChange
  <2> QED
    BY <2>1, <2>2, <2>3, <2>4 DEF FixedThresholdsNext
<1>3. FixedInv => NoOverdueRankChange
  BY DEF FixedInv
<1> QED
  BY <1>1, <1>2, <1>3, PTL DEF FixedThresholdsSpec

(* What a vote does to the ranks and the quotas. *)
QuotaPaid ==
    /\ Moved(0, 1) <=> Spent("ToRankI")
    /\ Moved(1, 2) <=> Spent("ToRankII")
    /\ Moved(1, 0) <=> Spent("FromRankI")
    /\ Moved(2, 1) <=> Spent("FromRankII")
    /\ ~Moved(0, 2) /\ ~Moved(2, 0)

(* A vote that completes nothing moves no rank and spends no quota. *)
LEMMA NothingPaid ==
    ASSUME HierarchyInv, UNCHANGED <<rank, members>>
    PROVE  QuotaPaid
<1>1. \A c \in RankChanges : members[c] \in Nat
  BY DEF HierarchyInv, HierarchyTypeOK
<1>2. \A c \in RankChanges : ~Spent(c)
  BY <1>1 DEF Spent
<1>3. \A a, b : Moved(a, b) => a = b
  BY DEF Moved
<1> QED
  BY <1>2, <1>3 DEF QuotaPaid, RankChanges, Promotions, Demotions

(* A rank that moves by one, paid by one member of quota c. *)
LEMMA OnePays ==
    ASSUME HierarchyInv, NEW u \in Users, NEW c \in RankChanges,
           members[c] # 0, members' = [members EXCEPT ![c] = @ - 1],
           NEW b \in 0..2, rank' = [rank EXCEPT ![u] = b], rank[u] # b
    PROVE  /\ \A d \in RankChanges : Spent(d) <=> d = c
           /\ \A x, y \in 0..2 :
                  x # y => (Moved(x, y) <=> x = rank[u] /\ y = b)
<1>1. members \in [RankChanges -> Nat] /\ rank \in [Users -> 0..2]
  BY DEF HierarchyInv, HierarchyTypeOK
<1>2. \A d \in RankChanges : Spent(d) <=> d = c
  BY <1>1 DEF Spent
<1>3. \A w \in Users : rank'[w] = IF w = u THEN b ELSE rank[w]
  BY <1>1
<1> QED
  BY <1>1, <1>2, <1>3 DEF Moved

LEMMA PromotePays ==
    ASSUME HierarchyInv, NEW caller \in Users, NEW u \in Users,
           Promote(caller, u)
    PROVE  QuotaPaid
<1>1. CASE UNCHANGED <<rank, members>>
  BY <1>1, NothingPaid
<1>2. CASE ~UNCHANGED <<rank, members>>
  <2>1. /\ members[Promotion(u)] # 0 /\ RaiseRank(u)
        /\ members' = [members EXCEPT ![Promotion(u)] = @ - 1]
        /\ rank[u] <= 1
    BY <1>2 DEF Promote, Promotable
  <2>2. rank \in [Users -> 0..2]
    BY DEF HierarchyInv, HierarchyTypeOK
  <2>3. rank[u] \in {0, 1} /\ rank' = [rank EXCEPT ![u] = rank[u] + 1]
    BY <2>1, <2>2 DEF RaiseRank
  <2>4. Promotion(u) \in RankChanges
    BY DEF Promotion, RankChanges, Promotions
  <2>5. /\ \A d \in RankChanges : Spent(d) <=> d = Promotion(u)
        /\ \A x, y \in 0..2 :
               x # y => (Moved(x, y) <=> x = rank[u] /\ y = rank[u] + 1)
    <3> DEFINE b == rank[u] + 1
               c == Promotion(u)
    <3>1. b \in 0..2 /\ rank[u] # b
      BY <2>3
    <3>2. /\ c \in RankChanges /\ members[c] # 0
          /\ members' = [members EXCEPT ![c] = @ - 1]
          /\ rank' = [rank EXCEPT ![u] = b]
      BY <2>1, <2>3, <2>4
    <3> HIDE DEF b, c
    <3>3. /\ \A d \in RankChanges : Spent(d) <=> d = c
          /\ \A x, y \in 0..2 :
                 x # y => (Moved(x, y) <=> x = rank[u] /\ y = b)
      BY <3>1, <3>2, OnePays
    <3> QED
      BY <3>3 DEF b, c
  <2> QED
    BY <2>3, <2>5 DEF QuotaPaid, Promotion, RankChanges, Promotions, Demotions
<1> QED
  BY <1>1, <1>2

LEMMA DemotePays ==
    ASSUME HierarchyInv, NEW caller \in Users, NEW u \in Users,
           Demote(caller, u)
    PROVE  QuotaPaid
<1>1. CASE UNCHANGED <<rank, members>>
  BY <1>1, NothingPaid
<1>2. CASE ~UNCHANGED <<rank, members>>
  <2>1. /\ members[Demotion(u)] # 0 /\ LowerRank(u)
        /\ members' = [members EXCEPT ![Demotion(u)] = @ - 1]
        /\ rank[u] # 0
    BY <1>2 DEF Demote
  <2>2. rank \in [Users -> 0..2]
    BY DEF HierarchyInv, HierarchyTypeOK
  <2>3. rank[u] \in {1, 2} /\ rank' = [rank EXCEPT ![u] = rank[u] - 1]
    BY <2>1, <2>2 DEF LowerRank
  <2>4. Demotion(u) \in RankChanges
    BY DEF Demotion, RankChanges, Demotions
  <2>5. /\ \A d \in RankChanges : Spent(d) <=> d = Demotion(u)
        /\ \A x, y \in 0..2 :
               x # y => (Moved(x, y) <=> x = rank[u] /\ y = rank[u] - 1)
    <3> DEFINE b == rank[u] - 1
               c == Demotion(u)
    <3>1. b \in 0..2 /\ rank[u] # b
      BY <2>3
    <3>2. /\ c \in RankChanges /\ members[c] # 0
          /\ members' = [members EXCEPT ![c] = @ - 1]
          /\ rank' = [rank EXCEPT ![u] = b]
      BY <2>1, <2>3, <2>4
    <3> HIDE DEF b, c
    <3>3. /\ \A d \in RankChanges : Spent(d) <=> d = c
          /\ \A x, y \in 0..2 :
                 x # y => (Moved(x, y) <=> x = rank[u] /\ y = b)
      BY <3>1, <3>2, OnePays
    <3> QED
      BY <3>3 DEF b, c
  <2> QED
    BY <2>3, <2>5 DEF QuotaPaid, Demotion, RankChanges, Promotions, Demotions
<1> QED
  BY <1>1, <1>2

LEMMA VoteStepPays ==
    ASSUME HierarchyInv, VoteStep
    PROVE  QuotaPaid
BY PromotePays, DemotePays DEF VoteStep

(* A hierarchy left to its voters: every rank change is paid by exactly one *)
(* member of the quota it belongs to, no quota is spent on anything else,   *)
(* and nobody moves across two ranks at once.                               *)
THEOREM VotesPayQuota ==
    HierarchyInit /\ [][VoteStep]_hierarchyVars => QuotaPaysRankChange
<1>1. HierarchyInv /\ [VoteStep]_hierarchyVars => HierarchyInv'
  <2>1. HierarchyInv /\ VoteStep => HierarchyInv'
    BY PromoteInv, DemoteInv DEF VoteStep
  <2>2. HierarchyInv /\ UNCHANGED hierarchyVars => HierarchyInv'
    BY DEF hierarchyVars, HierarchyInv, HierarchyTypeOK, NoTallyBeyondReach
  <2> QED
    BY <2>1, <2>2
<1>2. HierarchyInv /\ [VoteStep]_hierarchyVars => [QuotaPaid]_hierarchyVars
  BY VoteStepPays
<1> QED
  BY <1>1, <1>2, HierarchyInitially, PTL DEF QuotaPaysRankChange, QuotaPaid

-----------------------------------------------------------------------------
(* The whole contract *)

(* A vote of the hierarchy changes one rank, or none, and no listing.       *)
LEMMA VoteStepMovesOneRank ==
    ASSUME MovingRanks = Users, HierarchyInv, HierarchyStep
    PROVE  (\E user \in MovingRanks : RankChange(user)) \/ UNCHANGED listingsVars
<1>1. PICK caller \in Users, u \in Users : Promote(caller, u) \/ Demote(caller, u)
  BY DEF HierarchyStep, VoteStep
<1>2. UNCHANGED <<listingVars, submitVars, votesPhase, rewardVars, claimVars,
                  ownerVars, now>>
  BY DEF HierarchyStep
<1>3. rank[u] \in 0..2
  BY DEF HierarchyInv, HierarchyTypeOK
<1>4. CASE UNCHANGED rank
  BY <1>2, <1>4 DEF listingsVars, outsideVars
<1>5. CASE Promotable(u) /\ RaiseRank(u)
  <2>1. rank[u] < 2 /\ rank' = [rank EXCEPT ![u] = @ + 1]
    BY <1>3, <1>5 DEF Promotable, RaiseRank
  <2>2. RankChange(u)
    BY <1>2, <2>1, Zenon DEF RankChange
  <2> QED
    BY <2>2
<1>6. CASE rank[u] # 0 /\ LowerRank(u)
  <2>1. rank[u] > 0 /\ rank' = [rank EXCEPT ![u] = @ - 1]
    BY <1>3, <1>6 DEF LowerRank
  <2>2. RankChange(u)
    BY <1>2, <2>1, Zenon DEF RankChange
  <2> QED
    BY <2>2
<1> QED
  BY <1>1, <1>4, <1>5, <1>6 DEF Promote, Demote

(* No transaction on a listing moves a rank or a tally. *)
LEMMA ListingsStepKeepsRanks ==
    ASSUME ListingsStep
    PROVE  UNCHANGED hierarchyVars
<1> SUFFICES UNCHANGED rank
  BY DEF ListingsStep, tallyVars, hierarchyVars
<1>1. CASE SubmitterStep
  <2> PICK user \in Users :
          \/ \E amount \in PaymentAmounts, tokenId \in 0..nextTokenId :
                 SubmitToken(user, amount, tokenId)
          \/ \E v \in VoteIds, amount \in PaymentAmounts :
                 TopUpToken(user, v, amount)
          \/ \E v \in VoteIds : UpdateToken(user, v)
          \/ ClaimRewards(user)
    BY <1>1 DEF SubmitterStep
  <2>1. ASSUME NEW amount \in PaymentAmounts, NEW tokenId \in 0..nextTokenId,
               SubmitToken(user, amount, tokenId)
        PROVE  UNCHANGED rank
    BY <2>1, Zenon DEF SubmitToken, SubmitTokenFor, outsideVars
  <2>2. ASSUME NEW v \in VoteIds, NEW amount \in PaymentAmounts,
               TopUpToken(user, v, amount)
        PROVE  UNCHANGED rank
    BY <2>2, Zenon DEF TopUpToken, TopUpTokenFor, outsideVars
  <2>3. ASSUME NEW v \in VoteIds, UpdateToken(user, v)
        PROVE  UNCHANGED rank
    BY <2>3, Zenon DEF UpdateToken, UpdateTokenFor, outsideVars
  <2>4. CASE ClaimRewards(user)
    BY <2>4, Zenon DEF ClaimRewards, outsideVars
  <2> QED
    BY <2>1, <2>2, <2>3, <2>4
<1>2. CASE VoterStep
  <2> PICK user \in Users, v \in VoteIds, vote \in Votes,
           score \in Scores \cup {0} :
          \/ VoteSorting(user, v, vote, score)
          \/ VoteValidation(user, v, vote, score)
    BY <1>2 DEF VoterStep
  <2>1. CASE VoteSorting(user, v, vote, score)
    BY <2>1 DEF VoteSorting, outsideVars
  <2>2. CASE VoteValidation(user, v, vote, score)
    BY <2>2 DEF VoteValidation, outsideVars
  <2> QED
    BY <2>1, <2>2
<1>3. CASE OwnerStep
  <2>1. ASSUME NEW v \in VoteIds, NEW s,
               EmergencyUpdateListingStatus(v, s)
        PROVE  UNCHANGED rank
    BY <2>1, Zenon DEF EmergencyUpdateListingStatus, outsideVars
  <2>2. ASSUME NEW p, NEW x, UpdateParameter(p, x)
        PROVE  UNCHANGED rank
    BY <2>2, Zenon DEF UpdateParameter, outsideVars
  <2>3. ASSUME NEW user, NEW b, WhitelistSubmitter(user, b)
        PROVE  UNCHANGED rank
    BY <2>3, Zenon DEF WhitelistSubmitter, outsideVars
  <2>4. ASSUME NEW amount, WithdrawERC20Funds(amount)
        PROVE  UNCHANGED rank
    BY <2>4, Zenon DEF WithdrawERC20Funds, outsideVars
  <2> QED
    BY <1>3, <2>1, <2>2, <2>3, <2>4 DEF OwnerStep, EmergencyKillRequest
<1>4. CASE Tick
  BY <1>4 DEF Tick
<1> QED
  BY <1>1, <1>2, <1>3, <1>4 DEF ListingsStep

LEMMA ProtocolStepIsVote ==
    ASSUME [ProtocolNext]_protocolVars
    PROVE  VoteStep \/ UNCHANGED hierarchyVars
<1>1. UNCHANGED protocolVars => UNCHANGED hierarchyVars
  BY DEF protocolVars, listingsVars, outsideVars, tallyVars, hierarchyVars
<1> QED
  BY <1>1, ListingsStepKeepsRanks DEF ProtocolNext, HierarchyStep

LEMMA ProtocolStepKeepsHierarchy ==
    ASSUME HierarchyInv, [ProtocolNext]_protocolVars
    PROVE  HierarchyInv'
<1>1. CASE VoteStep
  BY <1>1, PromoteInv, DemoteInv DEF VoteStep
<1>2. CASE UNCHANGED hierarchyVars
  BY <1>2 DEF hierarchyVars, HierarchyInv, HierarchyTypeOK, NoTallyBeyondReach
<1> QED
  BY <1>1, <1>2, ProtocolStepIsVote

LEMMA ProtocolStepIsListingsStep ==
    ASSUME MovingRanks = Users, HierarchyInv, [ProtocolNext]_protocolVars
    PROVE  [ListingsNext]_listingsVars
<1>1. CASE HierarchyStep
  BY <1>1, VoteStepMovesOneRank DEF ListingsNext, OutsideStep
<1>2. CASE ListingsStep
  BY <1>2 DEF ListingsStep, ListingsNext, OutsideStep
<1>3. CASE UNCHANGED protocolVars
  BY <1>3 DEF protocolVars
<1> QED
  BY <1>1, <1>2, <1>3 DEF ProtocolNext

(* The contract implements Listings: promote and demote, whatever tallies,  *)
(* quotas and thresholds they work with, reach the listings only as a rank  *)
(* that moves by one within 0..2.                                           *)
THEOREM ProtocolImplementsListings ==
    ASSUME MovingRanks = Users
    PROVE  ProtocolSpec => ImplementsListings
<1>1. ProtocolInit => HierarchyInv
  BY HierarchyInitially DEF ProtocolInit
<1>2. HierarchyInv /\ [ProtocolNext]_protocolVars => HierarchyInv'
  BY ProtocolStepKeepsHierarchy
<1>3. HierarchyInv /\ [ProtocolNext]_protocolVars => [ListingsNext]_listingsVars
  BY ProtocolStepIsListingsStep
<1>4. ProtocolInit => ListingsInit
  BY DEF ProtocolInit
<1> QED
  BY <1>1, <1>2, <1>3, <1>4, PTL
     DEF ProtocolSpec, ImplementsListings, ListingsSpec

(* So the listings of the whole contract are sound as well: the theorem     *)
(* about Listings carries over along the refinement.                        *)
THEOREM ProtocolListingsAreSound ==
    ASSUME MovingRanks = Users
    PROVE  ProtocolSpec =>
               [](ListingsTypeOK /\ StatusArraysConsistent /\ OneVotePerPhase
                  /\ ScoresBounded)
<1>1. ProtocolSpec => CallsSpec
  BY ProtocolImplementsListings, LocalCallsAreCalls DEF ImplementsListings
<1> QED
  BY <1>1, ListingsAreSound, PTL

(* Nor does the accounting depend on how ranks come about: nobody is judged *)
(* twice for a vote, claims pay what is owed, ids are dense.                *)
THEOREM ProtocolKeepsAccounts ==
    ASSUME MovingRanks = Users
    PROVE  ProtocolSpec =>
               [](VotesJudgedOnce /\ ClaimsArePaid /\ TokenIdsAreDense)
<1>1. ProtocolSpec => CallsSpec
  BY ProtocolImplementsListings, LocalCallsAreCalls DEF ImplementsListings
<1> QED
  BY <1>1, VotesStayJudgedOnce, ClaimsPayWhatIsOwed, TokenIdsStayDense, PTL

(* With thresholds that stand and no override, the whole contract keeps the *)
(* promises about votes while promotions and demotions go on: it implements *)
(* the ballots of ListingBallots.                                           *)
THEOREM ProtocolImplementsBallots ==
    ASSUME MovingRanks = Users, OwnerMoves = {}, ThresholdsStand
    PROVE  ProtocolSpec => ImplementsBallots
<1>1. ProtocolSpec => CallsSpec
  BY ProtocolImplementsListings, LocalCallsAreCalls DEF ImplementsListings
<1> QED
  BY <1>1, ListingsImplementBallots, PTL

(* And no listing is stuck for want of voters, if enough users hold the     *)
(* rank at that moment, whoever held it when the votes on record were cast. *)
THEOREM ProtocolVotesCanContinue ==
    ASSUME MovingRanks = Users, OwnerMoves = {}, ThresholdsStand,
           VerdictsNeedVotes
    PROVE  ProtocolSpec => []VoteCanContinue
<1>1. ProtocolSpec => CallsSpec
  BY ProtocolImplementsListings, LocalCallsAreCalls DEF ImplementsListings
<1> QED
  BY <1>1, VotesCanContinue, PTL

(* A verdict comes with the vote that completes it, and Validation rests on *)
(* an accepted Sorting vote, even if promotions and demotions in between    *)
(* change who may vote.                                                     *)
THEOREM ProtocolVerdictsAreSound ==
    ASSUME MovingRanks = Users, OwnerMoves = {}, ThresholdsStand,
           VerdictsNeedVotes
    PROVE  ProtocolSpec => [](NoOverdueVerdict /\ ValidationRestsOnSorting)
<1>1. ProtocolSpec => CallsSpec
  BY ProtocolImplementsListings, LocalCallsAreCalls DEF ImplementsListings
<1> QED
  BY <1>1, NoVerdictIsOverdue, ValidationFollowsSorting, PTL

(* Nor do ranks that move make a vote come too early: Sorting votes wait    *)
(* for the cooldown in the whole contract.                                  *)
THEOREM ProtocolVotesStayCool ==
    ASSUME MovingRanks = Users, Settings["voteCooldown"] = {}
    PROVE  ProtocolSpec => []VotesAwaitCooldown
<1>1. ProtocolSpec => CallsSpec
  BY ProtocolImplementsListings, LocalCallsAreCalls DEF ImplementsListings
<1> QED
  BY <1>1, VotesStayCool, PTL

(* The money of the whole contract: right votes are backed by coefficients  *)
(* owed or claimed, coefficients by stablecoins, and verdicts pay the votes *)
(* on record whatever ranks the voters have by then.                        *)
THEOREM ProtocolMoneyIsCovered ==
    ASSUME MovingRanks = Users, OwnerMoves = {}, WhitelistChanges = {},
           \A p \in {"tokensPerVote", "submitFloorPrice",
                     "editCoeffMultiplier"} : Settings[p] = {}
    PROVE  ProtocolSpec => /\ [](RewardsBackGoodVotes /\ CoeffsArePaidFor)
                           /\ VerdictsPayTheRecord
<1>1. ProtocolSpec => ListingsSpec
  BY ProtocolImplementsListings DEF ImplementsListings
<1>2. CallsSpec => []RewardsBackGoodVotes
  BY RewardsStayBacked
<1>3. ListingsSpec => []CoeffsArePaidFor
  BY CoeffsStayPaidFor
<1>4. CallsSpec => VerdictsPayTheRecord
  BY VerdictsPayRecords
<1> QED
  BY <1>1, <1>2, <1>3, <1>4, LocalCallsAreCalls, PTL

(* To the hierarchy, the contract is a sequence of votes: no transaction on *)
(* a listing touches a rank, a tally, a quota or a threshold.               *)
LEMMA ProtocolIsVotes == ProtocolSpec => HierarchyInit /\ [][VoteStep]_hierarchyVars
<1>1. ProtocolInit => HierarchyInit
  BY DEF ProtocolInit
<1>2. [ProtocolNext]_protocolVars => [VoteStep]_hierarchyVars
  BY ProtocolStepIsVote
<1> QED
  BY <1>1, <1>2, PTL DEF ProtocolSpec

(* In the contract as a whole, each voted rank change is paid by one member *)
(* of its own quota and no quota is spent on anything else, whatever        *)
(* happens to the listings meanwhile.                                       *)
THEOREM ProtocolVotesPayQuota == ProtocolSpec => QuotaPaysRankChange
BY ProtocolIsVotes, VotesPayQuota, PTL

(* While thresholds stand and are ordered, no rank change is overdue in the *)
(* contract as a whole.                                                     *)
THEOREM NoProtocolRankChangeIsOverdue ==
    ProtocolSpec /\ OrderedThresholds => []NoOverdueRankChange
<1>1. [VoteStep]_hierarchyVars => [FixedThresholdsNext]_hierarchyVars
  BY DEF FixedThresholdsNext
<1> QED
  BY <1>1, ProtocolIsVotes, NoRankChangeIsOverdue, PTL DEF FixedThresholdsSpec

-----------------------------------------------------------------------------
(* Votes and ranks.  A listing in a status that deletes its votes on entry  *)
(* has none, so whatever removes a vote also changes the status.            *)

ClearedHasNoVotes ==
    \A v \in VoteIds : status[v] \in ClearingStatuses => votes[v] = NoVotes

(* What a step does to the votes: a user who holds the rank pushes one vote,*)
(* the votes of a listing are deleted, or both.                             *)
Pushes(vs) ==
    \E user \in Users, v \in VoteIds, st \in Stages, vote \in Votes :
        HoldsRank(user, st) /\ vs = VotesWith(user, v, st, vote)

LEMMA VotesPushedOrDeleted ==
    ASSUME ListingsInv, [CallsNext]_listingsVars
    PROVE  \E vs : (vs = votes \/ Pushes(vs)) /\ Deletes(vs)
<1>1. CASE Quiet
  BY <1>1 DEF Quiet
<1>2. ASSUME NEW user \in Users, ClaimRewards(user) PROVE Deletes(votes)
  BY <1>2 DEF ClaimRewards, listingVars, Deletes
<1>3. ASSUME NEW user \in Users, NEW v \in VoteIds, NEW st \in Stages,
             NEW vote \in Votes, Casts(user, v, st, vote)
      PROVE  \E vs : Pushes(vs) /\ Deletes(vs)
  BY <1>3, Zenon DEF Casts, MayVote, Pushes
<1> QED
  BY <1>1, <1>2, <1>3, StepRecords DEF RecordStep

(* So a voter who was not on record, and is now, holds the rank.            *)
LEMMA NewVotersHoldRank ==
    ASSUME ListingsInv, [CallsNext]_listingsVars,
           NEW v \in VoteIds, NEW st \in Stages, NEW u \in Users,
           Recorded(u, votes'[v][st]), ~Recorded(u, votes[v][st])
    PROVE  HoldsRank(u, st)
<1>1. PICK vs : (vs = votes \/ Pushes(vs)) /\ Deletes(vs)
  BY VotesPushedOrDeleted
<1>2. votes \in [VoteIds -> [Stages -> [Votes -> Seq(Users)]]]
  BY DEF ListingsInv, Sound, Typed
<1>3. DOMAIN vs = VoteIds
  BY <1>1, <1>2 DEF Pushes, VotesWith
<1>4. votes'[v] = vs[v] \/ votes'[v] = NoVotes
  BY <1>1, <1>3 DEF Deletes
<1>5. Recorded(u, vs[v][st])
  BY <1>4, NobodyRecorded
<1>6. PICK user \in Users, w \in VoteIds, t \in Stages, vote \in Votes :
          HoldsRank(user, t) /\ vs = VotesWith(user, w, t, vote)
  BY <1>1, <1>5 DEF Pushes
<1>7. PICK k \in Votes : u \in ToSet(vs[v][st][k]) /\ u \notin ToSet(votes[v][st][k])
  BY <1>5 DEF Recorded
<1>8. /\ v = w /\ st = t
      /\ vs[v][st][k] = Append(votes[v][st][k], user)
  BY <1>2, <1>6, <1>7 DEF VotesWith
<1>9. u = user
  <2> DEFINE old == votes[v][st][k]
  <2>1. old \in Seq(Users)
    BY <1>2
  <2> HIDE DEF old
  <2>2. ToSet(Append(old, user)) = ToSet(old) \cup {user}
    BY <2>1, AppendProperties, LenProperties DEF ToSet
  <2> QED
    BY <1>7, <1>8, <2>2 DEF old
<1> QED
  BY <1>6, <1>8, <1>9

(* And a vote that leaves the record leaves with a change of status.        *)
LEMMA LostVotesChangeStatus ==
    ASSUME ListingsInv, ClearedHasNoVotes, [CallsNext]_listingsVars,
           NEW v \in VoteIds, NEW st \in Stages, NEW u \in Users,
           Recorded(u, votes[v][st]), ~Recorded(u, votes'[v][st])
    PROVE  status'[v] # status[v]
<1>1. PICK vs : (vs = votes \/ Pushes(vs)) /\ Deletes(vs)
  BY VotesPushedOrDeleted
<1>2. /\ votes \in [VoteIds -> [Stages -> [Votes -> Seq(Users)]]]
      /\ DOMAIN status = VoteIds
  BY DEF ListingsInv, Sound, Typed, StatusArraysTypeOK
<1>3. Recorded(u, vs[v][st])
  <2>1. ASSUME NEW user \in Users, NEW w \in VoteIds, NEW t \in Stages,
               NEW vote \in Votes, vs = VotesWith(user, w, t, vote)
        PROVE  Recorded(u, vs[v][st])
    <3>1. PICK k \in Votes : u \in ToSet(votes[v][st][k])
      BY DEF Recorded
    <3>2. \/ vs[v][st][k] = votes[v][st][k]
          \/ vs[v][st][k] = Append(votes[v][st][k], user)
      BY <1>2, <2>1 DEF VotesWith
    <3> DEFINE old == votes[v][st][k]
    <3>3. old \in Seq(Users)
      BY <1>2
    <3> HIDE DEF old
    <3>4. ToSet(old) \subseteq ToSet(Append(old, user))
      BY <3>3, AppendProperties, LenProperties DEF ToSet
    <3> QED
      BY <3>1, <3>2, <3>4 DEF Recorded, old
  <2> QED
    BY <1>1, <2>1 DEF Pushes
<1>4. votes'[v] # vs[v] /\ DOMAIN vs = VoteIds
  BY <1>1, <1>2, <1>3 DEF Pushes, VotesWith
<1>5. status'[v] \in ClearingStatuses
  BY <1>1, <1>2, <1>4 DEF Deletes
<1>6. status[v] \notin ClearingStatuses
  BY NobodyRecorded DEF ClearedHasNoVotes
<1> QED
  BY <1>5, <1>6

LEMMA ClearedStaysEmpty ==
    ASSUME ListingsInv, ClearedHasNoVotes, [CallsNext]_listingsVars
    PROVE  ClearedHasNoVotes'
<1> SUFFICES ASSUME NEW v \in VoteIds, status'[v] \in ClearingStatuses
             PROVE  votes'[v] = NoVotes
  BY DEF ClearedHasNoVotes, ClearingStatuses
<1>1. status[v] \in ClearingStatuses => votes[v] = NoVotes
  BY DEF ClearedHasNoVotes
<1>2. CASE Arrives(v) \/ Stands(v) \/ IsToppedUp(v)
  BY <1>1, <1>2 DEF Arrives, Stands, IsToppedUp, ClearingStatuses
<1>3. CASE IsUpdated(v) \/ IsOverridden(v)
  BY <1>3 DEF IsUpdated, IsOverridden, ClearingStatuses
<1>4. ASSUME NEW st \in Stages, IsVotedOn(v, st)
      PROVE  votes'[v] = NoVotes
  BY <1>4 DEF IsVotedOn, ClearingStatuses, Stages
<1> QED
  BY <1>2, <1>3, <1>4, StepEffect DEF Effects, Changes

(* In the contract as a whole, only a holder of the rank at that moment     *)
(* gets on the record of a vote, and votes leave the record only with a     *)
(* verdict or an override of the listing itself, never because a rank moves *)
(* in the hierarchy.                                                        *)
THEOREM VotesStayWhenRanksMove ==
    ASSUME MovingRanks = Users
    PROVE  ProtocolSpec => VotesOutliveRanks
<1> DEFINE Kept ==
        \A v \in VoteIds, st \in Stages, u \in Users :
           /\ RecordedBy(u, v, st)' /\ ~RecordedBy(u, v, st) =>
                  rank[u] >= RankNeeded(st)
           /\ RecordedBy(u, v, st) /\ ~RecordedBy(u, v, st)' =>
                  /\ status'[v] # status[v]
                  /\ rank' = rank
<1>1. \A u, v, st : RecordedBy(u, v, st) <=> Recorded(u, votes[v][st])
  BY DEF RecordedBy, Recorded
<1>2. ListingsInit => ListingsInv /\ ClearedHasNoVotes
  BY ListingsInitially DEF ListingsInit, ClearedHasNoVotes
<1>3. ListingsInv /\ ClearedHasNoVotes /\ [CallsNext]_listingsVars
      => ListingsInv' /\ ClearedHasNoVotes'
  BY StepPreserves, ClearedStaysEmpty
<1>4. ListingsInv /\ ClearedHasNoVotes /\ [CallsNext]_listingsVars
          /\ [ProtocolNext]_protocolVars
      => [Kept]_protocolVars
  <2> SUFFICES ASSUME ListingsInv, ClearedHasNoVotes,
                      [CallsNext]_listingsVars, [ProtocolNext]_protocolVars,
                      NEW v \in VoteIds, NEW st \in Stages, NEW u \in Users
               PROVE  /\ RecordedBy(u, v, st)' /\ ~RecordedBy(u, v, st) =>
                              rank[u] >= RankNeeded(st)
                      /\ RecordedBy(u, v, st) /\ ~RecordedBy(u, v, st)' =>
                              /\ status'[v] # status[v]
                              /\ rank' = rank
    BY Zenon
  <2>1. RecordedBy(u, v, st)' <=> Recorded(u, votes'[v][st])
    BY DEF RecordedBy, Recorded
  <2>2. RecordedBy(u, v, st)' /\ ~RecordedBy(u, v, st) =>
            rank[u] >= RankNeeded(st)
    BY <1>1, <2>1, NewVotersHoldRank DEF HoldsRank
  <2>3. RecordedBy(u, v, st) /\ ~RecordedBy(u, v, st)' =>
            status'[v] # status[v]
    BY <1>1, <2>1, LostVotesChangeStatus
  <2>4. RecordedBy(u, v, st) /\ ~RecordedBy(u, v, st)' => rank' = rank
    <3>1. HierarchyStep => votes' = votes
      BY DEF HierarchyStep, listingVars
    <3>2. UNCHANGED protocolVars => rank' = rank
      BY DEF protocolVars, listingsVars, outsideVars
    <3>3. ListingsStep => rank' = rank
      BY ListingsStepKeepsRanks DEF hierarchyVars
    <3> QED
      BY <1>1, <2>1, <3>1, <3>2, <3>3 DEF ProtocolNext
  <2> QED
    BY <2>2, <2>3, <2>4
<1>5. ProtocolSpec => CallsSpec
  BY ProtocolImplementsListings, LocalCallsAreCalls DEF ImplementsListings
<1> HIDE DEF Kept
<1>6. ProtocolSpec => [][Kept]_protocolVars
  BY <1>2, <1>3, <1>4, <1>5, PTL DEF ProtocolSpec, CallsSpec
<1> QED
  BY <1>6 DEF VotesOutliveRanks, Kept

=============================================================================
