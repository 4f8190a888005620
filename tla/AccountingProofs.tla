-------------------------- MODULE AccountingProofs --------------------------
(***************************************************************************)
(* Proofs about what Listings keeps accounts of: votes on record, verdicts *)
(* on voters, rewards owed and paid, coefficients against stablecoins, and *)
(* the ballots of ListingBallots that the vote arrays implement.           *)
(* As in ListingsProofs, what a step does to these records is read off the *)
(* actions once (RecordStep); each account is then a few lines of          *)
(* arithmetic for every way they change.                                   *)
(***************************************************************************)
EXTENDS ListingsProofs

(* What a transaction does to the votes vs it has built: it keeps them, or  *)
(* deletes those of a listing that enters a status which deletes them.      *)
Deletes(vs) ==
    \/ votes' = vs
    \/ \E v \in VoteIds, s \in ClearingStatuses :
           /\ votes' = [vs EXCEPT ![v] = NoVotes]
           /\ status' = [status EXCEPT ![v] = s]

BalancesStand == \A u \in Users : mobl'[u] = mobl[u]

(* A vote cast, with the marks and arrays it leaves; no user is judged, or  *)
(* the voters of both stages are and their votes are deleted.               *)
Casts(user, v, st, vote) ==
    /\ MayVote(user, v, st)
    /\ MarkVoter(user, v, st)
    /\ paidRewards' = paidRewards /\ BalancesStand
    /\ LET vs == VotesWith(user, v, st, vote)
       IN  /\ Deletes(vs)
           /\ \/ UNCHANGED <<goodVotes, badVotes, owedRewards>>
              \/ /\ st = "Validation"
                 /\ votes'[v] = NoVotes
                 /\ \/ RewardVoters(vs, v, "Accept", "Reject")
                    \/ RewardVoters(vs, v, "Reject", "Accept")

Quiet ==
    /\ UNCHANGED <<votesPhase, goodVotes, badVotes, owedRewards, paidRewards>>
    /\ BalancesStand
    /\ Deletes(votes)

RecordStep ==
    \/ Quiet
    \/ \E user \in Users : ClaimRewards(user)
    \/ \E user \in Users, v \in VoteIds, st \in Stages, vote \in Votes :
           Casts(user, v, st, vote)

LEMMA MoveDeletes ==
    ASSUME NEW vs, NEW ls, NEW v \in VoteIds, NEW s,
           UpdateListingStatus(ls, vs, v, s)
    PROVE  Deletes(vs)
BY Zenon DEF UpdateListingStatus, MoveListing, Deletes

LEMMA MoveClears ==
    ASSUME NEW vs, DOMAIN vs = VoteIds, NEW ls, NEW v \in VoteIds,
           NEW s \in ClearingStatuses, UpdateListingStatus(ls, vs, v, s)
    PROVE  votes'[v] = NoVotes
BY DEF UpdateListingStatus

LEMMA StepRecords ==
    ASSUME ListingsInv, [CallsNext]_listingsVars
    PROVE  RecordStep
<1>0. votes \in [VoteIds -> [Stages -> [Votes -> Seq(Users)]]]
  BY DEF ListingsInv, Sound, Typed
<1>1. ASSUME UNCHANGED <<votesPhase, rewardVars, claimVars>>, Deletes(votes)
      PROVE  RecordStep
  BY <1>1 DEF RecordStep, Quiet, BalancesStand, rewardVars, claimVars
<1>2. UNCHANGED votes => Deletes(votes)
  BY DEF Deletes
<1>3. CASE CallStep
  <2> PICK caller : \E user \in Users, amount \in Nat : CallsFor(caller, user, amount)
    BY <1>3, Zenon DEF CallStep
  <2> PICK user \in Users, amount \in Nat : CallsFor(caller, user, amount)
    OBVIOUS
  <2>0. UNCHANGED <<votesPhase, rewardVars, claimVars>>
    BY <1>3, CallsKeep
  <2>1. ASSUME NEW tokenId \in Nat, SubmitTokenFor(caller, user, amount, tokenId)
        PROVE  RecordStep
    <3>1. tokenListingsLength \in VoteIds
      <4>1. tokenListingsLength < MaxListings
        BY <2>1, Zenon DEF SubmitTokenFor
      <4>2. tokenListingsLength \in Nat
        BY MaxListingsAssumption DEF ListingsInv, OthersTyped
      <4> QED
        BY <4>1, <4>2, MaxListingsAssumption DEF VoteIds
    <3>2. \E ls, s : UpdateListingStatus(ls, votes, tokenListingsLength, s)
      BY <2>1, Zenon DEF SubmitTokenFor
    <3> QED
      BY <1>1, <2>0, <3>1, <3>2, MoveDeletes
  <2>2. ASSUME NEW v \in VoteIds, TopUpTokenFor(caller, user, v, amount)
        PROVE  RecordStep
    <3>1. (\E ls, s : UpdateListingStatus(ls, votes, v, s)) \/ UNCHANGED votes
      BY <2>2, Zenon DEF TopUpTokenFor
    <3> QED
      BY <1>1, <1>2, <2>0, <3>1, MoveDeletes
  <2>3. ASSUME NEW v \in VoteIds, UpdateTokenFor(user, v) PROVE RecordStep
    BY <1>1, <2>0, <2>3, MoveDeletes DEF UpdateTokenFor
  <2> QED
    BY <2>1, <2>2, <2>3 DEF CallsFor
<1>8. CASE ClaimStep
  BY <1>8 DEF ClaimStep, RecordStep
<1>4. CASE VoterStep
  <2> PICK user \in Users, v \in VoteIds, vote \in Votes,
           score \in Scores \cup {0} :
          \/ VoteSorting(user, v, vote, score)
          \/ VoteValidation(user, v, vote, score)
    BY <1>4 DEF VoterStep
  <2> DEFINE vs(st) == VotesWith(user, v, st, vote)
  <2>0. \A st : DOMAIN vs(st) = VoteIds
    BY <1>0 DEF VotesWith
  <2>1. CASE VoteSorting(user, v, vote, score)
    <3>1. /\ MayVote(user, v, "Sorting") /\ MarkVoter(user, v, "Sorting")
          /\ UNCHANGED <<rewardVars, claimVars>>
      BY <2>1 DEF VoteSorting
    <3>2. \/ votes' = vs("Sorting")
          \/ \E ls, s : UpdateListingStatus(ls, vs("Sorting"), v, s)
      BY <2>1, Zenon DEF VoteSorting
    <3>3. Deletes(vs("Sorting"))
      <4> HIDE DEF vs
      <4> QED
        BY <3>2, MoveDeletes DEF Deletes
    <3>4. Casts(user, v, "Sorting", vote)
      BY <3>1, <3>3 DEF Casts, rewardVars, claimVars, BalancesStand
    <3> QED
      BY <3>4 DEF RecordStep, Stages
  <2>2. CASE VoteValidation(user, v, vote, score)
    <3> DEFINE ws == vs("Validation")
    <3>1. /\ MayVote(user, v, "Validation") /\ MarkVoter(user, v, "Validation")
          /\ UNCHANGED claimVars
      BY <2>2 DEF VoteValidation
    <3>2. \/ /\ votes' = ws \/ \E ls, s : UpdateListingStatus(ls, ws, v, s)
             /\ UNCHANGED rewardVars
          \/ /\ RewardVoters(ws, v, "Accept", "Reject")
             /\ \E ls : UpdateListingStatus(ls, ws, v, "Validated")
          \/ /\ RewardVoters(ws, v, "Reject", "Accept")
             /\ \E ls : UpdateListingStatus(ls, ws, v, "Rejected")
      BY <2>2, Zenon DEF VoteValidation
    <3>3. DOMAIN ws = VoteIds
      BY <2>0
    <3> HIDE DEF vs
    <3>4. Deletes(ws)
      BY <3>2, MoveDeletes DEF Deletes
    <3>5. \/ UNCHANGED rewardVars
          \/ /\ votes'[v] = NoVotes
             /\ \/ RewardVoters(ws, v, "Accept", "Reject")
                \/ RewardVoters(ws, v, "Reject", "Accept")
      BY <3>2, <3>3, MoveClears DEF ClearingStatuses
    <3>6. Casts(user, v, "Validation", vote)
      BY <3>1, <3>4, <3>5, Zenon
         DEF Casts, rewardVars, claimVars, BalancesStand, vs
    <3> QED
      BY <3>6 DEF RecordStep, Stages
  <2> QED
    BY <2>1, <2>2
<1>5. CASE OwnerStep
  <2>1. ASSUME NEW v \in VoteIds, NEW s, EmergencyUpdateListingStatus(v, s)
        PROVE  RecordStep
    BY <1>1, <2>1, MoveDeletes DEF EmergencyUpdateListingStatus
  <2>2. ASSUME NEW p, NEW x, UpdateParameter(p, x) PROVE RecordStep
    BY <1>1, <1>2, <2>2 DEF UpdateParameter, listingVars
  <2>3. ASSUME NEW user, NEW b, WhitelistSubmitter(user, b) PROVE RecordStep
    BY <1>1, <1>2, <2>3 DEF WhitelistSubmitter, listingVars
  <2>4. ASSUME NEW amount, WithdrawERC20Funds(amount) PROVE RecordStep
    <3>1. BalancesStand
      BY <2>4, ListingsAssumption
         DEF WithdrawERC20Funds, Transfer, BalancesStand, ListingsInv,
             OthersTyped, Accounts
    <3> QED
      BY <1>2, <2>4, <3>1
         DEF WithdrawERC20Funds, RecordStep, Quiet, listingVars, rewardVars
  <2> QED
    BY <1>5, <2>1, <2>2, <2>3, <2>4 DEF OwnerStep, EmergencyKillRequest
<1>6. CASE OutsideStep
  BY <1>1, <1>2, <1>6 DEF OutsideStep, Tick, RankChange, listingVars
<1>7. CASE UNCHANGED listingsVars
  BY <1>1, <1>2, <1>7 DEF listingsVars, listingVars
<1> QED
  BY <1>3, <1>4, <1>5, <1>6, <1>7, <1>8, CallCases

-----------------------------------------------------------------------------
(* Rewards.  A verdict adds to the right votes of a user and owes the same  *)
(* number of coefficients, two for each vote in Validation.                 *)

LEMMA VerdictOwes ==
    ASSUME ListingsInv, NEW user \in Users, NEW v \in VoteIds,
           NEW st \in Stages, NEW vote \in Votes, Casts(user, v, st, vote),
           NEW u \in Users
    PROVE  \E x, y \in Nat :
               /\ goodVotes'["Sorting"][u] = goodVotes["Sorting"][u] + x
               /\ goodVotes'["Validation"][u] = goodVotes["Validation"][u] + y
               /\ owedRewards'[u] =
                      owedRewards[u] + tokenListings[v].coeff * (x + 2 * y)
               /\ x + 2 * y # 0 =>
                      v < tokenListingsLength /\ status[v] = "Validation"
<1> DEFINE vs == VotesWith(user, v, st, vote)
           coeff == tokenListings[v].coeff
<1>1. /\ goodVotes \in [Stages -> [Users -> Nat]]
      /\ owedRewards \in [Users -> Nat]
      /\ coeff \in Nat
  BY DEF ListingsInv, OthersTyped, Sound, Typed, Listing
<1>2. CASE UNCHANGED <<goodVotes, owedRewards>>
  <2>1. 0 + 2 * 0 = 0 /\ coeff * 0 = 0
    BY <1>1
  <2>2. /\ goodVotes["Sorting"][u] \in Nat /\ goodVotes["Validation"][u] \in Nat
        /\ owedRewards[u] \in Nat
    BY <1>1 DEF Stages
  <2>3. /\ goodVotes'["Sorting"][u] = goodVotes["Sorting"][u] + 0
        /\ goodVotes'["Validation"][u] = goodVotes["Validation"][u] + 0
        /\ owedRewards'[u] = owedRewards[u] + 0
    BY <1>2, <2>2
  <2> HIDE DEF coeff
  <2>4. owedRewards'[u] = owedRewards[u] + coeff * (0 + 2 * 0)
    BY <2>1, <2>3
  <2> QED
    BY <2>1, <2>3, <2>4 DEF coeff
<1>3. ASSUME NEW right \in Votes, NEW wrong \in Votes, st = "Validation",
             RewardVoters(vs, v, right, wrong)
      PROVE  \E x, y \in Nat :
               /\ goodVotes'["Sorting"][u] = goodVotes["Sorting"][u] + x
               /\ goodVotes'["Validation"][u] = goodVotes["Validation"][u] + y
               /\ owedRewards'[u] = owedRewards[u] + coeff * (x + 2 * y)
               /\ x + 2 * y # 0 =>
                      v < tokenListingsLength /\ status[v] = "Validation"
  <2> DEFINE x == Times(u, vs[v]["Sorting"][right])
             y == Times(u, vs[v]["Validation"][right])
  <2>1. v < tokenListingsLength /\ status[v] = "Validation"
    BY <1>3 DEF Casts, MayVote, IsOpen
  <2>2. vs \in [VoteIds -> [Stages -> [Votes -> Seq(Users)]]]
    BY DEF VotesWith, ListingsInv, Sound, Typed
  <2>3. /\ vs[v]["Sorting"][right] \in Seq(Users)
        /\ vs[v]["Validation"][right] \in Seq(Users)
    BY <2>2 DEF Stages
  <2> HIDE DEF vs
  <2>4. x \in Nat /\ y \in Nat
    BY <2>3, TimesIsNat
  <2>5. /\ goodVotes'["Sorting"][u] = goodVotes["Sorting"][u] + x
        /\ goodVotes'["Validation"][u] = goodVotes["Validation"][u] + y
    BY <1>3 DEF RewardVoters, Stages
  <2>6. owedRewards'[u] = owedRewards[u] + coeff * (1 * x + 2 * y)
    BY <1>3 DEF RewardVoters, Weight
  <2> HIDE DEF x, y
  <2>7. 1 * x + 2 * y = x + 2 * y
    BY <2>4
  <2> QED
    BY <2>1, <2>4, <2>5, <2>6, <2>7
<1> QED
  BY <1>2, <1>3, Zenon DEF Casts, Votes

(* What a claim does to the accounts of the user it is made for.            *)
LEMMA ClaimPays ==
    ASSUME ListingsInv, NEW user \in Users, ClaimRewards(user), NEW u \in Users
    PROVE  LET due == owedRewards[u] * config["tokensPerVote"]
           IN  /\ goodVotes' = goodVotes
               /\ IF u = user
                  THEN /\ due \in Nat /\ due # 0
                       /\ owedRewards'[u] = 0
                       /\ paidRewards'[u] = paidRewards[u] + due
                       /\ mobl'[u] = mobl[u] + due \div PAYMENT_COEFF
                  ELSE /\ owedRewards'[u] = owedRewards[u]
                       /\ paidRewards'[u] = paidRewards[u]
                       /\ mobl'[u] = mobl[u]
<1> DEFINE due == owedRewards[user] * config["tokensPerVote"]
           paid == due \div PAYMENT_COEFF
<1>1. /\ owedRewards \in [Users -> Nat] /\ paidRewards \in [Users -> Nat]
      /\ mobl \in [Accounts -> Nat] /\ config["tokensPerVote"] \in Nat
      /\ Users \subseteq Accounts /\ Protocol \in Accounts /\ Protocol \notin Users
  BY ListingsAssumption DEF ListingsInv, OthersTyped, Parameters, Accounts
<1>2. due \in Nat
  BY <1>1, Product
<1>3. /\ due # 0 /\ goodVotes' = goodVotes
      /\ mobl' = Transfer(mobl, Protocol, user, paid)
      /\ paidRewards' = [paidRewards EXCEPT ![user] = @ + due]
      /\ owedRewards' = [owedRewards EXCEPT ![user] = 0]
  BY DEF ClaimRewards, DeleteOwed
<1>4. due = owedRewards[user] * config["tokensPerVote"]
      /\ paid = due \div PAYMENT_COEFF
  OBVIOUS
<1> HIDE DEF due, paid
<1>5. mobl'[u] = IF u = user THEN mobl[u] + paid ELSE mobl[u]
  BY <1>1, <1>3 DEF Transfer
<1> QED
  BY <1>1, <1>2, <1>3, <1>4, <1>5

(* The rounding a user has lost so far is less than a MOBL for each right   *)
(* vote; with rewards still owed, for each right vote but the last.         *)
RoundingInv ==
    \A u \in Users :
        LET right == goodVotes["Sorting"][u] + goodVotes["Validation"][u]
            lost == paidRewards[u] - mobl[u] * PAYMENT_COEFF
        IN  /\ 0 <= lost
            /\ lost <= (PAYMENT_COEFF - 1) * right
            /\ owedRewards[u] # 0 =>
                   lost <= (PAYMENT_COEFF - 1) * (right - 1)

(* A division drops less than one MOBL.                                     *)
LEMMA DivisionDrops ==
    ASSUME NEW n \in Nat
    PROVE  /\ n \div PAYMENT_COEFF \in Nat
           /\ (n \div PAYMENT_COEFF) * PAYMENT_COEFF <= n
           /\ n - (n \div PAYMENT_COEFF) * PAYMENT_COEFF <= PAYMENT_COEFF - 1
BY DEF PAYMENT_COEFF

(* Every claim pays what it records, to less than one MOBL, and needs a     *)
(* right vote that no earlier claim was made for: whoever claims for whom   *)
(* and whenever, whatever the owner sets, moves or withdraws.               *)
THEOREM ClaimsPayWhatIsOwed == CallsSpec => []ClaimsArePaid
<1>1. ListingsInit => RoundingInv
  BY ListingsAssumption DEF ListingsInit, RoundingInv, Accounts, Stages,
     PAYMENT_COEFF
<1>2. ListingsInv /\ RoundingInv /\ [CallsNext]_listingsVars => RoundingInv'
  <2> SUFFICES ASSUME ListingsInv, RoundingInv, [CallsNext]_listingsVars,
                      NEW u \in Users
               PROVE  LET right == goodVotes'["Sorting"][u]
                                   + goodVotes'["Validation"][u]
                          lost == paidRewards'[u] - mobl'[u] * PAYMENT_COEFF
                      IN  /\ 0 <= lost
                          /\ lost <= (PAYMENT_COEFF - 1) * right
                          /\ owedRewards'[u] # 0 =>
                                 lost <= (PAYMENT_COEFF - 1) * (right - 1)
    BY Zenon DEF RoundingInv
  <2> USE DEF PAYMENT_COEFF
  <2>1. /\ goodVotes["Sorting"][u] \in Nat /\ goodVotes["Validation"][u] \in Nat
        /\ owedRewards[u] \in Nat /\ paidRewards[u] \in Nat /\ mobl[u] \in Nat
    BY DEF ListingsInv, OthersTyped, Stages, Accounts
  <2>2. LET right == goodVotes["Sorting"][u] + goodVotes["Validation"][u]
            lost == paidRewards[u] - mobl[u] * PAYMENT_COEFF
        IN  /\ 0 <= lost
            /\ lost <= (PAYMENT_COEFF - 1) * right
            /\ owedRewards[u] # 0 =>
                   lost <= (PAYMENT_COEFF - 1) * (right - 1)
    BY DEF RoundingInv
  <2>3. CASE Quiet
    BY <2>1, <2>2, <2>3 DEF Quiet, BalancesStand
  <2>4. ASSUME NEW user \in Users, NEW v \in VoteIds, NEW st \in Stages,
               NEW vote \in Votes, Casts(user, v, st, vote)
        PROVE  LET right == goodVotes'["Sorting"][u]
                            + goodVotes'["Validation"][u]
                   lost == paidRewards'[u] - mobl'[u] * PAYMENT_COEFF
               IN  /\ 0 <= lost
                   /\ lost <= (PAYMENT_COEFF - 1) * right
                   /\ owedRewards'[u] # 0 =>
                          lost <= (PAYMENT_COEFF - 1) * (right - 1)
    <3>1. PICK x, y \in Nat :
               /\ goodVotes'["Sorting"][u] = goodVotes["Sorting"][u] + x
               /\ goodVotes'["Validation"][u] = goodVotes["Validation"][u] + y
               /\ owedRewards'[u] =
                      owedRewards[u] + tokenListings[v].coeff * (x + 2 * y)
      BY <2>4, VerdictOwes
    <3>2. paidRewards'[u] = paidRewards[u] /\ mobl'[u] = mobl[u]
      BY <2>4 DEF Casts, BalancesStand
    <3>3. CASE x = 0 /\ y = 0
      <4>1. tokenListings[v].coeff * (x + 2 * y) = 0
        BY <3>3 DEF ListingsInv, Sound, Typed, Listing
      <4> QED
        BY <2>1, <2>2, <3>1, <3>2, <3>3, <4>1
    <3>4. CASE x + y >= 1
      BY <2>1, <2>2, <3>1, <3>2, <3>4
    <3> QED
      BY <3>3, <3>4
  <2>5. ASSUME NEW user \in Users, ClaimRewards(user)
        PROVE  LET right == goodVotes'["Sorting"][u]
                            + goodVotes'["Validation"][u]
                   lost == paidRewards'[u] - mobl'[u] * PAYMENT_COEFF
               IN  /\ 0 <= lost
                   /\ lost <= (PAYMENT_COEFF - 1) * right
                   /\ owedRewards'[u] # 0 =>
                          lost <= (PAYMENT_COEFF - 1) * (right - 1)
    <3> DEFINE due == owedRewards[u] * config["tokensPerVote"]
               paid == due \div PAYMENT_COEFF
    <3>1. CASE u # user
      <4>1. /\ goodVotes' = goodVotes /\ owedRewards'[u] = owedRewards[u]
            /\ paidRewards'[u] = paidRewards[u] /\ mobl'[u] = mobl[u]
        BY <2>5, <3>1, ClaimPays
      <4> QED
        BY <2>1, <2>2, <4>1
    <3>2. CASE u = user
      <4>1. /\ goodVotes' = goodVotes /\ owedRewards'[u] = 0
            /\ due \in Nat /\ due # 0
            /\ paidRewards'[u] = paidRewards[u] + due
            /\ mobl'[u] = mobl[u] + paid
        BY <2>5, <3>2, ClaimPays
      <4>2. owedRewards[u] # 0
        BY <4>1 DEF ListingsInv, OthersTyped, Parameters
      <4>3. /\ paid \in Nat /\ paid * PAYMENT_COEFF <= due
            /\ due - paid * PAYMENT_COEFF <= PAYMENT_COEFF - 1
        <5> HIDE DEF due
        <5> QED
          BY <4>1, DivisionDrops
      <4> HIDE DEF due, paid
      <4> QED
        BY <2>1, <2>2, <4>1, <4>2, <4>3
    <3> QED
      BY <3>1, <3>2
  <2> QED
    BY <2>3, <2>4, <2>5, StepRecords DEF RecordStep
<1>3. ListingsInv /\ RoundingInv => ClaimsArePaid
  <2> SUFFICES ASSUME ListingsInv, RoundingInv, NEW u \in Users
               PROVE  /\ mobl[u] * PAYMENT_COEFF <= paidRewards[u]
                      /\ paidRewards[u] - mobl[u] * PAYMENT_COEFF
                         <= (PAYMENT_COEFF - 1)
                            * (goodVotes["Sorting"][u] + goodVotes["Validation"][u])
    BY DEF ClaimsArePaid
  <2>1. paidRewards[u] \in Nat /\ mobl[u] \in Nat
    BY DEF ListingsInv, OthersTyped, Accounts
  <2> QED
    BY <2>1 DEF RoundingInv, PAYMENT_COEFF
<1> QED
  BY <1>1, <1>2, <1>3, InvAlways, PTL DEF CallsSpec

(* Rewards: the arithmetic of a verdict that adds n right votes at the      *)
(* coefficient c, with T for tokensPerVote.                                 *)
LEMMA OwedMore ==
    ASSUME NEW T \in Nat, NEW owed \in Nat, NEW paid \in Nat, NEW c \in Nat,
           NEW n \in Nat
    PROVE  (owed + c * n) * T + paid = (owed * T + paid) + c * (T * n)
<1>1. (owed + c * n) * T = owed * T + c * (T * n)
  OBVIOUS
<1>2. owed * T \in Nat /\ c * (T * n) \in Nat
  BY Product
<1> QED
  BY <1>1, <1>2

LEMMA WorthMore ==
    ASSUME NEW k \in Nat, NEW T \in Nat, NEW right \in Nat, NEW n \in Nat
    PROVE  /\ k * (T * (right + n)) = k * (T * right) + k * (T * n)
           /\ k * (T * right) \in Nat /\ k * (T * n) \in Nat
<1>1. T * right \in Nat /\ T * n \in Nat
  BY Product
<1>2. k * (T * right) \in Nat /\ k * (T * n) \in Nat
  BY <1>1, Product
<1>3. T * (right + n) = T * right + T * n
  OBVIOUS
<1> DEFINE a == T * right
           b == T * n
<1>4. k * (a + b) = k * a + k * b
  <2>1. a \in Nat /\ b \in Nat
    BY <1>1
  <2> HIDE DEF a, b
  <2> QED
    BY <2>1
<1> QED
  BY <1>2, <1>3, <1>4

LEMMA FactorGrows ==
    ASSUME NEW a \in Nat, NEW b \in Nat, NEW m \in Nat, a <= b
    PROVE  a * m <= b * m /\ a * m \in Nat /\ b * m \in Nat
<1>1. PICK d \in Nat : b = a + d
  <2>1. b - a \in Nat /\ b = a + (b - a)
    OBVIOUS
  <2> QED
    BY <2>1
<1>2. b * m = a * m + d * m
  BY <1>1
<1>3. a * m \in Nat /\ d * m \in Nat /\ b * m \in Nat
  BY <1>1, Product
<1> QED
  BY <1>2, <1>3

(* Rewards that are claimed move from owed to paid, at their full value.    *)
LEMMA ClaimKeepsValue ==
    ASSUME ListingsInv, NEW user \in Users, ClaimRewards(user), NEW u \in Users
    PROVE  RewardValue(u)' = RewardValue(u) /\ RightVotes(u)' = RightVotes(u)
<1> DEFINE T == config["tokensPerVote"]
           due == owedRewards[u] * T
<1>1. config' = config /\ T \in Nat
  BY DEF ClaimRewards, ownerVars, Parameters, ListingsInv, OthersTyped
<1>2. paidRewards[u] \in Nat
  BY DEF ListingsInv, OthersTyped
<1>3. goodVotes' = goodVotes
  BY ClaimPays
<1>4. \/ owedRewards'[u] = owedRewards[u] /\ paidRewards'[u] = paidRewards[u]
      \/ /\ owedRewards'[u] = 0 /\ due \in Nat
         /\ paidRewards'[u] = paidRewards[u] + due
  BY ClaimPays
<1>5. /\ RewardValue(u) = due + paidRewards[u]
      /\ RewardValue(u)' = owedRewards'[u] * T + paidRewards'[u]
      /\ RightVotes(u)' = RightVotes(u)
  BY <1>1, <1>3 DEF RewardValue, RightVotes
<1>6. CASE owedRewards'[u] = owedRewards[u] /\ paidRewards'[u] = paidRewards[u]
  BY <1>5, <1>6
<1>7. CASE /\ owedRewards'[u] = 0 /\ due \in Nat
           /\ paidRewards'[u] = paidRewards[u] + due
  <2>1. owedRewards'[u] * T = 0
    BY <1>1, <1>7
  <2> HIDE DEF due, T
  <2> QED
    BY <1>2, <1>5, <1>7, <2>1
<1> QED
  BY <1>4, <1>6, <1>7

(* What a listing of the stage Validation earns to n right votes of u.      *)
Earns(u, v, n) ==
    /\ v \in Submitted /\ status[v] = "Validation"
    /\ RewardValue(u)' =
           RewardValue(u) + tokenListings[v].coeff * (config["tokensPerVote"] * n)
    /\ RightVotes(u)' = RightVotes(u) + n

(* The value of a user's rewards stands, or a verdict earns to right votes. *)
LEMMA ValueStep ==
    ASSUME Settings["tokensPerVote"] = {}, ListingsInv,
           [CallsNext]_listingsVars, NEW u \in Users
    PROVE  \/ RewardValue(u)' = RewardValue(u) /\ RightVotes(u)' = RightVotes(u)
           \/ \E v \in VoteIds, n \in Nat : Earns(u, v, n)
<1> DEFINE T == config["tokensPerVote"]
<1>1. config'["tokensPerVote"] = T /\ T \in Nat
  BY SettingStands DEF Parameters, ListingsInv, OthersTyped
<1>2. /\ goodVotes["Sorting"][u] \in Nat /\ goodVotes["Validation"][u] \in Nat
      /\ owedRewards[u] \in Nat /\ paidRewards[u] \in Nat
  BY DEF ListingsInv, OthersTyped, Stages
<1>3. /\ RewardValue(u) = owedRewards[u] * T + paidRewards[u]
      /\ RewardValue(u)' = owedRewards'[u] * T + paidRewards'[u]
      /\ RightVotes(u) = goodVotes["Sorting"][u] + 2 * goodVotes["Validation"][u]
      /\ RightVotes(u)' =
             goodVotes'["Sorting"][u] + 2 * goodVotes'["Validation"][u]
  BY <1>1 DEF RewardValue, RightVotes
<1>4. CASE Quiet
  BY <1>3, <1>4 DEF Quiet
<1>5. ASSUME NEW user \in Users, NEW v \in VoteIds, NEW st \in Stages,
             NEW vote \in Votes, Casts(user, v, st, vote)
      PROVE  \/ RewardValue(u)' = RewardValue(u) /\ RightVotes(u)' = RightVotes(u)
             \/ \E n \in Nat : Earns(u, v, n)
  <2> DEFINE coeff == tokenListings[v].coeff
  <2>1. PICK x, y \in Nat :
             /\ goodVotes'["Sorting"][u] = goodVotes["Sorting"][u] + x
             /\ goodVotes'["Validation"][u] = goodVotes["Validation"][u] + y
             /\ owedRewards'[u] = owedRewards[u] + coeff * (x + 2 * y)
             /\ x + 2 * y # 0 =>
                    v < tokenListingsLength /\ status[v] = "Validation"
    BY <1>5, VerdictOwes
  <2> DEFINE n == x + 2 * y
  <2>2. n \in Nat /\ coeff \in Nat /\ paidRewards'[u] = paidRewards[u]
    BY <1>5, <2>1 DEF Casts, ListingsInv, Sound, Typed, Listing
  <2>3. RightVotes(u)' = RightVotes(u) + n
    BY <1>2, <1>3, <2>1
  <2>4. owedRewards'[u] = owedRewards[u] + coeff * n
    BY <2>1
  <2>5. CASE n = 0
    <3>1. coeff * n = 0
      <4> HIDE DEF coeff, n
      <4> QED
        BY <2>2, <2>5
    <3>2. owedRewards'[u] = owedRewards[u]
      BY <1>2, <2>4, <3>1
    <3>3. RightVotes(u)' = RightVotes(u)
      BY <1>2, <1>3, <2>3, <2>5
    <3> QED
      BY <1>3, <2>2, <3>2, <3>3
  <2>6. CASE n # 0
    <3>1. v \in Submitted /\ status[v] = "Validation"
      BY <2>1, <2>6, MaxListingsAssumption
         DEF Submitted, VoteIds, ListingsInv, OthersTyped
    <3> HIDE DEF coeff, n, T
    <3>2. RewardValue(u)' = RewardValue(u) + coeff * (T * n)
      BY <1>1, <1>2, <1>3, <2>2, <2>4, OwedMore
    <3> QED
      BY <2>2, <2>3, <3>1, <3>2 DEF Earns, coeff, T
  <2> QED
    BY <2>5, <2>6
<1>6. ASSUME NEW user \in Users, ClaimRewards(user)
      PROVE  RewardValue(u)' = RewardValue(u) /\ RightVotes(u)' = RightVotes(u)
  BY <1>6, ClaimKeepsValue
<1> HIDE DEF T
<1> QED
  BY <1>4, <1>5, <1>6, StepRecords DEF RecordStep

(* Coefficients of submitted listings only grow.                            *)
LEMMA CoeffsGrow ==
    ASSUME ListingsInv, [CallsNext]_listingsVars, NEW v \in Submitted
    PROVE  /\ v \in VoteIds /\ v \in Submitted'
           /\ tokenListings[v].coeff \in Nat /\ tokenListings'[v].coeff \in Nat
           /\ tokenListings[v].coeff <= tokenListings'[v].coeff
<1>1. tokenListingsLength \in Nat /\ v \in VoteIds /\ v # tokenListingsLength
  BY MaxListingsAssumption DEF ListingsInv, OthersTyped, Submitted, VoteIds
<1>2. tokenListings[v].coeff \in Nat /\ tokenListings'[v].coeff \in Nat
  BY <1>1, StepPreserves DEF ListingsInv, Sound, Typed, Listing
<1>3. v \in Submitted'
  BY <1>1, StepEffect DEF Effects, Arrives, Submitted
<1>4. Stands(v) \/ Changes(v)
  BY <1>1, StepEffect DEF Effects, Arrives
<1>5. tokenListings'[v].coeff = tokenListings[v].coeff \/ IsToppedUp(v)
  BY <1>4 DEF Stands, Changes, IsUpdated, IsVotedOn, IsOverridden
<1> QED
  BY <1>1, <1>2, <1>3, <1>5 DEF IsToppedUp

(* While the value of a vote stands and the owner overrides no status, each *)
(* right vote stays backed by a full coefficient (two in Validation) and by *)
(* no more than some listing's: owed until somebody claims it, paid from    *)
(* then on, never both nor neither.                                         *)
THEOREM RewardsStayBacked ==
    ASSUME OwnerMoves = {}, Settings["tokensPerVote"] = {}
    PROVE  CallsSpec => []RewardsBackGoodVotes
<1> DEFINE Coeffs == {0} \cup {tokenListings[v].coeff : v \in Submitted}
           Worth(u) == config["tokensPerVote"] * RightVotes(u)
<1>1. ListingsInit => RewardsBackGoodVotes
  <2> SUFFICES ASSUME ListingsInit, NEW u \in Users
               PROVE  /\ RewardValue(u) >= PAYMENT_COEFF * Worth(u)
                      /\ RewardValue(u) <= 0 * Worth(u)
    BY DEF RewardsBackGoodVotes
  <2>1. config["tokensPerVote"] \in Nat /\ RightVotes(u) = 0
    BY ListingsAssumption DEF ListingsInit, RightVotes, Parameters, Stages
  <2>2. RewardValue(u) = 0 /\ Worth(u) = 0
    BY <2>1 DEF ListingsInit, RewardValue
  <2> QED
    BY <2>2 DEF PAYMENT_COEFF
<1>2. ListingsInv /\ PooledWhileUnderpaid /\ RewardsBackGoodVotes
          /\ [CallsNext]_listingsVars
      => RewardsBackGoodVotes'
  <2> SUFFICES ASSUME ListingsInv, PooledWhileUnderpaid, RewardsBackGoodVotes,
                      [CallsNext]_listingsVars, NEW u \in Users
               PROVE  /\ RewardValue(u)' >= PAYMENT_COEFF * Worth(u)'
                      /\ \E c \in Coeffs' : RewardValue(u)' <= c * Worth(u)'
    BY Zenon DEF RewardsBackGoodVotes
  <2>1. /\ RewardValue(u) >= PAYMENT_COEFF * Worth(u)
        /\ \E c \in Coeffs : RewardValue(u) <= c * Worth(u)
    BY Zenon DEF RewardsBackGoodVotes
  <2>2. /\ config'["tokensPerVote"] = config["tokensPerVote"]
        /\ config["tokensPerVote"] \in Nat
    BY SettingStands DEF Parameters, ListingsInv, OthersTyped
  <2>3. RewardValue(u) \in Nat /\ RightVotes(u) \in Nat
    <3>1. /\ goodVotes["Sorting"][u] \in Nat /\ goodVotes["Validation"][u] \in Nat
          /\ owedRewards[u] \in Nat /\ paidRewards[u] \in Nat
      BY DEF ListingsInv, OthersTyped, Stages
    <3>2. owedRewards[u] * config["tokensPerVote"] \in Nat
      BY <2>2, <3>1, Product
    <3> QED
      BY <3>1, <3>2 DEF RewardValue, RightVotes
  <2>4. \A c \in Coeffs : c \in Nat /\ \E d \in Coeffs' : d \in Nat /\ c <= d
    BY CoeffsGrow
  <2>5. PICK c \in Coeffs : RewardValue(u) <= c * Worth(u)
    BY <2>1
  <2>6. PICK d \in Coeffs' : c \in Nat /\ d \in Nat /\ c <= d
    BY <2>4, <2>5
  <2>7. CASE RewardValue(u)' = RewardValue(u) /\ RightVotes(u)' = RightVotes(u)
    <3>1. Worth(u)' = Worth(u) /\ Worth(u) \in Nat
      BY <2>2, <2>3, <2>7, Product
    <3> HIDE DEF Worth, Coeffs
    <3>2. /\ c * Worth(u) <= d * Worth(u)
          /\ c * Worth(u) \in Nat /\ d * Worth(u) \in Nat
      BY <2>6, <3>1, FactorGrows
    <3>3. RewardValue(u) <= d * Worth(u)
      BY <2>3, <2>5, <3>2
    <3>4. /\ RewardValue(u)' >= PAYMENT_COEFF * Worth(u)'
          /\ RewardValue(u)' <= d * Worth(u)'
      BY <2>1, <2>7, <3>1, <3>3
    <3> QED
      BY <2>6, <3>4
  <2>8. ASSUME NEW v \in VoteIds, NEW n \in Nat, Earns(u, v, n)
        PROVE  /\ RewardValue(u)' >= PAYMENT_COEFF * Worth(u)'
               /\ \E e \in Coeffs' : RewardValue(u)' <= e * Worth(u)'
    <3> DEFINE coeff == tokenListings[v].coeff
               T == config["tokensPerVote"]
               P == PAYMENT_COEFF
               right == RightVotes(u)
               val == RewardValue(u)
               more == coeff * (T * n)
    <3>1. coeff \in Nat /\ coeff >= P /\ P \in Nat /\ coeff \in Coeffs
      <4>1. v \in Submitted /\ status[v] = "Validation"
        BY <2>8 DEF Earns
      <4>2. coeff \in Nat /\ coeff \in Coeffs
        BY <4>1, CoeffsGrow
      <4>3. ~(coeff < PAYMENT_COEFF)
        BY <4>1 DEF PooledWhileUnderpaid
      <4> QED
        BY <4>2, <4>3 DEF PAYMENT_COEFF
    <3>2. Worth(u) = T * right /\ Worth(u)' = T * (right + n)
          /\ RewardValue(u)' = val + more
      BY <2>2, <2>8 DEF Earns
    <3>3. T \in Nat /\ right \in Nat /\ val \in Nat /\ n \in Nat
      BY <2>2, <2>3
    <3>4. val >= P * (T * right) /\ val <= c * (T * right)
      BY <2>1, <2>5, <3>2
    <3>5. PICK dc \in Coeffs' : dc \in Nat /\ coeff <= dc
      BY <2>4, <3>1
    <3>6. PICK e \in Coeffs' : e \in Nat /\ c <= e /\ coeff <= e
      BY <2>6, <3>1, <3>5
    <3> HIDE DEF Worth, Coeffs, coeff, T, P, right, val
    <3>7. T * right \in Nat /\ T * n \in Nat
      BY <3>3, Product
    <3>8. /\ P * (T * n) <= more /\ more <= e * (T * n)
          /\ c * (T * right) <= e * (T * right)
          /\ more \in Nat
      BY <2>6, <3>1, <3>6, <3>7, FactorGrows
    <3>9. /\ P * (T * (right + n)) = P * (T * right) + P * (T * n)
          /\ P * (T * right) \in Nat /\ P * (T * n) \in Nat
          /\ e * (T * (right + n)) = e * (T * right) + e * (T * n)
          /\ e * (T * right) \in Nat /\ e * (T * n) \in Nat
          /\ c * (T * right) \in Nat
      BY <2>6, <3>1, <3>3, <3>6, WorthMore
    <3> HIDE DEF more
    <3>10. val + more >= P * (T * right) + P * (T * n)
      BY <3>3, <3>4, <3>8, <3>9
    <3>11. val + more <= e * (T * right) + e * (T * n)
      BY <3>3, <3>4, <3>8, <3>9
    <3>12. /\ val + more >= P * Worth(u)'
           /\ val + more <= e * Worth(u)'
      BY <3>2, <3>9, <3>10, <3>11
    <3> QED
      BY <3>2, <3>6, <3>12 DEF P
  <2> QED
    BY <2>7, <2>8, ValueStep
<1> QED
  BY <1>1, <1>2, InvAlways, PoolIsForUnderpaid, PTL DEF CallsSpec

-----------------------------------------------------------------------------
(* Judgements.  Over all listings: the votes of a user that are still to be *)
(* judged, and the phases the user is marked with.                          *)

Judgeable(u, arrays) ==
    Times(u, arrays["Accept"]) + Times(u, arrays["Reject"])
WaitingIn(u, st, vs) ==
    SumFunctionOnSet([v \in VoteIds |-> Judgeable(u, vs[v][st])], VoteIds)
MarksIn(u, st, vp) ==
    SumFunctionOnSet([v \in VoteIds |-> vp[st][v][u]], VoteIds)

LEMMA VoteIdsFinite == IsFiniteSet(VoteIds)
BY FS_Interval, MaxListingsAssumption DEF VoteIds

LEMMA TimesAppended ==
    ASSUME NEW u, NEW array \in Seq(Users), NEW user \in Users
    PROVE  Times(u, Append(array, user)) =
               Times(u, array) + (IF u = user THEN 1 ELSE 0)
<1> DEFINE n == Len(array)
           longer == Append(array, user)
           found == {i \in DOMAIN array : array[i] = u}
           next == {i \in DOMAIN longer : longer[i] = u}
<1>1. /\ n \in Nat /\ DOMAIN array = 1..n /\ DOMAIN longer = 1..(n + 1)
      /\ longer[n + 1] = user /\ \A i \in 1..n : longer[i] = array[i]
  <2>1. n \in Nat /\ DOMAIN array = 1..n
    BY LenProperties
  <2>2. /\ longer \in Seq(Users) /\ Len(longer) = n + 1
        /\ longer[n + 1] = user /\ \A i \in 1..n : longer[i] = array[i]
    BY AppendProperties
  <2> HIDE DEF n, longer
  <2>3. DOMAIN longer = 1..(n + 1)
    BY <2>2, LenProperties
  <2> QED
    BY <2>1, <2>2, <2>3
<1>2. IsFiniteSet(found) /\ n + 1 \notin found
  <2> HIDE DEF n, longer
  <2>1. n \in Nat
    BY <1>1
  <2>2. IsFiniteSet(1..n)
    BY <2>1, FS_Interval
  <2> QED
    BY <1>1, <2>2, FS_Subset
<1>3. next = IF u = user THEN found \cup {n + 1} ELSE found
  <2> HIDE DEF n, longer
  <2> QED
    BY <1>1
<1>4. Times(u, array) = Cardinality(found) /\ Times(u, longer) = Cardinality(next)
  BY DEF Times
<1>5. Cardinality(found) \in Nat
  BY <1>2, FS_CardinalityType
<1> HIDE DEF found, next, n, longer
<1>6. Cardinality(found \cup {n + 1}) = Cardinality(found) + 1
  BY <1>2, FS_AddElement
<1> QED
  BY <1>3, <1>4, <1>5, <1>6 DEF longer

LEMMA NothingToJudge ==
    \A u : \A st \in Stages : Judgeable(u, NoVotes[st]) = 0
<1> SUFFICES ASSUME NEW u, NEW st \in Stages
             PROVE  Judgeable(u, NoVotes[st]) = 0
  OBVIOUS
<1>1. \A k \in Votes : DOMAIN NoVotes[st][k] = {}
  BY NoVotesTyped
<1>2. \A k \in Votes : {i \in DOMAIN NoVotes[st][k] : NoVotes[st][k][i] = u} = {}
  BY <1>1
<1>3. \A k \in Votes : Times(u, NoVotes[st][k]) = 0
  BY <1>2, FS_EmptySet DEF Times
<1> QED
  BY <1>3 DEF Judgeable, Votes

LEMMA JudgeableIsNat ==
    ASSUME NEW u, NEW vs \in [VoteIds -> [Stages -> [Votes -> Seq(Users)]]],
           NEW st \in Stages, NEW v \in VoteIds
    PROVE  Judgeable(u, vs[v][st]) \in Nat
<1>1. vs[v][st]["Accept"] \in Seq(Users) /\ vs[v][st]["Reject"] \in Seq(Users)
  BY DEF Votes
<1>2. /\ Times(u, vs[v][st]["Accept"]) \in Nat
      /\ Times(u, vs[v][st]["Reject"]) \in Nat
  BY <1>1, TimesIsNat
<1> QED
  BY <1>2 DEF Judgeable

LEMMA WaitingIsNat ==
    ASSUME NEW u, NEW vs \in [VoteIds -> [Stages -> [Votes -> Seq(Users)]]],
           NEW st \in Stages
    PROVE  WaitingIn(u, st, vs) \in Nat
<1> DEFINE f == [w \in VoteIds |-> Judgeable(u, vs[w][st])]
<1>1. \A w \in VoteIds : f[w] \in Nat
  BY JudgeableIsNat
<1>2. WaitingIn(u, st, vs) = SumFunctionOnSet(f, VoteIds)
  BY DEF WaitingIn
<1> HIDE DEF f
<1> QED
  BY <1>1, <1>2, VoteIdsFinite, SumNat

(* Where the votes differ at one listing, so do the votes still waiting. *)
LEMMA WaitingChanged ==
    ASSUME NEW u, NEW st \in Stages, NEW v \in VoteIds,
           NEW vs \in [VoteIds -> [Stages -> [Votes -> Seq(Users)]]],
           NEW ws \in [VoteIds -> [Stages -> [Votes -> Seq(Users)]]],
           \A w \in VoteIds \ {v} : ws[w][st] = vs[w][st]
    PROVE  /\ WaitingIn(u, st, ws) =
                  WaitingIn(u, st, vs) + Judgeable(u, ws[v][st])
                  - Judgeable(u, vs[v][st])
           /\ WaitingIn(u, st, vs) \in Nat
<1> DEFINE f == [w \in VoteIds |-> Judgeable(u, vs[w][st])]
           g == [w \in VoteIds |-> Judgeable(u, ws[w][st])]
<1>1. /\ \A w \in VoteIds : f[w] \in Nat /\ g[w] \in Nat
      /\ \A w \in VoteIds \ {v} : g[w] = f[w]
  BY JudgeableIsNat
<1>2. /\ WaitingIn(u, st, vs) = SumFunctionOnSet(f, VoteIds)
      /\ WaitingIn(u, st, ws) = SumFunctionOnSet(g, VoteIds)
      /\ f[v] = Judgeable(u, vs[v][st]) /\ g[v] = Judgeable(u, ws[v][st])
  BY DEF WaitingIn
<1> HIDE DEF f, g
<1>3. /\ \A w \in VoteIds : f[w] \in Int /\ g[w] \in Int
      /\ \A w \in VoteIds \ {v} : g[w] = f[w]
      /\ v \in VoteIds
  BY <1>1
<1>4. SumFunctionOnSet(g, VoteIds) = SumFunctionOnSet(f, VoteIds) + g[v] - f[v]
  BY <1>3, VoteIdsFinite, SumChanged
<1>5. SumFunctionOnSet(f, VoteIds) \in Nat
  BY <1>1, VoteIdsFinite, SumNat
<1> QED
  BY <1>2, <1>4, <1>5

(* Deleting votes leaves none of them waiting; those of a listing v left    *)
(* without votes are gone from the sum.                                     *)
LEMMA DeletedDontWait ==
    ASSUME NEW u, NEW st \in Stages, NEW v \in VoteIds,
           NEW vs \in [VoteIds -> [Stages -> [Votes -> Seq(Users)]]],
           Deletes(vs)
    PROVE  /\ WaitingIn(u, st, votes') <= WaitingIn(u, st, vs)
           /\ votes'[v] = NoVotes =>
                  WaitingIn(u, st, votes') + Judgeable(u, vs[v][st])
                  <= WaitingIn(u, st, vs)
<1>1. WaitingIn(u, st, vs) \in Nat
  BY WaitingChanged
<1>2. Judgeable(u, NoVotes[st]) = 0 /\ Judgeable(u, vs[v][st]) \in Nat
  BY NothingToJudge, JudgeableIsNat
<1>3. CASE votes' = vs
  BY <1>1, <1>2, <1>3
<1>4. ASSUME NEW w \in VoteIds, votes' = [vs EXCEPT ![w] = NoVotes]
      PROVE  /\ WaitingIn(u, st, votes') <= WaitingIn(u, st, vs)
             /\ votes'[v] = NoVotes =>
                    WaitingIn(u, st, votes') + Judgeable(u, vs[v][st])
                    <= WaitingIn(u, st, vs)
  <2> DEFINE ws == [vs EXCEPT ![w] = NoVotes]
  <2>1. /\ ws \in [VoteIds -> [Stages -> [Votes -> Seq(Users)]]]
        /\ ws[w] = NoVotes /\ \A x \in VoteIds \ {w} : ws[x] = vs[x]
    BY NoVotesTyped
  <2>2. votes' = ws
    BY <1>4
  <2> HIDE DEF ws
  <2>3. WaitingIn(u, st, ws) =
            WaitingIn(u, st, vs) + 0 - Judgeable(u, vs[w][st])
    BY <1>2, <2>1, WaitingChanged
  <2>4. Judgeable(u, vs[w][st]) \in Nat
    BY JudgeableIsNat
  <2>5. v # w /\ ws[v] = NoVotes => Judgeable(u, vs[v][st]) = 0
    BY <1>2, <2>1
  <2> QED
    BY <1>1, <1>2, <2>2, <2>3, <2>4, <2>5
<1> QED
  BY <1>3, <1>4 DEF Deletes

(* A vote cast adds at most one to what waits and at least one to the marks *)
(* of its voter, in its stage.                                              *)
LEMMA CastAddsOne ==
    ASSUME ListingsInv, NEW user \in Users, NEW v \in VoteIds, NEW t \in Stages,
           NEW vote \in Votes, HasNotVoted(user, v, t), MarkVoter(user, v, t),
           NEW u \in Users, NEW st \in Stages
    PROVE  LET one == IF u = user /\ st = t THEN 1 ELSE 0
           IN  /\ WaitingIn(u, st, VotesWith(user, v, t, vote))
                  <= WaitingIn(u, st, votes) + one
               /\ MarksIn(u, st, votesPhase') >= MarksIn(u, st, votesPhase) + one
<1> DEFINE vs == VotesWith(user, v, t, vote)
           one == IF u = user /\ st = t THEN 1 ELSE 0
<1>1. /\ votes \in [VoteIds -> [Stages -> [Votes -> Seq(Users)]]]
      /\ votesPhase \in [Stages -> [VoteIds -> [Users -> Nat]]]
      /\ tokenListings[v].phase \in Nat
  BY DEF ListingsInv, Sound, Typed, OthersTyped, Listing
<1>2. WaitingIn(u, st, vs) <= WaitingIn(u, st, votes) + one
  <2>1. /\ vs \in [VoteIds -> [Stages -> [Votes -> Seq(Users)]]]
        /\ \A w \in VoteIds \ {v} : vs[w][st] = votes[w][st]
        /\ \A k \in Votes :
               vs[v][st][k] = IF st = t /\ k = vote
                              THEN Append(votes[v][st][k], user)
                              ELSE votes[v][st][k]
    BY <1>1 DEF VotesWith
  <2>2. \A k \in Votes : votes[v][st][k] \in Seq(Users)
    BY <1>1
  <2>3. \A k \in Votes : Times(u, votes[v][st][k]) \in Nat
    BY <2>2, TimesIsNat
  <2>4. \A k \in Votes :
            Times(u, vs[v][st][k]) =
                Times(u, votes[v][st][k]) + (IF k = vote THEN one ELSE 0)
    <3> SUFFICES ASSUME NEW k \in Votes
                 PROVE  Times(u, vs[v][st][k]) =
                            Times(u, votes[v][st][k])
                            + (IF k = vote THEN one ELSE 0)
      OBVIOUS
    <3>1. Times(u, Append(votes[v][st][k], user)) =
              Times(u, votes[v][st][k]) + (IF u = user THEN 1 ELSE 0)
      BY <2>2, TimesAppended
    <3> HIDE DEF vs
    <3> QED
      BY <2>1, <2>3, <3>1
  <2>5. one \in {0, 1}
    OBVIOUS
  <2> HIDE DEF vs, one
  <2>6. Judgeable(u, vs[v][st]) <= Judgeable(u, votes[v][st]) + one
    BY <2>3, <2>4, <2>5 DEF Judgeable, Votes
  <2>7. /\ WaitingIn(u, st, vs) =
               WaitingIn(u, st, votes) + Judgeable(u, vs[v][st])
               - Judgeable(u, votes[v][st])
        /\ WaitingIn(u, st, votes) \in Nat
    BY <1>1, <2>1, WaitingChanged
  <2>8. Judgeable(u, vs[v][st]) \in Nat /\ Judgeable(u, votes[v][st]) \in Nat
    BY <1>1, <2>1, JudgeableIsNat
  <2> QED
    BY <2>5, <2>6, <2>7, <2>8
<1>3. MarksIn(u, st, votesPhase') >= MarksIn(u, st, votesPhase) + one
  <2> DEFINE f == [w \in VoteIds |-> votesPhase[st][w][u]]
             g == [w \in VoteIds |-> votesPhase'[st][w][u]]
  <2>1. /\ \A w \in VoteIds : f[w] \in Nat /\ g[w] \in Nat
        /\ \A w \in VoteIds \ {v} : g[w] = f[w]
        /\ g[v] >= f[v] + one
    BY <1>1 DEF MarkVoter, HasNotVoted
  <2>2. one \in {0, 1}
    OBVIOUS
  <2>3. /\ MarksIn(u, st, votesPhase) = SumFunctionOnSet(f, VoteIds)
        /\ MarksIn(u, st, votesPhase') = SumFunctionOnSet(g, VoteIds)
    BY DEF MarksIn
  <2> HIDE DEF f, g, one
  <2>4. \A w \in VoteIds : f[w] \in Int /\ g[w] \in Int
    BY <2>1
  <2>5. SumFunctionOnSet(g, VoteIds) = SumFunctionOnSet(f, VoteIds) + g[v] - f[v]
    BY <2>1, <2>4, VoteIdsFinite, SumChanged
  <2>6. SumFunctionOnSet(f, VoteIds) \in Nat
    BY <2>1, VoteIdsFinite, SumNat
  <2> QED
    BY <2>1, <2>2, <2>3, <2>5, <2>6
<1> QED
  BY <1>2, <1>3

(* What a verdict adds to the judgements of a user in a stage.              *)
LEMMA VerdictJudges ==
    ASSUME ListingsInv, NEW vs \in [VoteIds -> [Stages -> [Votes -> Seq(Users)]]],
           NEW v \in VoteIds, NEW u \in Users, NEW st \in Stages,
           \/ RewardVoters(vs, v, "Accept", "Reject")
           \/ RewardVoters(vs, v, "Reject", "Accept")
    PROVE  goodVotes'[st][u] + badVotes'[st][u] =
               goodVotes[st][u] + badVotes[st][u] + Judgeable(u, vs[v][st])
<1> DEFINE a == Times(u, vs[v][st]["Accept"])
           r == Times(u, vs[v][st]["Reject"])
<1>1. a \in Nat /\ r \in Nat
  <2>1. vs[v][st]["Accept"] \in Seq(Users) /\ vs[v][st]["Reject"] \in Seq(Users)
    BY DEF Votes
  <2> QED
    BY <2>1, TimesIsNat
<1>2. goodVotes[st][u] \in Nat /\ badVotes[st][u] \in Nat
  BY DEF ListingsInv, OthersTyped
<1>3. \/ /\ goodVotes'[st][u] = goodVotes[st][u] + a
         /\ badVotes'[st][u] = badVotes[st][u] + r
      \/ /\ goodVotes'[st][u] = goodVotes[st][u] + r
         /\ badVotes'[st][u] = badVotes[st][u] + a
  BY DEF RewardVoters
<1>4. Judgeable(u, vs[v][st]) = a + r
  BY DEF Judgeable
<1> HIDE DEF a, r
<1> QED
  BY <1>1, <1>2, <1>3, <1>4

(* A user is judged at most once for each phase the user voted in: whatever *)
(* phases restart, listings reopen and overrides happen, the votes judged   *)
(* and those still waiting are covered by the marks left when voting.       *)
THEOREM VotesStayJudgedOnce == CallsSpec => []VotesJudgedOnce
<1>1. VotesJudgedOnce <=>
          \A u \in Users, st \in Stages :
              goodVotes[st][u] + badVotes[st][u] + WaitingIn(u, st, votes)
              <= MarksIn(u, st, votesPhase)
  BY Zenon DEF VotesJudgedOnce, WaitingIn, MarksIn, SumFunction, Waiting, Judgeable
<1>2. ListingsInit => VotesJudgedOnce
  <2> SUFFICES ASSUME ListingsInit, NEW u \in Users, NEW st \in Stages
               PROVE  goodVotes[st][u] + badVotes[st][u] + WaitingIn(u, st, votes)
                      <= MarksIn(u, st, votesPhase)
    BY <1>1
  <2> DEFINE f == [v \in VoteIds |-> Judgeable(u, votes[v][st])]
             g == [v \in VoteIds |-> votesPhase[st][v][u]]
  <2>1. \A v \in VoteIds : f[v] = 0
    BY NothingToJudge DEF ListingsInit
  <2>2. \A v \in VoteIds : g[v] \in Nat
    BY DEF ListingsInit
  <2>3. SumFunctionOnSet(f, VoteIds) = 0
    <3> HIDE DEF f
    <3> QED
      BY <2>1, SumZero, VoteIdsFinite
  <2>4. SumFunctionOnSet(g, VoteIds) \in Nat
    <3> HIDE DEF g
    <3> QED
      BY <2>2, SumNat, VoteIdsFinite
  <2>5. goodVotes[st][u] = 0 /\ badVotes[st][u] = 0
    BY DEF ListingsInit
  <2> QED
    BY <2>3, <2>4, <2>5 DEF WaitingIn, MarksIn
<1>3. ListingsInv /\ VotesJudgedOnce /\ [CallsNext]_listingsVars
      => VotesJudgedOnce'
  <2> SUFFICES ASSUME ListingsInv, VotesJudgedOnce, [CallsNext]_listingsVars,
                      NEW u \in Users, NEW st \in Stages
               PROVE  goodVotes'[st][u] + badVotes'[st][u]
                      + WaitingIn(u, st, votes') <= MarksIn(u, st, votesPhase')
    BY Zenon DEF VotesJudgedOnce, WaitingIn, MarksIn, SumFunction, Waiting,
                 Judgeable
  <2> DEFINE marks == MarksIn(u, st, votesPhase)
             waiting == WaitingIn(u, st, votes)
             newMarks == MarksIn(u, st, votesPhase')
             newWaiting == WaitingIn(u, st, votes')
  <2>1. /\ votes \in [VoteIds -> [Stages -> [Votes -> Seq(Users)]]]
        /\ votes' \in [VoteIds -> [Stages -> [Votes -> Seq(Users)]]]
    BY StepPreserves DEF ListingsInv, Sound, Typed
  <2>2. /\ goodVotes[st][u] \in Nat /\ badVotes[st][u] \in Nat
        /\ votesPhase \in [Stages -> [VoteIds -> [Users -> Nat]]]
        /\ votesPhase' \in [Stages -> [VoteIds -> [Users -> Nat]]]
    BY StepPreserves DEF ListingsInv, OthersTyped
  <2>3. \A vp \in [Stages -> [VoteIds -> [Users -> Nat]]] :
            MarksIn(u, st, vp) \in Nat
    <3> SUFFICES ASSUME NEW vp \in [Stages -> [VoteIds -> [Users -> Nat]]]
                 PROVE  MarksIn(u, st, vp) \in Nat
      OBVIOUS
    <3> DEFINE g == [v \in VoteIds |-> vp[st][v][u]]
    <3>1. \A v \in VoteIds : g[v] \in Nat
      OBVIOUS
    <3>2. MarksIn(u, st, vp) = SumFunctionOnSet(g, VoteIds)
      BY DEF MarksIn
    <3> HIDE DEF g
    <3> QED
      BY <3>1, <3>2, SumNat, VoteIdsFinite
  <2>4. marks \in Nat /\ newMarks \in Nat
    BY <2>2, <2>3
  <2>5. \A vs \in [VoteIds -> [Stages -> [Votes -> Seq(Users)]]] :
            WaitingIn(u, st, vs) \in Nat
    BY WaitingIsNat
  <2>6. goodVotes[st][u] + badVotes[st][u] + waiting <= marks
    BY <1>1
  <2>7. CASE Quiet
    <3>1. newMarks = marks
      BY <2>7 DEF Quiet
    <3>2. newWaiting <= waiting
      <4>1. CASE votes' = votes
        BY <2>1, <2>5, <4>1
      <4>2. CASE VoteIds # {}
        BY <2>1, <2>7, <4>2, DeletedDontWait DEF Quiet
      <4> QED
        BY <2>7, <4>1, <4>2 DEF Quiet, Deletes
    <3>3. goodVotes' = goodVotes /\ badVotes' = badVotes
      BY <2>7 DEF Quiet
    <3>4. waiting \in Nat /\ newWaiting \in Nat
      BY <2>1, <2>5
    <3> HIDE DEF marks, waiting, newMarks, newWaiting
    <3>5. goodVotes[st][u] + badVotes[st][u] + newWaiting <= newMarks
      BY <2>2, <2>4, <2>6, <3>1, <3>2, <3>4
    <3> QED
      BY <3>3, <3>5 DEF newMarks, newWaiting
  <2>8. ASSUME NEW user \in Users, ClaimRewards(user)
        PROVE  goodVotes'[st][u] + badVotes'[st][u] + newWaiting <= newMarks
    <3>1. UNCHANGED <<votes, votesPhase, goodVotes, badVotes>>
      BY <2>8 DEF ClaimRewards, listingVars
    <3>2. newWaiting = waiting /\ newMarks = marks
      BY <3>1
    <3> HIDE DEF marks, waiting, newMarks, newWaiting
    <3> QED
      BY <2>6, <3>1, <3>2
  <2>9. ASSUME NEW user \in Users, NEW v \in VoteIds, NEW t \in Stages,
               NEW vote \in Votes, Casts(user, v, t, vote)
        PROVE  goodVotes'[st][u] + badVotes'[st][u] + newWaiting <= newMarks
    <3> DEFINE vs == VotesWith(user, v, t, vote)
               one == IF u = user /\ st = t THEN 1 ELSE 0
               between == WaitingIn(u, st, vs)
               judged == Judgeable(u, vs[v][st])
    <3>1. HasNotVoted(user, v, t) /\ MarkVoter(user, v, t)
      BY <2>9 DEF Casts, MayVote
    <3>2. between <= waiting + one /\ newMarks >= marks + one
      BY <3>1, CastAddsOne
    <3>3. vs \in [VoteIds -> [Stages -> [Votes -> Seq(Users)]]] /\ one \in {0, 1}
      BY <2>1 DEF VotesWith
    <3>4. /\ Deletes(vs)
          /\ \/ goodVotes' = goodVotes /\ badVotes' = badVotes
             \/ /\ votes'[v] = NoVotes
                /\ \/ RewardVoters(vs, v, "Accept", "Reject")
                   \/ RewardVoters(vs, v, "Reject", "Accept")
      BY <2>9, Zenon DEF Casts
    <3> HIDE DEF vs, one
    <3>5. /\ newWaiting <= between
          /\ votes'[v] = NoVotes => newWaiting + judged <= between
      BY <3>3, <3>4, DeletedDontWait
    <3>6. \/ goodVotes' = goodVotes /\ badVotes' = badVotes
          \/ /\ votes'[v] = NoVotes
             /\ goodVotes'[st][u] + badVotes'[st][u] =
                    goodVotes[st][u] + badVotes[st][u] + judged
      BY <3>3, <3>4, VerdictJudges
    <3>7. /\ waiting \in Nat /\ newWaiting \in Nat /\ between \in Nat
          /\ judged \in Nat
      BY <2>1, <2>5, <3>3, JudgeableIsNat
    <3> HIDE DEF marks, waiting, newMarks, newWaiting, between, judged
    <3> DEFINE before == goodVotes[st][u] + badVotes[st][u]
               after == goodVotes'[st][u] + badVotes'[st][u]
    <3>8. /\ before \in Nat /\ before + waiting <= marks
          /\ \/ after = before
             \/ after = before + judged /\ newWaiting + judged <= between
      BY <2>2, <2>6, <3>5, <3>6
    <3> HIDE DEF before, after
    <3>9. after + newWaiting <= newMarks
      BY <2>4, <3>2, <3>3, <3>5, <3>7, <3>8
    <3> QED
      BY <3>9 DEF after
  <2> QED
    BY <2>7, <2>8, <2>9, StepRecords DEF RecordStep
<1> QED
  BY <1>2, <1>3, InvAlways, PTL DEF CallsSpec

-----------------------------------------------------------------------------
(* Verdicts pay the votes on record.                                        *)

(* Only a vote decides a Validation, and nothing else changes what a user's *)
(* rewards are worth.                                                       *)
LEMMA OthersDecideNothing ==
    ASSUME OwnerMoves = {}, Settings["tokensPerVote"] = {}, ListingsInv,
           [CallsNext]_listingsVars,
           CallStep \/ ClaimStep \/ OwnerStep \/ OutsideStep
               \/ UNCHANGED listingsVars,
           NEW u \in Users
    PROVE  /\ \A v \in VoteIds : ~Decided(v)
           /\ RewardValue(u)' = RewardValue(u)
<1>1. config'["tokensPerVote"] = config["tokensPerVote"]
  BY SettingStands DEF Parameters
<1>2. ASSUME UNCHANGED status PROVE \A v \in VoteIds : ~Decided(v)
  BY <1>2 DEF Decided
<1>3. ASSUME UNCHANGED <<owedRewards, paidRewards>>
      PROVE  RewardValue(u)' = RewardValue(u)
  BY <1>1, <1>3 DEF RewardValue
<1>4. CASE CallStep
  <2>1. RewardValue(u)' = RewardValue(u)
    BY <1>3, <1>4, CallsKeep DEF rewardVars, claimVars
  <2>2. ASSUME NEW caller, NEW user \in Users, NEW amount \in Nat,
               NEW tokenId \in Nat, SubmitTokenFor(caller, user, amount, tokenId)
        PROVE  \A v \in VoteIds : ~Decided(v)
    <3>1. \E w \in VoteIds : Arrives(w) /\ \A v \in VoteIds \ {w} : Stands(v)
      BY <2>2, SubmitEffect
    <3> QED
      BY <3>1 DEF Arrives, Stands, Decided
  <2>3. ASSUME NEW caller, NEW user \in Users, NEW w \in VoteIds,
               NEW amount \in Nat, TopUpTokenFor(caller, user, w, amount)
        PROVE  \A v \in VoteIds : ~Decided(v)
    <3>1. IsToppedUp(w) /\ \A v \in VoteIds \ {w} : Stands(v)
      BY <2>3, TopUpEffect
    <3> QED
      BY <3>1 DEF IsToppedUp, Stands, Decided
  <2>4. ASSUME NEW user \in Users, NEW w \in VoteIds, UpdateTokenFor(user, w)
        PROVE  \A v \in VoteIds : ~Decided(v)
    <3>1. IsUpdated(w) /\ \A v \in VoteIds \ {w} : Stands(v)
      BY <2>4, UpdateEffect
    <3> QED
      BY <3>1 DEF IsUpdated, Stands, Decided
  <2> QED
    BY <1>4, <2>1, <2>2, <2>3, <2>4 DEF CallStep, CallsFor
<1>5. CASE ClaimStep
  <2>1. RewardValue(u)' = RewardValue(u)
    BY <1>5, ClaimKeepsValue DEF ClaimStep
  <2> QED
    BY <1>2, <1>5, <2>1 DEF ClaimStep, ClaimRewards, listingVars, statusVars
<1>6. CASE OwnerStep
  <2>1. UNCHANGED <<listingVars, rewardVars, paidRewards>>
    BY <1>6 DEF OwnerStep, UpdateParameter, WhitelistSubmitter,
                WithdrawERC20Funds, claimVars
  <2> QED
    BY <1>2, <1>3, <2>1 DEF listingVars, statusVars, rewardVars
<1>7. CASE OutsideStep \/ UNCHANGED listingsVars
  <2>1. UNCHANGED <<listingVars, rewardVars, claimVars>>
    BY <1>7 DEF OutsideStep, Tick, RankChange, listingsVars
  <2> QED
    BY <1>2, <1>3, <2>1 DEF listingVars, statusVars, rewardVars, claimVars
<1> QED
  BY <1>4, <1>5, <1>6, <1>7

(* A verdict finds the votes on record, and the vote that leads to it.      *)
LEMMA RewardedByRecord ==
    ASSUME ListingsInv, NEW user \in Users, NEW v \in VoteIds, NEW vote \in Votes,
           NEW right \in Votes, NEW wrong,
           HasNotVoted(user, v, "Validation"), MarkVoter(user, v, "Validation"),
           RewardVoters(VotesWith(user, v, "Validation", vote), v, right, wrong),
           config'["tokensPerVote"] = config["tokensPerVote"],
           paidRewards' = paidRewards, NEW u \in Users
    PROVE  \E last \in {0, 2} :
               /\ last # 0 => votesPhase'["Validation"][v][u]
                               # votesPhase["Validation"][v][u]
               /\ RewardValue(u)' =
                      RewardValue(u) + config["tokensPerVote"]
                          * (tokenListings[v].coeff * (OnRecord(u, v, right) + last))
<1> DEFINE vs == VotesWith(user, v, "Validation", vote)
           last == IF u = user /\ right = vote THEN 2 ELSE 0
           S == votes[v]["Sorting"][right]
           V == votes[v]["Validation"][right]
           T == config["tokensPerVote"]
           coeff == tokenListings[v].coeff
           n == OnRecord(u, v, right) + last
<1>1. /\ votes \in [VoteIds -> [Stages -> [Votes -> Seq(Users)]]]
      /\ votesPhase \in [Stages -> [VoteIds -> [Users -> Nat]]]
      /\ tokenListings[v].phase \in Nat /\ coeff \in Nat
      /\ owedRewards[u] \in Nat /\ paidRewards[u] \in Nat /\ T \in Nat
  BY DEF ListingsInv, Sound, Typed, OthersTyped, Listing, Parameters
<1>2. S \in Seq(Users) /\ V \in Seq(Users)
  BY <1>1 DEF Stages
<1>3. Times(u, S) \in Nat /\ Times(u, V) \in Nat
  BY <1>2, TimesIsNat
<1>4. /\ vs[v]["Sorting"][right] = S
      /\ vs[v]["Validation"][right] = IF right = vote THEN Append(V, user) ELSE V
  BY <1>1 DEF VotesWith, Stages
<1>5. Times(u, Append(V, user)) = Times(u, V) + (IF u = user THEN 1 ELSE 0)
  BY <1>2, TimesAppended
<1>6. 2 * Times(u, vs[v]["Validation"][right]) = 2 * Times(u, V) + last
  <2> HIDE DEF vs, V
  <2> QED
    BY <1>3, <1>4, <1>5
<1>7. owedRewards'[u] =
          owedRewards[u] + coeff * (1 * Times(u, vs[v]["Sorting"][right])
                                    + 2 * Times(u, vs[v]["Validation"][right]))
  BY DEF RewardVoters, Weight
<1>8. OnRecord(u, v, right) = Times(u, S) + 2 * Times(u, V)
  BY DEF OnRecord
<1>9. last \in {0, 2}
  OBVIOUS
<1>10. last # 0 => votesPhase'["Validation"][v][u] # votesPhase["Validation"][v][u]
  BY <1>1 DEF MarkVoter, HasNotVoted, Stages
<1>11. RewardValue(u)' = RewardValue(u) + T * (coeff * n)
  <2> HIDE DEF vs, last, S, V
  <2>1. n \in Nat
    BY <1>3, <1>8, <1>9
  <2>2. 1 * Times(u, vs[v]["Sorting"][right])
        + 2 * Times(u, vs[v]["Validation"][right]) = n
    BY <1>3, <1>4, <1>6, <1>8, <1>9
  <2>3. owedRewards'[u] = owedRewards[u] + coeff * n
    BY <1>7, <2>2, Zenon
  <2>4. /\ RewardValue(u) = owedRewards[u] * T + paidRewards[u]
        /\ RewardValue(u)' = owedRewards'[u] * T + paidRewards[u]
    BY DEF RewardValue
  <2> HIDE DEF n, T, coeff
  <2>5. (owedRewards[u] + coeff * n) * T + paidRewards[u]
        = (owedRewards[u] * T + paidRewards[u]) + coeff * (T * n)
    BY <1>1, <2>1, OwedMore
  <2>6. coeff * (T * n) = T * (coeff * n)
    BY <1>1, <2>1
  <2> QED
    BY <2>3, <2>4, <2>5, <2>6, Zenon
<1> HIDE DEF last
<1> QED
  BY <1>9, <1>10, <1>11

(* While the value of a vote stands and the owner overrides no status, what *)
(* a user was paid and can still claim changes by verdicts alone, each for  *)
(* exactly the right votes that the arrays of the listing hold.             *)
THEOREM VerdictsPayRecords ==
    ASSUME OwnerMoves = {}, Settings["tokensPerVote"] = {}
    PROVE  CallsSpec => VerdictsPayTheRecord
<1> DEFINE Right(v) == IF status'[v] = "Validated" THEN "Accept" ELSE "Reject"
           PaidTo(u) ==
               \/ /\ \A v \in VoteIds : ~Decided(v)
                  /\ RewardValue(u)' = RewardValue(u)
               \/ \E v \in VoteIds, last \in {0, 2} :
                      /\ Decided(v)
                      /\ last # 0 => votesPhase'["Validation"][v][u]
                                      # votesPhase["Validation"][v][u]
                      /\ RewardValue(u)' =
                             RewardValue(u) + config["tokensPerVote"]
                                 * (tokenListings[v].coeff
                                    * (OnRecord(u, v, Right(v)) + last))
<1>1. ASSUME ListingsInv, [CallsNext]_listingsVars, NEW u \in Users
      PROVE  PaidTo(u)
  <2>1. CASE CallStep \/ ClaimStep \/ OwnerStep \/ OutsideStep
             \/ UNCHANGED listingsVars
    BY <1>1, <2>1, OthersDecideNothing
  <2>2. ASSUME NEW user \in Users, NEW v \in VoteIds, NEW vote \in Votes,
               NEW score, VoteSorting(user, v, vote, score)
        PROVE  PaidTo(u)
    <3>1. /\ UNCHANGED <<rewardVars, claimVars, config>>
          /\ status[v] = "Sorting"
      BY <2>2 DEF VoteSorting, MayVote, IsOpen, ownerVars
    <3>2. \A w \in VoteIds \ {v} : status'[w] = status[w]
      BY <1>1, <2>2 DEF VoteSorting, UpdateListingStatus, MoveListing,
         statusVars, ListingsInv, StatusArraysTypeOK
    <3>3. RewardValue(u)' = RewardValue(u)
      BY <3>1 DEF RewardValue, rewardVars, claimVars
    <3> QED
      BY <3>1, <3>2, <3>3 DEF Decided
  <2>3. ASSUME NEW user \in Users, NEW v \in VoteIds, NEW vote \in Votes,
               NEW score, VoteValidation(user, v, vote, score)
        PROVE  PaidTo(u)
    <3> DEFINE vs == VotesWith(user, v, "Validation", vote)
    <3>1. /\ UNCHANGED <<claimVars, config>> /\ status[v] = "Validation"
          /\ HasNotVoted(user, v, "Validation")
          /\ MarkVoter(user, v, "Validation")
      BY <2>3 DEF VoteValidation, MayVote, IsOpen, ownerVars
    <3>2. \/ UNCHANGED <<statusVars, rewardVars>>
          \/ /\ \E ls : UpdateListingStatus(ls, vs, v, "Updating")
             /\ UNCHANGED rewardVars
          \/ /\ RewardVoters(vs, v, "Accept", "Reject")
             /\ \E ls : UpdateListingStatus(ls, vs, v, "Validated")
          \/ /\ RewardVoters(vs, v, "Reject", "Accept")
             /\ \E ls : UpdateListingStatus(ls, vs, v, "Rejected")
      BY <2>3, Zenon DEF VoteValidation
    <3>3. ASSUME NEW ls, NEW s, UpdateListingStatus(ls, vs, v, s)
          PROVE  /\ status'[v] = s
                 /\ \A w \in VoteIds \ {v} : status'[w] = status[w]
      BY <1>1, <3>3 DEF UpdateListingStatus, MoveListing, ListingsInv,
         StatusArraysTypeOK
    <3>4. ASSUME UNCHANGED rewardVars, \A w \in VoteIds : ~Decided(w)
          PROVE  PaidTo(u)
      <4>1. RewardValue(u)' = RewardValue(u)
        BY <3>1, <3>4 DEF RewardValue, rewardVars, claimVars
      <4> QED
        BY <3>4, <4>1
    <3>5. ASSUME NEW right \in Votes, NEW wrong,
                 RewardVoters(vs, v, right, wrong), Decided(v), Right(v) = right
          PROVE  PaidTo(u)
      <4>1. PICK last \in {0, 2} :
                /\ last # 0 => votesPhase'["Validation"][v][u]
                                # votesPhase["Validation"][v][u]
                /\ RewardValue(u)' =
                       RewardValue(u) + config["tokensPerVote"]
                           * (tokenListings[v].coeff
                              * (OnRecord(u, v, right) + last))
        BY <1>1, <3>1, <3>5, RewardedByRecord DEF claimVars
      <4> QED
        BY <3>5, <4>1, Zenon
    <3>6. CASE UNCHANGED <<statusVars, rewardVars>>
      BY <3>4, <3>6 DEF statusVars, Decided
    <3>7. CASE /\ \E ls : UpdateListingStatus(ls, vs, v, "Updating")
               /\ UNCHANGED rewardVars
      BY <3>3, <3>4, <3>7 DEF Decided
    <3>8. CASE /\ RewardVoters(vs, v, "Accept", "Reject")
               /\ \E ls : UpdateListingStatus(ls, vs, v, "Validated")
      <4>1. Decided(v) /\ Right(v) = "Accept"
        BY <3>1, <3>3, <3>8 DEF Decided
      <4> QED
        BY <3>5, <3>8, <4>1 DEF Votes
    <3>9. CASE /\ RewardVoters(vs, v, "Reject", "Accept")
               /\ \E ls : UpdateListingStatus(ls, vs, v, "Rejected")
      <4>1. Decided(v) /\ Right(v) = "Reject"
        BY <3>1, <3>3, <3>9 DEF Decided
      <4> QED
        BY <3>5, <3>9, <4>1 DEF Votes
    <3> QED
      BY <3>2, <3>6, <3>7, <3>8, <3>9
  <2> HIDE DEF PaidTo
  <2> QED
    BY <1>1, <2>1, <2>2, <2>3, CallCases DEF VoterStep
<1>2. ListingsInv /\ [CallsNext]_listingsVars
      => [\A u \in Users : PaidTo(u)]_listingsVars
  <2> HIDE DEF PaidTo
  <2> QED
    BY <1>1
<1>3. CallsSpec => [][\A u \in Users : PaidTo(u)]_listingsVars
  <2> HIDE DEF PaidTo
  <2> QED
    BY <1>2, InvAlways, PTL DEF CallsSpec
<1> QED
  BY <1>3, Zenon DEF VerdictsPayTheRecord

-----------------------------------------------------------------------------
(* Phases.  A listing starts in phase 1 and a new phase starts when it is   *)
(* sent back to its submitter; nothing else changes a phase.                *)

PhaseStep(v) ==
    IF v = tokenListingsLength /\ tokenListingsLength' = v + 1
    THEN tokenListings'[v].phase = 1
    ELSE \/ /\ tokenListings'[v].phase = tokenListings[v].phase
            /\ status'[v] = "Updating" => status[v] = "Updating"
         \/ /\ tokenListings'[v].phase = tokenListings[v].phase + 1
            /\ status'[v] = "Updating"

LEMMA MovePhases ==
    ASSUME StatusArraysTypeOK, NEW ls \in [VoteIds -> Listing], NEW vs,
           NEW v \in VoteIds, NEW s, UpdateListingStatus(ls, vs, v, s)
    PROVE  /\ \A w \in VoteIds :
                  /\ status'[w] = IF w = v THEN s ELSE status[w]
                  /\ w # v => tokenListings'[w].phase = ls[w].phase
           /\ tokenListings'[v].phase =
                  IF s = "Updating" THEN ls[v].phase + 1 ELSE ls[v].phase
<1>1. status' = [status EXCEPT ![v] = s]
  BY DEF UpdateListingStatus, MoveListing
<1>2. CASE s \notin ClearingStatuses
  BY <1>1, <1>2 DEF UpdateListingStatus, StatusArraysTypeOK, ClearingStatuses
<1>3. CASE s \in ClearingStatuses
  <2> DEFINE l == ls[v]
             zeroed == [l EXCEPT !.accruedScore = 0]
             phase == IF s = "Updating" THEN l.phase + 1 ELSE l.phase
  <2>1. tokenListings' = [ls EXCEPT ![v] = Cleared(@, s)]
    BY <1>3 DEF UpdateListingStatus
  <2>2. Cleared(l, s) = [zeroed EXCEPT !.phase = phase]
    BY Zenon DEF Cleared
  <2>3. l \in Listing /\ zeroed \in Listing
    BY DEF Listing
  <2>4. Cleared(l, s).phase = phase
    <3> HIDE DEF zeroed, phase, l
    <3> QED
      BY <2>2, <2>3 DEF Listing
  <2>5. /\ tokenListings'[v] = Cleared(l, s)
        /\ \A w \in VoteIds \ {v} : tokenListings'[w] = ls[w]
    BY <2>1
  <2> QED
    BY <1>1, <2>4, <2>5 DEF StatusArraysTypeOK
<1> QED
  BY <1>2, <1>3

SamePhases(ls) ==
    /\ ls \in [VoteIds -> Listing]
    /\ \A w \in VoteIds : ls[w].phase = tokenListings[w].phase

LEMMA MoveStepsPhase ==
    ASSUME ListingsInv, NEW ls, SamePhases(ls), NEW vs, NEW v \in VoteIds, NEW s,
           UpdateListingStatus(ls, vs, v, s), UNCHANGED tokenListingsLength
    PROVE  \A w \in VoteIds : PhaseStep(w)
<1>0. tokenListingsLength' # tokenListingsLength + 1
  BY MaxListingsAssumption DEF ListingsInv, OthersTyped
<1>1. /\ \A w \in VoteIds :
             /\ status'[w] = IF w = v THEN s ELSE status[w]
             /\ w # v => tokenListings'[w].phase = ls[w].phase
      /\ tokenListings'[v].phase =
             IF s = "Updating" THEN ls[v].phase + 1 ELSE ls[v].phase
  BY MovePhases DEF SamePhases, ListingsInv
<1> QED
  BY <1>0, <1>1 DEF PhaseStep, SamePhases

LEMMA CastKeepsPhases ==
    ASSUME ListingsInv, NEW v \in VoteIds, NEW vote, NEW score \in Nat
    PROVE  SamePhases(ListingsWith(v, vote, score))
<1> DEFINE sum == IF vote = "Accept" THEN tokenListings[v].accruedScore + score
                                     ELSE tokenListings[v].accruedScore
           accrued == [tokenListings[v] EXCEPT !.accruedScore = sum]
<1>1. ListingsWith(v, vote, score) = [tokenListings EXCEPT ![v] = accrued]
  BY Zenon DEF ListingsWith
<1>2. tokenListings \in [VoteIds -> Listing]
  BY DEF ListingsInv, Sound, Typed
<1>3. sum \in Nat
  BY <1>2 DEF Listing
<1>4. accrued \in Listing /\ accrued.phase = tokenListings[v].phase
  <2> HIDE DEF sum
  <2> QED
    BY <1>2, <1>3 DEF Listing
<1> HIDE DEF accrued
<1> QED
  BY <1>1, <1>2, <1>4 DEF SamePhases

LEMMA StepPhases ==
    ASSUME ListingsInv, [CallsNext]_listingsVars
    PROVE  \A v \in VoteIds : PhaseStep(v)
<1>0. UNCHANGED tokenListingsLength => tokenListingsLength' # tokenListingsLength + 1
  BY MaxListingsAssumption DEF ListingsInv, OthersTyped
<1>1. UNCHANGED <<tokenListings, status, tokenListingsLength>>
      => \A v \in VoteIds : PhaseStep(v)
  BY <1>0 DEF PhaseStep
<1>2. tokenListings \in [VoteIds -> Listing] /\ OthersTyped
  BY DEF ListingsInv, Sound, Typed
<1>3. CASE CallStep
  <2> PICK caller : \E user \in Users, amount \in Nat : CallsFor(caller, user, amount)
    BY <1>3, Zenon DEF CallStep
  <2> PICK user \in Users, amount \in Nat : CallsFor(caller, user, amount)
    OBVIOUS
  <2>1. ASSUME NEW tokenId \in Nat, SubmitTokenFor(caller, user, amount, tokenId)
        PROVE  \A w \in VoteIds : PhaseStep(w)
    <3> DEFINE v == tokenListingsLength
               coeff == SubmissionCoeff(user, amount, tokenId)
               listing ==
                   [tokenId |-> IF tokenId # 0 THEN tokenId ELSE nextTokenId,
                    lastUpdate |-> now, score |-> 0, coeff |-> coeff,
                    submitter |-> user, accruedScore |-> 0, phase |-> 1]
               ls == [tokenListings EXCEPT ![v] = listing]
               s == IF FullyPaid(coeff) THEN "Sorting" ELSE "Pool"
    <3>1. v \in VoteIds
      <4>1. v < MaxListings
        BY <2>1, Zenon DEF SubmitTokenFor
      <4> QED
        BY <1>2, <4>1, MaxListingsAssumption DEF OthersTyped, VoteIds
    <3>2. UpdateListingStatus(ls, votes, v, s)
      BY <2>1, Zenon DEF SubmitTokenFor
    <3>3. tokenListingsLength' = v + 1
      BY <2>1, Zenon DEF SubmitTokenFor
    <3>4. listing \in Listing /\ listing.phase = 1
      <4>1. coeff \in Nat
        BY <1>2, <2>1, SubmissionCoeffIsNat
      <4> HIDE DEF coeff
      <4> QED
        BY <1>2, <4>1 DEF OthersTyped, Listing
    <3>5. s # "Updating"
      OBVIOUS
    <3> HIDE DEF listing, s
    <3>6. /\ ls \in [VoteIds -> Listing] /\ ls[v].phase = 1
          /\ \A w \in VoteIds \ {v} : ls[w] = tokenListings[w]
      BY <1>2, <3>1, <3>4
    <3> HIDE DEF ls
    <3>7. /\ \A w \in VoteIds :
                 /\ status'[w] = IF w = v THEN s ELSE status[w]
                 /\ w # v => tokenListings'[w].phase = ls[w].phase
          /\ tokenListings'[v].phase = ls[v].phase
      BY <3>1, <3>2, <3>5, <3>6, MovePhases DEF ListingsInv
    <3> QED
      BY <3>3, <3>6, <3>7 DEF PhaseStep
  <2>2. ASSUME NEW v \in VoteIds, TopUpTokenFor(caller, user, v, amount)
        PROVE  \A w \in VoteIds : PhaseStep(w)
    <3> DEFINE coeff == tokenListings[v].coeff + GetCoeff(amount)
               paid == [tokenListings[v] EXCEPT !.coeff = coeff]
               ls == [tokenListings EXCEPT ![v] = paid]
    <3>1. \/ UpdateListingStatus(ls, votes, v, "Sorting")
          \/ tokenListings' = ls /\ UNCHANGED statusVars
      BY <2>2, Zenon DEF TopUpTokenFor
    <3>0. UNCHANGED tokenListingsLength
      BY <2>2, Zenon DEF TopUpTokenFor
    <3>2. coeff \in Nat
      <4>2. config["submitFloorPrice"] # 0
        BY <2>2 DEF TopUpTokenFor, Pay
      <4>3. GetCoeff(amount) \in Nat
        BY <1>2, <4>2, CoeffIsNat
      <4> QED
        BY <1>2, <4>3 DEF Listing
    <3>3. paid \in Listing /\ paid.phase = tokenListings[v].phase
      <4> HIDE DEF coeff
      <4> QED
        BY <1>2, <3>2 DEF Listing
    <3> HIDE DEF paid
    <3>4. SamePhases(ls)
      BY <1>2, <3>3 DEF SamePhases
    <3> HIDE DEF ls
    <3>5. CASE UpdateListingStatus(ls, votes, v, "Sorting")
      BY <3>0, <3>4, <3>5, MoveStepsPhase
    <3>6. CASE tokenListings' = ls /\ UNCHANGED statusVars
      BY <1>0, <3>0, <3>4, <3>6 DEF PhaseStep, SamePhases, statusVars
    <3> QED
      BY <3>1, <3>5, <3>6
  <2>3. ASSUME NEW v \in VoteIds, UpdateTokenFor(user, v)
        PROVE  \A w \in VoteIds : PhaseStep(w)
    <3> DEFINE new == [tokenListings[v] EXCEPT !.lastUpdate = now]
               ls == [tokenListings EXCEPT ![v] = new]
    <3>1. /\ UpdateListingStatus(ls, votes, v, "Sorting")
          /\ UNCHANGED tokenListingsLength
      BY <2>3, Zenon DEF UpdateTokenFor, submitVars
    <3>2. new \in Listing /\ new.phase = tokenListings[v].phase
      BY <1>2 DEF Listing, OthersTyped
    <3> HIDE DEF new
    <3>3. SamePhases(ls)
      BY <1>2, <3>2 DEF SamePhases
    <3> HIDE DEF ls
    <3> QED
      BY <3>1, <3>3, MoveStepsPhase
  <2> QED
    BY <2>1, <2>2, <2>3 DEF CallsFor
<1>8. CASE ClaimStep
  BY <1>1, <1>8 DEF ClaimStep, ClaimRewards, listingVars, statusVars, submitVars
<1>4. CASE VoterStep
  <2> PICK user \in Users, v \in VoteIds, vote \in Votes,
           score \in Scores \cup {0} :
          \/ VoteSorting(user, v, vote, score)
          \/ VoteValidation(user, v, vote, score)
    BY <1>4 DEF VoterStep
  <2> DEFINE ls == ListingsWith(v, vote, score)
             vs(st) == VotesWith(user, v, st, vote)
             saved == TokenSaved(ls, vs("Validation"), v)
  <2>1. SamePhases(ls)
    BY CastKeepsPhases, ListingsAssumption
  <2>0. UNCHANGED tokenListingsLength
    BY Zenon DEF VoteSorting, VoteValidation, submitVars
  <2>2. tokenListings' = ls /\ UNCHANGED statusVars
        => \A w \in VoteIds : PhaseStep(w)
    <3> HIDE DEF ls
    <3> QED
      BY <1>0, <2>0, <2>1 DEF PhaseStep, SamePhases, statusVars
  <2>3. CASE VoteSorting(user, v, vote, score)
    <3>1. \/ tokenListings' = ls /\ UNCHANGED statusVars
          \/ \E s : UpdateListingStatus(ls, vs("Sorting"), v, s)
      BY <2>3, Zenon DEF VoteSorting
    <3> HIDE DEF ls, vs
    <3> QED
      BY <2>0, <2>1, <2>2, <3>1, MoveStepsPhase
  <2>4. CASE VoteValidation(user, v, vote, score)
    <3> DEFINE ws == vs("Validation")
    <3>1. \/ tokenListings' = ls /\ UNCHANGED statusVars
          \/ \E s : UpdateListingStatus(ls, ws, v, s)
          \/ SaveToken(ls, ws, v) /\ UpdateListingStatus(saved, ws, v, "Validated")
      BY <2>4, Zenon DEF VoteValidation
    <3>2. /\ Sound(ls, ws, votesPhase', tokenListingsLength)
          /\ OthersTyped /\ AssetsBounded
      BY <1>2, <2>4, ListingsAssumption, CastVote
         DEF VoteValidation, MayVote, Stages, ListingsInv
    <3>3. SaveToken(ls, ws, v) => SamePhases(saved)
      <4>1. SaveToken(ls, ws, v) =>
                Sound(saved, ws, votesPhase', tokenListingsLength)
        BY <3>2, SaveTokenSound
      <4> DEFINE average == ls[v].accruedScore \div ScoresCount(ws, v)
                 scored == [ls[v] EXCEPT !.score = average]
      <4>2. saved = [ls EXCEPT ![v] = scored]
        BY Zenon DEF TokenSaved
      <4>3. scored.phase = ls[v].phase
        <5> HIDE DEF average, ls
        <5> QED
          BY <2>1 DEF SamePhases, Listing
      <4> HIDE DEF scored, ls
      <4>4. \A w \in VoteIds : saved[w].phase = ls[w].phase
        BY <2>1, <4>2, <4>3 DEF SamePhases
      <4> HIDE DEF saved
      <4> QED
        BY <2>1, <4>1, <4>4 DEF SamePhases, Sound, Typed
    <3> HIDE DEF ls, vs, saved
    <3> QED
      BY <2>0, <2>1, <2>2, <3>1, <3>3, MoveStepsPhase
  <2> QED
    BY <2>3, <2>4
<1>5. CASE OwnerStep
  <2>1. ASSUME NEW v \in VoteIds, NEW s, EmergencyUpdateListingStatus(v, s)
        PROVE  \A w \in VoteIds : PhaseStep(w)
    <3>1. SamePhases(tokenListings)
      BY <1>2 DEF SamePhases
    <3> QED
      BY <2>1, <3>1, MoveStepsPhase
         DEF EmergencyUpdateListingStatus, submitVars
  <2>2. CASE UNCHANGED <<listingVars, tokenListingsLength>>
    BY <1>1, <2>2 DEF listingVars, statusVars
  <2> QED
    BY <1>5, <2>1, <2>2
       DEF OwnerStep, EmergencyKillRequest, UpdateParameter,
           WhitelistSubmitter, WithdrawERC20Funds, submitVars
<1>6. CASE OutsideStep
  BY <1>1, <1>6 DEF OutsideStep, Tick, RankChange, listingVars, statusVars,
                       submitVars
<1>7. CASE UNCHANGED listingsVars
  BY <1>1, <1>7 DEF listingsVars, listingVars, statusVars, submitVars
<1> QED
  BY <1>3, <1>4, <1>5, <1>6, <1>7, <1>8, CallCases

-----------------------------------------------------------------------------
(* Who is marked.  Without overrides a mark never runs ahead of the phase,  *)
(* and in an open listing a user marked with its phase is on record: the    *)
(* votes that marked users were deleted only when a new phase started.      *)

Recorded(u, arrays) == \E k \in Votes : u \in ToSet(arrays[k])
OpenStatuses == {"Pool", "Updating", "Sorting", "Validation"}

MarksInv ==
    \A v \in VoteIds :
        /\ v >= tokenListingsLength => tokenListings[v].phase = 0
        /\ \A st \in Stages, u \in Users :
               /\ votesPhase[st][v][u] <= tokenListings[v].phase
               /\ status[v] \in OpenStatuses
                      /\ votesPhase[st][v][u] = tokenListings[v].phase
                  => Recorded(u, votes[v][st])

LEMMA NobodyRecorded ==
    \A u : \A st \in Stages : ~Recorded(u, NoVotes[st])
<1>1. \A st \in Stages, k \in Votes : DOMAIN NoVotes[st][k] = {}
  BY NoVotesTyped
<1> QED
  BY <1>1 DEF Recorded, ToSet

(* A vote cast records its voter, and nobody else.                          *)
LEMMA CastRecords ==
    ASSUME ListingsInv, NEW user \in Users, NEW w \in VoteIds, NEW t \in Stages,
           NEW vote \in Votes, NEW v \in VoteIds, NEW st \in Stages,
           NEW u \in Users
    PROVE  Recorded(u, VotesWith(user, w, t, vote)[v][st])
           <=> Recorded(u, votes[v][st]) \/ (u = user /\ v = w /\ st = t)
<1> DEFINE vs == VotesWith(user, w, t, vote)
<1>1. votes \in [VoteIds -> [Stages -> [Votes -> Seq(Users)]]]
  BY DEF ListingsInv, Sound, Typed
<1>2. \A k \in Votes :
          vs[v][st][k] = IF v = w /\ st = t /\ k = vote
                         THEN Append(votes[v][st][k], user)
                         ELSE votes[v][st][k]
  BY <1>1 DEF VotesWith
<1>3. \A k \in Votes :
          ToSet(Append(votes[v][st][k], user)) = ToSet(votes[v][st][k]) \cup {user}
  <2> SUFFICES ASSUME NEW k \in Votes
               PROVE  ToSet(Append(votes[v][st][k], user)) =
                          ToSet(votes[v][st][k]) \cup {user}
    OBVIOUS
  <2> DEFINE old == votes[v][st][k]
  <2>1. old \in Seq(Users)
    BY <1>1
  <2> HIDE DEF old
  <2>2. ToSet(Append(old, user)) = ToSet(old) \cup {user}
    BY <2>1, AppendProperties, LenProperties DEF ToSet
  <2> QED
    BY <2>2 DEF old
<1> HIDE DEF vs
<1>4. Recorded(u, vs[v][st])
      <=> Recorded(u, votes[v][st]) \/ (u = user /\ v = w /\ st = t)
  BY <1>2, <1>3 DEF Recorded
<1> QED
  BY <1>4 DEF vs

(* What a step does to the mark and to the record of one user in a listing: *)
(* unless the votes are deleted, whoever was on record stays, and whoever   *)
(* gets a new mark gets on record.                                          *)
LEMMA MarkAndRecord ==
    ASSUME ListingsInv, [CallsNext]_listingsVars,
           NEW v \in VoteIds, NEW st \in Stages, NEW u \in Users
    PROVE  LET marked == votesPhase'[st][v][u] # votesPhase[st][v][u]
           IN  /\ marked => /\ votesPhase'[st][v][u] = tokenListings[v].phase
                            /\ status[v] \in Stages
               /\ \/ status'[v] \in ClearingStatuses /\ votes'[v] = NoVotes
                  \/ Recorded(u, votes[v][st]) \/ marked
                     => Recorded(u, votes'[v][st])
<1>1. /\ votesPhase \in [Stages -> [VoteIds -> [Users -> Nat]]]
      /\ votes \in [VoteIds -> [Stages -> [Votes -> Seq(Users)]]]
      /\ DOMAIN status = VoteIds
  BY DEF ListingsInv, OthersTyped, Sound, Typed, StatusArraysTypeOK
<1>2. ASSUME NEW vs, Deletes(vs), DOMAIN vs = VoteIds
      PROVE  \/ votes'[v] = vs[v]
             \/ status'[v] \in ClearingStatuses /\ votes'[v] = NoVotes
  BY <1>1, <1>2 DEF Deletes
<1>3. CASE Quiet
  BY <1>1, <1>2, <1>3 DEF Quiet
<1>4. ASSUME NEW user \in Users, ClaimRewards(user)
      PROVE  votesPhase' = votesPhase /\ votes' = votes
  BY <1>4 DEF ClaimRewards, listingVars
<1>5. ASSUME NEW user \in Users, NEW w \in VoteIds, NEW t \in Stages,
             NEW vote \in Votes, Casts(user, w, t, vote)
      PROVE  LET marked == votesPhase'[st][v][u] # votesPhase[st][v][u]
             IN  /\ marked => /\ votesPhase'[st][v][u] = tokenListings[v].phase
                              /\ status[v] \in Stages
                 /\ \/ status'[v] \in ClearingStatuses /\ votes'[v] = NoVotes
                    \/ Recorded(u, votes[v][st]) \/ marked
                       => Recorded(u, votes'[v][st])
  <2> DEFINE vs == VotesWith(user, w, t, vote)
  <2>1. MarkVoter(user, w, t) /\ status[w] = t /\ Deletes(vs)
    BY <1>5, Zenon DEF Casts, MayVote, IsOpen
  <2>2. votesPhase'[st][v][u] =
            IF u = user /\ v = w /\ st = t THEN tokenListings[v].phase
            ELSE votesPhase[st][v][u]
    BY <1>1, <2>1 DEF MarkVoter
  <2>3. DOMAIN vs = VoteIds
    BY <1>1 DEF VotesWith
  <2>4. Recorded(u, vs[v][st])
        <=> Recorded(u, votes[v][st]) \/ (u = user /\ v = w /\ st = t)
    BY CastRecords
  <2> HIDE DEF vs
  <2>5. \/ votes'[v] = vs[v]
        \/ status'[v] \in ClearingStatuses /\ votes'[v] = NoVotes
    BY <1>2, <2>1, <2>3
  <2> QED
    BY <2>1, <2>2, <2>4, <2>5
<1> QED
  BY <1>3, <1>4, <1>5, StepRecords DEF RecordStep

LEMMA MarksPreserved ==
    ASSUME OwnerMoves = {}, ListingsInv, VerdictsInv, FreshIsInit, MarksInv,
           [CallsNext]_listingsVars
    PROVE  MarksInv'
<1> SUFFICES
        ASSUME NEW v \in VoteIds
        PROVE  /\ v >= tokenListingsLength' => tokenListings'[v].phase = 0
               /\ \A st \in Stages, u \in Users :
                      /\ votesPhase'[st][v][u] <= tokenListings'[v].phase
                      /\ status'[v] \in OpenStatuses
                             /\ votesPhase'[st][v][u] = tokenListings'[v].phase
                         => Recorded(u, votes'[v][st])
  BY DEF MarksInv, OpenStatuses, Recorded
<1>1. /\ tokenListings[v].phase \in Nat
      /\ votesPhase \in [Stages -> [VoteIds -> [Users -> Nat]]]
      /\ tokenListingsLength \in Nat
  BY MaxListingsAssumption DEF ListingsInv, OthersTyped, Sound, Typed, Listing
<1>2. PhaseStep(v)
  BY StepPhases
<1>3. v >= tokenListingsLength' => status'[v] = "Init"
  BY FreshStays DEF FreshIsInit
<1>4. \A st \in Stages, u \in Users :
          votesPhase'[st][v][u] # votesPhase[st][v][u] =>
              /\ votesPhase'[st][v][u] = tokenListings[v].phase
              /\ status[v] \in Stages
  BY MarkAndRecord
<1>5. \A st \in Stages, u \in Users :
          /\ votesPhase[st][v][u] \in Nat
          /\ votesPhase'[st][v][u] <= tokenListings[v].phase
  BY <1>1, <1>4 DEF MarksInv
<1>6. CASE v = tokenListingsLength /\ tokenListingsLength' = v + 1
  <2>1. tokenListings[v].phase = 0 /\ tokenListings'[v].phase = 1
    BY <1>1, <1>2, <1>6 DEF PhaseStep, MarksInv
  <2>2. \A st \in Stages, u \in Users : votesPhase'[st][v][u] = 0
    BY <1>4, <1>5, <2>1
  <2> QED
    BY <1>1, <1>6, <2>1, <2>2
<1>7. CASE tokenListings'[v].phase = tokenListings[v].phase + 1
           /\ status'[v] = "Updating"
  <2>1. \A st \in Stages, u \in Users :
            /\ votesPhase'[st][v][u] \in Nat
            /\ votesPhase'[st][v][u] <= tokenListings[v].phase
    BY <1>1, <1>4, <1>5
  <2> QED
    BY <1>1, <1>3, <1>7, <2>1
<1>8. CASE /\ ~(v = tokenListingsLength /\ tokenListingsLength' = v + 1)
           /\ tokenListings'[v].phase = tokenListings[v].phase
           /\ status'[v] = "Updating" => status[v] = "Updating"
  <2>1. v >= tokenListingsLength' => v >= tokenListingsLength
    BY <1>1, StepEffect DEF Effects, Arrives, VoteIds
  <2>2. status'[v] \in OpenStatuses => status[v] \in OpenStatuses
    BY <1>8, StepEffect
       DEF Effects, Changes, Arrives, Stands, IsToppedUp, IsUpdated, IsVotedOn,
           IsOverridden, OpenStatuses, Stages
  <2>3. status[v] = "Updating" => votes[v] = NoVotes
    BY DEF VerdictsInv, ArraysFit, Stages
  <2>4. ASSUME NEW st \in Stages, NEW u \in Users,
               status'[v] \in OpenStatuses,
               votesPhase'[st][v][u] = tokenListings[v].phase
        PROVE  Recorded(u, votes'[v][st])
    <3>1. \/ votesPhase'[st][v][u] # votesPhase[st][v][u]
          \/ Recorded(u, votes[v][st])
      BY <2>2, <2>4 DEF MarksInv
    <3>2. ~(status'[v] \in ClearingStatuses /\ votes'[v] = NoVotes)
      <4>1. status'[v] \in ClearingStatuses => status[v] = "Updating"
        BY <1>8, <2>4 DEF ClearingStatuses, OpenStatuses
      <4>2. status[v] = "Updating" => ~Recorded(u, votes[v][st])
        BY <2>3, NobodyRecorded
      <4>3. status[v] = "Updating" =>
                votesPhase'[st][v][u] = votesPhase[st][v][u]
        BY <1>4 DEF Stages
      <4> QED
        BY <3>1, <4>1, <4>2, <4>3
    <3> QED
      BY <3>1, <3>2, MarkAndRecord
  <2> QED
    BY <1>5, <1>8, <2>1, <2>4 DEF MarksInv
<1> QED
  BY <1>2, <1>6, <1>7, <1>8 DEF PhaseStep

(* A stage has at least as many votes as users on record. *)
LEMMA ArrayHoldsAtMost ==
    ASSUME NEW array \in Seq(Users)
    PROVE  /\ IsFiniteSet(ToSet(array))
           /\ Cardinality(ToSet(array)) \in Nat
           /\ Cardinality(ToSet(array)) <= Len(array)
<1> DEFINE n == Len(array)
           T == ToSet(array)
<1>1. n \in Nat /\ array \in [1..n -> T] /\ \A x \in T : \E i \in 1..n : array[i] = x
  BY LenProperties DEF ToSet
<1> HIDE DEF n, T
<1>2. array \in Surjection(1..n, T)
  BY <1>1 DEF Surjection
<1>3. IsFiniteSet(1..n) /\ Cardinality(1..n) = n
  BY <1>1, FS_Interval
<1>4. IsFiniteSet(T) /\ Cardinality(T) <= n
  BY <1>2, <1>3, FS_Surjection
<1> QED
  BY <1>4, FS_CardinalityType DEF n, T

LEMMA VotersCounted ==
    ASSUME NEW arrays \in [Votes -> Seq(Users)], NEW S,
           \A u \in S : Recorded(u, arrays)
    PROVE  IsFiniteSet(S) /\ Cardinality(S) <= VotesCast(arrays)
<1> DEFINE A == ToSet(arrays["Accept"])
           R == ToSet(arrays["Reject"])
           M == ToSet(arrays["ModificationsNeeded"])
           a == Len(arrays["Accept"])
           r == Len(arrays["Reject"])
           m == Len(arrays["ModificationsNeeded"])
<1>1. /\ IsFiniteSet(A) /\ Cardinality(A) \in Nat /\ Cardinality(A) <= a
      /\ IsFiniteSet(R) /\ Cardinality(R) \in Nat /\ Cardinality(R) <= r
      /\ IsFiniteSet(M) /\ Cardinality(M) \in Nat /\ Cardinality(M) <= m
      /\ a \in Nat /\ r \in Nat /\ m \in Nat
  <2>1. \A k \in Votes : arrays[k] \in Seq(Users) /\ Len(arrays[k]) \in Nat
    BY LenProperties
  <2> QED
    BY <2>1, ArrayHoldsAtMost DEF Votes
<1>2. S \subseteq (A \cup R) \cup M
  BY DEF Recorded, Votes
<1>3. VotesCast(arrays) = a + r + m
  BY Zenon DEF VotesCast
<1> HIDE DEF A, R, M, a, r, m
<1>4. /\ IsFiniteSet(A \cup R) /\ Cardinality(A \cup R) \in Nat
      /\ Cardinality(A \cup R) <= a + r
  <2>1. /\ IsFiniteSet(A \cup R)
        /\ Cardinality(A \cup R) =
               Cardinality(A) + Cardinality(R) - Cardinality(A \cap R)
    BY <1>1, FS_Union
  <2>2. Cardinality(A \cap R) \in Nat /\ Cardinality(A \cup R) \in Nat
    BY <1>1, <2>1, FS_Subset, FS_CardinalityType
  <2> QED
    BY <1>1, <2>1, <2>2
<1> DEFINE B == A \cup R
<1>5. B = A \cup R
  OBVIOUS
<1> HIDE DEF B
<1>6. /\ IsFiniteSet(B \cup M) /\ Cardinality(B \cup M) \in Nat
      /\ Cardinality(B \cup M) <= a + r + m
  <2>1. /\ IsFiniteSet(B \cup M)
        /\ Cardinality(B \cup M) =
               Cardinality(B) + Cardinality(M) - Cardinality(B \cap M)
    BY <1>1, <1>4, <1>5, FS_Union
  <2>2. Cardinality(B \cap M) \in Nat /\ Cardinality(B \cup M) \in Nat
    BY <1>1, <2>1, FS_Subset, FS_CardinalityType
  <2> QED
    BY <1>1, <1>4, <1>5, <2>1, <2>2
<1>7. IsFiniteSet(S) /\ Cardinality(S) <= Cardinality(B \cup M)
  BY <1>2, <1>5, <1>6, FS_Subset
<1>8. Cardinality(S) \in Nat
  BY <1>7, FS_CardinalityType
<1> QED
  BY <1>1, <1>3, <1>6, <1>7, <1>8

(* With thresholds that stand and no override, no listing is stuck for want *)
(* of voters: with as many users of the rank as a verdict takes votes, one  *)
(* of them has not voted in this phase, however the ranks moved since the   *)
(* votes on record were cast.                                               *)
THEOREM VotesCanContinue ==
    ASSUME OwnerMoves = {}, ThresholdsStand, VerdictsNeedVotes
    PROVE  CallsSpec => []VoteCanContinue
<1>1. ListingsInit => FreshIsInit /\ MarksInv
  BY DEF ListingsInit, StatusArraysInit, FreshIsInit, MarksInv, OpenStatuses,
         EmptyListing
<1>2. ListingsInv /\ VerdictsInv /\ FreshIsInit /\ MarksInv
          /\ [CallsNext]_listingsVars
      => FreshIsInit' /\ MarksInv'
  BY FreshStays, MarksPreserved
<1>3. ListingsInv /\ VerdictsInv /\ MarksInv => VoteCanContinue
  <2> SUFFICES ASSUME ListingsInv, VerdictsInv, MarksInv, NEW v \in VoteIds,
                      status[v] \in Stages,
                      Cardinality({u \in Users : rank[u] >= RankNeeded(status[v])})
                      >= MaxVotes(status[v]),
                      \A u \in Users :
                          rank[u] >= RankNeeded(status[v]) =>
                          ~(votesPhase[status[v]][v][u] < tokenListings[v].phase)
               PROVE  FALSE
    BY Zenon DEF VoteCanContinue
  <2> DEFINE st == status[v]
             ranked == {u \in Users : rank[u] >= RankNeeded(st)}
             arrays == votes[v][st]
  <2>1. /\ arrays \in [Votes -> Seq(Users)] /\ tokenListings[v].phase \in Nat
        /\ votesPhase \in [Stages -> [VoteIds -> [Users -> Nat]]]
    BY DEF ListingsInv, OthersTyped, Sound, Typed, Listing
  <2>2. \A u \in ranked : Recorded(u, arrays)
    <3> SUFFICES ASSUME NEW u \in ranked PROVE Recorded(u, arrays)
      OBVIOUS
    <3>1. /\ votesPhase[st][v][u] <= tokenListings[v].phase
          /\ votesPhase[st][v][u] = tokenListings[v].phase => Recorded(u, arrays)
      BY DEF MarksInv, OpenStatuses, Stages
    <3>2. votesPhase[st][v][u] \in Nat
      BY <2>1
    <3> QED
      BY <2>1, <3>1, <3>2
  <2>3. Outcome(st, arrays) = "Undecided"
    BY DEF VerdictsInv, ArraysFit, Stages
  <2>4. VotesCast(arrays) < MaxVotes(st)
    BY <2>3, Zenon DEF Outcome
  <2>5. MaxVotes(st) \in Nat /\ VotesCast(arrays) \in Nat
    <3>1. MaxVotes(st) \in Nat
      BY DEF ListingsInv, OthersTyped, Parameters, MaxVotes
    <3>2. \A k \in Votes : Len(arrays[k]) \in Nat
      BY <2>1, LenProperties
    <3> HIDE DEF st, arrays
    <3>3. /\ Len(arrays["Accept"]) \in Nat /\ Len(arrays["Reject"]) \in Nat
          /\ Len(arrays["ModificationsNeeded"]) \in Nat
      BY <3>2 DEF Votes
    <3>4. VotesCast(arrays) \in Nat
      <4>1. \A a, b, c \in Nat : a + b + c \in Nat
        OBVIOUS
      <4> QED
        BY <3>3, <4>1, Zenon DEF VotesCast
    <3> QED
      BY <3>1, <3>4
  <2>6. Cardinality(ranked) >= MaxVotes(st)
    OBVIOUS
  <2> HIDE DEF st, ranked, arrays
  <2>7. IsFiniteSet(ranked) /\ Cardinality(ranked) <= VotesCast(arrays)
    BY <2>1, <2>2, VotersCounted
  <2>8. Cardinality(ranked) \in Nat
    BY <2>7, FS_CardinalityType
  <2> QED
    BY <2>4, <2>5, <2>6, <2>7, <2>8
<1> QED
  BY <1>1, <1>2, <1>3, InvAlways, VerdictsInvAlways, PTL DEF CallsSpec

-----------------------------------------------------------------------------
(* Coefficients.  A submission or a top-up buys a coefficient for some      *)
(* listing, and no other step changes what a listing is about, who          *)
(* submitted it or its coefficient.                                         *)

SameTerms(l, m) ==
    l.coeff = m.coeff /\ l.tokenId = m.tokenId /\ l.submitter = m.submitter

Buys(v, credit) ==
    /\ v < tokenListingsLength
    /\ tokenListings'[v].coeff = tokenListings[v].coeff + credit
    /\ tokenListings'[v].tokenId = tokenListings[v].tokenId
    /\ tokenListings'[v].submitter = tokenListings[v].submitter

Adds(v, credit) ==
    /\ v = tokenListingsLength
    /\ \E tokenId \in Nat :
           /\ tokenId # 0 => tokenId < nextTokenId
           /\ tokenListings'[v].tokenId =
                  IF tokenId # 0 THEN tokenId ELSE nextTokenId
           /\ tokenListings'[v].coeff =
                  credit
                  + (IF tokenListings'[v].submitter \in whitelistedSubmitter
                     THEN PAYMENT_COEFF ELSE 0)
                  + (IF tokenId # 0
                     THEN PAYMENT_COEFF * config["editCoeffMultiplier"] ELSE 0)

OtherTermsStand(v) ==
    \A w \in VoteIds \ {v} : SameTerms(tokenListings'[w], tokenListings[w])

TermsStep(credit) ==
    \/ /\ credit = 0
       /\ tokenListingsLength' = tokenListingsLength
       /\ \A w \in VoteIds : SameTerms(tokenListings'[w], tokenListings[w])
    \/ /\ tokenListingsLength' = tokenListingsLength
       /\ \E v \in VoteIds : Buys(v, credit) /\ OtherTermsStand(v)
    \/ /\ tokenListingsLength' = tokenListingsLength + 1
       /\ \E v \in VoteIds : Adds(v, credit) /\ OtherTermsStand(v)

LEMMA MoveKeepsTerms ==
    ASSUME NEW ls \in [VoteIds -> Listing], NEW vs,
           NEW v \in VoteIds, NEW s, UpdateListingStatus(ls, vs, v, s)
    PROVE  \A w \in VoteIds : SameTerms(tokenListings'[w], ls[w])
<1>1. CASE s \notin ClearingStatuses
  BY <1>1 DEF UpdateListingStatus, SameTerms
<1>2. CASE s \in ClearingStatuses
  <2> DEFINE l == ls[v]
             zeroed == [l EXCEPT !.accruedScore = 0]
             phase == IF s = "Updating" THEN l.phase + 1 ELSE l.phase
  <2>1. tokenListings' = [ls EXCEPT ![v] = Cleared(@, s)]
    BY <1>2 DEF UpdateListingStatus
  <2>2. Cleared(l, s) = [zeroed EXCEPT !.phase = phase]
    BY Zenon DEF Cleared
  <2>3. l \in Listing /\ zeroed \in Listing /\ SameTerms(zeroed, l)
    BY DEF Listing, SameTerms
  <2>4. SameTerms(Cleared(l, s), l)
    <3> HIDE DEF zeroed, phase, l
    <3> QED
      BY <2>2, <2>3 DEF Listing, SameTerms
  <2>5. /\ tokenListings'[v] = Cleared(l, s)
        /\ \A w \in VoteIds \ {v} : tokenListings'[w] = ls[w]
    BY <2>1
  <2> QED
    BY <2>4, <2>5 DEF SameTerms
<1> QED
  BY <1>1, <1>2

(* What a payment of a user buys: nothing for a whitelisted submitter, who  *)
(* need not pay.                                                            *)
Credit(user, amount) ==
    IF user \in whitelistedSubmitter \/ amount = 0 THEN 0 ELSE GetCoeff(amount)

LEMMA SubmitTerms ==
    ASSUME ListingsInv, NEW msgSender, NEW user \in Users,
           NEW amount \in Nat, NEW tokenId \in Nat,
           SubmitTokenFor(msgSender, user, amount, tokenId)
    PROVE  TermsStep(Credit(user, amount))
<1> DEFINE v == tokenListingsLength
           coeff == SubmissionCoeff(user, amount, tokenId)
           listing == [tokenId |-> IF tokenId # 0 THEN tokenId ELSE nextTokenId,
                       lastUpdate |-> now, score |-> 0, coeff |-> coeff,
                       submitter |-> user, accruedScore |-> 0, phase |-> 1]
           ls == [tokenListings EXCEPT ![v] = listing]
<1>1. /\ tokenListings \in [VoteIds -> Listing] /\ OthersTyped
      /\ nextTokenId \in Nat /\ now \in Nat
  BY DEF ListingsInv, Sound, Typed, OthersTyped
<1>2. /\ v \in VoteIds /\ tokenListingsLength' = v + 1
      /\ tokenId # 0 => tokenId < nextTokenId
  BY <1>1, MaxListingsAssumption DEF SubmitTokenFor, OthersTyped, VoteIds
<1>3. \E s : UpdateListingStatus(ls, votes, v, s)
  BY Zenon DEF SubmitTokenFor
<1>4. coeff \in Nat
  BY <1>1, SubmissionCoeffIsNat
<1>5. coeff = Credit(user, amount)
              + (IF user \in whitelistedSubmitter THEN PAYMENT_COEFF ELSE 0)
              + (IF tokenId # 0
                 THEN PAYMENT_COEFF * config["editCoeffMultiplier"] ELSE 0)
  <2>1. PAYMENT_COEFF * config["editCoeffMultiplier"] \in Nat
    BY <1>1 DEF OthersTyped, Parameters, PAYMENT_COEFF
  <2>2. user \notin whitelistedSubmitter /\ amount # 0 => GetCoeff(amount) \in Nat
    BY <1>1, PayTyped, CoeffIsNat DEF SubmitTokenFor
  <2> QED
    BY <2>1, <2>2 DEF SubmissionCoeff, Credit, PAYMENT_COEFF
<1>6. /\ listing \in Listing
      /\ listing.coeff = coeff /\ listing.submitter = user
      /\ listing.tokenId = IF tokenId # 0 THEN tokenId ELSE nextTokenId
  <2> HIDE DEF coeff
  <2> QED
    BY <1>1, <1>4 DEF Listing
<1> HIDE DEF listing, coeff
<1>7. /\ ls \in [VoteIds -> Listing] /\ ls[v] = listing
      /\ \A w \in VoteIds \ {v} : ls[w] = tokenListings[w]
  BY <1>1, <1>2, <1>6
<1> HIDE DEF ls
<1>8. \A w \in VoteIds : SameTerms(tokenListings'[w], ls[w])
  BY <1>2, <1>3, <1>7, MoveKeepsTerms
<1>9. Adds(v, Credit(user, amount)) /\ OtherTermsStand(v)
  BY <1>2, <1>5, <1>6, <1>7, <1>8, Zenon DEF Adds, OtherTermsStand, SameTerms
<1> QED
  BY <1>2, <1>9 DEF TermsStep

LEMMA TopUpTerms ==
    ASSUME ListingsInv, NEW msgSender, NEW user \in Users, NEW v \in VoteIds,
           NEW amount \in Nat, TopUpTokenFor(msgSender, user, v, amount)
    PROVE  TermsStep(GetCoeff(amount))
<1> DEFINE sum == tokenListings[v].coeff + GetCoeff(amount)
           listing == [tokenListings[v] EXCEPT !.coeff = sum]
           ls == [tokenListings EXCEPT ![v] = listing]
<1>1. tokenListings \in [VoteIds -> Listing] /\ OthersTyped
  BY DEF ListingsInv, Sound, Typed
<1>2. \/ UpdateListingStatus(ls, votes, v, "Sorting")
      \/ tokenListings' = ls
  BY Zenon DEF TopUpTokenFor
<1>3. sum \in Nat
  <2>1. Pay(msgSender, user, amount)
    BY Zenon DEF TopUpTokenFor
  <2>2. GetCoeff(amount) \in Nat
    BY <1>1, <2>1, PayTyped, CoeffIsNat
  <2> QED
    BY <1>1, <2>2 DEF Listing
<1>4. /\ listing \in Listing /\ listing.coeff = sum
      /\ listing.tokenId = tokenListings[v].tokenId
      /\ listing.submitter = tokenListings[v].submitter
  <2> HIDE DEF sum
  <2> QED
    BY <1>1, <1>3 DEF Listing
<1> HIDE DEF listing
<1>5. /\ ls \in [VoteIds -> Listing] /\ ls[v] = listing
      /\ \A w \in VoteIds \ {v} : ls[w] = tokenListings[w]
  BY <1>1, <1>4
<1> HIDE DEF ls
<1>6. \A w \in VoteIds : SameTerms(tokenListings'[w], ls[w])
  BY <1>2, <1>5, MoveKeepsTerms DEF SameTerms
<1>7. tokenListingsLength' = tokenListingsLength /\ v < tokenListingsLength
  BY Zenon DEF TopUpTokenFor
<1>8. Buys(v, GetCoeff(amount)) /\ OtherTermsStand(v)
  BY <1>4, <1>5, <1>6, <1>7, Zenon DEF Buys, OtherTermsStand, SameTerms
<1> QED
  BY <1>7, <1>8 DEF TermsStep

LEMMA CastKeepsTerms ==
    ASSUME ListingsInv, NEW v \in VoteIds, NEW vote, NEW score \in Nat
    PROVE  LET ls == ListingsWith(v, vote, score)
           IN  /\ ls \in [VoteIds -> Listing]
               /\ \A w \in VoteIds : SameTerms(ls[w], tokenListings[w])
<1> DEFINE sum == IF vote = "Accept" THEN tokenListings[v].accruedScore + score
                                     ELSE tokenListings[v].accruedScore
           accrued == [tokenListings[v] EXCEPT !.accruedScore = sum]
<1>1. ListingsWith(v, vote, score) = [tokenListings EXCEPT ![v] = accrued]
  BY Zenon DEF ListingsWith
<1>2. tokenListings \in [VoteIds -> Listing]
  BY DEF ListingsInv, Sound, Typed
<1>3. sum \in Nat
  BY <1>2 DEF Listing
<1>4. accrued \in Listing /\ SameTerms(accrued, tokenListings[v])
  <2> HIDE DEF sum
  <2> QED
    BY <1>2, <1>3 DEF Listing, SameTerms
<1> HIDE DEF accrued
<1> QED
  BY <1>1, <1>2, <1>4 DEF SameTerms

LEMMA SaveKeepsTerms ==
    ASSUME NEW ls \in [VoteIds -> Listing], NEW vs, NEW v \in VoteIds,
           ScoresCount(vs, v) \in Nat \ {0}
    PROVE  /\ TokenSaved(ls, vs, v) \in [VoteIds -> Listing]
           /\ \A w \in VoteIds : SameTerms(TokenSaved(ls, vs, v)[w], ls[w])
<1> DEFINE average == ls[v].accruedScore \div ScoresCount(vs, v)
           saved == [ls[v] EXCEPT !.score = average]
<1>1. TokenSaved(ls, vs, v) = [ls EXCEPT ![v] = saved]
  BY Zenon DEF TokenSaved
<1>2. average \in Nat
  BY Quotient DEF Listing
<1>3. saved \in Listing /\ SameTerms(saved, ls[v])
  <2> HIDE DEF average
  <2> QED
    BY <1>2 DEF Listing, SameTerms
<1> HIDE DEF saved
<1> QED
  BY <1>1, <1>3 DEF SameTerms

(* A step that moves a listing, its terms unchanged, or leaves listings.    *)
LEMMA MoveBuysNothing ==
    ASSUME UNCHANGED tokenListingsLength, NEW ls \in [VoteIds -> Listing],
           \A w \in VoteIds : SameTerms(ls[w], tokenListings[w]),
           NEW vs, NEW v \in VoteIds, NEW s,
           UpdateListingStatus(ls, vs, v, s) \/ tokenListings' = ls
    PROVE  TermsStep(0)
<1>1. \A w \in VoteIds : SameTerms(tokenListings'[w], ls[w])
  BY MoveKeepsTerms DEF SameTerms
<1>2. \A w \in VoteIds : SameTerms(tokenListings'[w], tokenListings[w])
  BY <1>1 DEF SameTerms
<1> QED
  BY <1>2 DEF TermsStep

LEMMA NothingBought ==
    ASSUME UNCHANGED <<tokenListings, tokenListingsLength>> PROVE TermsStep(0)
BY DEF TermsStep, SameTerms

LEMMA VoteKeepsTerms ==
    ASSUME ListingsInv, NEW user \in Users, NEW v \in VoteIds,
           NEW vote \in Votes, NEW score \in Nat,
           \/ VoteSorting(user, v, vote, score)
           \/ VoteValidation(user, v, vote, score)
    PROVE  TermsStep(0)
<1> DEFINE ls == ListingsWith(v, vote, score)
           vs == VotesWith(user, v, "Validation", vote)
<1>1. /\ ls \in [VoteIds -> Listing]
      /\ \A w \in VoteIds : SameTerms(ls[w], tokenListings[w])
  BY CastKeepsTerms
<1>2. UNCHANGED tokenListingsLength
  BY Zenon DEF VoteSorting, VoteValidation, submitVars
<1>3. \/ \E ws, s : UpdateListingStatus(ls, ws, v, s) \/ tokenListings' = ls
      \/ /\ ScoresCount(vs, v) # 0
         /\ UpdateListingStatus(TokenSaved(ls, vs, v), vs, v, "Validated")
  BY Zenon DEF VoteSorting, VoteValidation, SaveToken
<1>4. ScoresCount(vs, v) \in Nat
  <2>0. /\ votes \in [VoteIds -> [Stages -> [Votes -> Seq(Users)]]]
        /\ "Validation" \in Stages
    BY DEF ListingsInv, Sound, Typed, Stages
  <2>1. vs \in [VoteIds -> [Stages -> [Votes -> Seq(Users)]]]
    BY <2>0 DEF VotesWith
  <2> HIDE DEF vs
  <2>2. /\ Len(vs[v]["Sorting"]["Accept"]) \in Nat
        /\ Len(vs[v]["Validation"]["Accept"]) \in Nat
    BY <2>1, LenProperties DEF Stages, Votes
  <2>3. \A a, b \in Nat : a + b \in Nat
    OBVIOUS
  <2> QED
    BY <2>2, <2>3, Zenon DEF ScoresCount
<1> HIDE DEF ls, vs
<1>5. ASSUME ScoresCount(vs, v) # 0,
             UpdateListingStatus(TokenSaved(ls, vs, v), vs, v, "Validated")
      PROVE  TermsStep(0)
  <2> DEFINE saved == TokenSaved(ls, vs, v)
  <2>1. /\ saved \in [VoteIds -> Listing]
        /\ \A w \in VoteIds : SameTerms(saved[w], ls[w])
    BY <1>1, <1>4, <1>5, SaveKeepsTerms
  <2>2. UpdateListingStatus(saved, vs, v, "Validated")
    BY <1>5
  <2> HIDE DEF saved
  <2>3. \A w \in VoteIds : SameTerms(saved[w], tokenListings[w])
    BY <1>1, <2>1 DEF SameTerms
  <2> QED
    BY <1>2, <2>1, <2>2, <2>3, MoveBuysNothing
<1> QED
  BY <1>1, <1>2, <1>3, <1>5, MoveBuysNothing

LEMMA UpdateBuysNothing ==
    ASSUME ListingsInv, NEW user, NEW v \in VoteIds, UpdateTokenFor(user, v)
    PROVE  TermsStep(0) /\ UNCHANGED stable
<1> DEFINE listing == [tokenListings[v] EXCEPT !.lastUpdate = now]
           ls == [tokenListings EXCEPT ![v] = listing]
<1>1. /\ UpdateListingStatus(ls, votes, v, "Sorting")
      /\ UNCHANGED <<tokenListingsLength, stable>>
  BY Zenon DEF UpdateTokenFor, submitVars
<1>2. tokenListings \in [VoteIds -> Listing] /\ now \in Nat
  BY DEF ListingsInv, Sound, Typed, OthersTyped
<1>3. listing \in Listing /\ SameTerms(listing, tokenListings[v])
  BY <1>2 DEF Listing, SameTerms
<1> HIDE DEF listing
<1>4. /\ ls \in [VoteIds -> Listing]
      /\ \A w \in VoteIds : SameTerms(ls[w], tokenListings[w])
  BY <1>2, <1>3 DEF SameTerms
<1> HIDE DEF ls
<1> QED
  BY <1>1, <1>4, MoveBuysNothing

(* Stablecoins the protocol collected, withdrawn or not, and the coefficient*)
(* an amount buys.                                                          *)
Funds == stable[Protocol] + stable[Treasury]
Price(amount) == IF amount = 0 THEN 0 ELSE GetCoeff(amount)

LEMMA PaymentsAreFunds ==
    ASSUME OthersTyped, NEW user \in Users, NEW amount \in Nat,
           Pay(user, user, amount)
    PROVE  Funds' = Funds + amount /\ config["submitFloorPrice"] # 0
<1>1. /\ stable \in [Accounts -> Nat]
      /\ Protocol \in Accounts /\ Treasury \in Accounts /\ user \in Accounts
      /\ Protocol # Treasury /\ user # Protocol /\ user # Treasury
  BY ListingsAssumption DEF OthersTyped, Accounts
<1>2. /\ stable' = Transfer(stable, user, Protocol, amount)
      /\ config["submitFloorPrice"] # 0
  BY DEF Pay
<1>3. /\ stable'[Protocol] = stable[Protocol] + amount
      /\ stable'[Treasury] = stable[Treasury]
  BY <1>1, <1>2 DEF Transfer
<1> QED
  BY <1>1, <1>2, <1>3 DEF Funds

LEMMA StepBuys ==
    ASSUME ListingsInv, [ListingsNext]_listingsVars
    PROVE  \E amount \in PaymentAmounts \cup {0} :
               /\ TermsStep(Price(amount))
               /\ Funds' = Funds + amount
               /\ amount # 0 => config["submitFloorPrice"] # 0
<1>0. /\ OthersTyped /\ stable \in [Accounts -> Nat]
      /\ Protocol \in Accounts /\ Treasury \in Accounts /\ Protocol # Treasury
      /\ Funds \in Nat /\ Funds + 0 = Funds
      /\ PaymentAmounts \subseteq Nat /\ tokenListings \in [VoteIds -> Listing]
  BY ListingsAssumption
     DEF ListingsInv, OthersTyped, Accounts, Funds, Sound, Typed
<1> DEFINE Goal == \E amount \in PaymentAmounts \cup {0} :
                       /\ TermsStep(Price(amount))
                       /\ Funds' = Funds + amount
                       /\ amount # 0 => config["submitFloorPrice"] # 0
<1>1. ASSUME TermsStep(0), Funds' = Funds PROVE Goal
  BY <1>0, <1>1 DEF Price
<1>2. ASSUME NEW amount \in PaymentAmounts, TermsStep(Price(amount)),
             Funds' = Funds + amount, config["submitFloorPrice"] # 0
      PROVE  Goal
  BY <1>2
<1>3. UNCHANGED stable => Funds' = Funds
  BY DEF Funds
<1>4. \A w \in VoteIds : SameTerms(tokenListings[w], tokenListings[w])
  BY DEF SameTerms
<1> SUFFICES Goal
  OBVIOUS
<1> HIDE DEF Goal
<1>5. CASE SubmitterStep
  <2> PICK user \in Users :
          \/ \E amount \in PaymentAmounts, tokenId \in 0..nextTokenId :
                 SubmitToken(user, amount, tokenId)
          \/ \E v \in VoteIds, amount \in PaymentAmounts :
                 TopUpToken(user, v, amount)
          \/ \E v \in VoteIds : UpdateToken(user, v)
          \/ ClaimRewards(user)
    BY <1>5 DEF SubmitterStep
  <2>1. ASSUME NEW amount \in PaymentAmounts, NEW tokenId \in 0..nextTokenId,
               SubmitToken(user, amount, tokenId)
        PROVE  Goal
    <3>1. amount \in Nat /\ tokenId \in Nat
      BY <1>0
    <3>2. SubmitTokenFor(user, user, amount, tokenId)
      BY <2>1 DEF SubmitToken
    <3>3. TermsStep(Credit(user, amount))
      BY <3>1, <3>2, SubmitTerms
    <3>4. IF user \in whitelistedSubmitter \/ amount = 0
          THEN UNCHANGED stable ELSE Pay(user, user, amount)
      BY <3>2, Zenon DEF SubmitTokenFor
    <3>5. CASE user \in whitelistedSubmitter \/ amount = 0
      BY <1>1, <1>3, <3>3, <3>4, <3>5 DEF Credit
    <3>6. CASE ~(user \in whitelistedSubmitter \/ amount = 0)
      <4>1. Funds' = Funds + amount /\ config["submitFloorPrice"] # 0
        BY <1>0, <3>1, <3>4, <3>6, PaymentsAreFunds
      <4> QED
        BY <1>2, <3>3, <3>6, <4>1, Zenon DEF Credit, Price
    <3> QED
      BY <3>5, <3>6
  <2>2. ASSUME NEW v \in VoteIds, NEW amount \in PaymentAmounts,
               TopUpToken(user, v, amount)
        PROVE  Goal
    <3>1. amount \in Nat
      BY <1>0
    <3>2. TopUpTokenFor(user, user, v, amount)
      BY <2>2 DEF TopUpToken
    <3>3. amount # 0 /\ Pay(user, user, amount)
      BY <3>2, Zenon DEF TopUpTokenFor
    <3>4. TermsStep(GetCoeff(amount))
      BY <3>1, <3>2, TopUpTerms
    <3>5. Funds' = Funds + amount /\ config["submitFloorPrice"] # 0
      BY <1>0, <3>1, <3>3, PaymentsAreFunds
    <3> QED
      BY <1>2, <3>3, <3>4, <3>5, Zenon DEF Price
  <2>3. ASSUME NEW v \in VoteIds, UpdateToken(user, v) PROVE Goal
    BY <1>1, <1>3, <2>3, UpdateBuysNothing DEF UpdateToken
  <2>4. CASE ClaimRewards(user)
    BY <1>1, <1>3, <2>4, NothingBought DEF ClaimRewards, listingVars, submitVars
  <2> QED
    BY <2>1, <2>2, <2>3, <2>4
<1>6. CASE VoterStep
  <2> PICK user \in Users, v \in VoteIds, vote \in Votes,
           score \in Scores \cup {0} :
          \/ VoteSorting(user, v, vote, score)
          \/ VoteValidation(user, v, vote, score)
    BY <1>6 DEF VoterStep
  <2>1. score \in Nat
    BY ListingsAssumption
  <2>2. TermsStep(0)
    BY <2>1, VoteKeepsTerms
  <2>3. UNCHANGED stable
    BY Zenon DEF VoteSorting, VoteValidation, submitVars
  <2> QED
    BY <1>1, <1>3, <2>2, <2>3
<1>7. CASE OwnerStep
  <2>1. ASSUME NEW v \in VoteIds, NEW s, EmergencyUpdateListingStatus(v, s)
        PROVE  Goal
    <3>1. /\ UpdateListingStatus(tokenListings, votes, v, s)
          /\ UNCHANGED <<tokenListingsLength, stable>>
      BY <2>1 DEF EmergencyUpdateListingStatus, submitVars
    <3>2. TermsStep(0)
      BY <1>0, <1>4, <3>1, MoveBuysNothing
    <3> QED
      BY <1>1, <1>3, <3>1, <3>2
  <2>2. ASSUME NEW p, NEW x, UpdateParameter(p, x) PROVE Goal
    BY <1>1, <1>3, <2>2, NothingBought
       DEF UpdateParameter, listingVars, submitVars
  <2>3. ASSUME NEW user, NEW b, WhitelistSubmitter(user, b) PROVE Goal
    BY <1>1, <1>3, <2>3, NothingBought
       DEF WhitelistSubmitter, listingVars, submitVars
  <2>4. ASSUME NEW amount \in WithdrawAmounts, WithdrawERC20Funds(amount)
        PROVE  Goal
    <3>1. amount \in Nat
      BY ListingsAssumption
    <3>2. Funds' = Funds
      <4>1. CASE UNCHANGED stable
        BY <1>3, <4>1
      <4>2. CASE stable' = Transfer(stable, Protocol, Treasury, amount)
        <5>1. /\ stable'[Protocol] = stable[Protocol] - amount
              /\ stable'[Treasury] = stable[Treasury] + amount
          BY <1>0, <4>2 DEF Transfer
        <5> QED
          BY <1>0, <3>1, <5>1 DEF Funds
      <4> QED
        BY <2>4, <4>1, <4>2 DEF WithdrawERC20Funds
    <3> QED
      BY <1>1, <2>4, <3>2, NothingBought DEF WithdrawERC20Funds, listingVars
  <2> QED
    BY <1>7, <2>1, <2>2, <2>3, <2>4 DEF OwnerStep, EmergencyKillRequest
<1>8. CASE OutsideStep
  BY <1>1, <1>3, <1>8, NothingBought
     DEF OutsideStep, Tick, RankChange, listingVars, submitVars
<1>9. CASE UNCHANGED listingsVars
  BY <1>1, <1>3, <1>9, NothingBought DEF listingsVars, listingVars, submitVars
<1> QED
  BY <1>5, <1>6, <1>7, <1>8, <1>9 DEF ListingsNext


(* What was bought of a coefficient, and of all of them. *)
BoughtOf(v) == tokenListings[v].coeff - Granted(v)
Bought == SumFunctionOnSet([v \in Submitted |-> BoughtOf(v)], Submitted)

LEMMA GrantIsInt ==
    ASSUME ListingsInv, NEW v PROVE Granted(v) \in Int
<1> DEFINE edits == \E w \in Submitted :
               w < v /\ tokenListings[w].tokenId = tokenListings[v].tokenId
           free == tokenListings[v].submitter \in whitelistedSubmitter
<1>1. config["editCoeffMultiplier"] \in Nat
  BY DEF ListingsInv, OthersTyped, Parameters
<1> HIDE DEF edits, free
<1>2. PAYMENT_COEFF * ((IF free THEN 1 ELSE 0)
          + (IF edits THEN config["editCoeffMultiplier"] ELSE 0)) \in Int
  BY <1>1 DEF PAYMENT_COEFF
<1> QED
  BY <1>2, Zenon DEF Granted, edits, free

LEMMA BoughtIsInt ==
    ASSUME ListingsInv
    PROVE  /\ \A v \in Submitted : BoughtOf(v) \in Int
           /\ IsFiniteSet(Submitted) /\ Submitted \subseteq VoteIds
           /\ Bought \in Int
<1>1. /\ tokenListingsLength \in Nat /\ Submitted \subseteq VoteIds
      /\ IsFiniteSet(Submitted)
  BY MaxListingsAssumption, FS_Interval
     DEF ListingsInv, OthersTyped, Submitted, VoteIds
<1>3. \A v \in Submitted : BoughtOf(v) \in Int
  <2> SUFFICES ASSUME NEW v \in Submitted PROVE BoughtOf(v) \in Int
    OBVIOUS
  <2>1. tokenListings[v].coeff \in Nat
    BY <1>1 DEF ListingsInv, Sound, Typed, Listing
  <2>2. Granted(v) \in Int
    BY GrantIsInt
  <2> QED
    BY <2>1, <2>2 DEF BoughtOf
<1> DEFINE f == [v \in Submitted |-> BoughtOf(v)]
<1>4. \A v \in Submitted : f[v] \in Int
  BY <1>3
<1> HIDE DEF f
<1>5. SumFunctionOnSet(f, Submitted) \in Int
  BY <1>1, <1>4, SumInt
<1> QED
  BY <1>1, <1>3, <1>5 DEF Bought, f

(* What is granted for a listing does not change with later submissions.    *)
LEMMA GrantsStand ==
    ASSUME ListingsInv, UNCHANGED whitelistedSubmitter,
           config'["editCoeffMultiplier"] = config["editCoeffMultiplier"],
           \/ tokenListingsLength' = tokenListingsLength
           \/ tokenListingsLength' = tokenListingsLength + 1,
           NEW v \in Submitted,
           \A w \in Submitted :
               /\ tokenListings'[w].tokenId = tokenListings[w].tokenId
               /\ tokenListings'[w].submitter = tokenListings[w].submitter
    PROVE  Granted(v)' = Granted(v)
<1>1. tokenListingsLength \in Nat
  BY MaxListingsAssumption DEF ListingsInv, OthersTyped
<1>2. \A w : w \in Submitted' /\ w < v <=> w \in Submitted /\ w < v
  BY <1>1 DEF Submitted
<1>3. (\E w \in Submitted' :
           w < v /\ tokenListings'[w].tokenId = tokenListings'[v].tokenId)
      <=> (\E w \in Submitted :
               w < v /\ tokenListings[w].tokenId = tokenListings[v].tokenId)
  BY <1>2
<1>4. tokenListings'[v].submitter = tokenListings[v].submitter
  OBVIOUS
<1> QED
  BY <1>3, <1>4, Zenon DEF Granted

(* What a step buys is what it adds to all that was bought: the grant of a  *)
(* submission is for a whitelisted submitter and for an edit, of a token    *)
(* that an earlier listing introduced.                                      *)
LEMMA BoughtGrows ==
    ASSUME ListingsInv, ListingsInv', TokenIdsAreDense,
           UNCHANGED whitelistedSubmitter,
           config'["editCoeffMultiplier"] = config["editCoeffMultiplier"],
           NEW credit \in Nat, TermsStep(credit)
    PROVE  Bought' = Bought + credit
<1> DEFINE f == [w \in Submitted |-> BoughtOf(w)]
           g == [w \in Submitted' |-> BoughtOf(w)']
<1>1. /\ \A w \in Submitted : BoughtOf(w) \in Int
      /\ IsFiniteSet(Submitted) /\ Submitted \subseteq VoteIds
      /\ Bought \in Int /\ Bought + 0 = Bought
      /\ tokenListingsLength \in Nat /\ nextTokenId \in Nat
  BY BoughtIsInt, MaxListingsAssumption
     DEF ListingsInv, OthersTyped
<1>2. /\ \A w \in Submitted : f[w] = BoughtOf(w)
      /\ \A w \in Submitted' : g[w] = BoughtOf(w)'
      /\ Bought = SumFunctionOnSet(f, Submitted)
      /\ Bought' = SumFunctionOnSet(g, Submitted')
  BY DEF Bought
<1> HIDE DEF f, g
<1>3. CASE /\ credit = 0
           /\ tokenListingsLength' = tokenListingsLength
           /\ \A w \in VoteIds : SameTerms(tokenListings'[w], tokenListings[w])
  <2>1. Submitted' = Submitted
    BY <1>3 DEF Submitted
  <2>2. \A w \in Submitted : BoughtOf(w)' = BoughtOf(w)
    BY <1>1, <1>3, GrantsStand DEF SameTerms, BoughtOf
  <2>3. \A w \in Submitted : f[w] = g[w]
    BY <1>2, <2>1, <2>2
  <2>4. SumFunctionOnSet(f, Submitted) = SumFunctionOnSet(g, Submitted)
    BY <1>1, <2>3, SumSame
  <2> QED
    BY <1>1, <1>2, <1>3, <2>1, <2>4
<1>4. ASSUME NEW v \in VoteIds, Buys(v, credit), OtherTermsStand(v),
             tokenListingsLength' = tokenListingsLength
      PROVE  Bought' = Bought + credit
  <2>1. Submitted' = Submitted /\ v \in Submitted
    BY <1>1, <1>4 DEF Submitted, Buys, VoteIds
  <2>2. \A w \in Submitted : Granted(w)' = Granted(w)
    BY <1>1, <1>4, <2>1, GrantsStand DEF SameTerms, Buys, OtherTermsStand
  <2>3. /\ \A w \in Submitted \ {v} : BoughtOf(w)' = BoughtOf(w)
        /\ BoughtOf(v)' = (tokenListings[v].coeff + credit) - Granted(v)
    BY <1>1, <1>4, <2>1, <2>2 DEF SameTerms, Buys, OtherTermsStand, BoughtOf
  <2>4. BoughtOf(v)' = BoughtOf(v) + credit
    <3>1. tokenListings[v].coeff \in Nat /\ BoughtOf(v) \in Int
      BY <1>1, <1>4, <2>1 DEF ListingsInv, Sound, Typed, Listing
    <3> QED
      BY <2>3, <3>1, GrantIsInt DEF BoughtOf
  <2>5. /\ \A w \in Submitted : f[w] \in Int /\ g[w] \in Int
        /\ \A w \in Submitted \ {v} : g[w] = f[w]
        /\ g[v] = f[v] + credit
    BY <1>1, <1>2, <2>1, <2>3, <2>4
  <2>6. SumFunctionOnSet(g, Submitted)
        = SumFunctionOnSet(f, Submitted) + g[v] - f[v]
    BY <1>1, <1>4, <2>1, <2>5, SumChanged
  <2>7. f[v] \in Int /\ SumFunctionOnSet(f, Submitted) \in Int
    BY <1>1, <1>2, <2>1
  <2> QED
    BY <1>2, <2>1, <2>5, <2>6, <2>7
<1>5. ASSUME NEW v \in VoteIds, Adds(v, credit), OtherTermsStand(v),
             tokenListingsLength' = tokenListingsLength + 1
      PROVE  Bought' = Bought + credit
  <2>1. /\ v = tokenListingsLength /\ v \notin Submitted
        /\ Submitted' = Submitted \cup {v}
    BY <1>1, <1>5 DEF Adds, Submitted
  <2>2. \A w \in Submitted : SameTerms(tokenListings'[w], tokenListings[w])
    BY <1>1, <1>5, <2>1 DEF OtherTermsStand
  <2>3. \A w \in Submitted : BoughtOf(w)' = BoughtOf(w)
    BY <1>1, <1>5, <2>2, GrantsStand DEF SameTerms, BoughtOf
  <2>4. BoughtOf(v)' = credit
    <3>1. PICK tokenId \in Nat :
               /\ tokenId # 0 => tokenId < nextTokenId
               /\ tokenListings'[v].tokenId =
                      IF tokenId # 0 THEN tokenId ELSE nextTokenId
               /\ tokenListings'[v].coeff =
                      credit
                      + (IF tokenListings'[v].submitter \in whitelistedSubmitter
                         THEN PAYMENT_COEFF ELSE 0)
                      + (IF tokenId # 0
                         THEN PAYMENT_COEFF * config["editCoeffMultiplier"]
                         ELSE 0)
      BY <1>5 DEF Adds
    <3> DEFINE edits == \E w \in Submitted' :
                   w < v /\ tokenListings'[w].tokenId = tokenListings'[v].tokenId
               free == tokenListings'[v].submitter \in whitelistedSubmitter
               factor == config["editCoeffMultiplier"]
    <3>2. edits <=> tokenId # 0
      <4>1. \A w \in Submitted' : w < v <=> w \in Submitted
        BY <1>1, <2>1 DEF Submitted
      <4>2. edits <=> tokenListings'[v].tokenId
                      \in {tokenListings[w].tokenId : w \in Submitted}
        BY <2>1, <2>2, <4>1 DEF SameTerms
      <4>3. edits <=> tokenListings'[v].tokenId \in 0..(nextTokenId - 1)
        BY <4>2, Zenon DEF TokenIdsAreDense
      <4> HIDE DEF edits
      <4> QED
        BY <1>1, <3>1, <4>3
    <3>3. Granted(v)' = PAYMENT_COEFF * ((IF free THEN 1 ELSE 0)
                                         + (IF edits THEN factor ELSE 0))
      BY Zenon DEF Granted
    <3>4. factor \in Nat
      BY DEF ListingsInv, OthersTyped, Parameters
    <3>5. tokenListings'[v].coeff = credit + (IF free THEN PAYMENT_COEFF ELSE 0)
              + (IF tokenId # 0 THEN PAYMENT_COEFF * factor ELSE 0)
      BY <3>1
    <3> HIDE DEF edits, free, factor
    <3>6. tokenListings'[v].coeff - Granted(v)' = credit
      BY <3>2, <3>3, <3>4, <3>5 DEF PAYMENT_COEFF
    <3> QED
      BY <3>6 DEF BoughtOf
  <2>5. /\ \A w \in Submitted : f[w] = g[w]
        /\ \A w \in Submitted \cup {v} : g[w] \in Int
        /\ g[v] = credit
    BY <1>1, <1>2, <2>1, <2>3, <2>4
  <2>6. SumFunctionOnSet(f, Submitted) = SumFunctionOnSet(g, Submitted)
    BY <1>1, <2>5, SumSame
  <2>7. SumFunctionOnSet(g, Submitted \cup {v})
        = SumFunctionOnSet(g, Submitted) + g[v]
    BY <1>1, <2>1, <2>5, SumWith
  <2> QED
    BY <1>2, <2>1, <2>5, <2>6, <2>7
<1> QED
  BY <1>3, <1>4, <1>5 DEF TermsStep


LEMMA WhitelistStands ==
    ASSUME WhitelistChanges = {}, [CallsNext]_listingsVars
    PROVE  UNCHANGED whitelistedSubmitter
<1>1. CASE CallStep
  BY <1>1, CallsKeep
<1>6. CASE ClaimStep
  BY <1>6 DEF ClaimStep, ClaimRewards, ownerVars
<1>2. CASE VoterStep
  BY <1>2 DEF VoterStep, VoteSorting, VoteValidation, ownerVars
<1>3. CASE OwnerStep
  BY <1>3 DEF OwnerStep, EmergencyUpdateListingStatus, EmergencyKillRequest,
              UpdateParameter, WithdrawERC20Funds, ownerVars
<1>4. CASE OutsideStep
  BY <1>4 DEF OutsideStep, Tick, RankChange, ownerVars
<1>5. CASE UNCHANGED listingsVars
  BY <1>5 DEF listingsVars, ownerVars
<1> QED
  BY <1>1, <1>2, <1>3, <1>4, <1>5, <1>6, CallCases

(* The division for a coefficient rounds in favour of the protocol.         *)
LEMMA PriceRoundsDown ==
    ASSUME ListingsInv, NEW amount \in Nat,
           amount # 0 => config["submitFloorPrice"] # 0
    PROVE  /\ Price(amount) \in Nat
           /\ config["submitFloorPrice"] * Price(amount) <= PAYMENT_COEFF * amount
<1> DEFINE floor == config["submitFloorPrice"]
<1>1. floor \in Nat
  BY DEF ListingsInv, OthersTyped, Parameters
<1>2. CASE amount = 0
  <2>1. Price(amount) = 0 /\ floor * 0 = 0 /\ PAYMENT_COEFF * amount = 0
    BY <1>1, <1>2 DEF Price, PAYMENT_COEFF
  <2> HIDE DEF floor
  <2>2. floor * Price(amount) = 0
    BY <2>1
  <2> QED
    BY <2>1, <2>2 DEF floor
<1>3. CASE amount # 0
  <2> DEFINE n == amount * PAYMENT_COEFF
  <2>1. /\ n \in Nat /\ n = PAYMENT_COEFF * amount
        /\ Price(amount) = n \div floor
    BY <1>3 DEF PAYMENT_COEFF, Price, GetCoeff
  <2>2. floor # 0
    BY <1>3
  <2> HIDE DEF n, floor
  <2>3. n \div floor \in Nat /\ floor * (n \div floor) <= n
    BY <1>1, <2>1, <2>2
  <2>4. floor * Price(amount) <= PAYMENT_COEFF * amount
    BY <2>1, <2>3
  <2> QED
    BY <2>1, <2>3, <2>4 DEF floor
<1> QED
  BY <1>2, <1>3

(* At a floor price and an edit factor that stand, with a whitelist that    *)
(* stands, no coefficient is without money: what was granted apart, the     *)
(* stablecoins collected cover the coefficients of all listings, withdrawn  *)
(* or not.                                                                  *)
THEOREM CoeffsStayPaidFor ==
    ASSUME Settings["submitFloorPrice"] = {},
           Settings["editCoeffMultiplier"] = {}, WhitelistChanges = {}
    PROVE  ListingsSpec => []CoeffsArePaidFor
<1>1. CoeffsArePaidFor <=>
          config["submitFloorPrice"] * Bought <= PAYMENT_COEFF * Funds
  BY Zenon DEF CoeffsArePaidFor, Bought, BoughtOf, SumFunction, Funds
<1>2. ListingsInit => CoeffsArePaidFor
  <2> SUFFICES ASSUME ListingsInit
               PROVE  config["submitFloorPrice"] * Bought
                      <= PAYMENT_COEFF * Funds
    BY <1>1
  <2>1. Submitted = {}
    BY DEF ListingsInit, Submitted
  <2>2. Bought = 0
    BY <2>1, SumEmpty DEF Bought
  <2>3. config["submitFloorPrice"] \in Nat /\ Funds = 0
    BY ListingsAssumption DEF ListingsInit, Parameters, Funds, Accounts
  <2> QED
    BY <2>2, <2>3 DEF PAYMENT_COEFF
<1>3. ListingsInv /\ TokenIdsAreDense /\ CoeffsArePaidFor
          /\ [ListingsNext]_listingsVars
      => CoeffsArePaidFor'
  <2> SUFFICES ASSUME ListingsInv, TokenIdsAreDense, CoeffsArePaidFor,
                      [ListingsNext]_listingsVars
               PROVE  CoeffsArePaidFor'
    OBVIOUS
  <2>1. CoeffsArePaidFor' <=>
            config'["submitFloorPrice"] * Bought' <= PAYMENT_COEFF * Funds'
    BY Zenon DEF CoeffsArePaidFor, Bought, BoughtOf, SumFunction, Funds
  <2>2. /\ config'["submitFloorPrice"] = config["submitFloorPrice"]
        /\ config'["editCoeffMultiplier"] = config["editCoeffMultiplier"]
        /\ UNCHANGED whitelistedSubmitter /\ ListingsInv'
    BY SettingStands, WhitelistStands, StepPreserves DEF Parameters, CallsNext
  <2>3. PICK amount \in PaymentAmounts \cup {0} :
               /\ TermsStep(Price(amount))
               /\ Funds' = Funds + amount
               /\ amount # 0 => config["submitFloorPrice"] # 0
    BY StepBuys
  <2> DEFINE floor == config["submitFloorPrice"]
             credit == Price(amount)
  <2>4. /\ amount \in Nat /\ floor \in Nat /\ Bought \in Int /\ Funds \in Int
    BY ListingsAssumption, BoughtIsInt
       DEF ListingsInv, OthersTyped, Parameters, Funds, Accounts
  <2>5. credit \in Nat /\ floor * credit <= PAYMENT_COEFF * amount
    BY <2>3, <2>4, PriceRoundsDown
  <2>6. Bought' = Bought + credit
    BY <2>2, <2>3, <2>5, BoughtGrows
  <2>7. floor * Bought <= PAYMENT_COEFF * Funds
    BY <1>1
  <2> HIDE DEF floor, credit
  <2>8. floor * (Bought + credit) = floor * Bought + floor * credit
    BY <2>4, <2>5
  <2>9. floor * Bought \in Int /\ floor * credit \in Int
    BY <2>4, <2>5
  <2>10. floor * Bought + floor * credit <= PAYMENT_COEFF * (Funds + amount)
    <3> DEFINE a == floor * Bought
               b == floor * credit
    <3> HIDE DEF a, b
    <3>1. a \in Int /\ b \in Int
          /\ a <= PAYMENT_COEFF * Funds /\ b <= PAYMENT_COEFF * amount
      BY <2>5, <2>7, <2>9 DEF a, b
    <3>2. a + b <= PAYMENT_COEFF * (Funds + amount)
      BY <2>4, <3>1 DEF PAYMENT_COEFF
    <3> QED
      BY <3>2 DEF a, b
  <2>11. floor * Bought' <= PAYMENT_COEFF * Funds'
    BY <2>3, <2>6, <2>8, <2>10, Zenon
  <2> QED
    BY <2>1, <2>2, <2>11 DEF floor
<1> QED
  BY <1>2, <1>3, InvAlways, TokenIdsStayDense, LocalCallsAreCalls,
     PTL DEF ListingsSpec

-----------------------------------------------------------------------------
(* The ballots of ListingBallots.  Arrays in which nobody is found twice    *)
(* say as much as a ballot does: who cast which vote, and how many did.     *)

(* The ballots and coefficients that votes vs and listings ls stand for. *)
BallotsOf(vs) == [v \in VoteIds |-> [st \in Stages |-> BallotOf(vs[v][st])]]
CoeffsOf(ls) == [v \in VoteIds |-> ls[v].coeff]

(* Arrays of a stage in which no voter is found twice. *)
OnceEach(array) ==
    \A i, j \in DOMAIN array : array[i] = array[j] => i = j
Apart(arrays) ==
    /\ \A k \in Votes : OnceEach(arrays[k])
    /\ \A k, l \in Votes : \A u \in ToSet(arrays[k]) \cap ToSet(arrays[l]) : k = l

LEMMA ArraysApart ==
    ASSUME NEW vs \in [VoteIds -> [Stages -> [Votes -> Seq(Users)]]],
           Distinct(vs), NEW v \in VoteIds, NEW st \in Stages
    PROVE  Apart(vs[v][st]) /\ vs[v][st] \in [Votes -> Seq(Users)]
<1>1. \A k, l \in Votes :
          \A i \in DOMAIN vs[v][st][k], j \in DOMAIN vs[v][st][l] :
              vs[v][st][k][i] = vs[v][st][l][j] => k = l /\ i = j
  BY DEF Distinct
<1>2. \A k \in Votes : OnceEach(vs[v][st][k])
  BY <1>1 DEF OnceEach
<1>3. ASSUME NEW k \in Votes, NEW l \in Votes,
             NEW u \in ToSet(vs[v][st][k]) \cap ToSet(vs[v][st][l])
      PROVE  k = l
  <2>1. PICK i \in DOMAIN vs[v][st][k] : vs[v][st][k][i] = u
    BY <1>3 DEF ToSet
  <2>2. PICK j \in DOMAIN vs[v][st][l] : vs[v][st][l][j] = u
    BY <1>3 DEF ToSet
  <2> QED
    BY <1>1, <2>1, <2>2
<1>4. Apart(vs[v][st])
  BY <1>2, <1>3, Zenon DEF Apart
<1>5. vs[v][st] \in [Votes -> Seq(Users)]
  OBVIOUS
<1> QED
  BY <1>4, <1>5

(* A ballot says of each user what the arrays hold. *)
LEMMA BallotReads ==
    ASSUME NEW arrays, Apart(arrays), NEW u \in Users
    PROVE  /\ \A k \in Votes :
                  BallotOf(arrays)[u] = k <=> u \in ToSet(arrays[k])
           /\ BallotOf(arrays)[u] = "None" <=> ~Recorded(u, arrays)
           /\ ~Recorded(u, arrays) <=> \A k \in Votes : u \notin ToSet(arrays[k])
<1>1. BallotOf(arrays)[u] =
          IF \E k \in Votes : u \in ToSet(arrays[k])
          THEN CHOOSE k \in Votes : u \in ToSet(arrays[k])
          ELSE "None"
  BY Zenon DEF BallotOf
<1>2. "None" \notin Votes
  BY DEF Votes
<1>3. CASE \E k \in Votes : u \in ToSet(arrays[k])
  <2>1. PICK k \in Votes : u \in ToSet(arrays[k])
    BY <1>3
  <2>2. (CHOOSE l \in Votes : u \in ToSet(arrays[l])) = k
    BY <2>1, Zenon DEF Apart
  <2>3. BallotOf(arrays)[u] = k
    BY <1>1, <1>3, <2>2
  <2>4. \A l \in Votes : u \in ToSet(arrays[l]) <=> l = k
    BY <2>1, Zenon DEF Apart
  <2> QED
    BY <1>2, <2>1, <2>3, <2>4 DEF Recorded
<1>4. CASE \A k \in Votes : u \notin ToSet(arrays[k])
  BY <1>1, <1>2, <1>4 DEF Recorded
<1> QED
  BY <1>3, <1>4

(* An array without repetitions is as long as its set of voters, and a loop *)
(* over it meets each of them once.                                         *)
LEMMA ArrayCounts ==
    ASSUME NEW array \in Seq(Users), OnceEach(array)
    PROVE  /\ IsFiniteSet(ToSet(array))
           /\ Cardinality(ToSet(array)) = Len(array)
           /\ Len(array) \in Nat
           /\ \A u : Times(u, array) = IF u \in ToSet(array) THEN 1 ELSE 0
<1> DEFINE n == Len(array)
           T == ToSet(array)
<1>1. /\ n \in Nat /\ array \in [1..n -> T] /\ DOMAIN array = 1..n
      /\ \A x \in T : \E i \in 1..n : array[i] = x
      /\ \A i \in 1..n : array[i] \in T
  BY LenProperties DEF ToSet
<1>2. \A i, j \in 1..n : array[i] = array[j] => i = j
  BY <1>1 DEF OnceEach
<1>3. \A u : Times(u, array) = IF u \in T THEN 1 ELSE 0
  <2> SUFFICES ASSUME NEW u PROVE Times(u, array) = IF u \in T THEN 1 ELSE 0
    OBVIOUS
  <2> HIDE DEF n, T
  <2>1. CASE u \in T
    <3>1. PICK i \in 1..n : array[i] = u
      BY <1>1, <2>1
    <3>2. {j \in DOMAIN array : array[j] = u} = {i}
      BY <1>1, <1>2, <3>1
    <3> QED
      BY <2>1, <3>2, FS_Singleton DEF Times
  <2>2. CASE u \notin T
    <3>1. {j \in DOMAIN array : array[j] = u} = {}
      BY <1>1, <2>2
    <3> QED
      BY <2>2, <3>1, FS_EmptySet DEF Times
  <2> QED
    BY <2>1, <2>2
<1> HIDE DEF n, T
<1>4. ExistsBijection(1..n, T)
  <2>1. IsInjective(array)
    BY <1>1, <1>2 DEF IsInjective
  <2> QED
    BY <1>1, <2>1 DEF ExistsBijection, Bijection, Injection, Surjection
<1>5. IsFiniteSet(1..n) /\ Cardinality(1..n) = n
  BY <1>1, FS_Interval
<1>6. IsFiniteSet(T) /\ Cardinality(T) = n
  BY <1>4, <1>5, FS_Bijection
<1> QED
  BY <1>1, <1>3, <1>6 DEF n, T

LEMMA DisjointUnion ==
    ASSUME NEW S, NEW T, IsFiniteSet(S), IsFiniteSet(T), S \cap T = {}
    PROVE  /\ IsFiniteSet(S \cup T)
           /\ Cardinality(S \cup T) = Cardinality(S) + Cardinality(T)
           /\ Cardinality(S) \in Nat /\ Cardinality(T) \in Nat
<1>1. /\ IsFiniteSet(S \cup T)
      /\ Cardinality(S \cup T) =
             Cardinality(S) + Cardinality(T) - Cardinality(S \cap T)
  BY FS_Union
<1>2. Cardinality(S \cap T) = 0
  BY FS_EmptySet
<1>3. Cardinality(S) \in Nat /\ Cardinality(T) \in Nat
  BY FS_CardinalityType
<1> QED
  BY <1>1, <1>2, <1>3

(* A ballot has as many voters of a kind as its array, and a turnout of all *)
(* votes cast.                                                              *)
LEMMA BallotCounts ==
    ASSUME NEW arrays \in [Votes -> Seq(Users)], Apart(arrays)
    PROVE  /\ \A k \in Votes :
                  Cardinality(Ballots!Voters(BallotOf(arrays), k)) = Len(arrays[k])
           /\ Cardinality(Ballots!Turnout(BallotOf(arrays))) = VotesCast(arrays)
<1>1. \A k \in Votes : /\ IsFiniteSet(ToSet(arrays[k]))
                       /\ Cardinality(ToSet(arrays[k])) = Len(arrays[k])
                       /\ Len(arrays[k]) \in Nat
                       /\ ToSet(arrays[k]) \subseteq Users
  <2> SUFFICES ASSUME NEW k \in Votes
               PROVE  /\ IsFiniteSet(ToSet(arrays[k]))
                      /\ Cardinality(ToSet(arrays[k])) = Len(arrays[k])
                      /\ Len(arrays[k]) \in Nat
                      /\ ToSet(arrays[k]) \subseteq Users
    OBVIOUS
  <2>1. arrays[k] \in Seq(Users) /\ OnceEach(arrays[k])
    BY DEF Apart
  <2>2. ToSet(arrays[k]) \subseteq Users
    BY <2>1, LenProperties DEF ToSet
  <2> QED
    BY <2>1, <2>2, ArrayCounts
<1>2. \A k \in Votes : Ballots!Voters(BallotOf(arrays), k) = ToSet(arrays[k])
  BY <1>1, BallotReads DEF Ballots!Voters
<1> DEFINE A == ToSet(arrays["Accept"])
           R == ToSet(arrays["Reject"])
           M == ToSet(arrays["ModificationsNeeded"])
<1>3. Ballots!Turnout(BallotOf(arrays)) = (A \cup R) \cup M
  <2>1. \A u \in Users : BallotOf(arrays)[u] # "None"
                         <=> u \in A \/ u \in R \/ u \in M
    BY BallotReads DEF Votes
  <2> QED
    BY <1>1, <2>1 DEF Ballots!Turnout, Votes
<1>4. A \cap R = {} /\ (A \cup R) \cap M = {}
  <2>1. \A u, k, l : k \in Votes /\ l \in Votes /\ k # l =>
            ~(u \in ToSet(arrays[k]) /\ u \in ToSet(arrays[l]))
    BY DEF Apart
  <2>2. \A u : /\ ~(u \in A /\ u \in R) /\ ~(u \in A /\ u \in M)
               /\ ~(u \in R /\ u \in M)
    BY <2>1 DEF Votes
  <2> QED
    BY <2>2
<1>5. /\ IsFiniteSet(A) /\ IsFiniteSet(R) /\ IsFiniteSet(M)
      /\ Cardinality(A) = Len(arrays["Accept"])
      /\ Cardinality(R) = Len(arrays["Reject"])
      /\ Cardinality(M) = Len(arrays["ModificationsNeeded"])
      /\ Cardinality(A) \in Nat /\ Cardinality(R) \in Nat /\ Cardinality(M) \in Nat
  BY <1>1 DEF Votes
<1> HIDE DEF A, R, M
<1>6. /\ IsFiniteSet(A \cup R)
      /\ Cardinality(A \cup R) = Cardinality(A) + Cardinality(R)
  BY <1>4, <1>5, DisjointUnion
<1>7. Cardinality((A \cup R) \cup M)
      = Cardinality(A) + Cardinality(R) + Cardinality(M)
  <2>1. Cardinality((A \cup R) \cup M) = Cardinality(A \cup R) + Cardinality(M)
    BY <1>4, <1>5, <1>6, DisjointUnion
  <2> QED
    BY <1>6, <2>1
<1>8. VotesCast(arrays) = Cardinality(A) + Cardinality(R) + Cardinality(M)
  BY <1>5, Zenon DEF VotesCast
<1> QED
  BY <1>1, <1>2, <1>3, <1>7, <1>8

LEMMA SameCardinality == \A S : Ballots!Cardinality(S) = Cardinality(S)
BY Zenon DEF Ballots!Cardinality, Ballots!IsFiniteSet, Cardinality, IsFiniteSet

(* At the deployed thresholds the arrays decide what their ballot decides.  *)
LEMMA BallotDecides ==
    ASSUME ThresholdsAsDeployed, NEW st \in Stages,
           NEW arrays \in [Votes -> Seq(Users)], Apart(arrays)
    PROVE  LET ballot == BallotOf(arrays)
               outcome == Outcome(st, arrays)
           IN  /\ outcome = "Modify" <=> Ballots!Modified(st, ballot)
               /\ outcome = "Undecided" <=> /\ ~Ballots!Modified(st, ballot)
                                            /\ ~Ballots!Filled(st, ballot)
               /\ outcome = "Accepted" <=> /\ ~Ballots!Modified(st, ballot)
                                           /\ Ballots!Filled(st, ballot)
                                           /\ Ballots!Accepted(st, ballot)
               /\ outcome = "Refused" <=> /\ ~Ballots!Modified(st, ballot)
                                          /\ Ballots!Filled(st, ballot)
                                          /\ ~Ballots!Accepted(st, ballot)
<1> DEFINE ballot == BallotOf(arrays)
           outcome == Outcome(st, arrays)
           max == MaxVotes(st)
           modify == Len(arrays["ModificationsNeeded"]) * 100
                     >= max * MinModificationsPct(st)
           short == VotesCast(arrays) < max
           accept == Len(arrays["Accept"]) * 100 >= max * MinAcceptancesPct(st)
<1>1. outcome = IF modify THEN "Modify"
                ELSE IF short THEN "Undecided"
                ELSE IF accept THEN "Accepted" ELSE "Refused"
  BY Zenon DEF Outcome
<1>2. /\ max = InitialConfig[IF st = "Sorting" THEN "sortingMaxVotes"
                                               ELSE "validationMaxVotes"]
      /\ MinAcceptancesPct(st) =
             InitialConfig[IF st = "Sorting" THEN "sortingMinAcceptancesPct"
                                             ELSE "validationMinAcceptancesPct"]
      /\ MinModificationsPct(st) =
             InitialConfig[IF st = "Sorting" THEN "sortingMinModificationsPct"
                                             ELSE "validationMinModificationsPct"]
  BY DEF ThresholdsAsDeployed, Thresholds, Percentages, MaxVotes,
         MinAcceptancesPct, MinModificationsPct
<1>3. /\ \A k \in Votes :
             Cardinality(Ballots!Voters(ballot, k)) = Len(arrays[k])
      /\ Cardinality(Ballots!Turnout(ballot)) = VotesCast(arrays)
  BY BallotCounts
<1> HIDE DEF ballot
<1>4. modify <=> Ballots!Modified(st, ballot)
  BY <1>2, <1>3, SameCardinality DEF Ballots!Modified, Ballots!Reaches, Votes
<1>5. accept <=> Ballots!Accepted(st, ballot)
  BY <1>2, <1>3, SameCardinality DEF Ballots!Accepted, Ballots!Reaches, Votes
<1>6. ~short <=> Ballots!Filled(st, ballot)
  <2>1. VotesCast(arrays) \in Nat
    <3>1. \A k \in Votes : Len(arrays[k]) \in Nat
      BY LenProperties
    <3> QED
      BY <3>1 DEF VotesCast, Votes
  <2>2. max \in Nat
    BY <1>2, ListingsAssumption DEF Parameters
  <2>3. Ballots!Filled(st, ballot) <=> VotesCast(arrays) >= max
    BY <1>2, <1>3, SameCardinality DEF Ballots!Filled
  <2> QED
    BY <2>1, <2>2, <2>3
<1> HIDE DEF outcome, modify, short, accept
<1>7. /\ outcome = "Modify" <=> modify
      /\ outcome = "Undecided" <=> ~modify /\ short
      /\ outcome = "Accepted" <=> ~modify /\ ~short /\ accept
      /\ outcome = "Refused" <=> ~modify /\ ~short /\ ~accept
  BY <1>1
<1> QED
  BY <1>4, <1>5, <1>6, <1>7, Zenon DEF outcome, ballot

(* Nobody is found on the ballots of deleted votes. *)
LEMMA NoBallotsFound ==
    \A st \in Stages : BallotOf(NoVotes[st]) = [u \in Users |-> "None"]
BY NobodyRecorded, Zenon DEF BallotOf, Recorded

(* A user who is marked as not having voted in this phase is not on record, *)
(* and the vote pushed appears on the ballot of that user alone.            *)
LEMMA BallotCast ==
    ASSUME ListingsInv, NEW user \in Users, NEW v \in VoteIds,
           NEW st \in Stages, NEW vote \in Votes, MayVote(user, v, st),
           Distinct(VotesWith(user, v, st, vote))
    PROVE  /\ BallotsOf(votes)[v][st][user] = "None"
           /\ BallotsOf(VotesWith(user, v, st, vote)) =
                  [BallotsOf(votes) EXCEPT
                      ![v] = [BallotsOf(votes)[v] EXCEPT ![st][user] = vote]]
<1> DEFINE vs == VotesWith(user, v, st, vote)
           b == [BallotsOf(votes)[v] EXCEPT ![st][user] = vote]
<1>1. /\ votes \in [VoteIds -> [Stages -> [Votes -> Seq(Users)]]]
      /\ Distinct(votes)
      /\ Marked(tokenListings, votes, votesPhase)
  BY DEF ListingsInv, Sound, Typed
<1>2. vs \in [VoteIds -> [Stages -> [Votes -> Seq(Users)]]]
  BY <1>1 DEF VotesWith
<1>3. \A w \in VoteIds, t \in Stages :
          Apart(votes[w][t]) /\ Apart(vs[w][t])
  BY <1>1, <1>2, ArraysApart
<1>4. ~Recorded(user, votes[v][st])
  <2> SUFFICES ASSUME Recorded(user, votes[v][st]) PROVE FALSE
    OBVIOUS
  <2>1. PICK k \in Votes : \E i \in DOMAIN votes[v][st][k] :
                                votes[v][st][k][i] = user
    BY DEF Recorded, ToSet
  <2>2. votesPhase[st][v][user] = tokenListings[v].phase
    BY <1>1, <2>1 DEF Marked
  <2>3. votesPhase[st][v][user] < tokenListings[v].phase
    BY DEF MayVote, HasNotVoted
  <2>4. tokenListings[v].phase \in Nat
    BY DEF ListingsInv, Sound, Typed, Listing
  <2> QED
    BY <2>2, <2>3, <2>4
<1>5. \A w \in VoteIds, t \in Stages : BallotsOf(votes)[w][t] = BallotOf(votes[w][t])
  BY DEF BallotsOf
<1>6. BallotsOf(votes)[v][st][user] = "None"
  BY <1>3, <1>4, <1>5, BallotReads
<1>7. \A w \in VoteIds, t \in Stages, k \in Votes :
          vs[w][t][k] = IF w = v /\ t = st /\ k = vote
                        THEN Append(votes[w][t][k], user) ELSE votes[w][t][k]
  BY <1>1 DEF VotesWith
<1>8. ToSet(Append(votes[v][st][vote], user)) = ToSet(votes[v][st][vote]) \cup {user}
  <2> DEFINE old == votes[v][st][vote]
  <2>1. old \in Seq(Users)
    BY <1>1
  <2> HIDE DEF old
  <2>2. ToSet(Append(old, user)) = ToSet(old) \cup {user}
    BY <2>1, AppendProperties, LenProperties DEF ToSet
  <2> QED
    BY <2>2 DEF old
<1> HIDE DEF vs
<1>9. ASSUME NEW w \in VoteIds, NEW t \in Stages, ~(w = v /\ t = st)
      PROVE  BallotOf(vs[w][t]) = BallotOf(votes[w][t])
  <2>1. \A k \in Votes : vs[w][t][k] = votes[w][t][k]
    BY <1>7, <1>9
  <2>2. vs[w][t] = votes[w][t]
    <3>1. /\ vs[w][t] \in [Votes -> Seq(Users)]
          /\ votes[w][t] \in [Votes -> Seq(Users)]
      BY <1>1, <1>2
    <3> DEFINE f == vs[w][t]
               g == votes[w][t]
    <3> HIDE DEF f, g
    <3>2. f = g
      BY <2>1, <3>1 DEF f, g
    <3> QED
      BY <3>2 DEF f, g
  <2> QED
    BY <2>2
<1>10. BallotOf(vs[v][st]) = [BallotOf(votes[v][st]) EXCEPT ![user] = vote]
  <2>1. ASSUME NEW u \in Users
        PROVE  BallotOf(vs[v][st])[u] =
                   IF u = user THEN vote ELSE BallotOf(votes[v][st])[u]
    <3>1. \A k \in Votes : u \in ToSet(vs[v][st][k])
              <=> u \in ToSet(votes[v][st][k]) \/ (u = user /\ k = vote)
      BY <1>7, <1>8
    <3>2. /\ \A k \in Votes :
                 BallotOf(vs[v][st])[u] = k <=> u \in ToSet(vs[v][st][k])
          /\ BallotOf(vs[v][st])[u] = "None" <=> ~Recorded(u, vs[v][st])
          /\ \A k \in Votes :
                 BallotOf(votes[v][st])[u] = k <=> u \in ToSet(votes[v][st][k])
          /\ BallotOf(votes[v][st])[u] = "None" <=> ~Recorded(u, votes[v][st])
      BY <1>3, BallotReads
    <3>3. CASE u = user
      BY <3>1, <3>2, <3>3
    <3>4. CASE u # user
      <4>1. \A k \in Votes : BallotOf(vs[v][st])[u] = k
                             <=> BallotOf(votes[v][st])[u] = k
        BY <3>1, <3>2, <3>4
      <4>2. Recorded(u, vs[v][st]) <=> Recorded(u, votes[v][st])
        BY <3>1, <3>4 DEF Recorded
      <4> QED
        BY <3>2, <3>4, <4>1, <4>2 DEF Recorded
    <3> QED
      BY <3>3, <3>4
  <2>2. DOMAIN BallotOf(vs[v][st]) = Users /\ DOMAIN BallotOf(votes[v][st]) = Users
        /\ BallotOf(vs[v][st]) = [u \in Users |-> BallotOf(vs[v][st])[u]]
    BY DEF BallotOf
  <2> QED
    BY <2>1, <2>2
<1>11. BallotsOf(vs) = [BallotsOf(votes) EXCEPT ![v] = b]
  <2> DEFINE row(ws, w) == [t \in Stages |-> BallotOf(ws[w][t])]
  <2>1. /\ BallotsOf(vs) = [w \in VoteIds |-> row(vs, w)]
        /\ BallotsOf(votes) = [w \in VoteIds |-> row(votes, w)]
    BY DEF BallotsOf
  <2>2. b = [row(votes, v) EXCEPT ![st] =
                 [BallotOf(votes[v][st]) EXCEPT ![user] = vote]]
    BY <2>1
  <2>3. row(vs, v) = [row(votes, v) EXCEPT ![st] = BallotOf(vs[v][st])]
    BY <1>9
  <2>4. \A w \in VoteIds \ {v} : row(vs, w) = row(votes, w)
    BY <1>9
  <2>5. row(vs, v) = b
    BY <1>10, <2>2, <2>3, Zenon
  <2> HIDE DEF row, b
  <2> QED
    BY <2>1, <2>4, <2>5
<1> QED
  BY <1>6, <1>11 DEF vs

(* The loops of a verdict pay every right voter of either ballot once.      *)
LEMMA BallotSettles ==
    ASSUME ListingsInv, NEW v \in VoteIds,
           NEW vs \in [VoteIds -> [Stages -> [Votes -> Seq(Users)]]],
           Distinct(vs), NEW right \in Votes, NEW wrong,
           RewardVoters(vs, v, right, wrong)
    PROVE  Ballots!Settle(BallotsOf(vs)[v], v, right)
<1> DEFINE b == BallotsOf(vs)[v]
<1>1. \A st \in Stages : b[st] = BallotOf(vs[v][st])
  BY DEF BallotsOf
<1>2. owedRewards' = [u \in Users |->
          owedRewards[u] + tokenListings[v].coeff *
              (1 * Times(u, vs[v]["Sorting"][right])
               + 2 * Times(u, vs[v]["Validation"][right]))]
  BY DEF RewardVoters, Weight
<1>3. ASSUME NEW u \in Users, NEW st \in Stages
      PROVE  Times(u, vs[v][st][right]) = IF b[st][u] = right THEN 1 ELSE 0
  <2>1. Apart(vs[v][st]) /\ vs[v][st] \in [Votes -> Seq(Users)]
    BY ArraysApart
  <2>2. vs[v][st][right] \in Seq(Users) /\ OnceEach(vs[v][st][right])
    BY <2>1 DEF Apart
  <2>3. b[st][u] = right <=> u \in ToSet(vs[v][st][right])
    BY <1>1, <2>1, BallotReads
  <2> QED
    BY <2>2, <2>3, ArrayCounts
<1> HIDE DEF b
<1>4. \A u \in Users :
          1 * Times(u, vs[v]["Sorting"][right])
              + 2 * Times(u, vs[v]["Validation"][right])
          = (IF b["Sorting"][u] = right THEN 1 ELSE 0)
            + (IF b["Validation"][u] = right THEN 2 ELSE 0)
  BY <1>3 DEF Stages
<1>5. owedRewards' = [u \in Users |->
          owedRewards[u] + tokenListings[v].coeff *
              ((IF b["Sorting"][u] = right THEN 1 ELSE 0)
               + (IF b["Validation"][u] = right THEN 2 ELSE 0))]
  BY <1>2, <1>4
<1>6. [w \in VoteIds |-> tokenListings[w].coeff][v] = tokenListings[v].coeff
  OBVIOUS
<1>7. Ballots!Settle(b, v, right)
  BY <1>5, <1>6, Zenon DEF Ballots!Settle, Ballots!Reward
<1> QED
  BY <1>7 DEF b

(* What _updateListingStatus does to the state that is promised.            *)
LEMMA MoveOnBallots ==
    ASSUME StatusArraysTypeOK, NEW ls, NEW vs, Typed(ls, vs),
           NEW v \in VoteIds, NEW s, UpdateListingStatus(ls, vs, v, s),
           SameListings(ls, v)
    PROVE  /\ status' = [status EXCEPT ![v] = s]
           /\ CoeffsOf(tokenListings)' = CoeffsOf(tokenListings)
           /\ BallotsOf(votes)' =
                  IF s \in ClearingStatuses
                  THEN [BallotsOf(vs) EXCEPT ![v] = Ballots!NoBallots]
                  ELSE BallotsOf(vs)
<1>1. ListingMoved(ls, vs, v, s)
  BY MoveEffect
<1>2. status' = [status EXCEPT ![v] = s]
  BY DEF UpdateListingStatus, MoveListing
<1>3. \A w \in VoteIds : tokenListings'[w].coeff = tokenListings[w].coeff
  BY <1>1 DEF ListingMoved, SameListings
<1>4. CoeffsOf(tokenListings)' = CoeffsOf(tokenListings)
  BY <1>3 DEF CoeffsOf
<1> DEFINE row(ws, w) == [st \in Stages |-> BallotOf(ws[w][st])]
<1>5. /\ BallotsOf(vs) = [w \in VoteIds |-> row(vs, w)]
      /\ BallotsOf(votes)' = [w \in VoteIds |-> row(votes', w)]
  BY DEF BallotsOf
<1>6. \A w \in VoteIds \ {v} : row(votes', w) = row(vs, w)
  BY <1>1 DEF ListingMoved
<1>7. CASE s \in ClearingStatuses
  <2>1. votes'[v] = NoVotes
    BY <1>1, <1>7 DEF ListingMoved
  <2>2. row(votes', v) = Ballots!NoBallots
    BY <2>1, NoBallotsFound DEF Ballots!NoBallots, Ballots!Stages, Stages
  <2> HIDE DEF row
  <2> QED
    BY <1>2, <1>4, <1>5, <1>6, <1>7, <2>2
<1>8. CASE s \notin ClearingStatuses
  <2>1. row(votes', v) = row(vs, v)
    BY <1>1, <1>8 DEF ListingMoved
  <2> HIDE DEF row
  <2> QED
    BY <1>2, <1>4, <1>5, <1>6, <1>8, <2>1
<1> QED
  BY <1>7, <1>8

(* A vote on the ballots, in terms of the listings.                         *)
CastOnBallots(u, v, st, vote) ==
    LET bs == BallotsOf(votes)
        b == [bs[v] EXCEPT ![st][u] = vote]
        modified == Ballots!Modified(st, b[st])
        filled == Ballots!Filled(st, b[st])
        accepted == Ballots!Accepted(st, b[st])
        closed == [bs EXCEPT ![v] = Ballots!NoBallots]
    IN  /\ status[v] = st /\ bs[v][st][u] = "None"
        /\ CoeffsOf(tokenListings)' = CoeffsOf(tokenListings)
        /\ \/ /\ ~modified /\ ~filled
              /\ BallotsOf(votes)' = [bs EXCEPT ![v] = b]
              /\ UNCHANGED <<status, owedRewards>>
           \/ /\ modified
              /\ status' = [status EXCEPT ![v] = "Updating"]
              /\ BallotsOf(votes)' = closed
              /\ UNCHANGED owedRewards
           \/ /\ ~modified /\ filled /\ st = "Sorting" /\ accepted
              /\ status' = [status EXCEPT ![v] = "Validation"]
              /\ BallotsOf(votes)' = [bs EXCEPT ![v] = b]
              /\ UNCHANGED owedRewards
           \/ /\ ~modified /\ filled /\ st = "Sorting" /\ ~accepted
              /\ status' = [status EXCEPT ![v] = "Rejected"]
              /\ BallotsOf(votes)' = closed
              /\ UNCHANGED owedRewards
           \/ /\ ~modified /\ filled /\ st = "Validation" /\ accepted
              /\ status' = [status EXCEPT ![v] = "Validated"]
              /\ BallotsOf(votes)' = closed
              /\ Ballots!Settle(b, v, "Accept")
           \/ /\ ~modified /\ filled /\ st = "Validation" /\ ~accepted
              /\ status' = [status EXCEPT ![v] = "Rejected"]
              /\ BallotsOf(votes)' = closed
              /\ Ballots!Settle(b, v, "Reject")

LEMMA CastIsCast ==
    ASSUME NEW u, NEW v, NEW st, NEW vote, CastOnBallots(u, v, st, vote)
    PROVE  Ballots!Cast(u, v, st, vote)
BY Zenon DEF CastOnBallots, Ballots!Cast, Ballots!Close, BallotsOf, CoeffsOf

(* What both voting methods build: ballots with one vote more, which the    *)
(* arrays decide as the ballot does.                                        *)
VoteBuilt(user, v, st, vote, score) ==
    LET vs == VotesWith(user, v, st, vote)
        ls == ListingsWith(v, vote, score)
        bs == BallotsOf(votes)
        b == [bs[v] EXCEPT ![st][user] = vote]
        outcome == Outcome(st, vs[v][st])
    IN  /\ Sound(ls, vs, votesPhase', tokenListingsLength)
        /\ Typed(ls, vs) /\ Distinct(vs) /\ SameListings(ls, v)
        /\ status[v] = st /\ bs[v][st][user] = "None"
        /\ BallotsOf(vs) = [bs EXCEPT ![v] = b]
        /\ BallotsOf(vs)[v] = b
        /\ DOMAIN bs = VoteIds
        /\ outcome = "Modify" <=> Ballots!Modified(st, b[st])
        /\ outcome = "Undecided" <=> /\ ~Ballots!Modified(st, b[st])
                                     /\ ~Ballots!Filled(st, b[st])
        /\ outcome = "Accepted" <=> /\ ~Ballots!Modified(st, b[st])
                                    /\ Ballots!Filled(st, b[st])
                                    /\ Ballots!Accepted(st, b[st])
        /\ outcome = "Refused" <=> /\ ~Ballots!Modified(st, b[st])
                                   /\ Ballots!Filled(st, b[st])
                                   /\ ~Ballots!Accepted(st, b[st])

LEMMA CastBuilds ==
    ASSUME ListingsInv, ThresholdsAsDeployed, NEW user \in Users,
           NEW v \in VoteIds, NEW st \in Stages, NEW vote \in Votes,
           NEW score \in Nat, vote = "Accept" => score <= MaxScore,
           MayVote(user, v, st), MarkVoter(user, v, st)
    PROVE  VoteBuilt(user, v, st, vote, score)
<1> DEFINE vs == VotesWith(user, v, st, vote)
           ls == ListingsWith(v, vote, score)
           bs == BallotsOf(votes)
           b == [bs[v] EXCEPT ![st][user] = vote]
<1>1. Sound(ls, vs, votesPhase', tokenListingsLength)
  BY CastVote DEF MayVote
<1>2. Typed(ls, vs) /\ Distinct(vs)
  BY <1>1 DEF Sound
<1>3. SameListings(ls, v) /\ status[v] = st
  BY AccruedKeeps DEF MayVote, IsOpen
<1>4. bs[v][st][user] = "None" /\ BallotsOf(vs) = [bs EXCEPT ![v] = b]
  BY <1>2, BallotCast
<1>5. DOMAIN bs = VoteIds
  BY DEF BallotsOf
<1>6. BallotsOf(vs)[v] = b
  <2> HIDE DEF vs, bs, b
  <2> QED
    BY <1>4, <1>5
<1>7. Apart(vs[v][st]) /\ vs[v][st] \in [Votes -> Seq(Users)]
  BY <1>2, ArraysApart DEF Typed
<1>8. BallotOf(vs[v][st]) = b[st]
  <2> HIDE DEF vs, bs, b
  <2>1. BallotsOf(vs)[v][st] = BallotOf(vs[v][st])
    BY DEF BallotsOf
  <2> QED
    BY <1>6, <2>1
<1> HIDE DEF vs, ls, bs, b
<1>9. LET outcome == Outcome(st, vs[v][st])
      IN  /\ outcome = "Modify" <=> Ballots!Modified(st, b[st])
          /\ outcome = "Undecided" <=> /\ ~Ballots!Modified(st, b[st])
                                       /\ ~Ballots!Filled(st, b[st])
          /\ outcome = "Accepted" <=> /\ ~Ballots!Modified(st, b[st])
                                      /\ Ballots!Filled(st, b[st])
                                      /\ Ballots!Accepted(st, b[st])
          /\ outcome = "Refused" <=> /\ ~Ballots!Modified(st, b[st])
                                     /\ Ballots!Filled(st, b[st])
                                     /\ ~Ballots!Accepted(st, b[st])
  BY <1>7, <1>8, BallotDecides
<1> QED
  BY <1>1, <1>2, <1>3, <1>4, <1>5, <1>6, <1>9, Zenon
     DEF VoteBuilt, vs, ls, bs, b

LEMMA VoteSortingCasts ==
    ASSUME ListingsInv, ThresholdsAsDeployed, NEW user \in Users,
           NEW v \in VoteIds, NEW vote \in Votes, NEW score \in Nat,
           VoteSorting(user, v, vote, score)
    PROVE  CastOnBallots(user, v, "Sorting", vote)
<1> DEFINE st == "Sorting"
           vs == VotesWith(user, v, st, vote)
           ls == ListingsWith(v, vote, score)
           bs == BallotsOf(votes)
           b == [bs[v] EXCEPT ![st][user] = vote]
           outcome == Outcome(st, vs[v][st])
           closed == [bs EXCEPT ![v] = Ballots!NoBallots]
<1>1. /\ MayVote(user, v, st) /\ MarkVoter(user, v, st)
      /\ vote = "Accept" => score <= MaxScore
      /\ UNCHANGED owedRewards
  BY DEF VoteSorting, rewardVars
<1>2. /\ Typed(ls, vs) /\ SameListings(ls, v)
      /\ status[v] = st /\ bs[v][st][user] = "None"
      /\ BallotsOf(vs) = [bs EXCEPT ![v] = b] /\ DOMAIN bs = VoteIds
      /\ outcome = "Modify" <=> Ballots!Modified(st, b[st])
      /\ outcome = "Undecided" <=> /\ ~Ballots!Modified(st, b[st])
                                   /\ ~Ballots!Filled(st, b[st])
      /\ outcome = "Accepted" <=> /\ ~Ballots!Modified(st, b[st])
                                  /\ Ballots!Filled(st, b[st])
                                  /\ Ballots!Accepted(st, b[st])
      /\ outcome = "Refused" <=> /\ ~Ballots!Modified(st, b[st])
                                 /\ Ballots!Filled(st, b[st])
                                 /\ ~Ballots!Accepted(st, b[st])
  <2>1. VoteBuilt(user, v, st, vote, score)
    BY <1>1, CastBuilds DEF Stages
  <2> QED
    BY <2>1, Zenon DEF VoteBuilt
<1>3. \/ /\ outcome = "Undecided"
         /\ tokenListings' = ls /\ votes' = vs /\ UNCHANGED statusVars
      \/ outcome = "Modify" /\ UpdateListingStatus(ls, vs, v, "Updating")
      \/ outcome = "Accepted" /\ UpdateListingStatus(ls, vs, v, "Validation")
      \/ outcome = "Refused" /\ UpdateListingStatus(ls, vs, v, "Rejected")
  BY Zenon DEF VoteSorting, OutcomeAfter
<1>4. closed = [bs EXCEPT ![v] = Ballots!NoBallots]
  OBVIOUS
<1> HIDE DEF vs, ls, bs, b, outcome, closed
<1>5. [BallotsOf(vs) EXCEPT ![v] = Ballots!NoBallots] = closed
  BY <1>2, <1>4
<1>6. ASSUME NEW s, UpdateListingStatus(ls, vs, v, s)
      PROVE  /\ status' = [status EXCEPT ![v] = s]
             /\ CoeffsOf(tokenListings)' = CoeffsOf(tokenListings)
             /\ BallotsOf(votes)' =
                    IF s \in ClearingStatuses THEN closed ELSE BallotsOf(vs)
  BY <1>2, <1>5, <1>6, MoveOnBallots DEF ListingsInv
<1>7. CASE /\ outcome = "Undecided"
           /\ tokenListings' = ls /\ votes' = vs /\ UNCHANGED statusVars
  <2>1. CoeffsOf(tokenListings)' = CoeffsOf(tokenListings)
    BY <1>2, <1>7 DEF CoeffsOf, SameListings
  <2>2. BallotsOf(votes)' = BallotsOf(vs)
    BY <1>7 DEF BallotsOf
  <2> QED
    BY <1>1, <1>2, <1>7, <2>1, <2>2, Zenon
       DEF CastOnBallots, statusVars, bs, b
<1>8. CASE outcome = "Modify" /\ UpdateListingStatus(ls, vs, v, "Updating")
  <2>1. "Updating" \in ClearingStatuses
    BY DEF ClearingStatuses
  <2> QED
    BY <1>1, <1>2, <1>6, <1>8, <2>1, Zenon DEF CastOnBallots, bs, b, closed
<1>9. CASE outcome = "Accepted" /\ UpdateListingStatus(ls, vs, v, "Validation")
  <2>1. "Validation" \notin ClearingStatuses
    BY DEF ClearingStatuses
  <2> QED
    BY <1>1, <1>2, <1>6, <1>9, <2>1, Zenon DEF CastOnBallots, bs, b
<1>10. CASE outcome = "Refused" /\ UpdateListingStatus(ls, vs, v, "Rejected")
  <2>1. "Rejected" \in ClearingStatuses
    BY DEF ClearingStatuses
  <2> QED
    BY <1>1, <1>2, <1>6, <1>10, <2>1, Zenon DEF CastOnBallots, bs, b, closed
<1> QED
  BY <1>3, <1>7, <1>8, <1>9, <1>10

LEMMA VoteValidationCasts ==
    ASSUME ListingsInv, ThresholdsAsDeployed, NEW user \in Users,
           NEW v \in VoteIds, NEW vote \in Votes, NEW score \in Nat,
           VoteValidation(user, v, vote, score)
    PROVE  CastOnBallots(user, v, "Validation", vote)
<1> DEFINE st == "Validation"
           vs == VotesWith(user, v, st, vote)
           ls == ListingsWith(v, vote, score)
           saved == TokenSaved(ls, vs, v)
           bs == BallotsOf(votes)
           b == [bs[v] EXCEPT ![st][user] = vote]
           outcome == Outcome(st, vs[v][st])
           closed == [bs EXCEPT ![v] = Ballots!NoBallots]
<1>1. /\ MayVote(user, v, st) /\ MarkVoter(user, v, st)
      /\ vote = "Accept" => score <= MaxScore
  BY DEF VoteValidation
<1>2. /\ Sound(ls, vs, votesPhase', tokenListingsLength)
      /\ Typed(ls, vs) /\ Distinct(vs) /\ SameListings(ls, v)
      /\ status[v] = st /\ bs[v][st][user] = "None"
      /\ BallotsOf(vs) = [bs EXCEPT ![v] = b] /\ DOMAIN bs = VoteIds
      /\ BallotsOf(vs)[v] = b
      /\ outcome = "Modify" <=> Ballots!Modified(st, b[st])
      /\ outcome = "Undecided" <=> /\ ~Ballots!Modified(st, b[st])
                                   /\ ~Ballots!Filled(st, b[st])
      /\ outcome = "Accepted" <=> /\ ~Ballots!Modified(st, b[st])
                                  /\ Ballots!Filled(st, b[st])
                                  /\ Ballots!Accepted(st, b[st])
      /\ outcome = "Refused" <=> /\ ~Ballots!Modified(st, b[st])
                                 /\ Ballots!Filled(st, b[st])
                                 /\ ~Ballots!Accepted(st, b[st])
  <2>1. VoteBuilt(user, v, st, vote, score)
    BY <1>1, CastBuilds DEF Stages
  <2> QED
    BY <2>1, Zenon DEF VoteBuilt
<1>3. \/ /\ outcome = "Undecided" /\ UNCHANGED owedRewards
         /\ tokenListings' = ls /\ votes' = vs /\ UNCHANGED statusVars
      \/ /\ outcome = "Modify" /\ UNCHANGED owedRewards
         /\ UpdateListingStatus(ls, vs, v, "Updating")
      \/ /\ outcome = "Accepted" /\ RewardVoters(vs, v, "Accept", "Reject")
         /\ SaveToken(ls, vs, v) /\ UpdateListingStatus(saved, vs, v, "Validated")
      \/ /\ outcome = "Refused" /\ RewardVoters(vs, v, "Reject", "Accept")
         /\ UpdateListingStatus(ls, vs, v, "Rejected")
  BY Zenon DEF VoteValidation, OutcomeAfter, rewardVars
<1>4. closed = [bs EXCEPT ![v] = Ballots!NoBallots]
  OBVIOUS
<1> HIDE DEF vs, ls, bs, b, outcome, closed
<1>5. [BallotsOf(vs) EXCEPT ![v] = Ballots!NoBallots] = closed
  BY <1>2, <1>4
<1>6. SaveToken(ls, vs, v) => Typed(saved, vs) /\ SameListings(saved, v)
  <2>1. SameListings(saved, v)
    BY <1>2, SavedKeeps DEF Typed
  <2>2. SaveToken(ls, vs, v) =>
            Sound(saved, vs, votesPhase', tokenListingsLength)
    BY <1>2, SaveTokenSound DEF ListingsInv
  <2> HIDE DEF saved
  <2> QED
    BY <2>1, <2>2 DEF Sound
<1> HIDE DEF saved
<1>7. ASSUME NEW ms, NEW s, UpdateListingStatus(ms, vs, v, s),
             Typed(ms, vs), SameListings(ms, v)
      PROVE  /\ status' = [status EXCEPT ![v] = s]
             /\ CoeffsOf(tokenListings)' = CoeffsOf(tokenListings)
             /\ BallotsOf(votes)' =
                    IF s \in ClearingStatuses THEN closed ELSE BallotsOf(vs)
  BY <1>5, <1>7, MoveOnBallots DEF ListingsInv
<1>8. ASSUME NEW right \in Votes, NEW wrong, RewardVoters(vs, v, right, wrong)
      PROVE  Ballots!Settle(b, v, right)
  <2>1. vs \in [VoteIds -> [Stages -> [Votes -> Seq(Users)]]] /\ Distinct(vs)
    BY <1>2 DEF Typed
  <2>2. Ballots!Settle(BallotsOf(vs)[v], v, right)
    BY <1>8, <2>1, BallotSettles
  <2> QED
    BY <1>2, <2>2
<1>9. /\ {"Updating", "Validated", "Rejected"} \subseteq ClearingStatuses
      /\ "Accept" \in Votes /\ "Reject" \in Votes
  BY DEF ClearingStatuses, Votes
<1>10. CASE /\ outcome = "Undecided" /\ UNCHANGED owedRewards
            /\ tokenListings' = ls /\ votes' = vs /\ UNCHANGED statusVars
  <2>1. CoeffsOf(tokenListings)' = CoeffsOf(tokenListings)
    BY <1>2, <1>10 DEF CoeffsOf, SameListings
  <2>2. BallotsOf(votes)' = BallotsOf(vs)
    BY <1>10 DEF BallotsOf
  <2> QED
    BY <1>2, <1>10, <2>1, <2>2, Zenon
       DEF CastOnBallots, statusVars, bs, b
<1>11. CASE /\ outcome = "Modify" /\ UNCHANGED owedRewards
            /\ UpdateListingStatus(ls, vs, v, "Updating")
  BY <1>2, <1>7, <1>9, <1>11, Zenon DEF CastOnBallots, bs, b, closed
<1>12. CASE /\ outcome = "Accepted" /\ RewardVoters(vs, v, "Accept", "Reject")
            /\ SaveToken(ls, vs, v)
            /\ UpdateListingStatus(saved, vs, v, "Validated")
  BY <1>2, <1>6, <1>7, <1>8, <1>9, <1>12, Zenon
     DEF CastOnBallots, bs, b, closed
<1>13. CASE /\ outcome = "Refused" /\ RewardVoters(vs, v, "Reject", "Accept")
            /\ UpdateListingStatus(ls, vs, v, "Rejected")
  BY <1>2, <1>7, <1>8, <1>9, <1>13, Zenon DEF CastOnBallots, bs, b, closed
<1> QED
  BY <1>3, <1>10, <1>11, <1>12, <1>13

(* The steps that are no votes.                                             *)
CallOnBallots ==
    LET bs == BallotsOf(votes)
        cs == CoeffsOf(tokenListings)
        Open(v) == IF cs'[v] >= PAYMENT_COEFF THEN "Sorting" ELSE "Pool"
    IN  /\ bs' = bs
        /\ \/ /\ UNCHANGED owedRewards
              /\ \E v \in VoteIds :
                     /\ cs' = [cs EXCEPT ![v] = cs'[v]]
                     /\ \/ /\ status[v] = "Init"
                           /\ status' = [status EXCEPT ![v] = Open(v)]
                        \/ /\ status[v] # "Init" /\ cs'[v] >= cs[v]
                           /\ status' = IF status[v] = "Pool"
                                        THEN [status EXCEPT ![v] = Open(v)]
                                        ELSE status
                        \/ /\ status[v] = "Updating" /\ cs' = cs
                           /\ status' = [status EXCEPT ![v] = "Sorting"]
           \/ /\ UNCHANGED status /\ cs' = cs
              /\ \/ UNCHANGED owedRewards
                 \/ \E u \in Users :
                        owedRewards' = [owedRewards EXCEPT ![u] = 0]

LEMMA CallIsCall ==
    ASSUME CallOnBallots PROVE [Ballots!Next]_(Ballots!ballotVars)
<1> DEFINE bs == BallotsOf(votes)
           cs == CoeffsOf(tokenListings)
           Open(v) == IF cs'[v] >= PAYMENT_COEFF THEN "Sorting" ELSE "Pool"
<1>1. ASSUME NEW v \in VoteIds, UNCHANGED owedRewards, bs' = bs,
             cs' = [cs EXCEPT ![v] = cs'[v]], status[v] = "Init",
             status' = [status EXCEPT ![v] = Open(v)]
      PROVE  Ballots!Submit(v)
  BY <1>1, Zenon DEF Ballots!Submit, Ballots!StatusFor, BallotsOf, CoeffsOf
<1>2. ASSUME NEW v \in VoteIds, UNCHANGED owedRewards, bs' = bs,
             cs' = [cs EXCEPT ![v] = cs'[v]], status[v] # "Init",
             cs'[v] >= cs[v],
             status' = IF status[v] = "Pool"
                       THEN [status EXCEPT ![v] = Open(v)] ELSE status
      PROVE  Ballots!Fund(v)
  BY <1>2, Zenon DEF Ballots!Fund, Ballots!StatusFor, BallotsOf, CoeffsOf
<1>3. ASSUME NEW v \in VoteIds, UNCHANGED owedRewards, bs' = bs, cs' = cs,
             status[v] = "Updating", status' = [status EXCEPT ![v] = "Sorting"]
      PROVE  Ballots!Resubmit(v)
  BY <1>3, Zenon DEF Ballots!Resubmit, BallotsOf, CoeffsOf
<1>4. ASSUME NEW u \in Users, owedRewards' = [owedRewards EXCEPT ![u] = 0],
             UNCHANGED status, bs' = bs, cs' = cs
      PROVE  Ballots!Claim(u)
  BY <1>4, Zenon DEF Ballots!Claim, BallotsOf, CoeffsOf
<1>5. ASSUME UNCHANGED <<status, owedRewards>>, bs' = bs, cs' = cs
      PROVE  UNCHANGED Ballots!ballotVars
  BY <1>5, Zenon DEF Ballots!ballotVars, BallotsOf, CoeffsOf
<1>6. CASE /\ bs' = bs /\ UNCHANGED owedRewards
           /\ \E v \in VoteIds :
                  /\ cs' = [cs EXCEPT ![v] = cs'[v]]
                  /\ \/ /\ status[v] = "Init"
                        /\ status' = [status EXCEPT ![v] = Open(v)]
                     \/ /\ status[v] # "Init" /\ cs'[v] >= cs[v]
                        /\ status' = IF status[v] = "Pool"
                                     THEN [status EXCEPT ![v] = Open(v)]
                                     ELSE status
                     \/ /\ status[v] = "Updating" /\ cs' = cs
                        /\ status' = [status EXCEPT ![v] = "Sorting"]
  <2> HIDE DEF bs, cs
  <2>1. \E v \in VoteIds : Ballots!Submit(v) \/ Ballots!Fund(v)
                           \/ Ballots!Resubmit(v)
    BY <1>1, <1>2, <1>3, <1>6, Zenon
  <2> QED
    BY <2>1, Zenon DEF Ballots!Next
<1>7. CASE /\ bs' = bs /\ UNCHANGED status /\ cs' = cs
           /\ \/ UNCHANGED owedRewards
              \/ \E u \in Users : owedRewards' = [owedRewards EXCEPT ![u] = 0]
  <2> HIDE DEF bs, cs
  <2> QED
    BY <1>4, <1>5, <1>7, Zenon DEF Ballots!Next
<1> QED
  BY <1>6, <1>7, Zenon DEF CallOnBallots

(* What is submitted has left Init for good.                                *)
SubmittedLeftInit == \A v \in Submitted : status[v] # "Init"

LEMMA SubmittedStayListed ==
    ASSUME ListingsInv, SubmittedLeftInit, [CallsNext]_listingsVars
    PROVE  SubmittedLeftInit'
<1>1. tokenListingsLength \in Nat /\ Submitted \subseteq VoteIds
  BY MaxListingsAssumption DEF ListingsInv, OthersTyped, Submitted, VoteIds
<1>2. ASSUME NEW v \in VoteIds, Arrives(v), \A w \in VoteIds \ {v} : Stands(w)
      PROVE  SubmittedLeftInit'
  <2>1. Submitted' = Submitted \cup {v} /\ status'[v] # "Init"
    BY <1>1, <1>2 DEF Arrives, Submitted
  <2> QED
    BY <1>1, <1>2, <2>1 DEF Stands, SubmittedLeftInit
<1>3. CASE UNCHANGED <<tokenListingsLength, nextTokenId>>
  <2>1. Submitted' = Submitted
    BY <1>3 DEF Submitted
  <2>2. ASSUME NEW v \in VoteIds, Changes(v), \A w \in VoteIds \ {v} : Stands(w)
        PROVE  SubmittedLeftInit'
    <3>1. v \in Submitted
      BY <1>1, <2>2 DEF Changes, Submitted, VoteIds
    <3>2. status'[v] # "Init"
      <4>1. CASE IsToppedUp(v)
        BY <3>1, <4>1 DEF IsToppedUp, SubmittedLeftInit
      <4>2. CASE IsUpdated(v) \/ IsOverridden(v)
        BY <4>2 DEF IsUpdated, IsOverridden
      <4>3. ASSUME NEW st \in Stages, IsVotedOn(v, st) PROVE status'[v] # "Init"
        BY <4>3 DEF IsVotedOn, Stages
      <4> QED
        BY <2>2, <4>1, <4>2, <4>3 DEF Changes
    <3> QED
      BY <1>1, <2>1, <2>2, <3>2 DEF Stands, SubmittedLeftInit
  <2> QED
    BY <1>1, <1>2, <1>3, <2>1, <2>2, StepEffect
       DEF Effects, Stands, SubmittedLeftInit
<1> QED
  BY <1>2, <1>3, StepEffect DEF Effects

LEMMA CallsOnBallots ==
    ASSUME OwnerMoves = {}, ListingsInv, ListingsInv', FreshIsInit,
           SubmittedLeftInit,
           CallStep \/ ClaimStep \/ OwnerStep \/ OutsideStep
               \/ UNCHANGED listingsVars
    PROVE  CallOnBallots
<1> DEFINE bs == BallotsOf(votes)
           cs == CoeffsOf(tokenListings)
<1>1. /\ DOMAIN status = VoteIds /\ DOMAIN status' = VoteIds
      /\ status = [w \in VoteIds |-> status[w]]
      /\ status' = [w \in VoteIds |-> status'[w]]
      /\ tokenListings \in [VoteIds -> Listing]
      /\ tokenListings' \in [VoteIds -> Listing]
      /\ tokenListingsLength \in Nat
  BY MaxListingsAssumption
     DEF ListingsInv, StatusArraysTypeOK, Sound, Typed, OthersTyped
<1>2. /\ \A w \in VoteIds : cs[w] = tokenListings[w].coeff
                           /\ cs'[w] = tokenListings'[w].coeff
      /\ cs = [w \in VoteIds |-> cs[w]] /\ cs' = [w \in VoteIds |-> cs'[w]]
      /\ DOMAIN cs = VoteIds /\ DOMAIN cs' = VoteIds
      /\ \A w \in VoteIds : cs[w] \in Nat /\ cs'[w] \in Nat
  BY <1>1 DEF CoeffsOf, Listing
<1>3. (\A w \in VoteIds : votes'[w] = votes[w]) => bs' = bs
  BY DEF BallotsOf
<1> HIDE DEF cs, bs
<1>4. ASSUME NEW v \in VoteIds, \A w \in VoteIds \ {v} : Stands(w)
      PROVE  /\ cs' = [cs EXCEPT ![v] = cs'[v]]
             /\ status' = [status EXCEPT ![v] = status'[v]]
             /\ votes'[v] = votes[v] => bs' = bs
  BY <1>1, <1>2, <1>3, <1>4 DEF Stands
<1>5. ASSUME UNCHANGED listingVars,
             UNCHANGED owedRewards
             \/ \E u \in Users : owedRewards' = [owedRewards EXCEPT ![u] = 0]
      PROVE  CallOnBallots
  <2>1. bs' = bs /\ cs' = cs /\ status' = status
    BY <1>2, <1>3, <1>5 DEF listingVars, statusVars, cs
  <2> QED
    BY <1>5, <2>1, Zenon DEF CallOnBallots, bs, cs
<1>6. ASSUME NEW caller, NEW user \in Users, NEW amount \in Nat, NEW tokenId \in Nat,
             SubmitTokenFor(caller, user, amount, tokenId)
      PROVE  CallOnBallots
  <2>1. UNCHANGED owedRewards
    BY <1>6 DEF SubmitTokenFor, rewardVars
  <2>2. PICK v \in VoteIds : Arrives(v) /\ \A w \in VoteIds \ {v} : Stands(w)
    BY <1>6, SubmitEffect
  <2>3. status[v] = "Init" /\ votes'[v] = votes[v]
    BY <1>1, <2>2 DEF Arrives, FreshIsInit, ListingsInv, Sound, Unused
  <2>4. status'[v] = IF cs'[v] >= PAYMENT_COEFF THEN "Sorting" ELSE "Pool"
    BY <1>2, <2>2 DEF Arrives, PAYMENT_COEFF
  <2>5. /\ bs' = bs /\ cs' = [cs EXCEPT ![v] = cs'[v]]
        /\ status' = [status EXCEPT ![v] =
               IF cs'[v] >= PAYMENT_COEFF THEN "Sorting" ELSE "Pool"]
    BY <1>4, <2>2, <2>3, <2>4
  <2> QED
    BY <2>1, <2>3, <2>5, Zenon DEF CallOnBallots, bs, cs
<1>7. ASSUME NEW caller, NEW user \in Users, NEW v \in VoteIds, NEW amount \in Nat,
             TopUpTokenFor(caller, user, v, amount)
      PROVE  CallOnBallots
  <2>1. UNCHANGED owedRewards /\ v \in Submitted
    BY <1>1, <1>7 DEF TopUpTokenFor, rewardVars, Submitted, VoteIds
  <2>2. IsToppedUp(v) /\ \A w \in VoteIds \ {v} : Stands(w)
    BY <1>7, TopUpEffect
  <2>3. /\ bs' = bs /\ cs' = [cs EXCEPT ![v] = cs'[v]]
        /\ status' = [status EXCEPT ![v] = status'[v]]
    BY <1>4, <2>2 DEF IsToppedUp
  <2>4. status[v] # "Init" /\ cs'[v] >= cs[v]
    BY <1>2, <2>1, <2>2 DEF SubmittedLeftInit, IsToppedUp
  <2>5. /\ status[v] = "Pool" => status'[v] =
               IF cs'[v] >= PAYMENT_COEFF THEN "Sorting" ELSE "Pool"
        /\ status[v] # "Pool" => status'[v] = status[v]
    BY <1>2, <2>2 DEF IsToppedUp
  <2>6. status' = IF status[v] = "Pool"
                  THEN [status EXCEPT ![v] =
                           IF cs'[v] >= PAYMENT_COEFF THEN "Sorting" ELSE "Pool"]
                  ELSE status
    BY <1>1, <2>3, <2>5
  <2> QED
    BY <2>1, <2>3, <2>4, <2>6, Zenon DEF CallOnBallots, bs, cs
<1>8. ASSUME NEW user \in Users, NEW v \in VoteIds, UpdateTokenFor(user, v)
      PROVE  CallOnBallots
  <2>1. UNCHANGED owedRewards
    BY <1>8 DEF UpdateTokenFor, rewardVars
  <2>2. IsUpdated(v) /\ \A w \in VoteIds \ {v} : Stands(w)
    BY <1>8, UpdateEffect
  <2>3. /\ bs' = bs /\ cs' = [cs EXCEPT ![v] = cs'[v]]
        /\ status' = [status EXCEPT ![v] = "Sorting"] /\ status[v] = "Updating"
    BY <1>4, <2>2 DEF IsUpdated
  <2>4. cs' = cs
    BY <1>2, <2>2, <2>3 DEF IsUpdated
  <2> QED
    BY <2>1, <2>3, <2>4, Zenon DEF CallOnBallots, bs, cs
<1>9. CASE CallStep
  BY <1>6, <1>7, <1>8, <1>9 DEF CallStep, CallsFor
<1>13. CASE ClaimStep
  BY <1>5, <1>13 DEF ClaimStep, ClaimRewards, DeleteOwed
<1>10. CASE OwnerStep
  BY <1>5, <1>10 DEF OwnerStep, UpdateParameter, WhitelistSubmitter,
                     WithdrawERC20Funds, rewardVars
<1>11. CASE OutsideStep
  BY <1>5, <1>11 DEF OutsideStep, Tick, RankChange, rewardVars
<1>12. CASE UNCHANGED listingsVars
  BY <1>5, <1>12 DEF listingsVars, rewardVars
<1> QED
  BY <1>9, <1>10, <1>11, <1>12, <1>13

(* As long as the owner neither moves listings nor changes the thresholds,  *)
(* the arrays, phases and indices implement two ballots per listing: each   *)
(* user is counted once, the vote that fills a ballot decides it, and a     *)
(* decided Validation pays every right voter of both ballots once.          *)
THEOREM ListingsImplementBallots ==
    ASSUME OwnerMoves = {}, ThresholdsStand
    PROVE  CallsSpec => ImplementsBallots
<1> DEFINE Inv == FreshIsInit /\ SubmittedLeftInit /\ ThresholdsAsDeployed
<1>1. ListingsInit => Inv
  BY DEF ListingsInit, StatusArraysInit, FreshIsInit, SubmittedLeftInit,
         Submitted, ThresholdsAsDeployed
<1>2. ListingsInv /\ Inv /\ [CallsNext]_listingsVars => Inv'
  <2> SUFFICES ASSUME ListingsInv, Inv, [CallsNext]_listingsVars
               PROVE  Inv'
    OBVIOUS
  <2>1. ThresholdsAsDeployed'
    BY SettingStands DEF ThresholdsStand, ThresholdsAsDeployed, Thresholds,
                         Percentages, Parameters
  <2> QED
    BY <2>1, FreshStays, SubmittedStayListed
<1>3. ListingsInit => Ballots!Init
  <2> SUFFICES ASSUME ListingsInit PROVE Ballots!Init
    OBVIOUS
  <2>1. \A v \in VoteIds : /\ tokenListings[v].coeff = 0
                           /\ votes[v] = NoVotes
    BY DEF ListingsInit, EmptyListing
  <2>2. \A v \in VoteIds :
            [st \in Stages |-> BallotOf(votes[v][st])] = Ballots!NoBallots
    BY <2>1, NoBallotsFound DEF Ballots!NoBallots, Ballots!Stages, Stages
  <2>3. /\ [v \in VoteIds |-> tokenListings[v].coeff] = [v \in VoteIds |-> 0]
        /\ [v \in VoteIds |-> [st \in Stages |-> BallotOf(votes[v][st])]]
           = [v \in VoteIds |-> Ballots!NoBallots]
    BY <2>1, <2>2
  <2> QED
    BY <2>3, Zenon DEF ListingsInit, StatusArraysInit, Ballots!Init
<1>4. ListingsInv /\ Inv /\ [CallsNext]_listingsVars
      => [Ballots!Next]_(Ballots!ballotVars)
  <2> SUFFICES ASSUME ListingsInv, Inv, [CallsNext]_listingsVars
               PROVE  [Ballots!Next]_(Ballots!ballotVars)
    OBVIOUS
  <2>1. CASE VoterStep
    <3>1. PICK user \in Users, v \in VoteIds, vote \in Votes,
               score \in Scores \cup {0} :
              \/ VoteSorting(user, v, vote, score)
              \/ VoteValidation(user, v, vote, score)
      BY <2>1 DEF VoterStep
    <3>2. score \in Nat
      BY ListingsAssumption
    <3>3. \E st \in Stages : CastOnBallots(user, v, st, vote)
      BY <3>1, <3>2, VoteSortingCasts, VoteValidationCasts DEF Stages
    <3>4. \E st \in Stages : Ballots!Cast(user, v, st, vote)
      BY <3>3, CastIsCast
    <3> QED
      BY <3>4, Zenon DEF Ballots!Next, Ballots!Stages, Ballots!Votes, Stages, Votes
  <2>2. CASE CallStep \/ ClaimStep \/ OwnerStep \/ OutsideStep
            \/ UNCHANGED listingsVars
    BY <2>2, StepPreserves, CallsOnBallots, CallIsCall
  <2> QED
    BY <2>1, <2>2, CallCases
<1> HIDE DEF Inv
<1> QED
  BY <1>1, <1>2, <1>3, <1>4, InvAlways, PTL
     DEF CallsSpec, ImplementsBallots, Ballots!Spec

=============================================================================
