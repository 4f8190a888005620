--------------------------- MODULE StakingProofs ---------------------------
(***************************************************************************)
(* Proofs about the vault for any users, amounts and rates: the array of   *)
(* stakers stays in step with the balances, hence a rate change settles    *)
(* everybody it must and no earned reward is lost or repriced.  The vault  *)
(* covers the stakes, and the total locked is their sum.                   *)
(***************************************************************************)
EXTENDS Staking, DataLemmas

(* Products and quotients of the reward formula. *)
LEMMA ProductNat ==
    ASSUME NEW a \in Nat, NEW b \in Nat
    PROVE  a * b \in Nat
OBVIOUS

LEMMA QuotientNat ==
    ASSUME NEW a \in Nat, NEW n \in Nat \ {0}
    PROVE  a \div n \in Nat
OBVIOUS

LEMMA ZeroQuotient ==
    ASSUME NEW n \in Nat \ {0}
    PROVE  0 \div n = 0
OBVIOUS

LEMMA ZeroProducts ==
    ASSUME NEW a \in Nat, NEW b \in Nat
    PROVE  a * b * 0 = 0 /\ 0 * a * b = 0
OBVIOUS

LEMMA EarnedNat ==
    ASSUME StakingTypeOK, NEW u \in Users
    PROVE  Accrued(u) \in Nat /\ getRewardsEarned(u) \in Nat
<1>1. /\ balance[u] \in Nat
      /\ rewardsPerSAFUPerBlock \in Nat
      /\ blockNumber - lastUpdate[u] \in Nat
      /\ stakersRewards[u] \in Nat
  BY DEF StakingTypeOK
<1>2. balance[u] * rewardsPerSAFUPerBlock \in Nat
  BY <1>1, ProductNat
<1>3. balance[u] * rewardsPerSAFUPerBlock * (blockNumber - lastUpdate[u]) \in Nat
  BY <1>1, <1>2, ProductNat
<1>4. Accrued(u) \in Nat
  BY <1>3, QuotientNat, StakingAssumption DEF Accrued
<1> QED
  BY <1>1, <1>4 DEF getRewardsEarned

(* Nothing has accrued to a user who was settled in this block or who has   *)
(* no stake.                                                                *)
LEMMA NothingAccrued ==
    ASSUME StakingTypeOK, NEW u \in Users,
           lastUpdate[u] = blockNumber \/ balance[u] = 0
    PROVE  Accrued(u) = 0
<1>1. /\ balance[u] \in Nat
      /\ rewardsPerSAFUPerBlock \in Nat
      /\ blockNumber \in Nat
      /\ blockNumber - lastUpdate[u] \in Nat
  BY DEF StakingTypeOK
<1>2. CASE lastUpdate[u] = blockNumber
  <2>1. blockNumber - lastUpdate[u] = 0
    BY <1>1, <1>2
  <2>2. balance[u] * rewardsPerSAFUPerBlock * 0 = 0
    BY <1>1, ZeroProducts
  <2> QED
    BY <2>1, <2>2, ZeroQuotient, StakingAssumption DEF Accrued
<1>3. CASE balance[u] = 0
  <2>1. 0 * rewardsPerSAFUPerBlock * (blockNumber - lastUpdate[u]) = 0
    BY <1>1, ZeroProducts
  <2> QED
    BY <1>3, <2>1, ZeroQuotient, StakingAssumption DEF Accrued
<1> QED
  BY <1>2, <1>3

-----------------------------------------------------------------------------
(* The array of stakers *)

LEMMA AddStakerPreserves ==
    ASSUME StakingTypeOK, StakersConsistent, NEW u \in Users,
           NEW amount \in Nat \ {0},
           balance[u] = 0, addStaker(u),
           balance' = [balance EXCEPT ![u] = @ + amount]
    PROVE  /\ stakers' \in Seq(Users)
           /\ stakerIndexes' \in [Users -> Nat]
           /\ StakersConsistent'
<1> DEFINE n == Len(stakers)
<1>1. n \in Nat /\ stakers \in Seq(Users)
  BY LenProperties DEF StakingTypeOK
<1>2. /\ stakers' \in Seq(Users)
      /\ Len(stakers') = n + 1
      /\ \A i \in 1..n : stakers'[i] = stakers[i]
      /\ stakers'[n + 1] = u
  BY <1>1, AppendProperties DEF addStaker
<1>3. /\ stakerIndexes' \in [Users -> Nat]
      /\ stakerIndexes'[u] = n
      /\ \A w \in Users \ {u} : stakerIndexes'[w] = stakerIndexes[w]
  BY <1>1 DEF addStaker, StakingTypeOK
<1>4. /\ balance'[u] > 0
      /\ \A w \in Users \ {u} : balance'[w] = balance[w]
  BY DEF StakingTypeOK
<1> HIDE DEF n
<1>5. ASSUME NEW w \in Users, balance'[w] > 0
      PROVE  /\ stakerIndexes'[w] < Len(stakers')
             /\ stakers'[stakerIndexes'[w] + 1] = w
  <2>1. CASE w = u
    BY <1>1, <1>2, <1>3, <2>1
  <2>2. CASE w # u
    <3>1. /\ stakerIndexes[w] \in Nat
          /\ stakerIndexes[w] < n
          /\ stakers[stakerIndexes[w] + 1] = w
      BY <1>4, <1>5, <2>2 DEF StakersConsistent, IndexedStakers, StakingTypeOK, n
    <3> QED
      BY <1>1, <1>2, <1>3, <2>2, <3>1
  <2> QED
    BY <2>1, <2>2
<1>6. ASSUME NEW i \in 1..Len(stakers')
      PROVE  balance'[stakers'[i]] > 0 /\ stakerIndexes'[stakers'[i]] + 1 = i
  <2>1. CASE i = n + 1
    BY <1>1, <1>2, <1>3, <1>4, <2>1
  <2>2. CASE i # n + 1
    <3>1. i \in 1..n /\ stakers'[i] = stakers[i] /\ stakers[i] \in Users
      BY <1>1, <1>2, <2>2, ElementOfSeq DEF n
    <3>2. balance[stakers[i]] > 0 /\ stakerIndexes[stakers[i]] + 1 = i
      BY <3>1 DEF StakersConsistent, StakersHoldStakes, n
    <3> QED
      BY <1>3, <1>4, <3>1, <3>2
  <2> QED
    BY <2>1, <2>2
<1> QED
  BY <1>2, <1>3, <1>5, <1>6 DEF StakersConsistent, IndexedStakers,
     StakersHoldStakes

LEMMA RemoveStakerPreserves ==
    ASSUME StakingTypeOK, StakersConsistent, NEW u \in Users,
           balance[u] > 0, removeStaker(u),
           balance' = [balance EXCEPT ![u] = 0]
    PROVE  /\ stakers' \in Seq(Users)
           /\ stakerIndexes' \in [Users -> Nat]
           /\ StakersConsistent'
<1> DEFINE n == Len(stakers)
           p == stakerIndexes[u]
           last == stakers[n]
<1>1. n \in Nat /\ stakers \in Seq(Users)
  BY LenProperties DEF StakingTypeOK
<1>2. p \in Nat /\ p < n /\ stakers[p + 1] = u
  BY DEF StakingTypeOK, StakersConsistent, IndexedStakers
<1>3. n \in 1..Len(stakers) /\ last \in Users
  BY <1>1, <1>2, ElementOfSeq
<1>4. balance[last] > 0 /\ stakerIndexes[last] + 1 = n
  BY <1>3 DEF StakersConsistent, StakersHoldStakes
<1>5. /\ stakers' \in Seq(Users)
      /\ Len(stakers') = n - 1
      /\ \A i \in 1..(n - 1) :
             stakers'[i] = IF i = p + 1 THEN last ELSE stakers[i]
  BY <1>1, <1>2, SwapAndPopProperties DEF removeStaker
<1>6. /\ stakerIndexes' \in [Users -> Nat]
      /\ \A w \in Users :
             stakerIndexes'[w] = IF w = last THEN p ELSE stakerIndexes[w]
  BY <1>2, <1>3 DEF removeStaker, IndexesWithout, LastOf, StakingTypeOK
<1>7. /\ balance'[u] = 0
      /\ \A w \in Users \ {u} : balance'[w] = balance[w]
  BY DEF StakingTypeOK
<1>8. \A w \in Users : stakerIndexes[w] \in Nat
  BY DEF StakingTypeOK
<1>9. \A w \in Users : balance[w] > 0 =>
          stakerIndexes[w] < n /\ stakers[stakerIndexes[w] + 1] = w
  BY DEF StakersConsistent, IndexedStakers
<1>10. \A i \in 1..n : /\ balance[stakers[i]] > 0
                       /\ stakerIndexes[stakers[i]] + 1 = i
                       /\ stakers[i] \in Users
  BY <1>1, ElementOfSeq DEF StakersConsistent, StakersHoldStakes
<1>0. p = stakerIndexes[u] /\ last = stakers[n]
  OBVIOUS
<1> HIDE DEF n, p, last
<1>11. ASSUME NEW w \in Users, balance'[w] > 0
       PROVE  /\ stakerIndexes'[w] < Len(stakers')
              /\ stakers'[stakerIndexes'[w] + 1] = w
  <2>1. /\ w # u /\ balance[w] > 0
        /\ stakerIndexes[w] \in Nat /\ stakerIndexes[w] < n
        /\ stakers[stakerIndexes[w] + 1] = w
    BY <1>7, <1>8, <1>9, <1>11
  <2>2. CASE w = last
    <3>1. p + 1 # n
      BY <1>0, <1>2, <2>1, <2>2
    <3> QED
      BY <1>1, <1>2, <1>5, <1>6, <2>2, <3>1
  <2>3. CASE w # last
    <3>1. stakerIndexes[w] + 1 # n /\ stakerIndexes[w] + 1 # p + 1
      BY <1>0, <1>2, <2>1, <2>3
    <3>2. stakerIndexes[w] + 1 \in 1..(n - 1)
      BY <1>1, <2>1, <3>1
    <3> QED
      BY <1>1, <1>2, <1>5, <1>6, <2>1, <2>3, <3>1, <3>2
  <2> QED
    BY <2>2, <2>3
<1>12. ASSUME NEW i \in 1..Len(stakers')
       PROVE  balance'[stakers'[i]] > 0 /\ stakerIndexes'[stakers'[i]] + 1 = i
  <2>1. i \in 1..(n - 1) /\ i \in 1..n /\ i # n
    BY <1>1, <1>5, <1>12
  <2>2. CASE i = p + 1
    <3>1. stakers'[i] = last
      BY <1>5, <2>1, <2>2
    <3>2. last # u
      BY <1>0, <1>1, <1>2, <1>4, <2>1, <2>2
    <3> QED
      BY <1>3, <1>4, <1>6, <1>7, <2>2, <3>1, <3>2
  <2>3. CASE i # p + 1
    <3>1. stakers'[i] = stakers[i]
      BY <1>5, <2>1, <2>3
    <3>2. stakers[i] # u /\ stakers[i] # last
      BY <1>0, <1>1, <1>2, <1>4, <1>10, <2>1, <2>3
    <3> QED
      BY <1>6, <1>7, <1>10, <2>1, <3>1, <3>2
  <2> QED
    BY <2>2, <2>3
<1> QED
  BY <1>5, <1>6, <1>11, <1>12 DEF StakersConsistent, IndexedStakers,
     StakersHoldStakes

(* A call that changes neither the array nor who has a stake. *)
LEMMA SameStakersPreserve ==
    ASSUME StakingTypeOK, StakersConsistent, UNCHANGED stakerVars,
           \A u \in Users : balance'[u] > 0 <=> balance[u] > 0
    PROVE  StakersConsistent'
<1>1. \A i \in 1..Len(stakers) : stakers[i] \in Users
  BY ElementOfSeq DEF StakingTypeOK
<1> QED
  BY <1>1 DEF StakersConsistent, IndexedStakers, StakersHoldStakes, stakerVars

-----------------------------------------------------------------------------
(* The invariant *)

StakingInv ==
    /\ StakingTypeOK
    /\ StakersConsistent
    /\ StakesAreBacked

LEMMA TransferMoves ==
    ASSUME StakingTypeOK, NEW from \in Users \cup {Vault},
           NEW to \in Users \cup {Vault}, from # to, NEW amount \in Nat,
           Transfer(from, to, amount)
    PROVE  /\ safu' \in [Users \cup {Vault} -> Nat]
           /\ safu'[from] = safu[from] - amount
           /\ safu'[to] = safu[to] + amount
<1> DEFINE paid == [safu EXCEPT ![from] = @ - amount]
<1>1. /\ safu \in [Users \cup {Vault} -> Nat]
      /\ safu[from] >= amount
      /\ safu' = [safu EXCEPT ![from] = @ - amount, ![to] = @ + amount]
  BY DEF Transfer, StakingTypeOK
<1>2. safu' = [paid EXCEPT ![to] = @ + amount]
  BY <1>1, Zenon DEF paid
<1>3. /\ safu[from] - amount \in Nat
      /\ paid \in [Users \cup {Vault} -> Nat]
      /\ paid[from] = safu[from] - amount
      /\ paid[to] = safu[to]
  BY <1>1 DEF paid
<1> HIDE DEF paid
<1> QED
  BY <1>2, <1>3

(* The terms of StakesAreBacked are numbers, with which SMT reckons. *)
LEMMA BackedTypes ==
    ASSUME StakingInv
    PROVE  /\ safu[Vault] \in Nat /\ rewardsPaid \in Nat
           /\ totalLocked \in Nat /\ sent \in Nat
           /\ safu[Vault] + rewardsPaid = totalLocked + sent
BY DEF StakingInv, StakingTypeOK, StakesAreBacked

LEMMA StakePreserves ==
    ASSUME StakingInv, NEW u \in Users, NEW amount \in Nat, stake(u, amount)
    PROVE  StakingInv'
<1>1. StakingTypeOK /\ StakersConsistent /\ StakesAreBacked
  BY DEF StakingInv
<1>2. u # Vault
  BY StakingAssumption
<1>0. Transfer(u, Vault, amount)
  BY DEF stake
<1>3. /\ safu' \in [Users \cup {Vault} -> Nat]
      /\ safu'[Vault] = safu[Vault] + amount
  BY <1>0, <1>1, <1>2, TransferMoves
<1>4. getRewardsEarned(u) \in Nat
  BY <1>1, EarnedNat
<1>5. /\ amount \in Nat \ {0}
      /\ balance' = [balance EXCEPT ![u] = @ + amount]
      /\ lastUpdate' = [lastUpdate EXCEPT ![u] = blockNumber]
      /\ blockNumber' = blockNumber
  BY DEF stake, Settle
<1>6. stakersRewards' \in [Users -> Nat]
  BY <1>1, <1>4 DEF stake, Settle, StakingTypeOK
<1>7. /\ stakers' \in Seq(Users)
      /\ stakerIndexes' \in [Users -> Nat]
      /\ StakersConsistent'
  <2>1. CASE balance[u] > 0
    <3>1. UNCHANGED stakerVars
      BY <1>1, <2>1 DEF stake, StakingTypeOK
    <3>2. \A w \in Users : balance'[w] > 0 <=> balance[w] > 0
      BY <1>1, <1>5, <2>1 DEF StakingTypeOK
    <3> QED
      BY <1>1, <3>1, <3>2, SameStakersPreserve DEF stakerVars, StakingTypeOK
  <2>2. CASE balance[u] = 0
    <3>1. addStaker(u)
      BY <2>2 DEF stake
    <3> QED
      BY <1>1, <1>5, <2>2, <3>1, AddStakerPreserves
  <2> QED
    BY <1>1, <2>1, <2>2 DEF StakingTypeOK
<1>8. /\ balance' \in [Users -> Nat]
      /\ totalLocked' = totalLocked + amount
      /\ UNCHANGED <<rewardsPerSAFUPerBlock, sent, rewardsPaid, blockNumber>>
  BY <1>1, <1>5 DEF StakingTypeOK, stake
<1>9. StakingTypeOK'
  <2>1. /\ lastUpdate' \in [Users -> Nat]
        /\ \A w \in Users : lastUpdate'[w] <= blockNumber'
    BY <1>1, <1>5 DEF StakingTypeOK
  <2> QED
    BY <1>1, <1>3, <1>6, <1>7, <1>8, <2>1 DEF StakingTypeOK
<1>10. StakesAreBacked'
  BY <1>3, <1>8, BackedTypes DEF StakesAreBacked
<1> QED
  BY <1>7, <1>9, <1>10 DEF StakingInv

LEMMA WithdrawPreserves ==
    ASSUME StakingInv, NEW u \in Users, NEW amount \in Nat, withdraw(u, amount)
    PROVE  StakingInv'
<1>1. StakingTypeOK /\ StakersConsistent /\ StakesAreBacked
  BY DEF StakingInv
<1>2. u # Vault
  BY StakingAssumption
<1>3. /\ safu' \in [Users \cup {Vault} -> Nat]
      /\ safu'[Vault] = safu[Vault] - amount
  BY <1>1, <1>2, TransferMoves DEF withdraw
<1>4. getRewardsEarned(u) \in Nat
  BY <1>1, EarnedNat
<1>5. /\ amount \in Nat \ {0} /\ amount <= balance[u]
      /\ balance' = [balance EXCEPT ![u] = @ - amount]
      /\ balance[u] \in Nat
      /\ lastUpdate' = [lastUpdate EXCEPT ![u] = blockNumber]
      /\ blockNumber' = blockNumber
  BY <1>1 DEF withdraw, Settle, StakingTypeOK
<1>6. stakersRewards' \in [Users -> Nat]
  BY <1>1, <1>4 DEF withdraw, Settle, StakingTypeOK
<1>7. /\ stakers' \in Seq(Users)
      /\ stakerIndexes' \in [Users -> Nat]
      /\ StakersConsistent'
  <2>1. CASE balance[u] # amount
    <3>1. UNCHANGED stakerVars
      BY <2>1 DEF withdraw
    <3>2. \A w \in Users : balance'[w] > 0 <=> balance[w] > 0
      BY <1>1, <1>5, <2>1 DEF StakingTypeOK
    <3> QED
      BY <1>1, <3>1, <3>2, SameStakersPreserve DEF stakerVars, StakingTypeOK
  <2>2. CASE balance[u] = amount
    <3>1. removeStaker(u) /\ balance[u] > 0
      BY <1>5, <2>2 DEF withdraw
    <3>2. balance' = [balance EXCEPT ![u] = 0]
      BY <1>1, <1>5, <2>2 DEF StakingTypeOK
    <3> QED
      BY <1>1, <3>1, <3>2, RemoveStakerPreserves
  <2> QED
    BY <2>1, <2>2
<1>8. balance' \in [Users -> Nat]
  BY <1>1, <1>5 DEF StakingTypeOK
<1>9. /\ totalLocked' = totalLocked - amount /\ totalLocked' \in Nat
      /\ UNCHANGED <<rewardsPerSAFUPerBlock, sent, rewardsPaid, blockNumber>>
  BY <1>1 DEF withdraw, LockedWithout, StakingTypeOK
<1>10. StakingTypeOK'
  <2>1. /\ lastUpdate' \in [Users -> Nat]
        /\ \A w \in Users : lastUpdate'[w] <= blockNumber'
    BY <1>1, <1>5 DEF StakingTypeOK
  <2> QED
    BY <1>1, <1>3, <1>6, <1>7, <1>8, <1>9, <2>1 DEF StakingTypeOK
<1>11. StakesAreBacked'
  BY <1>3, <1>9, BackedTypes DEF StakesAreBacked
<1> QED
  BY <1>7, <1>10, <1>11 DEF StakingInv

LEMMA ClaimPreserves ==
    ASSUME StakingInv, NEW u \in Users, claim(u)
    PROVE  StakingInv'
<1>1. StakingTypeOK /\ StakersConsistent /\ StakesAreBacked
  BY DEF StakingInv
<1>2. u # Vault /\ getRewardsEarned(u) \in Nat
  BY <1>1, EarnedNat, StakingAssumption
<1> DEFINE paid == getRewardsEarned(u)
<1>3. /\ safu' \in [Users \cup {Vault} -> Nat]
      /\ safu'[Vault] = safu[Vault] - paid
      /\ rewardsPaid' = rewardsPaid + paid
  BY <1>1, <1>2, TransferMoves DEF claim
<1>4. paid \in Nat
  BY <1>2
<1> HIDE DEF paid
<1>5. StakingTypeOK'
  BY <1>1, <1>3, <1>4 DEF StakingTypeOK, claim, stakerVars
<1>6. StakersConsistent'
  BY <1>1, SameStakersPreserve DEF claim
<1>7. StakesAreBacked'
  BY <1>3, <1>4, BackedTypes DEF StakesAreBacked, claim
<1> QED
  BY <1>5, <1>6, <1>7 DEF StakingInv

LEMMA ModifyRewardsPreserves ==
    ASSUME StakingInv, NEW rate \in Nat, modifyRewards(rate)
    PROVE  StakingInv'
<1>1. StakingTypeOK /\ StakersConsistent /\ StakesAreBacked
  BY DEF StakingInv
<1>2. \A u \in Users : getRewardsEarned(u) \in Nat
  BY <1>1, EarnedNat
<1>3. stakersRewards' \in [Users -> Nat]
  BY <1>1, <1>2 DEF modifyRewards, StakingTypeOK
<1>4. /\ lastUpdate' \in [Users -> Nat]
      /\ \A u \in Users : lastUpdate'[u] <= blockNumber
  BY <1>1 DEF modifyRewards, StakingTypeOK
<1>5. StakingTypeOK'
  BY <1>1, <1>3, <1>4 DEF StakingTypeOK, modifyRewards, stakerVars, tokenVars
<1>6. StakersConsistent'
  BY <1>1, SameStakersPreserve DEF modifyRewards
<1>7. StakesAreBacked'
  BY <1>1 DEF StakesAreBacked, modifyRewards, tokenVars
<1> QED
  BY <1>5, <1>6, <1>7 DEF StakingInv

LEMMA SendRewardsPreserves ==
    ASSUME StakingInv, NEW u \in Users, NEW amount \in Nat,
           SendRewards(u, amount)
    PROVE  StakingInv'
<1>1. StakingTypeOK /\ StakersConsistent /\ StakesAreBacked
  BY DEF StakingInv
<1>2. u # Vault
  BY StakingAssumption
<1>3. /\ safu' \in [Users \cup {Vault} -> Nat]
      /\ safu'[Vault] = safu[Vault] + amount
  BY <1>1, <1>2, TransferMoves DEF SendRewards
<1>4. StakingTypeOK'
  BY <1>1, <1>3 DEF StakingTypeOK, SendRewards, vaultVars
<1>5. StakersConsistent'
  BY <1>1, SameStakersPreserve DEF SendRewards, vaultVars, stakerVars
<1>6. StakesAreBacked'
  BY <1>3, BackedTypes DEF StakesAreBacked, SendRewards, vaultVars
<1> QED
  BY <1>4, <1>5, <1>6 DEF StakingInv

LEMMA StakingInvInductive ==
    StakingInv /\ [StakingNext]_stakingVars => StakingInv'
<1> SUFFICES ASSUME StakingInv, [StakingNext]_stakingVars
             PROVE  StakingInv'
  OBVIOUS
<1>1. Amounts \subseteq Nat /\ Rates \subseteq Nat
  BY StakingAssumption
<1>2. CASE StakerStep
  <2>1. PICK u \in Users :
            \/ \E amount \in Amounts : stake(u, amount) \/ withdraw(u, amount)
            \/ claim(u)
    BY <1>2 DEF StakerStep
  <2> QED
    BY <1>1, <2>1, StakePreserves, WithdrawPreserves, ClaimPreserves
<1>3. CASE FundingStep
  BY <1>1, <1>3, SendRewardsPreserves DEF FundingStep
<1>4. CASE RateStep
  BY <1>1, <1>4, ModifyRewardsPreserves DEF RateStep
<1>5. CASE NextBlock \/ UNCHANGED stakingVars
  <2>1. /\ UNCHANGED <<vaultVars, tokenVars>>
        /\ blockNumber' = blockNumber \/ blockNumber' = blockNumber + 1
    BY <1>5 DEF NextBlock, stakingVars
  <2>2. StakingTypeOK'
    BY <2>1 DEF StakingInv, StakingTypeOK, vaultVars, tokenVars
  <2>3. StakersConsistent'
    BY <2>1, SameStakersPreserve DEF StakingInv, vaultVars, stakerVars
  <2>4. StakesAreBacked'
    BY <2>1 DEF StakingInv, StakesAreBacked, vaultVars, tokenVars
  <2> QED
    BY <2>2, <2>3, <2>4 DEF StakingInv
<1> QED
  BY <1>2, <1>3, <1>4, <1>5 DEF StakingNext

LEMMA StakingInvInitially == StakingInit => StakingInv
<1> SUFFICES ASSUME StakingInit
             PROVE  StakingInv
  OBVIOUS
<1>1. StakingTypeOK
  BY StakingAssumption, EmptySeq DEF StakingInit, StakingTypeOK
<1>2. Len(stakers) = 0 /\ \A u \in Users : ~(balance[u] > 0)
  BY DEF StakingInit
<1>3. StakersConsistent
  BY <1>2 DEF StakersConsistent, IndexedStakers, StakersHoldStakes
<1>4. StakesAreBacked
  BY DEF StakingInit, StakesAreBacked
<1> QED
  BY <1>1, <1>3, <1>4 DEF StakingInv

LEMMA StakingIsSafe == StakingSpec => []StakingInv
BY StakingInvInitially, StakingInvInductive, PTL DEF StakingSpec

(* Every variable of the vault keeps its type, and no settlement lies ahead *)
(* of the block.                                                            *)
THEOREM StakingTypes == StakingSpec => []StakingTypeOK
<1>1. StakingInv => StakingTypeOK
  BY DEF StakingInv
<1> QED
  BY <1>1, StakingIsSafe, PTL

(* The array of stakers and the indexes agree with the balances, whoever    *)
(* stakes and withdraws in which order.                                     *)
THEOREM StakersAreConsistent == StakingSpec => []StakersConsistent
<1>1. StakingInv => StakersConsistent
  BY DEF StakingInv
<1> QED
  BY <1>1, StakingIsSafe, PTL

(* The vault holds every stake while no more rewards were paid than sent.   *)
THEOREM StakesStayBacked == StakingSpec => []StakesAreBacked
<1>1. StakingInv => StakesAreBacked
  BY DEF StakingInv
<1> QED
  BY <1>1, StakingIsSafe, PTL

-----------------------------------------------------------------------------
(* Earned rewards *)

(* A user whom a call settles has earned what was earned before. *)
LEMMA SettlementKeeps ==
    ASSUME StakingTypeOK, StakingTypeOK', NEW u \in Users,
           blockNumber' = blockNumber,
           lastUpdate'[u] = blockNumber,
           stakersRewards'[u] = getRewardsEarned(u)
    PROVE  getRewardsEarned(u)' = getRewardsEarned(u)
<1>1. /\ balance'[u] \in Nat
      /\ rewardsPerSAFUPerBlock' \in Nat
      /\ blockNumber' - lastUpdate'[u] = 0
  BY DEF StakingTypeOK
<1>2. balance'[u] * rewardsPerSAFUPerBlock' * 0 = 0
  BY <1>1, ZeroProducts
<1>3. Accrued(u)' = 0
  BY <1>1, <1>2, ZeroQuotient, StakingAssumption DEF Accrued
<1>4. getRewardsEarned(u)' = stakersRewards'[u] + Accrued(u)'
  BY DEF getRewardsEarned
<1>5. getRewardsEarned(u) \in Nat
  BY EarnedNat
<1> HIDE DEF getRewardsEarned, Accrued
<1> QED
  BY <1>3, <1>4, <1>5

(* A user whom a call does not touch, or who has no stake before and is not *)
(* rewarded for the blocks before the first one.                            *)
LEMMA UntouchedKeeps ==
    ASSUME NEW u \in Users,
           blockNumber' = blockNumber,
           rewardsPerSAFUPerBlock' = rewardsPerSAFUPerBlock,
           balance'[u] = balance[u],
           lastUpdate'[u] = lastUpdate[u],
           stakersRewards'[u] = stakersRewards[u]
    PROVE  getRewardsEarned(u)' = getRewardsEarned(u)
BY DEF getRewardsEarned, Accrued

LEMMA StakelessKeeps ==
    ASSUME StakingTypeOK, StakingTypeOK', NEW u \in Users,
           balance[u] = 0,
           lastUpdate'[u] = blockNumber' \/ balance'[u] = 0,
           stakersRewards'[u] = stakersRewards[u]
    PROVE  getRewardsEarned(u)' = getRewardsEarned(u)
<1>1. /\ balance'[u] \in Nat
      /\ rewardsPerSAFUPerBlock' \in Nat
      /\ blockNumber' - lastUpdate'[u] \in Nat
      /\ lastUpdate'[u] = blockNumber' => blockNumber' - lastUpdate'[u] = 0
  BY DEF StakingTypeOK
<1>2. Accrued(u)' = 0
  <2>1. balance'[u] * rewardsPerSAFUPerBlock' * 0 = 0
    BY <1>1, ZeroProducts
  <2>2. 0 * rewardsPerSAFUPerBlock' * (blockNumber' - lastUpdate'[u]) = 0
    BY <1>1, ZeroProducts
  <2> QED
    BY <1>1, <2>1, <2>2, ZeroQuotient, StakingAssumption DEF Accrued
<1>3. Accrued(u) = 0
  BY NothingAccrued
<1> HIDE DEF Accrued
<1> QED
  BY <1>2, <1>3 DEF getRewardsEarned

(* stake, withdraw and claim of u, seen by any user w. *)
LEMMA StakerStepKeepsEarned ==
    ASSUME StakingInv, StakingInv', NEW u \in Users, NEW amount \in Nat,
           stake(u, amount) \/ withdraw(u, amount) \/ claim(u),
           NEW w \in Users
    PROVE  getRewardsEarned(w)' = getRewardsEarned(w) \/ Claimed(w)
<1>1. StakingTypeOK /\ StakingTypeOK'
  BY DEF StakingInv
<1>2. CASE w # u
  <2>1. /\ blockNumber' = blockNumber
        /\ rewardsPerSAFUPerBlock' = rewardsPerSAFUPerBlock
        /\ balance'[w] = balance[w]
        /\ lastUpdate'[w] = lastUpdate[w]
        /\ stakersRewards'[w] = stakersRewards[w]
    BY <1>1, <1>2 DEF stake, withdraw, claim, Settle, StakingTypeOK
  <2> QED
    BY <2>1, UntouchedKeeps
<1>3. CASE w = u /\ (\/ stake(u, amount) /\ balance[u] > 0
                    \/ withdraw(u, amount))
  <2>1. Settle(u) /\ blockNumber' = blockNumber
    BY <1>1, <1>3 DEF stake, withdraw, StakingTypeOK
  <2>2. /\ lastUpdate'[u] = blockNumber
        /\ stakersRewards'[u] = getRewardsEarned(u)
    BY <1>1, <2>1 DEF Settle, StakingTypeOK
  <2> QED
    BY <1>1, <1>3, <2>1, <2>2, SettlementKeeps
<1>4. CASE w = u /\ stake(u, amount) /\ balance[u] = 0
  <2>1. /\ lastUpdate' = [lastUpdate EXCEPT ![u] = blockNumber]
        /\ UNCHANGED stakersRewards
        /\ blockNumber' = blockNumber
    BY <1>4 DEF stake
  <2>2. lastUpdate'[u] = blockNumber'
    BY <1>1, <2>1 DEF StakingTypeOK
  <2> QED
    BY <1>1, <1>4, <2>1, <2>2, StakelessKeeps
<1>5. CASE w = u /\ claim(u)
  <2>1. getRewardsEarned(u) \in Nat /\ u # Vault
    BY <1>1, EarnedNat, StakingAssumption
  <2>2. safu'[u] = safu[u] + getRewardsEarned(u)
    BY <1>1, <1>5, <2>1, TransferMoves DEF claim
  <2>3. /\ stakersRewards'[u] = 0
        /\ balance'[u] \in Nat
        /\ rewardsPerSAFUPerBlock' \in Nat
        /\ blockNumber' - lastUpdate'[u] = 0
    BY <1>1, <1>5 DEF claim, StakingTypeOK
  <2>4. balance'[u] * rewardsPerSAFUPerBlock' * 0 = 0
    BY <2>3, ZeroProducts
  <2>5. getRewardsEarned(u)' = 0
    BY <2>3, <2>4, ZeroQuotient, StakingAssumption
       DEF getRewardsEarned, Accrued
  <2> QED
    BY <1>5, <2>2, <2>5 DEF Claimed
<1>6. balance[u] > 0 \/ balance[u] = 0
  <2>1. balance[u] \in Nat
    BY <1>1 DEF StakingTypeOK
  <2> QED
    BY <2>1
<1> QED
  BY <1>2, <1>3, <1>4, <1>5, <1>6

(* The owner's rate change, seen by any user w: whoever is not in the array *)
(* has no stake, so that the new rate has nothing to act on.                *)
LEMMA ModifyRewardsKeepsEarned ==
    ASSUME StakingInv, StakingInv', NEW rate \in Nat, modifyRewards(rate),
           NEW w \in Users
    PROVE  getRewardsEarned(w)' = getRewardsEarned(w)
<1>1. StakingTypeOK /\ StakingTypeOK' /\ StakersConsistent
  BY DEF StakingInv
<1>2. /\ blockNumber' = blockNumber /\ balance' = balance
      /\ lastUpdate'[w] = IF w \in Settled THEN blockNumber ELSE lastUpdate[w]
      /\ stakersRewards'[w] = IF w \in Settled THEN getRewardsEarned(w)
                                              ELSE stakersRewards[w]
  BY DEF modifyRewards
<1>3. CASE w \in Settled
  BY <1>1, <1>2, <1>3, SettlementKeeps
<1>4. CASE w \notin Settled
  <2>1. balance[w] = 0
    <3>0. balance[w] \in Nat
      BY <1>1 DEF StakingTypeOK
    <3>1. SUFFICES ASSUME balance[w] > 0
                   PROVE  FALSE
      BY <3>0
    <3>2. /\ stakerIndexes[w] \in Nat
          /\ stakerIndexes[w] < Len(stakers)
          /\ stakers[stakerIndexes[w] + 1] = w
          /\ Len(stakers) \in Nat
      BY <1>1, <3>1, LenProperties DEF StakersConsistent, IndexedStakers,
         StakingTypeOK
    <3>3. stakerIndexes[w] + 1 \in 1..Len(stakers)
      BY <3>2
    <3> QED
      BY <1>4, <3>2, <3>3 DEF Settled
  <2> QED
    BY <1>1, <1>2, <1>4, <2>1, StakelessKeeps
<1> QED
  BY <1>3, <1>4

(* No call changes what anybody has earned, a claim of the own rewards      *)
(* excepted: rates are never applied to blocks that have passed.            *)
THEOREM RewardsAreKept == StakingSpec => EarnedIsKept
<1>1. StakingInv /\ StakingInv' /\ [StakingNext]_stakingVars =>
          [blockNumber' = blockNumber =>
              \A u \in Users :
                  getRewardsEarned(u)' = getRewardsEarned(u) \/ Claimed(u)]_stakingVars
  <2> SUFFICES ASSUME StakingInv, StakingInv', StakingNext,
                      blockNumber' = blockNumber, NEW w \in Users
               PROVE  getRewardsEarned(w)' = getRewardsEarned(w) \/ Claimed(w)
    OBVIOUS
  <2>1. Amounts \subseteq Nat /\ Rates \subseteq Nat
    BY StakingAssumption
  <2>2. CASE StakerStep
    <3>1. PICK u \in Users :
              \/ \E amount \in Amounts : stake(u, amount) \/ withdraw(u, amount)
              \/ claim(u)
      BY <2>2 DEF StakerStep
    <3>2. CASE \E amount \in Amounts : stake(u, amount) \/ withdraw(u, amount)
      BY <2>1, <3>2, StakerStepKeepsEarned
    <3>3. CASE claim(u)
      <4>1. 0 \in Nat
        OBVIOUS
      <4> QED
        BY <3>3, <4>1, StakerStepKeepsEarned
    <3> QED
      BY <3>1, <3>2, <3>3
  <2>3. CASE FundingStep
    <3>1. UNCHANGED vaultVars
      BY <2>3 DEF FundingStep, SendRewards
    <3> QED
      BY <3>1, UntouchedKeeps DEF vaultVars
  <2>4. CASE RateStep
    BY <2>1, <2>4, ModifyRewardsKeepsEarned DEF RateStep
  <2>5. CASE NextBlock
    BY <2>5 DEF NextBlock, StakingInv, StakingTypeOK
  <2> QED
    BY <2>2, <2>3, <2>4, <2>5 DEF StakingNext
<1> QED
  BY <1>1, StakingIsSafe, PTL DEF StakingSpec, EarnedIsKept

-----------------------------------------------------------------------------
(* The sum of the stakes *)

(* The sum moves as the stake of a user does. *)
LEMMA StakeMovesSum ==
    ASSUME IsFiniteSet(Users), NEW b \in [Users -> Nat], NEW c \in [Users -> Nat],
           NEW u \in Users, \A w \in Users \ {u} : c[w] = b[w]
    PROVE  SumFunction(c) = SumFunction(b) + c[u] - b[u]
<1>1. \A w \in Users : b[w] \in Int /\ c[w] \in Int
  OBVIOUS
<1>2. SumFunctionOnSet(c, Users) = SumFunctionOnSet(b, Users) + c[u] - b[u]
  BY <1>1, SumChanged
<1>3. DOMAIN b = Users /\ DOMAIN c = Users
  OBVIOUS
<1> QED
  BY <1>2, <1>3 DEF SumFunction

LEMMA LockedInitially ==
    ASSUME IsFiniteSet(Users), StakingInit
    PROVE  LockedIsSum
<1>1. balance = [u \in Users |-> 0] /\ totalLocked = 0
  BY DEF StakingInit
<1>2. SumFunctionOnSet(balance, Users) = 0
  BY <1>1, SumZero
<1>3. SumFunction(balance) = 0
  BY <1>1, <1>2 DEF SumFunction
<1> QED
  BY <1>1, <1>3, StakingAssumption DEF LockedIsSum

LEMMA LockedPreserved ==
    ASSUME IsFiniteSet(Users), StakingInv, StakingInv', LockedIsSum,
           [StakingNext]_stakingVars
    PROVE  LockedIsSum'
<1>1. /\ balance \in [Users -> Nat] /\ balance' \in [Users -> Nat]
      /\ totalLocked \in Nat
      /\ totalLocked = SumFunction(balance) /\ totalLocked <= maximumLocked
  BY DEF StakingInv, StakingTypeOK, LockedIsSum
<1>2. Amounts \subseteq Nat /\ maximumLocked \in Nat
  BY StakingAssumption
<1>3. ASSUME NEW u \in Users, NEW amount \in Amounts, stake(u, amount)
      PROVE  LockedIsSum'
  <2>1. /\ balance' = [balance EXCEPT ![u] = @ + amount]
        /\ totalLocked' = totalLocked + amount
        /\ totalLocked + amount <= maximumLocked
    BY <1>3 DEF stake
  <2>2. SumFunction(balance') = SumFunction(balance) + balance'[u] - balance[u]
    BY <1>1, <2>1, StakeMovesSum
  <2>3. balance'[u] = balance[u] + amount /\ balance[u] \in Nat /\ amount \in Nat
    BY <1>1, <1>2, <2>1
  <2>4. totalLocked' = SumFunction(balance')
    BY <1>1, <2>1, <2>2, <2>3
  <2> QED
    BY <2>1, <2>4 DEF LockedIsSum
<1>4. ASSUME NEW u \in Users, NEW amount \in Amounts, withdraw(u, amount)
      PROVE  LockedIsSum'
  <2>1. /\ balance' = [balance EXCEPT ![u] = @ - amount]
        /\ totalLocked' = totalLocked - amount
    BY <1>4 DEF withdraw, LockedWithout
  <2>2. SumFunction(balance') = SumFunction(balance) + balance'[u] - balance[u]
    BY <1>1, <2>1, StakeMovesSum
  <2>3. balance'[u] = balance[u] - amount /\ balance[u] \in Nat /\ amount \in Nat
    BY <1>1, <1>2, <2>1
  <2>4. totalLocked' = SumFunction(balance') /\ totalLocked' <= maximumLocked
    BY <1>1, <1>2, <2>1, <2>2, <2>3
  <2> QED
    BY <2>4 DEF LockedIsSum
<1>5. CASE UNCHANGED <<balance, totalLocked>>
  BY <1>1, <1>5 DEF LockedIsSum
<1>6. CASE \E u \in Users : claim(u)
  BY <1>5, <1>6 DEF claim
<1>7. CASE FundingStep \/ RateStep \/ NextBlock \/ UNCHANGED stakingVars
  BY <1>5, <1>7 DEF FundingStep, RateStep, SendRewards, modifyRewards,
                    NextBlock, stakingVars, vaultVars
<1> QED
  BY <1>3, <1>4, <1>6, <1>7 DEF StakingNext, StakerStep

(* totalLocked is the sum of the stakes of all users and never beyond the   *)
(* cap: the checked subtraction of withdraw refuses nobody, and the cap     *)
(* holds for what is really locked.                                         *)
THEOREM LockedStaysSum ==
    ASSUME IsFiniteSet(Users)
    PROVE  StakingSpec => []LockedIsSum
<1>1. StakingInit => LockedIsSum
  BY LockedInitially
<1>2. /\ StakingInv /\ StakingInv' /\ LockedIsSum /\ [StakingNext]_stakingVars
      => LockedIsSum'
  BY LockedPreserved
<1> QED
  BY <1>1, <1>2, StakingIsSafe, PTL DEF StakingSpec

=============================================================================
