------------------------------- MODULE Staking -------------------------------
(***************************************************************************)
(* The vault of src/src/Staking.sol: users lock SAFU and earn SAFU for     *)
(* each block.  What a user has earned is settled lazily, whenever the     *)
(* user calls or the owner changes the rate, so the rate in force must be  *)
(* applied to every staker before it changes: modifyRewards walks the      *)
(* array of stakers, which stake and withdraw keep by swap and pop.        *)
(*                                                                         *)
(* One step is one transaction; the conditions under which the code        *)
(* reverts, overdrawn transfers included, are the negated guards.  SAFU is *)
(* an external ERC20 whose transfers revert when the payer has too little. *)
(***************************************************************************)
EXTENDS Arrays

CONSTANTS
    Users,            \* accounts that call the vault
    Vault,            \* the account of the vault
    maximumLocked,    \* the cap on stakes, which has no setter
    RewardUnit,       \* 1e9: the rate is in billionths of a SAFU
    InitialSafu,      \* SAFU each user holds at the deployment
    Amounts,          \* bound: amounts staked, withdrawn or sent
    Rates,            \* bound: rates the owner sets
    MaxSent,          \* bound: SAFU sent to the vault as rewards
    MaxBlock          \* bound: block numbers

ASSUME StakingAssumption ==
    /\ Vault \notin Users
    /\ maximumLocked \in Nat
    /\ RewardUnit \in Nat \ {0}
    /\ InitialSafu \in Nat
    /\ Amounts \subseteq Nat
    /\ Rates \subseteq Nat
    /\ MaxSent \in Nat
    /\ MaxBlock \in Nat

VARIABLES
    balance,                  \* user -> SAFU locked
    stakersRewards,           \* user -> rewards settled and not claimed
    lastUpdate,               \* user -> block of the last settlement
    stakers,                  \* the array of users with a stake
    stakerIndexes,            \* user -> position in that array
    totalLocked,
    rewardsPerSAFUPerBlock,
    safu,                     \* account -> SAFU held (the external token)
    sent,                     \* history: SAFU sent to the vault as rewards
    rewardsPaid,              \* history: SAFU paid out as rewards
    blockNumber

stakerVars == <<stakers, stakerIndexes>>
vaultVars == <<balance, stakersRewards, lastUpdate, stakers, stakerIndexes,
               totalLocked, rewardsPerSAFUPerBlock>>
tokenVars == <<safu, sent, rewardsPaid>>
stakingVars == <<vaultVars, tokenVars, blockNumber>>

StakingInit ==
    /\ balance = [u \in Users |-> 0]
    /\ stakersRewards = [u \in Users |-> 0]
    /\ lastUpdate = [u \in Users |-> 0]
    /\ stakers = <<>>
    /\ stakerIndexes = [u \in Users |-> 0]
    /\ totalLocked = 0
    /\ rewardsPerSAFUPerBlock = 0
    /\ safu = [a \in Users \cup {Vault} |-> IF a = Vault THEN 0 ELSE InitialSafu]
    /\ sent = 0
    /\ rewardsPaid = 0
    /\ blockNumber = 1

(* What u earned since the last settlement, and in all. *)
Accrued(u) ==
    (balance[u] * rewardsPerSAFUPerBlock * (blockNumber - lastUpdate[u]))
        \div RewardUnit

getRewardsEarned(u) == stakersRewards[u] + Accrued(u)

(* The users a rate change settles.  Mutant: the loop stops one short. *)
SettledButLast == {stakers[i] : i \in 1..(Len(stakers) - 1)}
Settled == {stakers[i] : i \in 1..Len(stakers)}

(* removeStaker: the last staker is written over the one that leaves and    *)
(* takes over its index.  Mutant: it keeps its own.                         *)
IndexesUnmoved(u) == stakerIndexes
IndexesWithout(u) == [stakerIndexes EXCEPT ![LastOf(stakers)] = stakerIndexes[u]]

addStaker(u) ==
    /\ stakerIndexes' = [stakerIndexes EXCEPT ![u] = Len(stakers)]
    /\ stakers' = Append(stakers, u)

removeStaker(u) ==
    /\ stakers' = SwapAndPop(stakers, stakerIndexes[u])
    /\ stakerIndexes' = IndexesWithout(u)

Transfer(from, to, amount) ==
    /\ safu[from] >= amount
    /\ safu' = [safu EXCEPT ![from] = @ - amount, ![to] = @ + amount]

(* The settlement of one user, as stake, withdraw and claim make it.        *)
(* Mutant: the current block counts as settled as well.                     *)
SettleAhead(u) ==
    /\ lastUpdate' = [lastUpdate EXCEPT ![u] = blockNumber + 1]
    /\ stakersRewards' = [stakersRewards EXCEPT ![u] = getRewardsEarned(u)]

Settle(u) ==
    /\ lastUpdate' = [lastUpdate EXCEPT ![u] = blockNumber]
    /\ stakersRewards' = [stakersRewards EXCEPT ![u] = getRewardsEarned(u)]

stake(u, amount) ==
    /\ amount > 0
    /\ totalLocked + amount <= maximumLocked
    /\ Transfer(u, Vault, amount)
    /\ totalLocked' = totalLocked + amount
    /\ \/ /\ balance[u] > 0
          /\ Settle(u)
          /\ UNCHANGED stakerVars
       \/ /\ balance[u] = 0
          /\ lastUpdate' = [lastUpdate EXCEPT ![u] = blockNumber]
          /\ addStaker(u)
          /\ UNCHANGED stakersRewards
    /\ balance' = [balance EXCEPT ![u] = @ + amount]
    /\ UNCHANGED <<rewardsPerSAFUPerBlock, sent, rewardsPaid, blockNumber>>

(* What is left of the stakes.  Mutant: totalLocked is not lowered. *)
LockedAsBefore(amount) == totalLocked
LockedWithout(amount) == totalLocked - amount

withdraw(u, amount) ==
    /\ amount > 0
    /\ amount <= balance[u]
    /\ Settle(u)
    /\ balance' = [balance EXCEPT ![u] = @ - amount]
    /\ \/ balance[u] = amount /\ removeStaker(u)
       \/ balance[u] # amount /\ UNCHANGED stakerVars
    /\ Transfer(Vault, u, amount)
    /\ totalLocked >= amount
    /\ totalLocked' = LockedWithout(amount)
    /\ UNCHANGED <<rewardsPerSAFUPerBlock, sent, rewardsPaid, blockNumber>>

claim(u) ==
    /\ getRewardsEarned(u) > 0
    /\ Transfer(Vault, u, getRewardsEarned(u))
    /\ lastUpdate' = [lastUpdate EXCEPT ![u] = blockNumber]
    /\ stakersRewards' = [stakersRewards EXCEPT ![u] = 0]
    /\ rewardsPaid' = rewardsPaid + getRewardsEarned(u)
    /\ UNCHANGED <<balance, stakerVars, totalLocked, rewardsPerSAFUPerBlock,
                   sent, blockNumber>>

(* The owner's call.  A staker met twice would be settled once: the second  *)
(* settlement of a block adds nothing.                                      *)
modifyRewards(rate) ==
    /\ lastUpdate' = [u \in Users |->
           IF u \in Settled THEN blockNumber ELSE lastUpdate[u]]
    /\ stakersRewards' = [u \in Users |->
           IF u \in Settled THEN getRewardsEarned(u) ELSE stakersRewards[u]]
    /\ rewardsPerSAFUPerBlock' = rate
    /\ UNCHANGED <<balance, stakerVars, totalLocked, tokenVars, blockNumber>>

(* Rewards reach the vault as ordinary transfers, of which it keeps no      *)
(* record.                                                                  *)
SendRewards(u, amount) ==
    /\ sent + amount <= MaxSent
    /\ Transfer(u, Vault, amount)
    /\ sent' = sent + amount
    /\ UNCHANGED <<vaultVars, rewardsPaid, blockNumber>>

NextBlock ==
    /\ blockNumber < MaxBlock
    /\ blockNumber' = blockNumber + 1
    /\ UNCHANGED <<vaultVars, tokenVars>>

StakerStep ==
    \E u \in Users :
        \/ \E amount \in Amounts : stake(u, amount) \/ withdraw(u, amount)
        \/ claim(u)

FundingStep == \E u \in Users, amount \in Amounts : SendRewards(u, amount)

RateStep == \E rate \in Rates : modifyRewards(rate)

StakingNext == StakerStep \/ FundingStep \/ RateStep \/ NextBlock

StakingSpec == StakingInit /\ [][StakingNext]_stakingVars

-----------------------------------------------------------------------------
(* Properties *)

StakingTypeOK ==
    /\ balance \in [Users -> Nat]
    /\ stakersRewards \in [Users -> Nat]
    /\ lastUpdate \in [Users -> Nat]
    /\ stakers \in Seq(Users)
    /\ stakerIndexes \in [Users -> Nat]
    /\ totalLocked \in Nat
    /\ rewardsPerSAFUPerBlock \in Nat
    /\ safu \in [Users \cup {Vault} -> Nat]
    /\ sent \in Nat
    /\ rewardsPaid \in Nat
    /\ blockNumber \in Nat
    /\ \A u \in Users : lastUpdate[u] <= blockNumber

(* The array holds exactly the users with a stake, each once, at the index  *)
(* that is remembered: a rate change settles everybody it must.  The index  *)
(* of a user who left is stale, and addStaker must not rely on it.          *)
IndexedStakers ==
    \A u \in Users : balance[u] > 0 =>
        /\ stakerIndexes[u] < Len(stakers)
        /\ stakers[stakerIndexes[u] + 1] = u
StakersHoldStakes ==
    \A i \in 1..Len(stakers) :
        /\ balance[stakers[i]] > 0
        /\ stakerIndexes[stakers[i]] + 1 = i
StakersConsistent == IndexedStakers /\ StakersHoldStakes

(* Settlement is invisible: between two blocks no call, of the user, of     *)
(* another user or of the owner, changes what a user has earned, except a   *)
(* claim, which pays all of it.  In particular a new rate is never applied  *)
(* to blocks that have passed, and no settlement is made twice.             *)
Claimed(u) ==
    /\ getRewardsEarned(u)' = 0
    /\ safu'[u] = safu[u] + getRewardsEarned(u)
EarnedIsKept ==
    [][blockNumber' = blockNumber =>
          \A u \in Users :
              getRewardsEarned(u)' = getRewardsEarned(u) \/ Claimed(u)]_stakingVars

(* The vault pays rewards from the balance that holds the stakes.  It has   *)
(* enough for every stake exactly while no more rewards were paid than were *)
(* sent to it: nothing else eats into the stakes, and no stake is paid out  *)
(* twice.                                                                   *)
StakesAreBacked == safu[Vault] + rewardsPaid = totalLocked + sent

(* totalLocked, which caps new stakes and is lowered by a checked           *)
(* subtraction, is the sum of the stakes: no withdrawal is refused for it,  *)
(* and the cap holds for what is really locked.                             *)
LockedIsSum ==
    /\ totalLocked = SumFunction(balance)
    /\ totalLocked <= maximumLocked

=============================================================================
