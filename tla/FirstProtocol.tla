---------------------------- MODULE FirstProtocol ----------------------------
(***************************************************************************)
(* src/src/ProtocolProxy.sol, the protocol before MobulaTokensProtocol:    *)
(* tokens wait in two arrays, one for each of two votes, and are found     *)
(* through mappings from their id to their position.  Nothing deletes the  *)
(* position of a token that left, nor the votes on record for its id; an   *)
(* id may come back, because a submitter may name the asset to edit.       *)
(*                                                                         *)
(* One step is one transaction; what reverts, array accesses out of bounds *)
(* included, is a negated guard.  The owner's parameters are constants.    *)
(* Scores, hashes and the payment itself are left out: no other state      *)
(* depends on them once the call succeeds.  API and MOBL are external.     *)
(***************************************************************************)
EXTENDS Arrays

CONSTANTS
    Users, Contracts,
    submitFloorPrice, voteCooldown, tokensPerVote,
    MaxVotes,            \* stage -> firstSortMaxVotes, finalDecisionMaxVotes
    ValidationsNeeded,   \* stage -> votes that validate
    votesNeeded,         \* rank change -> votes it takes
    InitialRanks,        \* ranks the owner gave out first
    InitialMembers,      \* rank change -> quota the owner set
    InitialMobl,         \* MOBL held by the protocol
    RankMovers,          \* bound: users promoted and demoted
    Payments,            \* bound: amounts paid for a submission
    MaxSubmissions,      \* bound: submissions
    MaxOnRecord,         \* bound: votes on record
    MaxTally,            \* bound: promotion votes for a user
    MaxTime              \* bound: block.timestamp

Stages == {"First", "Final"}
RankChanges == {"ToRankI", "ToRankII", "FromRankI", "FromRankII"}

ASSUME FirstProtocolAssumption ==
    /\ submitFloorPrice \in Nat \ {0}
    /\ voteCooldown \in Nat /\ tokensPerVote \in Nat
    /\ MaxVotes \in [Stages -> Nat]
    /\ ValidationsNeeded \in [Stages -> Nat]
    /\ votesNeeded \in [RankChanges -> Nat \ {0}]
    /\ InitialRanks \subseteq [Users -> 0..2]
    /\ InitialMembers \in [RankChanges -> Nat]
    /\ InitialMobl \in Nat
    /\ RankMovers \subseteq Users
    /\ Payments \subseteq Nat
    /\ MaxSubmissions \in Nat /\ MaxOnRecord \in Nat
    /\ MaxTally \in Nat /\ MaxTime \in Nat

TokenIds == 0..MaxSubmissions

VARIABLES
    submitted,        \* the length of submittedTokens
    pending,          \* stage -> firstSortTokens, finalValidationTokens
    indexOf,          \* stage -> id -> indexOfFirstSortTokens, ...
    voted,            \* stage -> user -> id -> firstSortVotes, ...
    onRecord,         \* stage -> validate -> id -> tokenFirstValidations, ...
    good, bad,        \* stage -> user -> goodFirstVotes, ...
    owedRewards, paidRewards,
    assets,           \* calls of ProtocolAPI.addAssetData (external)
    mobl,             \* MOBL the protocol holds (external)
    rank, promoteVotes, demoteVotes,
    members,          \* rank change -> membersToPromoteToRankI, ...
    now               \* block.timestamp

tokenVars == <<submitted, pending, indexOf, assets>>
voteVars == <<voted, onRecord>>
rewardVars == <<good, bad, owedRewards, paidRewards, mobl>>
rankVars == <<rank, promoteVotes, demoteVotes, members>>
firstVars == <<tokenVars, voteVars, rewardVars, rankVars, now>>

Zero == [u \in Users |-> 0]

FirstInit ==
    /\ submitted = 0
    /\ pending = [s \in Stages |-> <<>>]
    /\ indexOf = [s \in Stages |-> [t \in TokenIds |-> 0]]
    /\ voted = [s \in Stages |-> [u \in Users |-> [t \in TokenIds |-> FALSE]]]
    /\ onRecord = [s \in Stages |-> [v \in BOOLEAN |-> [t \in TokenIds |-> <<>>]]]
    /\ good = [s \in Stages |-> Zero]
    /\ bad = [s \in Stages |-> Zero]
    /\ owedRewards = Zero /\ paidRewards = Zero
    /\ assets = 0
    /\ mobl = InitialMobl
    /\ rank \in InitialRanks
    /\ promoteVotes = Zero /\ demoteVotes = Zero
    /\ members = InitialMembers
    /\ now = 1

-----------------------------------------------------------------------------
(* The two arrays of pending tokens *)

Found(stage, id) == indexOf[stage][id] < Len(pending[stage])
At(stage, id) == pending[stage][indexOf[stage][id] + 1]

(* Swap and pop: the last token moves to the position, index included.      *)
(* Mutants: the array is only popped; its index is forgotten.               *)
IndexUnmoved(stage, position) == indexOf[stage]
PendingKept(stage, position) == pending[stage]

PendingWithout(stage, position) == SwapAndPop(pending[stage], position)
IndexWithout(stage, position) ==
    [indexOf[stage] EXCEPT ![LastOf(pending[stage]).id] = position]

(* Nobody else is listing one of the contracts.  Mutant: only the first     *)
(* array is searched.                                                       *)
FreeInFirstSort(contracts) ==
    \A i \in DOMAIN pending["First"] : pending["First"][i].contracts \cap contracts = {}
ContractsFree(contracts) ==
    \A s \in Stages : \A i \in DOMAIN pending[s] :
        pending[s][i].contracts \cap contracts = {}

Coeff(payment) == (payment * 1000) \div submitFloorPrice

submitIPFS(contracts, payment, assetId) ==
    LET id == IF assetId = 0 THEN submitted ELSE assetId
        token == [id |-> id, contracts |-> contracts, lastUpdate |-> now,
                  coeff |-> Coeff(payment)]
    IN  /\ submitted < MaxSubmissions
        /\ contracts # {}
        /\ payment >= submitFloorPrice
        /\ ContractsFree(contracts)
        /\ submitted' = submitted + 1
        /\ indexOf' = [indexOf EXCEPT !["First"][id] = Len(pending["First"])]
        /\ pending' = [pending EXCEPT !["First"] = Append(@, token)]
        /\ UNCHANGED <<assets, voteVars, rewardVars, rankVars, now>>

-----------------------------------------------------------------------------
(* Votes *)

VotesOnRecord ==
    MapThenSumSet(LAMBDA v : Len(onRecord[v[1]][v[2]][v[3]]),
                  Stages \X BOOLEAN \X TokenIds)

(* The vote goes on record under the id, whatever token is found under it. *)
CastVote(stage, u, id, validate) ==
    /\ ~voted[stage][u][id]
    /\ VotesOnRecord < MaxOnRecord
    /\ onRecord' = [onRecord EXCEPT ![stage][validate][id] = Append(@, u)]

Filled(stage, id) ==
    Len(onRecord'[stage][TRUE][id]) + Len(onRecord'[stage][FALSE][id])
        >= MaxVotes[stage]
Validated(stage, id) == Len(onRecord'[stage][TRUE][id]) >= ValidationsNeeded[stage]

Marked(stage, u, id) == [voted EXCEPT ![stage][u][id] = TRUE]

firstSortVote(u, id, validate) ==
    LET position == indexOf["First"][id]
        left == PendingWithout("First", position)
        index == IndexWithout("First", position)
    IN  /\ rank[u] >= 1
        /\ Found("First", id)
        /\ now > At("First", id).lastUpdate + voteCooldown
        /\ CastVote("First", u, id, validate)
        /\ voted' = Marked("First", u, id)
        /\ \/ /\ ~Filled("First", id)
              /\ UNCHANGED <<pending, indexOf>>
           \/ /\ Filled("First", id) /\ Validated("First", id)
              /\ pending' = [First |-> left,
                             Final |-> Append(pending["Final"], At("First", id))]
              /\ indexOf' = [First |-> index,
                             Final |-> [indexOf["Final"] EXCEPT
                                            ![id] = Len(pending["Final"])]]
           \/ /\ Filled("First", id) /\ ~Validated("First", id)
              /\ pending' = [pending EXCEPT !["First"] = left]
              /\ indexOf' = [indexOf EXCEPT !["First"] = index]
        /\ UNCHANGED <<submitted, assets, rewardVars, rankVars, now>>

Times(u, voters) == Cardinality({i \in DOMAIN voters : voters[i] = u})

(* The i-th right voter's reward goes to the i-th user who validated in the *)
(* first vote, whichever vote was right.  Mutant: only the first votes pay. *)
RewardedFirst(u, id, verdict) ==
    Times(u, SubSeq(onRecord'["First"][TRUE][id], 1,
                    Len(onRecord'["First"][verdict][id])))

Rewarded(u, id, verdict) ==
    LET receivers == onRecord'["First"][TRUE][id]
        Paid(stage) ==
            Times(u, SubSeq(receivers, 1, Len(onRecord'[stage][verdict][id])))
    IN  Paid("First") + 2 * Paid("Final")

(* The verdict reads receivers out of bounds if the right voters of a stage *)
(* outnumber them.                                                          *)
HasReceivers(id, verdict) ==
    \A s \in Stages :
        Len(onRecord'[s][verdict][id]) <= Len(onRecord'["First"][TRUE][id])

(* The marks of the voters on record are deleted, the record is kept. *)
Unmarked(marks, id) ==
    [s \in Stages |-> [u \in Users |-> [t \in TokenIds |->
        /\ marks[s][u][t]
        /\ ~(t = id /\ \E v \in BOOLEAN : Times(u, onRecord'[s][v][id]) > 0)]]]

Verdict(id) ==
    LET verdict == Validated("Final", id)
        position == indexOf["Final"][id]
        Judged(tally, v) ==
            [s \in Stages |-> [u \in Users |->
                tally[s][u] + Times(u, onRecord'[s][v][id])]]
    IN  /\ HasReceivers(id, verdict)
        /\ good' = Judged(good, verdict)
        /\ bad' = Judged(bad, ~verdict)
        /\ owedRewards' = [u \in Users |-> owedRewards[u] +
               At("Final", id).coeff * Rewarded(u, id, verdict)]
        /\ assets' = IF verdict THEN assets + 1 ELSE assets
        /\ pending' = [pending EXCEPT !["Final"] = PendingWithout("Final", position)]
        /\ indexOf' = [indexOf EXCEPT !["Final"] = IndexWithout("Final", position)]

finalDecisionVote(u, id, validate) ==
    /\ rank[u] >= 2
    /\ Found("Final", id)
    /\ CastVote("Final", u, id, validate)
    /\ \/ /\ ~Filled("Final", id)
          /\ voted' = Marked("Final", u, id)
          /\ UNCHANGED <<pending, indexOf, assets, good, bad, owedRewards>>
       \/ /\ Filled("Final", id)
          /\ voted' = Unmarked(Marked("Final", u, id), id)
          /\ Verdict(id)
    /\ UNCHANGED <<submitted, paidRewards, mobl, rankVars, now>>

claimRewards(u) ==
    LET amountToPay == (owedRewards[u] - paidRewards[u]) * tokensPerVote
    IN  /\ amountToPay > 0
        /\ mobl >= amountToPay \div 1000
        /\ paidRewards' = [paidRewards EXCEPT ![u] = owedRewards[u]]
        /\ mobl' = mobl - amountToPay \div 1000
        /\ UNCHANGED <<tokenVars, voteVars, good, bad, owedRewards, rankVars, now>>

(* The loops stop at the first token with the id, in each array. *)
Killed(stage, id) ==
    {i \in DOMAIN pending[stage] :
        /\ pending[stage][i].id = id
        /\ \A j \in 1..(i - 1) : pending[stage][j].id # id}

emergencyKillRequest(id) ==
    /\ pending' = [s \in Stages |->
           IF Killed(s, id) = {} THEN pending[s]
           ELSE PendingWithout(s, (CHOOSE i \in Killed(s, id) : TRUE) - 1)]
    /\ indexOf' = [s \in Stages |->
           IF Killed(s, id) = {} THEN indexOf[s]
           ELSE IndexWithout(s, (CHOOSE i \in Killed(s, id) : TRUE) - 1)]
    /\ UNCHANGED <<submitted, assets, voteVars, rewardVars, rankVars, now>>

-----------------------------------------------------------------------------
(* Hierarchy *)

Promotion(u) == IF rank[u] = 0 THEN "ToRankI" ELSE "ToRankII"

(* demote tests for rank 0 after it has required rank 1, so both ranks are  *)
(* demoted from the quota and by the votes of Rank II.                      *)
Demotion(u) == "FromRankII"

(* Mutant: the quota is not looked at. *)
AnyQuota(change) == TRUE
HasQuota(change) == members[change] > 0

promote(u, promoted) ==
    LET change == Promotion(promoted)
        tally == promoteVotes[promoted] + 1
    IN  /\ rank[u] >= 2 /\ rank[promoted] <= 1
        /\ HasQuota(change)
        /\ tally <= MaxTally
        /\ \/ /\ tally = votesNeeded[change]
              /\ members' = [members EXCEPT ![change] = @ - 1]
              /\ promoteVotes' = [promoteVotes EXCEPT ![promoted] = 0]
              /\ rank' = [rank EXCEPT ![promoted] = @ + 1]
           \/ /\ tally # votesNeeded[change]
              /\ promoteVotes' = [promoteVotes EXCEPT ![promoted] = tally]
              /\ UNCHANGED <<members, rank>>
        /\ UNCHANGED <<tokenVars, voteVars, rewardVars, demoteVotes, now>>

demote(u, demoted) ==
    LET change == Demotion(demoted)
        tally == demoteVotes[demoted] + 1
    IN  /\ rank[u] >= 2 /\ rank[demoted] >= 1
        /\ HasQuota(change)
        /\ \/ /\ tally = votesNeeded[change]
              /\ members' = [members EXCEPT ![change] = @ - 1]
              /\ demoteVotes' = [demoteVotes EXCEPT ![demoted] = 0]
              /\ rank' = [rank EXCEPT ![demoted] = @ - 1]
           \/ /\ tally # votesNeeded[change]
              /\ demoteVotes' = [demoteVotes EXCEPT ![demoted] = tally]
              /\ UNCHANGED <<members, rank>>
        /\ UNCHANGED <<tokenVars, voteVars, rewardVars, promoteVotes, now>>

emergencyPromote(promoted) ==
    /\ rank[promoted] <= 1
    /\ rank' = [rank EXCEPT ![promoted] = @ + 1]
    /\ UNCHANGED <<tokenVars, voteVars, rewardVars, promoteVotes, demoteVotes,
                   members, now>>

emergencyDemote(demoted) ==
    /\ rank[demoted] >= 1
    /\ rank' = [rank EXCEPT ![demoted] = @ - 1]
    /\ UNCHANGED <<tokenVars, voteVars, rewardVars, promoteVotes, demoteVotes,
                   members, now>>

-----------------------------------------------------------------------------
Tick ==
    /\ now < MaxTime
    /\ now' = now + 1
    /\ UNCHANGED <<tokenVars, voteVars, rewardVars, rankVars>>

SubmitterStep ==
    \E contracts \in SUBSET Contracts, payment \in Payments, id \in TokenIds :
        submitIPFS(contracts, payment, id)

VoterStep ==
    \E u \in Users :
        \/ \E id \in TokenIds, validate \in BOOLEAN :
              firstSortVote(u, id, validate) \/ finalDecisionVote(u, id, validate)
        \/ claimRewards(u)
        \/ \E w \in RankMovers : promote(u, w) \/ demote(u, w)

OwnerStep ==
    \/ \E id \in TokenIds : emergencyKillRequest(id)
    \/ \E u \in RankMovers : emergencyPromote(u) \/ emergencyDemote(u)

FirstNext == SubmitterStep \/ VoterStep \/ OwnerStep \/ Tick

FirstSpec == FirstInit /\ [][FirstNext]_firstVars

-----------------------------------------------------------------------------
(* Properties *)

Coeffs == {Coeff(payment) : payment \in {p \in Payments : p >= submitFloorPrice}}

Tokens ==
    [id : TokenIds, contracts : (SUBSET Contracts) \ {{}},
     lastUpdate : Nat, coeff : Coeffs]

FirstTypeOK ==
    /\ submitted \in 0..MaxSubmissions
    /\ pending \in [Stages -> Seq(Tokens)]
    /\ indexOf \in [Stages -> [TokenIds -> Nat]]
    /\ voted \in [Stages -> [Users -> [TokenIds -> BOOLEAN]]]
    /\ onRecord \in [Stages -> [BOOLEAN -> [TokenIds -> Seq(Users)]]]
    /\ good \in [Stages -> [Users -> Nat]]
    /\ bad \in [Stages -> [Users -> Nat]]
    /\ owedRewards \in [Users -> Nat] /\ paidRewards \in [Users -> Nat]
    /\ assets \in Nat /\ mobl \in Nat
    /\ rank \in [Users -> 0..2]
    /\ promoteVotes \in [Users -> Nat] /\ demoteVotes \in [Users -> Nat]
    /\ members \in [RankChanges -> Nat]
    /\ now \in Nat

(* A contract is in the listing process once: submitIPFS searches both      *)
(* arrays, and a token that is moved, decided or killed, through whatever   *)
(* index, is not left behind in the one it came from.                       *)
NoContractPendingTwice ==
    \A r, s \in Stages : \A i \in DOMAIN pending[r], j \in DOMAIN pending[s] :
        pending[r][i].contracts \cap pending[s][j].contracts # {}
            => r = s /\ i = j

(* Each submission accounts for one place among the saved and the pending   *)
(* tokens: a verdict reached through a stale index, which saves one token   *)
(* and takes out another, never leaves more of them than were submitted.    *)
NothingSavedTwice ==
    assets + Len(pending["First"]) + Len(pending["Final"]) <= submitted

(* Swap and pop keep the indices right, even when a vote reaches a token    *)
(* under another token's id: if each token of firstSortTokens is where its  *)
(* index says, it stays so unless an id is submitted again while pending;   *)
(* and no removal unsettles those of finalValidationTokens.  (What enters   *)
(* that array under another id does.)                                       *)
Indexed(stage) ==
    \A i \in DOMAIN pending[stage] : indexOf[stage][pending[stage][i].id] + 1 = i
DistinctIds(stage) ==
    \A i, j \in DOMAIN pending[stage] :
        pending[stage][i].id = pending[stage][j].id => i = j
IndicesStay ==
    [][/\ Indexed("First") /\ DistinctIds("First")' => Indexed("First")'
       /\ Indexed("Final") /\ Len(pending'["Final"]) <= Len(pending["Final"])
             => Indexed("Final")'
      ]_firstVars

(* Rewards go to whoever stands at the position of a right voter, often     *)
(* somebody else, but their sum is right: a coefficient for each right      *)
(* first vote, two for each right final one.                                *)
RightVotes == SumFunction(good["First"]) + 2 * SumFunction(good["Final"])
RewardsMatchGoodVotes ==
    /\ \E c \in Coeffs : SumFunction(owedRewards) >= c * RightVotes
    /\ \E c \in Coeffs : SumFunction(owedRewards) <= c * RightVotes

(* ProtocolProxy.sol says of firstSortVote: "If token is in                 *)
(* finalValidationTokens -> removed from firstSortTokens -> unreachable".   *)
(* The code violates it: the index is kept and soon finds another token.    *)
IdsIn(stage) == {pending[stage][i].id : i \in DOMAIN pending[stage]}
RemovedIsUnreachable ==
    [][\A id \in IdsIn("Final") \ IdsIn("First"), v \in BOOLEAN :
          onRecord'["First"][v][id] = onRecord["First"][v][id]
      ]_firstVars

=============================================================================
