------------------------------ MODULE Listings ------------------------------
(***************************************************************************)
(* Token listings of src/src/MobulaTokensProtocol.sol: submission and its  *)
(* payment, updates, the two votes (Sorting by ranked users, Validation by *)
(* Rank II users), the rewards of a decided vote, the owner's settings and *)
(* overrides, and the call that saves a validated token in the API.        *)
(*                                                                         *)
(* One step is one transaction: either every change of a method happens or *)
(* the call reverts and nothing does, so a revert is a guard that fails.   *)
(* The six vote arrays of a listing are votes[voteId][stage][vote]; the    *)
(* struct TokenListing is split between the status index of StatusArrays   *)
(* and the records of tokenListings.  One score stands for the utility,    *)
(* social and trust scores, which the code treats alike.                   *)
(***************************************************************************)
EXTENDS StatusArrays, Ranks, FiniteSets

CONSTANTS
    NoUser,           \* the zero address: submitter of unused storage
    Protocol,         \* the protocol's own balance
    Treasury,         \* recipient of the owner's withdrawals
    InitialWhitelist, \* submitters whitelisted at deployment
    InitialConfig,    \* parameters set by the deployment script
    InitialStable,    \* stablecoins a user holds at first
    InitialMobl,      \* MOBL the protocol holds at first
    Settings,         \* parameter -> values the owner may give it later
    WhitelistChanges, \* users the owner may whitelist or remove later
    MovingRanks,      \* users whose rank the hierarchy may change
    OwnerMoves,       \* statuses the owner may move a listing to
    PaymentAmounts,   \* amounts offered with submissions and top-ups
    WithdrawAmounts,  \* amounts the owner may withdraw
    Scores,           \* scores given with a vote
    StartTime,        \* block.timestamp of the first block
    MaxTime,          \* bound: last block.timestamp
    MaxPhase          \* bound: phases of a listing

(* Parameters with a setter; the "Pct" ones are refused above 100.          *)
(* protocolAPI is 1 when the address set is an API that accepts calls from  *)
(* this contract (API.sol checks its own copy of the address), else 0.      *)
Percentages ==
    {"sortingMinAcceptancesPct", "sortingMinModificationsPct",
     "validationMinAcceptancesPct", "validationMinModificationsPct"}
Parameters ==
    Percentages \cup
    {"submitFloorPrice", "sortingMaxVotes", "validationMaxVotes",
     "tokensPerVote", "voteCooldown", "whitelistedCooldown",
     "editCoeffMultiplier", "protocolAPI"}

Accounts == Users \cup {Protocol, Treasury}

ASSUME ListingsAssumption ==
    /\ NoUser \notin Users
    /\ Protocol \notin Users /\ Treasury \notin Users /\ Protocol # Treasury
    /\ InitialWhitelist \subseteq Users
    /\ InitialConfig \in [Parameters -> Nat]
    /\ \A p \in Percentages : InitialConfig[p] <= 100
    /\ InitialStable \in Nat /\ InitialMobl \in Nat
    /\ Settings \in [Parameters -> SUBSET Nat]
    /\ WhitelistChanges \subseteq Users /\ MovingRanks \subseteq Users
    /\ OwnerMoves \subseteq Statuses
    /\ PaymentAmounts \subseteq Nat /\ WithdrawAmounts \subseteq Nat
    /\ Scores \subseteq Nat
    /\ StartTime \in Nat /\ MaxTime \in Nat /\ MaxPhase \in Nat

PAYMENT_COEFF == 1000
MaxScore == 5

Stages == {"Sorting", "Validation"}
Votes == {"Accept", "Reject", "ModificationsNeeded"}   \* ListingVote

VARIABLES
    tokenListings,          \* vote id -> the rest of its TokenListing
    tokenListingsLength,    \* tokenListings.length
    nextTokenId,
    whitelistedSubmitter,   \* set of users who need not pay
    whitelistedLastSubmit,  \* user -> time of the last free submission
    votes,                  \* vote id -> stage -> vote -> array of voters
    votesPhase,             \* stage -> vote id -> user -> phase of last vote
    goodVotes, badVotes,    \* stage -> user -> votes on the right, wrong side
    owedRewards,            \* user -> rewards owed, in coefficients
    paidRewards,            \* user -> rewards paid, in thousandths of a MOBL
    assets,                 \* API.assets: tokens saved, oldest first
    stable, mobl,           \* account -> stablecoin and MOBL balance
    config,                 \* parameter -> value
    now                     \* block.timestamp

listingVars == <<statusVars, tokenListings, votes>>
submitVars == <<tokenListingsLength, nextTokenId, whitelistedLastSubmit, stable>>
rewardVars == <<goodVotes, badVotes, owedRewards, assets>>
claimVars == <<paidRewards, mobl>>
ownerVars == <<config, whitelistedSubmitter>>
outsideVars == <<rank, now>>

listingsVars ==
    <<listingVars, submitVars, votesPhase, rewardVars, claimVars, ownerVars,
      outsideVars>>

NoVotes == [st \in Stages |-> [k \in Votes |-> <<>>]]

EmptyListing ==
    [tokenId |-> 0, lastUpdate |-> 0, score |-> 0, coeff |-> 0,
     submitter |-> NoUser, accruedScore |-> 0, phase |-> 0]

ListingsInit ==
    /\ StatusArraysInit
    /\ tokenListings = [v \in VoteIds |-> EmptyListing]
    /\ tokenListingsLength = 0
    /\ nextTokenId = 0
    /\ whitelistedSubmitter = InitialWhitelist
    /\ whitelistedLastSubmit = [u \in Users |-> 0]
    /\ votes = [v \in VoteIds |-> NoVotes]
    /\ votesPhase = [st \in Stages |-> [v \in VoteIds |-> [u \in Users |-> 0]]]
    /\ goodVotes = [st \in Stages |-> [u \in Users |-> 0]]
    /\ badVotes = [st \in Stages |-> [u \in Users |-> 0]]
    /\ owedRewards = [u \in Users |-> 0]
    /\ paidRewards = [u \in Users |-> 0]
    /\ assets = <<>>
    /\ stable = [a \in Accounts |-> IF a \in Users THEN InitialStable ELSE 0]
    /\ mobl = [a \in Accounts |-> IF a = Protocol THEN InitialMobl ELSE 0]
    /\ rank \in InitialRanks
    /\ config = InitialConfig
    /\ now = StartTime

-----------------------------------------------------------------------------
(* Status updates *)

(* Statuses on entering which votes and scores are deleted. *)
ClearingStatusesButRejected == {"Updating", "Validated", "Killed"}
ClearingStatusesButUpdating == {"Rejected", "Validated", "Killed"}
ClearingStatuses == {"Updating", "Rejected", "Validated", "Killed"}

(* What is deleted from the listing itself; Updating starts a new phase.    *)
(* Mutants: the scores survive, the phase stands.                           *)
ClearedButScores(listing, s) ==
    [listing EXCEPT !.phase = IF s = "Updating" THEN @ + 1 ELSE @]
ClearedInSamePhase(listing, s) == [listing EXCEPT !.accruedScore = 0]
Cleared(listing, s) ==
    [listing EXCEPT !.accruedScore = 0,
                    !.phase = IF s = "Updating" THEN @ + 1 ELSE @]

(* _updateListingStatus(v, s), called with ls and vs as the listings and    *)
(* votes at that point of the transaction.                                  *)
UpdateListingStatus(ls, vs, v, s) ==
    /\ MoveListing(v, s)
    /\ s = "Updating" => ls[v].phase < MaxPhase
    /\ \/ /\ s \in ClearingStatuses
          /\ tokenListings' = [ls EXCEPT ![v] = Cleared(@, s)]
          /\ votes' = [vs EXCEPT ![v] = NoVotes]
       \/ /\ s \notin ClearingStatuses
          /\ tokenListings' = ls
          /\ votes' = vs

-----------------------------------------------------------------------------
(* Submission, top-up and update.  The internal methods take the account    *)
(* that calls the contract and the user the call is made for: they differ   *)
(* when Axelar relays a call from another chain.                            *)

Transfer(balances, from, to, amount) ==
    [balances EXCEPT ![from] = @ - amount, ![to] = @ + amount]

(* Mutant: the coefficient is rounded up. *)
CoeffRoundedUp(amount) ==
    (amount * PAYMENT_COEFF + config["submitFloorPrice"] - 1)
        \div config["submitFloorPrice"]
GetCoeff(amount) == (amount * PAYMENT_COEFF) \div config["submitFloorPrice"]

(* Mutant: the payment is not collected. *)
PayNothing(msgSender, sourceMsgSender, amount) ==
    config["submitFloorPrice"] # 0 /\ UNCHANGED stable

(* A payment made here, or already made on the source chain.  Division by a *)
(* zero floor price and a failing transferFrom revert the call.             *)
Pay(msgSender, sourceMsgSender, amount) ==
    /\ config["submitFloorPrice"] # 0
    /\ \/ /\ msgSender = sourceMsgSender
          /\ stable[msgSender] >= amount
          /\ stable' = Transfer(stable, msgSender, Protocol, amount)
       \/ /\ msgSender # sourceMsgSender
          /\ UNCHANGED stable

(* A whitelisted submitter does not pay but waits between submissions.  The *)
(* subtraction is checked: a cooldown beyond block.timestamp reverts.       *)
WhitelistedTurn(user) ==
    /\ now >= config["whitelistedCooldown"]
    /\ whitelistedLastSubmit[user] <= now - config["whitelistedCooldown"]
    /\ whitelistedLastSubmit' = [whitelistedLastSubmit EXCEPT ![user] = now]

SubmissionCoeff(user, amount, tokenId) ==
    (IF user \in whitelistedSubmitter THEN PAYMENT_COEFF
     ELSE IF amount # 0 THEN GetCoeff(amount) ELSE 0)
    + (IF tokenId # 0 THEN PAYMENT_COEFF * config["editCoeffMultiplier"] ELSE 0)

(* A full coefficient opens the Sorting vote.  Mutant: more than full.      *)
MoreThanPaid(coeff) == coeff > PAYMENT_COEFF
FullyPaid(coeff) == coeff >= PAYMENT_COEFF

(* A new token takes the next id, an edit none.  Mutant: both do.           *)
AlwaysNextTokenId(tokenId) == nextTokenId + 1
NextTokenId(tokenId) == IF tokenId = 0 THEN nextTokenId + 1 ELSE nextTokenId

SubmitTokenFor(msgSender, sourceMsgSender, amount, tokenId) ==
    LET v == tokenListingsLength
        coeff == SubmissionCoeff(sourceMsgSender, amount, tokenId)
        listing == [tokenId |-> IF tokenId # 0 THEN tokenId ELSE nextTokenId,
                    lastUpdate |-> now, score |-> 0, coeff |-> coeff,
                    submitter |-> sourceMsgSender, accruedScore |-> 0,
                    phase |-> 1]
    IN  /\ tokenListingsLength < MaxListings
        /\ tokenId # 0 => tokenId < nextTokenId
        /\ IF sourceMsgSender \in whitelistedSubmitter
           THEN WhitelistedTurn(sourceMsgSender) /\ UNCHANGED stable
           ELSE /\ UNCHANGED whitelistedLastSubmit
                /\ IF amount # 0
                   THEN Pay(msgSender, sourceMsgSender, amount)
                   ELSE UNCHANGED stable
        /\ tokenListingsLength' = v + 1
        /\ nextTokenId' = NextTokenId(tokenId)
        /\ UpdateListingStatus(
               [tokenListings EXCEPT ![v] = listing], votes, v,
               IF FullyPaid(coeff) THEN "Sorting" ELSE "Pool")
        /\ UNCHANGED <<votesPhase, rewardVars, claimVars, ownerVars, outsideVars>>

TopUpTokenFor(msgSender, sourceMsgSender, v, amount) ==
    LET ls == [tokenListings EXCEPT ![v].coeff = @ + GetCoeff(amount)]
    IN  /\ v < tokenListingsLength
        /\ amount # 0
        /\ Pay(msgSender, sourceMsgSender, amount)
        /\ IF status[v] = "Pool" /\ FullyPaid(ls[v].coeff)
           THEN UpdateListingStatus(ls, votes, v, "Sorting")
           ELSE tokenListings' = ls /\ UNCHANGED <<statusVars, votes>>
        /\ UNCHANGED <<tokenListingsLength, nextTokenId, whitelistedLastSubmit,
                       votesPhase, rewardVars, claimVars, ownerVars, outsideVars>>

UpdateTokenFor(sourceMsgSender, v) ==
    /\ v < tokenListingsLength
    /\ status[v] = "Updating"
    /\ tokenListings[v].submitter = sourceMsgSender
    /\ UpdateListingStatus([tokenListings EXCEPT ![v].lastUpdate = now],
                           votes, v, "Sorting")
    /\ UNCHANGED <<submitVars, votesPhase, rewardVars, claimVars, ownerVars,
                   outsideVars>>

(* The external methods: the caller acts for itself. *)
SubmitToken(user, amount, tokenId) == SubmitTokenFor(user, user, amount, tokenId)
TopUpToken(user, v, amount) == TopUpTokenFor(user, user, v, amount)
UpdateToken(user, v) == UpdateTokenFor(user, v)

-----------------------------------------------------------------------------
(* Votes *)

MaxVotes(st) ==
    config[IF st = "Sorting" THEN "sortingMaxVotes" ELSE "validationMaxVotes"]
MinAcceptancesPct(st) ==
    config[IF st = "Sorting" THEN "sortingMinAcceptancesPct"
                             ELSE "validationMinAcceptancesPct"]
MinModificationsPct(st) ==
    config[IF st = "Sorting" THEN "sortingMinModificationsPct"
                             ELSE "validationMinModificationsPct"]

RankNeeded(st) == IF st = "Sorting" THEN 1 ELSE 2

VotesCast(arrays) ==
    Len(arrays["Accept"]) + Len(arrays["Reject"])
    + Len(arrays["ModificationsNeeded"])

(* What the vote arrays of a stage decide, in the order the code asks. *)
Outcome(st, arrays) ==
    IF Len(arrays["ModificationsNeeded"]) * 100
           >= MaxVotes(st) * MinModificationsPct(st)
    THEN "Modify"
    ELSE IF VotesCast(arrays) < MaxVotes(st)
    THEN "Undecided"
    ELSE IF Len(arrays["Accept"]) * 100 >= MaxVotes(st) * MinAcceptancesPct(st)
    THEN "Accepted"
    ELSE "Refused"

(* The checks and writes both voting methods start with.  Mutants: any rank *)
(* will do, the status is not checked, the phase test is off by one.        *)
HoldsAnyRank(user, st) == TRUE
HoldsRank(user, st) == rank[user] >= RankNeeded(st)

IsSubmitted(v, st) == v < tokenListingsLength
IsOpen(v, st) == v < tokenListingsLength /\ status[v] = st

HasNotVotedSince(user, v, st) == votesPhase[st][v][user] <= tokenListings[v].phase
HasNotVoted(user, v, st) == votesPhase[st][v][user] < tokenListings[v].phase

MayVote(user, v, st) ==
    HoldsRank(user, st) /\ IsOpen(v, st) /\ HasNotVoted(user, v, st)

MarkVoter(user, v, st) ==
    votesPhase' = [votesPhase EXCEPT ![st][v][user] = tokenListings[v].phase]

VotesWith(user, v, st, vote) ==
    [votes EXCEPT ![v][st][vote] = Append(@, user)]

ListingsWith(v, vote, score) ==
    [tokenListings EXCEPT
        ![v].accruedScore = IF vote = "Accept" THEN @ + score ELSE @]

(* The outcome is asked for after the vote was pushed.  Mutant: before.     *)
OutcomeBefore(user, v, st, vote) == Outcome(st, votes[v][st])
OutcomeAfter(user, v, st, vote) ==
    Outcome(st, VotesWith(user, v, st, vote)[v][st])

VoteSorting(user, v, vote, score) ==
    LET vs == VotesWith(user, v, "Sorting", vote)
        ls == ListingsWith(v, vote, score)
        outcome == OutcomeAfter(user, v, "Sorting", vote)
    IN  /\ MayVote(user, v, "Sorting")
        /\ now >= config["voteCooldown"]
        /\ tokenListings[v].lastUpdate <= now - config["voteCooldown"]
        /\ vote = "Accept" => score <= MaxScore
        /\ MarkVoter(user, v, "Sorting")
        /\ \/ /\ outcome = "Undecided"
              /\ tokenListings' = ls /\ votes' = vs /\ UNCHANGED statusVars
           \/ /\ outcome = "Modify"
              /\ UpdateListingStatus(ls, vs, v, "Updating")
           \/ /\ outcome = "Accepted"
              /\ UpdateListingStatus(ls, vs, v, "Validation")
           \/ /\ outcome = "Refused"
              /\ UpdateListingStatus(ls, vs, v, "Rejected")
        /\ UNCHANGED <<submitVars, rewardVars, claimVars, ownerVars, outsideVars>>

(* Turns of a loop over an array that concern a user. *)
Times(user, array) == Cardinality({i \in DOMAIN array : array[i] = user})

(* Rewards of a right vote, in coefficients.  Mutant: all votes earn alike. *)
WeightAlike(st) == 1
Weight(st) == IF st = "Sorting" THEN 1 ELSE 2

(* _rewardVoters: the four loops over the voters who accepted or rejected.  *)
(* Voters who asked for modifications are neither right nor wrong.          *)
(* Mutant: the arrays were deleted before, so nobody is found in them.      *)
RewardNobody(vs, v, right, wrong) ==
    UNCHANGED <<goodVotes, badVotes, owedRewards>>
RewardVoters(vs, v, right, wrong) ==
    /\ goodVotes' = [st \in Stages |-> [u \in Users |->
                        goodVotes[st][u] + Times(u, vs[v][st][right])]]
    /\ badVotes' = [st \in Stages |-> [u \in Users |->
                        badVotes[st][u] + Times(u, vs[v][st][wrong])]]
    /\ owedRewards' = [u \in Users |->
           owedRewards[u] + tokenListings[v].coeff *
               (Weight("Sorting") * Times(u, vs[v]["Sorting"][right])
                + Weight("Validation") * Times(u, vs[v]["Validation"][right]))]

(* addAssetData of API.sol, which reverts unless it accepts the protocol.   *)
(* Mutant: the token is dropped instead.                                    *)
PushAssetOrDrop(asset) ==
    assets' = IF config["protocolAPI"] = 1 THEN Append(assets, asset) ELSE assets
PushAsset(asset) ==
    /\ config["protocolAPI"] = 1
    /\ assets' = Append(assets, asset)

(* _saveToken: the average of the accrued scores goes into the token, which *)
(* the API appends to its assets.  Without acceptances the division reverts.*)
ScoresCount(vs, v) ==
    Len(vs[v]["Sorting"]["Accept"]) + Len(vs[v]["Validation"]["Accept"])

TokenSaved(ls, vs, v) ==
    [ls EXCEPT ![v].score = ls[v].accruedScore \div ScoresCount(vs, v)]

SaveToken(ls, vs, v) ==
    /\ ScoresCount(vs, v) # 0
    /\ PushAsset([tokenId |-> ls[v].tokenId, lastUpdate |-> ls[v].lastUpdate,
                  score |-> TokenSaved(ls, vs, v)[v].score])

VoteValidation(user, v, vote, score) ==
    LET vs == VotesWith(user, v, "Validation", vote)
        ls == ListingsWith(v, vote, score)
        outcome == OutcomeAfter(user, v, "Validation", vote)
    IN  /\ MayVote(user, v, "Validation")
        /\ vote = "Accept" => score <= MaxScore
        /\ MarkVoter(user, v, "Validation")
        /\ \/ /\ outcome = "Undecided"
              /\ tokenListings' = ls /\ votes' = vs
              /\ UNCHANGED <<statusVars, rewardVars>>
           \/ /\ outcome = "Modify"
              /\ UpdateListingStatus(ls, vs, v, "Updating")
              /\ UNCHANGED rewardVars
           \/ /\ outcome = "Accepted"
              /\ RewardVoters(vs, v, "Accept", "Reject")
              /\ SaveToken(ls, vs, v)
              /\ UpdateListingStatus(TokenSaved(ls, vs, v), vs, v, "Validated")
           \/ /\ outcome = "Refused"
              /\ RewardVoters(vs, v, "Reject", "Accept")
              /\ UpdateListingStatus(ls, vs, v, "Rejected")
              /\ UNCHANGED assets
        /\ UNCHANGED <<submitVars, claimVars, ownerVars, outsideVars>>

-----------------------------------------------------------------------------
(* Rewards.  Anyone may claim for anyone; the division drops what is less   *)
(* than one MOBL, and a transfer beyond the protocol's balance reverts.     *)

(* Mutant: the rewards stay owed after the claim. *)
KeepOwed(user) == UNCHANGED owedRewards
DeleteOwed(user) == owedRewards' = [owedRewards EXCEPT ![user] = 0]

ClaimRewards(user) ==
    LET amountToPay == owedRewards[user] * config["tokensPerVote"]
        moblAmount == amountToPay \div PAYMENT_COEFF
    IN  /\ amountToPay # 0
        /\ mobl[Protocol] >= moblAmount
        /\ paidRewards' = [paidRewards EXCEPT ![user] = @ + amountToPay]
        /\ DeleteOwed(user)
        /\ mobl' = Transfer(mobl, Protocol, user, moblAmount)
        /\ UNCHANGED <<listingVars, submitVars, votesPhase, goodVotes, badVotes,
                       assets, ownerVars, outsideVars>>

-----------------------------------------------------------------------------
(* Owner calls *)

EmergencyUpdateListingStatus(v, s) ==
    /\ v < tokenListingsLength
    /\ UpdateListingStatus(tokenListings, votes, v, s)
    /\ UNCHANGED <<submitVars, votesPhase, rewardVars, claimVars, ownerVars,
                   outsideVars>>

EmergencyKillRequest(v) == EmergencyUpdateListingStatus(v, "Killed")

(* One setter for each parameter, of which percentages are checked; the     *)
(* setters of quotas and thresholds, in between, are in Hierarchy.  Mutant: *)
(* percentages are not checked.                                             *)
AnySetting(p, x) == TRUE
ValidSetting(p, x) == p \in Percentages => x <= 100

UpdateParameter(p, x) ==
    /\ ValidSetting(p, x)
    /\ config' = [config EXCEPT ![p] = x]
    /\ UNCHANGED <<listingVars, submitVars, votesPhase, rewardVars, claimVars,
                   whitelistedSubmitter, outsideVars>>

WhitelistSubmitter(user, whitelisted) ==
    /\ whitelistedSubmitter' = IF whitelisted
                               THEN whitelistedSubmitter \cup {user}
                               ELSE whitelistedSubmitter \ {user}
    /\ UNCHANGED <<listingVars, submitVars, votesPhase, rewardVars, claimVars,
                   config, outsideVars>>

WithdrawERC20Funds(amount) ==
    /\ \/ /\ stable[Protocol] >= amount
          /\ stable' = Transfer(stable, Protocol, Treasury, amount)
          /\ UNCHANGED mobl
       \/ /\ mobl[Protocol] >= amount
          /\ mobl' = Transfer(mobl, Protocol, Treasury, amount)
          /\ UNCHANGED stable
    /\ UNCHANGED <<listingVars, tokenListingsLength, nextTokenId,
                   whitelistedLastSubmit, votesPhase, rewardVars, paidRewards,
                   ownerVars, outsideVars>>

-----------------------------------------------------------------------------
(* The outside: blocks are mined, and Hierarchy changes ranks by one.       *)

Tick ==
    /\ now < MaxTime
    /\ now' = now + 1
    /\ UNCHANGED <<listingVars, submitVars, votesPhase, rewardVars, claimVars,
                   ownerVars, rank>>

RankChange(user) ==
    /\ \/ rank[user] < 2 /\ rank' = [rank EXCEPT ![user] = @ + 1]
       \/ rank[user] > 0 /\ rank' = [rank EXCEPT ![user] = @ - 1]
    /\ UNCHANGED <<listingVars, submitVars, votesPhase, rewardVars, claimVars,
                   ownerVars, now>>

SubmitterStep ==
    \E user \in Users :
        \/ \E amount \in PaymentAmounts, tokenId \in 0..nextTokenId :
               SubmitToken(user, amount, tokenId)
        \/ \E v \in VoteIds, amount \in PaymentAmounts : TopUpToken(user, v, amount)
        \/ \E v \in VoteIds : UpdateToken(user, v)
        \/ ClaimRewards(user)

(* Scores only matter with an acceptance: other votes give the least. *)
VoterStep ==
    \E user \in Users, v \in VoteIds, vote \in Votes :
    \E score \in IF vote = "Accept" THEN Scores ELSE {0} :
        \/ VoteSorting(user, v, vote, score)
        \/ VoteValidation(user, v, vote, score)

OwnerStep ==
    \/ \E v \in VoteIds, s \in OwnerMoves : EmergencyUpdateListingStatus(v, s)
    \/ \E v \in VoteIds : "Killed" \in OwnerMoves /\ EmergencyKillRequest(v)
    \/ \E p \in Parameters : \E x \in Settings[p] : UpdateParameter(p, x)
    \/ \E user \in WhitelistChanges, b \in BOOLEAN : WhitelistSubmitter(user, b)
    \/ \E amount \in WithdrawAmounts : WithdrawERC20Funds(amount)

OutsideStep == Tick \/ \E user \in MovingRanks : RankChange(user)

ListingsNext == SubmitterStep \/ VoterStep \/ OwnerStep \/ OutsideStep

ListingsSpec == ListingsInit /\ [][ListingsNext]_listingsVars

-----------------------------------------------------------------------------
(* Properties *)

Listing ==
    [tokenId : Nat, lastUpdate : Nat, score : Nat, coeff : Nat,
     submitter : Users \cup {NoUser}, accruedScore : Nat, phase : Nat]

ListingsTypeOK ==
    /\ StatusArraysTypeOK
    /\ tokenListings \in [VoteIds -> Listing]
    /\ tokenListingsLength \in 0..MaxListings
    /\ nextTokenId \in Nat
    /\ whitelistedSubmitter \subseteq Users
    /\ whitelistedLastSubmit \in [Users -> Nat]
    /\ votes \in [VoteIds -> [Stages -> [Votes -> Seq(Users)]]]
    /\ votesPhase \in [Stages -> [VoteIds -> [Users -> Nat]]]
    /\ goodVotes \in [Stages -> [Users -> Nat]]
    /\ badVotes \in [Stages -> [Users -> Nat]]
    /\ owedRewards \in [Users -> Nat]
    /\ paidRewards \in [Users -> Nat]
    /\ assets \in Seq([tokenId : Nat, lastUpdate : Nat, score : Nat])
    /\ stable \in [Accounts -> Nat]
    /\ mobl \in [Accounts -> Nat]
    /\ rank \in [Users -> 0..2]
    /\ config \in [Parameters -> Nat]
    /\ \A p \in Percentages : config[p] <= 100
    /\ now \in Nat

Submitted == 0..(tokenListingsLength - 1)

(* A voter found in a vote array is marked with the listing's current phase *)
(* and appears there once: the phase test of voteSorting and                *)
(* voteValidation keeps a user from voting twice however votes, updates and *)
(* owner moves follow each other, so every array entry is a distinct voter. *)
VotersAreMarked ==
    \A v \in VoteIds, st \in Stages, k \in Votes :
        \A i \in DOMAIN votes[v][st][k] :
            votesPhase[st][v][votes[v][st][k][i]] = tokenListings[v].phase
VotersAreDistinct ==
    \A v \in VoteIds, st \in Stages, k, l \in Votes :
        \A i \in DOMAIN votes[v][st][k], j \in DOMAIN votes[v][st][l] :
            votes[v][st][k][i] = votes[v][st][l][j] => k = l /\ i = j
OneVotePerPhase == VotersAreMarked /\ VotersAreDistinct

(* Over a whole history of phases, reopened listings and verdicts, a user   *)
(* is judged (good or bad) at most once for each phase the user voted in:   *)
(* votes already judged plus votes still waiting never exceed the phases.   *)
Waiting(u, v, st) ==
    Times(u, votes[v][st]["Accept"]) + Times(u, votes[v][st]["Reject"])
VotesJudgedOnce ==
    \A u \in Users, st \in Stages :
        goodVotes[st][u] + badVotes[st][u]
        + SumFunction([v \in VoteIds |-> Waiting(u, v, st)])
        <= SumFunction([v \in VoteIds |-> votesPhase[st][v][u]])

(* Scores: what a listing accrued is at most five per acceptance on record, *)
(* however often phases restart, so every score saved in the API is at most *)
(* five.                                                                    *)
ScoresBounded ==
    /\ \A v \in VoteIds :
           tokenListings[v].accruedScore <= MaxScore * ScoresCount(votes, v)
    /\ \A i \in DOMAIN assets : assets[i].score <= MaxScore

(* While thresholds stand and the owner moves nothing, an open vote has not *)
(* reached its verdict: the vote that completes it also closes it.          *)
NoOverdueVerdict ==
    \A v \in VoteIds :
        status[v] \in Stages =>
            Outcome(status[v], votes[v][status[v]]) = "Undecided"

(* A Validation vote rests on a completed, accepted Sorting vote whose      *)
(* arrays are still there to be rewarded, and no Validation vote is on      *)
(* record earlier than that.                                                *)
ValidationRestsOnSorting ==
    \A v \in VoteIds :
        /\ status[v] = "Validation" =>
               Outcome("Sorting", votes[v]["Sorting"]) = "Accepted"
        /\ status[v] # "Validation" => VotesCast(votes[v]["Validation"]) = 0

(* A vote judges the details it was cast on: every Sorting vote on record   *)
(* is at least voteCooldown younger than the last update of the token, as   *)
(* an update only happens after the votes were deleted.                     *)
VotesAwaitCooldown ==
    \A v \in VoteIds :
        VotesCast(votes[v]["Sorting"]) # 0 =>
            tokenListings[v].lastUpdate + config["voteCooldown"] <= now

(* A listing cannot be stuck for want of voters: as long as enough users    *)
(* hold the rank a vote asks for, one of them has not voted in this phase.  *)
VoteCanContinue ==
    \A v \in VoteIds :
        LET st == status[v]
            ranked == {u \in Users : rank[u] >= RankNeeded(st)}
        IN  st \in Stages /\ Cardinality(ranked) >= MaxVotes(st) =>
                \E u \in ranked : votesPhase[st][v][u] < tokenListings[v].phase

(* What a user was paid and can still claim, in thousandths of a MOBL, and  *)
(* the right votes it is for, counting two for each in Validation.          *)
RewardValue(u) == owedRewards[u] * config["tokensPerVote"] + paidRewards[u]
RightVotes(u) == goodVotes["Sorting"][u] + 2 * goodVotes["Validation"][u]

(* While tokensPerVote stands, the rewards of a user, claimed or not, are   *)
(* worth a full coefficient for each right vote and at most the coefficient *)
(* of some listing (nothing as long as there is none): no decided listing   *)
(* was underpaid, and claims neither lose nor repeat rewards, whoever makes *)
(* them and however often.                                                  *)
RewardsBackGoodVotes ==
    \A u \in Users :
        LET worth == config["tokensPerVote"] * RightVotes(u)
        IN  /\ RewardValue(u) >= PAYMENT_COEFF * worth
            /\ \E c \in {0} \cup {tokenListings[v].coeff : v \in Submitted} :
                   RewardValue(u) <= c * worth

(* The value a user's rewards have only changes by a verdict, and then by   *)
(* what the votes on record say: the listing's coefficient for a right vote *)
(* cast in Sorting, twice that for one in Validation, in whichever earlier  *)
(* transaction it was cast.  Only of the user whose vote decides (the mark  *)
(* changes) the record does not know the last vote yet.                     *)
OnRecord(u, v, right) ==
    Times(u, votes[v]["Sorting"][right])
    + 2 * Times(u, votes[v]["Validation"][right])
Decided(v) == status[v] = "Validation" /\ status'[v] \in {"Validated", "Rejected"}
VerdictsPayTheRecord ==
    [][\A u \in Users :
          \/ /\ \A v \in VoteIds : ~Decided(v)
             /\ RewardValue(u)' = RewardValue(u)
          \/ \E v \in VoteIds, last \in {0, 2} :
                LET right == IF status'[v] = "Validated" THEN "Accept" ELSE "Reject"
                IN  /\ Decided(v)
                    /\ last # 0 => votesPhase'["Validation"][v][u]
                                    # votesPhase["Validation"][v][u]
                    /\ RewardValue(u)' =
                           RewardValue(u) + config["tokensPerVote"]
                               * (tokenListings[v].coeff
                                  * (OnRecord(u, v, right) + last))
      ]_listingsVars

(* A claim pays at most what was recorded as paid, and the truncation of    *)
(* the division costs the user less than one MOBL in each claim, so never a *)
(* whole MOBL more than the number of right votes.                          *)
ClaimsArePaid ==
    \A u \in Users :
        /\ mobl[u] * PAYMENT_COEFF <= paidRewards[u]
        /\ paidRewards[u] - mobl[u] * PAYMENT_COEFF
           <= (PAYMENT_COEFF - 1)
              * (goodVotes["Sorting"][u] + goodVotes["Validation"][u])

(* While the owner moves nothing, a listing waits in the pool exactly as    *)
(* long as it is not fully paid.                                            *)
PooledWhileUnderpaid ==
    \A v \in Submitted :
        status[v] = "Pool" <=> tokenListings[v].coeff < PAYMENT_COEFF

(* No coefficient without money: apart from what whitelisting and edits     *)
(* grant, the coefficients of all listings are covered by the stablecoins   *)
(* collected, at the floor price.                                           *)
Granted(v) ==
    PAYMENT_COEFF *
        ((IF tokenListings[v].submitter \in whitelistedSubmitter THEN 1 ELSE 0)
         + (IF \E w \in Submitted :
                   w < v /\ tokenListings[w].tokenId = tokenListings[v].tokenId
            THEN config["editCoeffMultiplier"] ELSE 0))
CoeffsArePaidFor ==
    config["submitFloorPrice"] *
        SumFunction([v \in Submitted |-> tokenListings[v].coeff - Granted(v)])
    <= PAYMENT_COEFF * (stable[Protocol] + stable[Treasury])

(* The ids given out are exactly those below nextTokenId, each first by a   *)
(* listing of its own; an edit never introduces an id.                      *)
TokenIdsAreDense ==
    {tokenListings[v].tokenId : v \in Submitted} = 0..(nextTokenId - 1)

(* While the owner moves nothing, the tokens saved in the API are those of  *)
(* the validated listings, one asset each, in spite of saves that revert.   *)
AssetsMatchValidated ==
    /\ Len(assets) = Len(statusArrays["Validated"])
    /\ \A i \in DOMAIN assets :
           LET listing == tokenListings[statusArrays["Validated"][i]]
           IN  /\ assets[i].tokenId = listing.tokenId
               /\ assets[i].score = listing.score
               /\ assets[i].lastUpdate = listing.lastUpdate

(* Listings implements the ballots of ListingBallots.                       *)
BallotOf(arrays) ==
    [u \in Users |->
        IF \E k \in Votes : u \in ToSet(arrays[k])
        THEN CHOOSE k \in Votes : u \in ToSet(arrays[k])
        ELSE "None"]

Ballots == INSTANCE ListingBallots WITH
    VotesToDecide <- [st \in Stages |->
        InitialConfig[IF st = "Sorting" THEN "sortingMaxVotes"
                                        ELSE "validationMaxVotes"]],
    AcceptancesPct <- [st \in Stages |->
        InitialConfig[IF st = "Sorting" THEN "sortingMinAcceptancesPct"
                                        ELSE "validationMinAcceptancesPct"]],
    ModificationsPct <- [st \in Stages |->
        InitialConfig[IF st = "Sorting" THEN "sortingMinModificationsPct"
                                        ELSE "validationMinModificationsPct"]],
    FullCoeff <- PAYMENT_COEFF,
    coeff <- [v \in VoteIds |-> tokenListings[v].coeff],
    ballots <- [v \in VoteIds |-> [st \in Stages |-> BallotOf(votes[v][st])]],
    owed <- owedRewards

ImplementsBallots == Ballots!Spec

=============================================================================
