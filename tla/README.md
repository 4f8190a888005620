# Mobula contracts in TLA+

Models, model checks and proofs for the Solidity contracts of this repository
(`src/src/`). The repository is the reference: every definition is translated
from a contract, and `PROJECT.json` ("map") names the lines it stands for.
`MobulaTokensProtocol.sol`, the way other chains reach it, its predecessor
`ProtocolProxy.sol`, the governor and the staking vault are modelled; the rest
is inventoried below, with the reason it is left out.

## The system

| Part | State | Operations |
| --- | --- | --- |
| Token listings (`MobulaTokensProtocol.sol`) | `tokenListings`, seven status arrays, six vote arrays per listing, vote phases, good and bad votes, owed and paid rewards, whitelists, parameters | submit, top up, update, vote in Sorting and in Validation, claim, owner settings and overrides, withdrawals |
| Rank hierarchy (same contract) | `rank`, promotion and demotion tallies, quotas, thresholds | `promote`, `demote`, emergency overrides, setters |
| Protocol API (`API.sol`) | `assets`, `assetById`, static data, the protocol's address | `addAssetData` (called by the protocol when a token is validated), static data, address |
| Cross-chain sender (`MobulaCrosschainSender.sol`) and `_execute` | accepted stablecoins, destination, payments collected on another chain; whitelisted senders | submit, top up, update through Axelar, withdraw; execute |
| First protocol (`ProtocolProxy.sol`) | predecessor: two arrays of pending tokens, an index per id and array, votes on record per id, rewards, ranks | `submitIPFS`, `firstSortVote`, `finalDecisionVote`, `claimRewards`, `promote`, `demote`, emergency methods, setters |
| Governor (`MobulaGovernor.sol`) | proposals, votes, counters of accepted and refused ones | `createProposal`, `vote`, `checkClosing` |
| Staking vault (`Staking.sol`) | stakes, settled rewards, block of the last settlement, array of stakers with indices, rate | `stake`, `withdraw`, `claim`, `modifyRewards` |
| Faucet, MOBL token | last claim per user; pause, black and white list | claim; transfers |

How they interact. A submitter pays a stablecoin and gets a listing with a
coefficient; a full coefficient opens the *Sorting* vote of ranked users, an
accepted one the *Validation* vote of Rank II users. The verdict of Validation
reads the votes of both stages, credits rewards, calls `API.addAssetData`, and
deletes the votes. `promote` and `demote` change the ranks both votes test,
while votes are open. The sender contract on another chain takes the payment
there and sends a payload that `_execute` handles as a call made *for* the
sender. The faucet reads the ranks, the governor reads voting-escrow balances.
The first protocol, the governor and the vault share no state with the others:
each is a module of its own with its token, API or escrow external.

What is hard. Every call is one atomic transaction, so the difficulty lies in
**sequences** of legal calls by several parties: swap-and-pop over seven arrays
with remembered indices; votes of several phases told apart by a counter
instead of a search; arrays read and deleted in one transaction; thresholds,
ranks and listings changed by the owner or by other users while a vote is open;
tallies compared with `==`; truncating divisions; a deciding vote that reverts
because the API refuses; a payment on one chain that is credited on the other by
a late, reordered or retried message; indices and votes the first protocol never
deletes; a scan that stops at the first proposal that is over and an array padded
with zero entries; rewards settled lazily from the balance that holds the stakes.
`PROJECT.json` lists each at its line.

What makes each part correct:

- **Listings**: the status arrays partition the listings; one vote per user and
  phase; the vote that completes a ballot closes it; Validation rests on the
  accepted Sorting vote; each vote is judged once and each right vote rewarded
  once; coefficients are covered by payments; saved tokens are the validated
  ones and their scores are at most five.
- **Hierarchy**: ranks in 0..2; no tally outlives its use; a tally never passes
  its threshold; a quota pays for every voted rank change.
- **Cross-chain**: a payment is credited exactly once, or still in a message;
  what was submitted is listed in the end.
- **First protocol**: no contract is in the listing process twice and
  no more tokens are saved or pending than were submitted, whatever stale index a
  call goes through; the indices of the tokens that stay are right; the rewards of a verdict sum up to
  the right votes.
- **Governor**: a proposal changes its status for a reason (all shares, the
  majority after the period, or the zero entry); the scan misses no live
  proposal; the counters never underflow; no vote is lost or counted twice.
- **Staking**: the vault is short of stakes only by rewards paid beyond those
  sent; the array holds exactly the stakers; within a block nothing but a claim
  changes what a user has earned; the total is the sum of the stakes.

## Modules

| Module | Models | Proofs |
| --- | --- | --- |
| `Ranks` | the rank map the two halves of the contract share | |
| `Arrays` | swap and pop, the removal all three array contracts use | `DataLemmas` |
| `StatusArrays` | `_updateListingStatus` as far as arrays and indices go | `ListingsProofs` |
| `Listings` | everything about listings, votes, rewards, settings | `ListingsProofs`, `AccountingProofs` |
| `Hierarchy` | promotion and demotion | `ProtocolProofs` |
| `MobulaTokensProtocol` | `Listings` and `Hierarchy` on the same ranks | `ProtocolProofs` |
| `ListingBallots` | abstract specification: two ballots per listing, no arrays, phases or indices | `AccountingProofs` (refinement) |
| `CrossChain` | the sender, Axelar's messages and `_execute`, around `Listings` | `CrossChainProofs` |
| `FirstProtocol` | `ProtocolProxy.sol` | `FirstProtocolProofs` |
| `Governor` | `MobulaGovernor.sol` with an external voting escrow | `GovernorProofs` |
| `Staking` | `Staking.sol` with an external SAFU token | `StakingProofs` |

`MCListings`, `MCHierarchy`, `MCProtocol`, `MCCrossChain`, `MCFirstProtocol`,
`MCGovernor` and `MCStaking` instantiate them for TLC.

**How state corresponds to code.** `status`, `statusIndex` and `statusArrays`
are the fields of `TokenListing` and the seven `...Listings` arrays;
`tokenListings` holds the other fields. The six mappings
`sortingAcceptances` ... `validationModifications` are
`votes[voteId][stage][vote]`, a sequence of voters each; `sortingVotesPhase` and
`validationVotesPhase` are `votesPhase[stage][voteId][user]`. The setters'
parameters are the record `config`. `promoteVotes`, `demoteVotes` keep their
names; the eight quotas and thresholds are `members[rank change]` and
`votesNeeded[rank change]`. Array positions count from 0 as in the code.

In `FirstProtocol` the pairs of arrays and mappings of the two votes are indexed
by the stage: `pending` is `firstSortTokens` and `finalValidationTokens`,
`indexOf` their index mappings, `voted` is `firstSortVotes` and
`finalDecisionVotes`, `onRecord[stage][validate][id]` the four arrays of voters,
`good` and `bad` the four tallies of judged votes; `submitted` is the length of
`submittedTokens`, `assets` counts calls of `addAssetData`. In `Governor`,
`counted` is `acceptedProposals` and `refusedProposals`, `votesFor` the two tallies
of a proposal; storage nobody wrote is `ZeroProposal`, whose status is Accepted,
the zero of the enum. `Staking` keeps the names of the code and adds two histories,
`sent` and `rewardsPaid`, which no action reads.

**How actions correspond to code.** One action is one external method, with
every internal call it makes (`_updateListingStatus`, `_rewardVoters`,
`_saveToken`, `addAssetData`) inside it. A revert undoes the whole transaction,
so it is a guard. Submission, top-up and update take two accounts, as the
internal methods do: `msg.sender`, and the user the call is made for.

**Abstractions.** One score stands for the utility, social and trust scores,
which the code treats alike. The ipfs hash is dropped. All accepted stablecoins
are one, and a payment is in whole units. `protocolAPI` is 1 or 0: an API that
accepts the protocol's calls or one that reverts them. Numbers are unbounded:
the amounts involved stay far below 2^256, and the contracts' checked
subtractions are guards. The native coin (`withdrawFunds`), ownership transfer
and getters are left out. An array access out of bounds reverts, so it is a guard
too (`Found`, `HasReceivers` in `FirstProtocol`). The settings of the first protocol
are constants; its scores, hashes and the submitter's payment are dropped. In
`Governor` the escrow may change any balance between two calls.

Operators called "Mutant" in a comment are plausible mistakes next to the
definition they would replace; `PROJECT.json` pairs each property with one that
breaks it.

## Runs

All bounds are constants of the modules; each run gives them in its cfg. The
numbers keep the shape of `DeployMobulaTokensProtocol.s.sol` (floor price 100,
half of the votes to accept) with fewer votes to a verdict.

| Run | States | Question and answer |
| --- | --- | --- |
| `hierarchy` | 846k | Two users, every initial setting of quotas and thresholds up to 2, tallies up to 3, votes, overrides and setters in any order: `HierarchyTypeOK`, `NoTallyBeyondReach`. |
| `voting` | 220k | One listing, three voters (one gains and loses ranks at any moment), two phases, claims: `NoOverdueVerdict`, `ValidationRestsOnSorting`, `VoteCanContinue`, `RewardsBackGoodVotes`, `VerdictsPayTheRecord`, `ClaimsArePaid`, and the refinement `ImplementsBallots`. |
| `submission` | 823k | Three listings, partial payments that a floor price of 3 does not divide, a whitelisted submitter, edits, withdrawals, an API that stops accepting calls: `StatusArraysConsistent`, `PooledWhileUnderpaid`, `CoeffsArePaidFor`, `TokenIdsAreDense`, `AssetsMatchValidated`. |
| `owner` | 405k | Votes interleaved with an owner who moves the listing to any status and changes thresholds: `ListingsTypeOK`, `OneVotePerPhase`, `VotesJudgedOnce`, `ScoresBounded`. |
| `protocol` | 39k | One user of each rank, promotions and demotions during open votes, two blocks: `NoOverdueRankChange`, `VotesAwaitCooldown`, `QuotaPaysRankChange`, `VotesOutliveRanks`, and the refinement `ImplementsListings`. |
| `cross_chain` | 60k | Two messages, delayed, reordered and retried, next to local calls and withdrawals: `PaymentsAreCreditedOrInFlight`, `SubmissionsAreListed`. |
| `first_protocol` | 241k | Two submissions (ids may be reused), two voters, up to five votes on record, kills, rank moves: `FirstTypeOK`, `NoContractPendingTwice`, `NothingSavedTwice`, `RewardsMatchGoodVotes`, `IndicesStay`. |
| `governor` | 193k | Two holders of 0, 1 or 40 shares, two proposals, a period of one tick, four instants: `GovernorTypeOK`, `CountersCoverOpen`, `ScanFindsLive`, `VotesCountedOnce`, `StatusChangesAreJustified`. |
| `staking` | 683k | Three users, stakes of 1 and 2 up to a cap of 3, two rates, rewards sent, three blocks: `StakingTypeOK`, `StakersConsistent`, `StakesAreBacked`, `LockedIsSum`, `EarnedIsKept`. |

**Why these bounds are enough to be interesting.** Three listings are the
fewest for which a swap moves a listing other than the first and the last. Two
votes to a verdict with three voters reach every outcome, including one vote
that both fills a ballot and requests the modification that sends it back; the
coefficient in `voting` is 1500 for a floor price of 100, so a claim is
truncated. `MaxPhase` 2 gives an update round; in `owner` a listing is killed,
rejected or validated and reopened any number of times. `Scores` holds 6, which
the code refuses. In `cross_chain` two messages are the fewest that can
overtake each other: a top-up executed before its submission reverts and is
tried again. In `first_protocol` two tokens are the fewest for which an index of a
removed token finds another one, and five votes on record carry an id through
both votes and into a second round. In `governor` 40 shares of a supply of 41 miss the 50 percent
test of the code (all shares pass it), a supply of 1 or 0 gives a quorum of zero,
so that zero entries decide, and `StartTime` is beyond the period, as the clock of
a chain is. In `staking` a rate of 3 with a unit of 2 earns
fractions, which are truncated, and the rewards sent may fall short of those earned. What the small values
cannot show is covered by the proofs where there is one.

`first_protocol` has a state constraint, `Bounded`: once ranks or tallies have
moved, only one submission and one vote are followed. Ranks enter the votes as
guards only, and all combinations of votes are explored with the ranks as given;
the invariants proved for this module are proved without the constraint.

Symmetry over users is used in `hierarchy`, `voting`, `owner`, `first_protocol` (over
contracts as well), `governor` and `staking`, safety runs whose initial states and
properties treat the permuted values alike.

**Deadlock.** A contract is idle when nobody calls it, and the bounds (listings,
phases, blocks) stop a finite instance. So the check is off except in
`hierarchy`, where the setters are always enabled.

**Fairness.** None for the contracts: nobody must vote, pay or claim. That is why
the promises about votes are safety properties (`NoOverdueVerdict`,
`VoteCanContinue`: a vote can go on). `cross_chain` assumes strong fairness of
one relayer's `execute` of each message. Axelar is external: its relayers retry
approved messages, and an execution that reverts leaves the message approved.
Strong, because the owner may take the sender off the whitelist and put it back;
`SubmissionsAreListed` is conditional on the sender being whitelisted again and
again. The run has no submitter whitelisted on the destination, who would have
to wait for a cooldown, hence for blocks that are not promised.

## Where code and documents disagree

Three runs are expected to find a violation; each states what a comment says.

- `hierarchy_threshold`: "Amount of votes needed for a Rank I promotion". The
  comparison is `==` and a demotion keeps the promotion tally, so a user may
  stand at or above the threshold without being promoted, with votes alone.
  `NoOverdueRankChange` states when it cannot happen: thresholds that stand and
  are ordered (`OrderedThresholds`); that is proved.
- `self_relay`: "If method was called from another chain". The test is
  `msg.sender != sourceMsgSender`; a submitter who calls `execute` for the own
  message passes for a local caller and pays on both chains. `cross_chain` shows
  that payments add up when somebody else relays.
- `removed_reached`: "If token is in finalValidationTokens -> removed from
  firstSortTokens -> unreachable". The index of the removed token is kept, and
  once the array is that long again a first vote for the removed id passes, on
  another token's cooldown and under the removed id. Another such vote may move
  that other token on: `IndicesStay` is therefore conditional, while
  `NoContractPendingTwice` and `NothingSavedTwice` hold all the same.

Two more, seen while modelling and not given runs: `submitToken` reserves token id 0
for new tokens ("if update, 0 otherwise") while the first token gets that id; and a
listing the owner reopens keeps its phase marks, so those whose votes were
deleted are refused as if they had voted.

Two flaws that comments of `ProtocolProxy.sol` already call a BUG are modelled as the
code has them and are not asserted away. The loops over right votes credit the first
validator at the same position ("tokenFinalValidations[tokenId][i] instead of
tokenFirstValidations[tokenId][i] ?", line 582), so a verdict may pay one user for
another's votes; `RewardsMatchGoodVotes` speaks of the sum only. And `demote` tests
for Rank 0 after requiring Rank 1 ("Condition impossible", line 864), so a Rank I user
is demoted by the number of votes and the quota of Rank II, and may stand at or beyond
the own number; no property of the tallies of this contract is claimed.

## Proofs

TLAPS checks every theorem for all values of the constants: any number of users,
any configuration, any bound. The assumptions are the named `ASSUME`s of the
modules (types of the constants, accounts distinct from users); TLC evaluates
them in the runs. A theorem that needs more says so in its own `ASSUME`, and the
table after the list gives the reason. Every invariant and action property of the
passing runs, and both refinements, are the subject of a theorem.

The theorems about `Listings` are stated for `CallsSpec`, which adds to
`ListingsSpec` the calls that somebody else makes for a user. It has more behaviours
(`LocalCallsAreCalls`); the whole contract and the cross-chain system are shown to
be among them, so each theorem is proved once and holds of all three.
`CoeffsStayPaidFor` alone is about `ListingsSpec`: a relayed call pays elsewhere.

**Types, arrays and votes.**

- `StatusArraysAreConsistent`: listings may move between statuses in any order,
  the arrays and indices agree. Consistency is inductive together with the
  types. The proof splits a move into leaving an array (`Detach`: swap and pop
  keep every other listing where its index says) and joining one (`Attach`).
- `ListingsAreSound`: `ListingsTypeOK`, `StatusArraysConsistent`,
  `OneVotePerPhase` and `ScoresBounded` for every behaviour of `Listings`. They
  are not inductive one by one. That a new vote is a new voter needs *every* voter
  on record to carry the mark of the current phase (`Marked`); that a new listing,
  which starts in phase 1 whatever its storage held, keeps that true needs unused
  storage to hold no votes (`Unused`); the saved average is at most five because the
  accrued score is bounded by the votes on record (`Bounded`). The invariant
  `ListingsInv` conjoins these. `UpdateListingStatusPreserves` and `CastVote` carry
  the argument, with one lemma for each action on top.
- `TokenIdsStayDense`, `VotesStayCool`, `PoolIsForUnderpaid`, `NoVerdictIsOverdue`,
  `ValidationFollowsSorting`, `AssetsFollowValidated`: invariants of `Listings` proved
  from `StepEffect`, which reads off the actions once that a step changes at most one
  listing, and how. Their assumptions are named in the theorems: the last four need
  that the owner overrides no status (`OwnerMoves = {}`), the two about verdicts also
  that thresholds stand and that some vote is needed to reach one, `VotesStayCool`
  that the cooldown stands. The strengthenings are that a listing outside a vote has
  no votes (`ArraysFit`; for `VotesStayCool` only one that can be updated, which is
  why owner moves do not break it), and that unused storage has status Init
  (`FreshIsInit`).

**Accounts of the listings** (`AccountingProofs`). Sums over votes, users or
listings are `SumFunction` of the community modules, a CHOOSE of a table with a
recursive equation. `DataLemmas` shows that the table exists and is unique on finite
sets, by looking for a smallest set without one, and derives what a change of one
entry does to a sum. What a step does to votes, marks, arrays, verdicts and
payments is read off the actions once (`RecordStep`, `StepPhases`, `TermsStep`), so
that each account is arithmetic over a few cases.

- `VotesStayJudgedOnce`: good, bad and waiting votes of a user never exceed the
  phases voted in, over all listings. A verdict turns votes that wait into judged
  ones in the transaction that deletes them; the new listing that resets a phase
  does so on storage nobody voted on.
- `RewardsStayBacked`, `VerdictsPayRecords`, `ClaimsPayWhatIsOwed`: rewards against
  right votes. What a user was paid and is still owed is worth at least a full
  coefficient, and at most the coefficient of some listing, for each right vote: no
  reward is lost and none given twice. Its value changes in verdicts alone, by the
  coefficient times the right votes in the arrays that the verdict reads: rewarding
  from arrays deleted before would pay nothing. A claim trades what is owed for what
  is paid at the same value, to a rounding loss below one MOBL for each right vote.
- `CoeffsStayPaidFor`: the stablecoins in all accounts, what the owner withdrew
  included, cover all coefficients but those granted by whitelisting and by edits.
- `VotesCanContinue`: an open vote has fewer votes on record than it takes, each of
  its voters is on record once, so enough holders of the rank leave one who may
  still vote. Who is marked is on record for as long as the vote is open
  (`MarksInv`).
- `ListingsImplementBallots`: the vote arrays, phases and indices implement
  `ListingBallots`, which has none of them. The map takes the arrays of a listing to
  who voted what (`BallotOf`) and forgets phases and indices. Its core is that lengths
  of arrays count voters (`ArrayCounts`, from `OneVotePerPhase`), hence the contract
  and the abstraction decide a ballot alike (`BallotDecides`), and that the pushes of `_rewardVoters` pay exactly the voters
  who were right (`BallotSettles`).

**Hierarchy and the whole contract.**

- `HierarchyIsSafe`: ranks stay in 0..2 and users at either end have no tally in
  that direction.
- `NoRankChangeIsOverdue`: with fixed, ordered thresholds the `==` of `promote` and
  `demote` never misses its moment. It needs `NoTallyBeyondReach`: a Rank II user
  falls to Rank I with whatever promotion tally is left.
- `VotesPayQuota`: a voted rank change takes one unit of the quota of its kind.
- `ProtocolImplementsListings`: the whole contract implements `Listings` with ranks
  that move by one at any moment (assuming that `MovingRanks` is all users). Each step of the
  hierarchy is a `RankChange` or a stutter, for which the range of the ranks is
  needed. What is proved of `Listings` then holds of the contract:
  `ProtocolListingsAreSound`, `ProtocolKeepsAccounts`, `ProtocolVerdictsAreSound`,
  `ProtocolVotesStayCool`, `ProtocolMoneyIsCovered`, `ProtocolVotesCanContinue`, and
  `ProtocolImplementsBallots`, a refinement over two levels. In the other
  direction the contract is a sequence of votes to the hierarchy, hence
  `ProtocolVotesPayQuota` and `NoProtocolRankChangeIsOverdue`.
- `VotesStayWhenRanksMove`: a step that changes a rank leaves all votes and
  statuses as they are, and only a user who holds the rank adds a vote.

**Other chains** (`CrossChainProofs`).

- `CrossChainStepsAreCalls`: `_execute` is a submission, top-up or update made for a
  user; late, reordered or repeated, it is a step of `CallsSpec`. Hence
  `RelayedListingsAreSound`, `RelayedCallsKeepAccounts`, `RelayedListingsAreProcessed`,
  `RelayedVotesAreDecided` and `CrossChainImplementsBallots`: a relayed update that
  comes late reopens no ballot and lets nobody vote again.
- `PaymentsStayCreditedOrInFlight`: what the source chain collected, including what
  was withdrawn there, is what was credited plus what messages still carry.

**The other contracts.**

- `FirstProtocolIsSound`: types, `NoContractPendingTwice`, `NothingSavedTwice`.
  The point of the proof is that none of it rests on the
  indices being right: a removal at *any* position below the length takes out
  one token as a whole. `Picks` says that what remains are tokens of before, each at
  most once; a token moved to the other array shares no contract with those left
  (`MoveKeepsDisjoint`), a new one with none (`AppendKeepsDisjoint`).
  `IndicesStaySettled` proves `IndicesStay`: the swap writes the one index that
  changes (`RemovalKeepsIndices`).
- `GovernorIsSound`: counting only verdicts given by votes is enough, because
  `checkClosing` touches no open proposal; creation times never decrease, so the scan
  that stops early is complete (`ScanIsComplete`), a decisive vote leaves every other
  open proposal's verdict alone, and each status change has its reason
  (`DecisionsAreJustified`, an action property).
  `VotesStayCountedOnce` sandwiches the tally of each proposal between one share and
  the greatest holding for each marked voter.
- `RewardsMatch` (first protocol): the rewards of a verdict add up to what the right
  votes earn although a stale index may hand them to voters of another token:
  the votes judged are those on record under the id, each paid once.
- `StakersAreConsistent`, `StakesStayBacked`, `LockedStaysSum`: the array of stakers
  against the balances, the vault's balance against stakes and rewards, and the
  total against the sum. `RewardsAreKept` is the action property that settlement is
  invisible: it needs that a rate change settles everybody with a stake, which is
  `StakersConsistent`.

**Assumptions in theorems.** Each excludes something the code allows and that breaks
the property, except the last two rows.

| Assumption | Theorems | What happens without it |
| --- | --- | --- |
| `OwnerMoves = {}` | verdicts, payment of pooled listings, rewards, ballots, `VotesCanContinue` | the owner sets any status: a listing in Sorting may be unpaid, or carry no votes but the marks of those who voted |
| `ThresholdsStand`, `VerdictsNeedVotes` | verdicts, ballots, `VotesCanContinue` | a threshold lowered below the votes on record is met by the next vote only; a verdict that takes no votes is never evaluated |
| `tokensPerVote` fixed | `RewardsStayBacked`, `VerdictsPayRecords` | owed coefficients are priced at the time of the claim |
| `voteCooldown` fixed | `VotesStayCool` | a vote cast under a shorter cooldown stays on record |
| price, edit factor, whitelist fixed | `CoeffsStayPaidFor`, `PaymentsStayCreditedOrInFlight` | both read the present price and whitelist, while coefficients were bought under those of the time |
| `InitialWhitelist = {}` | `PaymentsStayCreditedOrInFlight` | a whitelisted user pays on the source chain and gets a coefficient regardless of the payment |
| `PricesAreExact` | `PaymentsStayCreditedOrInFlight` | the division drops the remainder of a payment |
| relayers are not users | `PaymentsStayCreditedOrInFlight` | a self-relayed message pays twice (`self_relay`) |
| `MovingRanks = Users` | the whole contract | none: it asks that the abstraction lets every rank move |
| `IsFiniteSet(Users)`, some amount or coefficient exists | sums and bounds | none: a sum over infinitely many users, or the greatest of no amounts, means nothing |

**Only model-checked.** `SubmissionsAreListed`, a liveness property under fairness,
which is out of the prover's reach. The three runs that expect a violation are
counterexamples and have nothing to prove.

## Not modelled

- **API**: `assetById` is a view of the saved assets; static data is written by the
  owner and the old protocol only and read by nobody here.
- **Protocol contract**: `withdrawFunds` (the native coin, which no method takes in),
  ownership transfer (vendored `Ownable2Step`), and the owner's rank overrides next
  to open votes (they are in `Hierarchy`; `Listings` lets ranks move at any moment).
- **First protocol**: the setters. The proofs hold for any values of the settings,
  but not for values that change.
- **Faucet**: one method whose two conditions, a rank and a week since the last
  claim, are its guards; **MOBL token**: pause and lists as guards over the vendored
  ERC20. Nothing about either takes more than one call to go wrong.
- Vendored OpenZeppelin and forge-std code (the scripts and tests that come with it
  included), interfaces and errors, the superseded contracts in `src/src/axelar/` (a
  receiver that only emits events, an older sender), key handling of the deployment
  scripts.

What is left to prove: facts about `ListingBallots` by itself, which the refinements
would carry over to the code, and a model of cross-chain calls and rank changes
together, to which `CallsSpec` applies as it stands.
