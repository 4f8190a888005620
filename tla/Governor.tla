------------------------------ MODULE Governor ------------------------------
(***************************************************************************)
(* src/src/MobulaGovernor.sol: holders of voting-escrow shares create      *)
(* proposals and vote on them for a fixed period.  A vote may decide a     *)
(* proposal at once; checkClosing, run by hand and at the end of every     *)
(* vote, decides proposals whose period is over.  It scans the proposals   *)
(* from the newest down and stops at the first that is over.               *)
(*                                                                         *)
(* The escrow is an external contract: shares are locked, move and decay   *)
(* between any two calls.  One step is one transaction; a call that        *)
(* reverts changes nothing, so a division by zero, an underflow or a       *)
(* failed require is a negated guard.  The author and the text of a        *)
(* proposal are left out, and lastVote, which no method reads.             *)
(***************************************************************************)
EXTENDS Integers, FiniteSets

CONSTANTS
    Users,
    CREATE_PROPOSAL_MIN_SHARE,
    VOTING_PERIOD,
    ShareAmounts,     \* bound: shares a user may come to hold
    MaxProposals,     \* bound: proposals created
    StartTime,        \* block.timestamp at the deployment
    MaxTime           \* bound: block.timestamp

ASSUME GovernorAssumption ==
    /\ IsFiniteSet(Users)
    /\ CREATE_PROPOSAL_MIN_SHARE \in Nat
    /\ VOTING_PERIOD \in Nat
    /\ ShareAmounts \subseteq Nat
    /\ MaxProposals \in Nat
    /\ StartTime \in Nat /\ StartTime > VOTING_PERIOD
    /\ MaxTime \in Nat

ProposalIds == 0..(MaxProposals - 1)
VotingOptions == {"Yes", "No"}
Verdicts == {"Accepted", "Rejected"}
Statuses == Verdicts \cup {"Pending"}

(* Storage of a proposal nobody created: Accepted is the zero of the enum. *)
ZeroProposal ==
    [createdAt |-> 0, votesFor |-> [o \in VotingOptions |-> 0],
     status |-> "Accepted"]

VARIABLES
    proposals,        \* id -> creation time, votesForYes and votesForNo, status
    nextProposalId,
    votes,            \* user -> id -> has voted
    counted,          \* verdict -> acceptedProposals, refusedProposals
    numberVotes,
    shares,           \* user -> votingEscrow.balanceOf (external)
    totalShares,      \* votingEscrow.totalSupply (external)
    now               \* block.timestamp

ballotVars == <<nextProposalId, votes, counted, numberVotes>>
escrowVars == <<shares, totalShares>>
governorVars == <<proposals, ballotVars, escrowVars, now>>

GovernorInit ==
    /\ proposals = [p \in ProposalIds |-> ZeroProposal]
    /\ nextProposalId = 0
    /\ votes = [u \in Users |-> [p \in ProposalIds |-> FALSE]]
    /\ counted = [s \in Verdicts |-> 0]
    /\ numberVotes = 0
    /\ shares = [u \in Users |-> 0]
    /\ totalShares = 0
    /\ now = StartTime

Created == 0..(nextProposalId - 1)

(* createdAt + VOTING_PERIOD is still in the period. *)
Open(createdAt) == now <= createdAt + VOTING_PERIOD

Live(p) == Open(proposals[p].createdAt)

Verdict(option) == IF option = "Yes" THEN "Accepted" ELSE "Rejected"
Opposite(verdict) == IF verdict = "Accepted" THEN "Rejected" ELSE "Accepted"

createProposal(u) ==
    /\ shares[u] >= CREATE_PROPOSAL_MIN_SHARE
    /\ nextProposalId < MaxProposals
    /\ proposals' = [proposals EXCEPT ![nextProposalId] =
           [createdAt |-> now, votesFor |-> [o \in VotingOptions |-> 0],
            status |-> "Pending"]]
    /\ nextProposalId' = nextProposalId + 1
    /\ UNCHANGED <<votes, counted, numberVotes, escrowVars, now>>

-----------------------------------------------------------------------------
(* Closing *)

(* The ids getLiveProposals(nextProposalId) collects.  Its loop tests the   *)
(* proposal it read in the round before, in the first round the newest; so  *)
(* it collects one proposal after the last live one.  Mutant: top without   *)
(* the + 1.                                                                 *)
CollectedButFirst ==
    {p \in Created \ {0} :
        /\ Live(nextProposalId - 1)
        /\ \A q \in (p + 1)..(nextProposalId - 1) : Live(q)}

Collected ==
    {p \in Created :
        /\ Live(nextProposalId - 1)
        /\ \A q \in (p + 1)..(nextProposalId - 1) : Live(q)}

(* 5 percent, rounded down. *)
Quorum == (totalShares * 5) \div 100

VotesOn(proposal) == proposal.votesFor["Yes"] + proposal.votesFor["No"]

(* Mutant: closed while votes still come in. *)
ClosableEarly(proposal) == VotesOn(proposal) >= Quorum
Closable(proposal) ==
    /\ ~Open(proposal.createdAt)
    /\ VotesOn(proposal) >= Quorum

Majority(proposal) ==
    IF proposal.votesFor["Yes"] > proposal.votesFor["No"]
    THEN "Accepted" ELSE "Rejected"

(* The array has nextProposalId entries.  Those the loop does not fill are  *)
(* zero: they pass for a proposal with id 0 and no votes, come last and,    *)
(* when the quorum rounds down to zero, reject the first proposal.          *)
ZeroEntriesClose == Closable(ZeroProposal) /\ Collected # Created

(* checkClosing on the proposals ps: it changes the status and leaves the   *)
(* counters alone.                                                          *)
CloseProposals(ps) ==
    [p \in ProposalIds |->
        IF p = 0 /\ ZeroEntriesClose
        THEN [ps[p] EXCEPT !.status = "Rejected"]
        ELSE IF p \in Collected /\ Closable(ps[p])
        THEN [ps[p] EXCEPT !.status = Majority(ps[p])]
        ELSE ps[p]]

(* nextProposalId - 1 underflows when there is no proposal. *)
checkClosing ==
    /\ nextProposalId > 0
    /\ proposals' = CloseProposals(proposals)
    /\ UNCHANGED <<ballotVars, escrowVars, now>>

-----------------------------------------------------------------------------
(* Voting *)

(* (votes / totalShares) * 100 >= 50: the division comes first and is an    *)
(* integer division, so it takes all shares.                                *)
Decisive(tally) == (tally \div totalShares) * 100 >= 50

(* The counters after a decisive vote: they follow the status this vote     *)
(* found.  Mutants: only a first verdict is counted; the other counter      *)
(* goes down whatever the status was.                                       *)
CountersFirstTime(previous, verdict) ==
    [s \in Verdicts |->
        CASE s = verdict /\ previous = "Pending" -> counted[s] + 1
          [] s # verdict /\ previous = s -> counted[s] - 1
          [] OTHER -> counted[s]]

CountersTakenOff(previous, verdict) ==
    [counted EXCEPT ![verdict] = @ + 1, ![Opposite(verdict)] = @ - 1]

CountersAfter(previous, verdict) ==
    [s \in Verdicts |->
        CASE s = verdict /\ previous # verdict -> counted[s] + 1
          [] s # verdict /\ previous = s -> counted[s] - 1
          [] OTHER -> counted[s]]

(* Mutant: the vote overwrites those before it. *)
BallotOverwriting(u, p, option) ==
    [proposals[p] EXCEPT !.votesFor[option] = shares[u]]

Ballot(u, p, option) ==
    [proposals[p] EXCEPT !.votesFor[option] = @ + shares[u]]

vote(u, p, option) ==
    LET ballot == Ballot(u, p, option)
        previous == proposals[p].status
        verdict == Verdict(option)
    IN  /\ ~votes[u][p]
        /\ Live(p)
        /\ shares[u] > 0
        /\ totalShares > 0
        /\ nextProposalId > 0
        /\ votes' = [votes EXCEPT ![u][p] = TRUE]
        /\ numberVotes' = numberVotes + 1
        /\ \/ /\ Decisive(ballot.votesFor[option])
              /\ previous = Opposite(verdict) => counted[previous] > 0
              /\ counted' = CountersAfter(previous, verdict)
              /\ proposals' = CloseProposals([proposals EXCEPT ![p] =
                                  [ballot EXCEPT !.status = verdict]])
           \/ /\ ~Decisive(ballot.votesFor[option])
              /\ proposals' = CloseProposals([proposals EXCEPT ![p] = ballot])
              /\ UNCHANGED counted
        /\ UNCHANGED <<nextProposalId, escrowVars, now>>

-----------------------------------------------------------------------------
(* The escrow: a user locks, unlocks, or the shares decay. *)
ChangeShares(u, n) ==
    /\ n # shares[u]
    /\ totalShares >= shares[u]
    /\ shares' = [shares EXCEPT ![u] = n]
    /\ totalShares' = totalShares - shares[u] + n
    /\ UNCHANGED <<proposals, ballotVars, now>>

Tick ==
    /\ now < MaxTime
    /\ now' = now + 1
    /\ UNCHANGED <<proposals, ballotVars, escrowVars>>

HolderStep ==
    \E u \in Users :
        \/ createProposal(u)
        \/ \E p \in ProposalIds, option \in VotingOptions : vote(u, p, option)

EscrowStep == \E u \in Users, n \in ShareAmounts : ChangeShares(u, n)

GovernorNext == HolderStep \/ checkClosing \/ EscrowStep \/ Tick

GovernorSpec == GovernorInit /\ [][GovernorNext]_governorVars

-----------------------------------------------------------------------------
(* Properties *)

ProposalRecords ==
    [createdAt : Nat, votesFor : [VotingOptions -> Nat], status : Statuses]

GovernorTypeOK ==
    /\ proposals \in [ProposalIds -> ProposalRecords]
    /\ nextProposalId \in 0..MaxProposals
    /\ votes \in [Users -> [ProposalIds -> BOOLEAN]]
    /\ counted \in [Verdicts -> Nat]
    /\ numberVotes \in Nat
    /\ shares \in [Users -> Nat]
    /\ totalShares \in Nat
    /\ now \in Nat

(* The counters never hide a proposal that is being voted on: as many       *)
(* proposals as are accepted (rejected) and still open have been counted.   *)
(* So the checked subtraction in vote, which takes a flipped proposal off   *)
(* its counter, never underflows and never blocks a vote, although          *)
(* checkClosing flips statuses without counting: it only touches proposals  *)
(* that are over.                                                           *)
OpenWith(verdict) ==
    {p \in Created : Live(p) /\ proposals[p].status = verdict}
CountersCoverOpen ==
    \A s \in Verdicts : Cardinality(OpenWith(s)) <= counted[s]

(* The scan of getLiveProposals, which stops early, misses no live          *)
(* proposal, and drags in one that is over at most: creation times never    *)
(* decrease.  A vote that runs the scan therefore always sees its own       *)
(* proposal.                                                                *)
ScanFindsLive ==
    /\ \A p \in Created : Live(p) => p \in Collected
    /\ \A p, q \in Collected : ~Live(p) /\ ~Live(q) => p = q

(* Nobody votes twice and no vote is lost: numberVotes counts the users and *)
(* proposals marked, a proposal that was not created has no votes, and the  *)
(* votes on a proposal are at least one share for each voter and at most    *)
(* the most shares each may have held.                                      *)
VotersOn(p) == {u \in Users : votes[u][p]}
VotesCountedOnce ==
    /\ numberVotes = Cardinality({v \in Users \X ProposalIds : votes[v[1]][v[2]]})
    /\ \A p \in ProposalIds :
          /\ VotersOn(p) # {} => p \in Created
          /\ VotesOn(proposals[p]) >= Cardinality(VotersOn(p))
          /\ \E n \in ShareAmounts :
                VotesOn(proposals[p]) <= n * Cardinality(VotersOn(p))

(* Every change of a proposal's status has its reason: a vote on the        *)
(* proposal while it was open brought one side to all the shares there      *)
(* are; or it was over, had its quorum, and went with its majority; or it   *)
(* is the first proposal, rejected by a zero entry while the quorum is      *)
(* zero.  No other proposal, and no open one, is decided by the scan.       *)
VotedThrough(p) ==
    /\ Live(p)
    /\ \E o \in VotingOptions :
          /\ proposals'[p].votesFor[o] > proposals[p].votesFor[o]
          /\ proposals'[p].votesFor[o] >= totalShares
          /\ proposals'[p].status = Verdict(o)
ClosedByMajority(p) ==
    /\ ~Live(p)
    /\ VotesOn(proposals[p]) >= Quorum
    /\ proposals'[p].votesFor = proposals[p].votesFor
    /\ proposals'[p].status = Majority(proposals[p])
RejectedByZeroEntry(p) ==
    /\ p = 0 /\ Quorum = 0
    /\ ~Live(p)
    /\ proposals'[p].status = "Rejected"
StatusChangesAreJustified ==
    [][\A p \in Created :
          proposals'[p].status # proposals[p].status =>
              VotedThrough(p) \/ ClosedByMajority(p) \/ RejectedByZeroEntry(p)
      ]_governorVars

=============================================================================
