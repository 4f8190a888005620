--------------------------- MODULE GovernorProofs ---------------------------
(***************************************************************************)
(* Proofs about the governor for any holders, shares, periods and numbers  *)
(* of proposals: creation times never decrease, hence the scan that stops  *)
(* at the first proposal that is over misses none that is open, hence      *)
(* checkClosing decides no open proposal, and the counters it ignores      *)
(* still cover the open ones.  Votes are counted once: the tallies of a    *)
(* proposal lie between the least and the most its voters may have held.   *)
(***************************************************************************)
EXTENDS Governor, FiniteSetTheorems, TLAPS

CreatedInOrder ==
    \A p, q \in Created :
        /\ proposals[p].createdAt <= now
        /\ p < q => proposals[p].createdAt <= proposals[q].createdAt

OthersAreZero ==
    \A p \in ProposalIds \ Created : proposals[p].createdAt = 0

GovernorInv ==
    /\ GovernorTypeOK
    /\ now > VOTING_PERIOD
    /\ CreatedInOrder
    /\ OthersAreZero
    /\ CountersCoverOpen

-----------------------------------------------------------------------------
(* Arithmetic of the thresholds *)

(* A rounded quotient that is not zero. *)
LEMMA WholeShares ==
    ASSUME NEW tally \in Nat, NEW n \in Nat \ {0},
           (tally \div n) * 100 >= 50
    PROVE  tally >= n
<1> SUFFICES ASSUME tally < n PROVE FALSE
  OBVIOUS
<1>1. tally \div n = 0
  OBVIOUS
<1> QED
  BY <1>1

LEMMA QuorumNat ==
    ASSUME GovernorTypeOK
    PROVE  Quorum \in Nat
<1>1. totalShares * 5 \in Nat
  BY DEF GovernorTypeOK
<1> QED
  BY <1>1 DEF Quorum

-----------------------------------------------------------------------------
(* The scan *)

LEMMA CreatedIds ==
    ASSUME GovernorTypeOK
    PROVE  /\ Created \subseteq ProposalIds
           /\ IsFiniteSet(Created)
           /\ nextProposalId > 0 => 0 \in Created /\ nextProposalId - 1 \in Created
<1>1. nextProposalId \in Int /\ nextProposalId <= MaxProposals /\ nextProposalId >= 0
  BY GovernorAssumption DEF GovernorTypeOK
<1>2. IsFiniteSet(Created)
  BY <1>1, FS_Interval DEF Created
<1> QED
  BY <1>1, <1>2, GovernorAssumption DEF Created, ProposalIds

(* What is created later closes later. *)
LEMMA LaterStaysLive ==
    ASSUME GovernorTypeOK, CreatedInOrder,
           NEW p \in Created, NEW q \in Created, p <= q, Live(p)
    PROVE  Live(q)
<1>1. p \in ProposalIds /\ q \in ProposalIds
  BY CreatedIds
<1>2. proposals[p].createdAt \in Nat /\ proposals[q].createdAt \in Nat /\ now \in Nat
  BY <1>1 DEF GovernorTypeOK, ProposalRecords
<1>3. p \in Int /\ q \in Int
  BY <1>1, GovernorAssumption DEF ProposalIds
<1>4. proposals[p].createdAt <= proposals[q].createdAt
  BY <1>2, <1>3 DEF CreatedInOrder
<1> QED
  BY <1>2, <1>4, GovernorAssumption DEF Live, Open

LEMMA ScanComplete ==
    ASSUME GovernorTypeOK, CreatedInOrder
    PROVE  ScanFindsLive
<1>1. nextProposalId \in Int /\ nextProposalId >= 0
  BY GovernorAssumption DEF GovernorTypeOK
<1>2. ASSUME NEW p \in Created, Live(p)
      PROVE  p \in Collected
  <2>1. p \in Int /\ p >= 0 /\ p <= nextProposalId - 1 /\ nextProposalId > 0
    BY <1>1 DEF Created
  <2>2. \A q \in (p + 1)..(nextProposalId - 1) : q \in Created /\ p <= q
    BY <1>1, <2>1 DEF Created
  <2>3. Live(nextProposalId - 1)
    BY <1>2, <2>1, CreatedIds, LaterStaysLive
  <2> QED
    BY <1>2, <2>2, <2>3, LaterStaysLive DEF Collected
<1>3. ASSUME NEW p \in Collected, NEW q \in Collected, ~Live(p), ~Live(q)
      PROVE  p = q
  <2>1. /\ p \in Int /\ p <= nextProposalId - 1
        /\ q \in Int /\ q <= nextProposalId - 1
    BY <1>1 DEF Collected, Created
  <2>2. ~(p < q)
    BY <1>1, <1>3, <2>1 DEF Collected
  <2>3. ~(q < p)
    BY <1>1, <1>3, <2>1 DEF Collected
  <2> QED
    BY <2>1, <2>2, <2>3
<1> QED
  BY <1>2, <1>3 DEF ScanFindsLive

-----------------------------------------------------------------------------
(* Closing *)

(* What the scan does to proposals whose creation times are those stored:   *)
(* it decides some of those that are over, for one of two reasons.          *)
ClosedFor(p, before, after) ==
    /\ ~Live(p)
    /\ p \in Created
    /\ \/ VotesOn(before) >= Quorum /\ after.status = Majority(before)
       \/ p = 0 /\ Quorum = 0 /\ after.status = "Rejected"

LEMMA ClosedAreOver ==
    ASSUME GovernorTypeOK, CreatedInOrder, nextProposalId > 0,
           NEW ps \in [ProposalIds -> ProposalRecords],
           \A p \in ProposalIds : ps[p].createdAt = proposals[p].createdAt,
           NEW p \in ProposalIds,
           CloseProposals(ps)[p] # ps[p]
    PROVE  /\ CloseProposals(ps)[p] \in ProposalRecords
           /\ CloseProposals(ps)[p].createdAt = ps[p].createdAt
           /\ CloseProposals(ps)[p].votesFor = ps[p].votesFor
           /\ ClosedFor(p, ps[p], CloseProposals(ps)[p])
<1> DEFINE c == CloseProposals(ps)[p]
<1>1. ps[p] \in ProposalRecords /\ Quorum \in Nat
  BY QuorumNat
<1>2. CASE p = 0 /\ ZeroEntriesClose
  <2>1. c = [ps[p] EXCEPT !.status = "Rejected"]
    BY <1>2 DEF CloseProposals
  <2>2. c \in ProposalRecords /\ c.createdAt = ps[p].createdAt /\ c.votesFor = ps[p].votesFor
        /\ c.status = "Rejected"
    BY <1>1, <2>1 DEF ProposalRecords, Statuses, Verdicts
  <2>3. 0 \in Created
    BY CreatedIds
  <2>4. ~Live(p)
    <3> SUFFICES ASSUME Live(0) PROVE FALSE
      BY <1>2
    <3>1. nextProposalId \in Int
      BY GovernorAssumption DEF GovernorTypeOK
    <3>2. ASSUME NEW q \in Created PROVE Live(q)
      <4>1. 0 <= q
        BY <3>1 DEF Created
      <4> QED
        BY <2>3, <4>1, LaterStaysLive
    <3>3. \A q \in Created : q \in Collected
      BY <3>1, <3>2, CreatedIds DEF Collected, Created
    <3>4. Collected \subseteq Created
      BY DEF Collected
    <3>5. Collected = Created
      BY <3>3, <3>4
    <3> QED
      BY <1>2, <3>5 DEF ZeroEntriesClose
  <2>5. VotesOn(ZeroProposal) = 0
    BY DEF VotesOn, ZeroProposal, VotingOptions
  <2>6. Quorum = 0
    BY <1>1, <1>2, <2>5 DEF ZeroEntriesClose, Closable
  <2> QED
    BY <1>2, <2>2, <2>3, <2>4, <2>6 DEF ClosedFor
<1>3. CASE ~(p = 0 /\ ZeroEntriesClose)
  <2>1. p \in Collected /\ Closable(ps[p])
        /\ c = [ps[p] EXCEPT !.status = Majority(ps[p])]
    BY <1>3 DEF CloseProposals
  <2>2. c \in ProposalRecords /\ c.createdAt = ps[p].createdAt /\ c.votesFor = ps[p].votesFor
        /\ c.status = Majority(ps[p])
    BY <1>1, <2>1 DEF ProposalRecords, Statuses, Verdicts, Majority
  <2>3. p \in Created
    BY <2>1 DEF Collected
  <2>4. ~Live(p) /\ VotesOn(ps[p]) >= Quorum
    BY <2>1 DEF Closable, Live
  <2> QED
    BY <2>2, <2>3, <2>4 DEF ClosedFor
<1> QED
  BY <1>2, <1>3

(* The same for all proposals at once. *)
LEMMA ScanKeepsRecords ==
    ASSUME GovernorTypeOK, CreatedInOrder, nextProposalId > 0,
           NEW ps \in [ProposalIds -> ProposalRecords],
           \A p \in ProposalIds : ps[p].createdAt = proposals[p].createdAt
    PROVE  /\ CloseProposals(ps) \in [ProposalIds -> ProposalRecords]
           /\ \A p \in ProposalIds :
                 /\ CloseProposals(ps)[p].createdAt = ps[p].createdAt
                 /\ Live(p) => CloseProposals(ps)[p] = ps[p]
<1>1. ASSUME NEW p \in ProposalIds
      PROVE  /\ CloseProposals(ps)[p] \in ProposalRecords
             /\ CloseProposals(ps)[p].createdAt = ps[p].createdAt
             /\ Live(p) => CloseProposals(ps)[p] = ps[p]
  <2>1. ps[p] \in ProposalRecords
    OBVIOUS
  <2>2. CASE CloseProposals(ps)[p] = ps[p]
    BY <2>1, <2>2
  <2>3. CASE CloseProposals(ps)[p] # ps[p]
    BY <2>3, ClosedAreOver DEF ClosedFor
  <2> QED
    BY <2>2, <2>3
<1> DEFINE F(p) == CloseProposals(ps)[p]
<1>2. CloseProposals(ps) = [p \in ProposalIds |-> F(p)]
  BY DEF CloseProposals
<1>3. \A p \in ProposalIds : F(p) \in ProposalRecords
  BY <1>1
<1> HIDE DEF F
<1>4. CloseProposals(ps) \in [ProposalIds -> ProposalRecords]
  BY <1>2, <1>3
<1> QED
  BY <1>1, <1>4

-----------------------------------------------------------------------------
(* Voting *)

LEMMA VotedIsCreated ==
    ASSUME GovernorInv, NEW p \in ProposalIds, Live(p)
    PROVE  p \in Created
<1>1. proposals[p].createdAt # 0
  BY GovernorAssumption DEF GovernorInv, GovernorTypeOK, Live, Open
<1> QED
  BY <1>1 DEF GovernorInv, OthersAreZero

LEMMA BallotRecord ==
    ASSUME GovernorTypeOK, NEW u \in Users, NEW p \in ProposalIds,
           NEW option \in VotingOptions
    PROVE  /\ Ballot(u, p, option) \in ProposalRecords
           /\ Ballot(u, p, option).createdAt = proposals[p].createdAt
           /\ Ballot(u, p, option).status = proposals[p].status
           /\ Ballot(u, p, option).votesFor[option] =
                 proposals[p].votesFor[option] + shares[u]
           /\ Ballot(u, p, option).votesFor[option] \in Nat
<1> DEFINE tallies == [proposals[p].votesFor EXCEPT ![option] = @ + shares[u]]
<1>1. proposals[p] \in ProposalRecords /\ shares[u] \in Nat
  BY DEF GovernorTypeOK
<1>2. proposals[p].votesFor \in [VotingOptions -> Nat]
  BY <1>1 DEF ProposalRecords
<1>3. proposals[p].votesFor[option] + shares[u] \in Nat
  BY <1>1, <1>2
<1>4. /\ tallies \in [VotingOptions -> Nat]
      /\ tallies[option] = proposals[p].votesFor[option] + shares[u]
  BY <1>2, <1>3
<1>5. Ballot(u, p, option) = [proposals[p] EXCEPT !.votesFor = tallies]
  BY Zenon DEF Ballot
<1> HIDE DEF tallies
<1> QED
  BY <1>1, <1>3, <1>4, <1>5 DEF ProposalRecords

(* What the closing scan at the end of a call sees: the stored proposals,   *)
(* but for one whose votes and status this call changed.                    *)
Revised(ps, p, record) ==
    /\ ps = [proposals EXCEPT ![p] = record]
    /\ record \in ProposalRecords
    /\ record.createdAt = proposals[p].createdAt

LEMMA RevisedRecords ==
    ASSUME GovernorTypeOK, NEW p \in ProposalIds, NEW ps, NEW record,
           Revised(ps, p, record)
    PROVE  /\ ps \in [ProposalIds -> ProposalRecords]
           /\ \A q \in ProposalIds : ps[q].createdAt = proposals[q].createdAt
           /\ ps[p] = record
           /\ \A q \in ProposalIds \ {p} : ps[q] = proposals[q]
<1>1. proposals \in [ProposalIds -> ProposalRecords]
  BY DEF GovernorTypeOK
<1> QED
  BY <1>1 DEF Revised

(* A step that ends with the scan. *)
LEMMA ScanStep ==
    ASSUME GovernorInv, nextProposalId > 0,
           NEW ps \in [ProposalIds -> ProposalRecords],
           \A q \in ProposalIds : ps[q].createdAt = proposals[q].createdAt,
           proposals' = CloseProposals(ps),
           nextProposalId' = nextProposalId, now' = now
    PROVE  /\ proposals' \in [ProposalIds -> ProposalRecords]
           /\ Created' = Created
           /\ CreatedInOrder'
           /\ OthersAreZero'
           /\ \A q \in ProposalIds : Live(q)' <=> Live(q)
           /\ \A q \in ProposalIds : Live(q) => proposals'[q] = ps[q]
<1>1. GovernorTypeOK /\ CreatedInOrder /\ OthersAreZero
  BY DEF GovernorInv
<1>2. /\ proposals' \in [ProposalIds -> ProposalRecords]
      /\ \A q \in ProposalIds :
            /\ proposals'[q].createdAt = proposals[q].createdAt
            /\ Live(q) => proposals'[q] = ps[q]
  BY <1>1, ScanKeepsRecords
<1>3. Created' = Created
  BY DEF Created
<1>4. Created \subseteq ProposalIds
  BY <1>1, CreatedIds
<1>5. CreatedInOrder'
  BY <1>1, <1>2, <1>3, <1>4 DEF CreatedInOrder
<1>6. OthersAreZero'
  BY <1>1, <1>2, <1>3 DEF OthersAreZero
<1>7. \A q \in ProposalIds : Live(q)' <=> Live(q)
  BY <1>2 DEF Live, Open
<1> QED
  BY <1>2, <1>3, <1>5, <1>6, <1>7

LEMMA OpenWithFinite ==
    ASSUME GovernorTypeOK, NEW s
    PROVE  IsFiniteSet(OpenWith(s)) /\ Cardinality(OpenWith(s)) \in Nat
<1>1. IsFiniteSet(Created)
  BY CreatedIds
<1>2. OpenWith(s) \subseteq Created
  BY DEF OpenWith
<1>3. IsFiniteSet(OpenWith(s))
  BY <1>1, <1>2, FS_Subset
<1> QED
  BY <1>3, FS_CardinalityType

(* A decisive vote on an open proposal keeps both counters covering. *)
LEMMA DecisiveCovers ==
    ASSUME GovernorInv, NEW p \in Created, Live(p),
           NEW verdict \in Verdicts, NEW s \in Verdicts,
           OpenWith(s)' = IF s = verdict THEN OpenWith(s) \cup {p}
                                         ELSE OpenWith(s) \ {p},
           counted' = CountersAfter(proposals[p].status, verdict)
    PROVE  Cardinality(OpenWith(s)') <= counted'[s]
<1>1. /\ GovernorTypeOK
      /\ Cardinality(OpenWith(s)) <= counted[s]
  BY DEF GovernorInv, CountersCoverOpen
<1>2. /\ IsFiniteSet(OpenWith(s))
      /\ Cardinality(OpenWith(s)) \in Nat
      /\ counted[s] \in Nat
  BY <1>1, OpenWithFinite DEF GovernorTypeOK
<1>3. p \in OpenWith(s) <=> proposals[p].status = s
  BY DEF OpenWith
<1>4. CASE s = verdict
  <2>1. Cardinality(OpenWith(s) \cup {p}) =
           IF p \in OpenWith(s) THEN Cardinality(OpenWith(s))
                                ELSE Cardinality(OpenWith(s)) + 1
    BY <1>2, FS_AddElement
  <2>2. counted'[s] = IF proposals[p].status = s THEN counted[s] ELSE counted[s] + 1
    BY <1>4 DEF CountersAfter
  <2>3. OpenWith(s)' = OpenWith(s) \cup {p}
    BY <1>4
  <2> QED
    BY <1>1, <1>2, <1>3, <2>1, <2>2, <2>3
<1>5. CASE s # verdict
  <2>1. Cardinality(OpenWith(s) \ {p}) =
           IF p \in OpenWith(s) THEN Cardinality(OpenWith(s)) - 1
                                ELSE Cardinality(OpenWith(s))
    BY <1>2, FS_RemoveElement
  <2>2. counted'[s] = IF proposals[p].status = s THEN counted[s] - 1 ELSE counted[s]
    BY <1>5 DEF CountersAfter
  <2>3. OpenWith(s)' = OpenWith(s) \ {p}
    BY <1>5
  <2> QED
    BY <1>1, <1>2, <1>3, <2>1, <2>2, <2>3
<1> QED
  BY <1>4, <1>5

-----------------------------------------------------------------------------
(* The invariant *)

LEMMA InitInv ==
    ASSUME GovernorInit
    PROVE  GovernorInv
<1>1. ZeroProposal \in ProposalRecords /\ ZeroProposal.createdAt = 0
  BY DEF ZeroProposal, ProposalRecords, Statuses, Verdicts
<1>2. proposals = [p \in ProposalIds |-> ZeroProposal] /\ nextProposalId = 0
  BY DEF GovernorInit
<1>3. Created = {}
  BY <1>2 DEF Created
<1>4. GovernorTypeOK
  BY <1>1, GovernorAssumption DEF GovernorInit, GovernorTypeOK
<1>5. now > VOTING_PERIOD /\ \A s \in Verdicts : counted[s] = 0
  BY GovernorAssumption DEF GovernorInit
<1>6. CreatedInOrder
  BY <1>3 DEF CreatedInOrder
<1>7. OthersAreZero
  BY <1>1, <1>2 DEF OthersAreZero
<1>8. \A s \in Verdicts : OpenWith(s) = {}
  BY <1>3 DEF OpenWith
<1>9. CountersCoverOpen
  BY <1>5, <1>8, FS_EmptySet DEF CountersCoverOpen
<1> QED
  BY <1>4, <1>5, <1>6, <1>7, <1>9 DEF GovernorInv

LEMMA CreateKeepsInv ==
    ASSUME GovernorInv, NEW u \in Users, createProposal(u)
    PROVE  GovernorInv'
<1> DEFINE record == [createdAt |-> now, votesFor |-> [o \in VotingOptions |-> 0],
                      status |-> "Pending"]
<1>1. /\ GovernorTypeOK /\ CreatedInOrder /\ OthersAreZero /\ CountersCoverOpen
      /\ now \in Nat /\ now > VOTING_PERIOD
  BY DEF GovernorInv, GovernorTypeOK
<1>2. /\ nextProposalId \in Nat
      /\ nextProposalId < MaxProposals
      /\ nextProposalId' = nextProposalId + 1
      /\ nextProposalId \in ProposalIds
  BY <1>1, GovernorAssumption DEF createProposal, GovernorTypeOK, ProposalIds
<1>3. record \in ProposalRecords
  BY <1>1 DEF ProposalRecords, Statuses
<1>4. proposals' = [proposals EXCEPT ![nextProposalId] = record]
  BY DEF createProposal
<1>5. record.createdAt = now /\ record.status = "Pending"
  OBVIOUS
<1> HIDE DEF record
<1>6. /\ proposals'[nextProposalId] = record
      /\ \A p \in ProposalIds \ {nextProposalId} : proposals'[p] = proposals[p]
      /\ proposals' \in [ProposalIds -> ProposalRecords]
  BY <1>1, <1>2, <1>3, <1>4 DEF GovernorTypeOK
<1>7. Created' = Created \cup {nextProposalId} /\ nextProposalId \notin Created
      /\ Created \subseteq ProposalIds
  BY <1>1, <1>2, CreatedIds DEF Created
<1>8. /\ UNCHANGED <<votes, counted, numberVotes, shares, totalShares, now>>
  BY DEF createProposal, escrowVars
<1>9. GovernorTypeOK'
  BY <1>1, <1>2, <1>6, <1>8, GovernorAssumption DEF GovernorTypeOK
<1>10. CreatedInOrder'
  <2>1. \A p \in Created : p < nextProposalId /\ p \in Int
    BY <1>2 DEF Created
  <2>2. \A p \in Created : proposals'[p] = proposals[p]
    BY <1>6, <1>7
  <2> QED
    BY <1>1, <1>2, <1>5, <1>6, <1>7, <1>8, <2>1, <2>2 DEF CreatedInOrder
<1>11. OthersAreZero'
  BY <1>1, <1>6, <1>7 DEF OthersAreZero
<1>12. CountersCoverOpen'
  <2> SUFFICES ASSUME NEW s \in Verdicts
               PROVE  Cardinality(OpenWith(s)') <= counted'[s]
    BY DEF CountersCoverOpen
  <2>1. \A p \in Created : Live(p)' <=> Live(p)
    BY <1>6, <1>7, <1>8 DEF Live, Open
  <2>2. s # "Pending"
    BY DEF Verdicts
  <2>3. OpenWith(s)' = OpenWith(s)
    BY <1>5, <1>6, <1>7, <2>1, <2>2 DEF OpenWith
  <2> QED
    BY <1>1, <1>8, <2>3 DEF CountersCoverOpen
<1> QED
  BY <1>1, <1>8, <1>9, <1>10, <1>11, <1>12 DEF GovernorInv

LEMMA CheckClosingKeepsInv ==
    ASSUME GovernorInv, checkClosing
    PROVE  GovernorInv'
<1>1. /\ GovernorTypeOK /\ CountersCoverOpen /\ now > VOTING_PERIOD
      /\ proposals \in [ProposalIds -> ProposalRecords]
  BY DEF GovernorInv, GovernorTypeOK
<1>2. /\ nextProposalId > 0
      /\ proposals' = CloseProposals(proposals)
      /\ UNCHANGED <<nextProposalId, votes, counted, numberVotes, shares, totalShares, now>>
  BY DEF checkClosing, ballotVars, escrowVars
<1>3. /\ proposals' \in [ProposalIds -> ProposalRecords]
      /\ Created' = Created
      /\ CreatedInOrder'
      /\ OthersAreZero'
      /\ \A q \in ProposalIds : Live(q)' <=> Live(q)
      /\ \A q \in ProposalIds : Live(q) => proposals'[q] = proposals[q]
  BY <1>1, <1>2, ScanStep
<1>4. Created \subseteq ProposalIds
  BY <1>1, CreatedIds
<1>5. GovernorTypeOK'
  BY <1>1, <1>2, <1>3 DEF GovernorTypeOK
<1>6. \A s \in Verdicts : OpenWith(s)' = OpenWith(s)
  BY <1>3, <1>4 DEF OpenWith
<1>7. CountersCoverOpen'
  BY <1>1, <1>2, <1>6 DEF CountersCoverOpen
<1> QED
  BY <1>1, <1>2, <1>3, <1>5, <1>7 DEF GovernorInv

(* What a vote does, for both of its branches. *)
LEMMA VoteEffect ==
    ASSUME GovernorInv, NEW u \in Users, NEW p \in ProposalIds,
           NEW option \in VotingOptions, vote(u, p, option)
    PROVE  \E record \in ProposalRecords, ps \in [ProposalIds -> ProposalRecords] :
              /\ Revised(ps, p, record)
              /\ proposals' = CloseProposals(ps)
              /\ record.votesFor = Ballot(u, p, option).votesFor
              /\ \/ /\ Decisive(Ballot(u, p, option).votesFor[option])
                    /\ record.status = Verdict(option)
                    /\ counted' = CountersAfter(proposals[p].status, Verdict(option))
                    /\ proposals[p].status = Opposite(Verdict(option)) =>
                          counted[proposals[p].status] > 0
                 \/ /\ record.status = proposals[p].status
                    /\ counted' = counted
<1> DEFINE ballot == Ballot(u, p, option)
           decided == [ballot EXCEPT !.status = Verdict(option)]
<1>1. GovernorTypeOK
  BY DEF GovernorInv
<1>2. /\ ballot \in ProposalRecords
      /\ ballot.createdAt = proposals[p].createdAt
      /\ ballot.status = proposals[p].status
  BY <1>1, BallotRecord
<1>3. \/ /\ Decisive(ballot.votesFor[option])
         /\ proposals[p].status = Opposite(Verdict(option)) =>
               counted[proposals[p].status] > 0
         /\ counted' = CountersAfter(proposals[p].status, Verdict(option))
         /\ proposals' = CloseProposals([proposals EXCEPT ![p] = decided])
      \/ /\ proposals' = CloseProposals([proposals EXCEPT ![p] = ballot])
         /\ UNCHANGED counted
  BY Zenon DEF vote
<1>4. Verdict(option) \in Statuses
  BY DEF Verdict, Statuses, Verdicts
<1> HIDE DEF ballot
<1>5. /\ decided \in ProposalRecords
      /\ decided.createdAt = proposals[p].createdAt
      /\ decided.votesFor = ballot.votesFor
      /\ decided.status = Verdict(option)
  BY <1>2, <1>4 DEF ProposalRecords
<1> HIDE DEF decided
<1>6. proposals \in [ProposalIds -> ProposalRecords]
  BY <1>1 DEF GovernorTypeOK
<1>7. ASSUME NEW record \in ProposalRecords, record.createdAt = proposals[p].createdAt
      PROVE  /\ [proposals EXCEPT ![p] = record] \in [ProposalIds -> ProposalRecords]
             /\ Revised([proposals EXCEPT ![p] = record], p, record)
  BY <1>6, <1>7 DEF Revised
<1> USE DEF ballot
<1>8. CASE /\ Decisive(ballot.votesFor[option])
           /\ proposals[p].status = Opposite(Verdict(option)) =>
                 counted[proposals[p].status] > 0
           /\ counted' = CountersAfter(proposals[p].status, Verdict(option))
           /\ proposals' = CloseProposals([proposals EXCEPT ![p] = decided])
  BY <1>5, <1>7, <1>8, Zenon
<1>9. CASE /\ proposals' = CloseProposals([proposals EXCEPT ![p] = ballot])
           /\ UNCHANGED counted
  BY <1>2, <1>7, <1>9, Zenon
<1> QED
  BY <1>3, <1>8, <1>9, Zenon

LEMMA VoteKeepsInv ==
    ASSUME GovernorInv, NEW u \in Users, NEW p \in ProposalIds,
           NEW option \in VotingOptions, vote(u, p, option)
    PROVE  GovernorInv'
<1> DEFINE verdict == Verdict(option)
<1>1. /\ GovernorTypeOK /\ CountersCoverOpen /\ now > VOTING_PERIOD
      /\ counted \in [Verdicts -> Nat]
      /\ votes \in [Users -> [ProposalIds -> BOOLEAN]]
      /\ numberVotes \in Nat
  BY DEF GovernorInv, GovernorTypeOK
<1>2. /\ Live(p)
      /\ nextProposalId > 0
      /\ votes' = [votes EXCEPT ![u][p] = TRUE]
      /\ numberVotes' = numberVotes + 1
      /\ UNCHANGED <<nextProposalId, shares, totalShares, now>>
  BY DEF vote, escrowVars
<1>3. PICK record \in ProposalRecords, ps \in [ProposalIds -> ProposalRecords] :
         /\ Revised(ps, p, record)
         /\ proposals' = CloseProposals(ps)
         /\ \/ /\ record.status = verdict
               /\ counted' = CountersAfter(proposals[p].status, verdict)
               /\ proposals[p].status = Opposite(verdict) =>
                     counted[proposals[p].status] > 0
            \/ /\ record.status = proposals[p].status
               /\ counted' = counted
  BY VoteEffect
<1>4. /\ \A q \in ProposalIds : ps[q].createdAt = proposals[q].createdAt
      /\ ps[p] = record
      /\ \A q \in ProposalIds \ {p} : ps[q] = proposals[q]
  BY <1>1, <1>3, RevisedRecords
<1>5. /\ proposals' \in [ProposalIds -> ProposalRecords]
      /\ Created' = Created
      /\ CreatedInOrder'
      /\ OthersAreZero'
      /\ \A q \in ProposalIds : Live(q)' <=> Live(q)
      /\ \A q \in ProposalIds : Live(q) => proposals'[q] = ps[q]
  BY <1>2, <1>3, <1>4, ScanStep
<1>6. p \in Created /\ Created \subseteq ProposalIds
  BY <1>1, <1>2, VotedIsCreated, CreatedIds
<1>7. verdict \in Verdicts
  BY DEF Verdict, Verdicts
<1> HIDE DEF verdict
<1>8. CASE /\ record.status = verdict
           /\ counted' = CountersAfter(proposals[p].status, verdict)
           /\ proposals[p].status = Opposite(verdict) =>
                 counted[proposals[p].status] > 0
  <2>1. counted' \in [Verdicts -> Nat]
    <3>1. ASSUME NEW s \in Verdicts PROVE counted'[s] \in Nat
      <4>1. counted[s] \in Nat
        BY <1>1
      <4>2. s # verdict /\ proposals[p].status = s => counted[s] > 0
        BY <1>7, <1>8 DEF Opposite, Verdicts
      <4> QED
        BY <1>8, <4>1, <4>2 DEF CountersAfter
    <3> QED
      BY <1>8, <3>1 DEF CountersAfter
  <2>2. ASSUME NEW s \in Verdicts
        PROVE  Cardinality(OpenWith(s)') <= counted'[s]
    <3>1. OpenWith(s)' = IF s = verdict THEN OpenWith(s) \cup {p}
                                        ELSE OpenWith(s) \ {p}
      BY <1>2, <1>4, <1>5, <1>6, <1>8 DEF OpenWith
    <3> QED
      BY <1>2, <1>6, <1>7, <1>8, <3>1, DecisiveCovers
  <2> QED
    BY <1>1, <1>2, <1>5, <2>1, <2>2 DEF GovernorInv, GovernorTypeOK, CountersCoverOpen
<1>9. CASE /\ record.status = proposals[p].status
           /\ counted' = counted
  <2>1. \A s \in Verdicts : OpenWith(s)' = OpenWith(s)
    BY <1>2, <1>4, <1>5, <1>6, <1>9 DEF OpenWith
  <2>2. CountersCoverOpen'
    BY <1>1, <1>9, <2>1 DEF CountersCoverOpen
  <2> QED
    BY <1>1, <1>2, <1>5, <1>9, <2>2 DEF GovernorInv, GovernorTypeOK
<1> QED
  BY <1>3, <1>8, <1>9

LEMMA SharesKeepInv ==
    ASSUME GovernorInv, NEW u \in Users, NEW n \in ShareAmounts,
           ChangeShares(u, n)
    PROVE  GovernorInv'
<1>1. /\ UNCHANGED <<proposals, nextProposalId, votes, counted, numberVotes, now>>
      /\ shares' = [shares EXCEPT ![u] = n]
      /\ totalShares' = totalShares - shares[u] + n
      /\ totalShares >= shares[u]
  BY DEF ChangeShares, ballotVars
<1>2. n \in Nat
  BY GovernorAssumption
<1>3. GovernorTypeOK'
  BY <1>1, <1>2 DEF GovernorInv, GovernorTypeOK
<1>4. Created' = Created
  BY <1>1 DEF Created
<1>5. CreatedInOrder' /\ OthersAreZero'
  BY <1>1, <1>4 DEF GovernorInv, CreatedInOrder, OthersAreZero
<1>6. \A s \in Verdicts : OpenWith(s)' = OpenWith(s)
  BY <1>1, <1>4 DEF OpenWith, Live, Open
<1>7. CountersCoverOpen'
  BY <1>1, <1>6 DEF GovernorInv, CountersCoverOpen
<1> QED
  BY <1>1, <1>3, <1>5, <1>7 DEF GovernorInv

LEMMA TickKeepsInv ==
    ASSUME GovernorInv, Tick
    PROVE  GovernorInv'
<1>1. /\ UNCHANGED <<proposals, nextProposalId, votes, counted, numberVotes,
                     shares, totalShares>>
      /\ now' = now + 1
      /\ now \in Nat
      /\ GovernorTypeOK /\ now > VOTING_PERIOD
  BY DEF Tick, ballotVars, escrowVars, GovernorInv, GovernorTypeOK
<1>2. GovernorTypeOK' /\ now' > VOTING_PERIOD'
  BY <1>1, GovernorAssumption DEF GovernorTypeOK
<1>3. Created' = Created /\ Created \subseteq ProposalIds
  BY <1>1, CreatedIds DEF Created
<1>4. \A p \in ProposalIds : proposals[p].createdAt \in Nat
  BY <1>1 DEF GovernorTypeOK, ProposalRecords
<1>5. CreatedInOrder'
  BY <1>1, <1>3, <1>4 DEF GovernorInv, CreatedInOrder
<1>6. OthersAreZero'
  BY <1>1, <1>3 DEF GovernorInv, OthersAreZero
<1>7. ASSUME NEW s \in Verdicts
      PROVE  Cardinality(OpenWith(s)') <= counted'[s]
  <2>1. \A p \in Created : Live(p)' => Live(p)
    BY <1>1, <1>3, <1>4, GovernorAssumption DEF Live, Open
  <2>2. OpenWith(s)' \subseteq OpenWith(s)
    BY <1>1, <1>3, <2>1 DEF OpenWith
  <2>3. IsFiniteSet(OpenWith(s)) /\ Cardinality(OpenWith(s)) \in Nat
    BY <1>1, OpenWithFinite
  <2>4. IsFiniteSet(OpenWith(s)') /\ Cardinality(OpenWith(s)') <= Cardinality(OpenWith(s))
    BY <2>2, <2>3, FS_Subset
  <2>5. Cardinality(OpenWith(s)') \in Nat
    BY <2>4, FS_CardinalityType
  <2>6. Cardinality(OpenWith(s)) <= counted[s] /\ counted[s] \in Nat
    BY <1>1 DEF GovernorInv, CountersCoverOpen, GovernorTypeOK
  <2> QED
    BY <1>1, <2>3, <2>4, <2>5, <2>6
<1> QED
  BY <1>2, <1>5, <1>6, <1>7 DEF GovernorInv, CountersCoverOpen

LEMMA NextInv ==
    ASSUME GovernorInv, [GovernorNext]_governorVars
    PROVE  GovernorInv'
<1>1. CASE HolderStep
  BY <1>1, CreateKeepsInv, VoteKeepsInv DEF HolderStep
<1>2. CASE checkClosing
  BY <1>2, CheckClosingKeepsInv
<1>3. CASE EscrowStep
  BY <1>3, SharesKeepInv DEF EscrowStep
<1>4. CASE Tick
  BY <1>4, TickKeepsInv
<1>5. CASE UNCHANGED governorVars
  <2>1. UNCHANGED <<proposals, nextProposalId, votes, counted, numberVotes,
                    shares, totalShares, now>>
    BY <1>5 DEF governorVars, ballotVars, escrowVars
  <2> QED
    BY <2>1 DEF GovernorInv, GovernorTypeOK, CreatedInOrder, OthersAreZero,
                CountersCoverOpen, OpenWith, Live, Open, Created
<1> QED
  BY <1>1, <1>2, <1>3, <1>4, <1>5 DEF GovernorNext

(* The strengthened invariant: creation times in order, and the ids nobody   *)
(* created still zero.                                                      *)
THEOREM GovernorIsSound == GovernorSpec => []GovernorInv
<1>1. GovernorInit => GovernorInv
  BY InitInv
<1>2. GovernorInv /\ [GovernorNext]_governorVars => GovernorInv'
  BY NextInv
<1> QED
  BY <1>1, <1>2, PTL DEF GovernorSpec

(* The state of the governor keeps its types: no counter underflows.        *)
THEOREM GovernorTypes == GovernorSpec => []GovernorTypeOK
<1>1. GovernorInv => GovernorTypeOK
  BY DEF GovernorInv
<1> QED
  BY <1>1, GovernorIsSound, PTL

(* acceptedProposals and refusedProposals count at least the open proposals *)
(* that are accepted and rejected, although checkClosing ignores them.      *)
THEOREM CountersCover == GovernorSpec => []CountersCoverOpen
<1>1. GovernorInv => CountersCoverOpen
  BY DEF GovernorInv
<1> QED
  BY <1>1, GovernorIsSound, PTL

(* getLiveProposals stops at the first proposal that is over and still      *)
(* returns every one that is open.                                          *)
THEOREM ScanIsComplete == GovernorSpec => []ScanFindsLive
<1>1. GovernorInv => ScanFindsLive
  BY ScanComplete DEF GovernorInv
<1> QED
  BY <1>1, GovernorIsSound, PTL

-----------------------------------------------------------------------------
(* Every decision has its reason *)

LEMMA CheckClosingJustified ==
    ASSUME GovernorInv, checkClosing, NEW p \in Created,
           proposals'[p].status # proposals[p].status
    PROVE  VotedThrough(p) \/ ClosedByMajority(p) \/ RejectedByZeroEntry(p)
<1>1. /\ GovernorTypeOK /\ CreatedInOrder
      /\ proposals \in [ProposalIds -> ProposalRecords]
      /\ p \in ProposalIds
  BY CreatedIds DEF GovernorInv, GovernorTypeOK
<1>2. nextProposalId > 0 /\ proposals' = CloseProposals(proposals)
  BY DEF checkClosing
<1>3. CloseProposals(proposals)[p] # proposals[p]
  BY <1>2
<1>4. /\ proposals'[p].votesFor = proposals[p].votesFor
      /\ ClosedFor(p, proposals[p], proposals'[p])
  BY <1>1, <1>2, <1>3, ClosedAreOver
<1> QED
  BY <1>4 DEF ClosedFor, ClosedByMajority, RejectedByZeroEntry

LEMMA VoteJustified ==
    ASSUME GovernorInv, NEW u \in Users, NEW v \in ProposalIds,
           NEW option \in VotingOptions, vote(u, v, option),
           NEW p \in Created,
           proposals'[p].status # proposals[p].status
    PROVE  VotedThrough(p) \/ ClosedByMajority(p) \/ RejectedByZeroEntry(p)
<1> DEFINE verdict == Verdict(option)
           ballot == Ballot(u, v, option)
<1>1. /\ GovernorTypeOK /\ CreatedInOrder
      /\ proposals \in [ProposalIds -> ProposalRecords]
      /\ p \in ProposalIds
      /\ totalShares \in Nat /\ shares[u] \in Nat
  BY CreatedIds DEF GovernorInv, GovernorTypeOK
<1>2. /\ Live(v)
      /\ nextProposalId > 0
      /\ nextProposalId' = nextProposalId
      /\ now' = now
      /\ totalShares > 0
      /\ shares[u] > 0
  BY DEF vote
<1>3. PICK record \in ProposalRecords, ps \in [ProposalIds -> ProposalRecords] :
         /\ Revised(ps, v, record)
         /\ proposals' = CloseProposals(ps)
         /\ record.votesFor = ballot.votesFor
         /\ \/ Decisive(ballot.votesFor[option]) /\ record.status = verdict
            \/ record.status = proposals[v].status
  BY VoteEffect
<1>4. /\ \A q \in ProposalIds : ps[q].createdAt = proposals[q].createdAt
      /\ ps[v] = record
      /\ \A q \in ProposalIds \ {v} : ps[q] = proposals[q]
  BY <1>1, <1>3, RevisedRecords
<1>5. CASE p = v
  <2>1. proposals'[v] = record
    BY <1>2, <1>3, <1>4, ScanStep
  <2>2. Decisive(ballot.votesFor[option]) /\ record.status = verdict
    BY <1>3, <1>5, <2>1
  <2>3. /\ ballot.votesFor[option] = proposals[v].votesFor[option] + shares[u]
        /\ ballot.votesFor[option] \in Nat
    BY <1>1, BallotRecord
  <2>4. proposals[v].votesFor[option] \in Nat
    BY <1>1 DEF ProposalRecords
  <2> HIDE DEF ballot
  <2>5. ballot.votesFor[option] > proposals[v].votesFor[option]
    BY <1>1, <1>2, <2>3, <2>4
  <2>6. ballot.votesFor[option] >= totalShares
    BY <1>1, <1>2, <2>2, <2>3, WholeShares DEF Decisive
  <2>7. /\ proposals'[p].votesFor[option] > proposals[p].votesFor[option]
        /\ proposals'[p].votesFor[option] >= totalShares
        /\ proposals'[p].status = Verdict(option)
    BY <1>3, <1>5, <2>1, <2>2, <2>5, <2>6
  <2> QED
    BY <1>2, <1>5, <2>7 DEF VotedThrough
<1>6. CASE p # v
  <2>1. ps[p] = proposals[p]
    BY <1>1, <1>4, <1>6
  <2>2. CloseProposals(ps)[p] # ps[p]
    BY <1>3, <2>1
  <2>3. /\ proposals'[p].votesFor = proposals[p].votesFor
        /\ ClosedFor(p, proposals[p], proposals'[p])
    BY <1>1, <1>2, <1>3, <1>4, <2>1, <2>2, ClosedAreOver
  <2> QED
    BY <2>3 DEF ClosedFor, ClosedByMajority, RejectedByZeroEntry
<1> QED
  BY <1>5, <1>6

(* A proposal's status changes only by a vote that brings one side to all   *)
(* the shares, or after its period with a quorum, or by the zero entries of *)
(* getLiveProposals.                                                        *)
THEOREM DecisionsAreJustified == GovernorSpec => StatusChangesAreJustified
<1>1. ASSUME GovernorInv, [GovernorNext]_governorVars
      PROVE  [\A p \in Created :
                proposals'[p].status # proposals[p].status =>
                    VotedThrough(p) \/ ClosedByMajority(p) \/ RejectedByZeroEntry(p)
             ]_governorVars
  <2> SUFFICES ASSUME GovernorNext, NEW p \in Created,
                      proposals'[p].status # proposals[p].status
               PROVE  VotedThrough(p) \/ ClosedByMajority(p) \/ RejectedByZeroEntry(p)
    BY <1>1
  <2>1. CASE HolderStep
    <3>1. ASSUME NEW u \in Users, createProposal(u)
          PROVE  FALSE
      <4>1. nextProposalId \in Int /\ proposals \in [ProposalIds -> ProposalRecords]
            /\ Created \subseteq ProposalIds
        BY <1>1, CreatedIds, GovernorAssumption DEF GovernorInv, GovernorTypeOK
      <4>2. p # nextProposalId /\ p \in ProposalIds
        BY <4>1 DEF Created
      <4>3. proposals'[p] = proposals[p]
        BY <3>1, <4>1, <4>2 DEF createProposal
      <4> QED
        BY <4>3
    <3> QED
      BY <1>1, <2>1, <3>1, VoteJustified DEF HolderStep
  <2>2. CASE checkClosing
    BY <1>1, <2>2, CheckClosingJustified
  <2>3. CASE EscrowStep \/ Tick
    BY <2>3 DEF EscrowStep, ChangeShares, Tick
  <2> QED
    BY <2>1, <2>2, <2>3 DEF GovernorNext
<1> QED
  BY <1>1, GovernorIsSound, PTL DEF GovernorSpec, StatusChangesAreJustified


-----------------------------------------------------------------------------
(* Votes are counted once *)

Marks == {v \in Users \X ProposalIds : votes[v[1]][v[2]]}

TalliesFit(proposal, voters) ==
    /\ VotesOn(proposal) >= Cardinality(voters)
    /\ \E n \in ShareAmounts : VotesOn(proposal) <= n * Cardinality(voters)

(* What the escrow may have given a user, besides what VotesCountedOnce     *)
(* says.                                                                    *)
CountingInv ==
    /\ GovernorInv
    /\ shares \in [Users -> ShareAmounts \cup {0}]
    /\ numberVotes = Cardinality(Marks)
    /\ \A p \in ProposalIds :
          /\ VotersOn(p) # {} => p \in Created
          /\ TalliesFit(proposals[p], VotersOn(p))

LEMMA CountingInvCounts ==
    ASSUME CountingInv
    PROVE  VotesCountedOnce
BY DEF CountingInv, VotesCountedOnce, TalliesFit, Marks

LEMMA MarksFinite == IsFiniteSet(Marks) /\ \A p : IsFiniteSet(VotersOn(p))
<1>1. IsFiniteSet(ProposalIds)
  BY GovernorAssumption, FS_Interval DEF ProposalIds
<1>2. IsFiniteSet(Users \X ProposalIds)
  BY <1>1, GovernorAssumption, FS_Product
<1>3. IsFiniteSet(Marks)
  BY <1>2, FS_Subset DEF Marks
<1>4. ASSUME NEW p PROVE IsFiniteSet(VotersOn(p))
  BY GovernorAssumption, FS_Subset DEF VotersOn
<1> QED
  BY <1>3, <1>4

(* One voter more, with shares to vote with: both bounds move as far as     *)
(* the tally, the upper one with the most shares of the two.                *)
LEMMA OneVoterMore ==
    ASSUME NEW cast \in Nat, NEW voters \in Nat, NEW s \in ShareAmounts, s > 0,
           cast >= voters,
           \E n \in ShareAmounts : cast <= n * voters
    PROVE  /\ cast + s >= voters + 1
           /\ \E n \in ShareAmounts : cast + s <= n * (voters + 1)
<1>1. ShareAmounts \subseteq Nat
  BY GovernorAssumption
<1>2. PICK n \in ShareAmounts : cast <= n * voters
  OBVIOUS
<1>3. s \in Nat /\ n \in Nat
  BY <1>1
<1>4. CASE n >= s
  <2>1. cast + s <= n * (voters + 1)
    BY <1>2, <1>3, <1>4
  <2> QED
    BY <1>3, <2>1
<1>5. CASE n < s
  <2>1. n * voters <= s * voters
    BY <1>3, <1>5
  <2>2. cast + s <= s * (voters + 1)
    BY <1>2, <1>3, <2>1
  <2> QED
    BY <1>3, <2>2
<1> QED
  BY <1>3, <1>4, <1>5

LEMMA InitCounts ==
    ASSUME GovernorInit, ShareAmounts # {}
    PROVE  CountingInv
<1>1. GovernorInv
  BY InitInv
<1>2. /\ votes = [u \in Users |-> [p \in ProposalIds |-> FALSE]]
      /\ numberVotes = 0
      /\ shares = [u \in Users |-> 0]
      /\ proposals = [p \in ProposalIds |-> ZeroProposal]
  BY DEF GovernorInit
<1>3. Marks = {} /\ \A p \in ProposalIds : VotersOn(p) = {}
  BY <1>2 DEF Marks, VotersOn
<1>4. Cardinality({}) = 0
  BY FS_EmptySet
<1>5. VotesOn(ZeroProposal) = 0
  BY DEF VotesOn, ZeroProposal, VotingOptions
<1>6. \A p \in ProposalIds : TalliesFit(proposals[p], VotersOn(p))
  <2>1. PICK n \in ShareAmounts : TRUE
    OBVIOUS
  <2>2. n \in Nat /\ n * 0 = 0
    BY GovernorAssumption
  <2>3. TalliesFit(ZeroProposal, {})
    BY <1>4, <1>5, <2>2 DEF TalliesFit
  <2> QED
    BY <1>2, <1>3, <2>3
<1> QED
  BY <1>1, <1>2, <1>3, <1>4, <1>6 DEF CountingInv

(* Steps that change no mark, and no tally of a proposal with voters.       *)
LEMMA SettledCounts ==
    ASSUME CountingInv, GovernorInv',
           shares' \in [Users -> ShareAmounts \cup {0}],
           UNCHANGED <<votes, numberVotes>>,
           Created \subseteq Created',
           \A p \in ProposalIds :
               \/ proposals'[p].votesFor = proposals[p].votesFor
               \/ VotersOn(p) = {} /\ VotesOn(proposals'[p]) = 0
    PROVE  CountingInv'
<1>1. Marks' = Marks /\ \A p \in ProposalIds : VotersOn(p)' = VotersOn(p)
  BY DEF Marks, VotersOn
<1>2. ASSUME NEW p \in ProposalIds PROVE TalliesFit(proposals'[p], VotersOn(p))
  <2>1. TalliesFit(proposals[p], VotersOn(p))
    BY DEF CountingInv
  <2>2. CASE proposals'[p].votesFor = proposals[p].votesFor
    BY <2>1, <2>2 DEF TalliesFit, VotesOn
  <2>3. CASE VotersOn(p) = {} /\ VotesOn(proposals'[p]) = 0
    <3>1. Cardinality(VotersOn(p)) = 0
      BY <2>3, FS_EmptySet
    <3> QED
      BY <2>1, <2>3, <3>1, GovernorAssumption DEF TalliesFit
  <2> QED
    BY <1>2, <2>2, <2>3, <2>1 DEF CountingInv
<1> QED
  BY <1>1, <1>2 DEF CountingInv

(* The scan changes statuses only. *)
LEMMA ScanKeepsTallies ==
    ASSUME GovernorInv, nextProposalId > 0,
           NEW ps \in [ProposalIds -> ProposalRecords],
           \A q \in ProposalIds : ps[q].createdAt = proposals[q].createdAt,
           NEW p \in ProposalIds
    PROVE  CloseProposals(ps)[p].votesFor = ps[p].votesFor
<1>1. CASE CloseProposals(ps)[p] = ps[p]
  BY <1>1
<1>2. CASE CloseProposals(ps)[p] # ps[p]
  BY <1>2, ClosedAreOver DEF GovernorInv
<1> QED
  BY <1>1, <1>2

LEMMA CreateKeepsCounts ==
    ASSUME CountingInv, NEW u \in Users, createProposal(u)
    PROVE  CountingInv'
<1> DEFINE record == [createdAt |-> now, votesFor |-> [o \in VotingOptions |-> 0],
                      status |-> "Pending"]
<1>1. /\ GovernorInv /\ GovernorTypeOK
      /\ proposals \in [ProposalIds -> ProposalRecords]
      /\ shares \in [Users -> ShareAmounts \cup {0}]
  BY DEF CountingInv, GovernorInv, GovernorTypeOK
<1>2. GovernorInv'
  BY <1>1, CreateKeepsInv
<1>3. /\ nextProposalId \in Nat
      /\ nextProposalId' = nextProposalId + 1
      /\ nextProposalId \in ProposalIds
  BY <1>1, GovernorAssumption DEF createProposal, GovernorTypeOK, ProposalIds
<1>4. nextProposalId \notin Created /\ Created \subseteq Created'
  BY <1>3 DEF Created
<1>5. /\ proposals' = [proposals EXCEPT ![nextProposalId] = record]
      /\ UNCHANGED <<votes, numberVotes, shares>>
  BY DEF createProposal, escrowVars
<1>6. VotesOn(record) = 0
  BY DEF VotesOn, VotingOptions
<1> HIDE DEF record
<1>7. /\ proposals'[nextProposalId] = record
      /\ \A p \in ProposalIds \ {nextProposalId} : proposals'[p] = proposals[p]
  BY <1>1, <1>3, <1>5
<1>8. VotersOn(nextProposalId) = {}
  BY <1>3, <1>4 DEF CountingInv
<1> QED
  BY <1>1, <1>2, <1>4, <1>5, <1>6, <1>7, <1>8, SettledCounts

LEMMA CheckClosingKeepsCounts ==
    ASSUME CountingInv, checkClosing
    PROVE  CountingInv'
<1>1. /\ GovernorInv
      /\ proposals \in [ProposalIds -> ProposalRecords]
      /\ shares \in [Users -> ShareAmounts \cup {0}]
  BY DEF CountingInv, GovernorInv, GovernorTypeOK
<1>2. /\ nextProposalId > 0
      /\ proposals' = CloseProposals(proposals)
      /\ UNCHANGED <<nextProposalId, votes, numberVotes, shares>>
  BY DEF checkClosing, ballotVars, escrowVars
<1>3. GovernorInv'
  BY <1>1, CheckClosingKeepsInv
<1>4. \A p \in ProposalIds : proposals'[p].votesFor = proposals[p].votesFor
  BY <1>1, <1>2, ScanKeepsTallies
<1>5. Created' = Created
  BY <1>2 DEF Created
<1> QED
  BY <1>1, <1>2, <1>3, <1>4, <1>5, SettledCounts

LEMMA VoteKeepsCounts ==
    ASSUME CountingInv, NEW u \in Users, NEW p \in ProposalIds,
           NEW option \in VotingOptions, vote(u, p, option)
    PROVE  CountingInv'
<1>1. /\ GovernorInv /\ GovernorTypeOK
      /\ shares \in [Users -> ShareAmounts \cup {0}]
      /\ votes \in [Users -> [ProposalIds -> BOOLEAN]]
      /\ proposals[p] \in ProposalRecords
      /\ numberVotes = Cardinality(Marks)
      /\ TalliesFit(proposals[p], VotersOn(p))
  BY DEF CountingInv, GovernorInv, GovernorTypeOK
<1>2. /\ ~votes[u][p]
      /\ Live(p)
      /\ shares[u] > 0
      /\ nextProposalId > 0
      /\ votes' = [votes EXCEPT ![u][p] = TRUE]
      /\ numberVotes' = numberVotes + 1
      /\ UNCHANGED <<nextProposalId, shares>>
  BY DEF vote, escrowVars
<1>3. GovernorInv'
  BY <1>1, VoteKeepsInv
<1>4. PICK record \in ProposalRecords, ps \in [ProposalIds -> ProposalRecords] :
         /\ Revised(ps, p, record)
         /\ proposals' = CloseProposals(ps)
         /\ record.votesFor = Ballot(u, p, option).votesFor
  BY <1>1, VoteEffect
<1>5. /\ \A q \in ProposalIds : ps[q].createdAt = proposals[q].createdAt
      /\ ps[p] = record
      /\ \A q \in ProposalIds \ {p} : ps[q] = proposals[q]
  BY <1>1, <1>4, RevisedRecords
<1>6. \A q \in ProposalIds : proposals'[q].votesFor = ps[q].votesFor
  BY <1>1, <1>2, <1>4, <1>5, ScanKeepsTallies
<1>7. Marks' = Marks \cup {<<u, p>>} /\ <<u, p>> \notin Marks
  BY <1>1, <1>2 DEF Marks
<1>8. numberVotes' = Cardinality(Marks')
  BY <1>1, <1>2, <1>7, MarksFinite, FS_AddElement
<1>9. p \in Created /\ Created' = Created
  BY <1>1, <1>2, VotedIsCreated DEF Created
<1>10. /\ VotersOn(p)' = VotersOn(p) \cup {u} /\ u \notin VotersOn(p)
       /\ \A q \in ProposalIds \ {p} : VotersOn(q)' = VotersOn(q)
  BY <1>1, <1>2 DEF VotersOn
<1>11. TalliesFit(proposals[p], VotersOn(p))'
  <2>1. /\ Cardinality(VotersOn(p)') = Cardinality(VotersOn(p)) + 1
        /\ Cardinality(VotersOn(p)) \in Nat
    BY <1>10, MarksFinite, FS_AddElement, FS_CardinalityType
  <2>2. VotesOn(proposals[p]) \in Nat
    BY <1>1 DEF VotesOn, ProposalRecords, VotingOptions
  <2>3. proposals'[p].votesFor = [proposals[p].votesFor EXCEPT ![option] = @ + shares[u]]
    BY <1>4, <1>5, <1>6 DEF Ballot, ProposalRecords
  <2>4. VotesOn(proposals'[p]) = VotesOn(proposals[p]) + shares[u]
    BY <1>1, <1>2, <2>3, GovernorAssumption DEF VotesOn, ProposalRecords, VotingOptions
  <2>5. shares[u] \in ShareAmounts
    BY <1>1, <1>2
  <2> QED
    BY <1>1, <1>2, <2>1, <2>2, <2>4, <2>5, OneVoterMore DEF TalliesFit
<1>12. ASSUME NEW q \in ProposalIds, q # p
       PROVE  TalliesFit(proposals[q], VotersOn(q))'
  <2>1. proposals'[q].votesFor = proposals[q].votesFor
    BY <1>5, <1>6, <1>12
  <2>2. VotersOn(q)' = VotersOn(q) /\ TalliesFit(proposals[q], VotersOn(q))
    BY <1>10, <1>12 DEF CountingInv
  <2> QED
    BY <2>1, <2>2 DEF TalliesFit, VotesOn
<1>13. \A q \in ProposalIds : (VotersOn(q) # {} => q \in Created)'
  BY <1>9, <1>10 DEF CountingInv
<1> QED
  BY <1>1, <1>2, <1>3, <1>8, <1>11, <1>12, <1>13 DEF CountingInv

LEMMA NextCounts ==
    ASSUME CountingInv, [GovernorNext]_governorVars
    PROVE  CountingInv'
<1>1. GovernorInv' /\ shares \in [Users -> ShareAmounts \cup {0}]
  BY NextInv DEF CountingInv
<1>2. CASE HolderStep
  BY <1>2, CreateKeepsCounts, VoteKeepsCounts DEF HolderStep
<1>3. CASE checkClosing
  BY <1>3, CheckClosingKeepsCounts
<1>4. CASE EscrowStep
  <2>1. PICK u \in Users, n \in ShareAmounts : ChangeShares(u, n)
    BY <1>4 DEF EscrowStep
  <2>2. /\ UNCHANGED <<proposals, nextProposalId, votes, numberVotes>>
        /\ shares' = [shares EXCEPT ![u] = n]
    BY <2>1 DEF ChangeShares, ballotVars
  <2>3. shares' \in [Users -> ShareAmounts \cup {0}] /\ Created' = Created
    BY <1>1, <2>2 DEF Created
  <2> QED
    BY <1>1, <2>2, <2>3, SettledCounts
<1>5. CASE Tick \/ UNCHANGED governorVars
  <2>1. UNCHANGED <<proposals, nextProposalId, votes, numberVotes, shares>>
    BY <1>5 DEF Tick, governorVars, ballotVars, escrowVars
  <2>2. Created' = Created
    BY <2>1 DEF Created
  <2> QED
    BY <1>1, <2>1, <2>2, SettledCounts
<1> QED
  BY <1>2, <1>3, <1>4, <1>5 DEF GovernorNext

(* Nobody votes twice on a proposal and no vote is lost, through decisions, *)
(* closings and any movement of the shares: numberVotes is the number of    *)
(* marks, and every mark stands for between one share and the most shares   *)
(* there are to hold.                                                       *)
THEOREM VotesStayCountedOnce ==
    ASSUME ShareAmounts # {}
    PROVE  GovernorSpec => []VotesCountedOnce
<1>1. GovernorInit => CountingInv
  BY InitCounts
<1>2. CountingInv /\ [GovernorNext]_governorVars => CountingInv'
  BY NextCounts
<1>3. CountingInv => VotesCountedOnce
  BY CountingInvCounts
<1> QED
  BY <1>1, <1>2, <1>3, PTL DEF GovernorSpec

=============================================================================
