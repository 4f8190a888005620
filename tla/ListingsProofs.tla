--------------------------- MODULE ListingsProofs ---------------------------
(***************************************************************************)
(* Proofs about Listings, for every set of users, every configuration and  *)
(* every bound: the type invariant, the consistency of the status arrays,  *)
(* one vote per user and phase, and the bound on the scores.  The four are *)
(* proved together, with the fact that storage no listing uses yet holds   *)
(* no votes: a new listing starts in phase 1 whatever was there.  Then     *)
(* what a step does to the listings is read off the actions once (Effects) *)
(* and the invariants about ids, payment, cooldowns, verdicts and saved    *)
(* tokens are proved from that.                                            *)
(* The theorems are about CallsSpec: ListingsSpec, and calls that somebody *)
(* else makes for a user.                                                  *)
(***************************************************************************)
EXTENDS Listings, DataLemmas

-----------------------------------------------------------------------------
(* The arrays of vote ids by status.  A move is cut in two: the listing     *)
(* leaves its array (lemma Detach), then joins another (lemma Attach).      *)
(* Between the two the arrays are consistent for every listing but the one  *)
(* that is moving.                                                          *)

(* The arrays A and indices I are consistent for every listing except v,    *)
(* which is in no array.                                                    *)
Detached(A, I, v) ==
    /\ A \in [ArrayStatuses -> Seq(VoteIds)]
    /\ I \in [VoteIds -> Nat]
    /\ \A w \in VoteIds \ {v} :
           status[w] # "Init" =>
               /\ I[w] < Len(A[status[w]])
               /\ A[status[w]][I[w] + 1] = w
    /\ \A s \in ArrayStatuses : \A i \in 1..Len(A[s]) :
           /\ A[s][i] # v
           /\ status[A[s][i]] = s
           /\ I[A[s][i]] + 1 = i

(* Leaving an array, _updateListingStatus lines 812-823: the other listings *)
(* keep their places, the last one excepted, which takes the place vacated. *)
LEMMA Detach ==
    ASSUME StatusArraysTypeOK, StatusArraysConsistent, NEW v \in VoteIds
    PROVE  Detached(ArraysWithout(v), IndicesWithout(v), v)
<1>1. CASE status[v] = "Init"
  <2>1. ArraysWithout(v) = statusArrays /\ IndicesWithout(v) = statusIndex
    BY <1>1 DEF ArraysWithout, IndicesWithout
  <2>2. \A s \in ArrayStatuses : \A i \in 1..Len(statusArrays[s]) :
            statusArrays[s][i] # v
    BY <1>1 DEF StatusArraysConsistent, ArraysHoldTheirStatus, ArrayStatuses
  <2>3. Detached(statusArrays, statusIndex, v)
    BY <2>2 DEF Detached, StatusArraysTypeOK, StatusArraysConsistent,
       ListedWhereRemembered, ArraysHoldTheirStatus
  <2> QED
    BY <2>1, <2>3
<1>2. CASE status[v] # "Init"
  <2> DEFINE s0 == status[v]
             p == statusIndex[v]
             old == statusArrays[s0]
             n == Len(old)
             last == old[n]
             new == SwapAndPop(old, p)
  <2>1. /\ s0 \in ArrayStatuses /\ p \in Nat /\ old \in Seq(VoteIds)
        /\ n \in Nat /\ p < n /\ old[p + 1] = v
    BY <1>2, LenProperties DEF StatusArraysTypeOK, Statuses,
       StatusArraysConsistent, ListedWhereRemembered
  <2>2. last \in VoteIds /\ status[last] = s0 /\ statusIndex[last] = n - 1
    BY <2>1, ElementOfSeq DEF StatusArraysTypeOK, StatusArraysConsistent,
       ArraysHoldTheirStatus
  <2>3. /\ new \in Seq(VoteIds)
        /\ Len(new) = n - 1
        /\ \A i \in 1..(n - 1) : new[i] = IF i = p + 1 THEN last ELSE old[i]
    BY <2>1, SwapAndPopProperties
  <2>4. /\ ArraysWithout(v) = [statusArrays EXCEPT ![s0] = new]
        /\ IndicesWithout(v) = [statusIndex EXCEPT ![last] = p]
    BY <1>2, <2>1 DEF ArraysWithout, IndicesWithout, FromArray, LastOf,
       StatusArraysTypeOK
  <2> DEFINE A == [statusArrays EXCEPT ![s0] = new]
             I == [statusIndex EXCEPT ![last] = p]
  <2>5. /\ A \in [ArrayStatuses -> Seq(VoteIds)]
        /\ A[s0] = new
        /\ \A s \in ArrayStatuses \ {s0} : A[s] = statusArrays[s]
    BY <2>1, <2>3 DEF StatusArraysTypeOK
  <2>6. /\ I \in [VoteIds -> Nat]
        /\ \A w \in VoteIds : I[w] = IF w = last THEN p ELSE statusIndex[w]
    BY <2>1, <2>2 DEF StatusArraysTypeOK
  <2>0. /\ s0 = status[v] /\ p = statusIndex[v] /\ old = statusArrays[s0]
        /\ n = Len(old) /\ last = old[n]
    OBVIOUS
  <2> HIDE DEF new, A, I, s0, p, old, n, last
  <2>7. ASSUME NEW w \in VoteIds \ {v}, status[w] # "Init"
        PROVE  I[w] < Len(A[status[w]]) /\ A[status[w]][I[w] + 1] = w
    <3>1. /\ status[w] \in ArrayStatuses
          /\ statusIndex[w] \in Nat
          /\ statusIndex[w] < Len(statusArrays[status[w]])
          /\ statusArrays[status[w]][statusIndex[w] + 1] = w
      BY <2>7 DEF StatusArraysTypeOK, Statuses, StatusArraysConsistent,
         ListedWhereRemembered
    <3>2. CASE status[w] # s0
      BY <2>2, <2>5, <2>6, <3>1, <3>2
    <3>3. CASE status[w] = s0 /\ w = last
      <4>1. p + 1 # n
        BY <2>0, <2>1, <2>7, <3>3
      <4>2. p + 1 \in 1..(n - 1)
        BY <2>1, <4>1
      <4>3. new[p + 1] = last
        BY <2>3, <4>2
      <4> QED
        BY <2>1, <2>3, <2>5, <2>6, <3>3, <4>2, <4>3
    <3>4. CASE status[w] = s0 /\ w # last
      <4>1. statusIndex[w] + 1 \in 1..n /\ old[statusIndex[w] + 1] = w
        BY <2>0, <2>1, <3>1, <3>4
      <4>2. statusIndex[w] + 1 # n /\ statusIndex[w] + 1 # p + 1
        BY <2>0, <2>1, <2>7, <3>1, <3>4, <4>1
      <4>3. /\ statusIndex[w] + 1 \in 1..(n - 1)
            /\ new[statusIndex[w] + 1] = w
        BY <2>1, <2>3, <3>1, <4>1, <4>2
      <4> QED
        BY <2>1, <2>3, <2>5, <2>6, <3>1, <3>4, <4>3
    <3> QED
      BY <3>2, <3>3, <3>4
  <2>8. ASSUME NEW s \in ArrayStatuses, NEW i \in 1..Len(A[s])
        PROVE  A[s][i] # v /\ status[A[s][i]] = s /\ I[A[s][i]] + 1 = i
    <3>1. CASE s # s0
      <4>1. /\ A[s] = statusArrays[s]
            /\ A[s] \in Seq(VoteIds)
            /\ A[s][i] \in VoteIds
        BY <2>5, <3>1, ElementOfSeq
      <4>2. status[A[s][i]] = s /\ statusIndex[A[s][i]] + 1 = i
        BY <2>8, <4>1 DEF StatusArraysConsistent, ArraysHoldTheirStatus
      <4> QED
        BY <2>0, <2>1, <2>2, <2>6, <3>1, <4>1, <4>2
    <3>2. CASE s = s0
      <4>1. i \in 1..(n - 1) /\ i \in 1..n /\ A[s] = new
        BY <2>1, <2>3, <2>5, <3>2
      <4>2. old[i] \in VoteIds /\ status[old[i]] = s0 /\ statusIndex[old[i]] + 1 = i
        <5>1. old[i] \in VoteIds
          BY <2>0, <2>1, <4>1, ElementOfSeq
        <5>2. status[old[i]] = s0 /\ statusIndex[old[i]] + 1 = i
          BY <2>0, <2>1, <4>1 DEF StatusArraysConsistent, ArraysHoldTheirStatus
        <5> QED
          BY <5>1, <5>2
      <4>3. CASE i = p + 1
        <5>1. new[i] = last
          BY <2>3, <4>1, <4>3
        <5>2. last # v
          BY <2>0, <2>1, <2>2, <4>1, <4>3
        <5> QED
          BY <2>1, <2>2, <2>6, <3>2, <4>1, <4>3, <5>1, <5>2
      <4>4. CASE i # p + 1
        <5>1. new[i] = old[i]
          BY <2>3, <4>1, <4>4
        <5>2. old[i] # v /\ old[i] # last
          BY <2>0, <2>1, <2>2, <4>1, <4>2, <4>4
        <5> QED
          BY <2>6, <3>2, <4>1, <4>2, <5>1, <5>2
      <4> QED
        BY <4>3, <4>4
    <3> QED
      BY <3>1, <3>2
  <2>9. Detached(A, I, v)
    BY <2>5, <2>6, <2>7, <2>8 DEF Detached
  <2> QED
    BY <2>4, <2>9 DEF A, I, new, s0, p, old, n, last
<1> QED
  BY <1>1, <1>2

(* Joining an array, lines 825-831: the listing is appended and remembers   *)
(* the length the array had.                                                *)
LEMMA Attach ==
    ASSUME StatusArraysTypeOK, NEW v \in VoteIds, NEW s \in ArrayStatuses,
           NEW A, NEW I, Detached(A, I, v),
           statusArrays' = [A EXCEPT ![s] = Append(@, v)],
           statusIndex' = [I EXCEPT ![v] = Len(A[s])],
           status' = [status EXCEPT ![v] = s]
    PROVE  StatusArraysTypeOK' /\ StatusArraysConsistent'
<1>1. /\ A \in [ArrayStatuses -> Seq(VoteIds)]
      /\ I \in [VoteIds -> Nat]
  BY DEF Detached
<1>2. /\ A[s] \in Seq(VoteIds)
      /\ Len(A[s]) \in Nat
  BY <1>1, LenProperties
<1>3. /\ Append(A[s], v) \in Seq(VoteIds)
      /\ Len(Append(A[s], v)) = Len(A[s]) + 1
      /\ \A i \in 1..Len(A[s]) : Append(A[s], v)[i] = A[s][i]
      /\ Append(A[s], v)[Len(A[s]) + 1] = v
  BY <1>2, AppendProperties
<1>4. /\ statusArrays' \in [ArrayStatuses -> Seq(VoteIds)]
      /\ statusArrays'[s] = Append(A[s], v)
      /\ \A t \in ArrayStatuses \ {s} : statusArrays'[t] = A[t]
  BY <1>1, <1>3
<1>5. /\ statusIndex' \in [VoteIds -> Nat]
      /\ statusIndex'[v] = Len(A[s])
      /\ \A w \in VoteIds \ {v} : statusIndex'[w] = I[w]
  BY <1>1, <1>2
<1>6. /\ status' \in [VoteIds -> Statuses]
      /\ status'[v] = s
      /\ \A w \in VoteIds \ {v} : status'[w] = status[w]
  BY DEF StatusArraysTypeOK, Statuses
<1>7. StatusArraysTypeOK'
  BY <1>4, <1>5, <1>6 DEF StatusArraysTypeOK
<1>8. ASSUME NEW w \in VoteIds, status'[w] # "Init"
      PROVE  /\ statusIndex'[w] < Len(statusArrays'[status'[w]])
             /\ statusArrays'[status'[w]][statusIndex'[w] + 1] = w
  <2>1. CASE w = v
    BY <1>2, <1>3, <1>4, <1>5, <1>6, <2>1
  <2>2. CASE w # v
    <3>1. /\ status[w] \in ArrayStatuses
          /\ I[w] \in Nat
          /\ I[w] < Len(A[status[w]])
          /\ A[status[w]][I[w] + 1] = w
      BY <1>1, <1>6, <1>8, <2>2 DEF Detached, StatusArraysTypeOK, Statuses
    <3>2. CASE status[w] = s
      BY <1>2, <1>3, <1>4, <1>5, <1>6, <2>2, <3>1, <3>2
    <3>3. CASE status[w] # s
      BY <1>4, <1>5, <1>6, <2>2, <3>1, <3>3
    <3> QED
      BY <3>2, <3>3
  <2> QED
    BY <2>1, <2>2
<1>9. ASSUME NEW t \in ArrayStatuses, NEW i \in 1..Len(statusArrays'[t])
      PROVE  /\ status'[statusArrays'[t][i]] = t
             /\ statusIndex'[statusArrays'[t][i]] + 1 = i
  <2>1. CASE t = s /\ i = Len(A[s]) + 1
    BY <1>2, <1>3, <1>4, <1>5, <1>6, <2>1
  <2>2. CASE t # s \/ i # Len(A[s]) + 1
    <3>1. A[t] \in Seq(VoteIds) /\ i \in 1..Len(A[t]) /\ statusArrays'[t][i] = A[t][i]
      BY <1>1, <1>2, <1>3, <1>4, <1>9, <2>2, LenProperties
    <3>2. /\ A[t][i] \in VoteIds
          /\ A[t][i] # v
          /\ status[A[t][i]] = t
          /\ I[A[t][i]] + 1 = i
      BY <3>1, ElementOfSeq DEF Detached
    <3> QED
      BY <1>5, <1>6, <3>1, <3>2
  <2> QED
    BY <2>1, <2>2
<1> QED
  BY <1>7, <1>8, <1>9 DEF StatusArraysConsistent, ListedWhereRemembered,
     ArraysHoldTheirStatus

(* One call of _updateListingStatus preserves the type and the partition.   *)
LEMMA MoveListingPreserves ==
    ASSUME StatusArraysTypeOK, StatusArraysConsistent,
           NEW v \in VoteIds, NEW s \in Statuses, MoveListing(v, s)
    PROVE  StatusArraysTypeOK' /\ StatusArraysConsistent'
<1>1. s \in ArrayStatuses
  BY DEF MoveListing, Statuses
<1>2. Detached(ArraysWithout(v), IndicesWithout(v), v)
  BY Detach
<1>3. /\ statusArrays' = [ArraysWithout(v) EXCEPT ![s] = Append(@, v)]
      /\ statusIndex' = [IndicesWithout(v) EXCEPT ![v] = Len(ArraysWithout(v)[s])]
      /\ status' = [status EXCEPT ![v] = s]
  BY DEF MoveListing
<1> HIDE DEF ArraysWithout, IndicesWithout
<1> QED
  BY <1>1, <1>2, <1>3, Attach

(* The empty arrays of a new deployment are consistent. *)
LEMMA StatusArraysInitially ==
    StatusArraysInit => StatusArraysTypeOK /\ StatusArraysConsistent
<1> SUFFICES ASSUME StatusArraysInit
             PROVE  StatusArraysTypeOK /\ StatusArraysConsistent
  OBVIOUS
<1>1. StatusArraysTypeOK
  BY EmptySeq DEF StatusArraysInit, StatusArraysTypeOK, Statuses
<1>2. ListedWhereRemembered
  BY DEF StatusArraysInit, ListedWhereRemembered
<1>3. \A s \in ArrayStatuses : Len(statusArrays[s]) = 0
  BY DEF StatusArraysInit
<1>4. ArraysHoldTheirStatus
  BY <1>3 DEF ArraysHoldTheirStatus
<1> QED
  BY <1>1, <1>2, <1>4 DEF StatusArraysConsistent

(* For any number of listings and any sequence of moves, the status arrays  *)
(* partition the submitted listings.                                        *)
THEOREM StatusArraysAreConsistent ==
    StatusArraysSpec => [](StatusArraysTypeOK /\ StatusArraysConsistent)
<1>1. StatusArraysInit => StatusArraysTypeOK /\ StatusArraysConsistent
  BY StatusArraysInitially
<1>2. StatusArraysTypeOK /\ StatusArraysConsistent /\ [StatusArraysNext]_statusVars
      => StatusArraysTypeOK' /\ StatusArraysConsistent'
  <2> SUFFICES ASSUME StatusArraysTypeOK, StatusArraysConsistent,
                      [StatusArraysNext]_statusVars
               PROVE  StatusArraysTypeOK' /\ StatusArraysConsistent'
    OBVIOUS
  <2>1. CASE StatusArraysNext
    BY <2>1, MoveListingPreserves DEF StatusArraysNext
  <2>2. CASE UNCHANGED statusVars
    BY <2>2 DEF statusVars, StatusArraysTypeOK, StatusArraysConsistent,
       ListedWhereRemembered, ArraysHoldTheirStatus
  <2> QED
    BY <2>1, <2>2
<1> QED
  BY <1>1, <1>2, PTL DEF StatusArraysSpec

-----------------------------------------------------------------------------
(* The invariant of the listings *)

(* The parts of the invariant about listings ls, votes vs and marks vp, and *)
(* n listings submitted; methods build such values before they hand them to *)
(* _updateListingStatus.                                                    *)
Typed(ls, vs) ==
    /\ ls \in [VoteIds -> Listing]
    /\ vs \in [VoteIds -> [Stages -> [Votes -> Seq(Users)]]]
Marked(ls, vs, vp) ==
    \A v \in VoteIds, st \in Stages, k \in Votes :
        \A i \in DOMAIN vs[v][st][k] :
            vp[st][v][vs[v][st][k][i]] = ls[v].phase
Distinct(vs) ==
    \A v \in VoteIds, st \in Stages, k, l \in Votes :
        \A i \in DOMAIN vs[v][st][k], j \in DOMAIN vs[v][st][l] :
            vs[v][st][k][i] = vs[v][st][l][j] => k = l /\ i = j
Bounded(ls, vs) ==
    \A v \in VoteIds : ls[v].accruedScore <= MaxScore * ScoresCount(vs, v)
Unused(vs, n) == \A v \in VoteIds : v >= n => vs[v] = NoVotes

Sound(ls, vs, vp, n) ==
    /\ Typed(ls, vs)
    /\ Marked(ls, vs, vp)
    /\ Distinct(vs)
    /\ Bounded(ls, vs)
    /\ Unused(vs, n)

(* The types of what _updateListingStatus does not change. *)
OthersTyped ==
    /\ tokenListingsLength \in 0..MaxListings
    /\ nextTokenId \in Nat
    /\ whitelistedSubmitter \subseteq Users
    /\ whitelistedLastSubmit \in [Users -> Nat]
    /\ votesPhase \in [Stages -> [VoteIds -> [Users -> Nat]]]
    /\ goodVotes \in [Stages -> [Users -> Nat]]
    /\ badVotes \in [Stages -> [Users -> Nat]]
    /\ owedRewards \in [Users -> Nat]
    /\ paidRewards \in [Users -> Nat]
    /\ assets \in Seq([tokenId : Nat, lastUpdate : Nat, score : Nat])
    /\ stable \in [Accounts -> Nat]
    /\ mobl \in [Accounts -> Nat]
    /\ rank \in [Users -> 0..2]
    /\ config \in [Parameters -> Nat]
    /\ \A p \in Percentages : config[p] <= 100
    /\ now \in Nat

AssetsBounded == \A i \in DOMAIN assets : assets[i].score <= MaxScore

ListingsInv ==
    /\ StatusArraysTypeOK
    /\ StatusArraysConsistent
    /\ Sound(tokenListings, votes, votesPhase, tokenListingsLength)
    /\ OthersTyped
    /\ AssetsBounded

LEMMA InvImpliesProperties ==
    ListingsInv =>
        ListingsTypeOK /\ StatusArraysConsistent /\ OneVotePerPhase
        /\ ScoresBounded
BY DEF ListingsInv, Sound, Typed, Marked, Distinct, Bounded, OthersTyped,
   AssetsBounded, ListingsTypeOK, OneVotePerPhase, VotersAreMarked,
   VotersAreDistinct, ScoresBounded

-----------------------------------------------------------------------------
(* Arithmetic and sequences *)

LEMMA Quotient ==
    ASSUME NEW a \in Nat, NEW b \in Nat, b # 0
    PROVE  a \div b \in Nat
OBVIOUS

LEMMA QuotientBound ==
    ASSUME NEW a \in Nat, NEW b \in Nat, NEW m \in Nat, b # 0, a <= m * b
    PROVE  a \div b <= m
OBVIOUS

LEMMA Product == \A a, b \in Nat : a * b \in Nat
OBVIOUS

LEMMA NoVotesTyped ==
    /\ NoVotes \in [Stages -> [Votes -> Seq(Users)]]
    /\ \A st \in Stages, k \in Votes : NoVotes[st][k] = <<>>
BY EmptySeq DEF NoVotes

LEMMA NoScores ==
    ASSUME NEW vs, NEW v, vs[v] = NoVotes PROVE ScoresCount(vs, v) = 0
<1>1. /\ vs[v]["Sorting"]["Accept"] = <<>>
      /\ vs[v]["Validation"]["Accept"] = <<>>
  BY NoVotesTyped DEF Stages, Votes
<1> QED
  BY <1>1, EmptySeq DEF ScoresCount

LEMMA TimesIsNat == ASSUME NEW u, NEW array \in Seq(Users)
                    PROVE  Times(u, array) \in Nat
<1>1. IsFiniteSet(DOMAIN array)
  BY FS_Interval, LenProperties
<1>2. IsFiniteSet({i \in DOMAIN array : array[i] = u})
  BY <1>1, FS_Subset
<1> QED
  BY <1>2, FS_CardinalityType DEF Times

-----------------------------------------------------------------------------
(* _updateListingStatus *)

LEMMA ClearedListing ==
    ASSUME NEW l \in Listing, NEW s
    PROVE  /\ Cleared(l, s) \in Listing /\ Cleared(l, s).accruedScore = 0
           /\ Cleared(l, s).tokenId = l.tokenId
           /\ Cleared(l, s).coeff = l.coeff
           /\ Cleared(l, s).lastUpdate = l.lastUpdate
           /\ Cleared(l, s).score = l.score
<1> DEFINE zeroed == [l EXCEPT !.accruedScore = 0]
           phase == IF s = "Updating" THEN l.phase + 1 ELSE l.phase
<1>1. Cleared(l, s) = [zeroed EXCEPT !.phase = phase]
  BY Zenon DEF Cleared
<1>2. /\ zeroed \in Listing /\ zeroed.accruedScore = 0 /\ phase \in Nat
      /\ zeroed.tokenId = l.tokenId /\ zeroed.coeff = l.coeff
      /\ zeroed.lastUpdate = l.lastUpdate /\ zeroed.score = l.score
  BY DEF Listing
<1> HIDE DEF zeroed, phase
<1> QED
  BY <1>1, <1>2 DEF Listing

LEMMA UpdateListingStatusPreserves ==
    ASSUME StatusArraysTypeOK, StatusArraysConsistent,
           NEW ls, NEW vs, NEW vp, NEW n \in Nat,
           NEW v \in VoteIds, NEW s \in Statuses,
           Sound(ls, vs, vp, n),
           UpdateListingStatus(ls, vs, v, s)
    PROVE  /\ StatusArraysTypeOK' /\ StatusArraysConsistent'
           /\ Sound(tokenListings', votes', vp, n)
<1>1. StatusArraysTypeOK' /\ StatusArraysConsistent'
  BY MoveListingPreserves DEF UpdateListingStatus
<1>2. CASE s \notin ClearingStatuses
  BY <1>1, <1>2 DEF UpdateListingStatus
<1>3. CASE s \in ClearingStatuses
  <2>1. /\ tokenListings' = [ls EXCEPT ![v] = Cleared(@, s)]
        /\ votes' = [vs EXCEPT ![v] = NoVotes]
    BY <1>3 DEF UpdateListingStatus
  <2>2. Cleared(ls[v], s) \in Listing /\ Cleared(ls[v], s).accruedScore = 0
    BY ClearedListing DEF Sound, Typed
  <2>3. Typed(tokenListings', votes')
    BY <2>1, <2>2, NoVotesTyped DEF Sound, Typed
  <2>4. /\ votes'[v] = NoVotes
        /\ tokenListings'[v] = Cleared(ls[v], s)
        /\ \A w \in VoteIds \ {v} :
               votes'[w] = vs[w] /\ tokenListings'[w] = ls[w]
    BY <2>1 DEF Sound, Typed
  <2>5. \A st \in Stages, k \in Votes : DOMAIN votes'[v][st][k] = {}
    BY <2>4, NoVotesTyped
  <2>6. Marked(tokenListings', votes', vp)
    BY <2>4, <2>5 DEF Sound, Marked
  <2>7. Distinct(votes')
    BY <2>4, <2>5 DEF Sound, Distinct
  <2>8. Bounded(tokenListings', votes')
    <3>1. ScoresCount(votes', v) = 0
      BY <2>4, NoScores
    <3>2. \A w \in VoteIds \ {v} : ScoresCount(votes', w) = ScoresCount(vs, w)
      BY <2>4 DEF ScoresCount
    <3> QED
      BY <2>2, <2>4, <3>1, <3>2 DEF Sound, Bounded, MaxScore
  <2>9. Unused(votes', n)
    BY <2>4 DEF Sound, Unused
  <2> QED
    BY <1>1, <2>3, <2>6, <2>7, <2>8, <2>9 DEF Sound
<1> QED
  BY <1>2, <1>3

-----------------------------------------------------------------------------
(* Casting a vote: a voter whose mark is older than the phase is in none of *)
(* the arrays, so pushing the voter keeps them distinct.                    *)

LEMMA CastVote ==
    ASSUME ListingsInv,
           NEW user \in Users, NEW v \in VoteIds, NEW st \in Stages,
           NEW vote \in Votes, NEW score \in Nat,
           vote = "Accept" => score <= MaxScore,
           IsOpen(v, st), HasNotVoted(user, v, st), MarkVoter(user, v, st)
    PROVE  /\ Sound(ListingsWith(v, vote, score), VotesWith(user, v, st, vote),
                    votesPhase', tokenListingsLength)
           /\ votesPhase' \in [Stages -> [VoteIds -> [Users -> Nat]]]
<1> DEFINE vs == VotesWith(user, v, st, vote)
           ls == ListingsWith(v, vote, score)
           old == votes[v][st]
<1>1. /\ tokenListings \in [VoteIds -> Listing]
      /\ votes \in [VoteIds -> [Stages -> [Votes -> Seq(Users)]]]
      /\ votesPhase \in [Stages -> [VoteIds -> [Users -> Nat]]]
      /\ Marked(tokenListings, votes, votesPhase)
      /\ Distinct(votes)
      /\ Bounded(tokenListings, votes)
      /\ Unused(votes, tokenListingsLength)
      /\ tokenListingsLength \in Nat
  BY MaxListingsAssumption DEF ListingsInv, Sound, Typed, OthersTyped
<1>2. /\ vs \in [VoteIds -> [Stages -> [Votes -> Seq(Users)]]]
      /\ \A w \in VoteIds \ {v} : vs[w] = votes[w]
      /\ \A t \in Stages \ {st} : vs[v][t] = votes[v][t]
      /\ \A k \in Votes \ {vote} : vs[v][st][k] = old[k]
      /\ vs[v][st][vote] = Append(old[vote], user)
  BY <1>1 DEF VotesWith
<1>3. /\ ls \in [VoteIds -> Listing]
      /\ \A w \in VoteIds : ls[w].phase = tokenListings[w].phase
      /\ \A w \in VoteIds \ {v} : ls[w] = tokenListings[w]
      /\ ls[v].accruedScore =
             tokenListings[v].accruedScore + (IF vote = "Accept" THEN score ELSE 0)
  <2> DEFINE sum == tokenListings[v].accruedScore
                    + (IF vote = "Accept" THEN score ELSE 0)
             accrued == [tokenListings[v] EXCEPT !.accruedScore = sum]
  <2>1. tokenListings[v] \in Listing /\ tokenListings[v].accruedScore \in Nat
    BY <1>1 DEF Listing
  <2>2. sum = IF vote = "Accept" THEN tokenListings[v].accruedScore + score
                                 ELSE tokenListings[v].accruedScore
    BY <2>1
  <2>3. sum \in Nat
    BY <2>1
  <2>4. ls = [tokenListings EXCEPT ![v] = accrued]
    <3> HIDE DEF sum
    <3> QED
      BY <2>2, Zenon DEF ListingsWith
  <2>5. /\ accrued \in Listing /\ accrued.accruedScore = sum
        /\ accrued.phase = tokenListings[v].phase
    <3> HIDE DEF sum
    <3> QED
      BY <2>1, <2>3 DEF Listing
  <2> HIDE DEF ls, accrued
  <2> QED
    BY <1>1, <2>4, <2>5
<1>4. /\ votesPhase' \in [Stages -> [VoteIds -> [Users -> Nat]]]
      /\ \A t \in Stages, w \in VoteIds, u \in Users :
             votesPhase'[t][w][u] =
                 IF t = st /\ w = v /\ u = user THEN tokenListings[v].phase
                 ELSE votesPhase[t][w][u]
  <2>1. tokenListings[v].phase \in Nat
    BY <1>1 DEF Listing
  <2> QED
    BY <1>1, <2>1 DEF MarkVoter
<1>5. \A k \in Votes : \A i \in DOMAIN old[k] : old[k][i] \in Users \ {user}
  <2> SUFFICES ASSUME NEW k \in Votes, NEW i \in DOMAIN old[k]
               PROVE  old[k][i] \in Users \ {user}
    OBVIOUS
  <2>1. old[k] \in Seq(Users) /\ old[k][i] \in Users
    BY <1>1, ElementOfSeq, LenProperties
  <2>2. votesPhase[st][v][old[k][i]] = tokenListings[v].phase
    BY <1>1 DEF Marked
  <2>3. /\ votesPhase[st][v][user] < tokenListings[v].phase
        /\ votesPhase[st][v][user] \in Nat
        /\ tokenListings[v].phase \in Nat
    BY <1>1 DEF HasNotVoted, Listing
  <2> QED
    BY <2>1, <2>2, <2>3
<1>6. \A k \in Votes : \A i \in DOMAIN vs[v][st][k] :
          \/ i \in DOMAIN old[k] /\ vs[v][st][k][i] = old[k][i]
          \/ k = vote /\ i = Len(old[vote]) + 1 /\ vs[v][st][k][i] = user
  <2> SUFFICES ASSUME NEW k \in Votes, NEW i \in DOMAIN vs[v][st][k]
               PROVE  \/ i \in DOMAIN old[k] /\ vs[v][st][k][i] = old[k][i]
                      \/ /\ k = vote /\ i = Len(old[vote]) + 1
                         /\ vs[v][st][k][i] = user
    OBVIOUS
  <2>1. old[vote] \in Seq(Users)
    BY <1>1
  <2>2. CASE k = vote
    <3>1. vs[v][st][k] = Append(old[vote], user)
      BY <1>2, <2>2
    <3>2. /\ Len(old[vote]) \in Nat /\ DOMAIN old[vote] = 1..Len(old[vote])
          /\ DOMAIN vs[v][st][k] = 1..(Len(old[vote]) + 1)
          /\ vs[v][st][k][Len(old[vote]) + 1] = user
          /\ \A m \in 1..Len(old[vote]) : vs[v][st][k][m] = old[vote][m]
      BY <2>1, <3>1, AppendProperties, LenProperties
    <3> HIDE DEF vs, old
    <3> QED
      BY <2>2, <3>2
  <2>3. CASE k # vote
    <3>1. vs[v][st][k] = old[k]
      BY <1>2, <2>3
    <3> QED
      BY <3>1
  <2> QED
    BY <2>2, <2>3
<1> HIDE DEF vs, ls
<1>7. Marked(ls, vs, votesPhase')
  <2> SUFFICES ASSUME NEW w \in VoteIds, NEW t \in Stages, NEW k \in Votes,
                      NEW i \in DOMAIN vs[w][t][k]
               PROVE  votesPhase'[t][w][vs[w][t][k][i]] = ls[w].phase
    BY DEF Marked
  <2>1. CASE w = v /\ t = st
    <3>1. votesPhase'[st][v][user] = tokenListings[v].phase
      BY <1>4
    <3>2. ASSUME i \in DOMAIN old[k]
          PROVE  votesPhase'[st][v][old[k][i]] = tokenListings[v].phase
      <4>1. votesPhase[st][v][old[k][i]] = tokenListings[v].phase
        BY <1>1, <3>2 DEF Marked
      <4>2. old[k][i] \in Users \ {user}
        BY <1>5, <3>2
      <4> QED
        BY <1>4, <4>1, <4>2
    <3>3. ls[v].phase = tokenListings[v].phase
      BY <1>3
    <3> HIDE DEF old
    <3> QED
      BY <1>6, <2>1, <3>1, <3>2, <3>3
  <2>2. CASE ~(w = v /\ t = st)
    <3>1. vs[w][t] = votes[w][t]
      BY <1>2, <2>2
    <3>2. votes[w][t][k][i] \in Users
      BY <1>1, <3>1, ElementOfSeq, LenProperties
    <3>3. votesPhase[t][w][votes[w][t][k][i]] = tokenListings[w].phase
      BY <1>1, <3>1 DEF Marked
    <3>4. votesPhase'[t][w][votes[w][t][k][i]]
          = votesPhase[t][w][votes[w][t][k][i]]
      BY <1>4, <2>2, <3>2
    <3> QED
      BY <1>3, <3>1, <3>3, <3>4
  <2> QED
    BY <2>1, <2>2
<1>8. Distinct(vs)
  <2> SUFFICES ASSUME NEW w \in VoteIds, NEW t \in Stages,
                      NEW k \in Votes, NEW l \in Votes,
                      NEW i \in DOMAIN vs[w][t][k], NEW j \in DOMAIN vs[w][t][l],
                      vs[w][t][k][i] = vs[w][t][l][j]
               PROVE  k = l /\ i = j
    BY DEF Distinct
  <2>1. CASE w = v /\ t = st
    <3>1. /\ \/ i \in DOMAIN old[k] /\ vs[w][t][k][i] = old[k][i]
             \/ k = vote /\ i = Len(old[vote]) + 1 /\ vs[w][t][k][i] = user
          /\ \/ j \in DOMAIN old[l] /\ vs[w][t][l][j] = old[l][j]
             \/ l = vote /\ j = Len(old[vote]) + 1 /\ vs[w][t][l][j] = user
      BY <1>6, <2>1
    <3>2. ASSUME i \in DOMAIN old[k], j \in DOMAIN old[l], old[k][i] = old[l][j]
          PROVE  k = l /\ i = j
      BY <1>1, <3>2 DEF Distinct
    <3>3. /\ i \in DOMAIN old[k] => old[k][i] # user
          /\ j \in DOMAIN old[l] => old[l][j] # user
      BY <1>5
    <3> HIDE DEF old
    <3> QED
      BY <3>1, <3>2, <3>3
  <2>2. CASE ~(w = v /\ t = st)
    <3>1. vs[w][t] = votes[w][t]
      BY <1>2, <2>2
    <3> QED
      BY <1>1, <3>1 DEF Distinct
  <2> QED
    BY <2>1, <2>2
<1>9. Bounded(ls, vs)
  <2>1. \A w \in VoteIds \ {v} : ScoresCount(vs, w) = ScoresCount(votes, w)
    BY <1>2 DEF ScoresCount
  <2>2. /\ ScoresCount(votes, v) \in Nat
        /\ ScoresCount(vs, v) =
               ScoresCount(votes, v) + (IF vote = "Accept" THEN 1 ELSE 0)
    <3> DEFINE count(t) == Len(votes[v][t]["Accept"])
               newCount(t) == Len(vs[v][t]["Accept"])
               one == IF vote = "Accept" THEN 1 ELSE 0
    <3>1. \A t \in Stages :
              votes[v][t]["Accept"] \in Seq(Users) /\ count(t) \in Nat
      BY <1>1, LenProperties DEF Votes
    <3>2. newCount(st) = count(st) + one
      <4>1. CASE vote = "Accept"
        BY <1>2, <3>1, <4>1, AppendProperties
      <4>2. CASE vote # "Accept"
        <5>1. vs[v][st]["Accept"] = votes[v][st]["Accept"]
          BY <1>2, <4>2 DEF Votes
        <5> QED
          BY <3>1, <4>2, <5>1
      <4> QED
        BY <4>1, <4>2
    <3>3. \A t \in Stages \ {st} : newCount(t) = count(t)
      BY <1>2
    <3>4. /\ ScoresCount(votes, v) = count("Sorting") + count("Validation")
          /\ ScoresCount(vs, v) = newCount("Sorting") + newCount("Validation")
      BY Zenon DEF ScoresCount
    <3>5. one \in Nat
      OBVIOUS
    <3> HIDE DEF count, newCount, one
    <3>6. /\ ScoresCount(votes, v) \in Nat
          /\ ScoresCount(vs, v) = ScoresCount(votes, v) + one
      BY <3>1, <3>2, <3>3, <3>4, <3>5 DEF Stages
    <3> QED
      BY <3>6 DEF one
  <2>3. tokenListings[v].accruedScore \in Nat
    BY <1>1 DEF Listing
  <2> QED
    <3>1. tokenListings[v].accruedScore <= MaxScore * ScoresCount(votes, v)
      BY <1>1 DEF Bounded
    <3>2. ls[v].accruedScore <= MaxScore * ScoresCount(vs, v)
      <4>1. CASE vote = "Accept"
        BY <1>3, <2>2, <2>3, <3>1, <4>1 DEF MaxScore
      <4>2. CASE vote # "Accept"
        BY <1>3, <2>2, <2>3, <3>1, <4>2 DEF MaxScore
      <4> QED
        BY <4>1, <4>2
    <3>3. \A w \in VoteIds \ {v} :
              ls[w].accruedScore <= MaxScore * ScoresCount(vs, w)
      BY <1>1, <1>3, <2>1 DEF Bounded
    <3> QED
      BY <3>2, <3>3 DEF Bounded
<1>10. Unused(vs, tokenListingsLength)
  BY <1>1, <1>2 DEF Unused, IsOpen, VoteIds
<1> QED
  BY <1>2, <1>3, <1>4, <1>7, <1>8, <1>9, <1>10 DEF Sound, Typed, vs, ls

-----------------------------------------------------------------------------
(* Initial states, and the steps that touch no listing *)

LEMMA ListingsInitially == ListingsInit => ListingsInv
<1> SUFFICES ASSUME ListingsInit PROVE ListingsInv
  OBVIOUS
<1>1. StatusArraysTypeOK /\ StatusArraysConsistent
  BY StatusArraysInitially DEF ListingsInit
<1>2. /\ tokenListings = [v \in VoteIds |-> EmptyListing]
      /\ votes = [v \in VoteIds |-> NoVotes]
      /\ tokenListingsLength = 0
  BY DEF ListingsInit
<1>3. EmptyListing \in Listing /\ EmptyListing.accruedScore = 0
  BY DEF EmptyListing, Listing
<1>4. Typed(tokenListings, votes)
  BY <1>2, <1>3, NoVotesTyped DEF Typed
<1>5. \A v \in VoteIds, st \in Stages, k \in Votes : DOMAIN votes[v][st][k] = {}
  BY <1>2, NoVotesTyped
<1>6. Marked(tokenListings, votes, votesPhase) /\ Distinct(votes)
  BY <1>5 DEF Marked, Distinct
<1>7. Bounded(tokenListings, votes)
  BY <1>2, <1>3, NoScores DEF Bounded, MaxScore
<1>8. Unused(votes, tokenListingsLength)
  BY <1>2 DEF Unused
<1>9. OthersTyped
  <2>1. /\ assets \in Seq([tokenId : Nat, lastUpdate : Nat, score : Nat])
        /\ rank \in [Users -> 0..2]
    BY RanksAssumption, EmptySeq DEF ListingsInit, RankMaps
  <2> QED
    BY <2>1, ListingsAssumption, MaxListingsAssumption DEF ListingsInit, OthersTyped
<1>10. AssetsBounded
  BY DEF ListingsInit, AssetsBounded
<1> QED
  BY <1>1, <1>4, <1>6, <1>7, <1>8, <1>9, <1>10 DEF ListingsInv, Sound

(* What a step that leaves listings, votes and assets alone must show. *)
LEMMA ListingsUntouched ==
    ASSUME ListingsInv, OthersTyped',
           UNCHANGED <<listingVars, tokenListingsLength, votesPhase, assets>>
    PROVE  ListingsInv'
<1>1. StatusArraysTypeOK' /\ StatusArraysConsistent'
  BY DEF ListingsInv, listingVars, statusVars, StatusArraysTypeOK,
         StatusArraysConsistent, ListedWhereRemembered, ArraysHoldTheirStatus
<1>2. Sound(tokenListings', votes', votesPhase', tokenListingsLength')
  BY DEF ListingsInv, listingVars
<1>3. AssetsBounded'
  BY DEF ListingsInv, AssetsBounded
<1> QED
  BY <1>1, <1>2, <1>3 DEF ListingsInv

LEMMA TransferTyped ==
    ASSUME NEW balances \in [Accounts -> Nat], NEW from \in Accounts,
           NEW to \in Accounts, from # to,
           NEW amount \in Nat, balances[from] >= amount
    PROVE  Transfer(balances, from, to, amount) \in [Accounts -> Nat]
<1>1. /\ balances[from] - amount \in Nat /\ balances[to] + amount \in Nat
  OBVIOUS
<1>2. Transfer(balances, from, to, amount)
      = [a \in Accounts |-> IF a = from THEN balances[from] - amount
                            ELSE IF a = to THEN balances[to] + amount
                            ELSE balances[a]]
  BY DEF Transfer
<1> QED
  BY <1>1, <1>2

LEMMA ClaimPreserves ==
    ASSUME ListingsInv, NEW user \in Users, ClaimRewards(user)
    PROVE  ListingsInv'
<1> DEFINE amountToPay == owedRewards[user] * config["tokensPerVote"]
           moblAmount == amountToPay \div PAYMENT_COEFF
<1>1. OthersTyped
  BY DEF ListingsInv
<1>2. owedRewards[user] \in Nat /\ config["tokensPerVote"] \in Nat
  BY <1>1 DEF OthersTyped, Parameters
<1>3. amountToPay \in Nat
  BY <1>2, Product
<1>4. moblAmount \in Nat
  <2> HIDE DEF amountToPay
  <2> QED
    BY <1>3, Quotient DEF PAYMENT_COEFF
<1>5. /\ mobl[Protocol] >= moblAmount
      /\ mobl' = Transfer(mobl, Protocol, user, moblAmount)
      /\ paidRewards' = [paidRewards EXCEPT ![user] = @ + amountToPay]
      /\ owedRewards' = [owedRewards EXCEPT ![user] = 0]
  BY DEF ClaimRewards, DeleteOwed
<1> HIDE DEF amountToPay, moblAmount
<1>6. mobl' \in [Accounts -> Nat]
  <2>1. /\ mobl \in [Accounts -> Nat] /\ Protocol \in Accounts
        /\ user \in Accounts /\ Protocol # user
    BY <1>1, ListingsAssumption DEF OthersTyped, Accounts
  <2> QED
    BY <1>4, <1>5, <2>1, TransferTyped
<1>7. paidRewards' \in [Users -> Nat] /\ owedRewards' \in [Users -> Nat]
  BY <1>1, <1>3, <1>5 DEF OthersTyped
<1>8. UNCHANGED <<listingVars, submitVars, votesPhase, goodVotes, badVotes,
                  assets, ownerVars, outsideVars>>
  BY DEF ClaimRewards
<1>9. OthersTyped'
  BY <1>1, <1>6, <1>7, <1>8
     DEF OthersTyped, submitVars, ownerVars, outsideVars
<1> QED
  BY <1>8, <1>9, ListingsUntouched DEF submitVars

LEMMA OwnerSettingsPreserve ==
    ASSUME ListingsInv,
           \/ \E p \in Parameters : \E x \in Settings[p] : UpdateParameter(p, x)
           \/ \E user \in Users, b \in BOOLEAN : WhitelistSubmitter(user, b)
           \/ \E amount \in WithdrawAmounts : WithdrawERC20Funds(amount)
    PROVE  ListingsInv'
<1>1. OthersTyped
  BY DEF ListingsInv
<1>2. ASSUME NEW p \in Parameters, NEW x \in Settings[p], UpdateParameter(p, x)
      PROVE  ListingsInv'
  <2>1. x \in Nat
    BY ListingsAssumption
  <2>2. /\ config' \in [Parameters -> Nat]
        /\ \A q \in Percentages : config'[q] <= 100
    BY <1>1, <1>2, <2>1 DEF OthersTyped, UpdateParameter, ValidSetting, Parameters
  <2>3. OthersTyped'
    BY <1>1, <1>2, <2>2
       DEF OthersTyped, UpdateParameter, submitVars, rewardVars, claimVars,
           outsideVars
  <2> QED
    BY <1>2, <2>3, ListingsUntouched DEF UpdateParameter, submitVars, rewardVars
<1>3. ASSUME NEW user \in Users, NEW b \in BOOLEAN, WhitelistSubmitter(user, b)
      PROVE  ListingsInv'
  <2>1. OthersTyped'
    BY <1>1, <1>3
       DEF OthersTyped, WhitelistSubmitter, submitVars, rewardVars, claimVars,
           outsideVars
  <2> QED
    BY <1>3, <2>1, ListingsUntouched DEF WhitelistSubmitter, submitVars, rewardVars
<1>4. ASSUME NEW amount \in WithdrawAmounts, WithdrawERC20Funds(amount)
      PROVE  ListingsInv'
  <2>1. amount \in Nat
    BY ListingsAssumption
  <2>2. stable' \in [Accounts -> Nat] /\ mobl' \in [Accounts -> Nat]
    <3>1. /\ stable \in [Accounts -> Nat] /\ mobl \in [Accounts -> Nat]
          /\ Protocol \in Accounts /\ Treasury \in Accounts
          /\ Protocol # Treasury
      BY <1>1, ListingsAssumption DEF OthersTyped, Accounts
    <3>2. /\ stable[Protocol] >= amount =>
                 Transfer(stable, Protocol, Treasury, amount) \in [Accounts -> Nat]
          /\ mobl[Protocol] >= amount =>
                 Transfer(mobl, Protocol, Treasury, amount) \in [Accounts -> Nat]
      BY <2>1, <3>1, TransferTyped
    <3> QED
      BY <1>4, <3>1, <3>2 DEF WithdrawERC20Funds
  <2>3. OthersTyped'
    BY <1>1, <1>4, <2>2
       DEF OthersTyped, WithdrawERC20Funds, rewardVars, ownerVars, outsideVars
  <2> QED
    BY <1>4, <2>3, ListingsUntouched DEF WithdrawERC20Funds, rewardVars
<1> QED
  BY <1>2, <1>3, <1>4

LEMMA OutsidePreserves ==
    ASSUME ListingsInv, Tick \/ \E user \in Users : RankChange(user)
    PROVE  ListingsInv'
<1>1. OthersTyped
  BY DEF ListingsInv
<1>2. CASE Tick
  <2>1. OthersTyped'
    BY <1>1, <1>2
       DEF OthersTyped, Tick, submitVars, rewardVars, claimVars, ownerVars
  <2> QED
    BY <1>2, <2>1, ListingsUntouched DEF Tick, submitVars, rewardVars
<1>3. ASSUME NEW user \in Users, RankChange(user)
      PROVE  ListingsInv'
  <2>1. rank' \in [Users -> 0..2]
    <3>1. rank \in [Users -> 0..2] /\ rank[user] \in 0..2
      BY <1>1 DEF OthersTyped
    <3>2. PICK r \in 0..2 : rank' = [rank EXCEPT ![user] = r]
      <4>1. CASE rank[user] < 2 /\ rank' = [rank EXCEPT ![user] = @ + 1]
        <5>1. rank[user] + 1 \in 0..2
          BY <3>1, <4>1
        <5> QED
          BY <4>1, <5>1
      <4>2. CASE rank[user] > 0 /\ rank' = [rank EXCEPT ![user] = @ - 1]
        <5>1. rank[user] - 1 \in 0..2
          BY <3>1, <4>2
        <5> QED
          BY <4>2, <5>1
      <4> QED
        BY <1>3, <4>1, <4>2 DEF RankChange
    <3> QED
      BY <3>1, <3>2
  <2>2. OthersTyped'
    BY <1>1, <1>3, <2>1
       DEF OthersTyped, RankChange, submitVars, rewardVars, claimVars, ownerVars
  <2> QED
    BY <1>3, <2>2, ListingsUntouched DEF RankChange, submitVars, rewardVars
<1> QED
  BY <1>2, <1>3

-----------------------------------------------------------------------------
(* Submission, top-up and update *)

LEMMA OtherFieldsChange ==
    ASSUME NEW ls, NEW vs, NEW vp, NEW n, NEW v \in VoteIds, NEW l \in Listing,
           Sound(ls, vs, vp, n), l.phase = ls[v].phase,
           l.accruedScore = ls[v].accruedScore
    PROVE  Sound([ls EXCEPT ![v] = l], vs, vp, n)
<1> DEFINE new == [ls EXCEPT ![v] = l]
<1>1. /\ new \in [VoteIds -> Listing]
      /\ \A w \in VoteIds : /\ new[w].phase = ls[w].phase
                            /\ new[w].accruedScore = ls[w].accruedScore
  BY DEF Sound, Typed
<1> HIDE DEF new
<1>2. Typed(new, vs)
  BY <1>1 DEF Sound, Typed
<1>3. Marked(new, vs, vp)
  BY <1>1 DEF Sound, Marked
<1>4. Bounded(new, vs)
  BY <1>1 DEF Sound, Bounded
<1>5. Sound(new, vs, vp, n)
  BY <1>2, <1>3, <1>4 DEF Sound
<1> QED
  BY <1>5 DEF new

LEMMA CoeffIsNat ==
    ASSUME OthersTyped, NEW amount \in Nat, config["submitFloorPrice"] # 0
    PROVE  GetCoeff(amount) \in Nat
<1>1. config["submitFloorPrice"] \in Nat
  BY DEF OthersTyped, Parameters
<1>2. amount * PAYMENT_COEFF \in Nat
  BY DEF PAYMENT_COEFF
<1> QED
  BY <1>1, <1>2, Quotient DEF GetCoeff

LEMMA PayTyped ==
    ASSUME OthersTyped, NEW msgSender, NEW sourceMsgSender \in Users,
           NEW amount \in Nat, Pay(msgSender, sourceMsgSender, amount)
    PROVE  stable' \in [Accounts -> Nat] /\ config["submitFloorPrice"] # 0
<1>1. /\ stable \in [Accounts -> Nat]
      /\ Protocol \in Accounts /\ sourceMsgSender \in Accounts
      /\ sourceMsgSender # Protocol
  BY ListingsAssumption DEF OthersTyped, Accounts
<1>2. stable[sourceMsgSender] >= amount =>
          Transfer(stable, sourceMsgSender, Protocol, amount)
          \in [Accounts -> Nat]
  BY <1>1, TransferTyped
<1> QED
  BY <1>1, <1>2 DEF Pay

LEMMA NewListing ==
    ASSUME NEW ls, NEW vs, NEW vp, NEW v \in VoteIds, NEW l \in Listing,
           Sound(ls, vs, vp, v), l.accruedScore = 0
    PROVE  Sound([ls EXCEPT ![v] = l], vs, vp, v + 1)
<1> DEFINE new == [ls EXCEPT ![v] = l]
<1>1. /\ new \in [VoteIds -> Listing] /\ new[v].accruedScore = 0
      /\ \A w \in VoteIds \ {v} : new[w] = ls[w]
  BY DEF Sound, Typed
<1>2. vs[v] = NoVotes
  BY DEF Sound, Unused, VoteIds
<1> HIDE DEF new
<1>3. Typed(new, vs)
  BY <1>1 DEF Sound, Typed
<1>4. Marked(new, vs, vp)
  BY <1>1, <1>2, NoVotesTyped DEF Sound, Marked
<1>5. Bounded(new, vs)
  BY <1>1, <1>2, NoScores DEF Sound, Bounded, MaxScore
<1>6. Unused(vs, v + 1)
  BY DEF Sound, Unused, VoteIds
<1>7. Sound(new, vs, vp, v + 1)
  BY <1>3, <1>4, <1>5, <1>6 DEF Sound
<1> QED
  BY <1>7 DEF new

LEMMA SubmissionCoeffIsNat ==
    ASSUME OthersTyped, NEW msgSender, NEW sourceMsgSender \in Users,
           NEW amount \in Nat, NEW tokenId \in Nat,
           SubmitTokenFor(msgSender, sourceMsgSender, amount, tokenId)
    PROVE  SubmissionCoeff(sourceMsgSender, amount, tokenId) \in Nat
<1>1. /\ sourceMsgSender \notin whitelistedSubmitter /\ amount # 0
      => GetCoeff(amount) \in Nat
  BY PayTyped, CoeffIsNat DEF SubmitTokenFor
<1>2. PAYMENT_COEFF * config["editCoeffMultiplier"] \in Nat
  BY DEF OthersTyped, Parameters, PAYMENT_COEFF
<1> QED
  BY <1>1, <1>2 DEF SubmissionCoeff, PAYMENT_COEFF

LEMMA SubmitPreserves ==
    ASSUME ListingsInv, NEW msgSender, NEW sourceMsgSender \in Users,
           NEW amount \in Nat, NEW tokenId \in Nat,
           SubmitTokenFor(msgSender, sourceMsgSender, amount, tokenId)
    PROVE  ListingsInv'
<1> DEFINE v == tokenListingsLength
           coeff == SubmissionCoeff(sourceMsgSender, amount, tokenId)
           listing == [tokenId |-> IF tokenId # 0 THEN tokenId ELSE nextTokenId,
                       lastUpdate |-> now, score |-> 0, coeff |-> coeff,
                       submitter |-> sourceMsgSender, accruedScore |-> 0,
                       phase |-> 1]
<1>1. /\ OthersTyped /\ AssetsBounded
      /\ StatusArraysTypeOK /\ StatusArraysConsistent
      /\ Sound(tokenListings, votes, votesPhase, v)
  BY DEF ListingsInv
<1>2. /\ v \in VoteIds /\ v + 1 \in 0..MaxListings /\ v \in Nat
      /\ tokenListingsLength' = v + 1
  BY <1>1, MaxListingsAssumption DEF SubmitTokenFor, OthersTyped, VoteIds
<1>3. stable' \in [Accounts -> Nat]
  BY <1>1, PayTyped DEF SubmitTokenFor, OthersTyped
<1>4. coeff \in Nat
  BY <1>1, SubmissionCoeffIsNat
<1>5. nextTokenId' \in Nat /\ whitelistedLastSubmit' \in [Users -> Nat]
  <2>1. /\ nextTokenId \in Nat /\ whitelistedLastSubmit \in [Users -> Nat]
        /\ now \in Nat
    BY <1>1 DEF OthersTyped
  <2>2. nextTokenId' \in {nextTokenId, nextTokenId + 1}
    BY DEF SubmitTokenFor, NextTokenId
  <2>3. whitelistedLastSubmit' \in
            {whitelistedLastSubmit,
             [whitelistedLastSubmit EXCEPT ![sourceMsgSender] = now]}
    BY DEF SubmitTokenFor, WhitelistedTurn
  <2> QED
    BY <2>1, <2>2, <2>3
<1>6. UNCHANGED <<votesPhase, rewardVars, claimVars, ownerVars, outsideVars>>
  BY DEF SubmitTokenFor
<1>7. OthersTyped'
  BY <1>1, <1>2, <1>3, <1>5, <1>6
     DEF OthersTyped, rewardVars, claimVars, ownerVars, outsideVars
<1>8. PICK s \in Statuses :
          UpdateListingStatus([tokenListings EXCEPT ![v] = listing], votes, v, s)
  BY DEF SubmitTokenFor, Statuses, ArrayStatuses
<1>9. listing \in Listing /\ listing.accruedScore = 0
  <2> HIDE DEF coeff
  <2> QED
    BY <1>1, <1>4 DEF OthersTyped, Listing
<1> HIDE DEF v, listing
<1>10. Sound([tokenListings EXCEPT ![v] = listing], votes, votesPhase, v + 1)
  BY <1>1, <1>2, <1>9, NewListing
<1>11. /\ StatusArraysTypeOK' /\ StatusArraysConsistent'
       /\ Sound(tokenListings', votes', votesPhase, v + 1)
  BY <1>1, <1>2, <1>8, <1>10, UpdateListingStatusPreserves
<1>12. AssetsBounded'
  BY <1>1, <1>6 DEF AssetsBounded, rewardVars
<1> QED
  BY <1>2, <1>6, <1>7, <1>11, <1>12 DEF ListingsInv

LEMMA TopUpPreserves ==
    ASSUME ListingsInv, NEW msgSender, NEW sourceMsgSender \in Users,
           NEW v \in VoteIds, NEW amount \in Nat,
           TopUpTokenFor(msgSender, sourceMsgSender, v, amount)
    PROVE  ListingsInv'
<1> DEFINE sum == tokenListings[v].coeff + GetCoeff(amount)
           listing == [tokenListings[v] EXCEPT !.coeff = sum]
           ls == [tokenListings EXCEPT ![v] = listing]
<1>1. /\ OthersTyped /\ AssetsBounded
      /\ StatusArraysTypeOK /\ StatusArraysConsistent
      /\ Sound(tokenListings, votes, votesPhase, tokenListingsLength)
      /\ tokenListings[v] \in Listing
      /\ tokenListingsLength \in Nat
  BY MaxListingsAssumption DEF ListingsInv, Sound, Typed, OthersTyped
<1>2. stable' \in [Accounts -> Nat] /\ GetCoeff(amount) \in Nat
  BY <1>1, PayTyped, CoeffIsNat DEF TopUpTokenFor
<1>3. sum \in Nat
  BY <1>1, <1>2 DEF Listing
<1>4. \/ UpdateListingStatus(ls, votes, v, "Sorting")
      \/ tokenListings' = ls /\ UNCHANGED <<statusVars, votes>>
  BY Zenon DEF TopUpTokenFor
<1>5. /\ listing \in Listing /\ listing.phase = tokenListings[v].phase
      /\ listing.accruedScore = tokenListings[v].accruedScore
  <2> HIDE DEF sum
  <2> QED
    BY <1>1, <1>3 DEF Listing
<1> HIDE DEF listing
<1>6. Sound(ls, votes, votesPhase, tokenListingsLength)
  BY <1>1, <1>5, OtherFieldsChange
<1> HIDE DEF ls
<1>7. UNCHANGED <<tokenListingsLength, nextTokenId, whitelistedLastSubmit,
                  votesPhase, rewardVars, claimVars, ownerVars, outsideVars>>
  BY DEF TopUpTokenFor
<1>8. OthersTyped'
  BY <1>1, <1>2, <1>7
     DEF OthersTyped, rewardVars, claimVars, ownerVars, outsideVars
<1>9. AssetsBounded'
  BY <1>1, <1>7 DEF AssetsBounded, rewardVars
<1>10. /\ StatusArraysTypeOK' /\ StatusArraysConsistent'
       /\ Sound(tokenListings', votes', votesPhase, tokenListingsLength)
  <2>1. CASE UpdateListingStatus(ls, votes, v, "Sorting")
    BY <1>1, <1>6, <2>1, UpdateListingStatusPreserves DEF Statuses, ArrayStatuses
  <2>2. CASE tokenListings' = ls /\ UNCHANGED <<statusVars, votes>>
    BY <1>1, <1>6, <2>2
       DEF statusVars, StatusArraysTypeOK, StatusArraysConsistent,
           ListedWhereRemembered, ArraysHoldTheirStatus
  <2> QED
    BY <1>4, <2>1, <2>2
<1> QED
  BY <1>7, <1>8, <1>9, <1>10 DEF ListingsInv

LEMMA UpdatePreserves ==
    ASSUME ListingsInv, NEW user, NEW v \in VoteIds, UpdateTokenFor(user, v)
    PROVE  ListingsInv'
<1> DEFINE listing == [tokenListings[v] EXCEPT !.lastUpdate = now]
           ls == [tokenListings EXCEPT ![v] = listing]
<1>1. /\ OthersTyped /\ AssetsBounded
      /\ StatusArraysTypeOK /\ StatusArraysConsistent
      /\ Sound(tokenListings, votes, votesPhase, tokenListingsLength)
      /\ tokenListings[v] \in Listing
      /\ tokenListingsLength \in Nat
  BY MaxListingsAssumption DEF ListingsInv, Sound, Typed, OthersTyped
<1>2. UpdateListingStatus(ls, votes, v, "Sorting")
  BY Zenon DEF UpdateTokenFor
<1>3. /\ listing \in Listing /\ listing.phase = tokenListings[v].phase
      /\ listing.accruedScore = tokenListings[v].accruedScore
  BY <1>1 DEF Listing, OthersTyped
<1> HIDE DEF listing
<1>4. Sound(ls, votes, votesPhase, tokenListingsLength)
  BY <1>1, <1>3, OtherFieldsChange
<1> HIDE DEF ls
<1>5. UNCHANGED <<submitVars, votesPhase, rewardVars, claimVars, ownerVars,
                  outsideVars>>
  BY DEF UpdateTokenFor
<1>6. OthersTyped' /\ AssetsBounded'
  BY <1>1, <1>5 DEF OthersTyped, AssetsBounded, submitVars, rewardVars,
                    claimVars, ownerVars, outsideVars
<1>7. /\ StatusArraysTypeOK' /\ StatusArraysConsistent'
      /\ Sound(tokenListings', votes', votesPhase, tokenListingsLength)
  BY <1>1, <1>2, <1>4, UpdateListingStatusPreserves DEF Statuses, ArrayStatuses
<1> QED
  BY <1>5, <1>6, <1>7 DEF ListingsInv, submitVars

LEMMA OwnerMovePreserves ==
    ASSUME ListingsInv, NEW v \in VoteIds, NEW s \in Statuses,
           EmergencyUpdateListingStatus(v, s)
    PROVE  ListingsInv'
<1>1. /\ OthersTyped /\ AssetsBounded
      /\ StatusArraysTypeOK /\ StatusArraysConsistent
      /\ Sound(tokenListings, votes, votesPhase, tokenListingsLength)
      /\ tokenListingsLength \in Nat
  BY MaxListingsAssumption DEF ListingsInv, OthersTyped
<1>2. /\ UpdateListingStatus(tokenListings, votes, v, s)
      /\ UNCHANGED <<submitVars, votesPhase, rewardVars, claimVars, ownerVars,
                     outsideVars>>
  BY DEF EmergencyUpdateListingStatus
<1>3. OthersTyped' /\ AssetsBounded'
  BY <1>1, <1>2 DEF OthersTyped, AssetsBounded, submitVars, rewardVars,
                    claimVars, ownerVars, outsideVars
<1>4. /\ StatusArraysTypeOK' /\ StatusArraysConsistent'
      /\ Sound(tokenListings', votes', votesPhase, tokenListingsLength)
  BY <1>1, <1>2, UpdateListingStatusPreserves
<1> QED
  BY <1>2, <1>3, <1>4 DEF ListingsInv, submitVars

-----------------------------------------------------------------------------
(* The two voting methods.  Whatever the outcome, a vote ends in the state  *)
(* of CastVote, possibly handed to _updateListingStatus after the score of  *)
(* the token was set.                                                       *)

LEMMA ListingsStandOrMove ==
    ASSUME StatusArraysTypeOK, StatusArraysConsistent,
           NEW ls, NEW vs, NEW vp, NEW n \in Nat, NEW v \in VoteIds,
           Sound(ls, vs, vp, n),
           \/ tokenListings' = ls /\ votes' = vs /\ UNCHANGED statusVars
           \/ \E s \in Statuses : UpdateListingStatus(ls, vs, v, s)
    PROVE  /\ StatusArraysTypeOK' /\ StatusArraysConsistent'
           /\ Sound(tokenListings', votes', vp, n)
<1>1. CASE tokenListings' = ls /\ votes' = vs /\ UNCHANGED statusVars
  BY <1>1 DEF statusVars, StatusArraysTypeOK, StatusArraysConsistent,
              ListedWhereRemembered, ArraysHoldTheirStatus
<1>2. ASSUME NEW s \in Statuses, UpdateListingStatus(ls, vs, v, s)
      PROVE  /\ StatusArraysTypeOK' /\ StatusArraysConsistent'
             /\ Sound(tokenListings', votes', vp, n)
  BY <1>2, UpdateListingStatusPreserves
<1> QED
  BY <1>1, <1>2

LEMMA VoteSortingPreserves ==
    ASSUME ListingsInv, NEW user \in Users, NEW v \in VoteIds,
           NEW vote \in Votes, NEW score \in Nat,
           VoteSorting(user, v, vote, score)
    PROVE  ListingsInv'
<1> DEFINE vs == VotesWith(user, v, "Sorting", vote)
           ls == ListingsWith(v, vote, score)
<1>1. /\ OthersTyped /\ AssetsBounded
      /\ StatusArraysTypeOK /\ StatusArraysConsistent
      /\ tokenListingsLength \in Nat
  BY MaxListingsAssumption DEF ListingsInv, OthersTyped
<1>2. /\ Sound(ls, vs, votesPhase', tokenListingsLength)
      /\ votesPhase' \in [Stages -> [VoteIds -> [Users -> Nat]]]
  BY CastVote DEF VoteSorting, MayVote, Stages
<1>3. \/ tokenListings' = ls /\ votes' = vs /\ UNCHANGED statusVars
      \/ \E s \in Statuses : UpdateListingStatus(ls, vs, v, s)
  BY DEF VoteSorting, Statuses, ArrayStatuses
<1> HIDE DEF vs, ls
<1>4. /\ StatusArraysTypeOK' /\ StatusArraysConsistent'
      /\ Sound(tokenListings', votes', votesPhase', tokenListingsLength)
  BY <1>1, <1>2, <1>3, ListingsStandOrMove
<1>5. UNCHANGED <<submitVars, rewardVars, claimVars, ownerVars, outsideVars>>
  BY DEF VoteSorting
<1>6. OthersTyped' /\ AssetsBounded'
  BY <1>1, <1>2, <1>5 DEF OthersTyped, AssetsBounded, submitVars, rewardVars,
                          claimVars, ownerVars, outsideVars
<1> QED
  BY <1>4, <1>5, <1>6 DEF ListingsInv, submitVars

LEMMA RewardsTyped ==
    ASSUME OthersTyped, NEW vs, NEW v \in VoteIds, NEW right \in Votes,
           NEW wrong \in Votes, Typed(tokenListings, vs),
           RewardVoters(vs, v, right, wrong)
    PROVE  /\ goodVotes' \in [Stages -> [Users -> Nat]]
           /\ badVotes' \in [Stages -> [Users -> Nat]]
           /\ owedRewards' \in [Users -> Nat]
<1>1. \A st \in Stages, k \in Votes, u \in Users : Times(u, vs[v][st][k]) \in Nat
  BY TimesIsNat DEF Typed
<1>2. /\ goodVotes' \in [Stages -> [Users -> Nat]]
      /\ badVotes' \in [Stages -> [Users -> Nat]]
  <2>1. \A st \in Stages, u \in Users :
            /\ goodVotes[st][u] + Times(u, vs[v][st][right]) \in Nat
            /\ badVotes[st][u] + Times(u, vs[v][st][wrong]) \in Nat
    BY <1>1 DEF OthersTyped
  <2> QED
    BY <2>1 DEF RewardVoters
<1>3. ASSUME NEW u \in Users
      PROVE  owedRewards[u] + tokenListings[v].coeff *
                 (Weight("Sorting") * Times(u, vs[v]["Sorting"][right])
                  + Weight("Validation") * Times(u, vs[v]["Validation"][right]))
             \in Nat
  <2> DEFINE first == Times(u, vs[v]["Sorting"][right])
             second == Times(u, vs[v]["Validation"][right])
             weight == Weight("Sorting") * first + Weight("Validation") * second
  <2>1. first \in Nat /\ second \in Nat
    BY <1>1 DEF Stages
  <2>2. weight \in Nat
    <3> HIDE DEF first, second
    <3> QED
      BY <2>1 DEF Weight
  <2>3. tokenListings[v].coeff \in Nat /\ owedRewards[u] \in Nat
    BY DEF Typed, Listing, OthersTyped
  <2>4. tokenListings[v].coeff * weight \in Nat
    <3> HIDE DEF weight
    <3> QED
      BY <2>2, <2>3, Product
  <2> HIDE DEF weight
  <2>5. owedRewards[u] + tokenListings[v].coeff * weight \in Nat
    BY <2>3, <2>4
  <2> QED
    BY <2>5 DEF weight
<1> QED
  BY <1>2, <1>3 DEF RewardVoters

(* The score that _saveToken computes is at most five, and setting it keeps *)
(* the listings sound.                                                      *)
LEMMA SaveTokenSound ==
    ASSUME OthersTyped, AssetsBounded, NEW ls, NEW vs, NEW vp, NEW n,
           NEW v \in VoteIds, Sound(ls, vs, vp, n), SaveToken(ls, vs, v)
    PROVE  /\ Sound(TokenSaved(ls, vs, v), vs, vp, n)
           /\ assets' \in Seq([tokenId : Nat, lastUpdate : Nat, score : Nat])
           /\ AssetsBounded'
<1> DEFINE average == ls[v].accruedScore \div ScoresCount(vs, v)
           saved == [ls[v] EXCEPT !.score = average]
           asset == [tokenId |-> ls[v].tokenId, lastUpdate |-> ls[v].lastUpdate,
                     score |-> average]
<1>1. /\ ls \in [VoteIds -> Listing] /\ ls[v] \in Listing
      /\ ls[v].accruedScore \in Nat /\ ls[v].tokenId \in Nat
      /\ ls[v].lastUpdate \in Nat
      /\ ls[v].accruedScore <= MaxScore * ScoresCount(vs, v)
  BY DEF Sound, Typed, Bounded, Listing
<1>2. ScoresCount(vs, v) \in Nat /\ ScoresCount(vs, v) # 0
  <2>1. /\ vs[v]["Sorting"]["Accept"] \in Seq(Users)
        /\ vs[v]["Validation"]["Accept"] \in Seq(Users)
    BY DEF Sound, Typed, Stages, Votes
  <2>2. /\ Len(vs[v]["Sorting"]["Accept"]) \in Nat
        /\ Len(vs[v]["Validation"]["Accept"]) \in Nat
    BY <2>1, LenProperties
  <2>3. ScoresCount(vs, v) \in Nat
    <3> DEFINE first == Len(vs[v]["Sorting"]["Accept"])
               second == Len(vs[v]["Validation"]["Accept"])
    <3>1. ScoresCount(vs, v) = first + second
      BY Zenon DEF ScoresCount
    <3>2. first \in Nat /\ second \in Nat
      BY <2>2
    <3> HIDE DEF first, second
    <3> QED
      BY <3>1, <3>2
  <2>4. ScoresCount(vs, v) # 0
    BY Zenon DEF SaveToken
  <2> QED
    BY <2>3, <2>4
<1>3. average \in Nat /\ average <= MaxScore
  <2> DEFINE a == ls[v].accruedScore
             b == ScoresCount(vs, v)
  <2>1. a \in Nat /\ b \in Nat /\ b # 0 /\ a <= MaxScore * b /\ MaxScore \in Nat
    BY <1>1, <1>2 DEF MaxScore
  <2> HIDE DEF a, b
  <2>2. a \div b \in Nat /\ a \div b <= MaxScore
    BY <2>1, Quotient, QuotientBound
  <2> QED
    BY <2>2 DEF a, b
<1>4. TokenSaved(ls, vs, v) = [ls EXCEPT ![v] = saved]
  BY Zenon DEF TokenSaved
<1>5. assets' = Append(assets, asset)
  <2>1. TokenSaved(ls, vs, v)[v].score = average
    BY <1>1 DEF TokenSaved, Listing
  <2> QED
    BY <2>1 DEF SaveToken, PushAsset
<1> HIDE DEF average
<1>6. /\ saved \in Listing /\ saved.phase = ls[v].phase
      /\ saved.accruedScore = ls[v].accruedScore
  BY <1>1, <1>3 DEF Listing
<1>7. /\ asset \in [tokenId : Nat, lastUpdate : Nat, score : Nat]
      /\ asset.score <= MaxScore
  BY <1>1, <1>3
<1> HIDE DEF saved, asset
<1>8. Sound(TokenSaved(ls, vs, v), vs, vp, n)
  <2>1. Sound([ls EXCEPT ![v] = saved], vs, vp, n)
    BY <1>6, OtherFieldsChange
  <2> QED
    BY <1>4, <2>1, Zenon
<1>9. /\ assets' \in Seq([tokenId : Nat, lastUpdate : Nat, score : Nat])
      /\ \A i \in DOMAIN assets' :
             (i \in DOMAIN assets /\ assets'[i] = assets[i]) \/ assets'[i] = asset
  <2> DEFINE Asset == [tokenId : Nat, lastUpdate : Nat, score : Nat]
  <2>1. assets \in Seq(Asset)
    BY DEF OthersTyped
  <2>2. asset \in Asset
    BY <1>7
  <2> HIDE DEF Asset
  <2>3. /\ assets' \in Seq(Asset) /\ Len(assets) \in Nat
        /\ DOMAIN assets = 1..Len(assets)
        /\ DOMAIN assets' = 1..(Len(assets) + 1)
        /\ assets'[Len(assets) + 1] = asset
        /\ \A i \in 1..Len(assets) : assets'[i] = assets[i]
    BY <1>5, <2>1, <2>2, AppendProperties, LenProperties
  <2>4. \A i \in DOMAIN assets' :
            (i \in DOMAIN assets /\ assets'[i] = assets[i]) \/ assets'[i] = asset
    BY <2>3
  <2> QED
    BY <2>3, <2>4 DEF Asset
<1>10. AssetsBounded'
  BY <1>7, <1>9 DEF AssetsBounded
<1> QED
  BY <1>8, <1>9, <1>10

LEMMA VoteValidationPreserves ==
    ASSUME ListingsInv, NEW user \in Users, NEW v \in VoteIds,
           NEW vote \in Votes, NEW score \in Nat,
           VoteValidation(user, v, vote, score)
    PROVE  ListingsInv'
<1> DEFINE vs == VotesWith(user, v, "Validation", vote)
           ls == ListingsWith(v, vote, score)
<1>1. /\ OthersTyped /\ AssetsBounded
      /\ StatusArraysTypeOK /\ StatusArraysConsistent
      /\ Typed(tokenListings, votes)
      /\ tokenListingsLength \in Nat
  BY MaxListingsAssumption DEF ListingsInv, Sound, OthersTyped
<1>2. /\ Sound(ls, vs, votesPhase', tokenListingsLength)
      /\ votesPhase' \in [Stages -> [VoteIds -> [Users -> Nat]]]
  BY CastVote DEF VoteValidation, MayVote, Stages
<1>3. /\ \/ tokenListings' = ls /\ votes' = vs
            /\ UNCHANGED <<statusVars, rewardVars>>
         \/ /\ UpdateListingStatus(ls, vs, v, "Updating")
            /\ UNCHANGED rewardVars
         \/ /\ RewardVoters(vs, v, "Accept", "Reject")
            /\ SaveToken(ls, vs, v)
            /\ UpdateListingStatus(TokenSaved(ls, vs, v), vs, v, "Validated")
         \/ /\ RewardVoters(vs, v, "Reject", "Accept")
            /\ UpdateListingStatus(ls, vs, v, "Rejected")
            /\ UNCHANGED assets
      /\ UNCHANGED <<submitVars, claimVars, ownerVars, outsideVars>>
  BY Zenon DEF VoteValidation
<1> HIDE DEF vs, ls
<1>4. /\ goodVotes' \in [Stages -> [Users -> Nat]]
      /\ badVotes' \in [Stages -> [Users -> Nat]]
      /\ owedRewards' \in [Users -> Nat]
  <2>1. CASE UNCHANGED rewardVars
    BY <1>1, <2>1 DEF OthersTyped, rewardVars
  <2>2. Typed(tokenListings, vs)
    BY <1>1, <1>2 DEF Sound, Typed
  <2>3. ASSUME NEW right \in Votes, NEW wrong \in Votes,
               RewardVoters(vs, v, right, wrong)
        PROVE  /\ goodVotes' \in [Stages -> [Users -> Nat]]
               /\ badVotes' \in [Stages -> [Users -> Nat]]
               /\ owedRewards' \in [Users -> Nat]
    BY <1>1, <2>2, <2>3, RewardsTyped
  <2> QED
    BY <1>3, <2>1, <2>3 DEF Votes
<1>5. /\ StatusArraysTypeOK' /\ StatusArraysConsistent'
      /\ Sound(tokenListings', votes', votesPhase', tokenListingsLength)
      /\ assets' \in Seq([tokenId : Nat, lastUpdate : Nat, score : Nat])
      /\ AssetsBounded'
  <2>1. CASE SaveToken(ls, vs, v)
             /\ UpdateListingStatus(TokenSaved(ls, vs, v), vs, v, "Validated")
    <3>1. /\ Sound(TokenSaved(ls, vs, v), vs, votesPhase', tokenListingsLength)
          /\ assets' \in Seq([tokenId : Nat, lastUpdate : Nat, score : Nat])
          /\ AssetsBounded'
      BY <1>1, <1>2, <2>1, SaveTokenSound
    <3>2. "Validated" \in Statuses
      BY DEF Statuses, ArrayStatuses
    <3> QED
      BY <1>1, <2>1, <3>1, <3>2, UpdateListingStatusPreserves
  <2>2. CASE /\ UNCHANGED assets
             /\ \/ tokenListings' = ls /\ votes' = vs /\ UNCHANGED statusVars
                \/ \E s \in Statuses : UpdateListingStatus(ls, vs, v, s)
    <3>1. /\ assets' \in Seq([tokenId : Nat, lastUpdate : Nat, score : Nat])
          /\ AssetsBounded'
      BY <1>1, <2>2 DEF OthersTyped, AssetsBounded
    <3>2. /\ StatusArraysTypeOK' /\ StatusArraysConsistent'
          /\ Sound(tokenListings', votes', votesPhase', tokenListingsLength)
      BY <1>1, <1>2, <2>2, ListingsStandOrMove
    <3> QED
      BY <3>1, <3>2
  <2> QED
    BY <1>3, <2>1, <2>2 DEF rewardVars, Statuses, ArrayStatuses
<1>6. OthersTyped'
  BY <1>1, <1>2, <1>3, <1>4, <1>5
     DEF OthersTyped, submitVars, claimVars, ownerVars, outsideVars
<1> QED
  BY <1>3, <1>5, <1>6 DEF ListingsInv, submitVars

-----------------------------------------------------------------------------
(* Behaviours with more calls than ListingsSpec has: whoever calls, a       *)
(* submission, top-up or update is made for some user, as _execute makes    *)
(* them on another chain's behalf.  What is proved of CallsSpec holds of    *)
(* ListingsSpec, where users call for themselves (LocalCallsAreCalls).      *)
CallsFor(caller, user, amount) ==
    \/ \E tokenId \in Nat : SubmitTokenFor(caller, user, amount, tokenId)
    \/ \E v \in VoteIds : TopUpTokenFor(caller, user, v, amount)
    \/ amount = 0 /\ \E v \in VoteIds : UpdateTokenFor(user, v)

CallStep == \E caller : \E user \in Users, amount \in Nat : CallsFor(caller, user, amount)
ClaimStep == \E user \in Users : ClaimRewards(user)

CallsNext == ListingsNext \/ CallStep
CallsSpec == ListingsInit /\ [][CallsNext]_listingsVars

(* A user's own call is a call for that user: ListingsSpec has no behaviour *)
(* that CallsSpec lacks.                                                    *)
THEOREM LocalCallsAreCalls == ListingsSpec => CallsSpec
<1>1. [ListingsNext]_listingsVars => [CallsNext]_listingsVars
  BY DEF CallsNext
<1> QED
  BY <1>1, PTL DEF ListingsSpec, CallsSpec

LEMMA CallCases ==
    ASSUME [CallsNext]_listingsVars
    PROVE  \/ CallStep \/ ClaimStep \/ VoterStep \/ OwnerStep \/ OutsideStep
           \/ UNCHANGED listingsVars
<1>1. CASE SubmitterStep
  <2>1. PaymentAmounts \subseteq Nat /\ 0..nextTokenId \subseteq Nat /\ 0 \in Nat
    BY ListingsAssumption
  <2> QED
    BY <1>1, <2>1 DEF SubmitterStep, SubmitToken, TopUpToken, UpdateToken,
                      CallStep, CallsFor, ClaimStep
<1> QED
  BY <1>1 DEF CallsNext, ListingsNext

(* What a call for a user leaves alone.                                     *)
LEMMA CallsKeep ==
    ASSUME CallStep
    PROVE  UNCHANGED <<config, whitelistedSubmitter, now, votesPhase,
                       rewardVars, claimVars>>
<1>1. ASSUME NEW caller, NEW user, NEW amount, NEW tokenId,
             SubmitTokenFor(caller, user, amount, tokenId)
      PROVE  UNCHANGED <<votesPhase, rewardVars, claimVars, ownerVars, outsideVars>>
  BY <1>1, Zenon DEF SubmitTokenFor
<1>2. ASSUME NEW caller, NEW user, NEW v, NEW amount,
             TopUpTokenFor(caller, user, v, amount)
      PROVE  UNCHANGED <<votesPhase, rewardVars, claimVars, ownerVars, outsideVars>>
  BY <1>2, Zenon DEF TopUpTokenFor
<1>3. ASSUME NEW user, NEW v, UpdateTokenFor(user, v)
      PROVE  UNCHANGED <<votesPhase, rewardVars, claimVars, ownerVars, outsideVars>>
  BY <1>3, Zenon DEF UpdateTokenFor
<1>4. UNCHANGED <<votesPhase, rewardVars, claimVars, ownerVars, outsideVars>>
  BY <1>1, <1>2, <1>3, Zenon DEF CallStep, CallsFor
<1> QED
  BY <1>4 DEF ownerVars, outsideVars

LEMMA StepPreserves ==
    ListingsInv /\ [CallsNext]_listingsVars => ListingsInv'
<1> SUFFICES ASSUME ListingsInv, [CallsNext]_listingsVars
             PROVE  ListingsInv'
  OBVIOUS
<1>1. CASE CallStep
  BY <1>1, SubmitPreserves, TopUpPreserves, UpdatePreserves
     DEF CallStep, CallsFor
<1>6. CASE ClaimStep
  BY <1>6, ClaimPreserves DEF ClaimStep
<1>2. CASE VoterStep
  <2> PICK user \in Users, v \in VoteIds, vote \in Votes, score \in Scores \cup {0} :
          \/ VoteSorting(user, v, vote, score)
          \/ VoteValidation(user, v, vote, score)
    BY <1>2 DEF VoterStep
  <2>1. score \in Nat
    BY ListingsAssumption
  <2> QED
    BY <2>1, VoteSortingPreserves, VoteValidationPreserves
<1>3. CASE OwnerStep
  <2>1. ASSUME NEW v \in VoteIds, NEW s \in OwnerMoves,
               EmergencyUpdateListingStatus(v, s)
        PROVE  ListingsInv'
    BY <2>1, ListingsAssumption, OwnerMovePreserves
  <2>2. ASSUME NEW v \in VoteIds, EmergencyKillRequest(v)
        PROVE  ListingsInv'
    BY <2>2, OwnerMovePreserves DEF EmergencyKillRequest, Statuses, ArrayStatuses
  <2> QED
    BY <1>3, <2>1, <2>2, ListingsAssumption, OwnerSettingsPreserve
       DEF OwnerStep
<1>4. CASE OutsideStep
  BY <1>4, ListingsAssumption, OutsidePreserves DEF OutsideStep
<1>5. CASE UNCHANGED listingsVars
  <2>1. OthersTyped'
    BY <1>5 DEF ListingsInv, OthersTyped, listingsVars, submitVars, rewardVars,
                claimVars, ownerVars, outsideVars
  <2> QED
    BY <1>5, <2>1, ListingsUntouched DEF listingsVars, submitVars, rewardVars
<1> QED
  BY <1>1, <1>2, <1>3, <1>4, <1>5, <1>6, CallCases

(* The invariant of every behaviour, which the theorems below rest on.      *)
LEMMA InvAlways == CallsSpec => []ListingsInv
<1>1. ListingsInit => ListingsInv
  BY ListingsInitially
<1> QED
  BY <1>1, StepPreserves, PTL DEF CallsSpec

(* For every set of users, configuration and bound: the status arrays       *)
(* partition the submitted listings, every recorded vote is by a distinct   *)
(* voter marked with the current phase, and no score exceeds five, through  *)
(* any interleaving of submissions, votes, verdicts, updates, owner moves   *)
(* and changed settings.                                                    *)
THEOREM ListingsAreSound ==
    CallsSpec =>
        [](ListingsTypeOK /\ StatusArraysConsistent /\ OneVotePerPhase
           /\ ScoresBounded)
<1> QED
  BY InvAlways, InvImpliesProperties, PTL

(* Every variable of the listings keeps its type, percentages among them.   *)
THEOREM ListingsTypes == CallsSpec => []ListingsTypeOK
<1> QED
  BY ListingsAreSound, PTL
-----------------------------------------------------------------------------
(* What one step does to the listings, read off the actions once: at most   *)
(* one listing changes, in one of five ways.  A token is saved in the same  *)
(* step in which its listing enters the array of validated listings.        *)

Stands(v) ==
    /\ status'[v] = status[v] /\ votes'[v] = votes[v]
    /\ tokenListings'[v].tokenId = tokenListings[v].tokenId
    /\ tokenListings'[v].coeff = tokenListings[v].coeff
    /\ tokenListings'[v].lastUpdate = tokenListings[v].lastUpdate
    /\ tokenListings'[v].score = tokenListings[v].score

AssetsStand ==
    assets' = assets /\ statusArrays'["Validated"] = statusArrays["Validated"]

AssetAdded(v) ==
    /\ assets' = Append(assets, [tokenId |-> tokenListings'[v].tokenId,
                                 lastUpdate |-> tokenListings'[v].lastUpdate,
                                 score |-> tokenListings'[v].score])
    /\ statusArrays'["Validated"] = Append(statusArrays["Validated"], v)

Arrives(v) ==
    /\ v = tokenListingsLength /\ tokenListingsLength' = v + 1
    /\ votes'[v] = NoVotes
    /\ status[v] # "Validated" => AssetsStand
    /\ IF tokenListings'[v].coeff < PAYMENT_COEFF
       THEN status'[v] = "Pool" ELSE status'[v] = "Sorting"
    /\ \/ /\ tokenListings'[v].tokenId = nextTokenId
          /\ nextTokenId' = nextTokenId + 1
       \/ /\ tokenListings'[v].tokenId \in 0..(nextTokenId - 1)
          /\ nextTokenId' = nextTokenId

IsToppedUp(v) ==
    /\ votes'[v] = votes[v]
    /\ tokenListings'[v].tokenId = tokenListings[v].tokenId
    /\ tokenListings'[v].coeff >= tokenListings[v].coeff
    /\ tokenListings'[v].lastUpdate = tokenListings[v].lastUpdate
    /\ tokenListings'[v].score = tokenListings[v].score
    /\ AssetsStand
    /\ IF status[v] = "Pool" /\ tokenListings'[v].coeff >= PAYMENT_COEFF
       THEN status'[v] = "Sorting" ELSE status'[v] = status[v]

IsUpdated(v) ==
    /\ status[v] = "Updating" /\ status'[v] = "Sorting"
    /\ votes'[v] = votes[v]
    /\ tokenListings'[v].tokenId = tokenListings[v].tokenId
    /\ tokenListings'[v].coeff = tokenListings[v].coeff
    /\ AssetsStand

(* The verdict on arrays is the one the vote just pushed leads to.          *)
IsVotedOn(v, st) ==
    /\ status[v] = st
    /\ tokenListings'[v].tokenId = tokenListings[v].tokenId
    /\ tokenListings'[v].coeff = tokenListings[v].coeff
    /\ tokenListings'[v].lastUpdate = tokenListings[v].lastUpdate
    /\ st = "Sorting" =>
           tokenListings[v].lastUpdate + config["voteCooldown"] <= now
    /\ \E arrays \in [Stages -> [Votes -> Seq(Users)]] :
           /\ \A t \in Stages \ {st} : arrays[t] = votes[v][t]
           /\ \/ /\ Outcome(st, arrays[st]) = "Undecided"
                 /\ status'[v] = st /\ votes'[v] = arrays /\ AssetsStand
              \/ /\ st = "Sorting" /\ Outcome(st, arrays[st]) = "Accepted"
                 /\ status'[v] = "Validation" /\ votes'[v] = arrays
                 /\ AssetsStand
              \/ /\ status'[v] \in {"Updating", "Rejected"}
                 /\ votes'[v] = NoVotes /\ AssetsStand
              \/ /\ status'[v] = "Validated"
                 /\ votes'[v] = NoVotes /\ AssetAdded(v)

IsOverridden(v) ==
    /\ OwnerMoves # {}
    /\ status'[v] # "Init"
    /\ tokenListings'[v].tokenId = tokenListings[v].tokenId
    /\ tokenListings'[v].coeff = tokenListings[v].coeff
    /\ tokenListings'[v].lastUpdate = tokenListings[v].lastUpdate
    /\ votes'[v] = IF status'[v] \in ClearingStatuses THEN NoVotes ELSE votes[v]

Changes(v) ==
    /\ v < tokenListingsLength
    /\ \/ IsToppedUp(v) \/ IsUpdated(v) \/ IsOverridden(v)
       \/ \E st \in Stages : IsVotedOn(v, st)

Effects ==
    \/ \E v \in VoteIds : Arrives(v) /\ \A w \in VoteIds \ {v} : Stands(w)
    \/ /\ UNCHANGED <<tokenListingsLength, nextTokenId>>
       /\ \/ AssetsStand /\ \A w \in VoteIds : Stands(w)
          \/ \E v \in VoteIds :
                 Changes(v) /\ \A w \in VoteIds \ {v} : Stands(w)

ListingMoved(ls, vs, v, s) ==
    /\ s # "Init" /\ status'[v] = s
    /\ votes'[v] = IF s \in ClearingStatuses THEN NoVotes ELSE vs[v]
    /\ tokenListings'[v].tokenId = ls[v].tokenId
    /\ tokenListings'[v].coeff = ls[v].coeff
    /\ tokenListings'[v].lastUpdate = ls[v].lastUpdate
    /\ tokenListings'[v].score = ls[v].score
    /\ status[v] # "Validated" =>
           statusArrays'["Validated"] =
               IF s = "Validated" THEN Append(statusArrays["Validated"], v)
                                  ELSE statusArrays["Validated"]
    /\ \A w \in VoteIds \ {v} :
           /\ status'[w] = status[w] /\ votes'[w] = vs[w]
           /\ tokenListings'[w] = ls[w]

LEMMA MoveEffect ==
    ASSUME StatusArraysTypeOK, NEW ls, NEW vs, NEW v \in VoteIds, NEW s,
           Typed(ls, vs), UpdateListingStatus(ls, vs, v, s)
    PROVE  ListingMoved(ls, vs, v, s)
<1>1. s # "Init" /\ status' = [status EXCEPT ![v] = s]
  BY DEF UpdateListingStatus, MoveListing
<1>2. /\ status'[v] = s
      /\ \A w \in VoteIds \ {v} : status'[w] = status[w]
  BY <1>1 DEF StatusArraysTypeOK
<1>3. status[v] # "Validated" =>
          statusArrays'["Validated"] =
              IF s = "Validated" THEN Append(statusArrays["Validated"], v)
                                 ELSE statusArrays["Validated"]
  <2> SUFFICES ASSUME status[v] # "Validated"
               PROVE  statusArrays'["Validated"] =
                          IF s = "Validated"
                          THEN Append(statusArrays["Validated"], v)
                          ELSE statusArrays["Validated"]
    OBVIOUS
  <2>1. statusArrays' = [ArraysWithout(v) EXCEPT ![s] = Append(@, v)]
    BY DEF UpdateListingStatus, MoveListing
  <2>2. /\ "Validated" \in DOMAIN ArraysWithout(v)
        /\ ArraysWithout(v)["Validated"] = statusArrays["Validated"]
    BY DEF ArraysWithout, StatusArraysTypeOK, ArrayStatuses
  <2> QED
    BY <2>1, <2>2
<1>4. CASE s \notin ClearingStatuses
  <2>1. tokenListings' = ls /\ votes' = vs
    BY <1>4 DEF UpdateListingStatus
  <2> QED
    BY <1>1, <1>2, <1>3, <1>4, <2>1 DEF ListingMoved
<1>5. CASE s \in ClearingStatuses
  <2>1. /\ tokenListings' = [ls EXCEPT ![v] = Cleared(@, s)]
        /\ votes' = [vs EXCEPT ![v] = NoVotes]
    BY <1>5 DEF UpdateListingStatus
  <2>2. /\ votes'[v] = NoVotes
        /\ tokenListings'[v] = Cleared(ls[v], s)
        /\ \A w \in VoteIds \ {v} :
               votes'[w] = vs[w] /\ tokenListings'[w] = ls[w]
    BY <2>1 DEF Typed
  <2>3. /\ Cleared(ls[v], s).score = ls[v].score
        /\ Cleared(ls[v], s).tokenId = ls[v].tokenId
        /\ Cleared(ls[v], s).coeff = ls[v].coeff
        /\ Cleared(ls[v], s).lastUpdate = ls[v].lastUpdate
    BY ClearedListing DEF Typed
  <2> QED
    BY <1>1, <1>2, <1>3, <1>5, <2>2, <2>3 DEF ListingMoved
<1> QED
  BY <1>4, <1>5

LEMMA SubmitEffect ==
    ASSUME ListingsInv, NEW msgSender, NEW user \in Users, NEW amount \in Nat,
           NEW tokenId \in Nat, SubmitTokenFor(msgSender, user, amount, tokenId)
    PROVE  /\ Effects
           /\ \E v \in VoteIds :
                  Arrives(v) /\ \A w \in VoteIds \ {v} : Stands(w)
<1> DEFINE v == tokenListingsLength
           coeff == SubmissionCoeff(user, amount, tokenId)
           listing == [tokenId |-> IF tokenId # 0 THEN tokenId ELSE nextTokenId,
                       lastUpdate |-> now, score |-> 0, coeff |-> coeff,
                       submitter |-> user, accruedScore |-> 0, phase |-> 1]
           ls == [tokenListings EXCEPT ![v] = listing]
           s == IF FullyPaid(coeff) THEN "Sorting" ELSE "Pool"
<1>1. /\ StatusArraysTypeOK /\ OthersTyped /\ v \in VoteIds
      /\ Typed(tokenListings, votes) /\ votes[v] = NoVotes
  <2>1. v < MaxListings
    BY Zenon DEF SubmitTokenFor
  <2>2. v \in VoteIds
    BY <2>1, MaxListingsAssumption DEF ListingsInv, OthersTyped, VoteIds
  <2> QED
    BY <2>2, MaxListingsAssumption
       DEF ListingsInv, Sound, Unused, OthersTyped, VoteIds
<1>2. /\ tokenId # 0 => tokenId < nextTokenId
      /\ tokenListingsLength' = v + 1
      /\ nextTokenId' = NextTokenId(tokenId)
  BY Zenon DEF SubmitTokenFor
<1>3. UpdateListingStatus(ls, votes, v, s) /\ UNCHANGED assets
  <2>1. UpdateListingStatus(ls, votes, v, s)
    BY Zenon DEF SubmitTokenFor
  <2>2. UNCHANGED assets
    BY DEF SubmitTokenFor, rewardVars
  <2> QED
    BY <2>1, <2>2
<1> HIDE DEF coeff
<1>4. /\ ls[v] = listing /\ \A w \in VoteIds \ {v} : ls[w] = tokenListings[w]
      /\ DOMAIN ls = VoteIds
  BY <1>1 DEF Typed
<1>5. /\ status'[v] = s /\ votes'[v] = NoVotes
      /\ status[v] # "Validated" => AssetsStand
      /\ tokenListings'[v].tokenId = listing.tokenId
      /\ tokenListings'[v].coeff = coeff
      /\ \A w \in VoteIds \ {v} :
             /\ status'[w] = status[w] /\ votes'[w] = votes[w]
             /\ tokenListings'[w] = tokenListings[w]
  <2>1. listing \in Listing /\ Typed(ls, votes)
    <3>1. coeff \in Nat
      BY <1>1, SubmissionCoeffIsNat DEF coeff
    <3>2. listing \in Listing
      BY <1>1, <3>1 DEF OthersTyped, Listing
    <3> HIDE DEF listing
    <3> QED
      BY <1>1, <3>2 DEF Typed
  <2>2. listing.coeff = coeff
    OBVIOUS
  <2> HIDE DEF ls, listing, s, v
  <2>3. ListingMoved(ls, votes, v, s)
    BY <1>1, <1>3, <2>1, MoveEffect
  <2> QED
    BY <1>1, <1>3, <1>4, <2>2, <2>3 DEF ListingMoved, AssetsStand, s
<1>6. Arrives(v)
  <2>1. coeff \in Nat /\ nextTokenId \in Nat
    BY <1>1, SubmissionCoeffIsNat DEF coeff, OthersTyped
  <2>2. IF coeff < PAYMENT_COEFF
        THEN status'[v] = "Pool" ELSE status'[v] = "Sorting"
    BY <1>5, <2>1 DEF FullyPaid, PAYMENT_COEFF
  <2>3. \/ listing.tokenId = nextTokenId /\ nextTokenId' = nextTokenId + 1
        \/ /\ listing.tokenId \in 0..(nextTokenId - 1)
           /\ nextTokenId' = nextTokenId
    BY <1>2, <2>1 DEF NextTokenId
  <2> QED
    BY <1>2, <1>5, <2>2, <2>3 DEF Arrives
<1>7. \A w \in VoteIds \ {v} : Stands(w)
  BY <1>5 DEF Stands
<1> QED
  BY <1>1, <1>6, <1>7 DEF Effects

LEMMA TopUpEffect ==
    ASSUME ListingsInv, NEW msgSender, NEW user \in Users, NEW v \in VoteIds,
           NEW amount \in Nat, TopUpTokenFor(msgSender, user, v, amount)
    PROVE  Effects /\ IsToppedUp(v) /\ \A w \in VoteIds \ {v} : Stands(w)
<1> DEFINE sum == tokenListings[v].coeff + GetCoeff(amount)
           listing == [tokenListings[v] EXCEPT !.coeff = sum]
           ls == [tokenListings EXCEPT ![v] = listing]
<1>1. /\ StatusArraysTypeOK /\ OthersTyped
      /\ Typed(tokenListings, votes) /\ tokenListings[v] \in Listing
  BY DEF ListingsInv, Sound, Typed
<1>2. GetCoeff(amount) \in Nat
  BY <1>1, PayTyped, CoeffIsNat DEF TopUpTokenFor
<1>3. sum \in Nat /\ sum >= tokenListings[v].coeff
  BY <1>1, <1>2 DEF Listing
<1>4. /\ UNCHANGED <<tokenListingsLength, nextTokenId>>
      /\ v < tokenListingsLength /\ UNCHANGED rewardVars
      /\ IF status[v] = "Pool" /\ FullyPaid(ls[v].coeff)
         THEN UpdateListingStatus(ls, votes, v, "Sorting")
         ELSE tokenListings' = ls /\ UNCHANGED <<statusVars, votes>>
  BY Zenon DEF TopUpTokenFor
<1> HIDE DEF sum
<1>5. /\ listing \in Listing /\ listing.tokenId = tokenListings[v].tokenId
      /\ listing.coeff = sum
      /\ listing.lastUpdate = tokenListings[v].lastUpdate
      /\ listing.score = tokenListings[v].score
  BY <1>1, <1>3 DEF Listing
<1> HIDE DEF listing
<1>6. /\ Typed(ls, votes) /\ ls[v] = listing
      /\ \A w \in VoteIds \ {v} : ls[w] = tokenListings[w]
  BY <1>1, <1>5 DEF Typed
<1> HIDE DEF ls
<1>7. /\ votes'[v] = votes[v]
      /\ tokenListings'[v].tokenId = listing.tokenId
      /\ tokenListings'[v].coeff = sum
      /\ tokenListings'[v].lastUpdate = listing.lastUpdate
      /\ tokenListings'[v].score = listing.score
      /\ AssetsStand
      /\ IF status[v] = "Pool" /\ sum >= PAYMENT_COEFF
         THEN status'[v] = "Sorting" ELSE status'[v] = status[v]
      /\ \A w \in VoteIds \ {v} :
             /\ status'[w] = status[w] /\ votes'[w] = votes[w]
             /\ tokenListings'[w] = tokenListings[w]
  <2>1. CASE status[v] = "Pool" /\ FullyPaid(ls[v].coeff)
    <3>1. UpdateListingStatus(ls, votes, v, "Sorting")
      BY <1>4, <2>1
    <3>2. ListingMoved(ls, votes, v, "Sorting")
      BY <1>1, <1>6, <3>1, MoveEffect
    <3> QED
      BY <1>4, <1>5, <1>6, <2>1, <3>2
         DEF ListingMoved, FullyPaid, ClearingStatuses, AssetsStand, rewardVars
  <2>2. CASE ~(status[v] = "Pool" /\ FullyPaid(ls[v].coeff))
    BY <1>4, <1>5, <1>6, <2>2
       DEF FullyPaid, statusVars, AssetsStand, rewardVars
  <2> QED
    BY <2>1, <2>2
<1>8. IsToppedUp(v) /\ \A w \in VoteIds \ {v} : Stands(w)
  BY <1>3, <1>5, <1>7 DEF IsToppedUp, Stands
<1> QED
  BY <1>4, <1>8 DEF Effects, Changes

LEMMA UpdateEffect ==
    ASSUME ListingsInv, NEW user, NEW v \in VoteIds, UpdateTokenFor(user, v)
    PROVE  Effects /\ IsUpdated(v) /\ \A w \in VoteIds \ {v} : Stands(w)
<1> DEFINE listing == [tokenListings[v] EXCEPT !.lastUpdate = now]
           ls == [tokenListings EXCEPT ![v] = listing]
<1>1. /\ StatusArraysTypeOK /\ OthersTyped
      /\ Typed(tokenListings, votes) /\ tokenListings[v] \in Listing
  BY DEF ListingsInv, Sound, Typed
<1>2. /\ status[v] = "Updating" /\ v < tokenListingsLength
      /\ UNCHANGED <<tokenListingsLength, nextTokenId, assets>>
  BY DEF UpdateTokenFor, submitVars, rewardVars
<1>3. UpdateListingStatus(ls, votes, v, "Sorting")
  BY Zenon DEF UpdateTokenFor
<1>4. /\ listing \in Listing /\ listing.tokenId = tokenListings[v].tokenId
      /\ listing.coeff = tokenListings[v].coeff
  BY <1>1 DEF Listing, OthersTyped
<1> HIDE DEF listing
<1>5. /\ Typed(ls, votes) /\ ls[v] = listing
      /\ \A w \in VoteIds \ {v} : ls[w] = tokenListings[w]
  BY <1>1, <1>4 DEF Typed
<1> HIDE DEF ls
<1>6. ListingMoved(ls, votes, v, "Sorting")
  BY <1>1, <1>3, <1>5, MoveEffect
<1>7. IsUpdated(v) /\ \A w \in VoteIds \ {v} : Stands(w)
  BY <1>2, <1>4, <1>5, <1>6
     DEF ListingMoved, IsUpdated, Stands, ClearingStatuses, AssetsStand
<1> QED
  BY <1>2, <1>7 DEF Effects, Changes

LEMMA OverrideEffect ==
    ASSUME ListingsInv, NEW v \in VoteIds, NEW s \in Statuses,
           OwnerMoves # {}, EmergencyUpdateListingStatus(v, s)
    PROVE  Effects
<1>1. /\ StatusArraysTypeOK /\ Typed(tokenListings, votes)
      /\ UpdateListingStatus(tokenListings, votes, v, s)
      /\ v < tokenListingsLength
      /\ UNCHANGED <<tokenListingsLength, nextTokenId>>
  BY DEF ListingsInv, Sound, EmergencyUpdateListingStatus, submitVars
<1>2. ListingMoved(tokenListings, votes, v, s)
  BY <1>1, MoveEffect
<1>3. IsOverridden(v) /\ \A w \in VoteIds \ {v} : Stands(w)
  BY <1>2 DEF ListingMoved, IsOverridden, Stands
<1> QED
  BY <1>1, <1>3 DEF Effects, Changes

(* Neither an accrued score nor a saved one touches what a listing is about,*)
(* or the score of a listing other than v.                                  *)
SameListings(ls, v) ==
    \A w \in VoteIds : /\ ls[w].tokenId = tokenListings[w].tokenId
                       /\ ls[w].coeff = tokenListings[w].coeff
                       /\ ls[w].lastUpdate = tokenListings[w].lastUpdate
                       /\ w # v => ls[w].score = tokenListings[w].score

LEMMA AccruedKeeps ==
    ASSUME ListingsInv, NEW v \in VoteIds, NEW vote, NEW score
    PROVE  SameListings(ListingsWith(v, vote, score), v)
<1> DEFINE sum == IF vote = "Accept" THEN tokenListings[v].accruedScore + score
                                     ELSE tokenListings[v].accruedScore
           accrued == [tokenListings[v] EXCEPT !.accruedScore = sum]
<1>1. ListingsWith(v, vote, score) = [tokenListings EXCEPT ![v] = accrued]
  BY Zenon DEF ListingsWith
<1>2. /\ accrued.tokenId = tokenListings[v].tokenId
      /\ accrued.coeff = tokenListings[v].coeff
      /\ accrued.lastUpdate = tokenListings[v].lastUpdate
      /\ tokenListings \in [VoteIds -> Listing]
  <2> HIDE DEF sum
  <2> QED
    BY DEF ListingsInv, Sound, Typed, Listing
<1> HIDE DEF accrued
<1> QED
  BY <1>1, <1>2 DEF SameListings

LEMMA SavedKeeps ==
    ASSUME NEW ls \in [VoteIds -> Listing], NEW vs, NEW v \in VoteIds,
           SameListings(ls, v)
    PROVE  SameListings(TokenSaved(ls, vs, v), v)
<1> DEFINE average == ls[v].accruedScore \div ScoresCount(vs, v)
           saved == [ls[v] EXCEPT !.score = average]
<1>1. TokenSaved(ls, vs, v) = [ls EXCEPT ![v] = saved]
  BY Zenon DEF TokenSaved
<1>2. /\ saved.tokenId = ls[v].tokenId /\ saved.coeff = ls[v].coeff
      /\ saved.lastUpdate = ls[v].lastUpdate
  <2> HIDE DEF average
  <2> QED
    BY DEF Listing
<1> HIDE DEF saved
<1> QED
  BY <1>1, <1>2 DEF SameListings

LEMMA VoteSortingEffect ==
    ASSUME ListingsInv, NEW user \in Users, NEW v \in VoteIds,
           NEW vote \in Votes, NEW score \in Nat,
           VoteSorting(user, v, vote, score)
    PROVE  Effects
<1> DEFINE vs == VotesWith(user, v, "Sorting", vote)
           ls == ListingsWith(v, vote, score)
<1>1. /\ StatusArraysTypeOK /\ OthersTyped
      /\ SameListings(ls, v) /\ status[v] = "Sorting" /\ v < tokenListingsLength
      /\ UNCHANGED <<tokenListingsLength, nextTokenId, assets>>
  BY AccruedKeeps
     DEF ListingsInv, VoteSorting, MayVote, IsOpen, submitVars, rewardVars
<1>2. Typed(ls, vs)
  BY CastVote DEF Sound, VoteSorting, MayVote, Stages
<1>3. /\ vs[v]["Validation"] = votes[v]["Validation"]
      /\ \A w \in VoteIds \ {v} : vs[w] = votes[w]
  BY DEF VotesWith, ListingsInv, Sound, Typed, Stages
<1>4. tokenListings[v].lastUpdate + config["voteCooldown"] <= now
  <2>1. /\ now >= config["voteCooldown"]
        /\ tokenListings[v].lastUpdate <= now - config["voteCooldown"]
    BY Zenon DEF VoteSorting
  <2>2. /\ now \in Nat /\ config["voteCooldown"] \in Nat
        /\ tokenListings[v].lastUpdate \in Nat
    BY DEF ListingsInv, OthersTyped, Parameters, Sound, Typed, Listing
  <2> QED
    BY <2>1, <2>2
<1>5. \/ /\ Outcome("Sorting", vs[v]["Sorting"]) = "Undecided"
         /\ tokenListings' = ls /\ votes' = vs /\ UNCHANGED statusVars
      \/ UpdateListingStatus(ls, vs, v, "Updating")
      \/ /\ Outcome("Sorting", vs[v]["Sorting"]) = "Accepted"
         /\ UpdateListingStatus(ls, vs, v, "Validation")
      \/ UpdateListingStatus(ls, vs, v, "Rejected")
  BY Zenon DEF VoteSorting, OutcomeAfter
<1> HIDE DEF vs, ls
<1>6. /\ vs[v] \in [Stages -> [Votes -> Seq(Users)]]
      /\ \A t \in Stages \ {"Sorting"} : vs[v][t] = votes[v][t]
  BY <1>2, <1>3 DEF Typed, Stages
<1>7. ASSUME NEW s, UpdateListingStatus(ls, vs, v, s)
      PROVE  ListingMoved(ls, vs, v, s)
  BY <1>1, <1>2, <1>7, MoveEffect
<1>8. IsVotedOn(v, "Sorting") /\ \A w \in VoteIds \ {v} : Stands(w)
  <2>1. CASE /\ Outcome("Sorting", vs[v]["Sorting"]) = "Undecided"
             /\ tokenListings' = ls /\ votes' = vs /\ UNCHANGED statusVars
    BY <1>1, <1>3, <1>4, <1>6, <2>1
       DEF IsVotedOn, Stands, SameListings, statusVars, AssetsStand
  <2>2. CASE /\ Outcome("Sorting", vs[v]["Sorting"]) = "Accepted"
             /\ ListingMoved(ls, vs, v, "Validation")
    BY <1>1, <1>3, <1>4, <1>6, <2>2
       DEF ListingMoved, IsVotedOn, Stands, SameListings, ClearingStatuses,
           AssetsStand
  <2>3. ASSUME NEW s \in {"Updating", "Rejected"}, ListingMoved(ls, vs, v, s)
        PROVE  IsVotedOn(v, "Sorting") /\ \A w \in VoteIds \ {v} : Stands(w)
    BY <1>1, <1>3, <1>4, <1>6, <2>3
       DEF ListingMoved, IsVotedOn, Stands, SameListings, ClearingStatuses,
           AssetsStand
  <2> QED
    BY <1>5, <1>7, <2>1, <2>2, <2>3
<1> QED
  BY <1>1, <1>8 DEF Effects, Changes, Stages

LEMMA VoteValidationEffect ==
    ASSUME ListingsInv, NEW user \in Users, NEW v \in VoteIds,
           NEW vote \in Votes, NEW score \in Nat,
           VoteValidation(user, v, vote, score)
    PROVE  Effects
<1> DEFINE vs == VotesWith(user, v, "Validation", vote)
           ls == ListingsWith(v, vote, score)
           saved == TokenSaved(ls, vs, v)
<1>1. /\ StatusArraysTypeOK /\ OthersTyped
      /\ SameListings(ls, v) /\ status[v] = "Validation" /\ v < tokenListingsLength
      /\ UNCHANGED <<tokenListingsLength, nextTokenId>>
  BY AccruedKeeps
     DEF ListingsInv, VoteValidation, MayVote, IsOpen, submitVars
<1>2. Sound(ls, vs, votesPhase', tokenListingsLength)
  BY CastVote DEF VoteValidation, MayVote, Stages
<1>3. /\ vs[v]["Sorting"] = votes[v]["Sorting"]
      /\ \A w \in VoteIds \ {v} : vs[w] = votes[w]
  BY DEF VotesWith, ListingsInv, Sound, Typed, Stages
<1>4. \/ /\ Outcome("Validation", vs[v]["Validation"]) = "Undecided"
         /\ tokenListings' = ls /\ votes' = vs
         /\ UNCHANGED <<statusVars, rewardVars>>
      \/ UpdateListingStatus(ls, vs, v, "Updating") /\ UNCHANGED rewardVars
      \/ /\ SaveToken(ls, vs, v)
         /\ UpdateListingStatus(saved, vs, v, "Validated")
      \/ UpdateListingStatus(ls, vs, v, "Rejected") /\ UNCHANGED assets
  BY Zenon DEF VoteValidation, OutcomeAfter
<1> HIDE DEF vs, ls
<1>5. Typed(ls, vs)
  BY <1>2 DEF Sound
<1>6. SaveToken(ls, vs, v) => Typed(saved, vs) /\ SameListings(saved, v)
  <2>1. SameListings(saved, v)
    BY <1>1, <1>5, SavedKeeps DEF Typed
  <2>2. SaveToken(ls, vs, v) =>
            Sound(saved, vs, votesPhase', tokenListingsLength)
    BY <1>1, <1>2, SaveTokenSound DEF ListingsInv
  <2> HIDE DEF saved
  <2> QED
    BY <2>1, <2>2 DEF Sound
<1> HIDE DEF saved
<1>7. vs[v] \in [Stages -> [Votes -> Seq(Users)]]
  BY <1>5 DEF Typed
<1>8. ASSUME NEW s \in {"Updating", "Rejected"}, UNCHANGED assets,
             UpdateListingStatus(ls, vs, v, s)
      PROVE  IsVotedOn(v, "Validation") /\ \A w \in VoteIds \ {v} : Stands(w)
  <2>1. ListingMoved(ls, vs, v, s)
    BY <1>1, <1>5, <1>8, MoveEffect
  <2> QED
    BY <1>1, <1>3, <1>7, <1>8, <2>1
       DEF ListingMoved, IsVotedOn, Stands, SameListings, ClearingStatuses, Stages,
           AssetsStand
<1>9. CASE SaveToken(ls, vs, v)
           /\ UpdateListingStatus(saved, vs, v, "Validated")
  <2>1. ListingMoved(saved, vs, v, "Validated")
    BY <1>1, <1>6, <1>9, MoveEffect
  <2>2. assets' = Append(assets, [tokenId |-> ls[v].tokenId,
                                  lastUpdate |-> ls[v].lastUpdate,
                                  score |-> saved[v].score])
    BY <1>9 DEF SaveToken, PushAsset, saved
  <2>3. /\ ls[v].tokenId = saved[v].tokenId
        /\ ls[v].lastUpdate = saved[v].lastUpdate
    BY <1>1, <1>6, <1>9 DEF SameListings
  <2>4. AssetAdded(v)
    BY <1>1, <2>1, <2>2, <2>3 DEF ListingMoved, AssetAdded
  <2>5. SameListings(saved, v)
    BY <1>6, <1>9
  <2>6. \A w \in VoteIds \ {v} : Stands(w)
    BY <1>3, <2>1, <2>5 DEF ListingMoved, Stands, SameListings
  <2>7. /\ status'[v] = "Validated" /\ votes'[v] = NoVotes
        /\ tokenListings'[v].tokenId = tokenListings[v].tokenId
        /\ tokenListings'[v].coeff = tokenListings[v].coeff
        /\ tokenListings'[v].lastUpdate = tokenListings[v].lastUpdate
    BY <2>1, <2>5 DEF ListingMoved, SameListings, ClearingStatuses
  <2>8. IsVotedOn(v, "Validation")
    BY <1>1, <1>3, <1>7, <2>4, <2>7 DEF IsVotedOn, Stages
  <2> QED
    BY <1>1, <2>6, <2>8 DEF Effects, Changes, Stages
<1>10. CASE /\ Outcome("Validation", vs[v]["Validation"]) = "Undecided"
            /\ tokenListings' = ls /\ votes' = vs
            /\ UNCHANGED <<statusVars, rewardVars>>
  <2>1. IsVotedOn(v, "Validation") /\ \A w \in VoteIds \ {v} : Stands(w)
    BY <1>1, <1>3, <1>7, <1>10
       DEF IsVotedOn, Stands, SameListings, statusVars, rewardVars, Stages,
           AssetsStand
  <2> QED
    BY <1>1, <2>1 DEF Effects, Changes, Stages
<1> QED
  BY <1>1, <1>4, <1>8, <1>9, <1>10 DEF Effects, Changes, Stages, rewardVars

LEMMA StepEffect ==
    ASSUME ListingsInv, [CallsNext]_listingsVars PROVE Effects
<1>1. CASE CallStep
  BY <1>1, SubmitEffect, TopUpEffect, UpdateEffect DEF CallStep, CallsFor
<1>6. CASE ClaimStep
  BY <1>6 DEF ClaimStep, ClaimRewards, listingVars, statusVars, submitVars,
              Effects, Stands, AssetsStand
<1>2. CASE VoterStep
  <2> PICK user \in Users, v \in VoteIds, vote \in Votes, score \in Scores \cup {0} :
          \/ VoteSorting(user, v, vote, score)
          \/ VoteValidation(user, v, vote, score)
    BY <1>2 DEF VoterStep
  <2>1. score \in Nat
    BY ListingsAssumption
  <2> QED
    BY <2>1, VoteSortingEffect, VoteValidationEffect
<1>3. CASE OwnerStep
  <2>1. ASSUME NEW v \in VoteIds, NEW s \in OwnerMoves,
               EmergencyUpdateListingStatus(v, s)
        PROVE  Effects
    BY <2>1, ListingsAssumption, OverrideEffect
  <2>2. ASSUME NEW v \in VoteIds, "Killed" \in OwnerMoves,
               EmergencyKillRequest(v)
        PROVE  Effects
    BY <2>2, ListingsAssumption, OverrideEffect DEF EmergencyKillRequest
  <2>3. ASSUME NEW p, NEW x, UpdateParameter(p, x) PROVE Effects
    BY <2>3 DEF UpdateParameter, listingVars, statusVars, submitVars, Effects,
                Stands, AssetsStand, rewardVars
  <2>4. ASSUME NEW user, NEW b, WhitelistSubmitter(user, b) PROVE Effects
    BY <2>4 DEF WhitelistSubmitter, listingVars, statusVars, submitVars,
                Effects, Stands, AssetsStand, rewardVars
  <2>5. ASSUME NEW amount, WithdrawERC20Funds(amount) PROVE Effects
    BY <2>5 DEF WithdrawERC20Funds, listingVars, statusVars, rewardVars,
                Effects, Stands, AssetsStand
  <2> QED
    BY <1>3, <2>1, <2>2, <2>3, <2>4, <2>5 DEF OwnerStep
<1>4. CASE OutsideStep
  <2>1. UNCHANGED <<listingVars, tokenListingsLength, nextTokenId, assets>>
    BY <1>4 DEF OutsideStep, Tick, RankChange, submitVars, rewardVars
  <2> QED
    BY <2>1 DEF listingVars, statusVars, Effects, Stands, AssetsStand
<1>5. CASE UNCHANGED listingsVars
  BY <1>5 DEF listingsVars, listingVars, statusVars, submitVars, rewardVars,
              Effects, Stands, AssetsStand
<1> QED
  BY <1>1, <1>2, <1>3, <1>4, <1>5, <1>6, CallCases

LEMMA SubmittedAreVoteIds ==
    ASSUME NEW n \in 0..MaxListings, NEW v \in 0..(n - 1)
    PROVE  v \in VoteIds
BY MaxListingsAssumption DEF VoteIds

LEMMA NothingCast == \A st \in Stages : VotesCast(NoVotes[st]) = 0
<1> SUFFICES ASSUME NEW st \in Stages PROVE VotesCast(NoVotes[st]) = 0
  OBVIOUS
<1>1. \A k \in Votes : NoVotes[st][k] = <<>> /\ Len(NoVotes[st][k]) = 0
  BY NoVotesTyped, EmptySeq
<1>2. /\ Len(NoVotes[st]["Accept"]) = 0 /\ Len(NoVotes[st]["Reject"]) = 0
      /\ Len(NoVotes[st]["ModificationsNeeded"]) = 0
  BY <1>1 DEF Votes
<1>3. VotesCast(NoVotes[st]) =
          Len(NoVotes[st]["Accept"]) + Len(NoVotes[st]["Reject"])
          + Len(NoVotes[st]["ModificationsNeeded"])
  BY Zenon DEF VotesCast
<1> QED
  BY <1>2, <1>3

(* A parameter the owner has no other value for keeps its value, and blocks *)
(* only get younger.                                                        *)
LEMMA SettingStands ==
    ASSUME ListingsInv, [CallsNext]_listingsVars,
           NEW p \in Parameters, Settings[p] = {}
    PROVE  config'[p] = config[p]
<1>1. \/ UNCHANGED config
      \/ \E q \in Parameters : \E x \in Settings[q] : UpdateParameter(q, x)
  <2>1. CASE CallStep
    BY <2>1, CallsKeep
  <2>6. CASE ClaimStep
    BY <2>6 DEF ClaimStep, ClaimRewards, ownerVars
  <2>2. CASE VoterStep
    BY <2>2 DEF VoterStep, VoteSorting, VoteValidation, ownerVars
  <2>3. CASE OwnerStep
    BY <2>3 DEF OwnerStep, EmergencyUpdateListingStatus, EmergencyKillRequest,
                WhitelistSubmitter, WithdrawERC20Funds, ownerVars
  <2>4. CASE OutsideStep
    BY <2>4 DEF OutsideStep, Tick, RankChange, ownerVars
  <2>5. CASE UNCHANGED listingsVars
    BY <2>5 DEF listingsVars, ownerVars
  <2> QED
    BY <2>1, <2>2, <2>3, <2>4, <2>5, <2>6, CallCases
<1>2. ASSUME NEW q \in Parameters, NEW x \in Settings[q], UpdateParameter(q, x)
      PROVE  config'[p] = config[p]
  BY <1>2 DEF UpdateParameter, ListingsInv, OthersTyped
<1> QED
  BY <1>1, <1>2

LEMMA BlocksGetYounger ==
    ASSUME ListingsInv, [CallsNext]_listingsVars
    PROVE  now' >= now
<1>1. UNCHANGED now \/ Tick
  <2>1. CASE CallStep
    BY <2>1, CallsKeep
  <2>6. CASE ClaimStep
    BY <2>6 DEF ClaimStep, ClaimRewards, outsideVars
  <2>2. CASE VoterStep
    BY <2>2 DEF VoterStep, VoteSorting, VoteValidation, outsideVars
  <2>3. CASE OwnerStep
    BY <2>3 DEF OwnerStep, EmergencyUpdateListingStatus, EmergencyKillRequest,
                UpdateParameter, WhitelistSubmitter, WithdrawERC20Funds,
                outsideVars
  <2>4. CASE OutsideStep
    BY <2>4 DEF OutsideStep, RankChange
  <2>5. CASE UNCHANGED listingsVars
    BY <2>5 DEF listingsVars, outsideVars
  <2> QED
    BY <2>1, <2>2, <2>3, <2>4, <2>5, <2>6, CallCases
<1> QED
  BY <1>1 DEF Tick, ListingsInv, OthersTyped

LEMMA TokenIdsPreserved ==
    ASSUME ListingsInv, TokenIdsAreDense, Effects PROVE TokenIdsAreDense'
<1>1. /\ tokenListingsLength \in Nat /\ nextTokenId \in Nat
      /\ Submitted \subseteq VoteIds
  BY MaxListingsAssumption DEF ListingsInv, OthersTyped, Submitted, VoteIds
<1>2. ASSUME NEW v \in VoteIds, Arrives(v),
             \A w \in VoteIds \ {v} : Stands(w)
      PROVE  TokenIdsAreDense'
  <2>1. Submitted' = Submitted \cup {v} /\ v \notin Submitted
    BY <1>1, <1>2 DEF Arrives, Submitted
  <2>2. \A w \in Submitted : tokenListings'[w].tokenId = tokenListings[w].tokenId
    BY <1>1, <1>2, <2>1 DEF Stands
  <2>3. {tokenListings'[w].tokenId : w \in Submitted'}
        = (0..(nextTokenId - 1)) \cup {tokenListings'[v].tokenId}
    BY <2>1, <2>2 DEF TokenIdsAreDense
  <2>4. (0..(nextTokenId - 1)) \cup {tokenListings'[v].tokenId}
        = 0..(nextTokenId' - 1)
    BY <1>1, <1>2 DEF Arrives
  <2> QED
    BY <2>3, <2>4 DEF TokenIdsAreDense
<1>3. CASE UNCHANGED <<tokenListingsLength, nextTokenId>>
  <2>1. ASSUME \A w \in VoteIds :
                   tokenListings'[w].tokenId = tokenListings[w].tokenId
        PROVE  TokenIdsAreDense'
    BY <1>1, <1>3, <2>1 DEF TokenIdsAreDense, Submitted
  <2>2. ASSUME NEW v \in VoteIds, Changes(v),
               \A w \in VoteIds \ {v} : Stands(w)
        PROVE  \A w \in VoteIds :
                   tokenListings'[w].tokenId = tokenListings[w].tokenId
    BY <2>2 DEF Changes, Stands, IsToppedUp, IsUpdated, IsVotedOn, IsOverridden
  <2>3. ASSUME NEW v \in VoteIds, Arrives(v) PROVE FALSE
    BY <1>1, <1>3, <2>3 DEF Arrives
  <2> QED
    BY <2>1, <2>2, <2>3 DEF Effects, Stands
<1> QED
  BY <1>2, <1>3 DEF Effects

(* Token ids are handed out without gaps, and an edit never introduces one, *)
(* whatever is submitted, edited and reverted in between.                   *)
THEOREM TokenIdsStayDense == CallsSpec => []TokenIdsAreDense
<1>1. ListingsInit => TokenIdsAreDense
  BY DEF ListingsInit, TokenIdsAreDense, Submitted
<1>2. ListingsInv /\ TokenIdsAreDense /\ [CallsNext]_listingsVars
      => TokenIdsAreDense'
  BY StepEffect, TokenIdsPreserved
<1> QED
  BY <1>1, <1>2, InvAlways, PTL DEF CallsSpec

(* With a cooldown that stands, a vote on record was cast at least that     *)
(* long after the last update of its listing, even if the owner overrides   *)
(* statuses: a listing that can be updated has no votes left.               *)
UpdatableHasNoVotes ==
    \A v \in VoteIds : status[v] = "Updating" => votes[v] = NoVotes

THEOREM VotesStayCool ==
    ASSUME Settings["voteCooldown"] = {}
    PROVE  CallsSpec => [](UpdatableHasNoVotes /\ VotesAwaitCooldown)
<1>1. VotesCast(NoVotes["Sorting"]) = 0
  BY NothingCast DEF Stages
<1>2. ListingsInit => UpdatableHasNoVotes /\ VotesAwaitCooldown
  BY <1>1 DEF ListingsInit, UpdatableHasNoVotes, VotesAwaitCooldown
<1>3. ListingsInv /\ UpdatableHasNoVotes /\ VotesAwaitCooldown
          /\ [CallsNext]_listingsVars
      => (UpdatableHasNoVotes /\ VotesAwaitCooldown)'
  <2> SUFFICES ASSUME ListingsInv, UpdatableHasNoVotes, VotesAwaitCooldown,
                      [CallsNext]_listingsVars, NEW v \in VoteIds
               PROVE  /\ status'[v] = "Updating" => votes'[v] = NoVotes
                      /\ VotesCast(votes'[v]["Sorting"]) # 0 =>
                             tokenListings'[v].lastUpdate + config'["voteCooldown"]
                             <= now'
    BY DEF UpdatableHasNoVotes, VotesAwaitCooldown
  <2>1. config'["voteCooldown"] = config["voteCooldown"]
    BY SettingStands DEF Parameters
  <2>2. now' >= now
    BY BlocksGetYounger
  <2>3. /\ now \in Nat /\ now' \in Nat /\ config["voteCooldown"] \in Nat
        /\ tokenListings[v].lastUpdate \in Nat
    BY StepPreserves
       DEF ListingsInv, OthersTyped, Parameters, Sound, Typed, Listing
  <2>4. /\ status[v] = "Updating" => votes[v] = NoVotes
        /\ VotesCast(votes[v]["Sorting"]) # 0 =>
               tokenListings[v].lastUpdate + config["voteCooldown"] <= now
    BY DEF UpdatableHasNoVotes, VotesAwaitCooldown
  <2>5. CASE Arrives(v)
    BY <1>1, <2>5 DEF Arrives
  <2>6. CASE Stands(v)
    BY <2>1, <2>2, <2>3, <2>4, <2>6 DEF Stands
  <2>7. CASE IsToppedUp(v)
    BY <2>1, <2>2, <2>3, <2>4, <2>7 DEF IsToppedUp
  <2>8. CASE IsUpdated(v)
    BY <1>1, <2>4, <2>8 DEF IsUpdated
  <2>9. ASSUME NEW st \in Stages, IsVotedOn(v, st)
        PROVE  /\ status'[v] = "Updating" => votes'[v] = NoVotes
               /\ VotesCast(votes'[v]["Sorting"]) # 0 =>
                      tokenListings'[v].lastUpdate + config'["voteCooldown"] <= now'
    <3>1. CASE st = "Sorting"
      BY <1>1, <2>1, <2>2, <2>3, <2>9, <3>1 DEF IsVotedOn, Stages
    <3>2. CASE st = "Validation"
      BY <1>1, <2>1, <2>2, <2>3, <2>4, <2>9, <3>2 DEF IsVotedOn, Stages
    <3> QED
      BY <3>1, <3>2 DEF Stages
  <2>10. CASE IsOverridden(v)
    BY <1>1, <2>1, <2>2, <2>3, <2>4, <2>10 DEF IsOverridden, ClearingStatuses
  <2> QED
    BY <2>5, <2>6, <2>7, <2>8, <2>9, <2>10, StepEffect DEF Effects, Changes
<1> QED
  BY <1>2, <1>3, InvAlways, PTL DEF CallsSpec

(* If the owner overrides no status, a listing waits in the pool exactly as *)
(* long as it is not fully paid, however payments and votes are mixed.      *)
THEOREM PoolIsForUnderpaid ==
    ASSUME OwnerMoves = {}
    PROVE  CallsSpec => []PooledWhileUnderpaid
<1>1. ListingsInit => PooledWhileUnderpaid
  BY DEF ListingsInit, PooledWhileUnderpaid, Submitted
<1>2. ListingsInv /\ PooledWhileUnderpaid /\ [CallsNext]_listingsVars
      => PooledWhileUnderpaid'
  <2> SUFFICES ASSUME ListingsInv, PooledWhileUnderpaid,
                      [CallsNext]_listingsVars, NEW v \in Submitted'
               PROVE  status'[v] = "Pool"
                      <=> tokenListings'[v].coeff < PAYMENT_COEFF
    BY DEF PooledWhileUnderpaid
  <2>1. /\ v \in VoteIds /\ ListingsInv'
        /\ tokenListingsLength \in Nat
        /\ tokenListings[v].coeff \in Nat /\ tokenListings'[v].coeff \in Nat
    <3>1. ListingsInv'
      BY StepPreserves
    <3>2. /\ tokenListingsLength \in Nat /\ tokenListingsLength' \in 0..MaxListings
          /\ Typed(tokenListings, votes) /\ Typed(tokenListings, votes)'
      BY <3>1, MaxListingsAssumption DEF ListingsInv, OthersTyped, Sound
    <3>3. v \in VoteIds
      BY <3>2, SubmittedAreVoteIds DEF Submitted
    <3>4. tokenListings[v] \in Listing /\ tokenListings'[v] \in Listing
      BY <3>2, <3>3 DEF Typed
    <3> QED
      BY <3>1, <3>2, <3>3, <3>4 DEF Listing
  <2>2. CASE Arrives(v)
    BY <2>1, <2>2 DEF Arrives, PAYMENT_COEFF
  <2>3. ASSUME v \in Submitted, Stands(v) \/ Changes(v)
        PROVE  status'[v] = "Pool" <=> tokenListings'[v].coeff < PAYMENT_COEFF
    <3>1. status[v] = "Pool" <=> tokenListings[v].coeff < PAYMENT_COEFF
      BY <2>3 DEF PooledWhileUnderpaid
    <3>2. CASE IsToppedUp(v)
      BY <2>1, <3>1, <3>2 DEF IsToppedUp, PAYMENT_COEFF
    <3>3. ASSUME NEW st \in Stages, IsVotedOn(v, st)
          PROVE  status'[v] = "Pool" <=> tokenListings'[v].coeff < PAYMENT_COEFF
      BY <3>1, <3>3 DEF IsVotedOn, Stages
    <3> QED
      BY <2>3, <3>1, <3>2, <3>3 DEF Stands, Changes, IsUpdated, IsOverridden
  <2>4. ASSUME ~Arrives(v)
        PROVE  v \in Submitted /\ (Stands(v) \/ Changes(v))
    <3>1. CASE UNCHANGED <<tokenListingsLength, nextTokenId>>
      BY <2>1, <2>4, <3>1, StepEffect DEF Effects, Submitted
    <3>2. ASSUME NEW w \in VoteIds, Arrives(w),
                 \A x \in VoteIds \ {w} : Stands(x)
          PROVE  v \in Submitted /\ Stands(v)
      BY <2>1, <2>4, <3>2 DEF Arrives, Submitted
    <3> QED
      BY <3>1, <3>2, StepEffect DEF Effects
  <2> QED
    BY <2>2, <2>3, <2>4
<1> QED
  BY <1>1, <1>2, InvAlways, PTL DEF CallsSpec

-----------------------------------------------------------------------------
(* Verdicts.  The thresholds stand at their deployed values, and a stage    *)
(* cannot be decided by no votes at all.                                    *)

Thresholds ==
    Percentages \cup {"sortingMaxVotes", "validationMaxVotes"}

ThresholdsStand == \A p \in Thresholds : Settings[p] = {}

VerdictsNeedVotes ==
    \A p \in {"sortingMaxVotes", "validationMaxVotes",
              "sortingMinModificationsPct", "validationMinModificationsPct"} :
        InitialConfig[p] # 0

ThresholdsAsDeployed == \A p \in Thresholds : config[p] = InitialConfig[p]

(* What the vote arrays of a listing may hold in each status.               *)
ArraysFit(st, arrays) ==
    /\ st \notin Stages => arrays = NoVotes
    /\ st = "Sorting" =>
           /\ arrays["Validation"] = NoVotes["Validation"]
           /\ Outcome("Sorting", arrays["Sorting"]) = "Undecided"
    /\ st = "Validation" =>
           /\ Outcome("Sorting", arrays["Sorting"]) = "Accepted"
           /\ Outcome("Validation", arrays["Validation"]) = "Undecided"

VerdictsInv ==
    ThresholdsAsDeployed /\ \A v \in VoteIds : ArraysFit(status[v], votes[v])

LEMMA OutcomeStands ==
    ASSUME ThresholdsAsDeployed, ThresholdsAsDeployed', NEW arrays
    PROVE  \A st \in Stages : Outcome(st, arrays)' = Outcome(st, arrays)
<1>1. \A p \in Thresholds : config'[p] = config[p]
  BY DEF ThresholdsAsDeployed
<1>2. \A st \in Stages :
          /\ MaxVotes(st)' = MaxVotes(st)
          /\ MinAcceptancesPct(st)' = MinAcceptancesPct(st)
          /\ MinModificationsPct(st)' = MinModificationsPct(st)
  BY <1>1 DEF Thresholds, Percentages, Stages, MaxVotes, MinAcceptancesPct,
              MinModificationsPct
<1> QED
  BY <1>2, Zenon DEF Outcome

LEMMA NoVotesUndecided ==
    ASSUME VerdictsNeedVotes, ThresholdsAsDeployed
    PROVE  \A st \in Stages : Outcome(st, NoVotes[st]) = "Undecided"
<1> SUFFICES ASSUME NEW st \in Stages
             PROVE  Outcome(st, NoVotes[st]) = "Undecided"
  OBVIOUS
<1> DEFINE max == MaxVotes(st)
           pct == MinModificationsPct(st)
<1>1. max \in Nat \ {0} /\ pct \in Nat \ {0}
  BY ListingsAssumption
     DEF VerdictsNeedVotes, ThresholdsAsDeployed, Thresholds, Percentages,
         Parameters, Stages, MaxVotes, MinModificationsPct
<1>2. Len(NoVotes[st]["ModificationsNeeded"]) = 0
  BY NoVotesTyped, EmptySeq DEF Votes
<1>3. VotesCast(NoVotes[st]) = 0
  BY NothingCast
<1>4. max * pct > 0
  <2> HIDE DEF max, pct
  <2> QED
    BY <1>1
<1>5. ~(0 * 100 >= max * pct) /\ 0 < max
  <2> HIDE DEF max, pct
  <2> QED
    BY <1>1, <1>4
<1> HIDE DEF max, pct
<1> QED
  BY <1>2, <1>3, <1>5 DEF Outcome, max, pct

LEMMA VerdictsInvAlways ==
    ASSUME OwnerMoves = {}, ThresholdsStand, VerdictsNeedVotes
    PROVE  CallsSpec => []VerdictsInv
<1>1. ListingsInit => VerdictsInv
  <2> SUFFICES ASSUME ListingsInit PROVE VerdictsInv
    OBVIOUS
  <2>1. ThresholdsAsDeployed
    BY DEF ListingsInit, ThresholdsAsDeployed
  <2> QED
    BY <2>1 DEF ListingsInit, StatusArraysInit, VerdictsInv, ArraysFit, Stages
<1>2. ListingsInv /\ VerdictsInv /\ [CallsNext]_listingsVars => VerdictsInv'
  <2> SUFFICES ASSUME ListingsInv, VerdictsInv, [CallsNext]_listingsVars
               PROVE  VerdictsInv'
    OBVIOUS
  <2>1. ThresholdsAsDeployed /\ ThresholdsAsDeployed'
    <3>1. Thresholds \subseteq Parameters
      BY DEF Thresholds, Parameters
    <3> QED
      BY <3>1, SettingStands
         DEF VerdictsInv, ThresholdsAsDeployed, ThresholdsStand
  <2>2. \A st \in Stages : Outcome(st, NoVotes[st]) = "Undecided"
    BY <2>1, NoVotesUndecided
  <2>3. ASSUME NEW v \in VoteIds PROVE ArraysFit(status'[v], votes'[v])
    <3>1. ArraysFit(status[v], votes[v])
      BY DEF VerdictsInv
    <3>2. ArraysFit("Sorting", NoVotes) /\ ArraysFit("Pool", NoVotes)
      BY <2>2 DEF ArraysFit, Stages
    <3>3. CASE Arrives(v)
      BY <3>2, <3>3 DEF Arrives
    <3>4. CASE Stands(v)
      BY <3>1, <3>4 DEF Stands
    <3>5. CASE IsToppedUp(v) \/ IsUpdated(v)
      <4>1. \/ status'[v] = status[v] /\ votes'[v] = votes[v]
            \/ /\ status[v] \in {"Pool", "Updating"}
               /\ status'[v] = "Sorting" /\ votes'[v] = votes[v]
        BY <3>5 DEF IsToppedUp, IsUpdated
      <4>2. status[v] \in {"Pool", "Updating"} => votes[v] = NoVotes
        BY <3>1 DEF ArraysFit, Stages
      <4> QED
        BY <3>1, <3>2, <4>1, <4>2
    <3>6. CASE IsVotedOn(v, "Sorting")
      BY <2>2, <3>1, <3>6 DEF IsVotedOn, ArraysFit, Stages
    <3>7. CASE IsVotedOn(v, "Validation")
      BY <3>1, <3>7 DEF IsVotedOn, ArraysFit, Stages
    <3> QED
      BY <3>3, <3>4, <3>5, <3>6, <3>7, StepEffect
         DEF Effects, Changes, IsOverridden, Stages
  <2>4. \A st, arrays : ArraysFit(st, arrays)' = ArraysFit(st, arrays)
    BY <2>1, OutcomeStands DEF ArraysFit, Stages
  <2> QED
    BY <2>1, <2>3, <2>4 DEF VerdictsInv
<1> QED
  BY <1>1, <1>2, InvAlways, PTL DEF CallsSpec

(* While thresholds stand and the owner overrides no status, the vote that  *)
(* completes a verdict also closes the stage.                               *)
THEOREM NoVerdictIsOverdue ==
    ASSUME OwnerMoves = {}, ThresholdsStand, VerdictsNeedVotes
    PROVE  CallsSpec => []NoOverdueVerdict
<1>1. VerdictsInv => NoOverdueVerdict
  BY DEF VerdictsInv, ArraysFit, NoOverdueVerdict, Stages
<1> QED
  BY <1>1, VerdictsInvAlways, PTL

(* Under the same conditions a Validation vote rests on an accepted Sorting *)
(* vote whose arrays are still there to be rewarded.                        *)
THEOREM ValidationFollowsSorting ==
    ASSUME OwnerMoves = {}, ThresholdsStand, VerdictsNeedVotes
    PROVE  CallsSpec => []ValidationRestsOnSorting
<1>1. VerdictsInv => ValidationRestsOnSorting
  <2> SUFFICES ASSUME VerdictsInv, NEW v \in VoteIds
               PROVE  /\ status[v] = "Validation" =>
                             Outcome("Sorting", votes[v]["Sorting"]) = "Accepted"
                      /\ status[v] # "Validation" =>
                             VotesCast(votes[v]["Validation"]) = 0
    BY DEF ValidationRestsOnSorting
  <2>1. ArraysFit(status[v], votes[v])
    BY DEF VerdictsInv
  <2>2. VotesCast(NoVotes["Validation"]) = 0
    BY NothingCast DEF Stages
  <2> QED
    BY <2>1, <2>2 DEF ArraysFit, Stages
<1> QED
  BY <1>1, VerdictsInvAlways, PTL

-----------------------------------------------------------------------------
(* Saved tokens.  A validated listing keeps its details and score unless    *)
(* the owner overrides its status, and the API and the array of validated   *)
(* listings grow together.                                                  *)

FreshIsInit == \A v \in VoteIds : v >= tokenListingsLength => status[v] = "Init"

SavedInv ==
    /\ FreshIsInit
    /\ Len(assets) = Len(statusArrays["Validated"])
    /\ \A i \in DOMAIN assets :
           LET listing == tokenListings[statusArrays["Validated"][i]]
           IN  assets[i] = [tokenId |-> listing.tokenId,
                            lastUpdate |-> listing.lastUpdate,
                            score |-> listing.score]

LEMMA FreshStays ==
    ASSUME ListingsInv, FreshIsInit, [CallsNext]_listingsVars
    PROVE  FreshIsInit'
<1> SUFFICES ASSUME NEW w \in VoteIds, w >= tokenListingsLength'
             PROVE  status'[w] = "Init"
  BY DEF FreshIsInit
<1>1. tokenListingsLength \in Nat
  BY MaxListingsAssumption DEF ListingsInv, OthersTyped
<1>2. ASSUME NEW v \in VoteIds, Arrives(v), \A x \in VoteIds \ {v} : Stands(x)
      PROVE  status'[w] = "Init"
  BY <1>1, <1>2 DEF Arrives, Stands, FreshIsInit, VoteIds
<1>3. CASE UNCHANGED <<tokenListingsLength, nextTokenId>>
  BY <1>1, <1>2, <1>3, StepEffect
     DEF Effects, Changes, Stands, FreshIsInit, VoteIds
<1> QED
  BY <1>2, <1>3, StepEffect DEF Effects

(* If the owner overrides no status, the tokens saved in the API are those  *)
(* of the validated listings, one asset each and in the same order, however *)
(* often a save reverts or the API stops accepting calls.                   *)
THEOREM AssetsFollowValidated ==
    ASSUME OwnerMoves = {}
    PROVE  CallsSpec => []AssetsMatchValidated
<1>1. ListingsInit => SavedInv
  <2> SUFFICES ASSUME ListingsInit PROVE SavedInv
    OBVIOUS
  <2>1. assets = <<>> /\ statusArrays["Validated"] = <<>>
    BY DEF ListingsInit, StatusArraysInit, ArrayStatuses
  <2>2. FreshIsInit
    BY DEF ListingsInit, StatusArraysInit, FreshIsInit
  <2> QED
    BY <2>1, <2>2, EmptySeq DEF SavedInv
<1>2. ListingsInv /\ SavedInv /\ [CallsNext]_listingsVars => SavedInv'
  <2> SUFFICES ASSUME ListingsInv, SavedInv, [CallsNext]_listingsVars
               PROVE  SavedInv'
    OBVIOUS
  <2> DEFINE array == statusArrays["Validated"]
             AssetOf(v) == [tokenId |-> tokenListings[v].tokenId,
                            lastUpdate |-> tokenListings[v].lastUpdate,
                            score |-> tokenListings[v].score]
             NewAssetOf(v) == [tokenId |-> tokenListings'[v].tokenId,
                               lastUpdate |-> tokenListings'[v].lastUpdate,
                               score |-> tokenListings'[v].score]
  <2>1. FreshIsInit'
    BY FreshStays DEF SavedInv
  <2>2. /\ array \in Seq(VoteIds)
        /\ assets \in Seq([tokenId : Nat, lastUpdate : Nat, score : Nat])
        /\ Len(assets) = Len(array)
        /\ DOMAIN assets = 1..Len(array) /\ DOMAIN array = 1..Len(array)
        /\ \A i \in 1..Len(array) : assets[i] = AssetOf(array[i])
    <3>1. /\ array \in Seq(VoteIds)
          /\ assets \in Seq([tokenId : Nat, lastUpdate : Nat, score : Nat])
      BY DEF ListingsInv, OthersTyped, StatusArraysTypeOK, ArrayStatuses
    <3>2. /\ Len(assets) = Len(array)
          /\ DOMAIN assets = 1..Len(assets) /\ DOMAIN array = 1..Len(array)
      BY <3>1, LenProperties DEF SavedInv
    <3> QED
      BY <3>1, <3>2 DEF SavedInv
  <2>3. \A i \in 1..Len(array) :
            array[i] \in VoteIds /\ status[array[i]] = "Validated"
    BY <2>2, ElementOfSeq
       DEF ListingsInv, StatusArraysConsistent, ArraysHoldTheirStatus,
           ArrayStatuses
  <2>4. ASSUME NEW w \in VoteIds, status[w] = "Validated",
               Stands(w) \/ Changes(w)
        PROVE  NewAssetOf(w) = AssetOf(w)
    BY <2>4 DEF Stands, Changes, IsToppedUp, IsUpdated, IsVotedOn,
                IsOverridden, Stages
  <2>5. ASSUME NEW v \in VoteIds, Arrives(v) PROVE status[v] = "Init"
    BY <2>5, MaxListingsAssumption
       DEF Arrives, SavedInv, FreshIsInit, ListingsInv, OthersTyped
  <2>6. \A i \in 1..Len(array) : NewAssetOf(array[i]) = AssetOf(array[i])
    <3> SUFFICES ASSUME NEW w \in VoteIds, status[w] = "Validated"
                 PROVE  Stands(w) \/ Changes(w)
      BY <2>3, <2>4
    <3> QED
      BY <2>5, StepEffect DEF Effects
  <2>7. \/ AssetsStand
        \/ \E v \in VoteIds : AssetAdded(v)
    BY <2>5, StepEffect
       DEF Effects, Changes, IsToppedUp, IsUpdated, IsVotedOn, IsOverridden,
           Arrives
  <2>8. /\ Len(assets') = Len(statusArrays'["Validated"])
        /\ \A i \in DOMAIN assets' :
               assets'[i] = NewAssetOf(statusArrays'["Validated"][i])
    <3>1. CASE AssetsStand
      <4>1. assets' = assets /\ statusArrays'["Validated"] = array
        BY <3>1 DEF AssetsStand
      <4> HIDE DEF array, AssetOf, NewAssetOf
      <4> QED
        BY <2>2, <2>6, <4>1
    <3>2. ASSUME NEW v \in VoteIds, AssetAdded(v)
          PROVE  /\ Len(assets') = Len(statusArrays'["Validated"])
                 /\ \A i \in DOMAIN assets' :
                        assets'[i] = NewAssetOf(statusArrays'["Validated"][i])
      <4>1. /\ assets' = Append(assets, NewAssetOf(v))
            /\ statusArrays'["Validated"] = Append(array, v)
        BY <3>2 DEF AssetAdded
      <4>2. NewAssetOf(v) \in [tokenId : Nat, lastUpdate : Nat, score : Nat]
        <5>1. tokenListings' \in [VoteIds -> Listing]
          BY StepPreserves DEF ListingsInv, Sound, Typed
        <5> QED
          BY <5>1 DEF Listing
      <4> DEFINE Asset == [tokenId : Nat, lastUpdate : Nat, score : Nat]
      <4> HIDE DEF array, AssetOf, NewAssetOf, Asset
      <4>3. /\ Len(assets') = Len(array) + 1
            /\ DOMAIN assets' = 1..(Len(array) + 1)
            /\ assets'[Len(array) + 1] = NewAssetOf(v)
            /\ \A i \in 1..Len(array) : assets'[i] = assets[i]
        BY <2>2, <4>1, <4>2, AppendProperties, LenProperties DEF Asset
      <4>4. /\ Len(statusArrays'["Validated"]) = Len(array) + 1
            /\ statusArrays'["Validated"][Len(array) + 1] = v
            /\ \A i \in 1..Len(array) :
                   statusArrays'["Validated"][i] = array[i]
        BY <2>2, <4>1, AppendProperties
      <4>5. Len(array) \in Nat
        BY <2>2, LenProperties
      <4>6. ASSUME NEW i \in 1..Len(array)
            PROVE  assets'[i] = NewAssetOf(statusArrays'["Validated"][i])
        <5>1. assets'[i] = NewAssetOf(array[i])
          BY <2>2, <2>6, <4>3
        <5>2. statusArrays'["Validated"][i] = array[i]
          BY <4>4
        <5> QED
          BY <5>1, <5>2 DEF NewAssetOf
      <4>7. assets'[Len(array) + 1]
            = NewAssetOf(statusArrays'["Validated"][Len(array) + 1])
        BY <4>3, <4>4 DEF NewAssetOf
      <4>8. \A i \in DOMAIN assets' : i \in 1..Len(array) \/ i = Len(array) + 1
        BY <4>3, <4>5
      <4> QED
        BY <4>3, <4>4, <4>6, <4>7, <4>8
    <3> QED
      BY <2>7, <3>1, <3>2
  <2> QED
    BY <2>1, <2>8 DEF SavedInv
<1>3. SavedInv => AssetsMatchValidated
  BY DEF SavedInv, AssetsMatchValidated
<1> QED
  BY <1>1, <1>2, <1>3, InvAlways, PTL DEF CallsSpec

=============================================================================
