------------------------ MODULE MobulaTokensProtocol ------------------------
(***************************************************************************)
(* The contract of src/src/MobulaTokensProtocol.sol: its listings and its  *)
(* hierarchy run side by side and share the ranks, which the hierarchy     *)
(* changes and the votes on listings read.  Listings was checked against   *)
(* ranks that move by one at any moment; here they move only as promote    *)
(* and demote allow.                                                       *)
(***************************************************************************)
EXTENDS Listings, Hierarchy

tallyVars == <<promoteVotes, demoteVotes, members, votesNeeded>>

protocolVars == <<listingsVars, tallyVars>>

ProtocolInit == ListingsInit /\ HierarchyInit

ListingsStep ==
    /\ SubmitterStep \/ VoterStep \/ OwnerStep \/ Tick
    /\ UNCHANGED tallyVars

(* Hierarchy left to its voters; the owner's overrides are checked in       *)
(* Hierarchy by itself.                                                     *)
HierarchyStep ==
    /\ VoteStep
    /\ UNCHANGED <<listingVars, submitVars, votesPhase, rewardVars, claimVars,
                   ownerVars, now>>

ProtocolNext == ListingsStep \/ HierarchyStep

ProtocolSpec == ProtocolInit /\ [][ProtocolNext]_protocolVars

-----------------------------------------------------------------------------
(* Properties *)

(* A vote is cast by a user who holds the rank it asks for at that moment,  *)
(* so a demotion takes effect on every open vote at once, while the votes   *)
(* cast before it stay on record and keep the listing moving: nothing but   *)
(* the listing's own verdict removes them.                                  *)
RecordedBy(u, v, st) == \E k \in Votes : u \in ToSet(votes[v][st][k])
VotesOutliveRanks ==
    [][\A v \in VoteIds, st \in Stages, u \in Users :
          /\ RecordedBy(u, v, st)' /\ ~RecordedBy(u, v, st) =>
                 rank[u] >= RankNeeded(st)
          /\ RecordedBy(u, v, st) /\ ~RecordedBy(u, v, st)' =>
                 /\ status'[v] # status[v]
                 /\ rank' = rank]_protocolVars

(* The contract implements Listings as it was checked by itself: promote    *)
(* and demote move one rank at a time, within 0..2, and touch nothing of a  *)
(* listing.                                                                 *)
ImplementsListings == ListingsSpec

=============================================================================
