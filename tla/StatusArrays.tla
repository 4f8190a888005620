---------------------------- MODULE StatusArrays ----------------------------
(***************************************************************************)
(* The index of listings by status kept by _updateListingStatus in         *)
(* src/src/MobulaTokensProtocol.sol: one storage array of vote ids for     *)
(* each status, and in every listing its status and its position in the    *)
(* array of that status.  A listing leaves an array by having the last     *)
(* element moved into its place (swap and pop).                            *)
(*                                                                         *)
(* Vote ids count from 0 as in the code.                                   *)
(***************************************************************************)
EXTENDS Arrays

CONSTANT MaxListings        \* bound: listings ever submitted

ASSUME MaxListingsAssumption == MaxListings \in Nat

VoteIds == 0..(MaxListings - 1)

(* ListingStatus without Init: the statuses that have a storage array. *)
ArrayStatuses ==
    {"Pool", "Updating", "Sorting", "Validation", "Validated", "Rejected",
     "Killed"}

(* Init is the zero value of the enum: the status of a listing that has     *)
(* just been pushed, and of storage no listing uses yet.                    *)
Statuses == ArrayStatuses \cup {"Init"}

VARIABLES
    status,           \* vote id -> listing.status
    statusIndex,      \* vote id -> listing.statusIndex
    statusArrays      \* status -> poolListings, updatingListings, ...

statusVars == <<status, statusIndex, statusArrays>>

StatusArraysInit ==
    /\ status = [v \in VoteIds |-> "Init"]
    /\ statusIndex = [v \in VoteIds |-> 0]
    /\ statusArrays = [s \in ArrayStatuses |-> <<>>]

(* The arrays and indices once listing v has left its current array. *)
FromArray(v) == statusArrays[status[v]]

ArraysWithout(v) ==
    IF status[v] = "Init"
    THEN statusArrays
    ELSE [statusArrays EXCEPT ![status[v]] = SwapAndPop(@, statusIndex[v])]

(* Mutant: the listing moved into the gap keeps its old position. *)
IndicesUnmoved(v) == statusIndex

IndicesWithout(v) ==
    IF status[v] = "Init"
    THEN statusIndex
    ELSE [statusIndex EXCEPT ![LastOf(FromArray(v))] = statusIndex[v]]

(* _updateListingStatus(v, s) as far as the index goes.  Init is never a    *)
(* target, and Pool only for a listing that is being submitted.             *)
MoveListing(v, s) ==
    /\ s # "Init"
    /\ status[v] # "Init" => s # "Pool"
    /\ statusArrays' = [ArraysWithout(v) EXCEPT ![s] = Append(@, v)]
    /\ statusIndex' = [IndicesWithout(v) EXCEPT ![v] = Len(ArraysWithout(v)[s])]
    /\ status' = [status EXCEPT ![v] = s]

StatusArraysNext == \E v \in VoteIds, s \in Statuses : MoveListing(v, s)

StatusArraysSpec == StatusArraysInit /\ [][StatusArraysNext]_statusVars

-----------------------------------------------------------------------------
(* Properties *)

StatusArraysTypeOK ==
    /\ status \in [VoteIds -> Statuses]
    /\ statusIndex \in [VoteIds -> Nat]
    /\ statusArrays \in [ArrayStatuses -> Seq(VoteIds)]

(* Every submitted listing is found in the array of its own status at the   *)
(* position it remembers.                                                   *)
ListedWhereRemembered ==
    \A v \in VoteIds :
        status[v] # "Init" =>
            /\ statusIndex[v] < Len(statusArrays[status[v]])
            /\ statusArrays[status[v]][statusIndex[v] + 1] = v

(* Every array holds only listings of its status, each at the position it   *)
(* remembers: no listing is in two arrays, or twice in one.                 *)
ArraysHoldTheirStatus ==
    \A s \in ArrayStatuses : \A i \in 1..Len(statusArrays[s]) :
        /\ status[statusArrays[s][i]] = s
        /\ statusIndex[statusArrays[s][i]] + 1 = i

(* The arrays partition the submitted listings, whatever order swap-and-pop *)
(* moves happen in: getTokenListingsWithStatus returns exactly the listings *)
(* with a status, and the next move removes the right element.              *)
StatusArraysConsistent == ListedWhereRemembered /\ ArraysHoldTheirStatus

=============================================================================
