------------------------------- MODULE Arrays -------------------------------
(***************************************************************************)
(* How the contracts take an element out of a storage array: the last      *)
(* element is written over it, then the array is popped.  It is spelled    *)
(* out wherever it is used: _updateListingStatus in                        *)
(* src/src/MobulaTokensProtocol.sol, removeStaker in src/src/Staking.sol,  *)
(* the verdicts and emergencyKillRequest in src/src/ProtocolProxy.sol.     *)
(*                                                                         *)
(* Positions count from 0 as in the code; the arrays are sequences, so     *)
(* position i is element i + 1.                                            *)
(***************************************************************************)
EXTENDS Integers, Sequences, SequencesExt

LastOf(array) == array[Len(array)]

(* Mutant: the array is popped without saving its last element. *)
PopOnly(array, position) == Front(array)

SwapAndPop(array, position) ==
    Front([array EXCEPT ![position + 1] = LastOf(array)])

=============================================================================
