--------------------------- MODULE ListingBallots ---------------------------
(***************************************************************************)
(* What the listing process promises, without phases, arrays or indices:   *)
(* every listing has two ballots, in each a user is counted at most once,  *)
(* a ballot is decided by the first vote that fills it, and a decided      *)
(* Validation ballot pays every voter who was right, once, in both ballots *)
(* the decision rests on.  Listings implements this specification as long  *)
(* as the owner neither moves listings nor changes the thresholds.         *)
(***************************************************************************)
EXTENDS Naturals, FiniteSets

CONSTANTS
    Users, VoteIds,
    VotesToDecide,       \* stage -> votes that fill the ballot
    AcceptancesPct,      \* stage -> percentage of acceptances needed
    ModificationsPct,    \* stage -> percentage that sends a listing back
    FullCoeff            \* coefficient that opens the Sorting ballot

Stages == {"Sorting", "Validation"}
Votes == {"Accept", "Reject", "ModificationsNeeded"}

VARIABLES
    status,              \* vote id -> status
    coeff,               \* vote id -> coefficient of the rewards
    ballots,             \* vote id -> stage -> user -> vote or "None"
    owed                 \* user -> rewards not yet claimed

ballotVars == <<status, coeff, ballots, owed>>

NoBallots == [st \in Stages |-> [u \in Users |-> "None"]]

Init ==
    /\ status = [v \in VoteIds |-> "Init"]
    /\ coeff = [v \in VoteIds |-> 0]
    /\ ballots = [v \in VoteIds |-> NoBallots]
    /\ owed = [u \in Users |-> 0]

StatusFor(c) == IF c >= FullCoeff THEN "Sorting" ELSE "Pool"

Submit(v) ==
    /\ status[v] = "Init"
    /\ coeff' = [coeff EXCEPT ![v] = coeff'[v]]
    /\ status' = [status EXCEPT ![v] = StatusFor(coeff'[v])]
    /\ UNCHANGED <<ballots, owed>>

Fund(v) ==
    /\ status[v] # "Init"
    /\ coeff' = [coeff EXCEPT ![v] = coeff'[v]]
    /\ coeff'[v] >= coeff[v]
    /\ status' = IF status[v] = "Pool"
                 THEN [status EXCEPT ![v] = StatusFor(coeff'[v])]
                 ELSE status
    /\ UNCHANGED <<ballots, owed>>

Resubmit(v) ==
    /\ status[v] = "Updating"
    /\ status' = [status EXCEPT ![v] = "Sorting"]
    /\ UNCHANGED <<coeff, ballots, owed>>

Voters(ballot, vote) == {u \in Users : ballot[u] = vote}
Turnout(ballot) == {u \in Users : ballot[u] # "None"}

(* n of the votes that fill the ballot reach a percentage. *)
Reaches(st, n, pct) == n * 100 >= VotesToDecide[st] * pct

Modified(st, ballot) ==
    Reaches(st, Cardinality(Voters(ballot, "ModificationsNeeded")),
            ModificationsPct[st])
Filled(st, ballot) == Cardinality(Turnout(ballot)) >= VotesToDecide[st]
Accepted(st, ballot) ==
    Reaches(st, Cardinality(Voters(ballot, "Accept")), AcceptancesPct[st])

(* Rewards of a listing whose voters of one kind were right. *)
Reward(b, v, u, right) ==
    coeff[v] * ((IF b["Sorting"][u] = right THEN 1 ELSE 0)
                + (IF b["Validation"][u] = right THEN 2 ELSE 0))

Settle(b, v, right) == owed' = [u \in Users |-> owed[u] + Reward(b, v, u, right)]

Close(v, s) ==
    /\ status' = [status EXCEPT ![v] = s]
    /\ ballots' = [ballots EXCEPT ![v] = NoBallots]

Cast(u, v, st, vote) ==
    LET b == [ballots[v] EXCEPT ![st][u] = vote]
    IN  /\ status[v] = st
        /\ ballots[v][st][u] = "None"
        /\ UNCHANGED coeff
        /\ \/ /\ ~Modified(st, b[st]) /\ ~Filled(st, b[st])
              /\ ballots' = [ballots EXCEPT ![v] = b]
              /\ UNCHANGED <<status, owed>>
           \/ /\ Modified(st, b[st])
              /\ Close(v, "Updating")
              /\ UNCHANGED owed
           \/ /\ ~Modified(st, b[st]) /\ Filled(st, b[st])
              /\ st = "Sorting" /\ Accepted(st, b[st])
              /\ status' = [status EXCEPT ![v] = "Validation"]
              /\ ballots' = [ballots EXCEPT ![v] = b]
              /\ UNCHANGED owed
           \/ /\ ~Modified(st, b[st]) /\ Filled(st, b[st])
              /\ st = "Sorting" /\ ~Accepted(st, b[st])
              /\ Close(v, "Rejected")
              /\ UNCHANGED owed
           \/ /\ ~Modified(st, b[st]) /\ Filled(st, b[st])
              /\ st = "Validation" /\ Accepted(st, b[st])
              /\ Close(v, "Validated")
              /\ Settle(b, v, "Accept")
           \/ /\ ~Modified(st, b[st]) /\ Filled(st, b[st])
              /\ st = "Validation" /\ ~Accepted(st, b[st])
              /\ Close(v, "Rejected")
              /\ Settle(b, v, "Reject")

Claim(u) ==
    /\ owed' = [owed EXCEPT ![u] = 0]
    /\ UNCHANGED <<status, coeff, ballots>>

Next ==
    \/ \E v \in VoteIds : Submit(v) \/ Fund(v) \/ Resubmit(v)
    \/ \E u \in Users, v \in VoteIds, st \in Stages, vote \in Votes :
           Cast(u, v, st, vote)
    \/ \E u \in Users : Claim(u)

Spec == Init /\ [][Next]_ballotVars

=============================================================================
