-------------------------- MODULE CrossChainProofs --------------------------
(***************************************************************************)
(* Proofs about CrossChain: calls relayed by Axelar keep the listings of   *)
(* the destination sound, and no payment of either chain is lost or        *)
(* credited twice.  What a relayed call does to the listings is what       *)
(* ListingsProofs and AccountingProofs prove of submissions, top-ups and   *)
(* updates for any caller (CallsSpec); what is left is the messages.       *)
(***************************************************************************)
EXTENDS CrossChain, AccountingProofs

Methods == {"SubmitToken", "UpdateToken", "TopUpToken"}
Message ==
    [method : Methods, sender : Users, tokenId : Nat, voteId : Nat,
     paymentAmount : SourceAmounts \cup {0},
     state : {"Approved", "Misdirected", "Executed"}]

MessagesTyped ==
    /\ messages \in Seq(Message)
    /\ \A i \in DOMAIN messages :
           messages[i].method = "UpdateToken" => messages[i].paymentAmount = 0

SourceTyped == sourceStable \in [SourceAccounts -> Nat]

LEMMA MessageFields ==
    ASSUME MessagesTyped, NEW i \in DOMAIN messages
    PROVE  /\ messages[i] \in Message
           /\ messages[i].sender \in Users /\ messages[i].tokenId \in Nat
           /\ messages[i].paymentAmount \in SourceAmounts \cup {0}
           /\ messages[i].paymentAmount \in Nat /\ messages[i].voteId \in Nat
           /\ messages[i].method = "UpdateToken" => messages[i].paymentAmount = 0
<1>1. messages[i] \in Message
  BY ElementOfSeq DEF MessagesTyped
<1>2. /\ messages[i].sender \in Users /\ messages[i].tokenId \in Nat
      /\ messages[i].voteId \in Nat
      /\ messages[i].paymentAmount \in SourceAmounts \cup {0}
  BY <1>1 DEF Message
<1>3. messages[i].paymentAmount \in Nat
  <2>1. \A a \in SourceAmounts \cup {0} : a \in Nat
    BY CrossChainAssumption
  <2> QED
    BY <1>2, <2>1, Zenon
<1>4. messages[i].method = "UpdateToken" => messages[i].paymentAmount = 0
  BY DEF MessagesTyped
<1> QED
  BY <1>1, <1>2, <1>3, <1>4

LEMMA HandledIsCall ==
    ASSUME ListingsInv, MessagesTyped, NEW relayer, NEW i \in DOMAIN messages,
           Handle(relayer, messages[i])
    PROVE  CallsFor(relayer, messages[i].sender, messages[i].paymentAmount)
<1> DEFINE m == messages[i]
<1>1. \A v \in Nat : v < tokenListingsLength => v \in VoteIds
  BY MaxListingsAssumption DEF ListingsInv, OthersTyped, VoteIds
<1>2. /\ m.tokenId \in Nat /\ m.voteId \in Nat
      /\ m.method = "UpdateToken" => m.paymentAmount = 0
  BY MessageFields
<1> HIDE DEF m
<1>3. CASE SubmitTokenFor(relayer, m.sender, m.paymentAmount, m.tokenId)
  BY <1>2, <1>3 DEF CallsFor, m
<1>4. CASE m.method = "UpdateToken" /\ UpdateTokenFor(m.sender, m.voteId)
  <2>1. m.voteId < tokenListingsLength
    BY <1>4 DEF UpdateTokenFor
  <2> QED
    BY <1>1, <1>2, <1>4, <2>1 DEF CallsFor, m
<1>5. CASE TopUpTokenFor(relayer, m.sender, m.voteId, m.paymentAmount)
  <2>1. m.voteId < tokenListingsLength
    BY <1>5, Zenon DEF TopUpTokenFor
  <2> QED
    BY <1>1, <1>2, <1>5, <2>1 DEF CallsFor, m
<1> QED
  BY <1>3, <1>4, <1>5 DEF Handle, m

(* Somebody else's call costs nothing here: the payment was made on the     *)
(* source chain.                                                            *)
LEMMA RelayedBuys ==
    ASSUME ListingsInv, NEW relayer, NEW user \in Users, NEW amount \in Nat,
           CallsFor(relayer, user, amount),
           relayer # user, user \notin whitelistedSubmitter
    PROVE  /\ TermsStep(Price(amount)) /\ UNCHANGED stable
           /\ amount # 0 => config["submitFloorPrice"] # 0
<1>1. Pay(relayer, user, amount) =>
          UNCHANGED stable /\ config["submitFloorPrice"] # 0
  BY DEF Pay
<1>2. ASSUME NEW tokenId \in Nat,
             SubmitTokenFor(relayer, user, amount, tokenId)
      PROVE  /\ TermsStep(Price(amount)) /\ UNCHANGED stable
             /\ amount # 0 => config["submitFloorPrice"] # 0
  <2>1. TermsStep(Credit(user, amount))
    BY <1>2, SubmitTerms
  <2>2. IF amount # 0 THEN Pay(relayer, user, amount) ELSE UNCHANGED stable
    BY <1>2, Zenon DEF SubmitTokenFor
  <2>3. Credit(user, amount) = Price(amount)
    BY Zenon DEF Credit, Price
  <2> QED
    BY <1>1, <2>1, <2>2, <2>3
<1>3. ASSUME NEW v \in VoteIds, TopUpTokenFor(relayer, user, v, amount)
      PROVE  /\ TermsStep(Price(amount)) /\ UNCHANGED stable
             /\ amount # 0 => config["submitFloorPrice"] # 0
  <2>1. TermsStep(GetCoeff(amount))
    BY <1>3, TopUpTerms
  <2>2. amount # 0 /\ Pay(relayer, user, amount)
    BY <1>3, Zenon DEF TopUpTokenFor
  <2>3. GetCoeff(amount) = Price(amount)
    BY <2>2, Zenon DEF Price
  <2> QED
    BY <1>1, <2>1, <2>2, <2>3
<1>4. ASSUME amount = 0, NEW v \in VoteIds, UpdateTokenFor(user, v)
      PROVE  /\ TermsStep(Price(amount)) /\ UNCHANGED stable
             /\ amount # 0 => config["submitFloorPrice"] # 0
  BY <1>4, UpdateBuysNothing DEF Price
<1> QED
  BY <1>2, <1>3, <1>4 DEF CallsFor

-----------------------------------------------------------------------------
(* What a step does to the messages and the money of the source chain. *)

SourceFunds == sourceStable[CrosschainSender] + sourceStable[Treasury]

Sends(amount) ==
    /\ UNCHANGED listingsVars
    /\ SourceFunds' = SourceFunds + amount
    /\ \E m \in Message :
           /\ m.method = "UpdateToken" => m.paymentAmount = 0
           /\ m.paymentAmount = amount /\ m.state # "Executed"
           /\ messages' = Append(messages, m)

Executes(i) ==
    /\ i \in DOMAIN messages /\ messages[i].state = "Approved"
    /\ messages' = [messages EXCEPT ![i].state = "Executed"]
    /\ UNCHANGED sourceStable
    /\ \E relayer \in Relayers : Handle(relayer, messages[i])

CrossStep ==
    \/ \E amount \in SourceAmounts \cup {0} : Sends(amount)
    \/ \E i \in DOMAIN messages : Executes(i)
    \/ /\ [ListingsNext]_listingsVars
       /\ UNCHANGED messages /\ SourceFunds' = SourceFunds

LEMMA SourceStableTransfers ==
    ASSUME SourceTyped, NEW from \in SourceAccounts, NEW to \in SourceAccounts,
           from # to, NEW amount \in Nat, sourceStable[from] >= amount,
           sourceStable' = Transfer(sourceStable, from, to, amount)
    PROVE  /\ SourceTyped'
           /\ from \in Users /\ to = CrosschainSender =>
                  SourceFunds' = SourceFunds + amount
           /\ from = CrosschainSender /\ to = Treasury =>
                  SourceFunds' = SourceFunds
<1>1. /\ sourceStable \in [SourceAccounts -> Nat]
      /\ CrosschainSender \in SourceAccounts /\ Treasury \in SourceAccounts
      /\ CrosschainSender # Treasury
      /\ CrosschainSender \notin Users /\ Treasury \notin Users
  BY CrossChainAssumption, ListingsAssumption DEF SourceTyped, SourceAccounts
<1>2. sourceStable' = [a \in SourceAccounts |->
                          IF a = to THEN sourceStable[to] + amount
                          ELSE IF a = from THEN sourceStable[from] - amount
                          ELSE sourceStable[a]]
  BY <1>1 DEF Transfer
<1>3. SourceTyped'
  <2>1. sourceStable[from] - amount \in Nat /\ sourceStable[to] + amount \in Nat
    BY <1>1
  <2> QED
    BY <1>1, <1>2, <2>1 DEF SourceTyped
<1>4. /\ sourceStable'[CrosschainSender] =
             IF CrosschainSender = to THEN sourceStable[to] + amount
             ELSE IF CrosschainSender = from THEN sourceStable[from] - amount
             ELSE sourceStable[CrosschainSender]
      /\ sourceStable'[Treasury] =
             IF Treasury = to THEN sourceStable[to] + amount
             ELSE IF Treasury = from THEN sourceStable[from] - amount
             ELSE sourceStable[Treasury]
  BY <1>1, <1>2
<1> QED
  BY <1>1, <1>3, <1>4 DEF SourceFunds

LEMMA SendSends ==
    ASSUME SourceTyped, NEW method \in Methods, NEW user \in Users,
           NEW tokenId \in Nat, NEW amount \in SourceAmounts \cup {0},
           NEW v \in Nat, Send(method, user, tokenId, amount, v),
           IF method = "UpdateToken" THEN amount = 0 /\ UNCHANGED sourceStable
           ELSE Collect(user, amount)
    PROVE  Sends(amount) /\ SourceTyped'
<1>1. amount \in Nat
  <2>1. \A a \in SourceAmounts \cup {0} : a \in Nat
    BY CrossChainAssumption
  <2> QED
    BY <2>1, Zenon
<1>2. SourceTyped' /\ SourceFunds' = SourceFunds + amount
  <2>1. CASE method = "UpdateToken"
    <3>1. SourceFunds \in Nat
      BY CrossChainAssumption DEF SourceFunds, SourceTyped, SourceAccounts
    <3>2. SourceFunds' = SourceFunds /\ SourceTyped'
      BY <2>1 DEF SourceFunds, SourceTyped
    <3> QED
      BY <2>1, <3>1, <3>2
  <2>2. CASE method # "UpdateToken"
    BY <1>1, <2>2, CrossChainAssumption, SourceStableTransfers
       DEF Collect, SourceAccounts
  <2> QED
    BY <2>1, <2>2
<1> DEFINE m == [method |-> method, sender |-> user, tokenId |-> tokenId,
                 paymentAmount |-> amount, voteId |-> v,
                 state |-> IF destinationSet THEN "Approved" ELSE "Misdirected"]
<1>3. m \in Message /\ m.method = method /\ m.paymentAmount = amount
      /\ m.state # "Executed"
  BY DEF Message
<1>4. messages' = Append(messages, m) /\ UNCHANGED listingsVars
  BY DEF Send
<1> HIDE DEF m
<1> QED
  BY <1>2, <1>3, <1>4 DEF Sends

LEMMA StepCrosses ==
    ASSUME SourceTyped, [CrossChainNext]_crossVars
    PROVE  CrossStep /\ SourceTyped'
<1>1. ASSUME UNCHANGED sourceStable
      PROVE  SourceTyped' /\ SourceFunds' = SourceFunds
  BY <1>1 DEF SourceTyped, SourceFunds
<1>2. CASE SourceStep
  <2>1. ASSUME NEW user \in Users, NEW amount \in SourceAmounts,
               NEW tokenId \in 0..1, SubmitTokenAxelar(user, amount, tokenId)
        PROVE  CrossStep /\ SourceTyped'
    BY <2>1, SendSends DEF SubmitTokenAxelar, Methods, CrossStep
  <2>2. ASSUME NEW user \in Users, NEW amount \in SourceAmounts,
               NEW v \in VoteIds, TopUpTokenAxelar(user, v, amount)
        PROVE  CrossStep /\ SourceTyped'
    BY <2>2, SendSends, MaxListingsAssumption
       DEF TopUpTokenAxelar, Methods, CrossStep, VoteIds
  <2>3. ASSUME NEW user \in Users, NEW v \in VoteIds, UpdateTokenAxelar(user, v)
        PROVE  CrossStep /\ SourceTyped'
    BY <2>3, SendSends, MaxListingsAssumption
       DEF UpdateTokenAxelar, Methods, CrossStep, VoteIds
  <2>4. ASSUME NEW b, SetDestination(b) PROVE CrossStep /\ SourceTyped'
    BY <1>1, <2>4 DEF SetDestination, CrossStep
  <2>5. ASSUME NEW amount \in WithdrawAmounts, WithdrawSourceFunds(amount)
        PROVE  CrossStep /\ SourceTyped'
    <3>1. /\ amount \in Nat
          /\ CrosschainSender \in SourceAccounts /\ Treasury \in SourceAccounts
          /\ CrosschainSender # Treasury
      BY ListingsAssumption, CrossChainAssumption DEF SourceAccounts
    <3>2. SourceTyped' /\ SourceFunds' = SourceFunds
      BY <2>5, <3>1, SourceStableTransfers DEF WithdrawSourceFunds
    <3> QED
      BY <2>5, <3>2 DEF WithdrawSourceFunds, CrossStep
  <2> QED
    BY <1>2, <2>1, <2>2, <2>3, <2>4, <2>5 DEF SourceStep
<1>3. CASE DestinationStep
  <2>1. ASSUME NEW relayer \in Relayers, NEW i, Execute(relayer, i)
        PROVE  CrossStep /\ SourceTyped'
    BY <1>1, <2>1 DEF Execute, HandleOrRevert, CrossStep, Executes
  <2>2. ASSUME NEW b, WhitelistAxelarContract(b) PROVE CrossStep /\ SourceTyped'
    BY <1>1, <2>2 DEF WhitelistAxelarContract, CrossStep, sourceVars
  <2> QED
    BY <1>3, <2>1, <2>2 DEF DestinationStep
<1>4. CASE LocalStep
  BY <1>1, <1>4 DEF LocalStep, CrossStep, sourceVars
<1>5. CASE UNCHANGED crossVars
  BY <1>1, <1>5 DEF crossVars, sourceVars, CrossStep
<1> QED
  BY <1>2, <1>3, <1>4, <1>5 DEF CrossChainNext


-----------------------------------------------------------------------------
(* Relayed calls are sound. *)

CrossInv == ListingsInv /\ MessagesTyped /\ SourceTyped

LEMMA SentMessages ==
    ASSUME MessagesTyped, NEW m \in Message,
           m.method = "UpdateToken" => m.paymentAmount = 0,
           messages' = Append(messages, m)
    PROVE  /\ MessagesTyped'
           /\ Len(messages) \in Nat
           /\ DOMAIN messages' = DOMAIN messages \cup {Len(messages) + 1}
           /\ DOMAIN messages = 1..Len(messages)
           /\ \A i \in DOMAIN messages : messages'[i] = messages[i]
           /\ messages'[Len(messages) + 1] = m
<1>1. messages \in Seq(Message)
  BY DEF MessagesTyped
<1>2. /\ messages' \in Seq(Message)
      /\ Len(messages') = Len(messages) + 1 /\ Len(messages) \in Nat
      /\ \A i \in 1..Len(messages) : messages'[i] = messages[i]
      /\ messages'[Len(messages) + 1] = m
  BY <1>1, AppendProperties, LenProperties
<1>3. /\ DOMAIN messages' = DOMAIN messages \cup {Len(messages) + 1}
      /\ DOMAIN messages = 1..Len(messages)
  BY <1>1, <1>2, LenProperties
<1>4. MessagesTyped'
  BY <1>2, <1>3 DEF MessagesTyped
<1> QED
  BY <1>2, <1>3, <1>4

LEMMA ExecutedMessages ==
    ASSUME MessagesTyped, NEW i \in DOMAIN messages,
           messages' = [messages EXCEPT ![i].state = "Executed"]
    PROVE  /\ MessagesTyped'
           /\ DOMAIN messages' = DOMAIN messages
           /\ \A j \in DOMAIN messages :
                  /\ messages'[j].paymentAmount = messages[j].paymentAmount
                  /\ messages'[j].state =
                         IF j = i THEN "Executed" ELSE messages[j].state
<1> DEFINE m == [messages[i] EXCEPT !.state = "Executed"]
<1>1. messages[i] \in Message /\ messages \in Seq(Message)
  BY MessageFields DEF MessagesTyped
<1>2. /\ m \in Message /\ m.method = messages[i].method
      /\ m.paymentAmount = messages[i].paymentAmount /\ m.state = "Executed"
  BY <1>1 DEF Message
<1>3. messages' = [messages EXCEPT ![i] = m]
  OBVIOUS
<1> HIDE DEF m
<1>4. /\ messages' \in Seq(Message)
      /\ DOMAIN messages' = DOMAIN messages
      /\ messages'[i] = m
      /\ \A j \in DOMAIN messages : j # i => messages'[j] = messages[j]
  BY <1>1, <1>2, <1>3, ExceptSeq
<1>5. MessagesTyped'
  BY <1>2, <1>4 DEF MessagesTyped
<1> QED
  BY <1>2, <1>4, <1>5

(* To the listings, a step of either chain is a call for a user, or local.  *)
LEMMA CrossStepCalls ==
    ASSUME ListingsInv, MessagesTyped, CrossStep
    PROVE  [CallsNext]_listingsVars
<1>1. ASSUME NEW i \in DOMAIN messages, Executes(i) PROVE CallStep
  <2>1. PICK relayer \in Relayers : Handle(relayer, messages[i])
    BY <1>1 DEF Executes
  <2>2. CallsFor(relayer, messages[i].sender, messages[i].paymentAmount)
    BY <2>1, HandledIsCall
  <2> QED
    BY <2>2, MessageFields DEF CallStep
<1> QED
  BY <1>1 DEF CrossStep, Sends, CallsNext

LEMMA CrossStepPreserves ==
    ASSUME CrossInv, [CrossChainNext]_crossVars
    PROVE  CrossInv' /\ [CallsNext]_listingsVars
<1>1. CrossStep /\ SourceTyped'
  BY StepCrosses DEF CrossInv
<1>2. [CallsNext]_listingsVars
  BY <1>1, CrossStepCalls DEF CrossInv
<1>3. ListingsInv'
  BY <1>2, StepPreserves DEF CrossInv
<1>4. MessagesTyped'
  BY <1>1, SentMessages, ExecutedMessages
     DEF CrossStep, Sends, Executes, CrossInv, MessagesTyped
<1> QED
  BY <1>1, <1>2, <1>3, <1>4 DEF CrossInv

LEMMA CrossInitially == CrossChainInit => CrossInv
<1> SUFFICES ASSUME CrossChainInit PROVE CrossInv
  OBVIOUS
<1>1. ListingsInv
  BY ListingsInitially DEF CrossChainInit
<1>2. MessagesTyped
  BY DEF CrossChainInit, MessagesTyped
<1>3. SourceTyped
  BY CrossChainAssumption DEF CrossChainInit, SourceTyped
<1> QED
  BY <1>1, <1>2, <1>3 DEF CrossInv

LEMMA CrossInvAlways == CrossChainSafety => []CrossInv
<1>1. CrossInv /\ [CrossChainNext]_crossVars => CrossInv'
  BY CrossStepPreserves
<1> QED
  BY CrossInitially, <1>1, PTL DEF CrossChainSafety

(* Everything Axelar does to the destination chain, late, out of order or   *)
(* through any relayer, are calls for users next to local ones: what is     *)
(* proved of CallsSpec holds of the listings of both chains.                *)
THEOREM CrossChainStepsAreCalls == CrossChainSafety => CallsSpec
<1>1. CrossInv /\ [CrossChainNext]_crossVars => [CallsNext]_listingsVars
  BY CrossStepPreserves
<1>2. CrossChainInit => ListingsInit
  BY DEF CrossChainInit
<1> QED
  BY <1>1, <1>2, CrossInvAlways, PTL DEF CrossChainSafety, CallsSpec

(* Calls that Axelar relays late, out of order or under another caller's    *)
(* name leave the listings as sound as local ones: users vote once, scores  *)
(* and status arrays are right, and an id comes from a listing of its own.  *)
THEOREM RelayedListingsAreSound ==
    CrossChainSafety =>
        [](ListingsTypeOK /\ StatusArraysConsistent /\ OneVotePerPhase
           /\ ScoresBounded /\ TokenIdsAreDense)
<1> QED
  BY CrossChainStepsAreCalls, ListingsAreSound, TokenIdsStayDense, PTL

(* No relayed update makes a vote count again, and no relayed payment ends  *)
(* up in a claim: with calls from both chains, no vote is judged twice and  *)
(* claims pay what they record.                                             *)
THEOREM RelayedCallsKeepAccounts ==
    CrossChainSafety => [](VotesJudgedOnce /\ ClaimsArePaid)
<1> QED
  BY CrossChainStepsAreCalls, VotesStayJudgedOnce, ClaimsPayWhatIsOwed, PTL

(* A listing paid from another chain leaves the pool when it is fully paid, *)
(* and what the API saves are the validated listings, whichever chain a     *)
(* token came from.                                                         *)
THEOREM RelayedListingsAreProcessed ==
    ASSUME OwnerMoves = {}
    PROVE  CrossChainSafety => [](PooledWhileUnderpaid /\ AssetsMatchValidated)
<1> QED
  BY CrossChainStepsAreCalls, PoolIsForUnderpaid, AssetsFollowValidated, PTL

(* A relayed update that comes late never reopens a decided ballot nor lets *)
(* anybody vote again: both chains together implement the two ballots per   *)
(* listing of ListingBallots.                                               *)
THEOREM CrossChainImplementsBallots ==
    ASSUME OwnerMoves = {}, ThresholdsStand
    PROVE  CrossChainSafety => ImplementsBallots
<1> QED
  BY CrossChainStepsAreCalls, ListingsImplementBallots, PTL

(* Verdicts on listings of both chains come with the vote that completes    *)
(* them, and an open vote has a voter left if enough users hold the rank.   *)
THEOREM RelayedVotesAreDecided ==
    ASSUME OwnerMoves = {}, ThresholdsStand, VerdictsNeedVotes
    PROVE  CrossChainSafety =>
               [](NoOverdueVerdict /\ ValidationRestsOnSorting /\ VoteCanContinue)
<1> QED
  BY CrossChainStepsAreCalls, NoVerdictIsOverdue, ValidationFollowsSorting,
     VotesCanContinue, PTL

-----------------------------------------------------------------------------
(* Payments *)

Flying ==
    SumFunctionOnSet([i \in InFlight |-> messages[i].paymentAmount], InFlight)

LEMMA FlyingIsNat ==
    ASSUME MessagesTyped
    PROVE  IsFiniteSet(InFlight) /\ InFlight \subseteq DOMAIN messages
           /\ Flying \in Nat
<1>1. IsFiniteSet(InFlight) /\ InFlight \subseteq DOMAIN messages
  <2>1. DOMAIN messages = 1..Len(messages) /\ Len(messages) \in Nat
    BY LenProperties DEF MessagesTyped
  <2>2. IsFiniteSet(DOMAIN messages)
    BY <2>1, FS_Interval
  <2> QED
    BY <2>2, FS_Subset DEF InFlight
<1> DEFINE f == [i \in InFlight |-> messages[i].paymentAmount]
<1>2. \A i \in InFlight : f[i] \in Nat
  BY <1>1, MessageFields
<1> HIDE DEF f
<1>3. SumFunctionOnSet(f, InFlight) \in Nat
  BY <1>1, <1>2, SumNat
<1> QED
  BY <1>1, <1>3 DEF Flying, f

LEMMA SentIsFlying ==
    ASSUME MessagesTyped, NEW amount, Sends(amount)
    PROVE  Flying' = Flying + amount
<1> DEFINE f == [i \in InFlight |-> messages[i].paymentAmount]
           g == [i \in InFlight' |-> messages'[i].paymentAmount]
           n == Len(messages) + 1
<1>1. PICK m \in Message :
           /\ m.method = "UpdateToken" => m.paymentAmount = 0
           /\ m.paymentAmount = amount /\ m.state # "Executed"
           /\ messages' = Append(messages, m)
  BY DEF Sends
<1>2. /\ MessagesTyped'
      /\ Len(messages) \in Nat
      /\ DOMAIN messages' = DOMAIN messages \cup {n}
      /\ DOMAIN messages = 1..Len(messages)
      /\ \A i \in DOMAIN messages : messages'[i] = messages[i]
      /\ messages'[n] = m
  BY <1>1, SentMessages
<1>3. n \notin InFlight /\ InFlight' = InFlight \cup {n}
  BY <1>1, <1>2 DEF InFlight
<1>4. IsFiniteSet(InFlight) /\ InFlight \subseteq DOMAIN messages
  BY FlyingIsNat
<1>5. /\ \A i \in InFlight : f[i] = g[i]
      /\ g[n] = amount
  BY <1>1, <1>2, <1>3, <1>4
<1>6. amount \in Nat /\ \A i \in InFlight : g[i] \in Nat
  <2>1. \A i \in InFlight : f[i] \in Nat
    BY <1>4, MessageFields
  <2>2. \A a \in SourceAmounts \cup {0} : a \in Nat
    BY CrossChainAssumption
  <2>3. amount \in SourceAmounts \cup {0}
    BY <1>1 DEF Message
  <2> QED
    BY <1>5, <2>1, <2>2, <2>3, Zenon
<1>7. \A i \in InFlight \cup {n} : g[i] \in Int
  BY <1>5, <1>6
<1>8. Flying = SumFunctionOnSet(f, InFlight)
      /\ Flying' = SumFunctionOnSet(g, InFlight')
  BY DEF Flying
<1> HIDE DEF f, g, n
<1>9. SumFunctionOnSet(f, InFlight) = SumFunctionOnSet(g, InFlight)
  BY <1>4, <1>5, SumSame
<1>10. SumFunctionOnSet(g, InFlight \cup {n})
       = SumFunctionOnSet(g, InFlight) + g[n]
  BY <1>3, <1>4, <1>7, SumWith
<1> QED
  BY <1>3, <1>5, <1>8, <1>9, <1>10

LEMMA ExecutedIsNotFlying ==
    ASSUME MessagesTyped, NEW i \in DOMAIN messages, Executes(i)
    PROVE  Flying = messages[i].paymentAmount + Flying' /\ Flying' \in Nat
<1> DEFINE f == [j \in InFlight |-> messages[j].paymentAmount]
           g == [j \in InFlight' |-> messages'[j].paymentAmount]
<1>1. /\ DOMAIN messages' = DOMAIN messages
      /\ \A j \in DOMAIN messages :
             /\ messages'[j].paymentAmount = messages[j].paymentAmount
             /\ messages'[j].state =
                    IF j = i THEN "Executed" ELSE messages[j].state
  BY ExecutedMessages DEF Executes
<1>2. i \in InFlight /\ InFlight' = InFlight \ {i}
  BY <1>1 DEF InFlight, Executes
<1>3. IsFiniteSet(InFlight) /\ InFlight \subseteq DOMAIN messages
      /\ IsFiniteSet(InFlight \ {i})
  BY FlyingIsNat, FS_Subset
<1>4. /\ \A j \in InFlight \ {i} : f[j] = g[j]
      /\ \A j \in InFlight : f[j] \in Nat
      /\ f[i] = messages[i].paymentAmount
  BY <1>1, <1>2, <1>3, MessageFields
<1>5. Flying = SumFunctionOnSet(f, InFlight)
      /\ Flying' = SumFunctionOnSet(g, InFlight')
  BY DEF Flying
<1> HIDE DEF f, g
<1>6. SumFunctionOnSet(f, InFlight \ {i}) = SumFunctionOnSet(g, InFlight \ {i})
  BY <1>3, <1>4, SumSame
<1>7. \A j \in InFlight : f[j] \in Int
  BY <1>4
<1>8. SumFunctionOnSet(f, InFlight)
      = f[i] + SumFunctionOnSet(f, InFlight \ {i})
  BY <1>2, <1>3, <1>7, SumWithout
<1>9. SumFunctionOnSet(g, InFlight \ {i}) \in Nat
  BY <1>3, <1>4, SumNat
<1> QED
  BY <1>2, <1>4, <1>5, <1>6, <1>8, <1>9

(* Every amount offered buys a whole number of thousandths: what the        *)
(* division of GetCoeff drops is not behind any coefficient.                *)
PricesAreExact ==
    /\ InitialConfig["submitFloorPrice"] # 0
    /\ \A amount \in PaymentAmounts \cup SourceAmounts :
           (PAYMENT_COEFF * amount) % InitialConfig["submitFloorPrice"] = 0

LEMMA ExactPrice ==
    ASSUME ListingsInv, PricesAreExact,
           config["submitFloorPrice"] = InitialConfig["submitFloorPrice"],
           NEW amount \in PaymentAmounts \cup SourceAmounts \cup {0}
    PROVE  /\ amount \in Nat /\ Price(amount) \in Nat
           /\ config["submitFloorPrice"] * Price(amount) = PAYMENT_COEFF * amount
<1> DEFINE floor == config["submitFloorPrice"]
<1>1. floor \in Nat /\ floor # 0
  BY DEF ListingsInv, OthersTyped, Parameters, PricesAreExact
<1>2. amount \in Nat
  <2>1. \A a \in PaymentAmounts \cup SourceAmounts \cup {0} : a \in Nat
    BY ListingsAssumption, CrossChainAssumption
  <2> QED
    BY <2>1, Zenon
<1>3. CASE amount = 0
  <2>1. Price(amount) = 0 /\ floor * 0 = 0 /\ PAYMENT_COEFF * amount = 0
    BY <1>1, <1>3 DEF Price, PAYMENT_COEFF
  <2> HIDE DEF floor
  <2>2. floor * Price(amount) = 0
    BY <2>1
  <2> QED
    BY <1>2, <2>1, <2>2 DEF floor
<1>4. CASE amount # 0
  <2> DEFINE n == PAYMENT_COEFF * amount
  <2>1. n \in Nat /\ n % floor = 0
    <3>1. amount \in PaymentAmounts \cup SourceAmounts
      BY <1>4
    <3> QED
      BY <1>2, <3>1 DEF PricesAreExact, PAYMENT_COEFF
  <2>2. Price(amount) = n \div floor
    <3>1. amount * PAYMENT_COEFF = n
      BY <1>2 DEF PAYMENT_COEFF
    <3> QED
      BY <1>4, <3>1, Zenon DEF Price, GetCoeff
  <2> HIDE DEF n, floor
  <2>3. n \div floor \in Nat /\ floor * (n \div floor) = n
    BY <1>1, <2>1
  <2> QED
    BY <1>2, <2>2, <2>3 DEF n, floor
<1> QED
  BY <1>3, <1>4


Balanced ==
    config["submitFloorPrice"] * Bought + PAYMENT_COEFF * Flying
    = PAYMENT_COEFF * (Funds + SourceFunds)

MoneyInv ==
    /\ CrossInv /\ TokenIdsAreDense
    /\ whitelistedSubmitter = {}
    /\ config["submitFloorPrice"] = InitialConfig["submitFloorPrice"]
    /\ Balanced

LEMMA AmountsAreInts ==
    ASSUME CrossInv
    PROVE  /\ Bought \in Int /\ Flying \in Nat
           /\ Funds \in Nat /\ SourceFunds \in Nat
           /\ config["submitFloorPrice"] \in Nat
<1>1. Bought \in Int /\ Flying \in Nat
  BY BoughtIsInt, FlyingIsNat DEF CrossInv
<1>2. /\ stable \in [Accounts -> Nat]
      /\ Protocol \in Accounts /\ Treasury \in Accounts
      /\ config["submitFloorPrice"] \in Nat
  BY DEF CrossInv, ListingsInv, OthersTyped, Accounts, Parameters
<1>3. /\ sourceStable \in [SourceAccounts -> Nat]
      /\ CrosschainSender \in SourceAccounts /\ Treasury \in SourceAccounts
  BY DEF CrossInv, SourceTyped, SourceAccounts
<1> QED
  BY <1>1, <1>2, <1>3 DEF Funds, SourceFunds

LEMMA BalancedIsProperty ==
    ASSUME CrossInv PROVE Balanced <=> PaymentsAreCreditedOrInFlight
<1> DEFINE a == stable[Protocol]
           b == stable[Treasury]
           c == sourceStable[CrosschainSender]
           d == sourceStable[Treasury]
<1>1. a \in Nat /\ b \in Nat /\ c \in Nat /\ d \in Nat
  BY DEF CrossInv, ListingsInv, OthersTyped, Accounts, SourceTyped,
         SourceAccounts
<1>2. Funds + SourceFunds = (a + b) + (c + d)
  BY DEF Funds, SourceFunds
<1>3. PaymentsAreCreditedOrInFlight <=>
          config["submitFloorPrice"] * Bought + PAYMENT_COEFF * Flying
          = PAYMENT_COEFF * (((a + b) + c) + d)
  BY Zenon DEF PaymentsAreCreditedOrInFlight, Bought, BoughtOf, Flying,
               SumFunction
<1> HIDE DEF a, b, c, d
<1>4. (a + b) + (c + d) = ((a + b) + c) + d
  BY <1>1
<1> QED
  BY <1>2, <1>3, <1>4, Zenon DEF Balanced

(* At a floor price that stands and divides what is paid, with nobody       *)
(* whitelisted to submit for free and calls relayed by accounts that do not *)
(* submit themselves, every stablecoin collected on either chain is behind  *)
(* a coefficient or in a message not executed yet, and behind only one.     *)
THEOREM PaymentsStayCreditedOrInFlight ==
    ASSUME Settings["submitFloorPrice"] = {},
           Settings["editCoeffMultiplier"] = {},
           InitialWhitelist = {}, WhitelistChanges = {},
           Relayers \cap Users = {}, PricesAreExact
    PROVE  CrossChainSafety => []PaymentsAreCreditedOrInFlight
<1>1. CrossChainInit => MoneyInv
  <2> SUFFICES ASSUME CrossChainInit PROVE MoneyInv
    OBVIOUS
  <2>1. CrossInv
    BY CrossInitially
  <2>2. /\ TokenIdsAreDense /\ whitelistedSubmitter = {}
        /\ config["submitFloorPrice"] = InitialConfig["submitFloorPrice"]
    BY DEF CrossChainInit, ListingsInit, TokenIdsAreDense, Submitted
  <2>3. Bought = 0 /\ Flying = 0
    <3>1. Submitted = {} /\ InFlight = {}
      BY DEF CrossChainInit, ListingsInit, Submitted, InFlight
    <3> QED
      BY <3>1, SumEmpty DEF Bought, Flying
  <2>4. Funds = 0 /\ SourceFunds = 0
    BY ListingsAssumption, CrossChainAssumption
       DEF CrossChainInit, ListingsInit, Funds, SourceFunds, Accounts,
           SourceAccounts
  <2>5. Balanced
    BY <2>1, <2>3, <2>4, AmountsAreInts DEF Balanced, PAYMENT_COEFF
  <2> QED
    BY <2>1, <2>2, <2>5 DEF MoneyInv
<1>2. MoneyInv /\ [CrossChainNext]_crossVars => MoneyInv'
  <2> SUFFICES ASSUME MoneyInv, [CrossChainNext]_crossVars PROVE MoneyInv'
    OBVIOUS
  <2>1. /\ CrossInv /\ CrossInv' /\ ListingsInv /\ ListingsInv' /\ MessagesTyped
        /\ TokenIdsAreDense' /\ CrossStep
    BY CrossStepPreserves, StepEffect, TokenIdsPreserved, StepCrosses
       DEF MoneyInv, CrossInv
  <2> DEFINE floor == config["submitFloorPrice"]
  <2>2. /\ floor \in Nat /\ Bought \in Int /\ Flying \in Nat /\ Funds \in Nat
        /\ SourceFunds \in Nat
        /\ floor * Bought + PAYMENT_COEFF * Flying
           = PAYMENT_COEFF * (Funds + SourceFunds)
    BY <2>1, AmountsAreInts DEF MoneyInv, Balanced
  <2>3. ASSUME config'["submitFloorPrice"] = floor,
               config'["editCoeffMultiplier"] = config["editCoeffMultiplier"],
               UNCHANGED whitelistedSubmitter,
               NEW credit \in Nat, TermsStep(credit),
               NEW sent \in Int, Flying' = Flying + sent,
               NEW paid \in Int, Funds' = Funds + paid,
               NEW collected \in Int, SourceFunds' = SourceFunds + collected,
               floor * credit + PAYMENT_COEFF * sent
               = PAYMENT_COEFF * (paid + collected)
        PROVE  MoneyInv'
    <3>1. Bought' = Bought + credit
      BY <2>1, <2>3, BoughtGrows DEF MoneyInv
    <3> HIDE DEF floor
    <3> DEFINE x == floor * Bought
               y == floor * credit
    <3>2. /\ floor * (Bought + credit) = x + y /\ x \in Int /\ y \in Int
          /\ x + PAYMENT_COEFF * Flying = PAYMENT_COEFF * (Funds + SourceFunds)
          /\ y + PAYMENT_COEFF * sent = PAYMENT_COEFF * (paid + collected)
      <4>1. \A a, b, c \in Int : a * (b + c) = a * b + a * c /\ a * b \in Int
        OBVIOUS
      <4>2. floor \in Int /\ Bought \in Int /\ credit \in Int
        BY <2>2
      <4>3. /\ floor * (Bought + credit) = floor * Bought + floor * credit
            /\ floor * Bought \in Int /\ floor * credit \in Int
        BY <4>1, <4>2, Zenon
      <4> QED
        BY <2>2, <2>3, <4>3, Zenon
    <3> HIDE DEF x, y
    <3>3. (x + y) + PAYMENT_COEFF * (Flying + sent)
          = PAYMENT_COEFF * ((Funds + paid) + (SourceFunds + collected))
      BY <2>2, <3>2 DEF PAYMENT_COEFF
    <3>4. Balanced'
      BY <2>3, <3>1, <3>2, <3>3, Zenon DEF Balanced
    <3> QED
      BY <2>1, <2>3, <3>4 DEF MoneyInv, floor
  <2>4. /\ Flying + 0 = Flying /\ Funds + 0 = Funds
        /\ SourceFunds + 0 = SourceFunds /\ 0 \in Int /\ floor * 0 = 0
    BY <2>2
  <2>5. ASSUME NEW amount \in SourceAmounts \cup {0}, Sends(amount)
        PROVE  MoneyInv'
    <3>1. amount \in Nat
      BY <2>1, ExactPrice DEF MoneyInv
    <3>2. /\ TermsStep(0) /\ Funds' = Funds
          /\ UNCHANGED <<config, whitelistedSubmitter>>
      BY <2>5, NothingBought
         DEF Sends, listingsVars, listingVars, submitVars, ownerVars, Funds
    <3>3. Flying' = Flying + amount /\ SourceFunds' = SourceFunds + amount
      BY <2>1, <2>5, SentIsFlying DEF Sends
    <3>4. floor * 0 + PAYMENT_COEFF * amount = PAYMENT_COEFF * (0 + amount)
      BY <2>4, <3>1 DEF PAYMENT_COEFF
    <3> HIDE DEF floor
    <3> QED
      BY <2>3, <2>4, <3>1, <3>2, <3>3, <3>4 DEF floor
  <2>6. ASSUME NEW i \in DOMAIN messages, Executes(i)
        PROVE  MoneyInv'
    <3> DEFINE user == messages[i].sender
               amount == messages[i].paymentAmount
               credit == Price(amount)
    <3>1. user \in Users /\ amount \in SourceAmounts \cup {0}
      BY <2>1, MessageFields
    <3>2. amount \in Nat /\ credit \in Nat /\ floor * credit = PAYMENT_COEFF * amount
      BY <2>1, <3>1, ExactPrice DEF MoneyInv
    <3>3. PICK relayer \in Relayers : Handle(relayer, messages[i])
      BY <2>6 DEF Executes
    <3>4. CallsFor(relayer, user, amount) /\ relayer # user
      BY <2>1, <3>1, <3>3, HandledIsCall
    <3>5. UNCHANGED <<config, whitelistedSubmitter>>
      BY <3>1, <3>2, <3>4, CallsKeep DEF CallStep
    <3>6. TermsStep(credit) /\ Funds' = Funds
      BY <2>1, <3>1, <3>2, <3>4, RelayedBuys DEF MoneyInv, Funds
    <3>7. SourceFunds' = SourceFunds
      BY <2>6 DEF Executes, SourceFunds
    <3>8. Flying = amount + Flying' /\ Flying' \in Nat
      BY <2>1, <2>6, ExecutedIsNotFlying
    <3> DEFINE sent == 0 - amount
    <3> HIDE DEF user, amount, credit, floor
    <3>9. sent \in Int /\ Flying' = Flying + sent
      <4>1. \A a, b, c \in Nat : a = b + c => c = a + (0 - b)
        OBVIOUS
      <4>2. amount \in Nat /\ sent \in Int
        BY <3>2
      <4> QED
        BY <2>2, <3>8, <4>1, <4>2, Zenon DEF sent
    <3>10. floor * credit + PAYMENT_COEFF * sent = PAYMENT_COEFF * (0 + 0)
      BY <3>2 DEF PAYMENT_COEFF
    <3> HIDE DEF sent
    <3> QED
      BY <2>3, <2>4, <3>2, <3>5, <3>6, <3>7, <3>9, <3>10 DEF floor
  <2>7. ASSUME [ListingsNext]_listingsVars, UNCHANGED messages,
               SourceFunds' = SourceFunds
        PROVE  MoneyInv'
    <3>1. PICK amount \in PaymentAmounts \cup {0} :
                 /\ TermsStep(Price(amount))
                 /\ Funds' = Funds + amount
                 /\ amount # 0 => config["submitFloorPrice"] # 0
      BY <2>1, <2>7, StepBuys
    <3> DEFINE credit == Price(amount)
    <3>2. amount \in Nat /\ credit \in Nat /\ floor * credit = PAYMENT_COEFF * amount
      BY <2>1, ExactPrice DEF MoneyInv
    <3>3. /\ config'["submitFloorPrice"] = floor
          /\ config'["editCoeffMultiplier"] = config["editCoeffMultiplier"]
          /\ UNCHANGED whitelistedSubmitter
      BY <2>1, <2>7, SettingStands, WhitelistStands DEF Parameters, CallsNext
    <3>4. Flying' = Flying
      BY <2>7 DEF Flying, InFlight
    <3> HIDE DEF credit, floor
    <3>5. floor * credit + PAYMENT_COEFF * 0 = PAYMENT_COEFF * (amount + 0)
      BY <3>2 DEF PAYMENT_COEFF
    <3>6. TermsStep(credit)
      BY <3>1 DEF credit
    <3> QED
      BY <2>3, <2>4, <2>7, <3>1, <3>2, <3>3, <3>4, <3>5, <3>6 DEF floor
  <2> QED
    BY <2>1, <2>5, <2>6, <2>7 DEF CrossStep
<1>3. MoneyInv => PaymentsAreCreditedOrInFlight
  BY BalancedIsProperty DEF MoneyInv
<1> QED
  BY <1>1, <1>2, <1>3, PTL DEF CrossChainSafety

=============================================================================
