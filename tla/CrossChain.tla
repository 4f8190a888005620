----------------------------- MODULE CrossChain -----------------------------
(***************************************************************************)
(* Listings submitted from another chain.  MobulaCrosschainSender.sol      *)
(* collects the payment on the source chain and hands a payload to Axelar; *)
(* _execute of MobulaTokensProtocol.sol acts on it on the destination      *)
(* chain.  The two chains share nothing but the messages.                  *)
(*                                                                         *)
(* Axelar is external, as far as the contracts rely on it: the gateway     *)
(* approves a message some time after it was sent, anybody may then call   *)
(* execute, and a message is consumed by the execution that succeeds.  An  *)
(* execution that reverts leaves the message as it was, to be tried again. *)
(* So messages are delayed, reordered and perhaps never executed, but none *)
(* is executed twice.  Gas is taken as paid.                               *)
(***************************************************************************)
EXTENDS Listings

CONSTANTS
    CrosschainSender,     \* balance of the sender contract
    Relayer,              \* an account that only relays
    Relayers,             \* accounts that call execute
    InitialSourceStable,  \* stablecoins a user holds on the source chain
    SourceAmounts,        \* amounts offered on the source chain
    MaxMessages           \* bound: messages ever sent

SourceAccounts == Users \cup {CrosschainSender, Treasury}

ASSUME CrossChainAssumption ==
    /\ CrosschainSender \notin Users \cup {Treasury}
    /\ Relayer \notin Accounts
    /\ Relayers \subseteq Users \cup {Relayer}
    /\ InitialSourceStable \in Nat
    /\ SourceAmounts \subseteq Nat
    /\ MaxMessages \in Nat

VARIABLES
    sourceStable,               \* source account -> stablecoin balance
    destinationSet,             \* the destination is the protocol
    whitelistedAxelarContract,  \* the protocol accepts the sender contract
    messages                    \* payloads sent, with what became of them

sourceVars == <<sourceStable, destinationSet, messages>>
crossVars == <<listingsVars, sourceVars, whitelistedAxelarContract>>

(* The sender is deployed without a destination and not yet whitelisted. *)
CrossChainInit ==
    /\ ListingsInit
    /\ sourceStable = [a \in SourceAccounts |->
                          IF a \in Users THEN InitialSourceStable ELSE 0]
    /\ destinationSet = FALSE
    /\ whitelistedAxelarContract = FALSE
    /\ messages = <<>>

-----------------------------------------------------------------------------
(* Source chain: collect the payment, if any, and send the payload.  A      *)
(* payload sent while the destination is wrong reaches no protocol.         *)

Collect(user, amount) ==
    /\ sourceStable[user] >= amount
    /\ sourceStable' = Transfer(sourceStable, user, CrosschainSender, amount)

Send(method, user, tokenId, amount, v) ==
    /\ Len(messages) < MaxMessages
    /\ messages' = Append(messages,
           [method |-> method, sender |-> user, tokenId |-> tokenId,
            paymentAmount |-> amount, voteId |-> v,
            state |-> IF destinationSet THEN "Approved" ELSE "Misdirected"])
    /\ UNCHANGED <<listingsVars, destinationSet, whitelistedAxelarContract>>

SubmitTokenAxelar(user, amount, tokenId) ==
    Collect(user, amount) /\ Send("SubmitToken", user, tokenId, amount, 0)

TopUpTokenAxelar(user, v, amount) ==
    Collect(user, amount) /\ Send("TopUpToken", user, 0, amount, v)

UpdateTokenAxelar(user, v) ==
    Send("UpdateToken", user, 0, 0, v) /\ UNCHANGED sourceStable

SetDestination(b) ==
    /\ destinationSet' = b
    /\ UNCHANGED <<listingsVars, sourceStable, messages,
                   whitelistedAxelarContract>>

WithdrawSourceFunds(amount) ==
    /\ sourceStable[CrosschainSender] >= amount
    /\ sourceStable' =
           Transfer(sourceStable, CrosschainSender, Treasury, amount)
    /\ UNCHANGED <<listingsVars, destinationSet, messages,
                   whitelistedAxelarContract>>

-----------------------------------------------------------------------------
(* Destination chain *)

WhitelistAxelarContract(b) ==
    /\ whitelistedAxelarContract' = b
    /\ UNCHANGED <<listingsVars, sourceVars>>

Handle(relayer, m) ==
    \/ /\ m.method = "SubmitToken"
       /\ SubmitTokenFor(relayer, m.sender, m.paymentAmount, m.tokenId)
    \/ /\ m.method = "UpdateToken"
       /\ UpdateTokenFor(m.sender, m.voteId)
    \/ /\ m.method = "TopUpToken"
       /\ TopUpTokenFor(relayer, m.sender, m.voteId, m.paymentAmount)

(* What cannot be handled reverts, and the message stays.  Mutants: a       *)
(* top-up of a listing that is not there yet is consumed all the same; only *)
(* messages with a payment are handled.                                     *)
HandleOrDrop(relayer, m) ==
    IF m.method = "TopUpToken" /\ m.voteId >= tokenListingsLength
    THEN UNCHANGED listingsVars
    ELSE Handle(relayer, m)
HandlePaid(relayer, m) == m.paymentAmount # 0 /\ Handle(relayer, m)
HandleOrRevert(relayer, m) == Handle(relayer, m)

(* execute by a relayer: msg.sender of _execute is whoever calls it. *)
Execute(relayer, i) ==
    /\ i \in DOMAIN messages
    /\ messages[i].state = "Approved"
    /\ whitelistedAxelarContract
    /\ HandleOrRevert(relayer, messages[i])
    /\ messages' = [messages EXCEPT ![i].state = "Executed"]
    /\ UNCHANGED <<sourceStable, destinationSet, whitelistedAxelarContract>>

-----------------------------------------------------------------------------

SourceStep ==
    \/ \E user \in Users, amount \in SourceAmounts :
           \/ \E tokenId \in 0..1 : SubmitTokenAxelar(user, amount, tokenId)
           \/ \E v \in VoteIds : TopUpTokenAxelar(user, v, amount)
    \/ \E user \in Users, v \in VoteIds : UpdateTokenAxelar(user, v)
    \/ \E b \in BOOLEAN : SetDestination(b)
    \/ \E amount \in WithdrawAmounts : WithdrawSourceFunds(amount)

DestinationStep ==
    \/ \E relayer \in Relayers, i \in 1..MaxMessages : Execute(relayer, i)
    \/ \E b \in BOOLEAN : WhitelistAxelarContract(b)

(* What happens on the destination chain without Axelar. *)
LocalStep ==
    /\ ListingsNext
    /\ UNCHANGED <<sourceVars, whitelistedAxelarContract>>

CrossChainNext == SourceStep \/ DestinationStep \/ LocalStep

CrossChainSafety == CrossChainInit /\ [][CrossChainNext]_crossVars

(* Axelar's relayers try an approved message again and again. *)
CrossChainSpec ==
    /\ CrossChainSafety
    /\ \A i \in 1..MaxMessages : SF_crossVars(Execute(Relayer, i))

-----------------------------------------------------------------------------
(* Properties *)

(* Every stablecoin collected on either chain is behind a coefficient or in *)
(* a message that has not been executed, and behind only one: no payment is *)
(* lost when an execution reverts, comes late or in another order, and none *)
(* is credited twice.  (Coefficients granted for edits cost nothing.)       *)
InFlight == {i \in DOMAIN messages : messages[i].state # "Executed"}
PaymentsAreCreditedOrInFlight ==
    config["submitFloorPrice"] *
        SumFunction([v \in Submitted |-> tokenListings[v].coeff - Granted(v)])
    + PAYMENT_COEFF *
        SumFunction([i \in InFlight |-> messages[i].paymentAmount])
    = PAYMENT_COEFF *
        (stable[Protocol] + stable[Treasury]
         + sourceStable[CrosschainSender] + sourceStable[Treasury])

(* A new token submitted from the source chain to the right destination is  *)
(* listed in the end, as long as the protocol keeps whitelisting the        *)
(* sender: no interleaving with other messages, votes, withdrawals or       *)
(* changes of the whitelist makes its execution revert for ever.            *)
NewSubmission(i) ==
    /\ i \in DOMAIN messages
    /\ messages[i].state = "Approved"
    /\ messages[i].method = "SubmitToken"
    /\ messages[i].tokenId = 0
Executed(i) == i \in DOMAIN messages /\ messages[i].state = "Executed"
SubmissionsAreListed ==
    []<>whitelistedAxelarContract =>
        \A i \in 1..MaxMessages : NewSubmission(i) ~> Executed(i)

=============================================================================
