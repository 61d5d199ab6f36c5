--------------------------- MODULE SettlementOnce ---------------------------
(***************************************************************************)
(* What the webhook side promises for each transaction, with no handler,   *)
(* lock or failure in sight: it is settled at most once, with one outcome  *)
(* that is never revised; RabbitMQ's consumers hear of it at most once and *)
(* Aspin at most once, each only after it is settled and each the outcome  *)
(* it was settled with.  CallbackHandler implements this.                  *)
(***************************************************************************)
EXTENDS PaymentVocabulary

CONSTANT Transactions

VARIABLES
    settled,    \* "open", or the outcome the transaction was settled with
    announced,  \* the statuses published, in order
    told        \* the statuses Aspin was sent, in order

vars == <<settled, announced, told>>

Init ==
    /\ settled = [t \in Transactions |-> "open"]
    /\ announced = [t \in Transactions |-> <<>>]
    /\ told = [t \in Transactions |-> <<>>]

Settle(t) ==
    /\ settled[t] = "open"
    /\ \E outcome \in Outcomes : settled' = [settled EXCEPT ![t] = outcome]
    /\ UNCHANGED <<announced, told>>

Announce(t) ==
    /\ settled[t] # "open"
    /\ announced[t] = <<>>
    /\ announced' = [announced EXCEPT ![t] = <<settled[t]>>]
    /\ UNCHANGED <<settled, told>>

Tell(t) ==
    /\ settled[t] # "open"
    /\ told[t] = <<>>
    /\ told' = [told EXCEPT ![t] = <<AspinStatus(settled[t])>>]
    /\ UNCHANGED <<settled, announced>>

Next == \E t \in Transactions : Settle(t) \/ Announce(t) \/ Tell(t)

Spec == Init /\ [][Next]_vars

=============================================================================
