---------------------------- MODULE HubFollowed ----------------------------
(***************************************************************************)
(* What webhooks and status checks together promise of a charge that the   *)
(* hub decides, with no handler, lock or question in sight: a row that is  *)
(* there records the verdict, once and for all; only then is anything      *)
(* announced or told, any number of times, and always the verdict.  A      *)
(* charge without a row is never spoken of.  PaymentExecutor implements    *)
(* this with a hub that posts verdicts only.                               *)
(***************************************************************************)
EXTENDS PaymentVocabulary, Sequences

CONSTANT Transactions

VARIABLES
    verdict,    \* the hub's, or "pending"
    recorded,   \* the row's status, or "none"
    announced,  \* the statuses published, in order
    told        \* the statuses Aspin was sent, in order

vars == <<verdict, recorded, announced, told>>

Init ==
    /\ verdict = [t \in Transactions |-> "pending"]
    /\ recorded \in [Transactions -> {"none", "pending"}]
    /\ announced = [t \in Transactions |-> <<>>]
    /\ told = [t \in Transactions |-> <<>>]

Decide(t) ==
    /\ verdict[t] = "pending"
    /\ \E outcome \in Final : verdict' = [verdict EXCEPT ![t] = outcome]
    /\ UNCHANGED <<recorded, announced, told>>

Record(t) ==
    /\ recorded[t] = "pending"
    /\ verdict[t] # "pending"
    /\ recorded' = [recorded EXCEPT ![t] = verdict[t]]
    /\ UNCHANGED <<verdict, announced, told>>

Announce(t) ==
    /\ recorded[t] \in Final
    /\ announced' = [announced EXCEPT ![t] = Append(@, recorded[t])]
    /\ UNCHANGED <<verdict, recorded, told>>

Tell(t) ==
    /\ recorded[t] \in Final
    /\ told' = [told EXCEPT ![t] = Append(@, recorded[t])]
    /\ UNCHANGED <<verdict, recorded, announced>>

Next == \E t \in Transactions : Decide(t) \/ Record(t) \/ Announce(t) \/ Tell(t)

Spec == Init /\ [][Next]_vars

=============================================================================
