--------------------------- MODULE ChargePromise ---------------------------
(***************************************************************************)
(* What payment initiation promises for each reference, with no request,   *)
(* queue or worker in sight: an order is placed and never withdrawn; only  *)
(* then is the reference committed to a channel, once and for all; only    *)
(* then is the subscriber charged, through that channel and within a       *)
(* budget, and no charge is ever revised.  PaymentPipeline implements this.*)
(***************************************************************************)
EXTENDS Naturals, Sequences

CONSTANTS
    References,
    Channels,
    Budget       \* the most charges a reference may get

VARIABLES
    ordered,     \* the references with an order
    committed,   \* the channel a reference is charged through, or "none"
    charged      \* the channels of its charges, in order

vars == <<ordered, committed, charged>>

Init ==
    /\ ordered = {}
    /\ committed = [r \in References |-> "none"]
    /\ charged = [r \in References |-> <<>>]

Place(r) ==
    /\ ordered' = ordered \cup {r}
    /\ UNCHANGED <<committed, charged>>

Commit(r) ==
    /\ r \in ordered
    /\ committed[r] = "none"
    /\ \E channel \in Channels : committed' = [committed EXCEPT ![r] = channel]
    /\ UNCHANGED <<ordered, charged>>

Charge(r) ==
    /\ committed[r] # "none"
    /\ Len(charged[r]) < Budget
    /\ charged' = [charged EXCEPT ![r] = Append(@, committed[r])]
    /\ UNCHANGED <<ordered, committed>>

Next == \E r \in References : Place(r) \/ Commit(r) \/ Charge(r)

Spec == Init /\ [][Next]_vars

=============================================================================
