---------------------------- MODULE PaymentStore ----------------------------
(***************************************************************************)
(* The state every handler of a payment shares: the payments table         *)
(* (PaymentRepositoryImpl), what the payment hub knows of the charge, the  *)
(* RabbitMQ exchange `payment.events' and the notices sent to Aspin.  The  *)
(* operators below are the repository and messaging calls; the handlers'   *)
(* modules EXTEND this one and call them from their actions.               *)
(***************************************************************************)
EXTENDS PaymentVocabulary, Sequences

CONSTANTS
    Transactions,     \* transaction ids the hub may report on
    Callbacks,        \* deliveries of a webhook call, each handled once
    Checks,           \* status checks, by request or by a status-check job
    NoPayment,        \* findByTransactionId returned null
    CallbackSpelling, \* the raw statuses a hub's webhook uses for an outcome
    QuerySpelling,    \* the raw statuses a hub's status query answers with
    MayOmit,          \* may a query's answer lack the field `status'?
    Unreliable        \* may an external call fail, or a process die?

\* A hub may spell an outcome in words the code does not know, but never
\* says `completed' or `failed', in any spelling, of another outcome.
Truthful(spelling) ==
    \A outcome \in Outcomes : \A raw \in spelling[outcome] :
        ExtractStatus(raw) \in {outcome, "pending"}

Handlers == Callbacks \cup Checks

\* The words a row's status column can hold: the three the executor writes
\* itself, and a status query's raw answer, stored unread.
Statuses  == Outcomes \cup UNION {QuerySpelling[o] : o \in Outcomes}
Row       == [status : Statuses, processed : BOOLEAN]
Event     == [by : Handlers, status : Statuses]
Notice    == [by : Handlers, status : Final]

ASSUME StoreAssumption ==
    /\ NoPayment \notin Row
    /\ Callbacks \cap Checks = {}
    /\ DOMAIN CallbackSpelling = Outcomes
    /\ DOMAIN QuerySpelling = Outcomes
    /\ MayOmit \in BOOLEAN
    /\ Unreliable \in BOOLEAN

ASSUME TruthfulAssumption ==
    Truthful(CallbackSpelling) /\ Truthful(QuerySpelling)

VARIABLES
    payments,  \* the table, by transaction id
    hub,       \* the outcome the hub has reached, by transaction
    events,    \* messages accepted by the exchange, by transaction, in order
    notices,   \* status updates Aspin received, by transaction, in order
    held       \* history: every status a row has held

storeVars == <<payments, hub, events, notices, held>>

NewRow == [status |-> "pending", processed |-> FALSE]

\* Some transactions have a row and some are unknown here.
StoreInit ==
    /\ payments \in [Transactions -> {NoPayment, NewRow}]
    /\ hub = [t \in Transactions |-> "pending"]
    /\ events = [t \in Transactions |-> <<>>]
    /\ notices = [t \in Transactions |-> <<>>]
    /\ held = [t \in Transactions |->
                  IF payments[t] = NoPayment THEN {} ELSE {"pending"}]

Known(t) == payments[t] # NoPayment

\* How one external call may end: TRUE if it succeeds.
Attempt == IF Unreliable THEN BOOLEAN ELSE {TRUE}

-----------------------------------------------------------------------------
\* UPDATE payments SET ... WHERE transactionId = t: no condition on the row's
\* present status or processed flag, and no row means no effect.
WriteRow(t, row) ==
    IF Known(t)
    THEN /\ payments' = [payments EXCEPT ![t] = row]
         /\ held' = [held EXCEPT ![t] = @ \cup {row.status}]
    ELSE UNCHANGED <<payments, held>>

\* updateStatus writes the one column.
UpdateStatus(t, status) ==
    WriteRow(t, [payments[t] EXCEPT !.status = status])

\* Mutant of Settle: the flag alone.
SettleFlagOnly(t, status) == WriteRow(t, [payments[t] EXCEPT !.processed = TRUE])

\* update(transactionId, {status, processed: true}).
Settle(t, status) == WriteRow(t, [status |-> status, processed |-> TRUE])

\* publishPaymentCompleted, Failed or Pending: the routing key is the status
\* and the partner.  RabbitMQService.publish sends nothing when there is no
\* channel or the client throws; the executor ignores what it returns.
Publish(t, status, by) ==
    \E accepted \in Attempt :
        events' = IF accepted
                  THEN [events EXCEPT ![t] = Append(@, [by |-> by, status |-> status])]
                  ELSE events

\* AspinAdapter.notifyPaymentStatus inside publishPaymentResult: a failure is
\* logged and swallowed, and nothing tries again.
NotifyAspin(t, status, by) ==
    \E received \in Attempt :
        notices' = IF received
                   THEN [notices EXCEPT ![t] =
                            Append(@, [by |-> by, status |-> AspinStatus(status)])]
                   ELSE notices

\* The subscriber enters the PIN, declines or lets the prompt time out.
HubSettles ==
    \E t \in Transactions, outcome \in Final :
        /\ hub[t] = "pending"
        /\ hub' = [hub EXCEPT ![t] = outcome]
        /\ UNCHANGED <<payments, events, notices, held>>

-----------------------------------------------------------------------------
StoreTypeOK ==
    /\ payments \in [Transactions -> Row \cup {NoPayment}]
    /\ hub \in [Transactions -> Outcomes]
    /\ events \in [Transactions -> Seq(Event)]
    /\ notices \in [Transactions -> Seq(Notice)]
    /\ held \in [Transactions -> SUBSET Statuses]

\* Nobody hears of an outcome the table never held: the row is written before
\* the message and the notice are sent, and a failed write sends neither.
AnnouncedWasRecorded ==
    \A t \in Transactions :
        /\ \A i \in DOMAIN events[t] : events[t][i].status \in held[t]
        /\ \A i \in DOMAIN notices[t] :
              \E status \in held[t] : notices[t][i].status = AspinStatus(status)

\* A row says `completed' or `failed' only of a charge that has: a handler
\* writes what the hub reported, and the hub's verdict does not change.
RowIsTrue ==
    \A t \in Transactions :
        Known(t) /\ payments[t].status \in Final => hub[t] = payments[t].status

\* Aspin is told `completed' only of a charge the hub completed, whatever
\* spellings the hub uses and however the handlers interleave.
SuccessIsTrue ==
    \A t \in Transactions : \A i \in DOMAIN notices[t] :
        notices[t][i].status = "completed" => hub[t] = "completed"

\* Aspin is told `failed' only of a charge that failed.
FailureIsTrue ==
    \A t \in Transactions : \A i \in DOMAIN notices[t] :
        notices[t][i].status = "failed" => hub[t] = "failed"

=============================================================================
