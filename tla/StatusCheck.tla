---------------------------- MODULE StatusCheck ----------------------------
(***************************************************************************)
(* PaymentsUseCase.checkPayment, QueueServiceImpl.processStatusCheckJob    *)
(* and BasePaymentExecutor.statusCheck, which both call: ask the hub how a *)
(* transaction stands and bring the row up to date.  One action per await. *)
(* A check takes no lock and never sets `processed'; what it does after    *)
(* the hub's answer depends on the row as it was read before the question. *)
(***************************************************************************)
EXTENDS PaymentStore

CONSTANT NoCheck    \* the check has not been asked for

VARIABLES
    checkPc,   \* where each check is
    check,     \* its transaction, the row it read and the hub's answer
    checkAnswer

checkVars == <<checkPc, check, checkAnswer>>

CheckRunning == {"route", "read", "query", "record", "publish", "notify"}
CheckAnswers == {"none", "checked", "notFound", "error"}

CheckInit ==
    /\ checkPc = [k \in Checks |-> "idle"]
    /\ check = [k \in Checks |-> NoCheck]
    /\ checkAnswer = [k \in Checks |-> "none"]

CheckGoto(k, label) ==
    checkPc' = [checkPc EXCEPT ![k] = label] /\ UNCHANGED checkAnswer

CheckFinish(k, a) ==
    /\ checkPc' = [checkPc EXCEPT ![k] = "done"]
    /\ checkAnswer' = [checkAnswer EXCEPT ![k] = a]

\* GET /:transactionId/:channel, or a status-check job, which names the
\* partner and channel itself and calls statusCheck at once.  Until they are
\* read, the status column and the hub's answer are a new row's.
StartCheck(k) ==
    /\ checkPc[k] = "idle"
    /\ \E t \in Transactions :
          check' = [check EXCEPT ![k] = [txn |-> t, seen |-> "pending", said |-> "pending"]]
    /\ CheckGoto(k, "route") \/ CheckGoto(k, "read")
    /\ UNCHANGED storeVars

\* checkPayment reads the row to find the executor by partner and channel.
RouteCheck(k) ==
    /\ checkPc[k] = "route"
    /\ \/ Unreliable /\ CheckFinish(k, "error")
       \/ ~Known(check[k].txn) /\ CheckFinish(k, "notFound")
       \/ Known(check[k].txn) /\ CheckGoto(k, "read")
    /\ UNCHANGED <<storeVars, check>>

\* statusCheck reads the row and keeps the object it read.
ReadPayment(k) ==
    /\ checkPc[k] = "read"
    /\ \/ Unreliable /\ CheckFinish(k, "error") /\ UNCHANGED check
       \/ /\ ~Known(check[k].txn)
          /\ CheckFinish(k, "notFound")
          /\ UNCHANGED check
       \/ /\ Known(check[k].txn)
          /\ check' = [check EXCEPT ![k].seen = payments[check[k].txn].status]
          /\ CheckGoto(k, "query")
    /\ UNCHANGED storeVars

\* Mutant of HubSays: an answer cached from before the hub settled.
HubSaid(t) == QuerySpelling["pending"]

\* The status of the adapter's result: `response.status || 'pending''.
HubSays(t) == QuerySpelling[hub[t]] \cup (IF MayOmit THEN {"pending"} ELSE {})

\* queryTransaction, through the channel and the PaymentHub adapter;
\* after 10 s without an answer it throws.
QueryHub(k) ==
    /\ checkPc[k] = "query"
    /\ \/ Unreliable /\ CheckFinish(k, "error") /\ UNCHANGED check
       \/ \E said \in HubSays(check[k].txn) :
             /\ check' = [check EXCEPT ![k].said = said]
             /\ CheckGoto(k, "record")
    /\ UNCHANGED storeVars

\* Mutant of Announces: only bad news.
AnnouncesFailure(status) == status = "failed"

Announces(status) == status \in Final

\* The answer is compared with the row as it was, and stored as it came.
RecordAnswer(k) ==
    /\ checkPc[k] = "record"
    /\ LET t == check[k].txn
           said == check[k].said
       IN  \/ /\ said = check[k].seen
              /\ CheckFinish(k, "checked")
              /\ UNCHANGED <<payments, held>>
           \/ /\ said # check[k].seen
              /\ UpdateStatus(t, said)
              /\ IF Announces(said)
                 THEN CheckGoto(k, "publish")
                 ELSE CheckFinish(k, "checked")
           \/ /\ Unreliable
              /\ said # check[k].seen
              /\ UpdateStatus(t, said) \/ UNCHANGED <<payments, held>>
              /\ CheckFinish(k, "error")
    /\ UNCHANGED <<hub, events, notices, check>>

\* publishPaymentResult, as in CallbackHandler.
PublishChange(k) ==
    /\ checkPc[k] = "publish"
    /\ Publish(check[k].txn, check[k].said, k)
    /\ CheckGoto(k, "notify")
    /\ UNCHANGED <<payments, hub, notices, held, check>>

NotifyChange(k) ==
    /\ checkPc[k] = "notify"
    /\ NotifyAspin(check[k].txn, check[k].said, k)
    /\ CheckFinish(k, "checked")
    /\ UNCHANGED <<payments, hub, events, held, check>>

\* The process dies.
CheckCrash(k) ==
    /\ Unreliable
    /\ checkPc[k] \in CheckRunning
    /\ CheckGoto(k, "crashed")
    /\ UNCHANGED <<storeVars, check>>

CheckStep(k) ==
    \/ RouteCheck(k) \/ ReadPayment(k) \/ QueryHub(k) \/ RecordAnswer(k)
    \/ PublishChange(k) \/ NotifyChange(k)

CheckNext == \E k \in Checks : StartCheck(k) \/ CheckStep(k) \/ CheckCrash(k)

-----------------------------------------------------------------------------
CheckState == [txn : Transactions, seen : Statuses, said : Statuses]

CheckTypeOK ==
    /\ checkPc \in [Checks -> CheckRunning \cup {"idle", "done", "crashed"}]
    /\ check \in [Checks -> CheckState \cup {NoCheck}]
    /\ \A k \in Checks : checkPc[k] # "idle" => check[k] \in CheckState
    /\ checkAnswer \in [Checks -> CheckAnswers]

=============================================================================
