------------------------- MODULE PaymentInitiation -------------------------
(***************************************************************************)
(* POST /initiate: PaymentsUseCase.initiatePayment, which picks the        *)
(* partner's executor, and BasePaymentExecutor.initiate: look the          *)
(* reference up, save a row, queue the job that will call the hub.  One    *)
(* action per await, TypeORM's save being a SELECT and then an INSERT or   *)
(* an UPDATE.                                                              *)
(***************************************************************************)
EXTENDS OrderStore

CONSTANT NoReference    \* the request has not been made

VARIABLES
    reqPc,     \* where each request is
    reference, \* the reference it names
    reply      \* what its caller is told

requestVars == <<reqPc, reference, reply>>

RequestRunning == {"find", "select", "insert", "update", "enqueue"}
Replies        == {"none", "unrouted", "accepted", "duplicate", "error"}

RequestInit ==
    /\ reqPc = [q \in Requests |-> "idle"]
    /\ reference = [q \in Requests |-> NoReference]
    /\ reply = [q \in Requests |-> "none"]

Advance(q, label) == reqPc' = [reqPc EXCEPT ![q] = label] /\ UNCHANGED reply

Respond(q, answer) ==
    /\ reqPc' = [reqPc EXCEPT ![q] = "done"]
    /\ reply' = [reply EXCEPT ![q] = answer]

Row(q) == orders[reference[q]]

\* getExecutor, for the partner and the channel the request names, comes first.
Request(q) ==
    /\ reqPc[q] = "idle"
    /\ \E r \in References : reference' = [reference EXCEPT ![q] = r]
    /\ \E partner \in Partners :
          IF HasExecutor(partner, ChannelOf[q])
          THEN Advance(q, "find")
          ELSE Respond(q, "unrouted")
    /\ UNCHANGED orderVars

\* Mutant of RefuseDuplicate: the exception is made but not thrown.
NoteDuplicate(q) ==
    /\ reqPc' = [reqPc EXCEPT ![q] = "select"]
    /\ reply' = [reply EXCEPT ![q] = "duplicate"]

RefuseDuplicate(q) == Respond(q, "duplicate")

\* findByReference.
FindOrder(q) ==
    /\ reqPc[q] = "find"
    /\ \/ Unreliable /\ Respond(q, "error")
       \/ Row(q) # NoOrder /\ RefuseDuplicate(q)
       \/ Row(q) = NoOrder /\ Advance(q, "select")
    /\ UNCHANGED <<orderVars, reference>>

\* save(): SELECT by the primary key ...
SelectOrder(q) ==
    /\ reqPc[q] = "select"
    /\ \/ Unreliable /\ Respond(q, "error")
       \/ Advance(q, IF Row(q) = NoOrder THEN "insert" ELSE "update")
    /\ UNCHANGED <<orderVars, reference>>

WriteOrder(q) == orders' = [orders EXCEPT ![reference[q]] = q]

\* Mutant of InsertOrder: create() not awaited, its errors unseen.
InsertUnawaited(q) ==
    /\ reqPc[q] = "insert"
    /\ Advance(q, "enqueue")
    /\ WriteOrder(q) \/ UNCHANGED orders
    /\ UNCHANGED <<job, jobOf, attempts, stalls, reference>>

\* ... then INSERT, which the key or a NOT NULL column may refuse ...
InsertOrder(q) ==
    /\ reqPc[q] = "insert"
    /\ \/ /\ Row(q) = NoOrder
          /\ TransactionIdNullable
          /\ WriteOrder(q)
          /\ Advance(q, "enqueue")
       \/ /\ Row(q) # NoOrder \/ ~TransactionIdNullable
          /\ Respond(q, "error")
          /\ UNCHANGED orders
       \/ /\ Unreliable
          /\ Row(q) = NoOrder
          /\ TransactionIdNullable
          /\ Respond(q, "error")
          /\ WriteOrder(q) \/ UNCHANGED orders
    /\ UNCHANGED <<job, jobOf, attempts, stalls, reference>>

\* ... or UPDATE, which puts this request's fields in the other's row.
UpdateOrder(q) ==
    /\ reqPc[q] = "update"
    /\ \/ WriteOrder(q) /\ Advance(q, "enqueue")
       \/ /\ Unreliable
          /\ Respond(q, "error")
          /\ WriteOrder(q) \/ UNCHANGED orders
    /\ UNCHANGED <<job, jobOf, attempts, stalls, reference>>

\* Mutant of Enqueue: addPaymentInitiationJob's promise is dropped.
AcceptOnly(q) ==
    /\ reqPc[q] = "enqueue"
    /\ Respond(q, "accepted")
    /\ UNCHANGED <<orderVars, reference>>

\* addPaymentInitiationJob, then the reply.  If it throws, the row stays.
Enqueue(q) ==
    /\ reqPc[q] = "enqueue"
    /\ \/ AddJob(reference[q], q) /\ Respond(q, "accepted")
       \/ /\ Unreliable
          /\ AddJob(reference[q], q) \/ UNCHANGED <<job, jobOf, attempts, stalls>>
          /\ Respond(q, "error")
    /\ UNCHANGED <<orders, reference>>

RequestCrash(q) ==
    /\ Unreliable
    /\ reqPc[q] \in RequestRunning
    /\ Advance(q, "crashed")
    /\ UNCHANGED <<orderVars, reference>>

RequestStep(q) ==
    \/ FindOrder(q) \/ SelectOrder(q) \/ InsertOrder(q) \/ UpdateOrder(q)
    \/ Enqueue(q)

RequestNext == \E q \in Requests : Request(q) \/ RequestStep(q) \/ RequestCrash(q)

-----------------------------------------------------------------------------
RequestTypeOK ==
    /\ reqPc \in [Requests -> RequestRunning \cup {"idle", "done", "crashed"}]
    /\ reference \in [Requests -> References \cup {NoReference}]
    /\ reply \in [Requests -> Replies]

=============================================================================
