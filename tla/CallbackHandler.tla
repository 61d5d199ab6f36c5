-------------------------- MODULE CallbackHandler --------------------------
(***************************************************************************)
(* BasePaymentExecutor.handleCallback: what a webhook delivery of the      *)
(* payment hub does, one action per await, so that deliveries for the same *)
(* transaction interleave wherever the event loop, or a second instance of *)
(* the service, lets them.                                                 *)
(*                                                                         *)
(* A delivery takes the Redis lock `callback:<partner>:<txn>' (SET NX EX   *)
(* 30), or, if it is taken, answers from the row.  With the lock it reads  *)
(* the row, checks the signature, writes {status, processed: true} and     *)
(* tells RabbitMQ and Aspin; the `finally' block deletes the lock key.     *)
(***************************************************************************)
EXTENDS PaymentStore

CONSTANTS
    Free,                 \* no lock key in Redis
    NoDelivery,           \* the callback has not been sent
    Signatures,           \* BOOLEAN, or {TRUE}: every delivery is well signed
    LeaseOutlivesHandler  \* is the 30 s expiry longer than any handler runs?

ASSUME CallbackAssumption ==
    /\ Free \notin Callbacks
    /\ Signatures \subseteq BOOLEAN
    /\ LeaseOutlivesHandler \in BOOLEAN

VARIABLES
    pc,        \* where each delivery's handler is
    delivery,  \* what it carries
    answer,    \* what its try block leaves to return or throw
    lock,      \* the lock key, by transaction; the code's value is '1' for all
               \* holders: that we name the holder is for the properties only
    settlers   \* history: the callbacks whose update reached the row

handlerVars  == <<pc, delivery, answer>>
callbackVars == <<pc, delivery, answer, lock, settlers>>
vars         == <<storeVars, callbackVars>>

\* The steps with the lock held, in the order the code takes them.
Critical == {"find", "validate", "update", "publish", "notify", "release"}
Running  == {"sent", "busy"} \cup Critical
Answers  == {"none", "processed", "notFound", "rejected", "error"}
RawStatuses == UNION {CallbackSpelling[o] : o \in Outcomes}

Txn(c)    == delivery[c].txn
Status(c) == ExtractStatus(delivery[c].raw)

CallbackInit ==
    /\ pc = [c \in Callbacks |-> "idle"]
    /\ delivery = [c \in Callbacks |-> NoDelivery]
    /\ answer = [c \in Callbacks |-> "none"]
    /\ lock = [t \in Transactions |-> Free]
    /\ settlers = [t \in Transactions |-> {}]

Init == StoreInit /\ CallbackInit

-----------------------------------------------------------------------------
Goto(c, label) == pc' = [pc EXCEPT ![c] = label]

\* The try block ends, with a value or an exception: on to `finally'.
Leave(c, a) == Goto(c, "release") /\ answer' = [answer EXCEPT ![c] = a]

Finish(c, a) == Goto(c, "done") /\ answer' = [answer EXCEPT ![c] = a]

\* The hub posts the outcome it has reached, in one of its spellings; the
\* request may arrive long after.  A signature that does not match the
\* partner's secret says nothing about the sender: its status is any word.
Send(c) ==
    /\ pc[c] = "idle"
    /\ \E t \in Transactions, signed \in Signatures :
          \E raw \in IF signed THEN CallbackSpelling[hub[t]] ELSE RawStatuses :
             delivery' = [delivery EXCEPT ![c] =
                             [txn |-> t, raw |-> raw, signed |-> signed]]
    /\ Goto(c, "sent")
    /\ UNCHANGED <<storeVars, answer, lock, settlers>>

\* Mutant of SetLock: SET without NX.
SetLockAlways(t, c) == lock' = [lock EXCEPT ![t] = c]

\* SET key '1' NX EX 30, answered `OK'.
SetLock(t, c) == lock[t] = Free /\ lock' = [lock EXCEPT ![t] = c]

\* acquireCallbackLock.  If Redis fails, the key may have been set all the
\* same, and nobody will delete it.
AcquireLock(c) ==
    /\ pc[c] = "sent"
    /\ \/ /\ SetLock(Txn(c), c)
          /\ Goto(c, "find")
          /\ UNCHANGED answer
       \/ /\ lock[Txn(c)] # Free
          /\ Goto(c, "busy")
          /\ UNCHANGED <<lock, answer>>
       \/ /\ Unreliable
          /\ Finish(c, "error")
          /\ SetLock(Txn(c), c) \/ UNCHANGED lock
    /\ UNCHANGED <<storeVars, delivery, settlers>>

\* Somebody holds the lock: answer with the row as it is.  handleWebhook
\* turns every answer into `processed: true'.
AnswerBusy(c) ==
    /\ pc[c] = "busy"
    /\ \E found \in Attempt :
          Finish(c, CASE ~found         -> "error"
                      [] ~Known(Txn(c)) -> "notFound"
                      [] OTHER          -> "processed")
    /\ UNCHANGED <<storeVars, delivery, lock, settlers>>

\* Mutants of Duplicate: no such check; by the status instead of the flag.
NeverDuplicate(c)    == FALSE
DuplicateByStatus(c) == payments[Txn(c)].status \in Final

Duplicate(c) == payments[Txn(c)].processed

\* findByTransactionId, and the check for a duplicate.
FindPayment(c) ==
    /\ pc[c] = "find"
    /\ \/ Unreliable /\ Leave(c, "error")
       \/ ~Known(Txn(c)) /\ Leave(c, "notFound")
       \/ /\ Known(Txn(c))
          /\ Duplicate(c)
          /\ Leave(c, "processed")
       \/ /\ Known(Txn(c))
          /\ ~Duplicate(c)
          /\ Goto(c, "validate")
          /\ UNCHANGED answer
    /\ UNCHANGED <<storeVars, delivery, lock, settlers>>

\* Mutant of ValidSignature: every signature will do.
AnySignature(c) == TRUE

\* validateCallback: the payload's HMAC under the partner's webhookSecret.
ValidSignature(c) == delivery[c].signed

\* loadConfig throws: the secrets' store fails, or knows no such partner.
ConfigFails(c) == Unreliable /\ Leave(c, "error")

\* loadConfig, then validateCallback.
Validate(c) ==
    /\ pc[c] = "validate"
    /\ \/ ConfigFails(c)
       \/ ~ValidSignature(c) /\ Leave(c, "rejected")
       \/ ValidSignature(c) /\ Goto(c, "update") /\ UNCHANGED answer
    /\ UNCHANGED <<storeVars, delivery, lock, settlers>>

SettleRow(c) ==
    /\ Settle(Txn(c), Status(c))
    /\ settlers' = [settlers EXCEPT ![Txn(c)] = @ \cup {c}]

\* A failed UPDATE may have been committed before the connection broke.
UpdatePayment(c) ==
    /\ pc[c] = "update"
    /\ \/ SettleRow(c) /\ Goto(c, "publish") /\ UNCHANGED answer
       \/ /\ Unreliable
          /\ SettleRow(c) \/ UNCHANGED <<payments, held, settlers>>
          /\ Leave(c, "error")
    /\ UNCHANGED <<hub, events, notices, delivery, lock>>

\* publishPaymentResult, its first half: the RabbitMQ message.
PublishResult(c) ==
    /\ pc[c] = "publish"
    /\ Publish(Txn(c), Status(c), c)
    /\ Goto(c, "notify")
    /\ UNCHANGED <<payments, hub, notices, held, delivery, answer, lock, settlers>>

\* Its second half: Aspin's status update.
NotifyResult(c) ==
    /\ pc[c] = "notify"
    /\ NotifyAspin(Txn(c), Status(c), c)
    /\ Leave(c, "processed")
    /\ UNCHANGED <<payments, hub, events, held, delivery, lock, settlers>>

\* The `finally' block: DEL of the key, whoever has set it.  If DEL throws,
\* its exception replaces the answer.
ReleaseLock(c) ==
    /\ pc[c] = "release"
    /\ \/ /\ lock' = [lock EXCEPT ![Txn(c)] = Free]
          /\ Finish(c, answer[c])
       \/ /\ Unreliable
          /\ \/ UNCHANGED lock
             \/ lock' = [lock EXCEPT ![Txn(c)] = Free]
          /\ Finish(c, "error")
    /\ UNCHANGED <<storeVars, delivery, settlers>>

\* The process dies: the hub gets no answer, `finally' does not run.
Crash(c) ==
    /\ Unreliable
    /\ pc[c] \in Running
    /\ Goto(c, "crashed")
    /\ UNCHANGED <<storeVars, delivery, answer, lock, settlers>>

\* Mutant of LockExpires: SET without EX.
LockStays(t) == FALSE

\* Redis drops the key when its 30 s have passed.  Under
\* LeaseOutlivesHandler that is never while its holder still runs.
LockExpires(t) ==
    /\ lock[t] # Free
    /\ LeaseOutlivesHandler => pc[lock[t]] \notin Critical
    /\ lock' = [lock EXCEPT ![t] = Free]
    /\ UNCHANGED <<storeVars, handlerVars, settlers>>

-----------------------------------------------------------------------------
HandlerStep(c) ==
    \/ AcquireLock(c) \/ AnswerBusy(c) \/ FindPayment(c) \/ Validate(c)
    \/ UpdatePayment(c) \/ PublishResult(c) \/ NotifyResult(c) \/ ReleaseLock(c)

CallbackNext ==
    \/ \E c \in Callbacks : Send(c) \/ HandlerStep(c) \/ Crash(c)
    \/ \E t \in Transactions : LockExpires(t)

Next == CallbackNext \/ (HubSettles /\ UNCHANGED callbackVars)

\* Node runs every handler whose await has been answered, and every call it
\* awaits has a timeout or fails with its connection; Redis drops expired keys.
Fairness ==
    /\ \A c \in Callbacks : WF_vars(HandlerStep(c))
    /\ \A t \in Transactions : WF_vars(LockExpires(t))

Spec     == Init /\ [][Next]_vars
FairSpec == Spec /\ Fairness

-----------------------------------------------------------------------------
Delivery == [txn : Transactions, raw : RawStatuses, signed : BOOLEAN]

\* Every variable stays in its type, and only an idle callback has no
\* delivery.
TypeOK ==
    /\ StoreTypeOK
    /\ pc \in [Callbacks -> Running \cup {"idle", "done", "crashed"}]
    /\ delivery \in [Callbacks -> Delivery \cup {NoDelivery}]
    /\ \A c \in Callbacks : pc[c] # "idle" => delivery[c] \in Delivery
    /\ answer \in [Callbacks -> Answers]
    /\ lock \in [Transactions -> Callbacks \cup {Free}]
    /\ settlers \in [Transactions -> SUBSET Callbacks]

\* The lock does its work: of the deliveries for one transaction at most one
\* is between acquireCallbackLock and releaseCallbackLock.
MutualExclusion ==
    \A c, d \in Callbacks :
        /\ pc[c] \in Critical
        /\ pc[d] \in Critical
        /\ Txn(c) = Txn(d)
        => c = d

\* However often the hub delivers, and whatever fails in between, at most one
\* delivery settles a transaction: `processed' is read and set under the lock.
SettledOnce ==
    \A t \in Transactions : \A c, d \in settlers[t] : c = d

Settled(t) == Known(t) /\ payments[t].processed

\* A row is marked processed only by a delivery for that transaction whose
\* signature was good, with the status that delivery carried.
SettledByTheHub ==
    \A t \in Transactions :
        Settled(t) =>
            \E c \in settlers[t] : /\ Txn(c) = t
                                  /\ delivery[c].signed
                                  /\ Status(c) = payments[t].status

\* Why all that holds: the lock's holder is alone (under LeaseOutlivesHandler),
\* so what it found when it read the row still stands when it writes, and
\* nobody else can have published in between.  This is inductive together
\* with TypeOK.
HoldsLock(c) == pc[c] \in Critical => lock[Txn(c)] = c

Foresees(c) ==
    /\ pc[c] \in {"validate", "update"} => Known(Txn(c)) /\ ~Settled(Txn(c))
    /\ pc[c] = "update" => delivery[c].signed
    /\ pc[c] \in {"publish", "notify"} => c \in settlers[Txn(c)]
    /\ pc[c] = "publish" => events[Txn(c)] = <<>>
    /\ pc[c] \in {"publish", "notify"} => notices[Txn(c)] = <<>>

Outbox(t) ==
    /\ ~Settled(t) => /\ settlers[t] = {}
                      /\ events[t] = <<>>
                      /\ notices[t] = <<>>
    /\ Settled(t) => \E c \in Callbacks : settlers[t] = {c}
    /\ \A c \in settlers[t] : /\ pc[c] # "idle"
                             /\ Txn(c) = t
                             /\ delivery[c].signed
                             /\ Status(c) = payments[t].status
    /\ events[t] # <<>> =>
          Len(events[t]) = 1 /\ events[t][1].status = payments[t].status
    /\ notices[t] # <<>> =>
          Len(notices[t]) = 1 /\ notices[t][1].status = AspinStatus(payments[t].status)

SettlementInv ==
    /\ \A c \in Callbacks : HoldsLock(c) /\ Foresees(c)
    /\ \A t \in Transactions : Outbox(t)

\* The promise of SettlementOnce, read off the table and the two outboxes.
StatusesOf(messages) ==
    [t \in Transactions |->
        [i \in DOMAIN messages[t] |-> messages[t][i].status]]

Settlement == INSTANCE SettlementOnce WITH
    settled   <- [t \in Transactions |->
                     IF Settled(t) THEN payments[t].status ELSE "open"],
    announced <- StatusesOf(events),
    told      <- StatusesOf(notices)

\* Each transaction is settled, published and notified at most once, in that
\* order, with one and the same outcome.
SettlesOnce == Settlement!Spec

-----------------------------------------------------------------------------
\* No key is left in Redis for good: a holder that dies, or whose DEL fails,
\* does not lock a transaction's later deliveries out.
LockIsFreed ==
    \A t \in Transactions : lock[t] # Free ~> lock[t] = Free

\* Every delivery that arrives is answered unless its process dies.
DeliveryEnds ==
    \A c \in Callbacks : pc[c] = "sent" ~> pc[c] \in {"done", "crashed"}

\* When nothing fails, a well-signed delivery for a known payment leads to a
\* settled row, a message and a notice, though the delivery that finds the
\* lock taken does none of it itself.
DeliverySettles ==
    \A c \in Callbacks, t \in Transactions :
        (/\ pc[c] = "sent"
         /\ Txn(c) = t
         /\ delivery[c].signed
         /\ Known(t))
        ~> (/\ Settled(t)
            /\ events[t] # <<>>
            /\ notices[t] # <<>>)

\* What the webhook's reply says, `processed: true' and `Payment notification
\* processed successfully': the notification has been, or will be, processed.
AnsweredIsProcessed ==
    \A c \in Callbacks, t \in Transactions :
        (/\ pc[c] = "done"
         /\ answer[c] = "processed"
         /\ Txn(c) = t)
        ~> Settled(t)

=============================================================================
