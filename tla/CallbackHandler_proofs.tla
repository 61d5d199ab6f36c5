----------------------- MODULE CallbackHandler_proofs -----------------------
(***************************************************************************)
(* Proofs about CallbackHandler, for any number of transactions and        *)
(* deliveries and for any words the hub may use.                           *)
(***************************************************************************)
EXTENDS CallbackHandler, TLAPS

-----------------------------------------------------------------------------
(* The vocabulary.                                                         *)

\* extractStatusFromCallback returns one of three words.
LEMMA ExtractType == \A raw : ExtractStatus(raw) \in Outcomes
  BY DEF ExtractStatus, Outcomes

\* Aspin is told one of two.
LEMMA AspinType == \A status : AspinStatus(status) \in Final
  BY DEF AspinStatus, Final

-----------------------------------------------------------------------------
(* Types.                                                                  *)

\* The repository and messaging calls keep the store in its type.
LEMMA SettleType ==
  ASSUME StoreTypeOK, NEW t \in Transactions, NEW s \in Outcomes, Settle(t, s)
  PROVE  /\ payments' \in [Transactions -> Row \cup {NoPayment}]
         /\ held' \in [Transactions -> SUBSET Statuses]
  <1> DEFINE row == [status |-> s, processed |-> TRUE]
  <1>1. row \in Row /\ row.status \in Statuses
    BY DEF Row, Statuses
  <1>2. CASE Known(t)
    <2>1. /\ payments' = [payments EXCEPT ![t] = row]
          /\ held' = [held EXCEPT ![t] = @ \cup {row.status}]
      BY <1>2 DEF Settle, WriteRow
    <2> QED
      BY <1>1, <2>1 DEF StoreTypeOK
  <1>3. CASE ~Known(t)
    BY <1>3 DEF StoreTypeOK, Settle, WriteRow
  <1> QED
    BY <1>2, <1>3

\* RabbitMQService.publish appends an event, or sends nothing.
LEMMA PublishType ==
  ASSUME StoreTypeOK, NEW t \in Transactions, NEW s \in Statuses,
         NEW h \in Handlers, Publish(t, s, h)
  PROVE  events' \in [Transactions -> Seq(Event)]
  <1> DEFINE e == [by |-> h, status |-> s]
  <1>1. e \in Event
    BY DEF Event
  <1>2. Append(events[t], e) \in Seq(Event)
    BY <1>1 DEF StoreTypeOK
  <1> QED
    BY <1>2 DEF StoreTypeOK, Publish

\* notifyPaymentStatus appends a notice, or nothing arrives.
LEMMA NotifyType ==
  ASSUME StoreTypeOK, NEW t \in Transactions, NEW s \in Statuses,
         NEW h \in Handlers, NotifyAspin(t, s, h)
  PROVE  notices' \in [Transactions -> Seq(Notice)]
  <1> DEFINE n == [by |-> h, status |-> AspinStatus(s)]
  <1>1. n \in Notice
    BY AspinType DEF Notice
  <1>2. Append(notices[t], n) \in Seq(Notice)
    BY <1>1 DEF StoreTypeOK
  <1> QED
    BY <1>2 DEF StoreTypeOK, NotifyAspin

\* A delivery under way has a transaction and one of the three statuses.
LEMMA DeliveryType ==
  ASSUME TypeOK, NEW c \in Callbacks, pc[c] # "idle"
  PROVE  /\ Txn(c) \in Transactions
         /\ Status(c) \in Outcomes
         /\ Status(c) \in Statuses
         /\ c \in Handlers
  BY ExtractType DEF TypeOK, Delivery, Txn, Status, Statuses, Handlers

\* A handler that ends leaves its delivery in place and is idle no more than before.
LEMMA FinishType ==
  ASSUME TypeOK, NEW c \in Callbacks, NEW a \in Answers, Finish(c, a),
         pc[c] # "idle"
  PROVE  /\ pc' \in [Callbacks -> Running \cup {"idle", "done", "crashed"}]
         /\ answer' \in [Callbacks -> Answers]
         /\ \A d \in Callbacks : pc'[d] # "idle" => pc[d] # "idle"
  BY DEF TypeOK, Finish, Goto

\* The service starts with typed variables ...
LEMMA InitType == Init => TypeOK
  <1> SUFFICES ASSUME Init PROVE TypeOK
    OBVIOUS
  <1> USE DEF Init, StoreInit, CallbackInit
  <1>1. StoreTypeOK
    <2>1. NewRow \in Row
      BY DEF NewRow, Row, Statuses, Outcomes
    <2>2. "pending" \in Statuses /\ "pending" \in Outcomes
      BY DEF Statuses, Outcomes
    <2> QED
      BY <2>1, <2>2 DEF StoreTypeOK
  <1> QED
    BY <1>1 DEF TypeOK, Running, Answers

\* ... and every handler step, failure, expiry and hub step keeps them so.
LEMMA NextType == TypeOK /\ [Next]_vars => TypeOK'
  <1> SUFFICES ASSUME TypeOK, [Next]_vars PROVE TypeOK'
    OBVIOUS
  <1> USE CallbackAssumption
  <1>1. ASSUME NEW c \in Callbacks, Send(c) PROVE TypeOK'
    <2>1. PICK t \in Transactions, signed \in Signatures :
            \E raw \in IF signed THEN CallbackSpelling[hub[t]] ELSE RawStatuses :
              delivery' = [delivery EXCEPT ![c] = [txn |-> t, raw |-> raw, signed |-> signed]]
      BY <1>1 DEF Send
    <2>2. PICK raw \in RawStatuses :
            delivery' = [delivery EXCEPT ![c] = [txn |-> t, raw |-> raw, signed |-> signed]]
      <3>1. hub[t] \in Outcomes
        BY DEF TypeOK, StoreTypeOK
      <3>2. CallbackSpelling[hub[t]] \subseteq RawStatuses
        BY <3>1 DEF RawStatuses
      <3> QED
        BY <2>1, <3>2
    <2>3. [txn |-> t, raw |-> raw, signed |-> signed] \in Delivery
      BY DEF Delivery
    <2> QED
      BY <1>1, <2>2, <2>3
      DEF TypeOK, StoreTypeOK, storeVars, Send, Goto, Running, Critical
  <1>2. ASSUME NEW c \in Callbacks, AcquireLock(c) PROVE TypeOK'
    <2>1. Txn(c) \in Transactions
      BY <1>2, DeliveryType DEF AcquireLock
    <2>2. /\ pc' \in [Callbacks -> Running \cup {"idle", "done", "crashed"}]
          /\ \A d \in Callbacks : pc'[d] # "idle" => pc[d] # "idle"
      BY <1>2 DEF TypeOK, AcquireLock, Goto, Finish, Running, Critical
    <2>3. answer' \in [Callbacks -> Answers]
      BY <1>2 DEF TypeOK, AcquireLock, Finish, Answers
    <2>4. lock' \in [Transactions -> Callbacks \cup {Free}]
      BY <1>2, <2>1 DEF TypeOK, AcquireLock, SetLock
    <2> QED
      BY <1>2, <2>2, <2>3, <2>4 DEF TypeOK, StoreTypeOK, storeVars, AcquireLock
  <1>3. ASSUME NEW c \in Callbacks, AnswerBusy(c) PROVE TypeOK'
    <2>1. PICK found \in Attempt :
            Finish(c, CASE ~found         -> "error"
                        [] ~Known(Txn(c)) -> "notFound"
                        [] OTHER          -> "processed")
      BY <1>3 DEF AnswerBusy
    <2>2. PICK a \in Answers : Finish(c, a)
      BY <2>1 DEF Answers
    <2> QED
      BY <1>3, <2>2, FinishType DEF TypeOK, StoreTypeOK, storeVars, AnswerBusy
  <1>4. ASSUME NEW c \in Callbacks, FindPayment(c) PROVE TypeOK'
    BY <1>4 DEF TypeOK, StoreTypeOK, storeVars, FindPayment, Leave, Goto, Running,
       Critical, Answers
  <1>5. ASSUME NEW c \in Callbacks, Validate(c) PROVE TypeOK'
    BY <1>5 DEF TypeOK, StoreTypeOK, storeVars, Validate, ConfigFails, Leave, Goto,
       Running, Critical, Answers
  <1>6. ASSUME NEW c \in Callbacks, UpdatePayment(c) PROVE TypeOK'
    <2>1. /\ payments' \in [Transactions -> Row \cup {NoPayment}]
          /\ held' \in [Transactions -> SUBSET Statuses]
          /\ settlers' \in [Transactions -> SUBSET Callbacks]
      <3>1. Txn(c) \in Transactions /\ Status(c) \in Outcomes
        BY <1>6, DeliveryType DEF UpdatePayment
      <3>2. CASE SettleRow(c)
        BY <3>1, <3>2, SettleType DEF TypeOK, SettleRow
      <3>3. CASE UNCHANGED <<payments, held, settlers>>
        BY <3>3 DEF TypeOK, StoreTypeOK
      <3> QED
        BY <1>6, <3>2, <3>3 DEF UpdatePayment
    <2> QED
      BY <1>6, <2>1 DEF TypeOK, StoreTypeOK, UpdatePayment, Leave, Goto, Running,
         Critical, Answers
  <1>7. ASSUME NEW c \in Callbacks, PublishResult(c) PROVE TypeOK'
    <2>1. events' \in [Transactions -> Seq(Event)]
      BY <1>7, DeliveryType, PublishType DEF TypeOK, PublishResult
    <2> QED
      BY <1>7, <2>1 DEF TypeOK, StoreTypeOK, PublishResult, Goto, Running, Critical
  <1>8. ASSUME NEW c \in Callbacks, NotifyResult(c) PROVE TypeOK'
    <2>1. notices' \in [Transactions -> Seq(Notice)]
      BY <1>8, DeliveryType, NotifyType DEF TypeOK, NotifyResult
    <2> QED
      BY <1>8, <2>1 DEF TypeOK, StoreTypeOK, NotifyResult, Leave, Goto, Running,
         Critical, Answers
  <1>9. ASSUME NEW c \in Callbacks, ReleaseLock(c) PROVE TypeOK'
    <2>1. Txn(c) \in Transactions
      BY <1>9, DeliveryType DEF ReleaseLock
    <2>2. PICK a \in Answers : Finish(c, a)
      BY <1>9 DEF ReleaseLock, TypeOK, Answers
    <2>3. lock' \in [Transactions -> Callbacks \cup {Free}]
      BY <1>9, <2>1 DEF TypeOK, ReleaseLock
    <2> QED
      BY <1>9, <2>2, <2>3, FinishType DEF TypeOK, StoreTypeOK, storeVars, ReleaseLock
  <1>10. ASSUME NEW c \in Callbacks, Crash(c) PROVE TypeOK'
    BY <1>10 DEF TypeOK, StoreTypeOK, storeVars, Crash, Goto, Running, Critical
  <1>11. ASSUME NEW t \in Transactions, LockExpires(t) PROVE TypeOK'
    BY <1>11 DEF TypeOK, StoreTypeOK, storeVars, handlerVars, LockExpires
  <1>12. CASE HubSettles /\ UNCHANGED callbackVars
    BY <1>12 DEF TypeOK, StoreTypeOK, HubSettles, callbackVars, Final, Outcomes
  <1>13. CASE UNCHANGED vars
    BY <1>13 DEF TypeOK, StoreTypeOK, vars, storeVars, callbackVars
  <1> QED
    BY <1>1, <1>2, <1>3, <1>4, <1>5, <1>6, <1>7, <1>8, <1>9, <1>10, <1>11,
       <1>12, <1>13 DEF Next, CallbackNext, HandlerStep

\* Type correctness.
THEOREM TypeCorrect == Spec => []TypeOK
  BY InitType, NextType, PTL DEF Spec

-----------------------------------------------------------------------------
(* The inductive invariant.                                                *)

\* Two deliveries for one transaction are not both past the lock.
LEMMA Alone ==
  ASSUME SettlementInv, NEW c \in Callbacks, NEW d \in Callbacks,
         pc[c] \in Critical, pc[d] \in Critical, Txn(c) = Txn(d)
  PROVE  c = d
  BY DEF SettlementInv, HoldsLock

\* A step that leaves the table, the outboxes and the deliveries alone.
Quiet ==
    /\ UNCHANGED <<payments, events, notices, settlers>>
    /\ \A c \in Callbacks :
          pc[c] # "idle" => pc'[c] # "idle" /\ delivery'[c] = delivery[c]

\* It keeps what the table and the outboxes say of each other ...
LEMMA QuietOutbox ==
  ASSUME TypeOK, SettlementInv, Quiet, NEW t \in Transactions
  PROVE  Outbox(t)'
  <1>1. Outbox(t)
    BY DEF SettlementInv
  <1>2. /\ payments'[t] = payments[t]
        /\ events'[t] = events[t]
        /\ notices'[t] = notices[t]
        /\ settlers'[t] = settlers[t]
        /\ Settled(t)' = Settled(t)
    BY DEF Quiet, Settled, Known
  <1>3. \A c \in settlers[t] :
           pc'[c] # "idle" /\ Txn(c)' = Txn(c) /\ Status(c)' = Status(c)
           /\ delivery'[c] = delivery[c]
    BY <1>1 DEF Quiet, Outbox, Txn, Status, TypeOK
  <1> QED
    BY <1>1, <1>2, <1>3 DEF Outbox

\* ... and what a handler it does not move relies on.
LEMMA QuietForesees ==
  ASSUME SettlementInv, Quiet, NEW c \in Callbacks, pc'[c] = pc[c]
  PROVE  Foresees(c)'
  <1>1. CASE pc[c] = "idle"
    BY <1>1 DEF Foresees
  <1>2. CASE pc[c] # "idle"
    <2>1. Foresees(c) /\ Txn(c)' = Txn(c) /\ delivery'[c] = delivery[c]
      BY <1>2 DEF SettlementInv, Quiet, Txn
    <2> QED
      BY <2>1 DEF Foresees, Quiet, Settled, Known
  <1> QED
    BY <1>1, <1>2

\* The others' locks, when one handler moves and nobody's lock is taken away.
LEMMA StillHolds ==
  ASSUME SettlementInv, NEW c \in Callbacks,
         pc'[c] = pc[c],
         pc[c] \in Critical => /\ delivery'[c] = delivery[c]
                               /\ lock'[Txn(c)] = lock[Txn(c)]
  PROVE  HoldsLock(c)'
  BY DEF SettlementInv, HoldsLock, Txn

\* With no handler running, no lock taken and nothing sent, the invariant holds.
LEMMA InitInv == Init => SettlementInv
  <1> SUFFICES ASSUME Init PROVE SettlementInv
    OBVIOUS
  <1>1. ASSUME NEW c \in Callbacks PROVE HoldsLock(c) /\ Foresees(c)
    BY DEF Init, CallbackInit, HoldsLock, Foresees, Critical
  <1>2. ASSUME NEW t \in Transactions PROVE Outbox(t)
    <2>1. ~Settled(t)
      BY DEF Init, StoreInit, Settled, Known, NewRow
    <2> QED
      BY <2>1 DEF Init, StoreInit, CallbackInit, Outbox
  <1> QED
    BY <1>1, <1>2 DEF SettlementInv

\* A step that moves one handler and touches neither the table nor the lock
\* keeps the invariant, if what the handler goes on to rely on is there.
LEMMA QuietStep ==
  ASSUME TypeOK, SettlementInv, Quiet, NEW c \in Callbacks,
         \A d \in Callbacks : d # c => pc'[d] = pc[d],
         UNCHANGED lock,
         HoldsLock(c)', Foresees(c)'
  PROVE  SettlementInv'
  <1>1. ASSUME NEW d \in Callbacks PROVE HoldsLock(d)'
    BY StillHolds DEF Quiet, Critical
  <1>2. ASSUME NEW d \in Callbacks PROVE Foresees(d)'
    BY QuietForesees
  <1> QED
    BY <1>1, <1>2, QuietOutbox DEF SettlementInv

\* A step of a lock's holder that writes for its own transaction only.
Local(c) ==
    /\ pc[c] \in Critical
    /\ pc'[c] # "idle"
    /\ \A d \in Callbacks : d # c => pc'[d] = pc[d]
    /\ UNCHANGED <<delivery, lock>>
    /\ \A t \in Transactions \ {Txn(c)} :
          /\ payments'[t] = payments[t]
          /\ events'[t] = events[t]
          /\ notices'[t] = notices[t]
          /\ settlers'[t] = settlers[t]

\* It keeps the invariant, if it does so for its own transaction.
LEMMA LocalStep ==
  ASSUME TypeOK, SettlementInv, NEW c \in Callbacks, Local(c),
         HoldsLock(c)', Foresees(c)', Outbox(Txn(c))'
  PROVE  SettlementInv'
  <1>1. ASSUME NEW d \in Callbacks, d # c PROVE HoldsLock(d)' /\ Foresees(d)'
    <2>1. HoldsLock(d)'
      BY <1>1, StillHolds DEF Local
    <2>2. CASE pc[d] \in Critical
      <3>1. Txn(d) \in Transactions \ {Txn(c)}
        BY <1>1, <2>2, Alone, DeliveryType DEF Local, Critical
      <3>2. Foresees(d) /\ Txn(d)' = Txn(d)
        BY DEF SettlementInv, Local, Txn
      <3>3. /\ payments'[Txn(d)] = payments[Txn(d)]
            /\ events'[Txn(d)] = events[Txn(d)]
            /\ notices'[Txn(d)] = notices[Txn(d)]
            /\ settlers'[Txn(d)] = settlers[Txn(d)]
            /\ pc'[d] = pc[d]
            /\ delivery'[d] = delivery[d]
        BY <1>1, <3>1 DEF Local
      <3> QED
        <4>1. Settled(Txn(d))' = Settled(Txn(d)) /\ Known(Txn(d))' = Known(Txn(d))
          BY <3>2, <3>3 DEF Settled, Known
        <4> QED
          BY <2>1, <3>2, <3>3, <4>1 DEF Foresees
    <2>3. CASE pc[d] \notin Critical
      <3>1. pc'[d] = pc[d]
        BY <1>1 DEF Local
      <3> QED
        BY <2>1, <2>3, <3>1 DEF Foresees, Critical
    <2> QED
      BY <2>2, <2>3
  <1>2. ASSUME NEW t \in Transactions, t # Txn(c) PROVE Outbox(t)'
    <2>1. Outbox(t)
      BY DEF SettlementInv
    <2>2. /\ payments'[t] = payments[t]
          /\ events'[t] = events[t]
          /\ notices'[t] = notices[t]
          /\ settlers'[t] = settlers[t]
          /\ Settled(t)' = Settled(t)
      BY <1>2 DEF Local, Settled, Known
    <2>3. \A d \in settlers[t] :
             pc'[d] # "idle" /\ Txn(d)' = Txn(d) /\ Status(d)' = Status(d)
             /\ delivery'[d] = delivery[d]
      BY <2>1 DEF Local, Outbox, Txn, Status, TypeOK
    <2> QED
      BY <2>1, <2>2, <2>3 DEF Outbox
  <1>3. Txn(c)' = Txn(c)
    BY DEF Local, Txn
  <1> QED
    BY <1>1, <1>2, <1>3 DEF SettlementInv

\* The row is settled: nobody has, for the row was open when it was read and
\* the lock has kept the others out since.
LEMMA UpdateInv ==
  ASSUME TypeOK, SettlementInv, NEW c \in Callbacks, UpdatePayment(c)
  PROVE  SettlementInv'
  <1> DEFINE t == Txn(c)
  <1>1. /\ t \in Transactions
        /\ Status(c) \in Outcomes
        /\ Status(c) \in Statuses
        /\ Known(t)
        /\ ~Settled(t)
        /\ delivery[c].signed
        /\ lock[t] = c
    BY DeliveryType DEF UpdatePayment, SettlementInv, Foresees, HoldsLock, Critical
  <1>2. settlers[t] = {} /\ events[t] = <<>> /\ notices[t] = <<>>
    BY <1>1 DEF SettlementInv, Outbox
  <1>3. /\ UNCHANGED <<events, notices, delivery, lock>>
        /\ pc'[c] \in {"publish", "release"}
        /\ \A d \in Callbacks : d # c => pc'[d] = pc[d]
        /\ Txn(c)' = t
        /\ Status(c)' = Status(c)
    BY DEF UpdatePayment, Goto, Leave, TypeOK, Txn, Status
  <1>4. HoldsLock(c)'
    BY <1>1, <1>3 DEF HoldsLock
  <1>5. CASE SettleRow(c)
    <2> DEFINE row == [status |-> Status(c), processed |-> TRUE]
    <2>1. /\ payments' = [payments EXCEPT ![t] = row]
          /\ settlers' = [settlers EXCEPT ![t] = @ \cup {c}]
      BY <1>1, <1>5 DEF SettleRow, Settle, WriteRow
    <2>2. payments'[t] = row /\ settlers'[t] = {c}
      BY <1>1, <1>2, <2>1 DEF TypeOK, StoreTypeOK
    <2>3. row \in Row
      BY <1>1 DEF Row
    <2>4. Settled(t)'
      <3>1. row # NoPayment
        BY <2>3, StoreAssumption
      <3>2. row.processed
        OBVIOUS
      <3> QED
        BY <1>3, <2>2, <3>1, <3>2 DEF Settled, Known
    <2>5. Foresees(c)'
      BY <1>2, <1>3, <2>2 DEF Foresees
    <2>6. Outbox(t)'
      BY <1>1, <1>2, <1>3, <2>2, <2>4 DEF Outbox
    <2>7. Local(c)
      BY <1>1, <1>3, <2>1 DEF Local, UpdatePayment, Critical, TypeOK, StoreTypeOK
    <2> QED
      BY <1>3, <1>4, <2>5, <2>6, <2>7, LocalStep
  <1>6. CASE UNCHANGED <<payments, held, settlers>>
    <2>1. Quiet
      BY <1>3, <1>6 DEF Quiet
    <2>2. pc'[c] = "release" \/ SettleRow(c)
      BY DEF UpdatePayment, Leave, Goto, TypeOK
    <2>3. CASE pc'[c] = "release"
      BY <1>3, <1>4, <2>1, <2>3, QuietStep DEF Foresees
    <2> QED
      BY <1>5, <2>2, <2>3
  <1> QED
    BY <1>5, <1>6 DEF UpdatePayment

\* The message carries the row's status, and is the first.
LEMMA PublishInv ==
  ASSUME TypeOK, SettlementInv, NEW c \in Callbacks, PublishResult(c)
  PROVE  SettlementInv'
  <1> DEFINE t == Txn(c)
             e == [by |-> c, status |-> Status(c)]
  <1>1. /\ t \in Transactions
        /\ c \in settlers[t]
        /\ events[t] = <<>>
        /\ notices[t] = <<>>
        /\ lock[t] = c
        /\ Outbox(t)
    BY DeliveryType DEF PublishResult, SettlementInv, Foresees, HoldsLock, Critical
  <1>2. /\ UNCHANGED <<payments, notices, delivery, lock, settlers>>
        /\ pc'[c] = "notify"
        /\ \A d \in Callbacks : d # c => pc'[d] = pc[d]
        /\ \A d \in Callbacks : Txn(d)' = Txn(d) /\ Status(d)' = Status(d)
    BY DEF PublishResult, Goto, TypeOK, Txn, Status
  <1>3. /\ events'[t] \in {<<>>, <<e>>}
        /\ \A u \in Transactions \ {t} : events'[u] = events[u]
    BY <1>1 DEF PublishResult, Publish, TypeOK, StoreTypeOK
  <1>4. Status(c) = payments[t].status
    BY <1>1 DEF Outbox
  <1>5. HoldsLock(c)' /\ Foresees(c)'
    BY <1>1, <1>2 DEF HoldsLock, Foresees
  <1>6. Settled(t)' = Settled(t)
    BY <1>2 DEF Settled, Known
  <1>7. Settled(t)
    BY <1>1 DEF Outbox
  <1>8. \A d \in settlers[t] : d \in Callbacks /\ pc'[d] # "idle"
    BY <1>1, <1>2 DEF Outbox, TypeOK
  <1>9. Outbox(t)'
    BY <1>1, <1>2, <1>3, <1>4, <1>6, <1>7, <1>8 DEF Outbox
  <1>10. Local(c)
    BY <1>1, <1>2, <1>3 DEF Local, PublishResult, Critical
  <1> QED
    BY <1>2, <1>5, <1>9, <1>10, LocalStep

\* Likewise the notice.
LEMMA NotifyInv ==
  ASSUME TypeOK, SettlementInv, NEW c \in Callbacks, NotifyResult(c)
  PROVE  SettlementInv'
  <1> DEFINE t == Txn(c)
             n == [by |-> c, status |-> AspinStatus(Status(c))]
  <1>1. /\ t \in Transactions
        /\ c \in settlers[t]
        /\ notices[t] = <<>>
        /\ lock[t] = c
        /\ Outbox(t)
    BY DeliveryType DEF NotifyResult, SettlementInv, Foresees, HoldsLock, Critical
  <1>2. /\ UNCHANGED <<payments, events, delivery, lock, settlers>>
        /\ pc'[c] = "release"
        /\ \A d \in Callbacks : d # c => pc'[d] = pc[d]
        /\ \A d \in Callbacks : Txn(d)' = Txn(d) /\ Status(d)' = Status(d)
    BY DEF NotifyResult, Leave, Goto, TypeOK, Txn, Status
  <1>3. /\ notices'[t] \in {<<>>, <<n>>}
        /\ \A u \in Transactions \ {t} : notices'[u] = notices[u]
    BY <1>1 DEF NotifyResult, NotifyAspin, TypeOK, StoreTypeOK
  <1>4. Status(c) = payments[t].status
    BY <1>1 DEF Outbox
  <1>5. HoldsLock(c)' /\ Foresees(c)'
    BY <1>1, <1>2 DEF HoldsLock, Foresees
  <1>6. Settled(t)' = Settled(t)
    BY <1>2 DEF Settled, Known
  <1>7. Settled(t)
    BY <1>1 DEF Outbox
  <1>8. \A d \in settlers[t] : d \in Callbacks /\ pc'[d] # "idle"
    BY <1>1, <1>2 DEF Outbox, TypeOK
  <1>9. Outbox(t)'
    BY <1>1, <1>2, <1>3, <1>4, <1>6, <1>7, <1>8 DEF Outbox
  <1>10. Local(c)
    BY <1>1, <1>2, <1>3 DEF Local, NotifyResult, Critical
  <1> QED
    BY <1>2, <1>5, <1>9, <1>10, LocalStep

\* The steps that only move their handler on.
LEMMA QuietSteps ==
  ASSUME TypeOK, SettlementInv, NEW c \in Callbacks,
         AnswerBusy(c) \/ FindPayment(c) \/ Validate(c) \/ Crash(c) \/ Send(c)
  PROVE  SettlementInv'
  <1>1. /\ UNCHANGED <<payments, events, notices, settlers, lock>>
        /\ \A d \in Callbacks : d # c => pc'[d] = pc[d] /\ delivery'[d] = delivery[d]
        /\ pc'[c] # "idle"
        /\ pc[c] # "idle" => delivery'[c] = delivery[c]
        /\ pc'[c] \in Critical => pc[c] \in Critical /\ UNCHANGED delivery
    BY DEF AnswerBusy, FindPayment, Validate, ConfigFails, Crash, Send, Goto, Leave,
       Finish, TypeOK, storeVars, Critical, Running
  <1>2. Quiet
    BY <1>1 DEF Quiet
  <1>3. HoldsLock(c)'
    BY <1>1 DEF SettlementInv, HoldsLock, Txn
  <1>4. pc'[c] \in Critical => Foresees(c)'
    <2>1. CASE FindPayment(c)
      BY <1>1, <2>1 DEF FindPayment, Leave, Goto, TypeOK, Foresees, Critical,
         Settled, Known, Txn, Duplicate
    <2>2. CASE Validate(c)
      BY <1>1, <2>2 DEF Validate, ConfigFails, ValidSignature, Leave, Goto, TypeOK,
         SettlementInv, Foresees, Critical, Settled, Known, Txn
    <2>3. CASE AnswerBusy(c) \/ Crash(c) \/ Send(c)
      BY <2>3 DEF AnswerBusy, Crash, Send, Finish, Goto, TypeOK, Critical
    <2> QED
      BY <2>1, <2>2, <2>3
  <1>5. Foresees(c)'
    BY <1>4 DEF Foresees, Critical
  <1> QED
    BY <1>1, <1>2, <1>3, <1>5, QuietStep

\* The lock changes hands only when nobody holds it ...
LEMMA AcquireInv ==
  ASSUME TypeOK, SettlementInv, NEW c \in Callbacks, AcquireLock(c)
  PROVE  SettlementInv'
  <1>1. /\ UNCHANGED <<payments, events, notices, settlers, delivery>>
        /\ \A d \in Callbacks : d # c => pc'[d] = pc[d]
        /\ pc'[c] \in {"find", "busy", "done"}
        /\ Txn(c) \in Transactions
    BY DeliveryType DEF AcquireLock, Goto, Finish, TypeOK, storeVars
  <1>2. \/ UNCHANGED lock /\ pc'[c] # "find"
        \/ lock[Txn(c)] = Free /\ lock' = [lock EXCEPT ![Txn(c)] = c]
    BY DEF AcquireLock, SetLock, Goto, Finish, TypeOK
  <1>3. Quiet
    BY <1>1 DEF Quiet
  <1>4. ASSUME NEW d \in Callbacks, d # c PROVE HoldsLock(d)' /\ Foresees(d)'
    <2>1. pc[d] \in Critical => lock'[Txn(d)] = lock[Txn(d)]
      BY <1>1, <1>2, <1>4, CallbackAssumption, DeliveryType
      DEF SettlementInv, HoldsLock, TypeOK, Critical
    <2> QED
      BY <1>1, <1>3, <1>4, <2>1, StillHolds, QuietForesees
  <1>5. HoldsLock(c)' /\ Foresees(c)'
    BY <1>1, <1>2 DEF HoldsLock, Foresees, Critical, Txn, TypeOK
  <1> QED
    BY <1>3, <1>4, <1>5, QuietOutbox DEF SettlementInv

\* ... or is its holder's to give up ...
LEMMA ReleaseInv ==
  ASSUME TypeOK, SettlementInv, NEW c \in Callbacks, ReleaseLock(c)
  PROVE  SettlementInv'
  <1>1. /\ UNCHANGED <<payments, events, notices, settlers, delivery>>
        /\ \A d \in Callbacks : d # c => pc'[d] = pc[d]
        /\ pc'[c] = "done"
        /\ pc[c] \in Critical
        /\ Txn(c) \in Transactions
        /\ \A t \in Transactions : t # Txn(c) => lock'[t] = lock[t]
    BY DeliveryType DEF ReleaseLock, Goto, Finish, TypeOK, storeVars, Critical
  <1>2. Quiet
    BY <1>1 DEF Quiet
  <1>3. ASSUME NEW d \in Callbacks, d # c PROVE HoldsLock(d)' /\ Foresees(d)'
    <2>1. pc[d] \in Critical => Txn(d) \in Transactions /\ Txn(d) # Txn(c)
      BY <1>1, <1>3, Alone, DeliveryType DEF Critical
    <2> QED
      BY <1>1, <1>2, <1>3, <2>1, StillHolds, QuietForesees
  <1>4. HoldsLock(c)' /\ Foresees(c)'
    BY <1>1 DEF HoldsLock, Foresees, Critical
  <1> QED
    BY <1>2, <1>3, <1>4, QuietOutbox DEF SettlementInv

\* ... or has outlived its holder.
LEMMA ExpiryInv ==
  ASSUME TypeOK, SettlementInv, LeaseOutlivesHandler,
         NEW t \in Transactions, LockExpires(t)
  PROVE  SettlementInv'
  <1>1. /\ UNCHANGED <<payments, events, notices, settlers, delivery, pc>>
        /\ pc[lock[t]] \notin Critical
        /\ \A u \in Transactions : u # t => lock'[u] = lock[u]
    BY DEF LockExpires, TypeOK, storeVars, handlerVars
  <1>2. Quiet
    BY <1>1 DEF Quiet
  <1>3. ASSUME NEW d \in Callbacks PROVE HoldsLock(d)' /\ Foresees(d)'
    <2>1. pc[d] \in Critical => Txn(d) \in Transactions /\ Txn(d) # t
      BY <1>1, DeliveryType DEF SettlementInv, HoldsLock, Critical
    <2> QED
      BY <1>1, <1>2, <2>1, StillHolds, QuietForesees
  <1> QED
    BY <1>2, <1>3, QuietOutbox DEF SettlementInv

\* Every step keeps the invariant.
LEMMA NextInv ==
  ASSUME LeaseOutlivesHandler
  PROVE  TypeOK /\ SettlementInv /\ [Next]_vars => SettlementInv'
  <1> SUFFICES ASSUME TypeOK, SettlementInv, [Next]_vars
               PROVE  SettlementInv'
    OBVIOUS
  <1>1. ASSUME NEW c \in Callbacks, Send(c) \/ HandlerStep(c) \/ Crash(c)
        PROVE  SettlementInv'
    BY <1>1, QuietSteps, AcquireInv, UpdateInv, PublishInv, NotifyInv, ReleaseInv
    DEF HandlerStep
  <1>2. ASSUME NEW t \in Transactions, LockExpires(t) PROVE SettlementInv'
    BY <1>2, ExpiryInv
  <1>3. CASE (HubSettles /\ UNCHANGED callbackVars) \/ UNCHANGED vars
    <2>1. UNCHANGED <<payments, events, notices, settlers, delivery, pc, lock>>
      BY <1>3 DEF HubSettles, callbackVars, vars, storeVars
    <2>2. Quiet
      BY <2>1 DEF Quiet
    <2>3. ASSUME NEW d \in Callbacks PROVE HoldsLock(d)' /\ Foresees(d)'
      BY <2>1, <2>2, StillHolds, QuietForesees
    <2> QED
      BY <2>2, <2>3, QuietOutbox DEF SettlementInv
  <1> QED
    BY <1>1, <1>2, <1>3 DEF Next, CallbackNext

\* The invariant holds of every behaviour, if no handler outlives its lease.
THEOREM Invariance ==
  ASSUME LeaseOutlivesHandler
  PROVE  Spec => []SettlementInv
  BY InitInv, NextInv, TypeCorrect, PTL DEF Spec

-----------------------------------------------------------------------------
(* What it gives.                                                          *)

\* Of the deliveries for one transaction at most one is past the lock.
THEOREM Exclusion ==
  ASSUME LeaseOutlivesHandler
  PROVE  Spec => []MutualExclusion
  <1>1. SettlementInv => MutualExclusion
    BY Alone DEF MutualExclusion
  <1> QED
    BY <1>1, Invariance, PTL

\* At most one delivery settles a transaction.
THEOREM SingleSettlement ==
  ASSUME LeaseOutlivesHandler
  PROVE  Spec => []SettledOnce
  <1>1. TypeOK /\ SettlementInv => SettledOnce
    BY DEF SettledOnce, SettlementInv, Outbox, TypeOK
  <1> QED
    BY <1>1, Invariance, TypeCorrect, PTL

\* A row is marked processed by a well-signed delivery, with its status.
THEOREM GenuineSettlement ==
  ASSUME LeaseOutlivesHandler
  PROVE  Spec => []SettledByTheHub
  <1>1. TypeOK /\ SettlementInv => SettledByTheHub
    BY DEF SettledByTheHub, SettlementInv, Outbox, TypeOK
  <1> QED
    BY <1>1, Invariance, TypeCorrect, PTL

-----------------------------------------------------------------------------
(* CallbackHandler implements SettlementOnce.                              *)

\* The refinement mapping.
settledBar   == [t \in Transactions |-> IF Settled(t) THEN payments[t].status ELSE "open"]
announcedBar == StatusesOf(events)
toldBar      == StatusesOf(notices)

\* An empty outbox holds no status ...
LEMMA StatusesOfNone ==
  ASSUME NEW m, NEW t \in Transactions, m[t] = <<>>
  PROVE  StatusesOf(m)[t] = <<>>
  BY DEF StatusesOf

\* ... and an outbox of one message holds its status.
LEMMA StatusesOfOne ==
  ASSUME NEW m, NEW t \in Transactions, NEW e, m[t] = <<e>>
  PROVE  StatusesOf(m)[t] = <<e.status>>
  BY DEF StatusesOf

\* One more message is one more status, and only for its transaction.
LEMMA StatusesOfStep ==
  ASSUME NEW m, NEW n, NEW t \in Transactions, NEW e,
         n[t] = <<e>>, \A u \in Transactions \ {t} : n[u] = m[u]
  PROVE  StatusesOf(n) = [StatusesOf(m) EXCEPT ![t] = <<e.status>>]
  <1>1. StatusesOf(n)[t] = <<e.status>>
    BY StatusesOfOne
  <1>2. \A u \in Transactions : u # t => StatusesOf(n)[u] = StatusesOf(m)[u]
    BY DEF StatusesOf
  <1> QED
    BY <1>1, <1>2 DEF StatusesOf

\* Nothing is settled, announced or told at the start.
LEMMA InitRefines == Init => Settlement!Init
  <1> SUFFICES ASSUME Init PROVE Settlement!Init
    OBVIOUS
  <1>1. settledBar = [t \in Transactions |-> "open"]
    BY DEF Init, StoreInit, settledBar, Settled, Known, NewRow
  <1>2. announcedBar = [t \in Transactions |-> <<>>]
    BY StatusesOfNone DEF Init, StoreInit, announcedBar, StatusesOf
  <1>3. toldBar = [t \in Transactions |-> <<>>]
    BY StatusesOfNone DEF Init, StoreInit, toldBar, StatusesOf
  <1> QED
    BY <1>1, <1>2, <1>3 DEF Settlement!Init, settledBar, announcedBar, toldBar

\* A step that writes neither the table nor an outbox is a stutter.
LEMMA QuietRefines ==
  ASSUME UNCHANGED <<payments, events, notices>>
  PROVE  UNCHANGED Settlement!vars
  <1>1. settledBar' = settledBar
    BY DEF settledBar, Settled, Known
  <1>2. announcedBar' = announcedBar /\ toldBar' = toldBar
    BY DEF announcedBar, toldBar, StatusesOf
  <1> QED
    BY <1>1, <1>2 DEF Settlement!vars, settledBar, announcedBar, toldBar

\* UpdatePayment is the abstract Settle, or a stutter when the UPDATE failed.
LEMMA UpdateRefines ==
  ASSUME TypeOK, SettlementInv, NEW c \in Callbacks, UpdatePayment(c)
  PROVE  [Settlement!Next]_(Settlement!vars)
  <1>0. PICK t \in Transactions : t = Txn(c)
    BY DeliveryType DEF UpdatePayment
  <1> DEFINE row == [status |-> Status(c), processed |-> TRUE]
  <1>1. /\ Status(c) \in Outcomes
        /\ row \in Row
        /\ Known(t)
        /\ ~Settled(t)
        /\ UNCHANGED <<events, notices>>
    BY <1>0, DeliveryType DEF UpdatePayment, SettlementInv, Foresees, Row
  <1>2. CASE SettleRow(c)
    <2>1. payments' = [payments EXCEPT ![t] = row]
      BY <1>0, <1>1, <1>2 DEF SettleRow, Settle, WriteRow
    <2>2. row # NoPayment
      BY <1>1, StoreAssumption
    <2>3. payments'[t] = row /\ \A u \in Transactions \ {t} : payments'[u] = payments[u]
      BY <1>1, <2>1 DEF TypeOK, StoreTypeOK
    <2>4. settledBar[t] = "open" /\ settledBar'[t] = Status(c)
      <3>1. Settled(t)' /\ payments'[t].status = Status(c)
        BY <2>2, <2>3 DEF Settled, Known
      <3> QED
        BY <1>1, <3>1 DEF settledBar
    <2>5. \A u \in Transactions \ {t} : settledBar'[u] = settledBar[u]
      BY <2>3 DEF settledBar, Settled, Known
    <2>6. settledBar' = [settledBar EXCEPT ![t] = Status(c)]
      BY <2>4, <2>5 DEF settledBar
    <2>7. announcedBar' = announcedBar /\ toldBar' = toldBar
      BY <1>1 DEF announcedBar, toldBar, StatusesOf
    <2> QED
      BY <1>1, <2>4, <2>6, <2>7
      DEF Settlement!Next, Settlement!Settle, Settlement!Outcomes, Outcomes,
          settledBar, announcedBar, toldBar
  <1>3. CASE UNCHANGED <<payments, held, settlers>>
    BY <1>1, <1>3, QuietRefines
  <1> QED
    BY <1>2, <1>3 DEF UpdatePayment

\* PublishResult is the abstract Announce, or a stutter when nothing was sent.
LEMMA PublishRefines ==
  ASSUME TypeOK, SettlementInv, NEW c \in Callbacks, PublishResult(c)
  PROVE  [Settlement!Next]_(Settlement!vars)
  <1>0. PICK t \in Transactions : t = Txn(c)
    BY DeliveryType DEF PublishResult
  <1> DEFINE e == [by |-> c, status |-> Status(c)]
  <1>1. /\ c \in settlers[t]
        /\ events[t] = <<>>
        /\ UNCHANGED <<payments, notices>>
    BY <1>0, DeliveryType DEF PublishResult, SettlementInv, Foresees
  <1>2. Settled(t) /\ Status(c) = payments[t].status
    BY <1>1 DEF SettlementInv, Outbox
  <1>3. CASE UNCHANGED events
    BY <1>1, <1>3, QuietRefines
  <1>4. CASE events' = [events EXCEPT ![t] = Append(@, e)]
    <2>1. events'[t] = <<e>> /\ \A u \in Transactions \ {t} : events'[u] = events[u]
      BY <1>1, <1>4 DEF TypeOK, StoreTypeOK
    <2>2. announcedBar' = [announcedBar EXCEPT ![t] = <<e.status>>]
      <3>1. announcedBar' = StatusesOf(events')
        BY DEF announcedBar, StatusesOf
      <3> QED
        BY <2>1, <3>1, StatusesOfStep DEF announcedBar
    <2>3. announcedBar[t] = <<>>
      BY <1>1, StatusesOfNone DEF announcedBar
    <2>4. settledBar' = settledBar /\ toldBar' = toldBar
      BY <1>1 DEF settledBar, Settled, Known, toldBar, StatusesOf
    <2>5. settledBar[t] = Status(c) /\ Status(c) # "open"
      <3>1. Status(c) # "open"
        BY ExtractType DEF Status, Outcomes
      <3> QED
        BY <1>1, <1>2, <3>1 DEF settledBar
    <2> QED
      BY <1>1, <2>2, <2>3, <2>4, <2>5
      DEF Settlement!Next, Settlement!Announce, settledBar, announcedBar, toldBar
  <1> QED
    BY <1>0, <1>3, <1>4 DEF PublishResult, Publish

\* NotifyResult is the abstract Tell, or a stutter when nothing arrived.
LEMMA NotifyRefines ==
  ASSUME TypeOK, SettlementInv, NEW c \in Callbacks, NotifyResult(c)
  PROVE  [Settlement!Next]_(Settlement!vars)
  <1>0. PICK t \in Transactions : t = Txn(c)
    BY DeliveryType DEF NotifyResult
  <1> DEFINE n == [by |-> c, status |-> AspinStatus(Status(c))]
  <1>1. /\ c \in settlers[t]
        /\ notices[t] = <<>>
        /\ UNCHANGED <<payments, events>>
    BY <1>0, DeliveryType DEF NotifyResult, SettlementInv, Foresees
  <1>2. Settled(t) /\ Status(c) = payments[t].status
    BY <1>1 DEF SettlementInv, Outbox
  <1>3. CASE UNCHANGED notices
    BY <1>1, <1>3, QuietRefines
  <1>4. CASE notices' = [notices EXCEPT ![t] = Append(@, n)]
    <2>1. notices'[t] = <<n>> /\ \A u \in Transactions \ {t} : notices'[u] = notices[u]
      BY <1>1, <1>4 DEF TypeOK, StoreTypeOK
    <2>2. toldBar' = [toldBar EXCEPT ![t] = <<n.status>>]
      <3>1. toldBar' = StatusesOf(notices')
        BY DEF toldBar, StatusesOf
      <3> QED
        BY <2>1, <3>1, StatusesOfStep DEF toldBar
    <2>3. toldBar[t] = <<>>
      BY <1>1, StatusesOfNone DEF toldBar
    <2>4. settledBar' = settledBar /\ announcedBar' = announcedBar
      BY <1>1 DEF settledBar, Settled, Known, announcedBar, StatusesOf
    <2>5. settledBar[t] = Status(c) /\ Status(c) # "open"
      <3>1. Status(c) # "open"
        BY ExtractType DEF Status, Outcomes
      <3> QED
        BY <1>1, <1>2, <3>1 DEF settledBar
    <2>6. Settlement!AspinStatus(Status(c)) = n.status
      BY DEF Settlement!AspinStatus, AspinStatus
    <2> QED
      BY <1>1, <2>2, <2>3, <2>4, <2>5, <2>6
      DEF Settlement!Next, Settlement!Tell, settledBar, announcedBar, toldBar
  <1> QED
    BY <1>0, <1>3, <1>4 DEF NotifyResult, NotifyAspin

\* Every step of the webhook side is a step of SettlementOnce or a stutter.
LEMMA NextRefines ==
  ASSUME TypeOK, SettlementInv, [Next]_vars
  PROVE  [Settlement!Next]_(Settlement!vars)
  <1>1. ASSUME NEW c \in Callbacks, Send(c) \/ HandlerStep(c) \/ Crash(c)
        PROVE  [Settlement!Next]_(Settlement!vars)
    <2>1. CASE UpdatePayment(c) \/ PublishResult(c) \/ NotifyResult(c)
      BY <2>1, UpdateRefines, PublishRefines, NotifyRefines
    <2>2. CASE \/ Send(c) \/ AcquireLock(c) \/ AnswerBusy(c) \/ FindPayment(c)
               \/ Validate(c) \/ ReleaseLock(c) \/ Crash(c)
      <3>1. UNCHANGED <<payments, events, notices>>
        BY <2>2 DEF Send, AcquireLock, AnswerBusy, FindPayment, Validate,
           ReleaseLock, Crash, storeVars
      <3> QED
        BY <3>1, QuietRefines
    <2> QED
      BY <1>1, <2>1, <2>2 DEF HandlerStep
  <1>2. ASSUME NEW t \in Transactions, LockExpires(t)
        PROVE  [Settlement!Next]_(Settlement!vars)
    BY <1>2, QuietRefines DEF LockExpires, storeVars
  <1>3. CASE (HubSettles /\ UNCHANGED callbackVars) \/ UNCHANGED vars
    BY <1>3, QuietRefines DEF HubSettles, vars, storeVars
  <1> QED
    BY <1>1, <1>2, <1>3 DEF Next, CallbackNext

\* If no handler outlives its lease, the webhook side settles, publishes and
\* notifies each transaction at most once, in that order, with one outcome.
THEOREM Refinement ==
  ASSUME LeaseOutlivesHandler
  PROVE  Spec => SettlesOnce
  BY InitRefines, NextRefines, Invariance, TypeCorrect, PTL
  DEF Spec, SettlesOnce, Settlement!Spec

=============================================================================
