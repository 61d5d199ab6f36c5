----------------------- MODULE PaymentExecutor_proofs -----------------------
(***************************************************************************)
(* Proofs about PaymentExecutor: webhook deliveries and status checks over *)
(* one table, for any sets of them, every failure, and locks that may      *)
(* expire under their holders.                                             *)
(***************************************************************************)
EXTENDS PaymentExecutor, CallbackHandler_proofs, Naturals, SequenceTheorems

-----------------------------------------------------------------------------
(* Types.                                                                  *)

\* updateStatus keeps the store in its type.
LEMMA UpdateStatusType ==
  ASSUME StoreTypeOK, NEW t \in Transactions, NEW status \in Statuses, Known(t),
         UpdateStatus(t, status)
  PROVE  /\ payments' \in [Transactions -> Row \cup {NoPayment}]
         /\ held' \in [Transactions -> SUBSET Statuses]
  <1>1. payments[t] \in Row
    BY DEF StoreTypeOK, Known
  <1>2. [payments[t] EXCEPT !.status = status] \in Row
    BY <1>1 DEF Row
  <1>3. [payments[t] EXCEPT !.status = status].status = status
    BY <1>1 DEF Row
  <1> DEFINE row == [payments[t] EXCEPT !.status = status]
  <1>4. /\ payments' = [payments EXCEPT ![t] = row]
        /\ held' = [held EXCEPT ![t] = @ \cup {row.status}]
    BY DEF UpdateStatus, WriteRow
  <1>5. row \in Row /\ row.status \in Statuses
    BY <1>2, <1>3
  <1> HIDE DEF row
  <1> QED
    BY <1>4, <1>5 DEF StoreTypeOK

\* The hub's answer is a word a row can hold.
LEMMA AnswerType ==
  ASSUME StoreTypeOK, NEW t \in Transactions, NEW said \in HubSays(t)
  PROVE  said \in Statuses
  BY DEF HubSays, StoreTypeOK, Statuses, Outcomes

\* The checks start with typed variables ...
LEMMA CheckInitType == CheckInit => CheckTypeOK
  BY DEF CheckInit, CheckTypeOK, CheckAnswers

\* ... and every step of a check keeps them so.
LEMMA CheckStepType ==
  ASSUME ExecutorTypeOK, NEW k \in Checks,
         StartCheck(k) \/ CheckStep(k) \/ CheckCrash(k)
  PROVE  StoreTypeOK' /\ CheckTypeOK'
  <1> USE DEF ExecutorTypeOK, TypeOK
  <1> DEFINE t == check[k].txn
             said == check[k].said
  <1>0. checkPc[k] # "idle" => /\ check[k] \in CheckState
                               /\ t \in Transactions
                               /\ said \in Statuses
                               /\ check[k].seen \in Statuses
    BY DEF CheckTypeOK, CheckState
  <1>1. "pending" \in Statuses
    BY DEF Statuses, Outcomes
  <1>2. CASE StartCheck(k)
    <2>1. PICK u \in Transactions :
            check' = [check EXCEPT ![k] = [txn |-> u, seen |-> "pending", said |-> "pending"]]
      BY <1>2 DEF StartCheck
    <2> QED
      BY <1>1, <1>2, <2>1 DEF StartCheck, CheckGoto, CheckTypeOK, CheckState, CheckRunning,
         StoreTypeOK, storeVars
  <1>3. CASE RouteCheck(k)
    BY <1>3 DEF RouteCheck, CheckGoto, CheckFinish, CheckTypeOK, CheckRunning,
       CheckAnswers, StoreTypeOK, storeVars
  <1>4. CASE ReadPayment(k)
    <2>1. checkPc[k] # "idle" /\ UNCHANGED storeVars
      BY <1>4 DEF ReadPayment
    <2>2. Known(t) => payments[t].status \in Statuses
      BY <1>0, <2>1 DEF StoreTypeOK, Known, Row
    <2>3. \/ check' = check
          \/ /\ check' = [check EXCEPT ![k].seen = payments[t].status]
             /\ Known(t)
      BY <1>4 DEF ReadPayment
    <2>4. /\ check' \in [Checks -> CheckState \cup {NoCheck}]
          /\ check'[k] \in CheckState
          /\ \A j \in Checks : j # k => check'[j] = check[j]
      BY <1>0, <2>1, <2>2, <2>3 DEF CheckTypeOK, CheckState
    <2> QED
      BY <1>4, <2>1, <2>4 DEF ReadPayment, CheckGoto, CheckFinish, CheckTypeOK,
         CheckRunning, CheckAnswers, StoreTypeOK, storeVars
  <1>5. CASE QueryHub(k)
    <2>1. checkPc[k] # "idle" /\ UNCHANGED storeVars
      BY <1>5 DEF QueryHub
    <2>2. \/ check' = check
          \/ \E w \in HubSays(t) : check' = [check EXCEPT ![k].said = w]
      BY <1>5 DEF QueryHub
    <2>3. \/ check' = check
          \/ \E w \in Statuses : check' = [check EXCEPT ![k].said = w]
      BY <1>0, <2>1, <2>2, AnswerType
    <2>4. /\ check' \in [Checks -> CheckState \cup {NoCheck}]
          /\ check'[k] \in CheckState
          /\ \A j \in Checks : j # k => check'[j] = check[j]
      BY <1>0, <2>1, <2>3 DEF CheckTypeOK, CheckState
    <2> QED
      BY <1>5, <2>1, <2>4 DEF QueryHub, CheckGoto, CheckFinish, CheckTypeOK,
         CheckRunning, CheckAnswers, StoreTypeOK, storeVars
  <1>6. CASE RecordAnswer(k)
    <2>1. checkPc[k] # "idle" /\ UNCHANGED <<hub, events, notices, check>>
      BY <1>6 DEF RecordAnswer
    <2>2. UNCHANGED <<payments, held>> \/ UpdateStatus(t, said)
      BY <1>6 DEF RecordAnswer
    <2>3. /\ payments' \in [Transactions -> Row \cup {NoPayment}]
          /\ held' \in [Transactions -> SUBSET Statuses]
      <3>1. CASE Known(t)
        BY <1>0, <2>1, <2>2, <3>1, UpdateStatusType DEF StoreTypeOK
      <3>2. CASE ~Known(t)
        BY <2>2, <3>2 DEF UpdateStatus, WriteRow, StoreTypeOK
      <3> QED
        BY <3>1, <3>2
    <2>4. CheckTypeOK'
      BY <1>6, <2>1 DEF RecordAnswer, CheckGoto, CheckFinish, CheckTypeOK,
         CheckRunning, CheckAnswers
    <2> QED
      BY <2>1, <2>3, <2>4 DEF StoreTypeOK
  <1>7. CASE PublishChange(k)
    <2>1. checkPc[k] # "idle" /\ k \in Handlers
      BY <1>7 DEF PublishChange, Handlers
    <2>2. StoreTypeOK'
      BY <1>0, <1>7, <2>1, PublishType DEF PublishChange, StoreTypeOK
    <2> QED
      BY <1>7, <2>2 DEF PublishChange, CheckGoto, CheckTypeOK, CheckRunning
  <1>8. CASE NotifyChange(k)
    <2>1. checkPc[k] # "idle" /\ k \in Handlers
      BY <1>8 DEF NotifyChange, Handlers
    <2>2. StoreTypeOK'
      BY <1>0, <1>8, <2>1, NotifyType DEF NotifyChange, StoreTypeOK
    <2> QED
      BY <1>8, <2>2 DEF NotifyChange, CheckFinish, CheckTypeOK, CheckRunning, CheckAnswers
  <1>9. CASE CheckCrash(k)
    BY <1>9 DEF CheckCrash, CheckGoto, CheckTypeOK, CheckRunning, StoreTypeOK, storeVars
  <1> QED
    BY <1>2, <1>3, <1>4, <1>5, <1>6, <1>7, <1>8, <1>9 DEF CheckStep

\* So does every step of the composed system.
LEMMA ExecutorNextType ==
  ExecutorTypeOK /\ [ExecutorNext]_executorVars => ExecutorTypeOK'
  <1> SUFFICES ASSUME ExecutorTypeOK, [ExecutorNext]_executorVars PROVE ExecutorTypeOK'
    OBVIOUS
  <1>1. CASE CallbackNext /\ UNCHANGED checkVars
    <2>1. TypeOK'
      BY <1>1, NextType DEF Next, ExecutorTypeOK
    <2>2. CheckTypeOK'
      BY <1>1 DEF checkVars, CheckTypeOK, ExecutorTypeOK
    <2> QED
      BY <2>1, <2>2 DEF ExecutorTypeOK
  <1>2. CASE CheckNext /\ UNCHANGED callbackVars
    <2>1. StoreTypeOK' /\ CheckTypeOK'
      BY <1>2, CheckStepType DEF CheckNext
    <2> QED
      BY <1>2, <2>1 DEF callbackVars, ExecutorTypeOK, TypeOK
  <1>3. CASE (HubSettles /\ UNCHANGED <<callbackVars, checkVars>>) \/ UNCHANGED executorVars
    <2>1. [Next]_vars /\ UNCHANGED checkVars
      BY <1>3 DEF Next, executorVars, vars
    <2>2. TypeOK'
      BY <2>1, NextType DEF ExecutorTypeOK
    <2> QED
      BY <2>1, <2>2 DEF checkVars, CheckTypeOK, ExecutorTypeOK
  <1> QED
    BY <1>1, <1>2, <1>3 DEF ExecutorNext

\* Type correctness of webhooks and checks together.
THEOREM ExecutorTypeCorrect == ExecutorSpec => []ExecutorTypeOK
  <1>1. ExecutorInit => ExecutorTypeOK
    BY InitType, CheckInitType DEF ExecutorInit, ExecutorTypeOK
  <1> QED
    BY <1>1, ExecutorNextType, PTL DEF ExecutorSpec

-----------------------------------------------------------------------------
(* What no step undoes.                                                    *)

\* The hub's verdicts, the rows and the histories only grow.
Monotone ==
    \A t \in Transactions :
        /\ hub[t] \in Final => hub'[t] = hub[t]
        /\ Known(t) => Known(t)'
        /\ held[t] \subseteq held'[t]

\* What a delivery relies on, while another handler moves ...
LEMMA DeliveryKept ==
  ASSUME TypeOK, Monotone, NEW c \in Callbacks,
         DeliverySpeaksTruth(c), DeliveryRecords(c),
         pc'[c] = pc[c], delivery'[c] = delivery[c]
  PROVE  DeliverySpeaksTruth(c)' /\ DeliveryRecords(c)'
  <1>1. pc[c] # "idle" => Txn(c) \in Transactions
    BY DeliveryType
  <1>2. Txn(c)' = Txn(c) /\ Status(c)' = Status(c)
    BY DEF Txn, Status
  <1>3. pc[c] \in {"validate", "update", "publish", "notify"} => pc[c] # "idle"
    OBVIOUS
  <1> QED
    BY <1>1, <1>2, <1>3 DEF DeliverySpeaksTruth, DeliveryRecords, Monotone

\* ... and what a check relies on.
LEMMA CheckKept ==
  ASSUME CheckTypeOK, Monotone, NEW k \in Checks,
         AnswerIsTrue(k), CheckRecords(k),
         checkPc'[k] = checkPc[k], check'[k] = check[k]
  PROVE  AnswerIsTrue(k)' /\ CheckRecords(k)'
  <1>1. checkPc[k] # "idle" => check[k].txn \in Transactions
    BY DEF CheckTypeOK, CheckState
  <1> QED
    BY <1>1 DEF AnswerIsTrue, CheckRecords, Monotone

\* The properties of the store, while nothing is written to the table or sent.
LEMMA StoreKept ==
  ASSUME StoreTypeOK, Monotone, RowIsTrue, SuccessIsTrue, AnnouncedWasRecorded,
         UNCHANGED <<payments, events, notices>>
  PROVE  RowIsTrue' /\ SuccessIsTrue' /\ AnnouncedWasRecorded'
  <1>1. RowIsTrue'
    BY DEF RowIsTrue, Monotone, Known
  <1>2. SuccessIsTrue'
    BY DEF SuccessIsTrue, Monotone, Final
  <1>3. AnnouncedWasRecorded'
    BY DEF AnnouncedWasRecorded, Monotone
  <1> QED
    BY <1>1, <1>2, <1>3

\* One row changes, to what the hub says of it.
LEMMA RowWritten ==
  ASSUME StoreTypeOK, RowIsTrue, SuccessIsTrue, AnnouncedWasRecorded,
         NEW t \in Transactions, NEW row \in Row,
         row.status \in Final => hub[t] = row.status,
         Known(t), WriteRow(t, row), UNCHANGED <<hub, events, notices>>
  PROVE  /\ Monotone
         /\ RowIsTrue' /\ SuccessIsTrue' /\ AnnouncedWasRecorded'
         /\ row.status \in held'[t]
  <1>1. /\ payments' = [payments EXCEPT ![t] = row]
        /\ held' = [held EXCEPT ![t] = @ \cup {row.status}]
    BY DEF WriteRow
  <1>2. Monotone /\ row.status \in held'[t]
    BY <1>1, StoreAssumption DEF Monotone, Known, StoreTypeOK
  <1>3. RowIsTrue'
    BY <1>1 DEF RowIsTrue, Known, StoreTypeOK
  <1>4. SuccessIsTrue'
    BY DEF SuccessIsTrue
  <1>5. AnnouncedWasRecorded'
    BY <1>2 DEF AnnouncedWasRecorded, Monotone
  <1> QED
    BY <1>2, <1>3, <1>4, <1>5

\* A recorded status is published.
LEMMA StatusPublished ==
  ASSUME StoreTypeOK, RowIsTrue, SuccessIsTrue, AnnouncedWasRecorded,
         NEW t \in Transactions, NEW word \in held[t], NEW by,
         Publish(t, word, by), UNCHANGED <<payments, hub, notices, held>>
  PROVE  Monotone /\ RowIsTrue' /\ SuccessIsTrue' /\ AnnouncedWasRecorded'
  <1> DEFINE e == [by |-> by, status |-> word]
  <1>1. Monotone /\ RowIsTrue' /\ SuccessIsTrue'
    BY DEF Monotone, RowIsTrue, SuccessIsTrue, Known
  <1>2. CASE events' = events
    BY <1>1, <1>2, StoreKept
  <1>3. CASE events' = [events EXCEPT ![t] = Append(@, e)]
    <2>1. ASSUME NEW u \in Transactions, NEW i \in DOMAIN events'[u]
          PROVE  events'[u][i].status \in held[u]
      <3>1. CASE u = t
        <4>1. events'[t] = Append(events[t], e) /\ events[t] \in Seq(Event)
          BY <1>3 DEF StoreTypeOK
        <4>2. CASE i = Len(events[t]) + 1
          <5>1. events'[t][i] = e
            BY <4>1, <4>2
          <5> QED
            BY <3>1, <5>1
        <4>3. CASE i # Len(events[t]) + 1
          <5>1. i \in DOMAIN events[t] /\ events'[t][i] = events[t][i]
            BY <2>1, <3>1, <4>1, <4>3
          <5> QED
            BY <3>1, <5>1 DEF AnnouncedWasRecorded
        <4> QED
          BY <4>2, <4>3
      <3>2. CASE u # t
        BY <1>3, <2>1, <3>2 DEF AnnouncedWasRecorded, StoreTypeOK
      <3> QED
        BY <3>1, <3>2
    <2> QED
      BY <1>1, <2>1 DEF AnnouncedWasRecorded, AspinStatus
  <1> QED
    BY <1>1, <1>2, <1>3 DEF Publish

\* Aspin is told of a recorded status, which is the hub's if it is final.
LEMMA StatusNotified ==
  ASSUME StoreTypeOK, RowIsTrue, SuccessIsTrue, AnnouncedWasRecorded,
         NEW t \in Transactions, NEW word \in held[t], NEW by,
         word \in Final => hub[t] = word,
         NotifyAspin(t, word, by), UNCHANGED <<payments, hub, events, held>>
  PROVE  Monotone /\ RowIsTrue' /\ SuccessIsTrue' /\ AnnouncedWasRecorded'
  <1> DEFINE n == [by |-> by, status |-> AspinStatus(word)]
  <1>1. Monotone /\ RowIsTrue'
    BY DEF Monotone, RowIsTrue, Known
  <1>2. CASE notices' = notices
    BY <1>1, <1>2 DEF AnnouncedWasRecorded, SuccessIsTrue
  <1>3. CASE notices' = [notices EXCEPT ![t] = Append(@, n)]
    <2>1. n.status = "completed" => hub[t] = "completed"
      BY DEF AspinStatus, Final
    <2>2. ASSUME NEW u \in Transactions, NEW i \in DOMAIN notices'[u]
          PROVE  /\ notices'[u][i].status = "completed" => hub[u] = "completed"
                 /\ \E s \in held[u] : notices'[u][i].status = AspinStatus(s)
      <3>1. CASE u = t
        <4>1. notices'[t] = Append(notices[t], n) /\ notices[t] \in Seq(Notice)
          BY <1>3 DEF StoreTypeOK
        <4>2. CASE i = Len(notices[t]) + 1
          <5>1. notices'[t][i] = n
            BY <4>1, <4>2
          <5> QED
            BY <2>1, <3>1, <5>1
        <4>3. CASE i # Len(notices[t]) + 1
          <5>1. i \in DOMAIN notices[t] /\ notices'[t][i] = notices[t][i]
            BY <2>2, <3>1, <4>1, <4>3
          <5> QED
            BY <3>1, <5>1 DEF AnnouncedWasRecorded, SuccessIsTrue
        <4> QED
          BY <4>2, <4>3
      <3>2. CASE u # t
        BY <1>3, <2>2, <3>2 DEF AnnouncedWasRecorded, SuccessIsTrue, StoreTypeOK
      <3> QED
        BY <3>1, <3>2
    <2>3. SuccessIsTrue'
      BY <2>2 DEF SuccessIsTrue
    <2>4. AnnouncedWasRecorded'
      BY <2>2 DEF AnnouncedWasRecorded, AspinStatus
    <2> QED
      BY <1>1, <2>3, <2>4
  <1> QED
    BY <1>1, <1>2, <1>3 DEF NotifyAspin

-----------------------------------------------------------------------------
(* The invariant.                                                          *)

\* No handler is running and nothing has been announced at the start.
LEMMA ExecutorInitInv == ExecutorInit => ExecutorInv
  <1> SUFFICES ASSUME ExecutorInit PROVE ExecutorInv
    OBVIOUS
  <1> USE DEF ExecutorInit, Init, StoreInit, CallbackInit, CheckInit
  <1>1. RowIsTrue
    BY DEF RowIsTrue, Known, NewRow, Final
  <1>2. SuccessIsTrue /\ AnnouncedWasRecorded
    BY DEF SuccessIsTrue, AnnouncedWasRecorded
  <1>3. ASSUME NEW c \in Callbacks PROVE DeliverySpeaksTruth(c) /\ DeliveryRecords(c)
    BY DEF DeliverySpeaksTruth, DeliveryRecords
  <1>4. ASSUME NEW k \in Checks PROVE AnswerIsTrue(k) /\ CheckRecords(k)
    BY DEF AnswerIsTrue, CheckRecords
  <1> QED
    BY <1>1, <1>2, <1>3, <1>4 DEF ExecutorInv

\* A step of one delivery keeps the invariant if it keeps what that delivery
\* relies on and what the store promises ...
LEMMA DeliveryMoves ==
  ASSUME ExecutorTypeOK, ExecutorInv, Monotone, UNCHANGED checkVars,
         NEW c \in Callbacks,
         \A d \in Callbacks : d # c => pc'[d] = pc[d] /\ delivery'[d] = delivery[d],
         DeliverySpeaksTruth(c)', DeliveryRecords(c)',
         RowIsTrue', SuccessIsTrue', AnnouncedWasRecorded'
  PROVE  ExecutorInv'
  <1>1. ASSUME NEW d \in Callbacks, d # c
        PROVE  DeliverySpeaksTruth(d)' /\ DeliveryRecords(d)'
    BY <1>1, DeliveryKept DEF ExecutorInv, ExecutorTypeOK
  <1>2. ASSUME NEW k \in Checks PROVE AnswerIsTrue(k)' /\ CheckRecords(k)'
    BY CheckKept DEF ExecutorInv, ExecutorTypeOK, checkVars
  <1> QED
    BY <1>1, <1>2 DEF ExecutorInv

\* ... and likewise a step of one check.
LEMMA CheckMoves ==
  ASSUME ExecutorTypeOK, ExecutorInv, Monotone, UNCHANGED callbackVars,
         NEW k \in Checks,
         \A j \in Checks : j # k => checkPc'[j] = checkPc[j] /\ check'[j] = check[j],
         AnswerIsTrue(k)', CheckRecords(k)',
         RowIsTrue', SuccessIsTrue', AnnouncedWasRecorded'
  PROVE  ExecutorInv'
  <1>1. ASSUME NEW d \in Callbacks PROVE DeliverySpeaksTruth(d)' /\ DeliveryRecords(d)'
    BY DeliveryKept DEF ExecutorInv, ExecutorTypeOK, callbackVars
  <1>2. ASSUME NEW j \in Checks, j # k PROVE AnswerIsTrue(j)' /\ CheckRecords(j)'
    BY <1>2, CheckKept DEF ExecutorInv, ExecutorTypeOK
  <1> QED
    BY <1>1, <1>2 DEF ExecutorInv

\* The hub posts what it knows: a signed delivery speaks the truth when sent.
LEMMA SendTruth ==
  ASSUME ExecutorTypeOK, ExecutorInv, NEW c \in Callbacks, Send(c),
         UNCHANGED checkVars
  PROVE  ExecutorInv'
  <1>1. PICK t \in Transactions, signed \in Signatures :
          \E raw \in IF signed THEN CallbackSpelling[hub[t]] ELSE RawStatuses :
            delivery' = [delivery EXCEPT ![c] = [txn |-> t, raw |-> raw, signed |-> signed]]
    BY DEF Send
  <1>2. PICK raw \in IF signed THEN CallbackSpelling[hub[t]] ELSE RawStatuses :
          delivery' = [delivery EXCEPT ![c] = [txn |-> t, raw |-> raw, signed |-> signed]]
    BY <1>1
  <1>3. /\ delivery'[c] = [txn |-> t, raw |-> raw, signed |-> signed]
        /\ pc'[c] = "sent"
        /\ \A d \in Callbacks : d # c => pc'[d] = pc[d] /\ delivery'[d] = delivery[d]
        /\ UNCHANGED storeVars
    BY <1>2 DEF Send, Goto, ExecutorTypeOK, TypeOK
  <1>4. signed => ExtractStatus(raw) \in {hub[t], "pending"}
    BY <1>2, TruthfulAssumption DEF Truthful, ExecutorTypeOK, TypeOK, StoreTypeOK
  <1>5. Monotone
    BY <1>3 DEF Monotone, storeVars, Known
  <1>6. DeliverySpeaksTruth(c)' /\ DeliveryRecords(c)'
    BY <1>3, <1>4 DEF DeliverySpeaksTruth, DeliveryRecords, Txn, Status, Final, storeVars
  <1>7. RowIsTrue' /\ SuccessIsTrue' /\ AnnouncedWasRecorded'
    BY <1>3, <1>5, StoreKept DEF ExecutorInv, ExecutorTypeOK, TypeOK, storeVars
  <1> QED
    BY <1>3, <1>5, <1>6, <1>7, DeliveryMoves

\* The deliveries' steps that leave the store alone.
LEMMA SilentDelivery ==
  ASSUME ExecutorTypeOK, ExecutorInv, NEW c \in Callbacks,
         \/ AcquireLock(c) \/ AnswerBusy(c) \/ FindPayment(c) \/ Validate(c)
         \/ ReleaseLock(c) \/ Crash(c),
         UNCHANGED checkVars
  PROVE  ExecutorInv'
  <1> DEFINE Moved == /\ pc[c] # "idle"
                      /\ \A d \in Callbacks : d # c => pc'[d] = pc[d]
                      /\ pc'[c] = "validate" => Known(Txn(c))
                      /\ pc'[c] = "update" => pc[c] = "validate" /\ delivery[c].signed
                      /\ pc'[c] \notin {"publish", "notify"}
  <1>0. pc \in [Callbacks -> Running \cup {"idle", "done", "crashed"}]
    BY DEF ExecutorTypeOK, TypeOK
  <1>1. UNCHANGED storeVars /\ UNCHANGED delivery /\ Moved
    <2>1. CASE AcquireLock(c)
      BY <1>0, <2>1 DEF AcquireLock, Goto, Finish
    <2>2. CASE AnswerBusy(c)
      <3>1. PICK a : Finish(c, a)
        BY <2>2 DEF AnswerBusy
      <3>2. pc[c] = "busy" /\ UNCHANGED storeVars /\ UNCHANGED delivery
        BY <2>2 DEF AnswerBusy
      <3> QED
        BY <1>0, <3>1, <3>2 DEF Finish, Goto
    <2>3. CASE FindPayment(c)
      <3>1. /\ pc[c] = "find"
            /\ UNCHANGED storeVars /\ UNCHANGED delivery
            /\ \/ Goto(c, "release")
               \/ Goto(c, "validate") /\ Known(Txn(c))
        BY <2>3 DEF FindPayment, Leave
      <3> QED
        BY <1>0, <3>1 DEF Goto
    <2>4. CASE Validate(c)
      <3>1. /\ pc[c] = "validate"
            /\ UNCHANGED storeVars /\ UNCHANGED delivery
            /\ \/ Goto(c, "release")
               \/ Goto(c, "update") /\ delivery[c].signed
        BY <2>4 DEF Validate, ConfigFails, ValidSignature, Leave
      <3> QED
        BY <1>0, <3>1 DEF Goto
    <2>5. CASE ReleaseLock(c)
      <3>1. PICK a : Finish(c, a)
        BY <2>5 DEF ReleaseLock
      <3>2. pc[c] = "release" /\ UNCHANGED storeVars /\ UNCHANGED delivery
        BY <2>5 DEF ReleaseLock
      <3> QED
        BY <1>0, <3>1, <3>2 DEF Finish, Goto
    <2>6. CASE Crash(c)
      BY <1>0, <2>6 DEF Crash, Goto, Running, Critical
    <2> QED
      BY <2>1, <2>2, <2>3, <2>4, <2>5, <2>6
  <1>2. Monotone
    BY <1>1 DEF Monotone, storeVars, Known
  <1>3. DeliverySpeaksTruth(c)' /\ DeliveryRecords(c)'
    BY <1>1 DEF ExecutorInv, DeliverySpeaksTruth, DeliveryRecords, Txn, Status, Known,
       storeVars
  <1>4. RowIsTrue' /\ SuccessIsTrue' /\ AnnouncedWasRecorded'
    BY <1>1, <1>2, StoreKept DEF ExecutorInv, ExecutorTypeOK, TypeOK, storeVars
  <1> QED
    BY <1>1, <1>2, <1>3, <1>4, DeliveryMoves

\* A delivery's status is what the hub reached, so the row it writes is true.
LEMMA UpdateTruth ==
  ASSUME ExecutorTypeOK, ExecutorInv, NEW c \in Callbacks, UpdatePayment(c),
         UNCHANGED checkVars
  PROVE  ExecutorInv'
  <1> DEFINE row == [status |-> Status(c), processed |-> TRUE]
  <1>1. /\ UNCHANGED <<hub, events, notices, delivery>>
        /\ pc[c] = "update"
        /\ pc'[c] \in {"publish", "release"}
        /\ \A d \in Callbacks : d # c => pc'[d] = pc[d]
    BY DEF UpdatePayment, Leave, Goto, ExecutorTypeOK, TypeOK
  <1>2. /\ Txn(c) \in Transactions
        /\ Status(c) \in Statuses
        /\ Known(Txn(c))
        /\ delivery[c].signed
        /\ Status(c) \in Final => hub[Txn(c)] = Status(c)
    BY <1>1, DeliveryType DEF ExecutorTypeOK, ExecutorInv, DeliverySpeaksTruth,
       DeliveryRecords
  <1>3. row \in Row /\ row.status = Status(c)
    BY <1>2 DEF Row
  <1>4. CASE SettleRow(c)
    <2>1. WriteRow(Txn(c), row)
      BY <1>4 DEF SettleRow, Settle
    <2> HIDE DEF row
    <2>2. /\ Monotone
          /\ RowIsTrue' /\ SuccessIsTrue' /\ AnnouncedWasRecorded'
          /\ Status(c) \in held'[Txn(c)]
      BY <1>1, <1>2, <1>3, <2>1, RowWritten DEF ExecutorTypeOK, TypeOK, ExecutorInv
    <2>3. DeliverySpeaksTruth(c)' /\ DeliveryRecords(c)'
      BY <1>1, <1>2, <2>2 DEF DeliverySpeaksTruth, DeliveryRecords, Txn, Status, Monotone
    <2> QED
      BY <1>1, <2>2, <2>3, DeliveryMoves
  <1>5. CASE UNCHANGED <<payments, held>> /\ pc'[c] = "release"
    <2>1. Monotone
      BY <1>1, <1>5 DEF Monotone, Known
    <2>2. DeliverySpeaksTruth(c)' /\ DeliveryRecords(c)'
      BY <1>1, <1>2, <1>5 DEF DeliverySpeaksTruth, DeliveryRecords, Txn, Status
    <2>3. RowIsTrue' /\ SuccessIsTrue' /\ AnnouncedWasRecorded'
      BY <1>1, <1>5, <2>1, StoreKept DEF ExecutorInv, ExecutorTypeOK, TypeOK
    <2> QED
      BY <1>1, <2>1, <2>2, <2>3, DeliveryMoves
  <1> QED
    BY <1>4, <1>5 DEF UpdatePayment, Leave, Goto, ExecutorTypeOK, TypeOK

\* What a delivery announces is what it has recorded.
LEMMA AnnouncementTruth ==
  ASSUME ExecutorTypeOK, ExecutorInv, NEW c \in Callbacks,
         PublishResult(c) \/ NotifyResult(c), UNCHANGED checkVars
  PROVE  ExecutorInv'
  <1>1. /\ UNCHANGED <<payments, hub, held, delivery>>
        /\ pc[c] \in {"publish", "notify"}
        /\ pc'[c] \in {"notify", "release"}
        /\ \A d \in Callbacks : d # c => pc'[d] = pc[d]
    BY DEF PublishResult, NotifyResult, Leave, Goto, ExecutorTypeOK, TypeOK
  <1>2. /\ Txn(c) \in Transactions
        /\ Status(c) \in held[Txn(c)]
        /\ Status(c) \in Final => hub[Txn(c)] = Status(c)
    BY <1>1, DeliveryType DEF ExecutorTypeOK, ExecutorInv, DeliverySpeaksTruth,
       DeliveryRecords
  <1>3. Monotone /\ RowIsTrue' /\ SuccessIsTrue' /\ AnnouncedWasRecorded'
    <2>1. CASE PublishResult(c)
      BY <1>2, <2>1, StatusPublished DEF PublishResult, ExecutorTypeOK, TypeOK, ExecutorInv
    <2>2. CASE NotifyResult(c)
      BY <1>2, <2>2, StatusNotified DEF NotifyResult, ExecutorTypeOK, TypeOK, ExecutorInv
    <2> QED
      BY <2>1, <2>2
  <1>4. DeliverySpeaksTruth(c)' /\ DeliveryRecords(c)'
    BY <1>1, <1>2 DEF ExecutorInv, DeliverySpeaksTruth, DeliveryRecords, Txn, Status, Known
  <1> QED
    BY <1>1, <1>3, <1>4, DeliveryMoves

\* The checks' steps before the hub has answered, and after a crash.
LEMMA SilentCheck ==
  ASSUME ExecutorTypeOK, ExecutorInv, NEW k \in Checks,
         StartCheck(k) \/ RouteCheck(k) \/ ReadPayment(k) \/ CheckCrash(k),
         UNCHANGED callbackVars
  PROVE  ExecutorInv'
  <1> DEFINE Asked == /\ \A j \in Checks : j # k =>
                            checkPc'[j] = checkPc[j] /\ check'[j] = check[j]
                      /\ checkPc'[k] \notin {"record", "publish", "notify"}
                      /\ checkPc'[k] = "query" => Known(check'[k].txn)
  <1>0. /\ checkPc \in [Checks -> CheckRunning \cup {"idle", "done", "crashed"}]
        /\ check \in [Checks -> CheckState \cup {NoCheck}]
        /\ checkPc[k] # "idle" => check[k] \in CheckState
    BY DEF ExecutorTypeOK, CheckTypeOK
  <1>1. UNCHANGED storeVars /\ Asked
    <2>1. CASE StartCheck(k)
      BY <1>0, <2>1 DEF StartCheck, CheckGoto
    <2>2. CASE RouteCheck(k)
      BY <1>0, <2>2 DEF RouteCheck, CheckGoto, CheckFinish
    <2>3. CASE ReadPayment(k)
      <3>1. /\ checkPc[k] # "idle" /\ UNCHANGED storeVars
            /\ \/ /\ checkPc' = [checkPc EXCEPT ![k] = "done"]
                  /\ check' = check
               \/ /\ Known(check[k].txn)
                  /\ checkPc' = [checkPc EXCEPT ![k] = "query"]
                  /\ check' = [check EXCEPT ![k].seen = payments[check[k].txn].status]
        BY <2>3 DEF ReadPayment, CheckGoto, CheckFinish
      <3>2. check'[k].txn = check[k].txn
        BY <1>0, <3>1 DEF CheckState
      <3> QED
        BY <1>0, <3>1, <3>2
    <2>4. CASE CheckCrash(k)
      BY <1>0, <2>4 DEF CheckCrash, CheckGoto
    <2> QED
      BY <2>1, <2>2, <2>3, <2>4
  <1>2. Monotone
    BY <1>1 DEF Monotone, storeVars, Known
  <1>3. AnswerIsTrue(k)' /\ CheckRecords(k)'
    BY <1>1 DEF AnswerIsTrue, CheckRecords, Known, storeVars
  <1>4. RowIsTrue' /\ SuccessIsTrue' /\ AnnouncedWasRecorded'
    BY <1>1, <1>2, StoreKept DEF ExecutorInv, ExecutorTypeOK, TypeOK, storeVars
  <1> QED
    BY <1>1, <1>2, <1>3, <1>4, CheckMoves

\* What the hub says of a final outcome when it is asked is so.
LEMMA HubSaysTruth ==
  ASSUME StoreTypeOK, NEW t \in Transactions, NEW said \in HubSays(t), said \in Final
  PROVE  hub[t] = said
  <1>1. said \in QuerySpelling[hub[t]]
    BY DEF HubSays, Final
  <1>2. ExtractStatus(said) \in {hub[t], "pending"}
    BY <1>1, TruthfulAssumption DEF Truthful, StoreTypeOK
  <1>3. ExtractStatus(said) = said
    BY DEF ExtractStatus, Final
  <1> QED
    BY <1>2, <1>3 DEF Final

\* The check keeps the answer it got.
LEMMA QueryTruth ==
  ASSUME ExecutorTypeOK, ExecutorInv, NEW k \in Checks, QueryHub(k),
         UNCHANGED callbackVars
  PROVE  ExecutorInv'
  <1>0. /\ checkPc \in [Checks -> CheckRunning \cup {"idle", "done", "crashed"}]
        /\ check \in [Checks -> CheckState \cup {NoCheck}]
        /\ checkPc[k] = "query" /\ check[k] \in CheckState
        /\ check[k].txn \in Transactions
        /\ UNCHANGED storeVars
    BY DEF ExecutorTypeOK, CheckTypeOK, QueryHub, CheckState
  <1>1. Monotone
    BY <1>0 DEF Monotone, storeVars, Known
  <1>2. RowIsTrue' /\ SuccessIsTrue' /\ AnnouncedWasRecorded'
    BY <1>0, <1>1, StoreKept DEF ExecutorInv, ExecutorTypeOK, TypeOK, storeVars
  <1>3. CASE checkPc' = [checkPc EXCEPT ![k] = "done"] /\ check' = check
    <2>1. AnswerIsTrue(k)' /\ CheckRecords(k)'
      BY <1>0, <1>3 DEF AnswerIsTrue, CheckRecords
    <2> QED
      BY <1>0, <1>1, <1>2, <1>3, <2>1, CheckMoves
  <1>4. ASSUME NEW said \in HubSays(check[k].txn),
               check' = [check EXCEPT ![k].said = said],
               checkPc' = [checkPc EXCEPT ![k] = "record"]
        PROVE  ExecutorInv'
    <2>1. check'[k].txn = check[k].txn /\ check'[k].said = said
      BY <1>0, <1>4 DEF CheckState
    <2>2. said \in Final => hub[check[k].txn] = said
      BY <1>0, HubSaysTruth DEF ExecutorTypeOK, TypeOK
    <2>3. Known(check[k].txn)
      BY <1>0 DEF ExecutorInv, CheckRecords
    <2>4. AnswerIsTrue(k)' /\ CheckRecords(k)'
      BY <1>0, <1>4, <2>1, <2>2, <2>3 DEF AnswerIsTrue, CheckRecords, storeVars, Known
    <2> QED
      BY <1>0, <1>1, <1>2, <1>4, <2>4, CheckMoves
  <1> QED
    BY <1>3, <1>4 DEF QueryHub, CheckGoto, CheckFinish

\* A check writes the hub's answer over the row it has seen.
LEMMA RecordTruth ==
  ASSUME ExecutorTypeOK, ExecutorInv, NEW k \in Checks, RecordAnswer(k),
         UNCHANGED callbackVars
  PROVE  ExecutorInv'
  <1> DEFINE t    == check[k].txn
             said == check[k].said
             row  == [payments[t] EXCEPT !.status = said]
  <1>0. /\ checkPc \in [Checks -> CheckRunning \cup {"idle", "done", "crashed"}]
        /\ checkPc[k] = "record" /\ check[k] \in CheckState
        /\ t \in Transactions /\ said \in Statuses
        /\ UNCHANGED <<hub, events, notices, check>>
    BY DEF ExecutorTypeOK, CheckTypeOK, RecordAnswer, CheckState
  <1>1. Known(t) /\ (said \in Final => hub[t] = said)
    BY <1>0 DEF ExecutorInv, CheckRecords, AnswerIsTrue
  <1>2. /\ \A j \in Checks : j # k => checkPc'[j] = checkPc[j] /\ check'[j] = check[j]
        /\ checkPc'[k] \in {"publish", "done"}
    BY <1>0 DEF RecordAnswer, CheckGoto, CheckFinish
  <1>3. CASE UNCHANGED <<payments, held>> /\ checkPc'[k] = "done"
    <2>1. Monotone
      BY <1>0, <1>3 DEF Monotone, Known
    <2>2. AnswerIsTrue(k)' /\ CheckRecords(k)'
      BY <1>3 DEF AnswerIsTrue, CheckRecords
    <2>3. RowIsTrue' /\ SuccessIsTrue' /\ AnnouncedWasRecorded'
      BY <1>0, <1>3, <2>1, StoreKept DEF ExecutorInv, ExecutorTypeOK, TypeOK
    <2> QED
      BY <1>2, <2>1, <2>2, <2>3, CheckMoves
  <1>4. CASE /\ UpdateStatus(t, said)
             /\ checkPc'[k] = "publish" => said \in Final
    <2>1. payments[t] \in Row
      BY <1>0, <1>1 DEF ExecutorTypeOK, TypeOK, StoreTypeOK, Known
    <2>2. row \in Row /\ row.status = said
      BY <1>0, <2>1 DEF Row
    <2>3. WriteRow(t, row)
      BY <1>4 DEF UpdateStatus
    <2> HIDE DEF row
    <2>4. /\ Monotone
          /\ RowIsTrue' /\ SuccessIsTrue' /\ AnnouncedWasRecorded'
          /\ said \in held'[t]
      BY <1>0, <1>1, <2>2, <2>3, RowWritten DEF ExecutorTypeOK, TypeOK, ExecutorInv
    <2>5. AnswerIsTrue(k)' /\ CheckRecords(k)'
      BY <1>0, <1>1, <1>2, <1>4, <2>4 DEF AnswerIsTrue, CheckRecords, Monotone
    <2> QED
      BY <1>2, <2>4, <2>5, CheckMoves
  <1>5. \/ UNCHANGED <<payments, held>> /\ CheckFinish(k, "checked")
        \/ UNCHANGED <<payments, held>> /\ CheckFinish(k, "error")
        \/ UpdateStatus(t, said) /\ (CheckFinish(k, "checked") \/ CheckFinish(k, "error"))
        \/ UpdateStatus(t, said) /\ said \in Final
    BY DEF RecordAnswer, Announces
  <1>6. \A a : CheckFinish(k, a) => checkPc'[k] = "done"
    BY <1>0 DEF CheckFinish
  <1> QED
    BY <1>3, <1>4, <1>5, <1>6

\* What a check announces is what it has recorded.
LEMMA ChangeTruth ==
  ASSUME ExecutorTypeOK, ExecutorInv, NEW k \in Checks,
         PublishChange(k) \/ NotifyChange(k), UNCHANGED callbackVars
  PROVE  ExecutorInv'
  <1>0. checkPc \in [Checks -> CheckRunning \cup {"idle", "done", "crashed"}]
    BY DEF ExecutorTypeOK, CheckTypeOK
  <1>1. /\ UNCHANGED <<payments, hub, held, check>>
        /\ checkPc[k] \in {"publish", "notify"}
        /\ checkPc'[k] \in {"notify", "done"}
        /\ \A j \in Checks : j # k => checkPc'[j] = checkPc[j] /\ check'[j] = check[j]
    BY <1>0 DEF PublishChange, NotifyChange, CheckGoto, CheckFinish
  <1>2. check[k].txn \in Transactions
    BY <1>1 DEF ExecutorTypeOK, CheckTypeOK, CheckState
  <1>3. /\ check[k].said \in Final /\ check[k].said \in held[check[k].txn]
        /\ hub[check[k].txn] = check[k].said
        /\ Known(check[k].txn)
    BY <1>1 DEF ExecutorInv, AnswerIsTrue, CheckRecords
  <1>4. Monotone /\ RowIsTrue' /\ SuccessIsTrue' /\ AnnouncedWasRecorded'
    <2>1. CASE PublishChange(k)
      BY <1>2, <1>3, <2>1, StatusPublished
         DEF PublishChange, ExecutorTypeOK, TypeOK, ExecutorInv
    <2>2. CASE NotifyChange(k)
      BY <1>2, <1>3, <2>2, StatusNotified
         DEF NotifyChange, ExecutorTypeOK, TypeOK, ExecutorInv
    <2> QED
      BY <2>1, <2>2
  <1>5. AnswerIsTrue(k)' /\ CheckRecords(k)'
    BY <1>1, <1>3 DEF AnswerIsTrue, CheckRecords, Known
  <1> QED
    BY <1>1, <1>4, <1>5, CheckMoves

\* The lock keys may come and go, and the hub may settle: nothing anybody
\* relies on is about the lock or about an undecided charge.
LEMMA OutsideStep ==
  ASSUME ExecutorTypeOK, ExecutorInv,
         UNCHANGED <<handlerVars, checkVars, payments, events, notices, held>>,
         UNCHANGED hub \/ HubSettles
  PROVE  ExecutorInv'
  <1>1. Monotone
    <2>1. CASE UNCHANGED hub
      BY <2>1 DEF Monotone, Known
    <2>2. CASE HubSettles
      BY <2>2 DEF HubSettles, Monotone, Known, Final, ExecutorTypeOK, TypeOK, StoreTypeOK
    <2> QED
      BY <2>1, <2>2
  <1>2. ASSUME NEW c \in Callbacks PROVE DeliverySpeaksTruth(c)' /\ DeliveryRecords(c)'
    BY <1>1, DeliveryKept DEF ExecutorInv, ExecutorTypeOK, handlerVars
  <1>3. ASSUME NEW k \in Checks PROVE AnswerIsTrue(k)' /\ CheckRecords(k)'
    BY <1>1, CheckKept DEF ExecutorInv, ExecutorTypeOK, checkVars
  <1>4. RowIsTrue' /\ SuccessIsTrue' /\ AnnouncedWasRecorded'
    BY <1>1, StoreKept DEF ExecutorInv, ExecutorTypeOK, TypeOK
  <1> QED
    BY <1>2, <1>3, <1>4 DEF ExecutorInv

\* Every step of the composed system keeps the invariant.
LEMMA ExecutorNextInv ==
  ExecutorTypeOK /\ ExecutorInv /\ [ExecutorNext]_executorVars => ExecutorInv'
  <1> SUFFICES ASSUME ExecutorTypeOK, ExecutorInv, [ExecutorNext]_executorVars
               PROVE  ExecutorInv'
    OBVIOUS
  <1>1. CASE CallbackNext /\ UNCHANGED checkVars
    <2>1. ASSUME NEW c \in Callbacks, Send(c) \/ HandlerStep(c) \/ Crash(c)
          PROVE  ExecutorInv'
      BY <1>1, <2>1, SendTruth, SilentDelivery, UpdateTruth, AnnouncementTruth
         DEF HandlerStep
    <2>2. ASSUME NEW t \in Transactions, LockExpires(t) PROVE ExecutorInv'
      BY <1>1, <2>2, OutsideStep DEF LockExpires, storeVars
    <2> QED
      BY <1>1, <2>1, <2>2 DEF CallbackNext
  <1>2. CASE CheckNext /\ UNCHANGED callbackVars
    <2>1. PICK k \in Checks : StartCheck(k) \/ CheckStep(k) \/ CheckCrash(k)
      BY <1>2 DEF CheckNext
    <2> QED
      BY <1>2, <2>1, SilentCheck, QueryTruth, RecordTruth, ChangeTruth DEF CheckStep
  <1>3. CASE HubSettles /\ UNCHANGED <<callbackVars, checkVars>>
    BY <1>3, OutsideStep DEF HubSettles, callbackVars, handlerVars
  <1>4. CASE UNCHANGED executorVars
    BY <1>4, OutsideStep DEF executorVars, storeVars, callbackVars, handlerVars
  <1> QED
    BY <1>1, <1>2, <1>3, <1>4 DEF ExecutorNext

-----------------------------------------------------------------------------
(* What follows, however many deliveries and checks there are, whatever    *)
(* fails, and whether or not the locks outlive their holders.              *)

\* The invariant, of every behaviour of the composed system.
THEOREM ExecutorInvariance == ExecutorSpec => []ExecutorInv
  <1> QED
    BY ExecutorInitInv, ExecutorNextInv, ExecutorTypeCorrect, PTL DEF ExecutorSpec

\* A row says `completed' or `failed' only of a charge that has, though
\* deliveries and checks both write it and only the deliveries lock.
THEOREM TrueRow == ExecutorSpec => []RowIsTrue
  <1>1. ExecutorInv => RowIsTrue
    BY DEF ExecutorInv
  <1> QED
    BY <1>1, ExecutorInvariance, PTL

\* Aspin hears of success only when the hub has taken the money.
THEOREM TrueSuccess == ExecutorSpec => []SuccessIsTrue
  <1>1. ExecutorInv => SuccessIsTrue
    BY DEF ExecutorInv
  <1> QED
    BY <1>1, ExecutorInvariance, PTL

\* Whatever is published or notified was in the row first.
THEOREM Recorded == ExecutorSpec => []AnnouncedWasRecorded
  <1>1. ExecutorInv => AnnouncedWasRecorded
    BY DEF ExecutorInv
  <1> QED
    BY <1>1, ExecutorInvariance, PTL

-----------------------------------------------------------------------------
(* A hub that posts final outcomes only and answers in the row's words.    *)

\* The steps that touch the store, and what is known of whoever takes them.
StoreMoves ==
    \/ UNCHANGED <<storeVars, settlers>>
    \/ HubSettles /\ UNCHANGED settlers
    \/ /\ UNCHANGED <<hub, events, notices>>
       /\ \/ \E c \in Callbacks : pc[c] = "update" /\ SettleRow(c)
          \/ /\ \E k \in Checks : /\ checkPc[k] = "record"
                                  /\ check[k].said # check[k].seen
                                  /\ UpdateStatus(check[k].txn, check[k].said)
             /\ UNCHANGED settlers
    \/ /\ UNCHANGED <<payments, hub, notices, held, settlers>>
       /\ \/ \E c \in Callbacks : pc[c] = "publish" /\ Publish(Txn(c), Status(c), c)
          \/ \E k \in Checks : /\ checkPc[k] = "publish"
                               /\ Publish(check[k].txn, check[k].said, k)
    \/ /\ UNCHANGED <<payments, hub, events, held, settlers>>
       /\ \/ \E c \in Callbacks : pc[c] = "notify" /\ NotifyAspin(Txn(c), Status(c), c)
          \/ \E k \in Checks : /\ checkPc[k] = "notify"
                               /\ NotifyAspin(check[k].txn, check[k].said, k)

\* A delivery is written once, when it is sent, and recorded before it is
\* announced.
DeliveryMove(c) ==
    \/ Send(c)
    \/ /\ delivery'[c] = delivery[c]
       /\ pc'[c] # "idle" <=> pc[c] # "idle"
       /\ pc'[c] \in {"publish", "notify"} =>
             pc[c] \in {"publish", "notify"} \/ (pc[c] = "update" /\ SettleRow(c))

\* What a check saw and what it was told change in the two steps named so;
\* what it announces, it has recorded.
CheckMove(k) ==
    \/ ReadPayment(k)
    \/ QueryHub(k)
    \/ /\ checkPc'[k] \in {"query", "record"} =>
             checkPc'[k] = checkPc[k] /\ check'[k] = check[k]
       /\ checkPc'[k] \in {"publish", "notify"} =>
             /\ check'[k] = check[k]
             /\ \/ checkPc[k] \in {"publish", "notify"}
                \/ /\ checkPc[k] = "record"
                   /\ check[k].said \in Final
                   /\ UpdateStatus(check[k].txn, check[k].said)

\* These are all the steps there are.
LEMMA ExecutorMoves ==
  ASSUME ExecutorTypeOK, [ExecutorNext]_executorVars
  PROVE  /\ StoreMoves
         /\ \A c \in Callbacks : DeliveryMove(c)
         /\ \A k \in Checks : CheckMove(k)
  <1>0. /\ pc \in [Callbacks -> Running \cup {"idle", "done", "crashed"}]
        /\ checkPc \in [Checks -> CheckRunning \cup {"idle", "done", "crashed"}]
        /\ check \in [Checks -> CheckState \cup {NoCheck}]
        /\ delivery \in [Callbacks -> Delivery \cup {NoDelivery}]
    BY DEF ExecutorTypeOK, TypeOK, CheckTypeOK
  <1>1. ASSUME NEW c \in Callbacks, Send(c), UNCHANGED checkVars
        PROVE  /\ StoreMoves
               /\ \A d \in Callbacks : DeliveryMove(d)
               /\ \A k \in Checks : CheckMove(k)
    <2>1. UNCHANGED <<storeVars, settlers>>
      BY <1>1 DEF Send
    <2>2. \A d \in Callbacks : d # c => pc'[d] = pc[d] /\ delivery'[d] = delivery[d]
      BY <1>0, <1>1 DEF Send, Goto
    <2>3. \A d \in Callbacks : DeliveryMove(d)
      BY <1>1, <2>2 DEF DeliveryMove
    <2> QED
      BY <1>1, <2>1, <2>3 DEF StoreMoves, CheckMove, checkVars
  <1>2. ASSUME NEW c \in Callbacks, HandlerStep(c) \/ Crash(c), UNCHANGED checkVars
        PROVE  /\ StoreMoves
               /\ \A d \in Callbacks : DeliveryMove(d)
               /\ \A k \in Checks : CheckMove(k)
    <2>1. UNCHANGED delivery /\ pc[c] # "idle"
      BY <1>2 DEF HandlerStep, AcquireLock, AnswerBusy, FindPayment, Validate,
         UpdatePayment, PublishResult, NotifyResult, ReleaseLock, Crash, Running, Critical
    <2>2. \A d \in Callbacks : d # c => pc'[d] = pc[d]
      <3>1. PICK label : Goto(c, label)
        BY <1>2 DEF HandlerStep, AcquireLock, AnswerBusy, FindPayment, Validate,
           ConfigFails, UpdatePayment, PublishResult, NotifyResult, ReleaseLock, Crash,
           Leave, Finish
      <3> QED
        BY <1>0, <3>1 DEF Goto
    <2>3. StoreMoves
      <3>1. CASE UpdatePayment(c)
        BY <3>1 DEF UpdatePayment, StoreMoves, storeVars
      <3>2. CASE NotifyResult(c)
        BY <3>2 DEF NotifyResult, StoreMoves
      <3>3. CASE PublishResult(c)
        BY <3>3 DEF PublishResult, StoreMoves
      <3>4. CASE \/ AcquireLock(c) \/ AnswerBusy(c) \/ FindPayment(c) \/ Validate(c)
                 \/ ReleaseLock(c) \/ Crash(c)
        <4>1. UNCHANGED <<storeVars, settlers>>
          BY <3>4 DEF AcquireLock, AnswerBusy, FindPayment, Validate, ReleaseLock, Crash
        <4> QED
          BY <4>1 DEF StoreMoves
      <3> QED
        BY <1>2, <3>1, <3>2, <3>3, <3>4 DEF HandlerStep
    <2>4. DeliveryMove(c)
      <3>1. pc'[c] # "idle"
        BY <1>0, <1>2 DEF HandlerStep, AcquireLock, AnswerBusy, FindPayment, Validate,
           ConfigFails, UpdatePayment, PublishResult, NotifyResult, ReleaseLock, Crash,
           Goto, Leave, Finish
      <3>2. pc'[c] \in {"publish", "notify"} => UpdatePayment(c) \/ PublishResult(c)
        BY <1>0, <1>2 DEF HandlerStep, AcquireLock, AnswerBusy, FindPayment, Validate,
           ConfigFails, NotifyResult, ReleaseLock, Crash, Goto, Leave, Finish
      <3>3. pc'[c] \in {"publish", "notify"} /\ UpdatePayment(c)
              => pc[c] = "update" /\ SettleRow(c)
        BY <1>0 DEF UpdatePayment, Goto, Leave
      <3>4. PublishResult(c) => pc[c] = "publish"
        BY DEF PublishResult
      <3> QED
        BY <2>1, <3>1, <3>2, <3>3, <3>4 DEF DeliveryMove
    <2>5. \A d \in Callbacks : DeliveryMove(d)
      BY <2>1, <2>2, <2>4 DEF DeliveryMove
    <2> QED
      BY <1>2, <2>3, <2>5 DEF CheckMove, checkVars
  <1>3. ASSUME NEW k \in Checks, StartCheck(k) \/ CheckStep(k) \/ CheckCrash(k),
               UNCHANGED callbackVars
        PROVE  /\ StoreMoves
               /\ \A c \in Callbacks : DeliveryMove(c)
               /\ \A j \in Checks : CheckMove(j)
    <2>1. \A c \in Callbacks : DeliveryMove(c)
      BY <1>3 DEF callbackVars, DeliveryMove
    <2>2. StoreMoves
      <3>1. CASE RecordAnswer(k)
        BY <1>3, <3>1 DEF RecordAnswer, StoreMoves, storeVars, callbackVars
      <3>2. CASE NotifyChange(k)
        BY <1>3, <3>2 DEF NotifyChange, StoreMoves, callbackVars
      <3>3. CASE PublishChange(k)
        BY <1>3, <3>3 DEF PublishChange, StoreMoves, callbackVars
      <3>4. CASE \/ StartCheck(k) \/ RouteCheck(k) \/ ReadPayment(k) \/ QueryHub(k)
                 \/ CheckCrash(k)
        <4>1. UNCHANGED storeVars
          BY <3>4 DEF StartCheck, RouteCheck, ReadPayment, QueryHub, CheckCrash
        <4> QED
          BY <1>3, <4>1 DEF StoreMoves, callbackVars
      <3> QED
        BY <1>3, <3>1, <3>2, <3>3, <3>4 DEF CheckStep
    <2>3. ASSUME NEW j \in Checks, j # k PROVE CheckMove(j)
      <3>1. \E label : checkPc' = [checkPc EXCEPT ![k] = label]
        BY <1>3 DEF CheckStep, StartCheck, RouteCheck, ReadPayment, QueryHub, RecordAnswer,
           PublishChange, NotifyChange, CheckCrash, CheckGoto, CheckFinish
      <3>2. check'[j] = check[j]
        BY <1>0, <1>3, <2>3 DEF CheckStep, StartCheck, RouteCheck, ReadPayment, QueryHub,
           RecordAnswer, PublishChange, NotifyChange, CheckCrash
      <3> QED
        BY <1>0, <2>3, <3>1, <3>2 DEF CheckMove
    <2>4. CheckMove(k)
      <3>1. CASE ReadPayment(k) \/ QueryHub(k)
        BY <3>1 DEF CheckMove
      <3>2. CASE StartCheck(k) \/ RouteCheck(k) \/ NotifyChange(k) \/ CheckCrash(k)
        <4>1. \E label \in {"route", "read", "done", "crashed"} :
                checkPc' = [checkPc EXCEPT ![k] = label]
          BY <3>2 DEF StartCheck, RouteCheck, NotifyChange, CheckCrash, CheckGoto,
             CheckFinish
        <4> QED
          BY <1>0, <4>1 DEF CheckMove
      <3>3. CASE RecordAnswer(k)
        <4>1. CASE /\ UpdateStatus(check[k].txn, check[k].said)
                   /\ check[k].said \in Final
                   /\ CheckGoto(k, "publish")
          BY <1>0, <3>3, <4>1 DEF RecordAnswer, CheckMove, CheckGoto
        <4>2. CASE \E a : CheckFinish(k, a)
          BY <1>0, <4>2 DEF CheckMove, CheckFinish
        <4> QED
          BY <3>3, <4>1, <4>2 DEF RecordAnswer, Announces
      <3>4. CASE PublishChange(k)
        BY <1>0, <3>4 DEF PublishChange, CheckMove, CheckGoto
      <3> QED
        BY <1>3, <3>1, <3>2, <3>3, <3>4 DEF CheckStep
    <2> QED
      BY <2>1, <2>2, <2>3, <2>4
  <1>4. ASSUME UNCHANGED <<handlerVars, checkVars, settlers>>,
               UNCHANGED storeVars \/ HubSettles
        PROVE  /\ StoreMoves
               /\ \A c \in Callbacks : DeliveryMove(c)
               /\ \A k \in Checks : CheckMove(k)
    BY <1>4 DEF handlerVars, checkVars, StoreMoves, DeliveryMove, CheckMove
  <1>5. CASE CallbackNext /\ UNCHANGED checkVars
    <2>1. ASSUME NEW t \in Transactions, LockExpires(t)
          PROVE  UNCHANGED <<handlerVars, checkVars, storeVars, settlers>>
      BY <1>5, <2>1 DEF LockExpires
    <2> QED
      BY <1>1, <1>2, <1>4, <1>5, <2>1 DEF CallbackNext
  <1>6. CASE CheckNext /\ UNCHANGED callbackVars
    BY <1>3, <1>6 DEF CheckNext
  <1>7. CASE HubSettles /\ UNCHANGED <<callbackVars, checkVars>>
    BY <1>4, <1>7 DEF callbackVars, handlerVars
  <1>8. CASE UNCHANGED executorVars
    BY <1>4, <1>8 DEF executorVars, callbackVars, handlerVars
  <1> QED
    BY <1>5, <1>6, <1>7, <1>8 DEF ExecutorNext

\* Such a hub's webhooks say how a charge ended ...
LEMMA PostedFinal ==
  ASSUME ExecutorTypeOK, PostsFinal, NEW c \in Callbacks, Send(c)
  PROVE  delivery'[c].signed => Status(c)' \in Final
  <1>1. PICK t \in Transactions, signed \in Signatures :
          \E raw \in IF signed THEN CallbackSpelling[hub[t]] ELSE RawStatuses :
            delivery' = [delivery EXCEPT ![c] = [txn |-> t, raw |-> raw, signed |-> signed]]
    BY DEF Send
  <1>2. PICK raw \in IF signed THEN CallbackSpelling[hub[t]] ELSE RawStatuses :
          delivery' = [delivery EXCEPT ![c] = [txn |-> t, raw |-> raw, signed |-> signed]]
    BY <1>1
  <1>3. delivery'[c] = [txn |-> t, raw |-> raw, signed |-> signed]
    BY <1>2 DEF ExecutorTypeOK, TypeOK
  <1>4. signed => ExtractStatus(raw) \in Final
    BY <1>2 DEF PostsFinal, ExecutorTypeOK, TypeOK, StoreTypeOK, Outcomes, Final
  <1> QED
    BY <1>3, <1>4 DEF Status

\* ... and its answers are the outcome itself, so the column holds no others.
LEMMA PlainAnswer ==
  ASSUME StoreTypeOK, AnswersPlainly, NEW t \in Transactions
  PROVE  /\ HubSays(t) \subseteq {hub[t]}
         /\ Statuses = Outcomes
  <1>1. HubSays(t) \subseteq {hub[t]}
    BY DEF HubSays, AnswersPlainly, StoreTypeOK
  <1>2. Statuses \subseteq Outcomes
    BY DEF Statuses, AnswersPlainly
  <1> QED
    BY <1>1, <1>2 DEF Statuses

\* A row that is there stays there.
LEMMA RowStays ==
  ASSUME StoreTypeOK, NEW u \in Transactions, NEW row \in Row, WriteRow(u, row),
         NEW t \in Transactions, Known(t)
  PROVE  Known(t)'
  BY StoreAssumption DEF StoreTypeOK, WriteRow, Known

\* What a delivery that settles a row writes, and where.
LEMMA SettleEffect ==
  ASSUME ExecutorTypeOK, ExecutorInv, FinalHubInv,
         NEW c \in Callbacks, pc[c] = "update", SettleRow(c)
  PROVE  \E t \in Transactions, row \in Row :
            /\ t = Txn(c)
            /\ row = [status |-> Status(c), processed |-> TRUE]
            /\ Status(c) \in Final /\ hub[t] = Status(c) /\ delivery[c].signed
            /\ Known(t) /\ WriteRow(t, row)
            /\ payments' = [payments EXCEPT ![t] = row]
            /\ settlers' = [settlers EXCEPT ![t] = @ \cup {c}]
  <1>1. PICK t \in Transactions : t = Txn(c)
    BY DeliveryType DEF ExecutorTypeOK
  <1>2. PICK row : row = [status |-> Status(c), processed |-> TRUE]
    OBVIOUS
  <1>3. row \in Row
    BY <1>2, DeliveryType DEF ExecutorTypeOK, Row
  <1>4. Status(c) \in Final /\ hub[t] = Status(c) /\ delivery[c].signed /\ Known(t)
    BY <1>1 DEF ExecutorInv, DeliverySpeaksTruth, DeliveryRecords, FinalHubInv
  <1>5. WriteRow(t, row) /\ settlers' = [settlers EXCEPT ![t] = @ \cup {c}]
    BY <1>1, <1>2 DEF SettleRow, Settle
  <1>6. payments' = [payments EXCEPT ![t] = row]
    BY <1>4, <1>5 DEF WriteRow
  <1> QED
    BY <1>1, <1>2, <1>3, <1>4, <1>5, <1>6

\* What a check that records its answer writes, and where.
LEMMA RecordEffect ==
  ASSUME ExecutorTypeOK, ExecutorInv, FinalHubInv,
         NEW k \in Checks, checkPc[k] = "record", check[k].said # check[k].seen,
         UpdateStatus(check[k].txn, check[k].said)
  PROVE  \E t \in Transactions, row \in Row :
            /\ t = check[k].txn
            /\ row.status = check[k].said /\ row.processed = payments[t].processed
            /\ check[k].said \in Final /\ hub[t] = check[k].said
            /\ Known(t) /\ WriteRow(t, row)
            /\ payments' = [payments EXCEPT ![t] = row]
  <1>1. PICK t \in Transactions : t = check[k].txn
    BY DEF ExecutorTypeOK, CheckTypeOK, CheckState
  <1>2. check[k].said \in Final /\ hub[t] = check[k].said /\ Known(t)
    BY <1>1 DEF ExecutorInv, AnswerIsTrue, CheckRecords, FinalHubInv
  <1>3. payments[t] \in Row /\ check[k].said \in Statuses
    BY <1>2 DEF ExecutorTypeOK, TypeOK, StoreTypeOK, Known, CheckTypeOK, CheckState
  <1>4. PICK row : row = [payments[t] EXCEPT !.status = check[k].said]
    OBVIOUS
  <1>5. /\ row \in Row
        /\ row.status = check[k].said /\ row.processed = payments[t].processed
    BY <1>3, <1>4 DEF Row
  <1>6. WriteRow(t, row)
    BY <1>1, <1>4 DEF UpdateStatus
  <1>7. payments' = [payments EXCEPT ![t] = row]
    BY <1>2, <1>6 DEF WriteRow
  <1> QED
    BY <1>1, <1>2, <1>5, <1>6, <1>7

\* A final row keeps its status: whoever writes to it writes the verdict.
LEMMA FinalKept ==
  ASSUME ExecutorTypeOK, ExecutorInv, FinalHubInv, [ExecutorNext]_executorVars,
         NEW t \in Transactions, Known(t), payments[t].status \in Final
  PROVE  payments'[t].status = payments[t].status
  <1>1. StoreMoves /\ StoreTypeOK
    BY ExecutorMoves DEF ExecutorTypeOK, TypeOK
  <1>2. hub[t] = payments[t].status
    BY DEF ExecutorInv, RowIsTrue
  <1>3. ASSUME NEW u \in Transactions, NEW row \in Row, hub[u] = row.status,
               payments' = [payments EXCEPT ![u] = row]
        PROVE  payments'[t].status = payments[t].status
    BY <1>1, <1>2, <1>3 DEF StoreTypeOK
  <1>4. ASSUME NEW c \in Callbacks, pc[c] = "update", SettleRow(c)
        PROVE  payments'[t].status = payments[t].status
    BY <1>3, <1>4, SettleEffect
  <1>5. ASSUME NEW k \in Checks, checkPc[k] = "record", check[k].said # check[k].seen,
               UpdateStatus(check[k].txn, check[k].said)
        PROVE  payments'[t].status = payments[t].status
    BY <1>3, <1>5, RecordEffect
  <1> QED
    BY <1>1, <1>4, <1>5 DEF StoreMoves, storeVars, HubSettles

\* Rows stay, and only a settler marks one processed.
LEMMA SettledBy ==
  ASSUME ExecutorTypeOK, ExecutorInv, FinalHubInv, [ExecutorNext]_executorVars,
         NEW t \in Transactions
  PROVE  /\ Known(t) => Known(t)'
         /\ Settled(t)' => Settled(t) \/ settlers'[t] # {}
         /\ settlers[t] \subseteq settlers'[t]
         /\ \A c \in settlers'[t] :
               c \in settlers[t] \/ (pc[c] = "update" /\ Txn(c) = t /\ SettleRow(c))
  <1>0. StoreMoves /\ StoreTypeOK /\ settlers \in [Transactions -> SUBSET Callbacks]
    BY ExecutorMoves DEF ExecutorTypeOK, TypeOK
  <1>1. CASE UNCHANGED <<payments, settlers>>
    BY <1>1 DEF Known, Settled
  <1>2. ASSUME NEW c \in Callbacks, pc[c] = "update", SettleRow(c)
        PROVE  /\ Known(t) => Known(t)'
               /\ Settled(t)' => Settled(t) \/ settlers'[t] # {}
               /\ settlers[t] \subseteq settlers'[t]
               /\ \A d \in settlers'[t] :
                     d \in settlers[t] \/ (pc[d] = "update" /\ Txn(d) = t /\ SettleRow(d))
    <2>1. PICK u \in Transactions, row \in Row :
            /\ u = Txn(c) /\ WriteRow(u, row)
            /\ payments' = [payments EXCEPT ![u] = row]
            /\ settlers' = [settlers EXCEPT ![u] = @ \cup {c}]
      BY <1>2, SettleEffect
    <2>2. Known(t) => Known(t)'
      BY <1>0, <2>1, RowStays
    <2>3. CASE u = t
      <3>1. settlers'[t] = settlers[t] \cup {c}
        BY <1>0, <2>1, <2>3
      <3> QED
        BY <1>2, <2>1, <2>2, <2>3, <3>1
    <2>4. CASE u # t
      <3>1. settlers'[t] = settlers[t] /\ payments'[t] = payments[t]
        BY <1>0, <2>1, <2>4
      <3> QED
        BY <2>2, <3>1 DEF Settled, Known
    <2> QED
      BY <2>3, <2>4
  <1>3. ASSUME NEW k \in Checks, checkPc[k] = "record", check[k].said # check[k].seen,
               UpdateStatus(check[k].txn, check[k].said), UNCHANGED settlers
        PROVE  /\ Known(t) => Known(t)'
               /\ Settled(t)' => Settled(t)
    <2>1. PICK u \in Transactions, row \in Row :
            /\ row.processed = payments[u].processed
            /\ Known(u) /\ WriteRow(u, row)
            /\ payments' = [payments EXCEPT ![u] = row]
      BY <1>3, RecordEffect
    <2>2. Known(t) => Known(t)'
      BY <1>0, <2>1, RowStays
    <2>3. Settled(t)' => Settled(t)
      BY <1>0, <2>1 DEF Settled, Known, StoreTypeOK
    <2> QED
      BY <2>2, <2>3
  <1> QED
    BY <1>0, <1>1, <1>2, <1>3 DEF StoreMoves, storeVars, HubSettles

\* What is recorded stands, so what is announced is what the row says.
LEMMA RecordKept ==
  ASSUME ExecutorTypeOK, ExecutorInv, FinalHubInv, [ExecutorNext]_executorVars
  PROVE  RecordStands'
  <1>0. RecordStands
    BY DEF FinalHubInv
  <1>1. ASSUME NEW c \in Callbacks, pc'[c] \in {"publish", "notify"}
        PROVE  payments'[Txn(c)'].status = Status(c)'
    <2>1. /\ delivery'[c] = delivery[c]
          /\ pc[c] \in {"publish", "notify"} \/ (pc[c] = "update" /\ SettleRow(c))
      <3>1. ~Send(c)
        BY <1>1 DEF Send, Goto, ExecutorTypeOK, TypeOK
      <3> QED
        BY <1>1, <3>1, ExecutorMoves DEF DeliveryMove
    <2>2. PICK t \in Transactions : t = Txn(c)
      BY <2>1, DeliveryType DEF ExecutorTypeOK
    <2>3. Txn(c)' = t /\ Status(c)' = Status(c)
      BY <2>1, <2>2 DEF Txn, Status
    <2>4. CASE pc[c] \in {"publish", "notify"}
      <3>1. Known(t) /\ delivery[c].signed
        BY <2>2, <2>4 DEF ExecutorInv, DeliveryRecords, DeliverySpeaksTruth
      <3>2. payments[t].status = Status(c) /\ Status(c) \in Final
        BY <1>0, <2>2, <2>4, <3>1 DEF RecordStands, FinalHubInv
      <3> QED
        BY <2>3, <3>1, <3>2, FinalKept
    <2>5. CASE pc[c] = "update" /\ SettleRow(c)
      <3>1. PICK row \in Row :
              /\ row = [status |-> Status(c), processed |-> TRUE]
              /\ payments' = [payments EXCEPT ![t] = row]
        BY <2>2, <2>5, SettleEffect
      <3> QED
        BY <2>3, <3>1 DEF ExecutorTypeOK, TypeOK, StoreTypeOK
    <2> QED
      BY <2>1, <2>4, <2>5
  <1>2. ASSUME NEW k \in Checks, checkPc'[k] \in {"publish", "notify"}
        PROVE  payments'[check'[k].txn].status = check'[k].said
    <2>1. /\ check'[k] = check[k]
          /\ \/ checkPc[k] \in {"publish", "notify"}
             \/ /\ checkPc[k] = "record" /\ check[k].said \in Final
                /\ UpdateStatus(check[k].txn, check[k].said)
      <3>1. ~ReadPayment(k) /\ ~QueryHub(k)
        BY <1>2 DEF ReadPayment, QueryHub, CheckGoto, CheckFinish, ExecutorTypeOK, CheckTypeOK
      <3> QED
        BY <1>2, <3>1, ExecutorMoves DEF CheckMove
    <2>2. PICK t \in Transactions : t = check[k].txn
      BY <2>1 DEF ExecutorTypeOK, CheckTypeOK, CheckState
    <2>3. CASE checkPc[k] \in {"publish", "notify"}
      <3>1. Known(t) /\ check[k].said \in Final
        BY <2>2, <2>3 DEF ExecutorInv, CheckRecords
      <3>2. payments[t].status = check[k].said
        BY <1>0, <2>2, <2>3 DEF RecordStands
      <3> QED
        BY <2>1, <2>2, <3>1, <3>2, FinalKept
    <2>4. CASE /\ checkPc[k] = "record" /\ check[k].said \in Final
               /\ UpdateStatus(check[k].txn, check[k].said)
      <3>1. Known(t)
        BY <2>2, <2>4 DEF ExecutorInv, CheckRecords
      <3>2. payments[t] \in Row
        BY <3>1 DEF ExecutorTypeOK, TypeOK, StoreTypeOK, Known
      <3>3. payments' = [payments EXCEPT ![t] = [payments[t] EXCEPT !.status = check[k].said]]
        BY <2>2, <2>4, <3>1 DEF UpdateStatus, WriteRow
      <3> QED
        BY <2>1, <2>2, <3>2, <3>3 DEF ExecutorTypeOK, TypeOK, StoreTypeOK, Row
    <2> QED
      BY <2>1, <2>3, <2>4
  <1>3. ASSUME NEW t \in Transactions, NEW c \in settlers'[t]
        PROVE  /\ pc'[c] # "idle" /\ Txn(c)' = t /\ delivery'[c].signed
               /\ Known(t)' /\ payments'[t].status = Status(c)'
    <2>0. c \in Callbacks
      <3>1. ExecutorTypeOK'
        BY ExecutorNextType
      <3> QED
        BY <1>3, <3>1 DEF ExecutorTypeOK, TypeOK
    <2>1. /\ Known(t) => Known(t)'
          /\ c \in settlers[t] \/ (pc[c] = "update" /\ Txn(c) = t /\ SettleRow(c))
      BY <1>3, SettledBy
    <2>2. /\ pc[c] # "idle" /\ Txn(c) = t /\ delivery[c].signed
          /\ Known(t)
      BY <1>0, <2>0, <2>1 DEF RecordStands, ExecutorInv, DeliverySpeaksTruth, DeliveryRecords
    <2>3. delivery'[c] = delivery[c] /\ pc'[c] # "idle"
      <3>1. ~Send(c)
        BY <2>2 DEF Send
      <3> QED
        BY <2>0, <2>2, <3>1, ExecutorMoves DEF DeliveryMove
    <2>4. Txn(c)' = Txn(c) /\ Status(c)' = Status(c)
      BY <2>3 DEF Txn, Status
    <2>5. CASE c \in settlers[t]
      <3>1. payments[t].status = Status(c) /\ Status(c) \in Final
        BY <1>0, <2>0, <2>2, <2>5 DEF RecordStands, FinalHubInv
      <3> QED
        BY <2>1, <2>2, <2>3, <2>4, <3>1, FinalKept
    <2>6. CASE pc[c] = "update" /\ Txn(c) = t /\ SettleRow(c)
      <3>1. PICK row \in Row :
              /\ row = [status |-> Status(c), processed |-> TRUE]
              /\ payments' = [payments EXCEPT ![t] = row]
        BY <2>0, <2>6, SettleEffect
      <3>2. payments'[t].status = Status(c)
        BY <3>1 DEF ExecutorTypeOK, TypeOK, StoreTypeOK
      <3> QED
        BY <2>1, <2>2, <2>3, <2>4, <3>2
    <2> QED
      BY <2>1, <2>5, <2>6
  <1>4. ASSUME NEW t \in Transactions, Settled(t)'
        PROVE  settlers'[t] # {}
    BY <1>0, <1>4, SettledBy DEF RecordStands
  <1> QED
    BY <1>1, <1>2, <1>3, <1>4 DEF RecordStands

\* The strengthening is inductive on top of ExecutorInv.
LEMMA FinalHubStep ==
  ASSUME PostsFinal, AnswersPlainly,
         ExecutorTypeOK, ExecutorInv, FinalHubInv, [ExecutorNext]_executorVars
  PROVE  FinalHubInv'
  <1>1. StoreMoves
    BY ExecutorMoves
  <1>2. \A t \in Transactions : hub[t] \in Final => hub'[t] = hub[t]
    <2>1. UNCHANGED hub \/ HubSettles
      BY <1>1 DEF StoreMoves, storeVars
    <2> QED
      BY <2>1 DEF HubSettles, Final, ExecutorTypeOK, TypeOK, StoreTypeOK
  <1>3. ASSUME NEW c \in Callbacks, pc'[c] # "idle", delivery'[c].signed
        PROVE  Status(c)' \in Final
    <2>1. CASE Send(c)
      BY <1>3, <2>1, PostedFinal
    <2>2. CASE delivery'[c] = delivery[c] /\ pc[c] # "idle"
      BY <1>3, <2>2 DEF FinalHubInv, Status
    <2> QED
      BY <1>3, <2>1, <2>2, ExecutorMoves DEF DeliveryMove
  <1>4. ASSUME NEW k \in Checks
        PROVE  /\ (checkPc[k] = "query" /\ check[k].seen \in Final =>
                      hub[check[k].txn] \in Final)'
               /\ (checkPc[k] = "record" /\ check[k].said \notin Final =>
                      check[k].said = check[k].seen)'
    <2>0. /\ checkPc \in [Checks -> CheckRunning \cup {"idle", "done", "crashed"}]
          /\ check \in [Checks -> CheckState \cup {NoCheck}]
          /\ checkPc[k] # "idle" => /\ check[k] \in CheckState
                                    /\ check[k].txn \in Transactions
                                    /\ check[k].seen \in Statuses
      BY DEF ExecutorTypeOK, CheckTypeOK, CheckState
    <2>1. CASE ReadPayment(k)
      <3>1. checkPc'[k] # "record" /\ UNCHANGED hub
        BY <2>0, <2>1 DEF ReadPayment, CheckGoto, CheckFinish, storeVars
      <3>2. ASSUME checkPc'[k] = "query"
            PROVE  /\ Known(check[k].txn)
                   /\ check'[k].txn = check[k].txn
                   /\ check'[k].seen = payments[check[k].txn].status
        <4>1. checkPc[k] # "idle" /\ Known(check[k].txn)
              /\ check' = [check EXCEPT ![k].seen = payments[check[k].txn].status]
          BY <2>0, <2>1, <3>2 DEF ReadPayment, CheckGoto, CheckFinish
        <4> QED
          BY <2>0, <4>1 DEF CheckState
      <3>3. checkPc[k] # "idle"
        BY <2>1 DEF ReadPayment
      <3> QED
        BY <2>0, <3>1, <3>2, <3>3 DEF ExecutorInv, RowIsTrue
    <2>2. CASE QueryHub(k)
      <3>1. checkPc[k] = "query" /\ UNCHANGED hub /\ checkPc'[k] # "query"
        BY <2>0, <2>2 DEF QueryHub, CheckGoto, CheckFinish, storeVars
      <3>2. ASSUME checkPc'[k] = "record", check'[k].said \notin Final
            PROVE  check'[k].said = check'[k].seen
        <4>1. PICK said \in HubSays(check[k].txn) : check' = [check EXCEPT ![k].said = said]
          BY <2>0, <2>2, <3>2 DEF QueryHub, CheckGoto, CheckFinish
        <4>2. check'[k].said = said /\ check'[k].seen = check[k].seen
          BY <2>0, <3>1, <4>1 DEF CheckState
        <4>3. said = hub[check[k].txn] /\ check[k].seen \in Outcomes
          BY <2>0, <3>1, PlainAnswer DEF ExecutorTypeOK, TypeOK
        <4>4. hub[check[k].txn] \notin Final => check[k].seen \notin Final
          BY <3>1 DEF FinalHubInv
        <4>5. hub[check[k].txn] \in Outcomes
          BY <2>0, <3>1 DEF ExecutorTypeOK, TypeOK, StoreTypeOK
        <4> QED
          BY <3>2, <4>2, <4>3, <4>4, <4>5 DEF Outcomes, Final
      <3> QED
        BY <3>1, <3>2
    <2>3. CASE checkPc'[k] \in {"query", "record"} =>
                  checkPc'[k] = checkPc[k] /\ check'[k] = check[k]
      BY <1>2, <2>0, <2>3 DEF FinalHubInv
    <2> QED
      BY <2>1, <2>2, <2>3, ExecutorMoves DEF CheckMove
  <1>5. FailureIsTrue'
    <2>1. CASE UNCHANGED notices
      BY <1>2, <2>1 DEF FinalHubInv, FailureIsTrue, Final
    <2>2. ASSUME NEW t \in Transactions, NEW word \in Final, hub[t] = word, NEW by,
                 NotifyAspin(t, word, by)
          PROVE  FailureIsTrue'
      <3> DEFINE n == [by |-> by, status |-> AspinStatus(word)]
      <3>1. n.status = word
        BY <2>2 DEF AspinStatus, Final
      <3>2. CASE notices' = [notices EXCEPT ![t] = Append(@, n)]
        <4>1. ASSUME NEW u \in Transactions, NEW i \in DOMAIN notices'[u]
              PROVE  notices'[u][i].status = "failed" => hub[u] = "failed"
          <5>1. CASE u = t
            <6>1. notices'[t] = Append(notices[t], n) /\ notices[t] \in Seq(Notice)
              BY <3>2 DEF ExecutorTypeOK, TypeOK, StoreTypeOK
            <6>2. CASE i = Len(notices[t]) + 1
              <7>1. notices'[t][i] = n
                BY <6>1, <6>2
              <7> QED
                BY <2>2, <3>1, <5>1, <7>1
            <6>3. CASE i # Len(notices[t]) + 1
              <7>1. i \in DOMAIN notices[t] /\ notices'[t][i] = notices[t][i]
                BY <4>1, <5>1, <6>1, <6>3
              <7> QED
                BY <5>1, <7>1 DEF FinalHubInv, FailureIsTrue
            <6> QED
              BY <6>2, <6>3
          <5>2. CASE u # t
            BY <3>2, <4>1, <5>2 DEF FinalHubInv, FailureIsTrue, ExecutorTypeOK, TypeOK,
               StoreTypeOK
          <5> QED
            BY <5>1, <5>2
        <4> QED
          BY <1>2, <4>1 DEF FailureIsTrue, Final
      <3> QED
        BY <2>1, <2>2, <3>2 DEF NotifyAspin
    <2>3. ASSUME NEW c \in Callbacks, pc[c] = "notify", NotifyAspin(Txn(c), Status(c), c)
          PROVE  FailureIsTrue'
      <3>1. delivery[c].signed
        BY <2>3 DEF ExecutorInv, DeliverySpeaksTruth
      <3>2. Txn(c) \in Transactions /\ Status(c) \in Final /\ hub[Txn(c)] = Status(c)
        BY <2>3, <3>1, DeliveryType DEF ExecutorTypeOK, ExecutorInv, FinalHubInv,
           DeliverySpeaksTruth
      <3> QED
        BY <2>2, <2>3, <3>2
    <2>4. ASSUME NEW k \in Checks, checkPc[k] = "notify",
                 NotifyAspin(check[k].txn, check[k].said, k)
          PROVE  FailureIsTrue'
      <3>1. check[k].txn \in Transactions
        BY <2>4 DEF ExecutorTypeOK, CheckTypeOK, CheckState
      <3>2. check[k].said \in Final /\ hub[check[k].txn] = check[k].said
        BY <2>4 DEF ExecutorInv, CheckRecords, AnswerIsTrue
      <3> QED
        BY <2>2, <2>4, <3>1, <3>2
    <2> QED
      BY <1>1, <2>1, <2>3, <2>4 DEF StoreMoves, storeVars, HubSettles
  <1>6. RecordStands'
    BY RecordKept
  <1> QED
    BY <1>3, <1>4, <1>5, <1>6 DEF FinalHubInv

\* At the start nobody has been told anything.
LEMMA FinalHubInit == ExecutorInit => FinalHubInv
  <1> SUFFICES ASSUME ExecutorInit PROVE FinalHubInv
    OBVIOUS
  <1> USE DEF ExecutorInit, Init, StoreInit, CallbackInit, CheckInit
  <1>1. RecordStands
    BY DEF RecordStands, Settled, Known, NewRow
  <1> QED
    BY <1>1 DEF FinalHubInv, FailureIsTrue

\* The strengthening, of every behaviour with such a hub.
THEOREM FinalHubInvariance ==
  ASSUME PostsFinal, AnswersPlainly
  PROVE  ExecutorSpec => []FinalHubInv
  <1>1. ExecutorTypeOK /\ ExecutorInv /\ FinalHubInv /\ [ExecutorNext]_executorVars
        => FinalHubInv'
    BY FinalHubStep
  <1> QED
    BY <1>1, FinalHubInit, ExecutorTypeCorrect, ExecutorInvariance, PTL DEF ExecutorSpec

\* Aspin hears of failure only when the charge has failed ...
THEOREM TrueFailure ==
  ASSUME PostsFinal, AnswersPlainly
  PROVE  ExecutorSpec => []FailureIsTrue
  <1>1. FinalHubInv => FailureIsTrue
    BY DEF FinalHubInv
  <1> QED
    BY <1>1, FinalHubInvariance, PTL

\* ... and a final row stays as it is, whatever the other handlers have read
\* before it became final.
THEOREM FinalStays ==
  ASSUME PostsFinal, AnswersPlainly
  PROVE  ExecutorSpec => FinalIsStable
  <1>1. ASSUME ExecutorTypeOK, ExecutorInv, FinalHubInv, [ExecutorNext]_executorVars,
               NEW t \in Transactions, Known(t), payments[t].status \in Final
        PROVE  payments'[t].status = payments[t].status
    BY <1>1, FinalKept
  <1> DEFINE Stays == \A t \in Transactions :
                         Known(t) /\ payments[t].status \in Final =>
                             payments'[t].status = payments[t].status
  <1>2. ExecutorTypeOK /\ ExecutorInv /\ FinalHubInv /\ [ExecutorNext]_executorVars
        => [Stays]_executorVars
    BY <1>1
  <1>3. ExecutorSpec => [][Stays]_executorVars
    BY <1>2, ExecutorTypeCorrect, ExecutorInvariance, FinalHubInvariance, PTL DEF ExecutorSpec
  <1> QED
    BY <1>3 DEF FinalIsStable

\* A row is processed only by a well-signed delivery for its transaction, with
\* its status, though locks may expire under their holders.
THEOREM FinalSettlement ==
  ASSUME PostsFinal, AnswersPlainly
  PROVE  ExecutorSpec => []SettledByTheHub
  <1>1. FinalHubInv => SettledByTheHub
    BY DEF FinalHubInv, RecordStands, SettledByTheHub
  <1> QED
    BY <1>1, FinalHubInvariance, PTL

-----------------------------------------------------------------------------
(* With such a hub PaymentExecutor implements HubFollowed.                 *)

\* The refinement mapping, but for the outboxes, which are CallbackHandler's.
recordedBar == [t \in Transactions |-> IF Known(t) THEN payments[t].status ELSE "none"]

\* The statuses of an outbox are as many as its messages ...
LEMMA StatusesOfLen ==
  ASSUME NEW m, NEW t \in Transactions, m[t] \in Seq(Event)
  PROVE  StatusesOf(m)[t] \in Seq(Statuses) /\ Len(StatusesOf(m)[t]) = Len(m[t])
  <1> DEFINE s == m[t]
             a == [i \in DOMAIN s |-> s[i].status]
  <1>1. s \in Seq(Event)
    OBVIOUS
  <1>2. Len(s) \in Nat /\ DOMAIN s = 1..Len(s) /\ s \in [1..Len(s) -> Event]
    BY <1>1, LenProperties
  <1>3. a \in [1..Len(s) -> Statuses]
    BY <1>2 DEF Event
  <1>4. a \in Seq(Statuses) /\ Len(a) = Len(s)
    BY <1>2, <1>3, SeqDef, LenProperties
  <1>5. StatusesOf(m)[t] = a
    BY DEF StatusesOf
  <1> QED
    BY <1>4, <1>5

\* ... and one more message is one more status.
LEMMA StatusesOfMore ==
  ASSUME NEW m, NEW n, NEW t \in Transactions, NEW e \in Event,
         m[t] \in Seq(Event), n[t] = Append(m[t], e),
         \A u \in Transactions \ {t} : n[u] = m[u]
  PROVE  /\ StatusesOf(n)[t] = Append(StatusesOf(m)[t], e.status)
         /\ \A u \in Transactions \ {t} : StatusesOf(n)[u] = StatusesOf(m)[u]
  <1> DEFINE a == StatusesOf(n)[t]
             b == Append(StatusesOf(m)[t], e.status)
             k == Len(m[t]) + 1
  <1>1. /\ n[t] \in Seq(Event) /\ e.status \in Statuses
        /\ Len(m[t]) \in Nat /\ DOMAIN m[t] = 1..Len(m[t])
        /\ DOMAIN n[t] = 1..k /\ Len(n[t]) = k
        /\ n[t][k] = e /\ \A i \in 1..Len(m[t]) : n[t][i] = m[t][i]
    BY LenProperties DEF Event
  <1>2. /\ a \in Seq(Statuses) /\ Len(a) = k
        /\ StatusesOf(m)[t] \in Seq(Statuses) /\ Len(StatusesOf(m)[t]) = Len(m[t])
    BY <1>1, StatusesOfLen
  <1>3. /\ b \in Seq(Statuses) /\ Len(b) = k /\ b[k] = e.status
        /\ \A i \in 1..Len(m[t]) : b[i] = StatusesOf(m)[t][i]
    BY <1>1, <1>2
  <1>4. a[k] = e.status /\ \A i \in 1..Len(m[t]) : a[i] = StatusesOf(m)[t][i]
    <2>1. /\ a = [i \in DOMAIN n[t] |-> n[t][i].status]
          /\ StatusesOf(m)[t] = [i \in DOMAIN m[t] |-> m[t][i].status]
      BY DEF StatusesOf
    <2> QED
      BY <1>1, <2>1
  <1> HIDE DEF a, b
  <1>5. \A i \in 1..k : a[i] = b[i]
    BY <1>1, <1>3, <1>4
  <1>6. a = b
    BY <1>2, <1>3, <1>5, SeqEqual
  <1>7. \A u \in Transactions \ {t} : StatusesOf(n)[u] = StatusesOf(m)[u]
    BY DEF StatusesOf
  <1> QED
    BY <1>6, <1>7 DEF a, b

\* Nothing is decided, recorded, announced or told at the start.
LEMMA FollowInit == ExecutorInit => Following!Init
  <1> SUFFICES ASSUME ExecutorInit PROVE Following!Init
    OBVIOUS
  <1> USE DEF ExecutorInit, Init, StoreInit
  <1>1. recordedBar \in [Transactions -> {"none", "pending"}]
    BY DEF recordedBar, Known, NewRow
  <1>2. /\ StatusesOf(events) = [t \in Transactions |-> <<>>]
        /\ StatusesOf(notices) = [t \in Transactions |-> <<>>]
    BY DEF StatusesOf
  <1>3. hub = [t \in Transactions |-> "pending"]
    OBVIOUS
  <1> QED
    BY <1>1, <1>2, <1>3 DEF Following!Init, recordedBar

LEMMA FollowStep ==
  ASSUME NEW t \in Transactions,
         Following!Decide(t) \/ Following!Record(t) \/ Following!Announce(t)
         \/ Following!Tell(t)
  PROVE  [Following!Next]_(Following!vars)
  BY DEF Following!Next

\* A row is written: the abstract Record, or the verdict once more.
LEMMA FollowRecord ==
  ASSUME AnswersPlainly, ExecutorTypeOK, RowIsTrue,
         NEW t \in Transactions, NEW row \in Row,
         row.status \in Final, hub[t] = row.status, Known(t),
         payments' = [payments EXCEPT ![t] = row], UNCHANGED <<hub, events, notices>>
  PROVE  [Following!Next]_(Following!vars)
  <1>0. StoreTypeOK
    BY DEF ExecutorTypeOK, TypeOK
  <1>1. /\ payments'[t] = row /\ row # NoPayment
        /\ \A u \in Transactions \ {t} : payments'[u] = payments[u]
    BY <1>0, StoreAssumption DEF StoreTypeOK
  <1>2. /\ recordedBar[t] = payments[t].status
        /\ recordedBar' = [recordedBar EXCEPT ![t] = hub[t]]
    <2>1. recordedBar'[t] = hub[t]
      BY <1>1 DEF recordedBar, Known
    <2>2. \A u \in Transactions \ {t} : recordedBar'[u] = recordedBar[u]
      BY <1>1 DEF recordedBar, Known
    <2>3. /\ DOMAIN recordedBar = Transactions /\ DOMAIN recordedBar' = Transactions
          /\ recordedBar' = [u \in Transactions |-> recordedBar'[u]]
          /\ recordedBar[t] = payments[t].status
      BY DEF recordedBar
    <2> QED
      BY <2>1, <2>2, <2>3
  <1>3. /\ StatusesOf(events)' = StatusesOf(events)
        /\ StatusesOf(notices)' = StatusesOf(notices)
    BY DEF StatusesOf
  <1>4. CASE payments[t].status \in Final
    <2>1. recordedBar' = recordedBar
      BY <1>2, <1>4 DEF RowIsTrue, recordedBar
    <2> QED
      BY <1>3, <2>1 DEF Following!vars, recordedBar
  <1>5. CASE payments[t].status \notin Final
    <2>1. recordedBar[t] = "pending"
      <3>1. payments[t].status \in Outcomes
        BY <1>0, PlainAnswer DEF StoreTypeOK, Known, Row
      <3> QED
        BY <1>2, <1>5, <3>1 DEF Outcomes, Final
    <2>2. hub[t] # "pending"
      BY DEF Final
    <2>3. Following!Record(t)
      BY <1>2, <1>3, <2>1, <2>2 DEF Following!Record, recordedBar
    <2> QED
      BY <2>3, FollowStep
  <1> QED
    BY <1>4, <1>5

\* A message is the abstract Announce, or lost.
LEMMA FollowAnnounce ==
  ASSUME ExecutorTypeOK, NEW t \in Transactions, NEW word \in Final, NEW by \in Handlers,
         Known(t), payments[t].status = word, Publish(t, word, by),
         UNCHANGED <<payments, hub, notices>>
  PROVE  [Following!Next]_(Following!vars)
  <1> DEFINE n == [by |-> by, status |-> word]
  <1>1. recordedBar' = recordedBar /\ StatusesOf(notices)' = StatusesOf(notices)
    BY DEF recordedBar, Known, StatusesOf
  <1>2. CASE events' = events
    BY <1>1, <1>2 DEF Following!vars, recordedBar, StatusesOf
  <1>3. CASE events' = [events EXCEPT ![t] = Append(@, n)]
    <2>1. n \in Event /\ n.status = word
      BY DEF Event, Statuses, Outcomes, Final
    <2>2. events \in [Transactions -> Seq(Event)]
      BY DEF ExecutorTypeOK, TypeOK, StoreTypeOK
    <2> HIDE DEF n
    <2>3. StatusesOf(events') = [StatusesOf(events) EXCEPT ![t] = Append(@, word)]
      <3>1. /\ events[t] \in Seq(Event)
            /\ events'[t] = Append(events[t], n)
            /\ \A u \in Transactions \ {t} : events'[u] = events[u]
        BY <1>3, <2>1, <2>2
      <3>2. /\ StatusesOf(events')[t] = Append(StatusesOf(events)[t], word)
            /\ \A u \in Transactions \ {t} : StatusesOf(events')[u] = StatusesOf(events)[u]
        BY <2>1, <3>1, StatusesOfMore
      <3> QED
        BY <3>2 DEF StatusesOf
    <2>4. StatusesOf(events)' = StatusesOf(events')
      BY DEF StatusesOf
    <2>5. recordedBar[t] = word
      BY DEF recordedBar
    <2>6. Following!Announce(t)
      BY <1>1, <2>3, <2>4, <2>5
      DEF Following!Announce, Following!Final, Final, recordedBar
    <2> QED
      BY <2>6, FollowStep
  <1> QED
    BY <1>2, <1>3 DEF Publish

\* A notice is the abstract Tell, or lost.
LEMMA FollowTell ==
  ASSUME ExecutorTypeOK, NEW t \in Transactions, NEW word \in Final, NEW by \in Handlers,
         Known(t), payments[t].status = word, NotifyAspin(t, word, by),
         UNCHANGED <<payments, hub, events>>
  PROVE  [Following!Next]_(Following!vars)
  <1> DEFINE n == [by |-> by, status |-> AspinStatus(word)]
  <1>1. recordedBar' = recordedBar /\ StatusesOf(events)' = StatusesOf(events)
    BY DEF recordedBar, Known, StatusesOf
  <1>2. CASE notices' = notices
    BY <1>1, <1>2 DEF Following!vars, recordedBar, StatusesOf
  <1>3. CASE notices' = [notices EXCEPT ![t] = Append(@, n)]
    <2>1. n \in Event /\ n.status = word /\ Notice \subseteq Event
      BY DEF Event, Notice, Statuses, Outcomes, Final, AspinStatus
    <2>2. notices \in [Transactions -> Seq(Notice)]
      BY DEF ExecutorTypeOK, TypeOK, StoreTypeOK
    <2> HIDE DEF n
    <2>3. StatusesOf(notices') = [StatusesOf(notices) EXCEPT ![t] = Append(@, word)]
      <3>1. /\ notices[t] \in Seq(Event)
            /\ notices'[t] = Append(notices[t], n)
            /\ \A u \in Transactions \ {t} : notices'[u] = notices[u]
        BY <1>3, <2>1, <2>2
      <3>2. /\ StatusesOf(notices')[t] = Append(StatusesOf(notices)[t], word)
            /\ \A u \in Transactions \ {t} : StatusesOf(notices')[u] = StatusesOf(notices)[u]
        BY <2>1, <3>1, StatusesOfMore
      <3> QED
        BY <3>2 DEF StatusesOf
    <2>4. StatusesOf(notices)' = StatusesOf(notices')
      BY DEF StatusesOf
    <2>5. recordedBar[t] = word
      BY DEF recordedBar
    <2>6. Following!Tell(t)
      BY <1>1, <2>3, <2>4, <2>5
      DEF Following!Tell, Following!Final, Final, recordedBar
    <2> QED
      BY <2>6, FollowStep
  <1> QED
    BY <1>2, <1>3 DEF NotifyAspin

\* Every step is a step of HubFollowed or a stutter.
LEMMA FollowNext ==
  ASSUME AnswersPlainly, ExecutorTypeOK, ExecutorInv, FinalHubInv,
         [ExecutorNext]_executorVars
  PROVE  [Following!Next]_(Following!vars)
  <1>0. StoreMoves /\ RowIsTrue /\ RecordStands
    BY ExecutorMoves DEF ExecutorInv, FinalHubInv
  <1>1. CASE UNCHANGED storeVars
    BY <1>1 DEF storeVars, Following!vars, Known, StatusesOf
  <1>2. CASE HubSettles
    <2>1. PICK t \in Transactions, outcome \in Final :
            /\ hub[t] = "pending"
            /\ hub' = [hub EXCEPT ![t] = outcome]
            /\ UNCHANGED <<payments, events, notices, held>>
      BY <1>2 DEF HubSettles
    <2>2. Following!Decide(t)
      BY <2>1 DEF Following!Decide, Following!Final, Final, Known, StatusesOf
    <2> QED
      BY <2>2, FollowStep
  <1>3. ASSUME NEW c \in Callbacks, pc[c] = "update", SettleRow(c),
               UNCHANGED <<hub, events, notices>>
        PROVE  [Following!Next]_(Following!vars)
    <2>1. PICK t \in Transactions, row \in Row :
            /\ row = [status |-> Status(c), processed |-> TRUE]
            /\ Status(c) \in Final /\ hub[t] = Status(c) /\ Known(t)
            /\ payments' = [payments EXCEPT ![t] = row]
      BY <1>3, SettleEffect
    <2>2. row.status = Status(c)
      BY <2>1
    <2> QED
      BY <1>0, <1>3, <2>1, <2>2, FollowRecord
  <1>4. ASSUME NEW k \in Checks, checkPc[k] = "record", check[k].said # check[k].seen,
               UpdateStatus(check[k].txn, check[k].said),
               UNCHANGED <<hub, events, notices>>
        PROVE  [Following!Next]_(Following!vars)
    <2>1. PICK t \in Transactions, row \in Row :
            /\ row.status = check[k].said
            /\ check[k].said \in Final /\ hub[t] = check[k].said /\ Known(t)
            /\ payments' = [payments EXCEPT ![t] = row]
      BY <1>4, RecordEffect
    <2> QED
      BY <1>0, <1>4, <2>1, FollowRecord
  <1>5. ASSUME NEW c \in Callbacks, pc[c] \in {"publish", "notify"}
        PROVE  \E t \in Transactions, word \in Final :
                  /\ t = Txn(c) /\ word = Status(c) /\ c \in Handlers
                  /\ Known(t) /\ payments[t].status = word
    <2>1. Txn(c) \in Transactions /\ c \in Handlers
      BY <1>5, DeliveryType DEF ExecutorTypeOK
    <2>2. Status(c) \in Final /\ Known(Txn(c)) /\ payments[Txn(c)].status = Status(c)
      BY <1>0, <1>5 DEF ExecutorInv, DeliverySpeaksTruth, DeliveryRecords, FinalHubInv,
         RecordStands
    <2> QED
      BY <2>1, <2>2
  <1>6. ASSUME NEW k \in Checks, checkPc[k] \in {"publish", "notify"}
        PROVE  \E t \in Transactions, word \in Final :
                  /\ t = check[k].txn /\ word = check[k].said /\ k \in Handlers
                  /\ Known(t) /\ payments[t].status = word
    <2>1. check[k].txn \in Transactions /\ k \in Handlers
      BY <1>6 DEF ExecutorTypeOK, CheckTypeOK, CheckState, Handlers
    <2>2. /\ check[k].said \in Final /\ Known(check[k].txn)
          /\ payments[check[k].txn].status = check[k].said
      BY <1>0, <1>6 DEF ExecutorInv, CheckRecords, RecordStands
    <2> QED
      BY <2>1, <2>2
  <1>7. CASE /\ UNCHANGED <<payments, hub, notices, held, settlers>>
             /\ \/ \E c \in Callbacks : pc[c] = "publish" /\ Publish(Txn(c), Status(c), c)
                \/ \E k \in Checks : /\ checkPc[k] = "publish"
                                     /\ Publish(check[k].txn, check[k].said, k)
    BY <1>5, <1>6, <1>7, FollowAnnounce
  <1>8. CASE /\ UNCHANGED <<payments, hub, events, held, settlers>>
             /\ \/ \E c \in Callbacks : pc[c] = "notify" /\ NotifyAspin(Txn(c), Status(c), c)
                \/ \E k \in Checks : /\ checkPc[k] = "notify"
                                     /\ NotifyAspin(check[k].txn, check[k].said, k)
    BY <1>5, <1>6, <1>8, FollowTell
  <1> QED
    BY <1>0, <1>1, <1>2, <1>3, <1>4, <1>7, <1>8 DEF StoreMoves

\* With such a hub the two handlers together record its verdict once and for
\* all, and announce the verdict or nothing, without the lock's help.
THEOREM VerdictIsFollowed ==
  ASSUME PostsFinal, AnswersPlainly
  PROVE  ExecutorSpec => FollowsTheHub
  <1>1. ExecutorTypeOK /\ ExecutorInv /\ FinalHubInv /\ [ExecutorNext]_executorVars
        => [Following!Next]_(Following!vars)
    BY FollowNext
  <1> QED
    BY <1>1, FollowInit, ExecutorTypeCorrect, ExecutorInvariance, FinalHubInvariance, PTL
    DEF ExecutorSpec, FollowsTheHub, Following!Spec

=============================================================================
