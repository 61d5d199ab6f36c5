-------------------------- MODULE PaymentExecutor --------------------------
(***************************************************************************)
(* Webhook deliveries and status checks of the same transactions, over one *)
(* payments table: the two ways a payment's outcome reaches this service.  *)
(* Only the deliveries take the Redis lock, so a check interleaves with    *)
(* all of a delivery's steps.                                              *)
(***************************************************************************)
EXTENDS CallbackHandler, StatusCheck

executorVars == <<storeVars, callbackVars, checkVars>>

ExecutorInit == Init /\ CheckInit

ExecutorNext ==
    \/ CallbackNext /\ UNCHANGED checkVars
    \/ CheckNext /\ UNCHANGED callbackVars
    \/ HubSettles /\ UNCHANGED <<callbackVars, checkVars>>

\* As for CallbackHandler; a query is answered or times out after 10 s.
ExecutorFairness ==
    /\ \A c \in Callbacks : WF_executorVars(HandlerStep(c) /\ UNCHANGED checkVars)
    /\ \A t \in Transactions : WF_executorVars(LockExpires(t) /\ UNCHANGED checkVars)
    /\ \A k \in Checks : WF_executorVars(CheckStep(k) /\ UNCHANGED callbackVars)

ExecutorSpec     == ExecutorInit /\ [][ExecutorNext]_executorVars
FairExecutorSpec == ExecutorSpec /\ ExecutorFairness

-----------------------------------------------------------------------------
\* Every variable stays in its type.
ExecutorTypeOK == TypeOK /\ CheckTypeOK

\* Once a row says `completed' or `failed', no delivery and no check ever
\* changes that, whatever each of them read before.
FinalIsStable ==
    [][\A t \in Transactions :
          Known(t) /\ payments[t].status \in Final =>
              payments'[t].status = payments[t].status]_executorVars

\* A row's final status is published and told to Aspin, by whichever of a
\* delivery and a check recorded it (when no call fails).
FinalIsAnnounced ==
    \A t \in Transactions :
        (Known(t) /\ payments[t].status \in Final)
        ~> (events[t] # <<>> /\ notices[t] # <<>>)

\* A check that asks after the hub has settled brings the row up to date,
\* even with deliveries at work on it (when no call fails).
CheckCatchesUp ==
    \A k \in Checks, t \in Transactions :
        (checkPc[k] = "query" /\ check[k].txn = t /\ hub[t] \in Final)
        ~> (Known(t) /\ payments[t].status = hub[t])

-----------------------------------------------------------------------------
(* Why the safety properties hold.                                         *)

\* What a signed delivery and a check's answer say of a final outcome is so,
\* for the hub's verdict stands; only a signed delivery gets to the row.
DeliverySpeaksTruth(c) ==
    /\ (pc[c] # "idle" /\ delivery[c].signed /\ Status(c) \in Final)
          => hub[Txn(c)] = Status(c)
    /\ pc[c] \in {"update", "publish", "notify"} => delivery[c].signed

AnswerIsTrue(k) ==
    (checkPc[k] \in {"record", "publish", "notify"} /\ check[k].said \in Final)
    => hub[check[k].txn] = check[k].said

\* A handler writes to a row it has seen, rows never vanish, and a handler
\* announces what it has recorded.
DeliveryRecords(c) ==
    /\ pc[c] \in {"validate", "update", "publish", "notify"} => Known(Txn(c))
    /\ pc[c] \in {"publish", "notify"} => Status(c) \in held[Txn(c)]

CheckRecords(k) ==
    /\ checkPc[k] \in {"query", "record", "publish", "notify"} => Known(check[k].txn)
    /\ checkPc[k] \in {"publish", "notify"} =>
          /\ check[k].said \in Final
          /\ check[k].said \in held[check[k].txn]

\* Inductive together with ExecutorTypeOK, without the lock: no property of
\* the composed system that this implies needs the lease to be long enough.
ExecutorInv ==
    /\ \A c \in Callbacks : DeliverySpeaksTruth(c) /\ DeliveryRecords(c)
    /\ \A k \in Checks : AnswerIsTrue(k) /\ CheckRecords(k)
    /\ RowIsTrue
    /\ SuccessIsTrue
    /\ AnnouncedWasRecorded

\* A hub that posts final outcomes only, in words the code knows ...
PostsFinal ==
    /\ CallbackSpelling["pending"] = {}
    /\ \A outcome \in Final : \A raw \in CallbackSpelling[outcome] :
          ExtractStatus(raw) = outcome

\* ... and answers queries in the row's words.
AnswersPlainly ==
    /\ ~MayOmit
    /\ \A outcome \in Outcomes : QuerySpelling[outcome] \subseteq {outcome}

\* What a handler announces is in the row still, and what a settler carried.
RecordStands ==
    /\ \A c \in Callbacks :
          pc[c] \in {"publish", "notify"} => payments[Txn(c)].status = Status(c)
    /\ \A k \in Checks :
          checkPc[k] \in {"publish", "notify"} =>
              payments[check[k].txn].status = check[k].said
    /\ \A t \in Transactions : \A c \in settlers[t] :
          /\ pc[c] # "idle"
          /\ Txn(c) = t
          /\ delivery[c].signed
          /\ Known(t) /\ payments[t].status = Status(c)
    /\ \A t \in Transactions : Settled(t) => settlers[t] # {}

\* With such a hub: a check that saw a final row asks a hub that has settled,
\* so an answer `pending' is no news to it, and it writes only final answers.
FinalHubInv ==
    /\ \A c \in Callbacks :
          (pc[c] # "idle" /\ delivery[c].signed) => Status(c) \in Final
    /\ \A k \in Checks :
          /\ checkPc[k] = "query" /\ check[k].seen \in Final =>
                hub[check[k].txn] \in Final
          /\ checkPc[k] = "record" /\ check[k].said \notin Final =>
                check[k].said = check[k].seen
    /\ FailureIsTrue
    /\ RecordStands

-----------------------------------------------------------------------------
\* The promise of HubFollowed, read off the table and the two outboxes.
Following == INSTANCE HubFollowed WITH
    verdict   <- hub,
    recorded  <- [t \in Transactions |->
                     IF Known(t) THEN payments[t].status ELSE "none"],
    announced <- StatusesOf(events),
    told      <- StatusesOf(notices)

\* With such a hub, deliveries and checks record its verdict once and for all
\* and announce nothing else, whoever of them comes first, with or without
\* the lock.
FollowsTheHub == Following!Spec

=============================================================================
