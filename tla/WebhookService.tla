--------------------------- MODULE WebhookService ---------------------------
(***************************************************************************)
(* One instance of the service at work on webhooks: deliveries reach their *)
(* executor once the process listens, the executors publish through the    *)
(* one RabbitMQ connection, and when the process dies every handler and    *)
(* the connection die with it, while the table and the locks in Redis stay *)
(* as they are.                                                            *)
(***************************************************************************)
EXTENDS CallbackHandler, RabbitMQConnection, ExecutorRouting

CONSTANT Owner    \* the partner whose payments these are

\* A call that finds no channel fails.
ASSUME ServiceAssumption == Owner \in Partners /\ (BrokerFails => Unreliable)

VARIABLE process    \* the process: "down", "starting" or "serving"

serviceVars == <<vars, connectionVars, process>>

ServiceInit == Init /\ ConnectionInit /\ process = "down"

-----------------------------------------------------------------------------
(* The process.  Nest awaits every onModuleInit, RabbitMQService's first    *)
(* connect among them, before bootstrap calls listen.  That connect returns *)
(* whether or not there is a channel.                                       *)

StartProcess(l) ==
    /\ process = "down"
    /\ process' = "starting"
    /\ BeginConnect(l)
    /\ UNCHANGED <<vars, channel, timers>>

ConnectReturns ==
    process' = IF process = "starting" THEN "serving" ELSE process

LinkStep(l) ==
    /\ \/ (TimerFires(l) \/ Connect(l) \/ CreateChannel(l)) /\ UNCHANGED process
       \/ (AssertExchange(l) \/ AssertUnwatched(l) \/ ConnectFails(l)) /\ ConnectReturns
       \/ ConnectionCloses(l) /\ UNCHANGED process
    /\ UNCHANGED vars

ProcessDies ==
    /\ Unreliable
    /\ process # "down"
    /\ process' = "down"
    /\ pc' = [c \in Callbacks |-> IF pc[c] \in Running THEN "crashed" ELSE pc[c]]
    /\ ConnectionLost
    /\ UNCHANGED <<storeVars, delivery, answer, lock, settlers>>

-----------------------------------------------------------------------------
(* The deliveries.                                                          *)

Receive(c) ==
    /\ process = "serving"
    /\ Send(c)
    /\ UNCHANGED <<connectionVars, process>>

\* There is no such executor.
Misroute(c) ==
    /\ pc[c] = "sent"
    /\ Finish(c, "error")
    /\ UNCHANGED <<storeVars, delivery, lock, settlers>>

\* PaymentsUseCase.handleWebhook: the executor of the partner the query names,
\* for the channel the payload seems to come from; then handleCallback.  The
\* query names the payment's partner, or one nobody has registered.
Route(c) ==
    \E partner \in {Owner, "another"} :
        IF HasExecutor(partner, WebhookChannel) THEN AcquireLock(c) ELSE Misroute(c)

\* Mutant of PublishOnChannel: the handler waits for a channel.
PublishWhenUsable(c) ==
    /\ Usable
    /\ PublishResult(c)

\* publish without a working channel returns false, and the message is gone;
\* one that was written may be lost with its connection.
PublishOnChannel(c) ==
    /\ PublishResult(c)
    /\ events' # events => Usable

ServiceStep(c) ==
    /\ \/ Route(c) \/ AnswerBusy(c) \/ FindPayment(c) \/ Validate(c)
       \/ UpdatePayment(c) \/ PublishOnChannel(c) \/ NotifyResult(c) \/ ReleaseLock(c)
    /\ UNCHANGED <<connectionVars, process>>

ServiceNext ==
    \/ \E l \in Links : StartProcess(l) \/ LinkStep(l)
    \/ ProcessDies
    \/ \E c \in Callbacks : Receive(c) \/ ServiceStep(c)
    \/ \E t \in Transactions : LockExpires(t) /\ UNCHANGED <<connectionVars, process>>
    \/ HubSettles /\ UNCHANGED <<callbackVars, connectionVars, process>>

\* Node runs handlers and timers; a dead process is started again; a broker
\* that is tried again and again accepts a connection sooner or later, though
\* it may drop it at any time.
ServiceFairness ==
    /\ \A c \in Callbacks : WF_serviceVars(ServiceStep(c))
    /\ \A t \in Transactions :
          WF_serviceVars(LockExpires(t) /\ UNCHANGED <<connectionVars, process>>)
    /\ WF_serviceVars(\E l \in Links : StartProcess(l))
    /\ \A l \in Links : WF_serviceVars(LinkStep(l) /\ link[l] \in Awaiting)
    /\ WF_serviceVars(\E l \in Links : TimerFires(l) /\ UNCHANGED <<vars, process>>)
    /\ \A state \in Awaiting :
          SF_serviceVars(\E l \in Links : /\ link[l] = state
                                          /\ LinkStep(l)
                                          /\ link'[l] \notin {"free", "unwatched"})

ServiceSpec     == ServiceInit /\ [][ServiceNext]_serviceVars
FairServiceSpec == ServiceSpec /\ ServiceFairness

-----------------------------------------------------------------------------
\* Every variable stays in its type.
ServiceTypeOK ==
    /\ TypeOK
    /\ ConnectionTypeOK
    /\ process \in {"down", "starting", "serving"}

\* However connecting fails and connections end, exactly one thing keeps the
\* connection alive while the process lives: a connect call, a timer, or a
\* `close' handler.  Never two, which would each reconnect for ever; never
\* none, which would leave the service without a channel for good: that only
\* a close can do that comes with the last answer connect was waiting for.
OneLoop == Loops = IF process = "down" \/ Unwatched THEN 0 ELSE 1

\* Messages go out over the connection that is watched or being made, never
\* over one the service has lost sight of.
ChannelIsCurrent ==
    \A l \in Links :
        link[l] \in {"exchange", "ready"} => channel = l

\* Why all that holds: a process starts with no connection of an earlier one.
ServiceInv ==
    /\ ServiceTypeOK
    /\ OneLoop
    /\ ChannelIsCurrent
    /\ process = "down" => \A l \in Links : link[l] = "free"

\* If the broker comes back, so does the channel, however often connections
\* are refused or dropped and the process dies, unless a close goes unwatched.
ChannelReturns == []<>(Usable \/ Unwatched)

=============================================================================
