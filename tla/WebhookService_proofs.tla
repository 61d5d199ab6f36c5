----------------------- MODULE WebhookService_proofs -----------------------
(***************************************************************************)
(* Proofs about WebhookService: the connection of one process, for any     *)
(* set of links and however they fail, and what CallbackHandler promises,  *)
(* kept by a service whose process dies with all its handlers at once.     *)
(***************************************************************************)
EXTENDS WebhookService, CallbackHandler_proofs, FiniteSetTheorems

-----------------------------------------------------------------------------
(* The loops that keep the connection alive, without counting.             *)

\* A link with a running connect call or a `close' handler.
Kept(l) == link[l] \in Awaiting \cup {"ready"}

\* Nothing reconnects.
NoLoop == timers = 0 /\ \A l \in Links : ~Kept(l)

\* One timer reconnects, or one link will.
OneTimer == timers = 1 /\ \A l \in Links : ~Kept(l)
OneLink  == timers = 0 /\ \E l \in Links : Kept(l) /\ \A k \in Links \ {l} : ~Kept(k)

\* What Loops counts.
LEMMA LoopsAre ==
  ASSUME ConnectionTypeOK
  PROVE  /\ Loops = 0 <=> NoLoop
         /\ Loops = 1 <=> OneTimer \/ OneLink
  <1> DEFINE alive == {l \in Links : Kept(l)}
  <1>1. IsFiniteSet(alive)
    <2>1. alive \in SUBSET Links
      OBVIOUS
    <2> QED
      BY <2>1, ConnectionAssumption, FS_Subset
  <1>2. Cardinality(alive) \in Nat
    BY <1>1, FS_CardinalityType
  <1>3. Loops = Cardinality(alive) + timers
    BY DEF Loops, Kept
  <1>4. timers = 0 \/ timers = 1
    BY DEF ConnectionTypeOK
  <1>5. Cardinality(alive) = 0 <=> alive = {}
    BY <1>1, FS_EmptySet
  <1>6. Cardinality(alive) = 1 <=> \E l : alive = {l}
    BY <1>1, FS_Singleton
  <1>7. (\E l : alive = {l}) <=> \E l \in Links : Kept(l) /\ \A k \in Links \ {l} : ~Kept(k)
    <2>1. ASSUME NEW l, alive = {l}
          PROVE  l \in Links /\ Kept(l) /\ \A k \in Links \ {l} : ~Kept(k)
      <3>1. l \in alive
        BY <2>1
      <3> QED
        BY <2>1, <3>1
    <2>2. ASSUME NEW l \in Links, Kept(l), \A k \in Links \ {l} : ~Kept(k)
          PROVE  alive = {l}
      BY <2>2
    <2> QED
      BY <2>1, <2>2
  <1>8. alive = {} <=> \A l \in Links : ~Kept(l)
    OBVIOUS
  <1> HIDE DEF alive
  <1>9. Loops = 0 <=> Cardinality(alive) = 0 /\ timers = 0
    BY <1>2, <1>3, <1>4
  <1>10. Loops = 1 <=> \/ Cardinality(alive) = 0 /\ timers = 1
                       \/ Cardinality(alive) = 1 /\ timers = 0
    BY <1>2, <1>3, <1>4
  <1> QED
    BY <1>5, <1>6, <1>7, <1>8, <1>9, <1>10 DEF NoLoop, OneTimer, OneLink

\* OneLoop, by the three cases.
LoopCases ==
    IF process = "down" \/ Unwatched THEN NoLoop ELSE OneTimer \/ OneLink

LEMMA OneLoopIs ==
  ASSUME ConnectionTypeOK
  PROVE  OneLoop <=> LoopCases
  <1>1. Loops = 0 <=> NoLoop
    BY LoopsAre
  <1>2. Loops = 1 <=> OneTimer \/ OneLink
    BY LoopsAre
  <1> QED
    BY <1>1, <1>2 DEF OneLoop, LoopCases

LEMMA OneLoopIsNext ==
  ASSUME ConnectionTypeOK'
  PROVE  OneLoop' <=> LoopCases'
  BY OneLoopIs, PTL

-----------------------------------------------------------------------------
(* The connection.                                                         *)

\* What ServiceInv says of the process and its connection.
ConnectionInv ==
    /\ ConnectionTypeOK
    /\ process \in {"down", "starting", "serving"}
    /\ LoopCases
    /\ ChannelIsCurrent
    /\ process = "down" => \A l \in Links : link[l] = "free"

LEMMA ServiceInvParts == ServiceInv <=> TypeOK /\ ConnectionInv
  BY OneLoopIs DEF ServiceInv, ServiceTypeOK, ConnectionInv

LEMMA ServiceInvPartsNext == ServiceInv' <=> TypeOK' /\ ConnectionInv'
  BY ServiceInvParts, PTL

\* GotoLink moves one link.
LEMMA GotoLinkEffect ==
  ASSUME ConnectionTypeOK, NEW l \in Links, NEW state \in LinkStates, GotoLink(l, state)
  PROVE  /\ link' \in [Links -> LinkStates]
         /\ link'[l] = state
         /\ \A k \in Links \ {l} : link'[k] = link[k]
  BY DEF ConnectionTypeOK, GotoLink

\* A process that starts, or a timer that fires, makes the only connect call.
LEMMA BeginKeeps ==
  ASSUME ConnectionInv, NEW l \in Links,
         \/ StartProcess(l)
         \/ TimerFires(l) /\ UNCHANGED process
  PROVE  ConnectionInv'
  <1> USE DEF ConnectionInv, LinkStates, Awaiting
  <1>1. /\ link' \in [Links -> LinkStates]
        /\ link'[l] = "connect"
        /\ \A k \in Links \ {l} : link'[k] = link[k]
        /\ channel' = channel
    BY GotoLinkEffect DEF StartProcess, TimerFires, BeginConnect
  <1>2. /\ \A k \in Links : ~Kept(k)
        /\ timers' = 0
        /\ process' \in {"starting", "serving"}
        /\ ~Unwatched
    <2>1. CASE StartProcess(l)
      BY <2>1 DEF StartProcess, LoopCases, NoLoop, Unwatched
    <2>2. CASE TimerFires(l) /\ UNCHANGED process
      BY <2>2 DEF TimerFires, LoopCases, NoLoop, OneTimer, OneLink
    <2> QED
      BY <2>1, <2>2
  <1>3. Kept(l)' /\ \A k \in Links \ {l} : ~Kept(k)'
    BY <1>1, <1>2 DEF Kept
  <1>4. OneLink'
    BY <1>2, <1>3 DEF OneLink
  <1>5. ~Unwatched'
    BY <1>1, <1>2 DEF Unwatched
  <1>6. ChannelIsCurrent'
    BY <1>1, <1>2 DEF ChannelIsCurrent, Kept
  <1>7. ConnectionTypeOK'
    BY <1>1, <1>2 DEF ConnectionTypeOK
  <1> QED
    BY <1>2, <1>4, <1>5, <1>6, <1>7 DEF LoopCases

\* A connect call goes on, or ends with its handlers registered.
LEMMA ConnectKeeps ==
  ASSUME ConnectionInv, NEW l \in Links,
         Connect(l) \/ CreateChannel(l) \/ AssertExchange(l),
         UNCHANGED process \/ ConnectReturns
  PROVE  ConnectionInv'
  <1> USE DEF ConnectionInv, LinkStates, Awaiting
  <1>1. Kept(l) /\ timers' = timers
    BY DEF Connect, CreateChannel, AssertExchange, Kept
  <1>2. /\ link' \in [Links -> LinkStates]
        /\ link'[l] \in {"channel", "exchange", "ready"}
        /\ \A k \in Links \ {l} : link'[k] = link[k]
        /\ channel' \in Links \cup {NoLink}
    BY GotoLinkEffect DEF Connect, CreateChannel, AssertExchange, ConnectionTypeOK
  <1>3. process # "down" /\ ~Unwatched /\ OneLink
    BY <1>1 DEF LoopCases, NoLoop, OneTimer, OneLink
  <1>4. \A k \in Links \ {l} : ~Kept(k)
    BY <1>1, <1>3 DEF OneLink
  <1>5. Kept(l)' /\ \A k \in Links \ {l} : ~Kept(k)'
    BY <1>2, <1>4 DEF Kept
  <1>6. OneLink' /\ ~Unwatched'
    BY <1>1, <1>2, <1>3, <1>5 DEF OneLink, Unwatched
  <1>7. process' \in {"starting", "serving"}
    BY <1>3 DEF ConnectReturns
  <1>8. link'[l] \in {"exchange", "ready"} => channel' = l
    BY GotoLinkEffect DEF Connect, CreateChannel, AssertExchange, ConnectionTypeOK,
       ChannelIsCurrent
  <1>9. ChannelIsCurrent'
    BY <1>2, <1>5, <1>8 DEF ChannelIsCurrent, Kept
  <1>10. ConnectionTypeOK'
    BY <1>1, <1>2 DEF ConnectionTypeOK
  <1> QED
    BY <1>6, <1>7, <1>9, <1>10 DEF LoopCases

\* A connect call that throws, or a close that is heard, leaves one timer.
LEMMA LossKeeps ==
  ASSUME ConnectionInv, NEW l \in Links,
         ConnectFails(l) \/ ConnectionCloses(l),
         UNCHANGED process \/ ConnectReturns
  PROVE  ConnectionInv'
  <1> USE DEF ConnectionInv, LinkStates, Awaiting
  <1>1. Kept(l) /\ timers' = timers + 1 /\ channel' = channel
    BY DEF ConnectFails, ConnectionCloses, Kept
  <1>2. /\ link' \in [Links -> LinkStates]
        /\ link'[l] = "free"
        /\ \A k \in Links \ {l} : link'[k] = link[k]
    BY GotoLinkEffect DEF ConnectFails, ConnectionCloses
  <1>3. process # "down" /\ ~Unwatched /\ OneLink
    BY <1>1 DEF LoopCases, NoLoop, OneTimer, OneLink
  <1>4. \A k \in Links \ {l} : ~Kept(k)
    BY <1>1, <1>3 DEF OneLink
  <1>5. timers' = 1 /\ \A k \in Links : ~Kept(k)'
    BY <1>1, <1>2, <1>3, <1>4 DEF OneLink, Kept
  <1>6. OneTimer' /\ ~Unwatched'
    BY <1>2, <1>3, <1>5 DEF OneTimer, Unwatched
  <1>7. process' \in {"starting", "serving"}
    BY <1>3 DEF ConnectReturns
  <1>8. ChannelIsCurrent' /\ ConnectionTypeOK'
    BY <1>1, <1>2, <1>5 DEF ChannelIsCurrent, ConnectionTypeOK
  <1> QED
    BY <1>6, <1>7, <1>8 DEF LoopCases

\* A close that comes with connect's last answer leaves nothing.
LEMMA UnwatchedKeeps ==
  ASSUME ConnectionInv, NEW l \in Links, AssertUnwatched(l), ConnectReturns
  PROVE  ConnectionInv'
  <1> USE DEF ConnectionInv, LinkStates, Awaiting
  <1>1. Kept(l) /\ timers' = timers /\ channel' = channel
    BY DEF AssertUnwatched, Kept
  <1>2. /\ link' \in [Links -> LinkStates]
        /\ link'[l] = "unwatched"
        /\ \A k \in Links \ {l} : link'[k] = link[k]
    BY GotoLinkEffect DEF AssertUnwatched
  <1>3. process # "down" /\ OneLink
    BY <1>1 DEF LoopCases, NoLoop, OneTimer, OneLink
  <1>4. NoLoop' /\ Unwatched'
    BY <1>1, <1>2, <1>3 DEF NoLoop, OneLink, Kept, Unwatched
  <1>5. process' \in {"starting", "serving"}
    BY <1>3 DEF ConnectReturns
  <1>6. ChannelIsCurrent' /\ ConnectionTypeOK'
    BY <1>1, <1>2 DEF ChannelIsCurrent, ConnectionTypeOK
  <1> QED
    BY <1>4, <1>5, <1>6 DEF LoopCases

\* A process that dies takes its connection and its timers with it.
LEMMA DeathKeeps ==
  ASSUME ConnectionInv, ProcessDies
  PROVE  ConnectionInv'
  <1>1. /\ process' = "down" /\ timers' = 0 /\ channel' = NoLink
        /\ link' = [l \in Links |-> "free"]
    BY DEF ProcessDies, ConnectionLost
  <1> QED
    BY <1>1 DEF ConnectionInv, ConnectionTypeOK, LinkStates, Awaiting, LoopCases, NoLoop,
       Kept, ChannelIsCurrent

\* The webhook handlers leave the connection alone.
LEMMA ConnectionUntouched ==
  ASSUME ConnectionInv, UNCHANGED <<connectionVars, process>>
  PROVE  ConnectionInv'
  BY DEF ConnectionInv, connectionVars, ConnectionTypeOK, LoopCases, NoLoop, OneTimer,
     OneLink, Kept, Unwatched, ChannelIsCurrent

LEMMA LinkStepKeeps ==
  ASSUME ConnectionInv, NEW l \in Links, LinkStep(l)
  PROVE  ConnectionInv'
  BY BeginKeeps, ConnectKeeps, LossKeeps, UnwatchedKeeps DEF LinkStep

-----------------------------------------------------------------------------
(* The handlers.                                                           *)

\* Every step of the service is one CallbackHandler may take, but for a
\* delivery that finds no executor and for the death of all handlers at once.
LEMMA ServiceSteps ==
  ASSUME [ServiceNext]_serviceVars
  PROVE  [Next]_vars \/ ProcessDies \/ \E c \in Callbacks : Misroute(c)
  <1>1. ASSUME NEW l \in Links, StartProcess(l) \/ LinkStep(l)
        PROVE  UNCHANGED vars
    BY <1>1 DEF StartProcess, LinkStep
  <1>2. ASSUME NEW c \in Callbacks, Receive(c) \/ ServiceStep(c)
        PROVE  Next \/ Misroute(c)
    BY <1>2 DEF Receive, ServiceStep, Route, PublishOnChannel, Next, CallbackNext, HandlerStep
  <1>3. ASSUME NEW t \in Transactions, LockExpires(t)
        PROVE  Next
    BY <1>3 DEF Next, CallbackNext
  <1>4. HubSettles /\ UNCHANGED callbackVars => Next
    BY DEF Next
  <1>5. UNCHANGED serviceVars => UNCHANGED vars
    BY DEF serviceVars
  <1> QED
    BY <1>1, <1>2, <1>3, <1>4, <1>5 DEF ServiceNext

\* ... and leaves the connection consistent.
LEMMA ConnectionNextInv ==
  ASSUME ConnectionInv, [ServiceNext]_serviceVars
  PROVE  ConnectionInv'
  <1>1. ASSUME NEW l \in Links, StartProcess(l) \/ LinkStep(l)
        PROVE  ConnectionInv'
    BY <1>1, BeginKeeps, LinkStepKeeps
  <1>2. CASE ProcessDies
    BY <1>2, DeathKeeps
  <1>3. ASSUME UNCHANGED <<connectionVars, process>>
        PROVE  ConnectionInv'
    BY <1>3, ConnectionUntouched
  <1>4. CASE \/ \E c \in Callbacks : Receive(c) \/ ServiceStep(c)
             \/ \E t \in Transactions : LockExpires(t) /\ UNCHANGED <<connectionVars, process>>
             \/ HubSettles /\ UNCHANGED <<callbackVars, connectionVars, process>>
             \/ UNCHANGED serviceVars
    BY <1>3, <1>4 DEF Receive, ServiceStep, serviceVars
  <1> QED
    BY <1>1, <1>2, <1>4 DEF ServiceNext

\* The two steps CallbackHandler has not: quiet, and nobody gets on.
LEMMA MisrouteIs ==
  ASSUME TypeOK, NEW c \in Callbacks, Misroute(c)
  PROVE  /\ TypeOK'
         /\ Quiet
         /\ UNCHANGED <<storeVars, lock>>
         /\ pc'[c] = "done"
         /\ \A d \in Callbacks : d # c => pc'[d] = pc[d]
  BY DEF Misroute, Finish, Goto, TypeOK, StoreTypeOK, Answers, storeVars, Quiet

LEMMA DeathIs ==
  ASSUME TypeOK, ProcessDies
  PROVE  /\ TypeOK'
         /\ Quiet
         /\ UNCHANGED <<storeVars, lock>>
         /\ \A c \in Callbacks : pc'[c] = "crashed" \/ pc'[c] = pc[c]
  <1>1. /\ pc' = [c \in Callbacks |-> IF pc[c] \in Running THEN "crashed" ELSE pc[c]]
        /\ UNCHANGED <<storeVars, delivery, answer, lock, settlers>>
    BY DEF ProcessDies
  <1>2. /\ pc' \in [Callbacks -> Running \cup {"idle", "done", "crashed"}]
        /\ \A c \in Callbacks : pc'[c] # "idle" <=> pc[c] # "idle"
        /\ \A c \in Callbacks : pc'[c] = "crashed" \/ pc'[c] = pc[c]
    BY <1>1 DEF TypeOK, Running, Critical
  <1> QED
    BY <1>1, <1>2 DEF TypeOK, StoreTypeOK, storeVars, Quiet

LEMMA ServiceNextType ==
  ASSUME TypeOK, [ServiceNext]_serviceVars
  PROVE  TypeOK'
  BY ServiceSteps, NextType, MisrouteIs, DeathIs

\* So SettlementInv survives them.
LEMMA ServiceNextSettlement ==
  ASSUME LeaseOutlivesHandler, TypeOK, SettlementInv, [ServiceNext]_serviceVars
  PROVE  SettlementInv'
  <1>1. CASE [Next]_vars
    BY <1>1, NextInv
  <1>2. ASSUME NEW c \in Callbacks, Misroute(c)
        PROVE  SettlementInv'
    <2>1. HoldsLock(c)' /\ Foresees(c)'
      BY <1>2, MisrouteIs DEF HoldsLock, Foresees, Critical
    <2> QED
      BY <1>2, <2>1, MisrouteIs, QuietStep
  <1>3. CASE ProcessDies
    <2>1. /\ Quiet
          /\ UNCHANGED <<storeVars, lock>>
          /\ \A c \in Callbacks : pc'[c] = "crashed" \/ pc'[c] = pc[c]
      BY <1>3, DeathIs
    <2>2. ASSUME NEW c \in Callbacks
          PROVE  HoldsLock(c)' /\ Foresees(c)'
      <3>1. CASE pc'[c] = "crashed"
        BY <3>1 DEF HoldsLock, Foresees, Critical
      <3>2. CASE pc'[c] = pc[c]
        <4>1. HoldsLock(c)'
          BY <2>1, <3>2, StillHolds DEF Quiet, Critical
        <4> QED
          BY <2>1, <3>2, <4>1, QuietForesees
      <3> QED
        BY <2>1, <3>1, <3>2
    <2> QED
      BY <2>1, <2>2, QuietOutbox DEF SettlementInv
  <1> QED
    BY <1>1, <1>2, <1>3, ServiceSteps

\* Both are stutters of SettlementOnce.
LEMMA ServiceNextRefines ==
  ASSUME TypeOK, SettlementInv, [ServiceNext]_serviceVars
  PROVE  [Settlement!Next]_(Settlement!vars)
  <1>1. CASE [Next]_vars
    BY <1>1, NextRefines
  <1>2. CASE ProcessDies \/ \E c \in Callbacks : Misroute(c)
    <2>1. UNCHANGED <<payments, events, notices>>
      BY <1>2, MisrouteIs, DeathIs DEF storeVars
    <2> QED
      BY <2>1, QuietRefines
  <1> QED
    BY <1>1, <1>2, ServiceSteps

-----------------------------------------------------------------------------
(* The theorems.                                                           *)

LEMMA ServiceInitInv == ServiceInit => ServiceInv
  <1> SUFFICES ASSUME ServiceInit
               PROVE  ServiceInv
    OBVIOUS
  <1>1. TypeOK
    BY InitType DEF ServiceInit
  <1>2. ConnectionInv
    BY DEF ServiceInit, ConnectionInit, ConnectionInv, ConnectionTypeOK, LinkStates,
       Awaiting, LoopCases, NoLoop, Kept, ChannelIsCurrent
  <1> QED
    BY <1>1, <1>2, ServiceInvParts

LEMMA ServiceNextInv == ServiceInv /\ [ServiceNext]_serviceVars => ServiceInv'
  BY ServiceInvParts, ServiceInvPartsNext, ServiceNextType, ConnectionNextInv

\* The inductive invariant: types, one reconnecting loop, the current channel,
\* and nothing left of a process that died.
THEOREM ServiceInvariance == ServiceSpec => []ServiceInv
  BY ServiceInitInv, ServiceNextInv, PTL DEF ServiceSpec

\* Every variable stays in its type: there is never a second timer.
THEOREM ServiceTypeCorrect == ServiceSpec => []ServiceTypeOK
  <1>1. ServiceInv => ServiceTypeOK
    BY DEF ServiceInv
  <1> QED
    BY <1>1, ServiceInvariance, PTL

\* Whatever fails, connect and its catch block and the `close' handler keep
\* exactly one loop alive, unless a close goes unwatched.
THEOREM OneLoopAlways == ServiceSpec => []OneLoop
  <1>1. ServiceInv => OneLoop
    BY DEF ServiceInv
  <1> QED
    BY <1>1, ServiceInvariance, PTL

\* this.channel belongs to the connection that is open and watched.
THEOREM ChannelAlwaysCurrent == ServiceSpec => []ChannelIsCurrent
  <1>1. ServiceInv => ChannelIsCurrent
    BY DEF ServiceInv
  <1> QED
    BY <1>1, ServiceInvariance, PTL

\* The handlers' invariant holds in a service that dies and starts again, and
\* that turns deliveries without an executor away.
THEOREM ServiceSettlement ==
  ASSUME LeaseOutlivesHandler
  PROVE  ServiceSpec => []SettlementInv
  <1>1. ServiceInit => SettlementInv
    BY InitInv DEF ServiceInit
  <1>2. ServiceTypeOK /\ SettlementInv /\ [ServiceNext]_serviceVars => SettlementInv'
    BY ServiceNextSettlement DEF ServiceTypeOK
  <1> QED
    BY <1>1, <1>2, ServiceTypeCorrect, PTL DEF ServiceSpec

\* So the service keeps the promise of SettlementOnce: each transaction is
\* settled, published and notified at most once, in that order, with one
\* outcome, however connections and processes come and go.
THEOREM ServiceRefinement ==
  ASSUME LeaseOutlivesHandler
  PROVE  ServiceSpec => SettlesOnce
  <1>1. ServiceInit => Settlement!Init
    BY InitRefines DEF ServiceInit
  <1>2. ServiceTypeOK /\ SettlementInv /\ [ServiceNext]_serviceVars
        => [Settlement!Next]_(Settlement!vars)
    BY ServiceNextRefines DEF ServiceTypeOK
  <1> QED
    BY <1>1, <1>2, ServiceTypeCorrect, ServiceSettlement, PTL
    DEF ServiceSpec, SettlesOnce, Settlement!Spec

=============================================================================
