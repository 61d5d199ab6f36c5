------------------------- MODULE RabbitMQConnection -------------------------
(***************************************************************************)
(* RabbitMQService's connection: connect awaits the connection, a channel  *)
(* and the exchange, and only then registers its handlers.  Connect is     *)
(* called again 5 s later by its catch block, after a failure, and by the  *)
(* `close' handler, after a loss.  The fields `connection' and `channel'   *)
(* are assigned as soon as their await ends and are never cleared.         *)
(***************************************************************************)
EXTENDS Naturals, FiniteSets

CONSTANTS
    Links,        \* AMQP connections, made one after the other and reused
    NoLink,       \* this.channel is undefined
    BrokerFails   \* may the broker refuse or drop a connection?

ASSUME ConnectionAssumption ==
    /\ NoLink \notin Links
    /\ IsFiniteSet(Links)
    /\ BrokerFails \in BOOLEAN

VARIABLES
    link,     \* how far the connect call that made it has come
    channel,  \* the connection this.channel belongs to
    timers    \* pending setTimeout(() => this.connect(), 5000)

connectionVars == <<link, channel, timers>>

\* What connect awaits: amqp.connect, createChannel, assertExchange.
Awaiting   == {"connect", "channel", "exchange"}
LinkStates == {"free", "ready", "unwatched"} \cup Awaiting

ConnectionInit ==
    /\ link = [l \in Links |-> "free"]
    /\ channel = NoLink
    /\ timers = 0

\* A channel works while its connection is open.  assertExchange is sent in
\* the step that assigns this.channel, so no message overtakes it.
Usable == channel # NoLink /\ link[channel] \in {"exchange", "ready"}

-----------------------------------------------------------------------------
GotoLink(l, state) == link' = [link EXCEPT ![l] = state]

BeginConnect(l) == link[l] = "free" /\ GotoLink(l, "connect")

TimerFires(l) ==
    /\ timers > 0
    /\ timers' = timers - 1
    /\ BeginConnect(l)
    /\ UNCHANGED channel

\* Mutant of CreateChannel: the old channel is kept.
CreateUnassigned(l) ==
    /\ link[l] = "channel"
    /\ GotoLink(l, "exchange")
    /\ UNCHANGED <<channel, timers>>

Connect(l) ==
    /\ link[l] = "connect"
    /\ GotoLink(l, "channel")
    /\ UNCHANGED <<channel, timers>>

CreateChannel(l) ==
    /\ link[l] = "channel"
    /\ GotoLink(l, "exchange")
    /\ channel' = l
    /\ UNCHANGED timers

\* assertExchange is answered; the handlers are registered.
AssertExchange(l) ==
    /\ link[l] = "exchange"
    /\ GotoLink(l, "ready")
    /\ UNCHANGED <<channel, timers>>

\* The broker's answer arrives and its connection ends before connect goes on:
\* the handlers are registered on a closed connection, whose `close' is past.
AssertUnwatched(l) ==
    /\ BrokerFails
    /\ link[l] = "exchange"
    /\ GotoLink(l, "unwatched")
    /\ UNCHANGED <<channel, timers>>

\* Mutant of ConnectFails: the error is logged and that is all.
ConnectFailsForGood(l) ==
    /\ BrokerFails
    /\ link[l] \in Awaiting
    /\ GotoLink(l, "free")
    /\ UNCHANGED <<channel, timers>>

\* One of the three awaits throws.  A connection that is open by then is not
\* closed; the service does not use it again.
ConnectFails(l) ==
    /\ BrokerFails
    /\ link[l] \in Awaiting
    /\ GotoLink(l, "free")
    /\ timers' = timers + 1
    /\ UNCHANGED channel

\* Mutant of ConnectionCloses: the `error' handler reconnects as well.
ClosesTwice(l) ==
    /\ BrokerFails
    /\ link[l] = "ready"
    /\ GotoLink(l, "free")
    /\ timers' = timers + 2
    /\ UNCHANGED channel

\* The `close' event, with or without an `error' before it, which is logged.
ConnectionCloses(l) ==
    /\ BrokerFails
    /\ link[l] = "ready"
    /\ GotoLink(l, "free")
    /\ timers' = timers + 1
    /\ UNCHANGED channel

\* The process dies, and all of this with it.
ConnectionLost ==
    /\ link' = [l \in Links |-> "free"]
    /\ channel' = NoLink
    /\ timers' = 0

-----------------------------------------------------------------------------
ConnectionTypeOK ==
    /\ link \in [Links -> LinkStates]
    /\ channel \in Links \cup {NoLink}
    /\ timers \in 0..1

\* What keeps the connection alive: connect calls that are running, timers
\* that will call it, and connections whose `close' handler will.
Loops == Cardinality({l \in Links : link[l] \in Awaiting \cup {"ready"}}) + timers

\* A loss that no handler saw, with nothing left to reconnect.
Unwatched == \E l \in Links : link[l] = "unwatched"

=============================================================================
