------------------------------ MODULE RabbitConn ------------------------------
(***************************************************************************)
(* The connection of the RabbitMQ broker, pubsub/broker/rabbitmq:          *)
(* Connect and Close, the reconnect loop that every successful Connect     *)
(* starts, tryConnect, which both use, and the waitConnection channel that *)
(* a loop opens when the connection is lost and closes when it is back.    *)
(* Connections to the server are numbered; 0 is a nil pointer.             *)
(***************************************************************************)
EXTENDS Integers, FiniteSets

(* A definition X_Y just before X is a variant of X with a mistake in it,  *)
(* used by no specification: README, "Mutants".                            *)

CONSTANTS
  Callers,      \* goroutines that call Connect, Close and Publish
  MaxConnects,  \* bound: successful calls of Connect
  MaxCloses,    \* bound: calls of Close that are followed by a Connect
  MaxTroubles   \* bound: connections lost and channels that fail to open

ASSUME BoundAssumption == MaxConnects \in Nat /\ MaxCloses \in Nat /\ MaxTroubles \in Nat

Loops == 1 .. MaxConnects
Gens  == 0 .. (MaxCloses + 1)
ASSUME CallersAssumption == Callers \cap Loops = {}

VARIABLES
  at,          \* per caller and loop: where it is
  connection,  \* r.Connection
  exchange,    \* the connection of r.ExchangeChannel
  connected,   \* r.connected
  gen,         \* r.close: the number of close channels made; 0: there is no r yet
  closed,      \* r.close is closed
  waiting,     \* r.waitConnection is not closed
  watched,     \* per loop: the connection its notifyClose is registered with
  seen,        \* per loop: the r.close its select waits for
  alive,       \* the connections that are open
  dials,       \* connections made
  opens,       \* history: successful calls of Connect
  troubles,    \* connections lost, channels failed
  panic        \* "none", or the panic that ended the process

link    == <<connection, exchange, alive, dials>>
closing == <<gen, closed>>
loops   == <<waiting, watched, seen>>
history == <<opens, troubles, panic>>
vars    == <<at, connected, link, closing, loops, history>>

(* The connections made so far.                                            *)
Conns == 1 .. dials

Places == {"idle", "dial", "channels", "set", "unblock", "register", "select"}

TypeOK ==
  /\ at \in [Callers \cup Loops -> Places]
  /\ connection \in Conns \cup {0} /\ exchange \in Conns \cup {0}
  /\ connected \in BOOLEAN /\ closed \in BOOLEAN /\ waiting \in BOOLEAN
  /\ gen \in Gens
  /\ watched \in [Loops -> Conns \cup {0}] /\ seen \in [Loops -> Gens]
  /\ alive \subseteq Conns /\ dials \in Nat
  /\ opens \in 0 .. MaxConnects /\ troubles \in 0 .. MaxTroubles
  /\ panic \in {"none", "nil connection", "nil channel", "close of closed channel"}

(* newRabbitMQConn                                                         *)
Init ==
  /\ at = [p \in Callers \cup Loops |-> "idle"]
  /\ connection = 0 /\ exchange = 0 /\ connected = FALSE
  /\ gen = 0 /\ closed = FALSE /\ waiting = FALSE
  /\ watched = [l \in Loops |-> 0] /\ seen = [l \in Loops |-> 0]
  /\ alive = {} /\ dials = 0 /\ opens = 0 /\ troubles = 0
  /\ panic = "none"

At(p, place) == panic = "none" /\ at[p] = place
Goto(p, place) == at' = [at EXCEPT ![p] = place]

Panic(why) ==
  /\ panic' = why
  /\ UNCHANGED <<at, link, connected, closing, loops, opens, troubles>>

-----------------------------------------------------------------------------
(* The r.close after a Connect.                                            *)
NextGen == IF closed \/ gen = 0 THEN gen + 1 ELSE gen

(* Connect of a broker that is not connected: make r the first time, renew *)
(* r.close if Close has closed it, and go on without the mutex.            *)
Connect(c) ==
  /\ At(c, "idle")
  /\ ~connected
  /\ opens + Cardinality({d \in Callers : at[d] # "idle"}) < MaxConnects
  /\ closed => gen <= MaxCloses
  /\ gen' = NextGen
  /\ closed' = FALSE
  /\ Goto(c, "dial")
  /\ UNCHANGED <<link, connected, loops, history>>

(* Disconnect closes r, once, as soon as there is one.                     *)
CanClose(c) == At(c, "idle") /\ gen > 0 /\ ~closed

Close(c) ==
  /\ CanClose(c)
  /\ connection # 0
  /\ closed' = TRUE /\ connected' = FALSE
  /\ alive' = alive \ {connection}
  /\ UNCHANGED <<at, connection, exchange, gen, loops, dials, history>>

CloseWithoutConnection(c) ==
  /\ CanClose(c)
  /\ connection = 0
  /\ Panic("nil connection")

(* Publish on a nil ExchangeChannel, by a caller whose Connect succeeded.  *)
PublishWithoutChannel(c) ==
  /\ At(c, "idle")
  /\ opens > 0
  /\ exchange = 0
  /\ Panic("nil channel")

-----------------------------------------------------------------------------
(* tryConnect, by a caller or a loop; a caller returns the error, a loop   *)
(* sleeps a second and tries again.                                        *)
AfterFailure_LoopEnds(p) == Goto(p, "idle")
AfterFailure(p) == Goto(p, IF p \in Callers THEN "idle" ELSE "dial")

Dial(p) ==
  /\ At(p, "dial")
  /\ dials' = dials + 1 /\ connection' = dials + 1
  /\ alive' = alive \cup {dials + 1}
  /\ Goto(p, "channels")
  /\ UNCHANGED <<exchange, connected, closing, loops, history>>

DialFailed(p) ==
  /\ At(p, "dial")
  /\ connection' = 0
  /\ AfterFailure(p)
  /\ UNCHANGED <<exchange, connected, closing, loops, alive, dials, history>>

(* Channel and ExchangeChannel are opened on whatever r.Connection is now. *)
OpenChannels(p) ==
  /\ At(p, "channels")
  /\ connection \in alive
  /\ exchange' = connection
  /\ Goto(p, "set")
  /\ UNCHANGED <<connection, connected, closing, loops, alive, dials, history>>

(* The first of them fails, or the second, which leaves a nil pointer; the *)
(* connection stays open.                                                  *)
ChannelFailed(p) ==
  /\ At(p, "channels")
  /\ connection # 0
  /\ \/ connection \notin alive /\ troubles' = troubles
     \/ connection \in alive /\ troubles < MaxTroubles /\ troubles' = troubles + 1
  /\ exchange' \in {exchange, 0}
  /\ AfterFailure(p)
  /\ UNCHANGED <<connection, connected, closing, loops, alive, dials, opens,
                 panic>>

ChannelOnNil(p) ==
  /\ At(p, "channels")
  /\ connection = 0
  /\ Panic("nil connection")

(* connected = true; Connect then starts a loop and returns.               *)
Connected(c) ==
  /\ At(c, "set")
  /\ connected' = TRUE
  /\ opens' = opens + 1
  /\ at' = [at EXCEPT ![c] = "idle", ![opens + 1] = "register"]
  /\ UNCHANGED <<link, closing, loops, troubles, panic>>

-----------------------------------------------------------------------------
(* reconnect                                                               *)

Reconnected(l) ==
  /\ At(l, "set")
  /\ connected' = TRUE
  /\ Goto(l, "unblock")
  /\ UNCHANGED <<link, closing, loops, history>>

(* close(r.waitConnection)                                                 *)
Unblock(l) ==
  /\ At(l, "unblock")
  /\ waiting
  /\ waiting' = FALSE
  /\ Goto(l, "register")
  /\ UNCHANGED <<link, connected, closing, watched, seen, history>>

UnblockAgain(l) ==
  /\ At(l, "unblock")
  /\ ~waiting
  /\ Panic("close of closed channel")

(* NotifyClose on r.Connection; then wait for it or for r.close.           *)
Register(l) ==
  /\ At(l, "register")
  /\ connection # 0
  /\ watched' = [watched EXCEPT ![l] = connection]
  /\ seen' = [seen EXCEPT ![l] = gen]
  /\ Goto(l, "select")
  /\ UNCHANGED <<link, connected, closing, waiting, history>>

RegisterOnNil(l) ==
  /\ At(l, "register")
  /\ connection = 0
  /\ Panic("nil connection")

(* notifyClose is closed when its connection is, whoever closed it.        *)
Outage_KeepsWaitConnection(l) ==
  /\ At(l, "select")
  /\ watched[l] \notin alive
  /\ connected' = FALSE
  /\ Goto(l, "dial")
  /\ UNCHANGED <<link, closing, loops, history>>
Outage(l) ==
  /\ At(l, "select")
  /\ watched[l] \notin alive
  /\ connected' = FALSE /\ waiting' = TRUE
  /\ Goto(l, "dial")
  /\ UNCHANGED <<link, closing, watched, seen, history>>

LoopEnds(l) ==
  /\ At(l, "select")
  /\ seen[l] < gen \/ closed
  /\ Goto(l, "idle")
  /\ UNCHANGED <<link, connected, closing, loops, history>>

-----------------------------------------------------------------------------
(* The server or the network drops a connection.                           *)
Lose(k) ==
  /\ panic = "none"
  /\ k \in alive
  /\ troubles < MaxTroubles
  /\ troubles' = troubles + 1
  /\ alive' = alive \ {k}
  /\ UNCHANGED <<at, connection, exchange, connected, closing, loops, dials,
                 opens, panic>>

TryConnect(p) == Dial(p) \/ DialFailed(p) \/ OpenChannels(p) \/ ChannelFailed(p)
                 \/ ChannelOnNil(p)

Application(c) == Connect(c) \/ Close(c) \/ CloseWithoutConnection(c)
                  \/ PublishWithoutChannel(c)

LoopStep(l) == \/ TryConnect(l) \/ Reconnected(l) \/ Unblock(l) \/ UnblockAgain(l)
               \/ Register(l) \/ RegisterOnNil(l) \/ Outage(l) \/ LoopEnds(l)

Next ==
  \/ \E c \in Callers : Application(c) \/ TryConnect(c) \/ Connected(c)
  \/ \E l \in Loops : LoopStep(l)
  \/ \E k \in alive : Lose(k)

Spec == Init /\ [][Next]_vars

(* Goroutines run; a server that is dialled again and again answers in the *)
(* end, and opens a channel.                                               *)
Fairness ==
  /\ \A p \in Callers \cup Loops : SF_vars(Dial(p)) /\ WF_vars(TryConnect(p))
  /\ \A c \in Callers : WF_vars(Connected(c))
  /\ \A l \in Loops : WF_vars(LoopStep(l)) /\ SF_vars(OpenChannels(l))

FairSpec == Spec /\ Fairness

-----------------------------------------------------------------------------
(* Properties.                                                             *)

Down(l) == at[l] \in {"dial", "channels", "set", "unblock"}

(* As long as Connect has succeeded once: waitConnection is open exactly   *)
(* while the loop is getting the connection back, so it is closed once for *)
(* every time it is made, whatever Close and a second Connect that is      *)
(* under way or has failed do to the connection in between.                *)
WaitSound ==
  opens <= 1 =>
    /\ panic # "close of closed channel"
    /\ waiting <=> \E l \in Loops : Down(l)

(* What the connection keeps through outages: the waitConnection channel   *)
(* is closed once for every time it is made, and is open exactly during    *)
(* an outage, until a second Connect has opened a connection beside the    *)
(* loop.                                                                   *)
ConnInv == TypeOK /\ WaitSound

(* A connection that was opened and that nobody closes is there again and  *)
(* again, however often it is lost and however often reconnecting fails.   *)
KeepsConnection ==
  []<>(connection \in alive \/ closed \/ opens = 0 \/ panic # "none")
=============================================================================
