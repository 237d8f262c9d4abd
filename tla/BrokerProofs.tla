----------------------------- MODULE BrokerProofs -----------------------------
(***************************************************************************)
(* Proofs about the two brokers.  RabbitMQ, for any goroutines and messages*)
(* and any number of connections, outages and calls: what its connection   *)
(* keeps through outages, and what a subscriber on it keeps, its one       *)
(* stream and the messages of the queue.  Kafka, for any subscriptions and *)
(* any partition: the clients that Disconnect finds, and what the group    *)
(* commits.                                                                *)
(***************************************************************************)
EXTENDS RabbitSubscriber, KafkaBroker, FiniteSetTheorems, SequenceTheorems, TLAPS

-----------------------------------------------------------------------------
(* The connection.                                                         *)

(* The callers inside of Connect.                                          *)
Busy == {d \in Callers : at[d] # "idle"}

(* There is a loop for every Connect that has succeeded and no other, and  *)
(* the calls under way will not be more than the bound admits.             *)
LoopsStarted ==
  /\ IsFiniteSet(Busy)
  /\ opens + Cardinality(Busy) <= MaxConnects
  /\ \A l \in Loops : l > opens => at[l] = "idle"

ConnIInv == TypeOK /\ LoopsStarted /\ WaitSound

(* A step as the connection sees it, that of a subscriber included whose   *)
(* Consume finds no connection.                                            *)
ConnStep == Next \/ UNCHANGED vars \/ Panic("nil connection")

(* A caller moves: the loops stay where they are.                          *)
LEMMA CallerMove ==
  ASSUME TypeOK, NEW c \in Callers, NEW place \in Places, Goto(c, place)
  PROVE  /\ at' \in [Callers \cup Loops -> Places]
         /\ \A l \in Loops : at'[l] = at[l]
         /\ Busy' = IF place = "idle" THEN Busy \ {c} ELSE Busy \cup {c}
<1>1. /\ at' = [at EXCEPT ![c] = place] /\ at \in [Callers \cup Loops -> Places]
      /\ c \notin Loops
  BY CallersAssumption DEF Goto, TypeOK
<1>2. /\ at' \in [Callers \cup Loops -> Places]
      /\ \A l \in Loops : at'[l] = at[l]
      /\ \A d \in Callers : at'[d] = IF d = c THEN place ELSE at[d]
  BY <1>1
<1>. QED
  BY <1>2 DEF Busy

(* A loop moves: no caller does.                                           *)
LEMMA LoopMove ==
  ASSUME TypeOK, NEW l \in Loops, NEW place \in Places, Goto(l, place)
  PROVE  /\ at' \in [Callers \cup Loops -> Places]
         /\ \A k \in Loops : at'[k] = IF k = l THEN place ELSE at[k]
         /\ Busy' = Busy
<1>1. /\ at' = [at EXCEPT ![l] = place] /\ at \in [Callers \cup Loops -> Places]
      /\ l \notin Callers
  BY CallersAssumption DEF Goto, TypeOK
<1>2. /\ at' \in [Callers \cup Loops -> Places]
      /\ \A k \in Loops : at'[k] = IF k = l THEN place ELSE at[k]
      /\ \A d \in Callers : at'[d] = at[d]
  BY <1>1
<1>. QED
  BY <1>2 DEF Busy

(* Connect returns: the caller leaves and the next loop starts.            *)
LEMMA ConnectedMove ==
  ASSUME ConnIInv, NEW c \in Callers, Connected(c)
  PROVE  /\ opens + 1 \in Loops /\ opens \in Nat /\ at[opens + 1] = "idle"
         /\ at' \in [Callers \cup Loops -> Places]
         /\ \A l \in Loops : at'[l] = IF l = opens + 1 THEN "register" ELSE at[l]
         /\ Busy' = Busy \ {c} /\ c \in Busy
<1>1. /\ at' = [at EXCEPT ![c] = "idle", ![opens + 1] = "register"]
      /\ at \in [Callers \cup Loops -> Places] /\ opens \in Nat
      /\ c \notin Loops /\ c \in Busy /\ Loops \cap Callers = {}
  BY CallersAssumption, BoundAssumption DEF ConnIInv, TypeOK, Connected, At, Busy
<1>2. opens + 1 \in Loops
  <2>1. Cardinality(Busy) \in Nat /\ Cardinality(Busy) # 0
    BY <1>1, FS_EmptySet, FS_CardinalityType DEF ConnIInv, LoopsStarted
  <2>. QED
    BY <1>1, <2>1, BoundAssumption DEF ConnIInv, LoopsStarted, Loops
<1>3. at[opens + 1] = "idle"
  BY <1>1, <1>2 DEF ConnIInv, LoopsStarted
<1>4. /\ at' \in [Callers \cup Loops -> Places]
      /\ \A l \in Loops : at'[l] = IF l = opens + 1 THEN "register" ELSE at[l]
      /\ \A d \in Callers : at'[d] = IF d = c THEN "idle" ELSE at[d]
  BY <1>1, <1>2 DEF Places
<1>5. Busy' = Busy \ {c}
  BY <1>4 DEF Busy
<1>. QED
  BY <1>1, <1>2, <1>3, <1>4, <1>5

-----------------------------------------------------------------------------
(* Types.                                                                  *)

LEMMA Increment ==
  ASSUME NEW max \in Nat, NEW n \in 0 .. max, n < max
  PROVE  n + 1 \in 0 .. max
OBVIOUS

(* A step that makes no connection.                                        *)
LEMMA TypeFrame ==
  ASSUME TypeOK, dials' = dials, at' \in [Callers \cup Loops -> Places],
         connection' \in {connection, 0}, exchange' \in {exchange, connection, 0},
         connected' \in BOOLEAN, closed' \in BOOLEAN, waiting' \in BOOLEAN, gen' \in Gens,
         watched' \in [Loops -> Conns \cup {0}], seen' \in [Loops -> Gens],
         alive' \subseteq alive, opens' \in 0 .. MaxConnects, troubles' \in 0 .. MaxTroubles,
         panic' \in {"none", "nil connection", "nil channel", "close of closed channel"}
  PROVE  TypeOK'
<1>1. Conns' = Conns
  BY DEF Conns
<1>. QED
  BY <1>1 DEF TypeOK

LEMMA TryConnectTypes ==
  ASSUME TypeOK, NEW p \in Callers \cup Loops, TryConnect(p)
  PROVE  TypeOK'
<1> USE DEF link, closing, loops, history
<1>0. /\ dials \in Nat /\ connection \in Conns \cup {0} /\ exchange \in Conns \cup {0}
      /\ alive \subseteq Conns /\ at \in [Callers \cup Loops -> Places]
      /\ troubles \in 0 .. MaxTroubles /\ MaxTroubles \in Nat
  BY BoundAssumption DEF TypeOK
<1>1. ASSUME NEW place \in Places, Goto(p, place) PROVE at' \in [Callers \cup Loops -> Places]
  BY <1>0, <1>1 DEF Goto
<1>2. CASE Dial(p)
  <2>1. at' \in [Callers \cup Loops -> Places]
    BY <1>1, <1>2 DEF Dial, Places
  <2>2. Conns' = Conns \cup {dials + 1} /\ dials' \in Nat /\ 0 \notin Conns
    BY <1>0, <1>2 DEF Dial, Conns
  <2>3. /\ connection' \in Conns' \cup {0} /\ exchange' \in Conns' \cup {0}
        /\ alive' \subseteq Conns'
    BY <1>0, <1>2, <2>2 DEF Dial
  <2>4. watched' \in [Loops -> Conns' \cup {0}]
    BY <1>2, <2>2 DEF Dial, TypeOK
  <2>. QED
    BY <1>2, <2>1, <2>2, <2>3, <2>4 DEF Dial, TypeOK
<1>3. CASE DialFailed(p)
  <2>1. at' \in [Callers \cup Loops -> Places]
    BY <1>1, <1>3 DEF DialFailed, AfterFailure, Places
  <2>. QED
    BY <1>3, <2>1, TypeFrame DEF DialFailed, TypeOK
<1>4. CASE OpenChannels(p)
  <2>1. at' \in [Callers \cup Loops -> Places]
    BY <1>1, <1>4 DEF OpenChannels, Places
  <2>. QED
    BY <1>4, <2>1, TypeFrame DEF OpenChannels, TypeOK
<1>5. CASE ChannelFailed(p)
  <2>1. at' \in [Callers \cup Loops -> Places]
    BY <1>1, <1>5 DEF ChannelFailed, AfterFailure, Places
  <2>2. troubles' \in 0 .. MaxTroubles
    BY <1>0, <1>5 DEF ChannelFailed
  <2>. QED
    BY <1>5, <2>1, <2>2, TypeFrame DEF ChannelFailed, TypeOK
<1>6. CASE ChannelOnNil(p)
  BY <1>0, <1>6, TypeFrame DEF ChannelOnNil, Panic, TypeOK
<1>. QED
  BY <1>2, <1>3, <1>4, <1>5, <1>6 DEF TryConnect

LEMMA TypeStep ==
  ASSUME ConnIInv, ConnStep
  PROVE  TypeOK'
<1>0. TypeOK /\ at \in [Callers \cup Loops -> Places]
  BY DEF ConnIInv, TypeOK
<1> USE DEF link, closing, loops, history
<1>1. ASSUME NEW why \in {"nil connection", "nil channel", "close of closed channel"}, Panic(why)
      PROVE  TypeOK'
  BY <1>0, <1>1, TypeFrame DEF Panic, TypeOK
<1>2. ASSUME NEW c \in Callers, Application(c) PROVE TypeOK'
  <2>1. CASE Connect(c)
    <3>1. at' \in [Callers \cup Loops -> Places]
      BY <1>0, <2>1, CallerMove DEF Connect, Places
    <3>2. gen' \in Gens
      <4>1. gen \in 0 .. MaxCloses + 1 /\ MaxCloses \in Nat /\ (closed => gen <= MaxCloses)
        BY <1>0, <2>1, BoundAssumption DEF Connect, TypeOK, Gens
      <4>2. gen' = IF closed \/ gen = 0 THEN gen + 1 ELSE gen
        BY <2>1 DEF Connect, NextGen
      <4>3. CASE closed \/ gen = 0
        <5>1. gen < MaxCloses + 1 /\ MaxCloses + 1 \in Nat
          BY <4>1, <4>3
        <5>. QED
          BY <4>1, <4>2, <4>3, <5>1, Increment DEF Gens
      <4>. QED
        BY <4>1, <4>2, <4>3 DEF Gens
    <3>. QED
      BY <1>0, <2>1, <3>1, <3>2, TypeFrame DEF Connect, TypeOK
  <2>2. CASE Close(c)
    BY <1>0, <2>2, TypeFrame DEF Close, TypeOK
  <2>3. CASE CloseWithoutConnection(c) \/ PublishWithoutChannel(c)
    BY <1>1, <2>3 DEF CloseWithoutConnection, PublishWithoutChannel
  <2>. QED
    BY <1>2, <2>1, <2>2, <2>3 DEF Application
<1>3. ASSUME NEW c \in Callers, Connected(c) PROVE TypeOK'
  <2>1. at' \in [Callers \cup Loops -> Places] /\ opens' \in 0 .. MaxConnects
    <3>1. at' \in [Callers \cup Loops -> Places] /\ opens \in Nat /\ opens + 1 \in Loops
      BY <1>3, ConnectedMove
    <3>2. opens + 1 \in 0 .. MaxConnects
      BY <3>1, BoundAssumption DEF Loops
    <3>3. opens' = opens + 1
      BY <1>3 DEF Connected
    <3>. QED
      BY <3>1, <3>2, <3>3
  <2>. QED
    BY <1>0, <1>3, <2>1, TypeFrame DEF Connected, TypeOK
<1>4. ASSUME NEW l \in Loops, LoopStep(l), ~TryConnect(l) PROVE TypeOK'
  <2>1. CASE Reconnected(l)
    <3>1. at' \in [Callers \cup Loops -> Places]
      BY <1>0, <2>1, LoopMove DEF Reconnected, Places
    <3>. QED
      BY <1>0, <2>1, <3>1, TypeFrame DEF Reconnected, TypeOK
  <2>2. CASE Unblock(l)
    <3>1. at' \in [Callers \cup Loops -> Places]
      BY <1>0, <2>2, LoopMove DEF Unblock, Places
    <3>. QED
      BY <1>0, <2>2, <3>1, TypeFrame DEF Unblock, TypeOK
  <2>3. CASE Register(l)
    <3>1. at' \in [Callers \cup Loops -> Places]
      BY <1>0, <2>3, LoopMove DEF Register, Places
    <3>2. watched' \in [Loops -> Conns \cup {0}] /\ seen' \in [Loops -> Gens]
      BY <1>0, <2>3 DEF Register, TypeOK
    <3>. QED
      BY <1>0, <2>3, <3>1, <3>2, TypeFrame DEF Register, TypeOK
  <2>4. CASE Outage(l)
    <3>1. at' \in [Callers \cup Loops -> Places]
      BY <1>0, <2>4, LoopMove DEF Outage, Places
    <3>. QED
      BY <1>0, <2>4, <3>1, TypeFrame DEF Outage, TypeOK
  <2>5. CASE LoopEnds(l)
    <3>1. at' \in [Callers \cup Loops -> Places]
      BY <1>0, <2>5, LoopMove DEF LoopEnds, Places
    <3>. QED
      BY <1>0, <2>5, <3>1, TypeFrame DEF LoopEnds, TypeOK
  <2>6. CASE UnblockAgain(l) \/ RegisterOnNil(l)
    BY <1>1, <2>6 DEF UnblockAgain, RegisterOnNil
  <2>. QED
    BY <1>4, <2>1, <2>2, <2>3, <2>4, <2>5, <2>6 DEF LoopStep
<1>5. ASSUME NEW k \in alive, Lose(k) PROVE TypeOK'
  <2>1. troubles' \in 0 .. MaxTroubles
    <3>1. troubles' = troubles + 1 /\ troubles < MaxTroubles
      BY <1>5 DEF Lose
    <3>2. troubles \in 0 .. MaxTroubles /\ MaxTroubles \in Nat
      BY <1>0, BoundAssumption DEF TypeOK
    <3>. QED
      BY <3>1, <3>2, Increment
  <2>. QED
    BY <1>0, <1>5, <2>1, TypeFrame DEF Lose, TypeOK
<1>6. CASE UNCHANGED vars
  BY <1>0, <1>6, TypeFrame DEF vars, TypeOK
<1>. QED
  BY <1>0, <1>1, <1>2, <1>3, <1>4, <1>5, <1>6, TryConnectTypes
     DEF ConnStep, Next

-----------------------------------------------------------------------------
(* The loops, and waitConnection.                                          *)

LEMMA Counts ==
  ASSUME TypeOK
  PROVE  opens \in Nat /\ MaxConnects \in Nat /\ \A l \in Loops : l \in Nat \ {0}
<1>1. opens \in 0 .. MaxConnects
  BY DEF TypeOK
<1>. QED
  BY <1>1, BoundAssumption DEF Loops

LEMMA LoopsStartedStep ==
  ASSUME ConnIInv, ConnStep
  PROVE  LoopsStarted'
<1>0. /\ TypeOK /\ IsFiniteSet(Busy) /\ Cardinality(Busy) \in Nat /\ opens \in Nat
      /\ opens + Cardinality(Busy) <= MaxConnects /\ MaxConnects \in Nat
      /\ \A l \in Loops : l \in Nat /\ (l > opens => at[l] = "idle")
  BY FS_CardinalityType, Counts DEF ConnIInv, LoopsStarted
<1> USE DEF history
<1>1. ASSUME opens' = opens, Busy' = Busy, \A l \in Loops : l > opens => at'[l] = at[l]
      PROVE  LoopsStarted'
  BY <1>0, <1>1 DEF LoopsStarted
<1>2. ASSUME at' = at, opens' = opens PROVE LoopsStarted'
  <2>1. Busy' = Busy
    BY <1>2 DEF Busy
  <2>. QED
    BY <1>1, <1>2, <2>1
<1>3. ASSUME NEW c \in Callers, NEW place \in Places, Goto(c, place), at[c] # "idle", opens' = opens
      PROVE  LoopsStarted'
  <2>1. /\ \A l \in Loops : at'[l] = at[l]
        /\ Busy' = IF place = "idle" THEN Busy \ {c} ELSE Busy \cup {c}
        /\ c \in Busy
    BY <1>0, <1>3, CallerMove DEF Busy
  <2>2. CASE place = "idle"
    <3>1. /\ Busy' = Busy \ {c} /\ IsFiniteSet(Busy')
          /\ Cardinality(Busy') = Cardinality(Busy) - 1
      BY <1>0, <2>1, <2>2, FS_RemoveElement
    <3>2. opens' + Cardinality(Busy') <= MaxConnects
      BY <1>0, <1>3, <3>1
    <3>. QED
      BY <1>0, <1>3, <2>1, <3>1, <3>2 DEF LoopsStarted
  <2>3. CASE place # "idle"
    <3>1. Busy' = Busy
      BY <2>1, <2>3
    <3>. QED
      BY <1>1, <1>3, <2>1, <3>1
  <2>. QED
    BY <2>2, <2>3
<1>4. ASSUME NEW l \in Loops, NEW place \in Places, Goto(l, place), at[l] # "idle", opens' = opens
      PROVE  LoopsStarted'
  <2>1. Busy' = Busy /\ \A k \in Loops : at'[k] = IF k = l THEN place ELSE at[k]
    BY <1>0, <1>4, LoopMove
  <2>2. \A k \in Loops : k > opens => k # l
    BY <1>0, <1>4
  <2>. QED
    BY <1>1, <1>4, <2>1, <2>2
<1>5. ASSUME NEW c \in Callers, Application(c) PROVE LoopsStarted'
  <2>1. CASE Connect(c)
    <3>1. /\ \A l \in Loops : at'[l] = at[l]
          /\ Busy' = Busy \cup {c} /\ c \notin Busy /\ opens' = opens
          /\ opens + Cardinality(Busy) < MaxConnects
      BY <1>0, <2>1, CallerMove DEF Connect, At, Busy, Places
    <3>2. IsFiniteSet(Busy') /\ Cardinality(Busy') = Cardinality(Busy) + 1
      BY <1>0, <3>1, FS_AddElement
    <3>3. opens' + Cardinality(Busy') <= MaxConnects
      BY <1>0, <3>1, <3>2
    <3>. QED
      BY <1>0, <3>1, <3>2, <3>3 DEF LoopsStarted
  <2>2. CASE Close(c) \/ CloseWithoutConnection(c) \/ PublishWithoutChannel(c)
    BY <1>2, <2>2 DEF Close, CloseWithoutConnection, PublishWithoutChannel, Panic
  <2>. QED
    BY <1>5, <2>1, <2>2 DEF Application
<1>6. ASSUME NEW p \in Callers \cup Loops, TryConnect(p) PROVE LoopsStarted'
  <2>1. CASE ChannelOnNil(p)
    BY <1>2, <2>1 DEF ChannelOnNil, Panic
  <2>2. CASE Dial(p) \/ DialFailed(p) \/ OpenChannels(p) \/ ChannelFailed(p)
    <3>1. /\ opens' = opens /\ at[p] # "idle"
          /\ \E place \in Places : Goto(p, place)
      BY <2>2 DEF Dial, DialFailed, OpenChannels, ChannelFailed, AfterFailure, At, Places
    <3>. QED
      BY <1>3, <1>4, <3>1
  <2>. QED
    BY <1>6, <2>1, <2>2 DEF TryConnect
<1>7. ASSUME NEW c \in Callers, Connected(c) PROVE LoopsStarted'
  <2>1. /\ opens + 1 \in Loops
        /\ \A l \in Loops : at'[l] = IF l = opens + 1 THEN "register" ELSE at[l]
        /\ Busy' = Busy \ {c} /\ c \in Busy /\ opens' = opens + 1
    BY <1>7, ConnectedMove DEF Connected
  <2>2. IsFiniteSet(Busy') /\ Cardinality(Busy') = Cardinality(Busy) - 1
    BY <1>0, <2>1, FS_RemoveElement
  <2>3. opens' + Cardinality(Busy') <= MaxConnects
    BY <1>0, <2>1, <2>2
  <2>4. \A l \in Loops : l > opens' => at'[l] = "idle"
    BY <1>0, <2>1
  <2>. QED
    BY <2>2, <2>3, <2>4 DEF LoopsStarted
<1>8. ASSUME NEW l \in Loops, LoopStep(l), ~TryConnect(l) PROVE LoopsStarted'
  <2>1. CASE UnblockAgain(l) \/ RegisterOnNil(l)
    BY <1>2, <2>1 DEF UnblockAgain, RegisterOnNil, Panic
  <2>2. CASE Reconnected(l) \/ Unblock(l) \/ Register(l) \/ Outage(l) \/ LoopEnds(l)
    <3>1. /\ opens' = opens /\ at[l] # "idle"
          /\ \E place \in Places : Goto(l, place)
      BY <2>2 DEF Reconnected, Unblock, Register, Outage, LoopEnds, At, Places
    <3>. QED
      BY <1>4, <3>1
  <2>. QED
    BY <1>8, <2>1, <2>2 DEF LoopStep
<1>9. CASE (\E k \in alive : Lose(k)) \/ UNCHANGED vars \/ Panic("nil connection")
  BY <1>2, <1>9 DEF Lose, Panic, vars
<1>. QED
  BY <1>5, <1>6, <1>7, <1>8, <1>9 DEF ConnStep, Next

(* Until a second Connect has succeeded there is one loop at most.         *)
LEMMA LoneLoop ==
  ASSUME ConnIInv, opens <= 1, NEW l \in Loops, at[l] # "idle"
  PROVE  \A k \in Loops : k # l => at[k] = "idle"
<1>1. /\ opens \in Nat /\ \A k \in Loops : k \in Nat \ {0} /\ (k > opens => at[k] = "idle")
  BY Counts DEF ConnIInv, LoopsStarted
<1>. QED
  BY <1>1

LEMMA WaitStep ==
  ASSUME ConnIInv, ConnStep
  PROVE  WaitSound'
<1> SUFFICES ASSUME opens' <= 1 PROVE WaitSound'
  BY DEF WaitSound
<1>0. TypeOK /\ opens \in Nat
  BY Counts DEF ConnIInv
<1> USE DEF history, loops
<1>1. ASSUME opens' = opens, waiting' = waiting, \A l \in Loops : Down(l)' <=> Down(l),
             panic' # "close of closed channel" \/ panic' = panic
      PROVE  WaitSound'
  BY <1>1 DEF ConnIInv, WaitSound
<1>2. ASSUME NEW c \in Callers, Application(c) PROVE WaitSound'
  <2>1. /\ opens' = opens /\ waiting' = waiting
        /\ panic' # "close of closed channel" \/ panic' = panic
    BY <1>2 DEF Application, Connect, Close, CloseWithoutConnection, PublishWithoutChannel, Panic
  <2>2. at' = at \/ Goto(c, "dial")
    BY <1>2 DEF Application, Connect, Close, CloseWithoutConnection, PublishWithoutChannel, Panic
  <2>3. \A l \in Loops : at'[l] = at[l]
    BY <1>0, <2>2, CallerMove DEF Places
  <2>. QED
    BY <1>1, <2>1, <2>3 DEF Down
<1>3. ASSUME NEW p \in Callers \cup Loops, TryConnect(p) PROVE WaitSound'
  <2>1. /\ opens' = opens /\ waiting' = waiting
        /\ panic' # "close of closed channel" \/ panic' = panic
    BY <1>3 DEF TryConnect, Dial, DialFailed, OpenChannels, ChannelFailed, ChannelOnNil, Panic
  <2>2. CASE p \in Callers
    <3>1. at' = at \/ \E place \in Places : Goto(p, place)
      BY <1>3, <2>2 DEF TryConnect, Dial, DialFailed, OpenChannels, ChannelFailed,
                        ChannelOnNil, Panic, AfterFailure, Places
    <3>2. \A l \in Loops : at'[l] = at[l]
      BY <1>0, <2>2, <3>1, CallerMove
    <3>. QED
      BY <1>1, <2>1, <3>2 DEF Down
  <2>3. CASE p \in Loops
    <3>1. /\ p \notin Callers /\ at[p] \in {"dial", "channels"}
          /\ at' = at \/ \E place \in {"dial", "channels", "set"} : Goto(p, place)
      BY <1>3, <2>3, CallersAssumption
         DEF TryConnect, Dial, DialFailed, OpenChannels, ChannelFailed, ChannelOnNil, Panic,
             AfterFailure, At
    <3>2. \A l \in Loops : at'[l] = at[l] \/ (l = p /\ at'[l] \in {"dial", "channels", "set"})
      BY <1>0, <2>3, <3>1, LoopMove DEF Places
    <3>3. \A l \in Loops : Down(l)' <=> Down(l)
      BY <3>1, <3>2 DEF Down
    <3>. QED
      BY <1>1, <2>1, <3>3
  <2>. QED
    BY <2>2, <2>3
<1>4. ASSUME NEW c \in Callers, Connected(c) PROVE WaitSound'
  <2>1. /\ opens' = opens + 1 /\ waiting' = waiting /\ panic' = panic
        /\ \A l \in Loops : at'[l] = IF l = opens + 1 THEN "register" ELSE at[l]
    BY <1>4, ConnectedMove DEF Connected
  <2>2. opens = 0
    BY <1>0, <2>1
  <2>3. \A l \in Loops : at[l] = "idle"
    BY <2>2, BoundAssumption DEF ConnIInv, LoopsStarted, Loops
  <2>4. \A l \in Loops : ~Down(l) /\ ~Down(l)'
    BY <2>1, <2>3 DEF Down
  <2>5. ~waiting /\ panic # "close of closed channel"
    <3>1. WaitSound /\ opens <= 1
      BY <2>2 DEF ConnIInv
    <3>. QED
      BY <2>4, <3>1 DEF WaitSound
  <2>. QED
    BY <2>1, <2>4, <2>5 DEF WaitSound
<1>5. ASSUME NEW l \in Loops, LoopStep(l), ~TryConnect(l) PROVE WaitSound'
  <2>1. opens' = opens /\ at[l] # "idle" /\ panic = "none"
    BY <1>5 DEF LoopStep, Reconnected, Unblock, UnblockAgain, Register, RegisterOnNil, Outage,
                LoopEnds, Panic, At
  <2>2. \A k \in Loops : k # l => at[k] = "idle"
    BY <2>1, LoneLoop
  <2>3. waiting <=> Down(l)
    BY <2>1, <2>2 DEF ConnIInv, WaitSound, Down
  <2>4. ASSUME NEW place \in Places, Goto(l, place), panic' = panic,
               waiting' <=> place \in {"dial", "channels", "set", "unblock"}
        PROVE  WaitSound'
    <3>1. \A k \in Loops : at'[k] = IF k = l THEN place ELSE at[k]
      BY <1>0, <2>4, LoopMove
    <3>2. waiting' <=> \E k \in Loops : Down(k)'
      BY <2>2, <2>4, <3>1 DEF Down
    <3>. QED
      BY <2>1, <2>4, <3>2 DEF WaitSound
  <2>5. CASE Reconnected(l)
    BY <2>3, <2>4, <2>5 DEF Reconnected, At, Down, Places
  <2>6. CASE Unblock(l)
    BY <2>4, <2>6 DEF Unblock, Places
  <2>7. CASE UnblockAgain(l)
    BY <2>3, <2>7 DEF UnblockAgain, At, Down
  <2>8. CASE Register(l) \/ LoopEnds(l)
    BY <2>3, <2>4, <2>8 DEF Register, LoopEnds, At, Down, Places
  <2>9. CASE RegisterOnNil(l)
    BY <1>1, <2>9 DEF RegisterOnNil, Panic, Down
  <2>10. CASE Outage(l)
    BY <2>4, <2>10 DEF Outage, Places
  <2>. QED
    BY <1>5, <2>5, <2>6, <2>7, <2>8, <2>9, <2>10 DEF LoopStep
<1>6. CASE (\E k \in alive : Lose(k)) \/ UNCHANGED vars \/ Panic("nil connection")
  BY <1>1, <1>6 DEF Lose, Panic, vars, Down
<1>. QED
  BY <1>2, <1>3, <1>4, <1>5, <1>6 DEF ConnStep, Next

LEMMA ConnInit == Init => ConnIInv
<1> SUFFICES ASSUME Init PROVE ConnIInv
  OBVIOUS
<1>1. TypeOK
  <2>1. 0 \in Gens /\ 0 \in 0 .. MaxConnects /\ 0 \in 0 .. MaxTroubles
    BY BoundAssumption DEF Gens
  <2>2. at \in [Callers \cup Loops -> Places]
    BY DEF Init, Places
  <2>. QED
    BY <2>1, <2>2 DEF Init, TypeOK
<1>2. LoopsStarted
  <2>1. Busy = {}
    BY DEF Init, Busy
  <2>. QED
    BY <2>1, FS_EmptySet, BoundAssumption DEF Init, LoopsStarted
<1>3. WaitSound
  BY DEF Init, WaitSound, Down
<1>. QED
  BY <1>1, <1>2, <1>3 DEF ConnIInv

LEMMA ConnIInvStep == ConnIInv /\ ConnStep => ConnIInv'
BY TypeStep, LoopsStartedStep, WaitStep DEF ConnIInv

(* As long as one Connect has succeeded, whatever outages there are,       *)
(* failures of reconnecting, calls of Close and a second Connect under     *)
(* way: waitConnection is open exactly while the loop is getting the       *)
(* connection back, so no subscriber goes on without a connection for that *)
(* reason or waits with one, and it is never closed twice.                 *)
THEOREM ConnectionKept == Spec => []ConnInv
<1>1. ConnIInv /\ [Next]_vars => ConnIInv'
  BY ConnIInvStep DEF ConnStep
<1>2. ConnIInv => ConnInv
  BY DEF ConnIInv, ConnInv
<1>. QED
  BY ConnInit, <1>1, <1>2, PTL DEF Spec

-----------------------------------------------------------------------------
(* The subscriber.                                                         *)

Streaming == sub \in {"store", "range"} => stream # 0

(* The server consumes for every stream that is open, so that it drops no  *)
(* queue of one, and has dropped none before there was a stream.           *)
ServerKnows ==
  /\ Open => stream \in attached
  /\ \A m \in Msgs : status[m] = "dropped" => stream # 0

SubIInv ==
  ConnIInv /\ SubTypeOK /\ Streaming /\ StreamKnown /\ ServerKnows /\ NothingUnhandledLost

(* A connection that is gone does not come back under its number.          *)
LEMMA ConnGrows ==
  ASSUME TypeOK, ConnStep
  PROVE  Conns \subseteq Conns' /\ \A k \in Conns \cup {0} : k \in alive' => k \in alive
<1> USE DEF link, history
<1>1. CASE \E p \in Callers \cup Loops : Dial(p)
  <2>1. dials' = dials + 1 /\ alive' = alive \cup {dials + 1} /\ dials \in Nat
    BY <1>1 DEF Dial, TypeOK
  <2>. QED
    BY <2>1 DEF Conns
<1>2. CASE dials' = dials /\ alive' \subseteq alive
  BY <1>2 DEF Conns
<1>3. (\E p \in Callers \cup Loops : Dial(p)) \/ (dials' = dials /\ alive' \subseteq alive)
  BY DEF ConnStep, Next, Application, Connect, Close, CloseWithoutConnection,
         PublishWithoutChannel, TryConnect, DialFailed, OpenChannels, ChannelFailed,
         ChannelOnNil, Connected, LoopStep, Reconnected, Unblock, UnblockAgain, Register,
         RegisterOnNil, Outage, LoopEnds, Lose, Panic, vars
<1>. QED
  BY <1>1, <1>2, <1>3

(* The steps of the goroutine that only move it.                           *)
Move(place, to) == sub = place /\ SubGoto(to)
Moves ==
  \/ \E to \in {"wait", "done"} : Move("check", to)
  \/ \E to \in {"recheck", "done"} : Move("wait", to)
  \/ \E to \in {"consume", "check"} : Move("recheck", to)
  \/ Move("consume", "check")

(* What the server does with the queue.                                    *)
ServerStep ==
  \/ \E m \in Msgs : Arrive(m)
  \/ \E s \in attached : Detach(s) \/ \E m \in Msgs : Deliver(m, s)

(* The connection's steps leave the subscriber alone, the subscriber's     *)
(* leave the connection alone, but that it ends the process, and that      *)
(* Disconnect closes it.                                                   *)
LEMMA StepsOfBoth ==
  ASSUME SubNext \/ UNCHANGED allVars
  PROVE  /\ ConnStep
         /\ \/ UNCHANGED subVars
            \/ UNCHANGED vars /\ (\/ Subscribe \/ Unsubscribe \/ Moves \/ Consume \/ Store
                                  \/ RangeEnds \/ ServerStep
                                  \/ \E m \in Msgs : StartHandler(m) \/ Acknowledge(m)
                                  \/ \E h \in handlers : HandlerDone(h) \/ HandlerFailed(h)
                                  \/ \E c \in Callers : Disconnected(c))
            \/ \E c \in Callers : Close(c) /\ Disconnect(c)
<1>1. CASE SubCheck \/ SubShutdown \/ SubReady \/ SubRecheck \/ ConsumeFailed
  BY <1>1 DEF SubCheck, SubShutdown, SubReady, SubRecheck, ConsumeFailed, SubAt, Moves, Move,
              SubGoto, ConnStep
<1>2. CASE ConsumeOnNil
  BY <1>2 DEF ConsumeOnNil, ConnStep
<1>3. CASE Subscribe \/ Unsubscribe \/ Consume \/ Store \/ RangeEnds
           \/ (\E m \in Msgs : StartHandler(m) \/ Acknowledge(m))
           \/ (\E h \in handlers : HandlerDone(h) \/ HandlerFailed(h))
           \/ (\E c \in Callers : Disconnected(c))
  BY <1>3 DEF Subscribe, Unsubscribe, Consume, Store, RangeEnds, StartHandler, Acknowledge,
              HandlerDone, HandlerFailed, HandlerEnds, Disconnected, ConnStep
<1>4. CASE \E c \in Callers : Disconnect(c)
  BY <1>4 DEF Disconnect, ConnStep, Next, Application
<1>5. CASE \/ (\E c \in Callers : Conn(c)) /\ UNCHANGED subVars
           \/ (\E l \in Loops : LoopStep(l)) /\ UNCHANGED subVars
           \/ (\E k \in alive : Lose(k)) /\ UNCHANGED subVars
  BY <1>5 DEF Conn, ConnStep, Next, Application
<1>6. CASE UNCHANGED allVars
  BY <1>6 DEF allVars, ConnStep
<1>7. CASE ServerStep
  BY <1>7 DEF ServerStep, Arrive, Deliver, Detach, ConnStep
<1>8. ASSUME \/ \E m \in Msgs : Arrive(m)
             \/ \E s \in attached : Detach(s) \/ \E m \in Msgs : Deliver(m, s)
      PROVE  ServerStep
  BY <1>8 DEF ServerStep
<1>. QED
  BY <1>1, <1>2, <1>3, <1>4, <1>5, <1>6, <1>7, <1>8 DEF SubNext, Resubscribe

(* An answer changes the message it is for and nothing else at the server. *)
LEMMA SettleTypes ==
  ASSUME SubTypeOK, NEW m \in Msgs, NEW s, NEW to \in {"ready", "gone"}, Settle(m, s, to)
  PROVE  /\ status' \in [Msgs -> Statuses] /\ holder' \in [Msgs -> 0 .. stream]
         /\ owed' \subseteq Msgs /\ cancelled' \in BOOLEAN /\ (cancelled => cancelled')
         /\ \A n \in Msgs : status'[n] = status[n] \/ (n = m /\ status'[n] = to)
<1>0. stream \in Nat /\ 0 \in 0 .. stream /\ SubTypeOK
  BY DEF SubTypeOK
<1>1. cancelled' \in BOOLEAN /\ (cancelled => cancelled')
  BY Zenon DEF Settle, SubTypeOK
<1>2. CASE status' = [status EXCEPT ![m] = to] /\ holder' = [holder EXCEPT ![m] = 0]
           /\ owed' = owed \ {m}
  BY <1>0, <1>1, <1>2 DEF SubTypeOK, Statuses
<1>3. CASE UNCHANGED <<status, holder, owed>>
  BY <1>0, <1>1, <1>3 DEF SubTypeOK
<1>. QED
  BY <1>2, <1>3 DEF Settle

LEMMA SubTypeStep ==
  ASSUME SubIInv, SubNext \/ UNCHANGED allVars
  PROVE  SubTypeOK'
<1>0. /\ ConnStep /\ TypeOK' /\ SubTypeOK /\ Streaming /\ stream \in Nat
      /\ Conns \cup {0} \subseteq Conns' \cup {0}
  BY StepsOfBoth, ConnGrows, ConnIInvStep DEF SubIInv, ConnIInv, SubTypeOK
<1> USE DEF subscriber, consuming, queue, server, outcomes, subVars
<1>1. CASE UNCHANGED subVars
  BY <1>0, <1>1 DEF SubTypeOK
<1>2. CASE \E c \in Callers : Disconnect(c)
  BY <1>0, <1>2 DEF Disconnect, SubTypeOK
<1>3. CASE Subscribe
  BY <1>0, <1>3 DEF Subscribe, SubTypeOK
<1>4. CASE Unsubscribe
  <2>1. cancelled' \in BOOLEAN /\ mayRun' \in BOOLEAN
    BY <1>4, Zenon DEF Unsubscribe
  <2>2. UNCHANGED <<sub, ch, stream, on, owed, declared, attached, status, holder, buffer,
                    handlers, disc, handled>>
    BY <1>4 DEF Unsubscribe
  <2>. QED
    BY <1>0, <2>1, <2>2 DEF SubTypeOK
<1>5. CASE Moves
  <2>1. PICK place, to : Move(place, to) /\ to \in {"check", "wait", "recheck", "consume", "done"}
    BY <1>5 DEF Moves
  <2>. QED
    BY <1>0, <2>1 DEF Move, SubGoto, SubTypeOK
<1>6. CASE Consume
  <2>1. /\ stream' = stream + 1 /\ on' = connection /\ cancelled' = FALSE /\ sub' = "store"
        /\ owed' = {} /\ declared' = TRUE /\ attached' = attached \cup {stream + 1}
        /\ UNCHANGED <<vars, mayRun, ch, status, holder, buffer, handlers, disc, handled>>
    BY <1>6 DEF Consume
  <2>2. on' \in Conns' \cup {0}
    BY <1>0, <2>1 DEF SubTypeOK, TypeOK
  <2>3. /\ ch \in 0 .. stream /\ handlers \subseteq Msgs \X (1 .. stream)
        /\ attached \subseteq 1 .. stream /\ holder \in [Msgs -> 0 .. stream]
    BY <1>0 DEF SubTypeOK
  <2>4. /\ 0 .. stream \subseteq 0 .. stream + 1 /\ 1 .. stream \subseteq 1 .. stream + 1
        /\ stream + 1 \in 1 .. stream + 1
    BY <1>0
  <2>5. /\ stream' \in Nat /\ ch' \in 0 .. stream' /\ handlers' \subseteq Msgs \X (1 .. stream')
        /\ attached' \subseteq 1 .. stream'
    BY <1>0, <2>1, <2>3, <2>4
  <2>6. holder' \in [Msgs -> 0 .. stream']
    BY <2>1, <2>3, <2>4
  <2>. QED
    BY <1>0, <2>1, <2>2, <2>5, <2>6 DEF SubTypeOK
<1>7. CASE Store
  <2>1. ch' \in 0 .. stream
    BY <1>0, <1>7 DEF Store
  <2>. QED
    BY <1>0, <1>7, <2>1 DEF Store, SubTypeOK
<1>8. CASE RangeEnds
  BY <1>0, <1>8 DEF RangeEnds, SubTypeOK
<1>9. CASE ServerStep
  <2>1. /\ UNCHANGED <<sub, mayRun, ch, stream, on, cancelled, owed, handlers, disc, handled>>
        /\ buffer' \subseteq Msgs /\ declared' \in BOOLEAN /\ attached' \subseteq attached
    BY <1>0, <1>9 DEF ServerStep, Arrive, Deliver, Detach, SubTypeOK
  <2>2. status' \in [Msgs -> Statuses]
    BY <1>0, <1>9 DEF ServerStep, Arrive, Deliver, Detach, SubTypeOK, Statuses
  <2>3. holder' \in [Msgs -> 0 .. stream]
    <3>1. 0 \in 0 .. stream /\ attached \subseteq 0 .. stream
      BY <1>0 DEF SubTypeOK
    <3>. QED
      BY <1>0, <1>9, <3>1 DEF ServerStep, Arrive, Deliver, Detach, SubTypeOK
  <2>. QED
    BY <1>0, <2>1, <2>2, <2>3 DEF SubTypeOK
<1>10. ASSUME NEW m \in Msgs, StartHandler(m) PROVE SubTypeOK'
  <2>1. stream \in 1 .. stream
    BY <1>0, <1>10 DEF StartHandler, SubAt, Streaming
  <2>2. handlers' \subseteq Msgs \X (1 .. stream) /\ buffer' \subseteq Msgs /\ owed' \subseteq Msgs
    BY <1>0, <1>10, <2>1 DEF StartHandler, SubTypeOK
  <2>. QED
    BY <1>0, <1>10, <2>2 DEF StartHandler, SubTypeOK
<1>11. ASSUME NEW m \in Msgs, Acknowledge(m) PROVE SubTypeOK'
  <2>1. /\ status' \in [Msgs -> Statuses] /\ holder' \in [Msgs -> 0 .. stream]
        /\ owed' \subseteq Msgs /\ cancelled' \in BOOLEAN
    BY <1>0, <1>11, SettleTypes DEF Acknowledge
  <2>2. UNCHANGED <<sub, mayRun, ch, stream, on, declared, attached, buffer, handlers, disc>>
        /\ handled' \subseteq Msgs
    BY <1>0, <1>11 DEF Acknowledge, SubTypeOK
  <2>. QED
    BY <1>0, <2>1, <2>2 DEF SubTypeOK
<1>12. ASSUME NEW h \in handlers, HandlerDone(h) \/ HandlerFailed(h) PROVE SubTypeOK'
  <2>1. h[1] \in Msgs
    BY <1>0 DEF SubTypeOK
  <2>2. /\ status' \in [Msgs -> Statuses] /\ holder' \in [Msgs -> 0 .. stream]
        /\ owed' \subseteq Msgs /\ cancelled' \in BOOLEAN
    <3>1. CASE UNCHANGED <<status, holder, cancelled, owed>>
      BY <1>0, <3>1 DEF SubTypeOK
    <3>2. CASE \E to \in {"ready", "gone"} : Settle(h[1], h[2], to)
      BY <1>0, <2>1, <3>2, SettleTypes
    <3>. QED
      BY <1>12, <3>1, <3>2 DEF HandlerDone, HandlerFailed, Refused
  <2>3. handlers' \subseteq handlers /\ handled' \subseteq Msgs
        /\ UNCHANGED <<sub, mayRun, ch, stream, on, declared, attached, buffer, disc>>
    BY <1>0, <1>12, <2>1 DEF HandlerDone, HandlerFailed, HandlerEnds, SubTypeOK
  <2>. QED
    BY <1>0, <2>2, <2>3 DEF SubTypeOK
<1>13. CASE \E c \in Callers : Disconnected(c)
  BY <1>0, <1>13 DEF Disconnected, SubTypeOK
<1>. QED
  BY StepsOfBoth, <1>1, <1>2, <1>3, <1>4, <1>5, <1>6, <1>7, <1>8, <1>9, <1>10, <1>11, <1>12, <1>13

(* What neither the goroutine nor Consume does leaves the stream, and only *)
(* closes its channel.                                                     *)
Leaves ==
  \/ UNCHANGED subVars \/ Unsubscribe \/ ServerStep
  \/ \E m \in Msgs : StartHandler(m) \/ Acknowledge(m)
  \/ \E h \in handlers : HandlerDone(h) \/ HandlerFailed(h)
  \/ \E c \in Callers : Disconnected(c) \/ Disconnect(c)

LEMMA StreamLeft ==
  ASSUME SubTypeOK, Leaves
  PROVE  UNCHANGED <<sub, ch, stream, on>> /\ (cancelled => cancelled')
<1> USE DEF subscriber, consuming, queue, server, outcomes, subVars
<1>1. UNCHANGED <<sub, ch, stream, on>>
  BY DEF Leaves, Unsubscribe, ServerStep, Arrive, Deliver, Detach, StartHandler, Acknowledge,
         HandlerDone, HandlerFailed, HandlerEnds, Disconnected, Disconnect
<1>2. cancelled => cancelled'
  BY DEF Leaves, Unsubscribe, ServerStep, Arrive, Deliver, Detach, StartHandler, Acknowledge,
         HandlerDone, HandlerFailed, HandlerEnds, Settle, Disconnected, Disconnect
<1>. QED
  BY <1>1, <1>2

(* A stream that is closed does not open again.                            *)
LEMMA StaysClosed ==
  ASSUME SubIInv, SubNext \/ UNCHANGED allVars, UNCHANGED <<stream, on>>, cancelled => cancelled'
  PROVE  Open' => Open
<1>1. SubTypeOK /\ (on \in alive' => on \in alive)
  BY StepsOfBoth, ConnGrows DEF SubIInv, ConnIInv, SubTypeOK
<1>. QED
  BY <1>1 DEF Open

(* The stream received from, its connection, and what Unsubscribe knows.   *)
LEMMA StreamStep ==
  ASSUME SubIInv, SubNext \/ UNCHANGED allVars
  PROVE  Streaming' /\ StreamKnown'
<1>0. SubTypeOK /\ Streaming /\ StreamKnown /\ stream \in Nat
  BY DEF SubIInv, SubTypeOK
<1> USE DEF subscriber, consuming, queue, server, outcomes, subVars
<1>1. ASSUME UNCHANGED <<stream, on>>, cancelled => cancelled' PROVE Open' => Open
  BY <1>1, StaysClosed
<1>2. CASE Leaves
  BY <1>0, <1>1, <1>2, StreamLeft DEF Streaming, StreamKnown
<1>4. CASE Subscribe \/ Moves
  <2>1. /\ sub \in {"none", "check", "wait", "recheck", "consume"}
        /\ sub' \in {"check", "wait", "recheck", "consume", "done"}
        /\ UNCHANGED <<ch, stream, on, cancelled>>
    BY <1>4 DEF Subscribe, SubAt, Moves, Move, SubGoto
  <2>2. ~Open'
    BY <1>0, <1>1, <2>1 DEF StreamKnown
  <2>. QED
    BY <2>1, <2>2 DEF Streaming, StreamKnown
<1>5. CASE Consume
  BY <1>0, <1>5 DEF Consume, Streaming, StreamKnown
<1>6. CASE Store
  BY <1>0, <1>6 DEF Store, SubAt, Streaming, StreamKnown
<1>7. CASE RangeEnds
  BY <1>0, <1>1, <1>7 DEF RangeEnds, Streaming, StreamKnown
<1>. QED
  BY StepsOfBoth, <1>2, <1>4, <1>5, <1>6, <1>7 DEF Leaves

(* The server drops a queue only when no stream is open.                   *)
LEMMA ServerStepKnows ==
  ASSUME SubIInv, SubNext \/ UNCHANGED allVars
  PROVE  /\ ServerKnows'
         /\ \A m \in Msgs : status'[m] = "dropped" => ~DurableQueue /\ (Open' => stream' > 1)
<1>0. SubTypeOK /\ ServerKnows /\ NothingUnhandledLost /\ stream \in Nat
  BY DEF SubIInv, SubTypeOK
<1> USE DEF subscriber, consuming, queue, server, outcomes, subVars
<1>1. CASE Consume
  <2>1. stream' = stream + 1 /\ attached' = attached \cup {stream + 1} /\ status' = status
    BY <1>1 DEF Consume
  <2>2. ASSUME NEW m \in Msgs, status'[m] = "dropped" PROVE ~DurableQueue /\ stream' > 1
    BY <1>0, <2>1, <2>2 DEF ServerKnows, NothingUnhandledLost
  <2>. QED
    BY <1>0, <2>1, <2>2 DEF ServerKnows
<1>2. ASSUME UNCHANGED <<stream, attached>>, Open' => Open,
             \A m \in Msgs : status'[m] = "dropped" => status[m] = "dropped"
      PROVE  /\ ServerKnows'
             /\ \A m \in Msgs : status'[m] = "dropped" => ~DurableQueue /\ (Open' => stream' > 1)
  BY <1>0, <1>2 DEF ServerKnows, NothingUnhandledLost
<1>3. CASE Subscribe \/ Moves \/ Store \/ RangeEnds
  <2>1. UNCHANGED <<stream, on, cancelled, attached, status>>
    BY <1>3 DEF Subscribe, Moves, Move, SubGoto, Store, RangeEnds
  <2>. QED
    BY <1>2, <2>1, StaysClosed
<1>4. CASE Leaves /\ ~\E s \in attached : Detach(s)
  <2>1. attached' = attached
    BY <1>4 DEF Leaves, Unsubscribe, ServerStep, Arrive, Deliver, StartHandler, Acknowledge,
                HandlerDone, HandlerFailed, HandlerEnds, Disconnected, Disconnect
  <2>2. ASSUME NEW m \in Msgs, status'[m] = "dropped" PROVE status[m] = "dropped"
    <3>1. CASE status' = status
      BY <2>2, <3>1
    <3>2. CASE ServerStep
      BY <1>0, <1>4, <2>2, <3>2 DEF ServerStep, Arrive, Deliver, SubTypeOK
    <3>3. ASSUME NEW n \in Msgs, NEW s, NEW to \in {"ready", "gone"}, Settle(n, s, to)
          PROVE  status[m] = "dropped"
      BY <1>0, <2>2, <3>3 DEF Settle, SubTypeOK
    <3>4. ASSUME NEW h \in handlers, HandlerDone(h) \/ HandlerFailed(h)
          PROVE  status[m] = "dropped"
      <4>1. h[1] \in Msgs
        BY <1>0 DEF SubTypeOK
      <4>. QED
        BY <3>1, <3>3, <3>4, <4>1 DEF HandlerDone, HandlerFailed, Refused
    <3>5. ASSUME NEW n \in Msgs, Acknowledge(n) PROVE status[m] = "dropped"
      BY <3>3, <3>5 DEF Acknowledge
    <3>. QED
      BY <1>4, <3>1, <3>2, <3>4, <3>5
      DEF Leaves, Unsubscribe, StartHandler, Disconnected, Disconnect
  <2>. QED
    BY <1>0, <1>2, <1>4, <2>1, <2>2, StreamLeft, StaysClosed
<1>5. ASSUME NEW s \in attached, Detach(s)
      PROVE  /\ ServerKnows'
             /\ \A m \in Msgs : status'[m] = "dropped" => ~DurableQueue /\ (Open' => stream' > 1)
  <2>1. UNCHANGED <<stream, on, cancelled>> /\ (s # stream \/ ~Open) /\ attached' = attached \ {s}
    BY <1>5 DEF Detach
  <2>2. Open' => Open
    BY <2>1, StaysClosed
  <2>3. stream # 0
    BY <1>0 DEF SubTypeOK
  <2>4. ASSUME NEW m \in Msgs, status'[m] = "dropped"
        PROVE  status[m] = "dropped" \/ (attached = {s} /\ ~DurableQueue)
    BY <1>0, <1>5, <2>4 DEF Detach, SubTypeOK
  <2>. QED
    BY <1>0, <2>1, <2>2, <2>3, <2>4 DEF ServerKnows, NothingUnhandledLost
<1>. QED
  BY StepsOfBoth, <1>1, <1>3, <1>4, <1>5 DEF Leaves

(* A message leaves the queue by an answer only.                           *)
LEMMA NothingLostStep ==
  ASSUME SubIInv, SubNext \/ UNCHANGED allVars
  PROVE  NothingUnhandledLost'
<1> SUFFICES ASSUME ~AutoAck, NEW m \in Msgs, status'[m] = "gone"
             PROVE  m \in handled'
  BY ServerStepKnows DEF NothingUnhandledLost
<1>0. SubTypeOK /\ (status[m] = "gone" => m \in handled)
  BY DEF SubIInv, NothingUnhandledLost
<1> USE DEF subscriber, consuming, queue, server, outcomes, subVars
<1>1. CASE \/ UNCHANGED subVars \/ Subscribe \/ Unsubscribe \/ Moves \/ Consume \/ Store
           \/ RangeEnds \/ (\E n \in Msgs : StartHandler(n))
           \/ (\E c \in Callers : Disconnected(c) \/ Disconnect(c))
  <2>1. UNCHANGED <<status, handled>>
    BY <1>1 DEF Subscribe, Unsubscribe, Moves, Move, SubGoto, Consume, Store, RangeEnds,
                StartHandler, Disconnected, Disconnect
  <2>. QED
    BY <1>0, <2>1
<1>2. CASE ServerStep
  <2>1. handled' = handled
    BY <1>2 DEF ServerStep, Arrive, Deliver, Detach
  <2>2. status[m] = "gone"
    BY <1>0, <1>2 DEF ServerStep, Arrive, Deliver, Detach, SubTypeOK
  <2>. QED
    BY <1>0, <2>1, <2>2
<1>3. ASSUME NEW n \in Msgs, Acknowledge(n) PROVE m \in handled'
  BY <1>0, <1>3, SettleTypes DEF Acknowledge
<1>4. ASSUME NEW h \in handlers, HandlerDone(h) PROVE m \in handled'
  <2>1. h[1] \in Msgs
    BY <1>0 DEF SubTypeOK
  <2>. QED
    BY <1>0, <1>4, <2>1, SettleTypes DEF HandlerDone
<1>5. ASSUME NEW h \in handlers, HandlerFailed(h) PROVE m \in handled'
  <2>1. h[1] \in Msgs
    BY <1>0 DEF SubTypeOK
  <2>2. Refused \in {"ready", "gone"} /\ (Refused = "gone" => ~RequeueOnError)
    BY DEF Refused
  <2>. QED
    BY <1>0, <1>5, <2>1, <2>2, SettleTypes DEF HandlerFailed
<1>. QED
  BY StepsOfBoth, <1>1, <1>2, <1>3, <1>4, <1>5

LEMMA SubInitInv == SubInit => SubIInv
<1> SUFFICES ASSUME SubInit PROVE SubIInv
  OBVIOUS
<1>1. ConnIInv
  BY ConnInit DEF SubInit
<1>2. SubTypeOK
  <2>1. stream \in Nat /\ ch \in 0 .. stream /\ on \in Conns \cup {0}
    BY DEF SubInit
  <2>2. /\ status \in [Msgs -> Statuses] /\ holder \in [Msgs -> 0 .. stream]
        /\ handlers \subseteq Msgs \X (1 .. stream)
    BY DEF SubInit, Statuses
  <2>. QED
    BY <1>1, <2>1, <2>2 DEF SubInit, SubTypeOK, ConnIInv
<1>3. Streaming /\ StreamKnown /\ ServerKnows /\ NothingUnhandledLost
  BY DEF SubInit, Streaming, StreamKnown, ServerKnows, Open, NothingUnhandledLost
<1>. QED
  BY <1>1, <1>2, <1>3 DEF SubIInv

LEMMA SubIInvHolds == SubSpec => []SubIInv
<1>1. SubIInv /\ [SubNext]_allVars => SubIInv'
  <2> SUFFICES ASSUME SubIInv, SubNext \/ UNCHANGED allVars PROVE SubIInv'
    OBVIOUS
  <2>1. ConnIInv'
    BY StepsOfBoth, ConnIInvStep DEF SubIInv
  <2>. QED
    BY <2>1, SubTypeStep, StreamStep, ServerStepKnows, NothingLostStep DEF SubIInv
<1>. QED
  BY SubInitInv, <1>1, PTL DEF SubSpec

(* Through outages, reconnections, Unsubscribe and Disconnect in any order *)
(* a subscriber receives from one stream at most, no stream stays open     *)
(* behind it, and the one it receives from is the one that Unsubscribe     *)
(* closes.                                                                 *)
THEOREM OneStream == SubSpec => []SubInv
<1>1. SubIInv => SubInv
  BY DEF SubIInv, SubInv
<1>. QED
  BY SubIInvHolds, <1>1, PTL

(* Without AutoAck no message leaves the queue but by an acknowledgement   *)
(* of the application, a handler that returned nil, or one that failed     *)
(* where failures are not requeued; and only a queue that is not durable is*)
(* dropped with its messages, after its first stream was closed.           *)
THEOREM NoMessageLost == SubSpec => []NothingUnhandledLost
<1>1. SubIInv => NothingUnhandledLost
  BY DEF SubIInv
<1>. QED
  BY SubIInvHolds, <1>1, PTL

-----------------------------------------------------------------------------
(* The Kafka broker.                                                       *)

(* A session is done with the offsets from its start up to this one.       *)
Past(s) == IF busy[s] = 0 THEN pos[s] ELSE busy[s]

(* A session takes one message after the other from where it started: what *)
(* decodes of those it is done with was tried, and its mark stands right   *)
(* behind one that was marked, of those it has taken.                      *)
SessionInv(s) ==
  /\ busy[s] # 0 => pos[s] = busy[s] + 1 /\ from[s] <= busy[s] /\ loop[s] = "session"
  /\ from[s] <= pos[s] /\ pos[s] <= Len(log) + 1
  /\ loop[s] = "session" => from[s] # 0
  /\ from[s] = 0 => pos[s] = 0
  /\ \A o \in from[s] .. Past(s) - 1 : Decodable(o) => o \in tried
  /\ mark[s] # 0 => mark[s] - 1 \in settled /\ mark[s] - 1 \in from[s] .. pos[s] - 1

(* What the group has committed, one session after the other has tried, or *)
(* the application has acknowledged.                                       *)
Committed ==
  committed # 0 =>
    /\ base \in 1 .. committed /\ committed - 1 \in settled
    /\ \A o \in base .. committed - 1 : Decodable(o) => o \in tried \cup settled

(* The owner's session started where the group had got to, or before: it   *)
(* leaves no gap behind what is committed.                                 *)
OwnerStarted ==
  \A s \in Subs : owner = s =>
    /\ from[s] # 0
    /\ committed # 0 => base <= from[s] /\ from[s] <= committed

GroupInv ==
  /\ Committed /\ OwnerStarted
  /\ tried \subseteq 1 .. Len(log) /\ settled \subseteq 1 .. Len(log)

(* Until Connect is through everybody who has subscribed is early, but with*)
(* the producer that could not be made.                                    *)
EarlyClients ==
  ClientsKnown /\ (~nilProducer /\ conn \in {"none", "client", "producer"} => open \subseteq early)

(* The inductive invariant.                                                *)
KafkaIInv ==
  /\ KafkaTypeOK /\ EarlyClients
  /\ GroupInv /\ \A s \in Subs : SessionInv(s)

(* Offsets are numbers.                                                    *)
LEMMA KafkaCounts ==
  ASSUME KafkaTypeOK
  PROVE  /\ Len(log) \in Nat /\ Len(log) <= MaxLog /\ MaxLog \in Nat
         /\ committed \in Nat /\ base \in Nat
         /\ \A s \in Subs : from[s] \in Nat /\ pos[s] \in Nat /\ busy[s] \in Nat /\ mark[s] \in Nat
         /\ \A s \in Subs : Past(s) \in Nat
<1>1. log \in Seq(Kinds) /\ Len(log) <= MaxLog /\ MaxLog \in Nat
  BY LogAssumption DEF KafkaTypeOK
<1>2. Len(log) \in Nat
  BY <1>1, LenProperties
<1>3. committed \in 0 .. MaxLog + 1 /\ base \in 0 .. MaxLog + 1
  BY DEF KafkaTypeOK, Ends
<1>4. /\ from \in [Subs -> 0 .. MaxLog + 1] /\ pos \in [Subs -> 0 .. MaxLog + 1]
      /\ busy \in [Subs -> {0} \cup 1 .. MaxLog] /\ mark \in [Subs -> 0 .. MaxLog + 1]
  BY DEF KafkaTypeOK, Ends, Offsets
<1>5. ASSUME NEW s \in Subs
      PROVE  from[s] \in Nat /\ pos[s] \in Nat /\ busy[s] \in Nat /\ mark[s] \in Nat
  <2>1. /\ from[s] \in 0 .. MaxLog + 1 /\ pos[s] \in 0 .. MaxLog + 1
        /\ busy[s] \in {0} \cup 1 .. MaxLog /\ mark[s] \in 0 .. MaxLog + 1
    BY <1>4
  <2>. QED
    BY <1>1, <2>1
<1>. QED
  BY <1>1, <1>2, <1>3, <1>5 DEF Past

(* The partition is only appended to.                                      *)
LEMMA LogGrows ==
  ASSUME KafkaTypeOK, KafkaNext \/ UNCHANGED kafkaVars
  PROVE  /\ log' \in Seq(Kinds) /\ Len(log') \in Nat
         /\ Len(log') <= MaxLog /\ Len(log) <= Len(log')
         /\ \A o \in 1 .. Len(log) : log'[o] = log[o]
<1>1. log \in Seq(Kinds) /\ Len(log) \in Nat /\ Len(log) <= MaxLog /\ MaxLog \in Nat
  BY KafkaCounts DEF KafkaTypeOK
<1>2. CASE log' = log
  BY <1>1, <1>2
<1>3. CASE KafkaPublish
  <2>1. log' = log \/ (Len(log) < MaxLog /\ \E kind \in Kinds : log' = Append(log, kind))
    BY <1>3 DEF KafkaPublish, Encoded, Kinds
  <2>2. CASE Len(log) < MaxLog /\ \E kind \in Kinds : log' = Append(log, kind)
    BY <1>1, <2>2, AppendProperties
  <2>. QED
    BY <1>2, <2>1, <2>2
<1>4. KafkaPublish \/ log' = log
  BY DEF KafkaNext, KafkaConnect, ProducerMade, ClientsReset, KafkaDisconnect, Member,
         KafkaSubscribe, KafkaUnsubscribe, KafkaConsume, ConsumeEnds, Take, HandlerReturns,
         Ack, Commit, Release, Evict, SessionLost, group, kafkaVars
<1>. QED
  BY <1>2, <1>3, <1>4

(* The larger of two numbers.                                              *)
LEMMA MaxOfTwo ==
  ASSUME NEW a \in Nat, NEW b \in Nat
  PROVE  Max({a, b}) \in {a, b} /\ Max({a, b}) >= a /\ Max({a, b}) >= b
<1>1. \E x \in {a, b} : \A y \in {a, b} : x >= y
  BY a >= b \/ b >= a
<1>. QED
  BY <1>1 DEF Max

(* Types are kept: what a session goes through stays within the partition. *)
LEMMA KafkaTypeStep ==
  ASSUME KafkaIInv, KafkaNext \/ UNCHANGED kafkaVars
  PROVE  KafkaTypeOK'
<1>0. /\ KafkaTypeOK /\ MaxLog \in Nat /\ Len(log) \in Nat /\ Len(log) <= MaxLog
      /\ \A s \in Subs : SessionInv(s)
      /\ log' \in Seq(Kinds) /\ Len(log') <= MaxLog
  BY KafkaCounts, LogGrows DEF KafkaIInv
<1> USE DEF links, group, session, outcome
<1>1. CASE KafkaConnect \/ ProducerMade \/ ClientsReset \/ KafkaDisconnect \/ KafkaPublish
  <2>1. conn' \in {"none", "client", "half", "producer", "up", "down"} /\ sc' \subseteq Subs
        /\ open' \subseteq Subs /\ owner' \in Subs \cup {None} /\ nilProducer' \in BOOLEAN
    BY <1>0, <1>1 DEF KafkaConnect, ProducerMade, ClientsReset, KafkaDisconnect, KafkaPublish,
                      KafkaTypeOK
  <2>2. UNCHANGED <<early, loop, shut, autoAck, committed, base, rebalances, session, outcome>>
    BY <1>1 DEF KafkaConnect, ProducerMade, ClientsReset, KafkaDisconnect, KafkaPublish
  <2>. QED
    BY <1>0, <2>1, <2>2 DEF KafkaTypeOK
<1>2. CASE UNCHANGED kafkaVars
  <2>1. UNCHANGED <<links, loop, shut, autoAck, group, session, outcome, nilProducer>>
    BY <1>2 DEF kafkaVars
  <2>. QED
    BY <1>0, <2>1 DEF KafkaTypeOK
<1>3. ASSUME NEW s \in Subs, Member(s) PROVE KafkaTypeOK'
  <2>1. CASE KafkaSubscribe(s) \/ KafkaUnsubscribe(s) \/ ConsumeEnds(s) \/ SessionLost(s)
    <3>1. loop' \in [Subs -> {"none", "consume", "session", "ended", "spinning"}]
      BY <1>0, <2>1 DEF KafkaSubscribe, KafkaUnsubscribe, ConsumeEnds, SessionLost, KafkaTypeOK
    <3>2. sc' \subseteq Subs /\ open' \subseteq Subs /\ early' \subseteq Subs
      BY <1>0, <2>1 DEF KafkaSubscribe, Early, KafkaUnsubscribe, ConsumeEnds, SessionLost,
                        KafkaTypeOK
    <3>. QED
      BY <1>0, <2>1, <3>1, <3>2 DEF KafkaSubscribe, KafkaUnsubscribe, ConsumeEnds, SessionLost,
                              KafkaTypeOK
  <2>2. CASE KafkaConsume(s)
    <3>1. StartOffset \in Ends
      <4>1. Len(log) + 1 \in Ends
        BY <1>0 DEF Ends
      <4>. QED
        BY <1>0, <4>1 DEF StartOffset, KafkaTypeOK
    <3>2. 0 \in Ends
      BY <1>0 DEF Ends
    <3>3. from' \in [Subs -> Ends] /\ pos' \in [Subs -> Ends] /\ mark' \in [Subs -> Ends]
      BY <1>0, <2>2, <3>1, <3>2 DEF KafkaConsume, KafkaTypeOK
    <3>4. loop' \in [Subs -> {"none", "consume", "session", "ended", "spinning"}]
      BY <1>0, <2>2 DEF KafkaConsume, KafkaTypeOK
    <3>. QED
      BY <1>0, <2>2, <3>3, <3>4 DEF KafkaConsume, KafkaTypeOK
  <2>3. CASE Take(s)
    <3>1. pos[s] \in Nat /\ pos[s] <= Len(log) /\ pos[s] # 0
      BY <1>0, <2>3, KafkaCounts DEF Take, Idle, SessionInv
    <3>2. pos[s] + 1 \in Ends /\ pos[s] \in Offsets
      BY <1>0, <3>1 DEF Ends, Offsets
    <3>3. pos' \in [Subs -> Ends] /\ busy' \in [Subs -> {0} \cup Offsets]
      BY <1>0, <2>3, <3>2 DEF Take, KafkaTypeOK
    <3>. QED
      BY <1>0, <2>3, <3>3 DEF Take, KafkaTypeOK
  <2>4. ASSUME NEW o \in Offsets PROVE Marked(s, o) \in [Subs -> Ends]
    <3>1. mark[s] \in Ends /\ mark[s] \in Nat /\ o + 1 \in Nat /\ o + 1 \in Ends
      BY <1>0, KafkaCounts DEF Ends, Offsets, KafkaTypeOK
    <3>2. Max({mark[s], o + 1}) \in Ends
      BY <3>1, MaxOfTwo
    <3>. QED
      BY <1>0, <3>2 DEF Marked, KafkaTypeOK
  <2>5. ASSUME NEW ok \in BOOLEAN, HandlerReturns(s, ok) PROVE KafkaTypeOK'
    <3>1. busy[s] \in Offsets
      BY <1>0, <2>5 DEF HandlerReturns, KafkaTypeOK
    <3>2. /\ mark' \in [Subs -> Ends] /\ settled' \subseteq Offsets /\ tried' \subseteq Offsets
          /\ busy' \in [Subs -> {0} \cup Offsets]
      BY <1>0, <2>4, <2>5, <3>1 DEF HandlerReturns, KafkaTypeOK
    <3>. QED
      BY <1>0, <2>5, <3>2 DEF HandlerReturns, KafkaTypeOK
  <2>6. ASSUME NEW o \in Offsets, Ack(s, o) PROVE KafkaTypeOK'
    <3>1. mark' \in [Subs -> Ends] /\ settled' \subseteq Offsets
      BY <1>0, <2>4, <2>6 DEF Ack, KafkaTypeOK
    <3>. QED
      BY <1>0, <2>6, <3>1 DEF Ack, KafkaTypeOK
  <2>7. CASE Commit(s) \/ Release(s) \/ Evict(s)
    <3>1. committed' \in Ends /\ base' \in Ends
      BY <1>0, <2>7 DEF Commit, Release, Evict, Flush, KafkaTypeOK
    <3>2. rebalances' \in 0 .. MaxRebalances
      <4>1. rebalances' = rebalances \/ (rebalances < MaxRebalances /\ rebalances' = rebalances + 1)
        BY <2>7 DEF Commit, Release, Evict
      <4>2. rebalances \in 0 .. MaxRebalances /\ MaxRebalances \in Nat
        BY <1>0, LogAssumption DEF KafkaTypeOK
      <4>. QED
        BY <4>1, <4>2
    <3>3. owner' \in Subs \cup {None}
          /\ loop' \in [Subs -> {"none", "consume", "session", "ended", "spinning"}]
      BY <1>0, <2>7 DEF Commit, Release, Evict, KafkaTypeOK
    <3>. QED
      BY <1>0, <2>7, <3>1, <3>2, <3>3 DEF Commit, Release, Evict, KafkaTypeOK
  <2>. QED
    BY <1>3, <2>1, <2>2, <2>3, <2>5, <2>6, <2>7 DEF Member
<1>. QED
  BY <1>1, <1>2, <1>3 DEF KafkaNext

(* Where a session's clauses reach, the partition is written.              *)
LEMMA SessionReach ==
  ASSUME KafkaIInv, NEW s \in Subs
  PROVE  /\ Past(s) <= Len(log) + 1 /\ from[s] <= Past(s) /\ Past(s) <= pos[s]
         /\ from[s] .. Past(s) - 1 \subseteq 1 .. Len(log)
<1>1. SessionInv(s) /\ KafkaTypeOK
  BY DEF KafkaIInv
<1>2. /\ Len(log) \in Nat /\ from[s] \in Nat /\ pos[s] \in Nat /\ busy[s] \in Nat
      /\ Past(s) \in Nat
  BY <1>1, KafkaCounts
<1>3. from[s] <= Past(s) /\ Past(s) <= pos[s] /\ pos[s] <= Len(log) + 1
      /\ (from[s] = 0 => Past(s) = 0)
  BY <1>1, <1>2 DEF SessionInv, Past
<1>. QED
  BY <1>2, <1>3

(* A session stays sound while its own part of the state does: what others *)
(* do adds to the partition and to what was tried and marked.              *)
LEMMA SessionKept ==
  ASSUME KafkaIInv, KafkaNext \/ UNCHANGED kafkaVars, NEW s \in Subs,
         from'[s] = from[s], pos'[s] = pos[s], busy'[s] = busy[s], mark'[s] = mark[s],
         tried \subseteq tried', settled \subseteq settled',
         loop'[s] = loop[s] \/ (busy[s] = 0 /\ loop'[s] # "session")
  PROVE  SessionInv(s)'
<1>1. SessionInv(s) /\ KafkaTypeOK
  BY DEF KafkaIInv
<1>2. /\ Len(log) \in Nat /\ from[s] \in Nat /\ pos[s] \in Nat /\ busy[s] \in Nat
      /\ Len(log') \in Nat /\ Len(log) <= Len(log')
      /\ \A o \in 1 .. Len(log) : log'[o] = log[o]
  BY <1>1, KafkaCounts, LogGrows
<1>3. Past(s)' = Past(s)
  BY DEF Past
<1>4. ASSUME NEW o \in from[s] .. Past(s) - 1 PROVE (Decodable(o) => o \in tried)'
  <2>1. log'[o] = log[o]
    BY <1>2, SessionReach
  <2>. QED
    BY <1>1, <2>1 DEF SessionInv, Decodable
<1>5. pos'[s] <= Len(log') + 1
  <2>1. pos[s] <= Len(log) + 1
    BY <1>1 DEF SessionInv
  <2>. QED
    BY <1>2, <2>1
<1>6. mark'[s] # 0 => mark'[s] - 1 \in settled' /\ mark'[s] - 1 \in from'[s] .. pos'[s] - 1
  BY <1>1 DEF SessionInv
<1>. QED
  BY <1>1, <1>3, <1>4, <1>5, <1>6 DEF SessionInv

(* What the group has committed lies within the partition.                 *)
LEMMA CommittedInLog ==
  ASSUME KafkaIInv
  PROVE  /\ committed \in Nat /\ committed <= Len(log) + 1 /\ StartOffset \in Nat
         /\ StartOffset # 0 /\ StartOffset <= Len(log) + 1
<1>1. /\ committed \in Nat /\ Len(log) \in Nat
      /\ committed # 0 => committed - 1 \in 1 .. Len(log)
  BY KafkaCounts DEF KafkaIInv, GroupInv, Committed, OwnerStarted
<1>. QED
  BY <1>1 DEF StartOffset

(* A session starts where the group has got to, with nothing done.         *)
LEMMA ConsumeSession ==
  ASSUME KafkaIInv, NEW s \in Subs, KafkaConsume(s)
  PROVE  SessionInv(s)'
<1>1. SessionInv(s) /\ KafkaTypeOK /\ Len(log) \in Nat
  BY KafkaCounts DEF KafkaIInv
<1>2. /\ from'[s] = StartOffset /\ pos'[s] = StartOffset /\ mark'[s] = 0
      /\ loop'[s] = "session" /\ busy' = busy /\ log' = log
  BY <1>1 DEF KafkaConsume, KafkaTypeOK
<1>3. busy'[s] = 0
  BY <1>1, <1>2 DEF KafkaConsume, SessionInv
<1>4. Past(s)' = StartOffset
  BY <1>2, <1>3 DEF Past
<1>5. StartOffset \in Nat /\ StartOffset # 0 /\ StartOffset <= Len(log) + 1
  BY CommittedInLog
<1>6. StartOffset .. StartOffset - 1 = {}
  BY <1>5
<1>. QED
  BY <1>2, <1>3, <1>4, <1>5, <1>6 DEF SessionInv

(* The session goes on to the next message.                                *)
LEMMA TakeSession ==
  ASSUME KafkaIInv, NEW s \in Subs, Take(s)
  PROVE  SessionInv(s)'
<1>1. /\ SessionInv(s) /\ KafkaTypeOK /\ Len(log) \in Nat /\ pos[s] \in Nat /\ from[s] \in Nat
  BY KafkaCounts DEF KafkaIInv
<1>2. /\ loop[s] = "session" /\ busy[s] = 0 /\ pos[s] <= Len(log) /\ pos'[s] = pos[s] + 1
      /\ busy'[s] = IF Decodable(pos[s]) THEN pos[s] ELSE 0
      /\ UNCHANGED <<loop, log, from, mark, tried, settled>>
  BY <1>1 DEF Take, Idle, KafkaTypeOK, Decodable, group, outcome
<1>3. from[s] # 0 /\ from[s] <= pos[s]
  BY <1>1, <1>2 DEF SessionInv
<1>4. Past(s) = pos[s]
  BY <1>2 DEF Past
<1>5. Past(s)' = IF Decodable(pos[s]) THEN pos[s] ELSE pos[s] + 1
  BY <1>1, <1>2, <1>3 DEF Past
<1>6. ASSUME NEW o \in from[s] .. Past(s)' - 1 PROVE Decodable(o) => o \in tried
  <2>1. o \in from[s] .. Past(s) - 1 \/ (o = pos[s] /\ ~Decodable(pos[s]))
    BY <1>1, <1>4, <1>5
  <2>. QED
    BY <1>1, <2>1 DEF SessionInv
<1>7. from[s] .. pos[s] - 1 \subseteq from[s] .. pos'[s] - 1
  BY <1>1, <1>2
<1>8. \A o : Decodable(o)' = Decodable(o)
  BY <1>2 DEF Decodable
<1>9. mark'[s] # 0 => mark'[s] - 1 \in settled' /\ mark'[s] - 1 \in from'[s] .. pos'[s] - 1
  BY <1>1, <1>2, <1>7 DEF SessionInv
<1>10. /\ busy'[s] # 0 => pos'[s] = busy'[s] + 1 /\ from'[s] <= busy'[s] /\ loop'[s] = "session"
       /\ from'[s] <= pos'[s] /\ pos'[s] <= Len(log') + 1 /\ from'[s] # 0
  BY <1>1, <1>2, <1>3
<1>11. \A o \in from'[s] .. Past(s)' - 1 : (Decodable(o) => o \in tried)'
  BY <1>2, <1>6, <1>8
<1>. QED
  BY <1>9, <1>10, <1>11 DEF SessionInv

(* The mark only moves forward, to right behind what is marked.            *)
LEMMA MarkMoves ==
  ASSUME KafkaTypeOK, NEW s \in Subs, NEW o \in Nat, mark' = Marked(s, o)
  PROVE  mark'[s] \in {mark[s], o + 1}
<1>1. mark[s] \in Nat /\ mark \in [Subs -> Ends] /\ o + 1 \in Nat
  BY KafkaCounts DEF KafkaTypeOK
<1>2. mark'[s] = Max({mark[s], o + 1})
  BY <1>1 DEF Marked
<1>. QED
  BY <1>1, <1>2, MaxOfTwo

(* The handler has returned: its message is tried, and marked on success.  *)
LEMMA HandledSession ==
  ASSUME KafkaIInv, NEW s \in Subs, NEW ok \in BOOLEAN, HandlerReturns(s, ok)
  PROVE  SessionInv(s)'
<1>1. /\ SessionInv(s) /\ KafkaTypeOK /\ Len(log) \in Nat /\ pos[s] \in Nat /\ from[s] \in Nat
      /\ busy[s] \in Nat
  BY KafkaCounts DEF KafkaIInv
<1>2. /\ busy[s] # 0 /\ busy'[s] = 0 /\ tried' = tried \cup {busy[s]}
      /\ UNCHANGED <<loop, log, from, pos>>
  BY <1>1 DEF HandlerReturns, KafkaTypeOK, group
<1>3. /\ settled \subseteq settled'
      /\ mark'[s] = mark[s] \/ (mark'[s] = busy[s] + 1 /\ busy[s] \in settled')
  <2>1. CASE ok /\ autoAck
    BY <1>1, <2>1, MarkMoves DEF HandlerReturns
  <2>2. CASE ~(ok /\ autoAck)
    BY <2>2 DEF HandlerReturns
  <2>. QED
    BY <2>1, <2>2
<1>4. pos[s] = busy[s] + 1 /\ from[s] <= busy[s] /\ Past(s) = busy[s] /\ Past(s)' = pos[s]
  BY <1>1, <1>2 DEF SessionInv, Past
<1>5. /\ from[s] .. Past(s)' - 1 = (from[s] .. Past(s) - 1) \cup {busy[s]}
      /\ busy[s] + 1 - 1 = busy[s]
  BY <1>1, <1>4
<1>6. \A o : Decodable(o)' = Decodable(o)
  BY <1>2 DEF Decodable
<1>7. \A o \in from'[s] .. Past(s)' - 1 : (Decodable(o) => o \in tried)'
  BY <1>1, <1>2, <1>5, <1>6 DEF SessionInv
<1>8. busy[s] \in from[s] .. pos[s] - 1
  BY <1>1, <1>4
<1>9. mark'[s] # 0 => mark'[s] - 1 \in settled' /\ mark'[s] - 1 \in from'[s] .. pos'[s] - 1
  <2>1. CASE mark'[s] = mark[s]
    BY <1>1, <1>2, <1>3, <2>1 DEF SessionInv
  <2>2. CASE mark'[s] = busy[s] + 1 /\ busy[s] \in settled'
    BY <1>2, <1>5, <1>8, <2>2
  <2>. QED
    BY <1>3, <2>1, <2>2
<1>10. /\ busy'[s] = 0 /\ from'[s] <= pos'[s] /\ pos'[s] <= Len(log') + 1
       /\ loop'[s] = "session" => from'[s] # 0
       /\ from'[s] = 0 => pos'[s] = 0
  BY <1>1, <1>2 DEF SessionInv
<1>. QED
  BY <1>7, <1>9, <1>10 DEF SessionInv

(* An acknowledged message is one of those the session has taken.          *)
LEMMA AckSession ==
  ASSUME KafkaIInv, NEW s \in Subs, NEW o \in Offsets, Ack(s, o)
  PROVE  SessionInv(s)'
<1>1. SessionInv(s) /\ KafkaTypeOK /\ o \in Nat /\ o + 1 - 1 = o
  BY DEF KafkaIInv, Offsets
<1>2. /\ o \in from[s] .. pos[s] - 1 /\ settled' = settled \cup {o}
      /\ UNCHANGED <<loop, log, from, pos, busy, tried>>
  BY <1>1 DEF Ack, Given, group
<1>3. mark'[s] \in {mark[s], o + 1}
  BY <1>1, MarkMoves DEF Ack
<1>4. Past(s)' = Past(s)
  BY <1>2 DEF Past
<1>5. mark'[s] # 0 => mark'[s] - 1 \in settled' /\ mark'[s] - 1 \in from'[s] .. pos'[s] - 1
  <2>1. CASE mark'[s] = mark[s]
    BY <1>1, <1>2, <2>1 DEF SessionInv
  <2>2. CASE mark'[s] = o + 1
    BY <1>1, <1>2, <2>2
  <2>. QED
    BY <1>3, <2>1, <2>2
<1>6. \A p : Decodable(p)' = Decodable(p)
  BY <1>2 DEF Decodable
<1>. QED
  BY <1>1, <1>2, <1>4, <1>5, <1>6 DEF SessionInv

(* The member that acts keeps its own session sound, and nobody else's is  *)
(* touched.                                                                *)
LEMMA SessionStep ==
  ASSUME KafkaIInv, KafkaNext \/ UNCHANGED kafkaVars, NEW q \in Subs
  PROVE  SessionInv(q)'
<1>0. KafkaTypeOK /\ SessionInv(q)
  BY DEF KafkaIInv
<1> USE DEF links, group, session, outcome
<1>1. CASE KafkaConnect \/ ProducerMade \/ ClientsReset \/ KafkaDisconnect \/ KafkaPublish
  <2>1. UNCHANGED <<loop, session, outcome>>
    BY <1>1 DEF KafkaConnect, ProducerMade, ClientsReset, KafkaDisconnect, KafkaPublish
  <2>. QED
    BY <2>1, SessionKept
<1>2. CASE UNCHANGED kafkaVars
  <2>1. UNCHANGED <<loop, session, outcome>>
    BY <1>2 DEF kafkaVars
  <2>. QED
    BY <2>1, SessionKept
<1>3. ASSUME NEW s \in Subs, Member(s) PROVE SessionInv(q)'
  <2>1. CASE KafkaSubscribe(s) \/ KafkaUnsubscribe(s) \/ ConsumeEnds(s)
    <3>1. UNCHANGED <<session, outcome>>
      BY <2>1 DEF KafkaSubscribe, KafkaUnsubscribe, ConsumeEnds
    <3>2. loop'[q] = loop[q] \/ (loop[q] # "session" /\ loop'[q] # "session")
      BY <1>0, <2>1 DEF KafkaSubscribe, KafkaUnsubscribe, ConsumeEnds, KafkaTypeOK
    <3>3. loop[q] # "session" => busy[q] = 0
      BY <1>0 DEF SessionInv
    <3>. QED
      BY <3>1, <3>2, <3>3, SessionKept
  <2>2. CASE Commit(s) \/ Evict(s)
    <3>1. UNCHANGED <<loop, session, outcome>>
      BY <2>2 DEF Commit, Evict
    <3>. QED
      BY <3>1, SessionKept
  <2>3. CASE Release(s) \/ SessionLost(s)
    <3>1. UNCHANGED <<session, outcome>> /\ busy[s] = 0 /\ loop' = [loop EXCEPT ![s] = "consume"]
      BY <2>3 DEF Release, SessionLost, Idle
    <3>2. loop'[q] = loop[q] \/ (busy[q] = 0 /\ loop'[q] # "session")
      BY <1>0, <3>1 DEF KafkaTypeOK
    <3>. QED
      BY <3>1, <3>2, SessionKept
  <2>4. CASE KafkaConsume(s)
    <3>1. CASE q = s
      BY <2>4, <3>1, ConsumeSession
    <3>2. CASE q # s
      <4>1. /\ loop'[q] = loop[q] /\ from'[q] = from[q] /\ pos'[q] = pos[q] /\ busy'[q] = busy[q]
            /\ mark'[q] = mark[q] /\ tried' = tried /\ settled' = settled
        BY <1>0, <2>4, <3>2 DEF KafkaConsume, KafkaTypeOK
      <4>. QED
        BY <4>1, SessionKept
    <3>. QED
      BY <3>1, <3>2
  <2>5. CASE Take(s)
    <3>1. CASE q = s
      BY <2>5, <3>1, TakeSession
    <3>2. CASE q # s
      <4>1. /\ loop'[q] = loop[q] /\ from'[q] = from[q] /\ pos'[q] = pos[q] /\ busy'[q] = busy[q]
            /\ mark'[q] = mark[q] /\ tried' = tried /\ settled' = settled
        BY <1>0, <2>5, <3>2 DEF Take, KafkaTypeOK
      <4>. QED
        BY <4>1, SessionKept
    <3>. QED
      BY <3>1, <3>2
  <2>6. ASSUME NEW o, q # s PROVE mark' = Marked(s, o) => mark'[q] = mark[q]
    BY <1>0, <2>6 DEF Marked, KafkaTypeOK
  <2>7. ASSUME NEW ok \in BOOLEAN, HandlerReturns(s, ok) PROVE SessionInv(q)'
    <3>1. CASE q = s
      BY <2>7, <3>1, HandledSession
    <3>2. CASE q # s
      <4>1. /\ loop'[q] = loop[q] /\ from'[q] = from[q] /\ pos'[q] = pos[q] /\ busy'[q] = busy[q]
            /\ mark'[q] = mark[q]
            /\ tried \subseteq tried' /\ settled \subseteq settled'
        BY <1>0, <2>6, <2>7, <3>2 DEF HandlerReturns, KafkaTypeOK
      <4>. QED
        BY <4>1, SessionKept
    <3>. QED
      BY <3>1, <3>2
  <2>8. ASSUME NEW o \in Offsets, Ack(s, o) PROVE SessionInv(q)'
    <3>1. CASE q = s
      BY <2>8, <3>1, AckSession
    <3>2. CASE q # s
      <4>1. /\ loop'[q] = loop[q] /\ from'[q] = from[q] /\ pos'[q] = pos[q] /\ busy'[q] = busy[q]
            /\ mark'[q] = mark[q]
            /\ tried \subseteq tried' /\ settled \subseteq settled'
        BY <1>0, <2>6, <2>8, <3>2 DEF Ack, KafkaTypeOK
      <4>. QED
        BY <4>1, SessionKept
    <3>. QED
      BY <3>1, <3>2
  <2>. QED
    BY <1>3, <2>1, <2>2, <2>3, <2>4, <2>5, <2>7, <2>8 DEF Member
<1>. QED
  BY <1>1, <1>2, <1>3 DEF KafkaNext

(* Only what is in the partition is tried and marked, and both stay so.    *)
LEMMA OffsetsTried ==
  ASSUME KafkaIInv, KafkaNext \/ UNCHANGED kafkaVars
  PROVE  tried \subseteq tried' /\ settled \subseteq settled'
         /\ (tried \subseteq 1 .. Len(log) /\ settled \subseteq 1 .. Len(log))'
<1>0. KafkaTypeOK /\ tried \subseteq 1 .. Len(log) /\ settled \subseteq 1 .. Len(log)
      /\ Len(log) \in Nat /\ Len(log') \in Nat /\ Len(log) <= Len(log')
  BY KafkaCounts, LogGrows DEF KafkaIInv, GroupInv, Committed, OwnerStarted
<1>1. 1 .. Len(log) \subseteq 1 .. Len(log')
  BY <1>0
<1>2. CASE UNCHANGED outcome
  BY <1>0, <1>1, <1>2 DEF outcome
<1>3. ASSUME NEW s \in Subs, NEW ok \in BOOLEAN, HandlerReturns(s, ok)
      PROVE  /\ tried' = tried \cup {busy[s]} /\ settled' \in {settled, settled \cup {busy[s]}}
             /\ busy[s] \in 1 .. Len(log)
  <2>1. SessionInv(s) /\ from[s] \in Nat /\ pos[s] \in Nat /\ busy[s] \in Nat /\ busy[s] # 0
    BY <1>0, <1>3, KafkaCounts DEF KafkaIInv, HandlerReturns
  <2>2. pos[s] = busy[s] + 1 /\ pos[s] <= Len(log) + 1
    BY <2>1 DEF SessionInv
  <2>. QED
    BY <1>0, <1>3, <2>1, <2>2 DEF HandlerReturns
<1>4. ASSUME NEW s \in Subs, NEW o \in Offsets, Ack(s, o)
      PROVE  tried' = tried /\ settled' = settled \cup {o} /\ o \in 1 .. Len(log)
  <2>1. /\ SessionInv(s) /\ o \in from[s] .. pos[s] - 1 /\ o \in 1 .. MaxLog /\ MaxLog \in Nat
        /\ from[s] \in Nat /\ pos[s] \in Nat
    BY <1>0, <1>4, KafkaCounts DEF KafkaIInv, Ack, Given, Offsets
  <2>2. pos[s] <= Len(log) + 1
    BY <2>1 DEF SessionInv
  <2>. QED
    BY <1>0, <1>4, <2>1, <2>2 DEF Ack
<1>5. \/ UNCHANGED outcome
      \/ \E s \in Subs, ok \in BOOLEAN : HandlerReturns(s, ok)
      \/ \E s \in Subs, o \in Offsets : Ack(s, o)
  BY DEF KafkaNext, KafkaConnect, ProducerMade, ClientsReset, KafkaDisconnect, KafkaPublish, Member,
         KafkaSubscribe, KafkaUnsubscribe, KafkaConsume, ConsumeEnds, Take, Commit, Release, Evict,
         SessionLost, outcome, kafkaVars
<1>6. CASE \E s \in Subs, ok \in BOOLEAN : HandlerReturns(s, ok)
  <2>1. PICK s \in Subs : \E ok \in BOOLEAN : HandlerReturns(s, ok)
    BY <1>6
  <2>2. /\ tried' = tried \cup {busy[s]} /\ settled' \in {settled, settled \cup {busy[s]}}
        /\ busy[s] \in 1 .. Len(log)
    BY <1>3, <2>1
  <2>. QED
    BY <1>0, <1>1, <2>2
<1>7. CASE \E s \in Subs, o \in Offsets : Ack(s, o)
  <2>1. PICK o \in Offsets : tried' = tried /\ settled' = settled \cup {o} /\ o \in 1 .. Len(log)
    BY <1>4, <1>7
  <2>. QED
    BY <1>0, <1>1, <2>1
<1>. QED
  BY <1>2, <1>5, <1>6, <1>7

(* What was committed stays so while the group's part of the state does.   *)
LEMMA CommittedKept ==
  ASSUME KafkaIInv, KafkaNext \/ UNCHANGED kafkaVars, committed' = committed, base' = base
  PROVE  Committed'
<1>1. /\ Committed /\ KafkaTypeOK /\ Len(log) \in Nat /\ base \in Nat /\ committed \in Nat
      /\ committed <= Len(log) + 1
  BY KafkaCounts, CommittedInLog DEF KafkaIInv, GroupInv, Committed, OwnerStarted
<1>2. tried \subseteq tried' /\ settled \subseteq settled'
  BY OffsetsTried
<1>3. ASSUME committed # 0, NEW o \in base .. committed - 1 
      PROVE  (Decodable(o) => o \in tried \cup settled)'
  <2>1. base \in 1 .. committed
    BY <1>1, <1>3 DEF Committed
  <2>2. o \in 1 .. Len(log)
    BY <1>1, <1>3, <2>1
  <2>3. log'[o] = log[o]
    BY <1>1, <2>2, LogGrows
  <2>. QED
    BY <1>1, <1>2, <1>3, <2>3 DEF Committed, Decodable
<1>. QED
  BY <1>1, <1>2, <1>3 DEF Committed

(* The owner's marks are committed.                                        *)
LEMMA FlushSound ==
  ASSUME KafkaIInv, NEW s \in Subs, owner = s, Flush(s), UNCHANGED <<log, tried, settled>>
  PROVE  /\ Committed'
         /\ committed' # 0 => base' <= from[s] /\ from[s] <= committed'
<1>1. /\ SessionInv(s) /\ GroupInv /\ KafkaTypeOK
      /\ from[s] \in Nat /\ mark[s] \in Nat /\ base \in Nat /\ committed \in Nat
      /\ Past(s) \in Nat
  BY KafkaCounts DEF KafkaIInv
<1>2. from[s] # 0 /\ (committed # 0 => base <= from[s] /\ from[s] <= committed)
  BY <1>1 DEF GroupInv, Committed, OwnerStarted
<1>3. \A o : Decodable(o)' = Decodable(o)
  BY DEF Decodable
<1>4. CASE mark[s] = 0
  <2>1. committed' = committed /\ base' = base
    BY <1>4 DEF Flush
  <2>. QED
    BY <1>1, <1>2, <1>3, <2>1 DEF GroupInv, Committed, OwnerStarted
<1>5. CASE mark[s] # 0
  <2>1. committed' = mark[s] /\ base' = IF committed = 0 THEN from[s] ELSE base
    BY <1>5 DEF Flush
  <2>2. mark[s] - 1 \in settled /\ mark[s] - 1 \in from[s] .. pos[s] - 1
    BY <1>1, <1>5 DEF SessionInv
  <2>3. from[s] <= mark[s] /\ (mark[s] <= Past(s) \/ mark[s] - 1 = Past(s))
    BY <1>1, <2>2 DEF SessionInv, Past
  <2>4. base' <= from[s] /\ base' \in 1 .. mark[s]
    <3>1. committed # 0 => base \in 1 .. committed
      BY <1>1 DEF GroupInv, Committed, OwnerStarted
    <3>. QED
      BY <1>1, <1>2, <2>1, <2>3, <3>1
  <2>5. ASSUME NEW o \in base' .. mark[s] - 1 PROVE Decodable(o) => o \in tried \cup settled
    <3>1. \/ o \in from[s] .. Past(s) - 1 \/ o = mark[s] - 1
          \/ committed # 0 /\ o \in base .. committed - 1
      BY <1>1, <1>2, <2>1, <2>3, <2>4
    <3>. QED
      BY <1>1, <2>2, <3>1 DEF SessionInv, GroupInv, Committed, OwnerStarted
  <2>. QED
    BY <1>3, <2>1, <2>2, <2>3, <2>4, <2>5 DEF Committed
<1>. QED
  BY <1>4, <1>5

(* What the group has committed and where its owner started stay sound.    *)
LEMMA GroupStep ==
  ASSUME KafkaIInv, KafkaNext \/ UNCHANGED kafkaVars
  PROVE  GroupInv'
<1>0. KafkaTypeOK /\ GroupInv /\ OwnerStarted /\ Committed
  BY DEF KafkaIInv, GroupInv, Committed, OwnerStarted
<1>1. (tried \subseteq 1 .. Len(log) /\ settled \subseteq 1 .. Len(log))'
  BY OffsetsTried
<1> USE DEF links, group, session, outcome
<1>2. CASE UNCHANGED <<committed, base, from>> /\ owner' \in {owner, None}
  <2>1. Committed'
    BY <1>2, CommittedKept
  <2>2. OwnerStarted'
    BY <1>0, <1>2, SubsAssumption DEF OwnerStarted
  <2>. QED
    BY <1>1, <2>1, <2>2 DEF GroupInv, Committed, OwnerStarted
<1>3. ASSUME NEW s \in Subs, KafkaConsume(s) PROVE Committed' /\ OwnerStarted'
  <2>1. /\ committed' = committed /\ base' = base /\ owner' = s
        /\ from'[s] = StartOffset
    BY <1>0, <1>3 DEF KafkaConsume, KafkaTypeOK
  <2>2. Committed'
    BY <2>1, CommittedKept
  <2>3. committed \in Nat /\ base \in Nat /\ StartOffset # 0
        /\ (committed # 0 => base <= committed /\ StartOffset = committed)
    BY <1>0, KafkaCounts, CommittedInLog DEF Committed, StartOffset
  <2>4. OwnerStarted'
    BY <2>1, <2>3 DEF OwnerStarted
  <2>. QED
    BY <2>2, <2>4
<1>4. ASSUME NEW s \in Subs, Commit(s) \/ Release(s) PROVE Committed' /\ OwnerStarted'
  <2>1. owner = s /\ Flush(s) /\ UNCHANGED <<log, tried, settled, from>> /\ owner' \in {s, None}
    BY <1>4 DEF Commit, Release
  <2>2. Committed' /\ (committed' # 0 => base' <= from[s] /\ from[s] <= committed')
    BY <2>1, FlushSound
  <2>3. from[s] # 0
    BY <1>0, <2>1 DEF OwnerStarted
  <2>4. OwnerStarted'
    BY <2>1, <2>2, <2>3, SubsAssumption DEF OwnerStarted
  <2>. QED
    BY <2>2, <2>4
<1>5. \/ UNCHANGED <<committed, base, from>> /\ owner' \in {owner, None}
      \/ \E s \in Subs : KafkaConsume(s) \/ Commit(s) \/ Release(s)
  BY DEF KafkaNext, KafkaConnect, ProducerMade, ClientsReset, KafkaDisconnect, KafkaPublish, Member,
         KafkaSubscribe, KafkaUnsubscribe, ConsumeEnds, Take, HandlerReturns, Ack, Evict,
         SessionLost, kafkaVars
<1>. QED
  BY <1>1, <1>2, <1>3, <1>4, <1>5 DEF GroupInv, Committed, OwnerStarted

(* A client is opened and remembered, and closed and forgotten, in one; it *)
(* is forgotten without being closed only when Connect is through.         *)
LEMMA ClientsStep ==
  ASSUME KafkaTypeOK, EarlyClients, KafkaNext \/ UNCHANGED kafkaVars
  PROVE  EarlyClients'
<1> USE DEF EarlyClients, ClientsKnown, links
<1>1. CASE KafkaConnect \/ ProducerMade \/ ClientsReset
  BY <1>1 DEF KafkaConnect, ProducerMade, ClientsReset
<1>2. CASE KafkaDisconnect
  BY <1>2 DEF KafkaDisconnect
<1>3. CASE KafkaPublish
  BY <1>3 DEF KafkaPublish
<1>4. ASSUME NEW s \in Subs, KafkaSubscribe(s) PROVE EarlyClients'
  BY <1>4 DEF KafkaSubscribe, Early
<1>5. CASE UNCHANGED <<links, nilProducer>>
  BY <1>5
<1>. QED
  BY <1>1, <1>2, <1>3, <1>4, <1>5
  DEF KafkaNext, Member, KafkaUnsubscribe, KafkaConsume, ConsumeEnds, Take, HandlerReturns,
      Ack, Commit, Release, Evict, SessionLost, kafkaVars

LEMMA KafkaInitInv == KafkaInit => KafkaIInv
<1> SUFFICES ASSUME KafkaInit PROVE KafkaIInv
  OBVIOUS
<1> USE DEF KafkaInit
<1>1. /\ MaxLog \in Nat /\ MaxRebalances \in Nat /\ Len(log) = 0 /\ log \in Seq(Kinds)
  BY LogAssumption
<1>2. KafkaTypeOK
  <2>1. 0 \in Ends /\ 0 \in 0 .. MaxRebalances /\ Len(log) <= MaxLog
    BY <1>1 DEF Ends
  <2>. QED
    BY <1>1, <2>1 DEF KafkaTypeOK
<1>3. EarlyClients
  BY DEF EarlyClients, ClientsKnown
<1>4. GroupInv
  BY SubsAssumption DEF GroupInv, Committed, OwnerStarted
<1>5. ASSUME NEW s \in Subs PROVE SessionInv(s)
  <2>1. Past(s) = 0 /\ from[s] = 0 /\ pos[s] = 0 /\ mark[s] = 0 /\ busy[s] = 0
        /\ loop[s] = "none"
    BY DEF Past
  <2>2. 0 .. 0 - 1 = {}
    OBVIOUS
  <2>. QED
    BY <1>1, <2>1, <2>2 DEF SessionInv
<1>. QED
  BY <1>2, <1>3, <1>4, <1>5 DEF KafkaIInv

LEMMA KafkaStep == KafkaIInv /\ [KafkaNext]_kafkaVars => KafkaIInv'
<1> SUFFICES ASSUME KafkaIInv, KafkaNext \/ UNCHANGED kafkaVars PROVE KafkaIInv'
  OBVIOUS
<1>1. KafkaTypeOK'
  BY KafkaTypeStep
<1>2. EarlyClients'
  BY ClientsStep DEF KafkaIInv
<1>3. GroupInv' /\ \A s \in Subs : SessionInv(s)'
  BY GroupStep, SessionStep
<1>. QED
  BY <1>1, <1>2, <1>3 DEF KafkaIInv

(* Every client that is open is known to Disconnect, whatever calls fail   *)
(* and in whatever order they come, unless it was opened before Connect    *)
(* was through.                                                            *)
THEOREM ClientsFound == KafkaSpec => []KafkaInv
<1>1. KafkaIInv => KafkaInv
  BY DEF KafkaIInv, EarlyClients, KafkaInv
<1>. QED
  BY KafkaInitInv, KafkaStep, <1>1, PTL DEF KafkaSpec

(* The committed offset passes no message that decodes unless a handler    *)
(* has returned from it or the application has acknowledged it, through    *)
(* rebalances, evictions and acknowledgements in any order and from inside *)
(* the handlers.                                                           *)
THEOREM CommitsFollowTries == KafkaSpec => []CommitsWhatWasTried
<1>1. KafkaIInv => CommitsWhatWasTried
  BY DEF KafkaIInv, GroupInv, Committed, OwnerStarted, CommitsWhatWasTried
<1>. QED
  BY KafkaInitInv, KafkaStep, <1>1, PTL DEF KafkaSpec
=============================================================================
