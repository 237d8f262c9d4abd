----------------------------- MODULE PubSubProofs -----------------------------
(***************************************************************************)
(* Proofs about the managers: what Release and Subscribe promise, which    *)
(* client Publish uses after a reload, and that a topic has one publisher, *)
(* for any names, topics, goroutines and brokers.                          *)
(***************************************************************************)
EXTENDS PubSub, TLAPS

(* The phases of each role; only the default publisher publishes.          *)
RolePhases ==
  /\ role = "manager" =>
       phase \in {"new", "probed", "ready", "release", "released", "failed"}
  /\ role = "default" => phase \in {"new", "ready", "disconnected", "failed", "exited"}
  /\ role = "subscriber" =>
       phase \in {"new", "ready", "subscribe", "subscribed", "run", "returned", "failed",
                 "exited"}
  /\ role # "default" => held[Default] = 0 /\ \A w \in Workers : worker[w] = "idle"

(* NewManager goes through the names one by one, and so does Release: what *)
(* is promised of all names holds of those whose turn has come.            *)
ManagerSteps ==
  role = "manager" =>
    /\ phase \in {"new", "probed"} => \A n \in Names \ todo : held[n] # 0
    /\ phase \in {"ready", "release", "released"} => \A n \in Names : held[n] # 0
    /\ phase = "release" => \A n \in Names \ todo : held[n] \notin open
    /\ phase = "released" => \A n \in Names : held[n] \notin open

(* The client of the default publisher is connected when it is in use, and *)
(* not connected between the two halves of a reload and after one failed.  *)
DefaultSteps ==
  role = "default" =>
    /\ phase = "new" => held[Default] = 0
    /\ phase = "ready" => held[Default] \in open
    /\ phase \in {"disconnected", "failed"} => held[Default] \notin open

SubscribeSteps ==
  /\ phase = "subscribe" => \A n \in Names \ todo : registered[n] = Handled
  /\ phase \in {"subscribed", "run", "returned"} => \A n \in Names : registered[n] = Handled

(* The inductive invariant.                                                *)
PubSubInv ==
  /\ TypeOK
  /\ RolePhases
  /\ ManagerSteps /\ DefaultSteps /\ SubscribeSteps
  /\ OnePublisher

-----------------------------------------------------------------------------
LEMMA InitInv == Init => PubSubInv
<1> SUFFICES ASSUME Init PROVE PubSubInv
  OBVIOUS
<1>1. \A w \in Workers : uses[w] \in (0 .. made) \X Topics
  BY TopicsAssumption DEF Init
<1>2. uses \in [Workers -> (0 .. made) \X Topics]
  BY <1>1 DEF Init
<1>3. publishers \in [Brokers -> [Topics -> Nat]] /\ OnePublisher
  BY DEF Init, OnePublisher
<1>4. made \in 0 .. MaxBrokers /\ open \subseteq 1 .. made /\ held \in [Slots -> 0 .. made]
  BY BoundAssumption DEF Init
<1>5. TypeOK
  BY <1>2, <1>3, <1>4 DEF Init, TypeOK, Phases
<1>6. ManagerSteps /\ DefaultSteps /\ SubscribeSteps
  BY DEF Init, ManagerSteps, DefaultSteps, SubscribeSteps, Slots
<1>7. RolePhases
  BY DEF Init, RolePhases, Slots
<1> QED BY <1>3, <1>5, <1>6, <1>7 DEF PubSubInv

(* What a dialled broker changes: everything that was a broker remains one.*)
LEMMA DialTyped ==
  ASSUME TypeOK, Dialled
  PROVE  /\ made \in Nat /\ made' = made + 1 /\ made' \in 0 .. MaxBrokers
         /\ open' \subseteq 1 .. made' /\ made + 1 \notin open
         /\ held \in [Slots -> 0 .. made'] /\ uses \in [Workers -> (0 .. made') \X Topics]
<1>1. made \in Nat /\ made' = made + 1 /\ made' \in 0 .. MaxBrokers
  BY BoundAssumption DEF TypeOK, Dialled
<1>2. 0 .. made \subseteq 0 .. made'
  BY <1>1
<1>3. open' \subseteq 1 .. made' /\ made + 1 \notin open
  BY <1>1 DEF TypeOK, Dialled
<1>4. held \in [Slots -> 0 .. made']
  BY <1>2 DEF TypeOK
<1>5. uses \in [Workers -> (0 .. made') \X Topics]
  BY <1>2 DEF TypeOK
<1> QED BY <1>1, <1>3, <1>4, <1>5

-----------------------------------------------------------------------------
(* The actions of the managers.                                            *)

LEMMA ProbeKeeps ==
  ASSUME PubSubInv, Probe
  PROVE  PubSubInv'
<1> USE DEF Probe, PubSubInv
<1>0. Default \in Slots
  BY DEF Slots
<1>1. TypeOK'
  <2>1. CASE Refused
    BY <2>1 DEF Refused, TypeOK, Phases, publish, serve
  <2>2. CASE Dialled
    BY <2>2, DialTyped DEF TypeOK, Phases, publish, serve
  <2> QED BY <2>1, <2>2 DEF Refused
<1>2. RolePhases' /\ SubscribeSteps' /\ DefaultSteps'
  BY <1>0 DEF RolePhases, SubscribeSteps, DefaultSteps, TypeOK, publish, serve
<1>3. ManagerSteps'
  BY DEF ManagerSteps
<1>4. OnePublisher'
  BY DEF OnePublisher, publish
<1> QED BY <1>1, <1>2, <1>3, <1>4

LEMMA NewClientKeeps ==
  ASSUME PubSubInv, NEW n \in Names, NewClient(n)
  PROVE  PubSubInv'
<1> USE DEF NewClient, Turn, PubSubInv
<1>0. n \in Slots /\ Default \in Slots /\ n # Default
  BY NamesAssumption DEF Slots
<1>1. TypeOK'
  <2>1. CASE Refused
    BY <2>1, DialTyped DEF Refused, TypeOK, Phases, publish, serve
  <2>2. CASE Dialled
    <3>1. held' \in [Slots -> 0 .. made']
      BY <2>2, <1>0, DialTyped DEF Refused
    <3> QED BY <3>1, <2>2, DialTyped DEF Refused, TypeOK, Phases, publish, serve
  <2> QED BY <2>1, <2>2
<1>2. RolePhases' /\ SubscribeSteps' /\ DefaultSteps'
  BY <1>0 DEF RolePhases, SubscribeSteps, DefaultSteps, TypeOK, publish, serve
<1>3. ManagerSteps'
  <2>1. CASE phase' = "failed"
    BY <2>1 DEF ManagerSteps
  <2>2. CASE Dialled /\ phase' = "new" /\ held' = [held EXCEPT ![n] = made + 1]
    <3>1. made + 1 # 0
      BY <2>2, DialTyped
    <3> QED BY <2>2, <3>1, <1>0 DEF ManagerSteps, TypeOK
  <2> QED BY <2>1, <2>2
<1>4. OnePublisher'
  BY DEF OnePublisher, publish
<1> QED BY <1>1, <1>2, <1>3, <1>4

(* The steps that move a phase and touch no broker.                        *)
LEMMA PhaseKeeps ==
  ASSUME PubSubInv,
         NewManager \/ Release \/ Released \/ Subscribe \/ Subscribed \/ Run \/ Signal \/ Exit
  PROVE  PubSubInv'
<1> USE DEF NewManager, Release, Released, Subscribe, Subscribed, Run, Signal, Exit, PubSubInv
<1>1. TypeOK'
  BY DEF TypeOK, Phases, clients, publish, serve
<1>2. RolePhases'
  BY DEF RolePhases, clients, publish, TypeOK
<1>3. ManagerSteps'
  BY DEF ManagerSteps, RolePhases, clients
<1>4. DefaultSteps'
  BY DEF DefaultSteps, RolePhases, clients
<1>5. SubscribeSteps'
  BY DEF SubscribeSteps, serve
<1>6. OnePublisher'
  BY DEF OnePublisher, publish
<1> QED BY <1>1, <1>2, <1>3, <1>4, <1>5, <1>6

LEMMA DisconnectKeeps ==
  ASSUME PubSubInv, NEW n \in Names, Disconnect(n)
  PROVE  PubSubInv'
<1> USE DEF Disconnect, PubSubInv
<1>0. Default \in Slots
  BY DEF Slots
<1>1. TypeOK'
  BY DEF TypeOK, Phases, publish, serve
<1>2. RolePhases' /\ SubscribeSteps' /\ DefaultSteps'
  BY <1>0 DEF RolePhases, SubscribeSteps, DefaultSteps, TypeOK, publish, serve
<1>3. ManagerSteps'
  BY DEF ManagerSteps
<1>4. OnePublisher'
  BY DEF OnePublisher, publish
<1> QED BY <1>1, <1>2, <1>3, <1>4

-----------------------------------------------------------------------------
(* The default client.                                                     *)

LEMMA DefaultKeeps ==
  ASSUME PubSubInv, InitDefault \/ ReloadDefault \/ Reconnect
  PROVE  PubSubInv'
<1> USE DEF InitDefault, ReloadDefault, Reconnect, PubSubInv
<1>0. Default \in Slots
  BY DEF Slots
<1>1. TypeOK'
  <2>1. CASE ReloadDefault
    BY <2>1 DEF TypeOK, Phases, publish, serve
  <2>2. CASE (InitDefault \/ Reconnect) /\ Refused
    BY <2>2 DEF Refused, Dialled, TypeOK, Phases, publish, serve
  <2>3. CASE (InitDefault \/ Reconnect) /\ Dialled
    <3>1. held' \in [Slots -> 0 .. made']
      BY <2>3, <1>0, DialTyped DEF Refused
    <3> QED BY <3>1, <2>3, DialTyped DEF Refused, TypeOK, Phases, publish, serve
  <2> QED BY <2>1, <2>2, <2>3
<1>2. RolePhases' /\ SubscribeSteps' /\ ManagerSteps'
  BY DEF RolePhases, SubscribeSteps, ManagerSteps, publish, serve
<1>3. DefaultSteps'
  <2>1. CASE ReloadDefault
    BY <2>1 DEF DefaultSteps
  <2>2. CASE (InitDefault \/ Reconnect) /\ Refused
    BY <2>2 DEF Refused, Dialled, DefaultSteps, TypeOK
  <2>3. CASE (InitDefault \/ Reconnect) /\ Dialled
    <3>1. held[Default] # made + 1
      BY <2>3, <1>0, DialTyped DEF TypeOK
    <3> QED BY <2>3, <3>1, <1>0, DialTyped DEF Dialled, Refused, DefaultSteps, TypeOK
  <2> QED BY <2>1, <2>2, <2>3
<1>4. OnePublisher'
  BY DEF OnePublisher, publish
<1> QED BY <1>1, <1>2, <1>3, <1>4

(* Publish of the default client: only its own variables move.             *)
LEMMA WorkerKeeps ==
  ASSUME PubSubInv, NEW w \in Workers, Worker(w)
  PROVE  PubSubInv'
<1> USE DEF PubSubInv
<1>0. role = "default"
  <2>1. held[Default] # 0 \/ worker[w] # "idle"
    BY DEF Worker, Publish, Lookup, LookupRaces, Lock, Create, Return, At
  <2> QED BY <2>1 DEF RolePhases
<1>1. CASE LookupRaces(w)
  <2>1. TypeOK'
    BY <1>1 DEF LookupRaces, TypeOK, Phases, clients, publish, serve
  <2>2. RolePhases' /\ ManagerSteps' /\ DefaultSteps' /\ SubscribeSteps'
    BY <1>1, <1>0 DEF LookupRaces, RolePhases, ManagerSteps, DefaultSteps, SubscribeSteps
  <2>3. OnePublisher'
    BY <1>1 DEF LookupRaces, OnePublisher, publish
  <2> QED BY <2>1, <2>2, <2>3
<1>2. CASE ~LookupRaces(w)
  <2>1. Elsewhere
    BY <1>2 DEF Worker, Publish, Lookup, Lock, Create, Return
  <2>2. RolePhases' /\ ManagerSteps' /\ DefaultSteps' /\ SubscribeSteps'
    BY <1>0, <2>1 DEF Elsewhere, RolePhases, ManagerSteps, DefaultSteps, SubscribeSteps,
                      clients, serve
  <2>3. publishers' \in [Brokers -> [Topics -> Nat]] /\ OnePublisher'
    <3>1. CASE Create(w)
      <4>1. publishers' = [publishers EXCEPT ![Broker(w)][Topic(w)] = IF @ = 0 THEN 1 ELSE @]
        BY <3>1 DEF Create
      <4>2. publishers \in [Brokers -> [Topics -> Nat]] /\ OnePublisher
        BY DEF TypeOK
      <4> DEFINE b == Broker(w)
                 t == Topic(w)
                 one == [publishers[b] EXCEPT ![t] = IF @ = 0 THEN 1 ELSE @]
      <4>3. publishers' = [publishers EXCEPT ![b] = one]
        BY <4>1
      <4>4. b \in Brokers => one \in [Topics -> Nat] /\ \A x \in Topics : one[x] <= 1
        <5> SUFFICES ASSUME b \in Brokers
                     PROVE  one \in [Topics -> Nat] /\ \A x \in Topics : one[x] <= 1
          OBVIOUS
        <5> DEFINE table == publishers[b]
        <5>1. table \in [Topics -> Nat] /\ \A x \in Topics : table[x] <= 1
          BY <4>2 DEF OnePublisher
        <5>0. t \in Topics
          BY DEF Topic, TypeOK
        <5> HIDE DEF table, b, t
        <5>2. one = [table EXCEPT ![t] = IF table[t] = 0 THEN 1 ELSE table[t]]
          BY DEF table
        <5> HIDE DEF one
        <5>3. one[t] = 1
          BY <5>0, <5>1, <5>2
        <5>4. \A x \in Topics : one[x] = IF x = t THEN 1 ELSE table[x]
          BY <5>0, <5>1, <5>2, <5>3
        <5>5. \A x \in Topics : one[x] \in Nat /\ one[x] <= 1
          BY <5>1, <5>4
        <5>6. one = [x \in Topics |-> one[x]]
          BY <5>1, <5>2
        <5> QED BY <5>5, <5>6
      <4> HIDE DEF one, b, t
      <4>5. \A c \in Brokers : publishers'[c] = IF c = b THEN one ELSE publishers[c]
        BY <4>2, <4>3
      <4>6. publishers' \in [Brokers -> [Topics -> Nat]]
        BY <4>2, <4>3, <4>4, <4>5
      <4>7. OnePublisher'
        BY <4>2, <4>4, <4>5 DEF OnePublisher
      <4> QED BY <4>6, <4>7
    <3>2. CASE ~Create(w)
      <4>1. publishers' = publishers
        BY <1>2, <3>2 DEF Worker, Publish, Lookup, Lock, Return
      <4> QED BY <4>1 DEF TypeOK, OnePublisher
    <3> QED BY <3>1, <3>2
  <2>4. uses' \in [Workers -> (0 .. made) \X Topics]
    <3>1. ASSUME NEW t \in Topics, Publish(w, t) PROVE uses' \in [Workers -> (0 .. made) \X Topics]
      <4>1. held[Default] \in 0 .. made
        BY DEF TypeOK, Slots
      <4> QED BY <3>1, <4>1 DEF Publish, TypeOK
    <3>2. CASE uses' = uses
      BY <3>2 DEF TypeOK
    <3> QED BY <1>2, <3>1, <3>2 DEF Worker, Lookup, Lock, Create, Return
  <2>5. worker' \in [Workers -> {"idle", "lookup", "lock", "create", "publish"}]
    BY <1>2 DEF Worker, Publish, Lookup, Lock, Create, Return, Move, TypeOK
  <2>6. lock' \subseteq Workers
    BY <1>2 DEF Worker, Publish, Lookup, Lock, Create, Return, TypeOK
  <2>7. TypeOK'
    BY <2>1, <2>3, <2>4, <2>5, <2>6 DEF Elsewhere, TypeOK, clients, serve
  <2> QED BY <2>2, <2>3, <2>7
<1> QED BY <1>1, <1>2

-----------------------------------------------------------------------------
(* The servers of a subscription manager.                                  *)

LEMMA ServerKeeps ==
  ASSUME PubSubInv, NEW n \in Names, Server(n)
  PROVE  PubSubInv'
<1> USE DEF PubSubInv
<1>0. role = "subscriber" /\ role' = role
  BY DEF Server, Register, Start, Stop, RolePhases, TypeOK
<1>1. ManagerSteps' /\ DefaultSteps'
  BY <1>0 DEF ManagerSteps, DefaultSteps
<1>2. UNCHANGED <<held, made, publish>>
  BY DEF Server, Register, Start, Stop, clients
<1>3. OnePublisher'
  BY <1>2 DEF OnePublisher, publish
<1>4. RolePhases'
  BY <1>0, <1>2 DEF Server, Register, Start, Stop, RolePhases, publish
<1>5. CASE Register(n)
  <2>1. PICK ts \in SUBSET Handled :
          /\ registered' = [registered EXCEPT ![n] = ts]
          /\ IF ts = Handled THEN todo' = todo \ {n} /\ phase' = phase
                            ELSE todo' = todo /\ phase' = "failed"
    BY <1>5 DEF Register
  <2>2. TypeOK'
    BY <1>2, <1>5, <2>1 DEF Register, TypeOK, Phases, clients, publish
  <2>3. SubscribeSteps'
    BY <1>5, <2>1 DEF Register, SubscribeSteps, TypeOK
  <2> QED BY <1>1, <1>3, <1>4, <2>2, <2>3
<1>6. CASE Start(n) \/ Stop(n)
  <2>1. TypeOK'
    BY <1>2, <1>6 DEF Start, Stop, TypeOK, clients, publish
  <2>2. SubscribeSteps'
    BY <1>6 DEF Start, Stop, SubscribeSteps
  <2> QED BY <1>1, <1>3, <1>4, <2>1, <2>2
<1> QED BY <1>5, <1>6 DEF Server

-----------------------------------------------------------------------------
(* The theorems.                                                           *)

LEMMA InvKept == PubSubInv /\ [Next]_vars => PubSubInv'
<1> SUFFICES ASSUME PubSubInv, [Next]_vars PROVE PubSubInv'
  OBVIOUS
<1>1. CASE UNCHANGED vars
  BY <1>1 DEF vars, clients, publish, serve, PubSubInv, TypeOK, RolePhases, ManagerSteps,
              DefaultSteps, SubscribeSteps, OnePublisher
<1> QED BY <1>1, ProbeKeeps, NewClientKeeps, PhaseKeeps, DisconnectKeeps, DefaultKeeps,
           WorkerKeeps, ServerKeeps DEF Next

LEMMA PubSubSafe == Spec => []PubSubInv
  BY InitInv, InvKept, PTL DEF Spec

(* A Release that answered nil has closed every name's connection, and a   *)
(* Subscribe that did has registered each handled topic everywhere,        *)
(* whatever failed before, for any brokers and topics.                     *)
THEOREM ManagersKeepPromises == Spec => []ManagerInv
<1>1. PubSubInv => ManagerInv
  BY DEF PubSubInv, ManagerSteps, SubscribeSteps, ManagerInv, ManagerSound, SubscribesAll
<1> QED BY PubSubSafe, <1>1, PTL

(* The client that Publish uses is connected exactly when the last reload, *)
(* if any, has succeeded.                                                  *)
THEOREM DefaultClientServes == Spec => []DefaultServed
<1>1. PubSubInv => DefaultServed
  BY DEF PubSubInv, RolePhases, DefaultSteps, DefaultServed
<1> QED BY PubSubSafe, <1>1, PTL

(* However many goroutines publish at once, in any order with reloads, a   *)
(* client makes the publisher of a topic once.                             *)
THEOREM PublisherMadeOnce == Spec => []OnePublisher
<1>1. PubSubInv => OnePublisher
  BY DEF PubSubInv
<1> QED BY PubSubSafe, <1>1, PTL
=============================================================================
