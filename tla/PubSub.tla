-------------------------------- MODULE PubSub --------------------------------
(***************************************************************************)
(* The managers and default clients of pubsub/pub and pubsub/sub: which    *)
(* brokers they connect and release, the table of publishers that Publish  *)
(* reads without its lock, ReloadDefault under publishers, and the servers *)
(* of a subscription manager that stop on a signal.  A process plays one   *)
(* of three roles.                                                         *)
(***************************************************************************)
EXTENDS Integers, FiniteSets

(* A definition X_Y just before X is a variant of X with a mistake in it,  *)
(* used by no specification: README, "Mutants".                            *)

CONSTANTS
  Names,       \* the configured brokers of a manager
  Default,     \* the default client's broker
  Workers,     \* goroutines that publish with the default client
  Topics,      \* topics, of publishing and of subscriptions
  Handled,     \* the topics that have a handler
  MaxBrokers,  \* bound: brokers made
  MaxReloads   \* bound: attempts to reload

ASSUME NamesAssumption == Default \notin Names /\ IsFiniteSet(Names)
ASSUME TopicsAssumption == Topics # {} /\ Handled \subseteq Topics
ASSUME BoundAssumption == MaxBrokers \in Nat /\ MaxReloads \in Nat

Slots   == Names \cup {Default}
Brokers == 1 .. MaxBrokers

VARIABLES
  role,       \* "manager", "default", "subscriber"
  phase,      \* of NewManager, Release, ReloadDefault, Run
  todo,       \* the names whose turn has not come
  made,       \* brokers made
  open,       \* brokers that are connected
  held,       \* per name: the broker of its client or server, or 0
  worker,     \* per goroutine: where it is
  uses,       \* per goroutine: the broker of the client it publishes with, its topic
  lock,       \* goroutines that hold wrPublishers of their client
  publishers, \* per broker of a client and topic: how often its publisher was made
  registered, \* per name: topics registered with its server
  server,     \* per name: where its goroutine is
  signal      \* names whose channel holds the signal

clients == <<made, open, held>>
publish == <<worker, uses, lock, publishers>>
serve   == <<registered, server, signal>>
vars    == <<role, phase, todo, clients, publish, serve>>

Phases == {"new", "probed", "build", "ready", "release", "released", "failed",
           "reload", "disconnected", "subscribe", "subscribed", "run", "returned",
           "exited"}

TypeOK ==
  /\ role \in {"manager", "default", "subscriber"}
  /\ phase \in Phases
  /\ todo \subseteq Names
  /\ made \in 0 .. MaxBrokers /\ open \subseteq 1 .. made
  /\ held \in [Slots -> 0 .. made]
  /\ worker \in [Workers -> {"idle", "lookup", "lock", "create",
                         "publish"}]
  /\ uses \in [Workers -> (0 .. made) \X Topics]
  /\ lock \subseteq Workers
  /\ publishers \in [Brokers -> [Topics -> Nat]]
  /\ registered \in [Names -> SUBSET Handled]
  /\ server \in [Names -> {"none", "starting", "waiting", "late", "stopped",
                        "failed"}]
  /\ signal \subseteq Names

Init ==
  /\ role \in {"manager", "default", "subscriber"}
  /\ phase = "new" /\ todo = Names
  /\ made = 0 /\ open = {} /\ held = [n \in Slots |-> 0]
  /\ worker = [w \in Workers |-> "idle"]
  /\ uses \in [Workers -> {0} \X {CHOOSE t \in Topics : TRUE}]
  /\ lock = {} /\ publishers = [b \in Brokers |-> [t \in Topics |-> 0]]
  /\ registered = [n \in Names |-> {}]
  /\ server = [n \in Names |-> "none"] /\ signal = {}

-----------------------------------------------------------------------------
(* zbroker.New, Init and Connect, then cli.Init or srv.Init: the type is   *)
(* unknown or the connection refused; connected, and left so when the next *)
(* step fails; or usable.                                                  *)
Refused == UNCHANGED <<made, open>>
Dialled == made < MaxBrokers /\ made' = made + 1 /\ open' = open \cup {made + 1}

(* One round of the loop of zpub.NewManager: a broker b for a client that  *)
(* is dropped, then newC with a broker of its own.                         *)
Probe ==
  /\ role = "manager" /\ phase = "new" /\ todo # {}
  /\ \/ Refused /\ phase' = "failed"
     \/ Dialled /\ phase' \in {"probed", "failed"}
  /\ UNCHANGED <<role, todo, held, publish, serve>>

Turn(n) ==
  /\ n \in todo
  /\ todo' = todo \ {n}
  /\ \/ Refused /\ phase' = "failed" /\ UNCHANGED held
     \/ Dialled /\ phase' = "failed" /\ UNCHANGED held
     \/ Dialled /\ phase' = "new" /\ held' = [held EXCEPT ![n] = made + 1]

(* newC for name n; newS of the subscription manager takes the server made *)
(* of the one broker.                                                      *)
NewClient(n) ==
  /\ \/ role = "manager" /\ phase = "probed"
     \/ role = "subscriber" /\ phase = "new"
  /\ Turn(n)
  /\ UNCHANGED <<role, publish, serve>>

NewManager ==
  /\ role \in {"manager", "subscriber"} /\ phase = "new" /\ todo = {}
  /\ phase' = "ready"
  /\ UNCHANGED <<role, todo, clients, publish, serve>>

(* Release: one broker after the other, until one fails to disconnect; it  *)
(* can be called again.                                                    *)
Release ==
  /\ role = "manager" /\ phase = "ready"
  /\ phase' = "release" /\ todo' = Names
  /\ UNCHANGED <<role, clients, publish, serve>>

Disconnect_GoesOn(n) ==
  /\ role = "manager" /\ phase = "release" /\ n \in todo
  /\ todo' = todo \ {n}
  /\ phase' = "release"
  /\ open' \in {open, open \ {held[n]}}
  /\ UNCHANGED <<role, made, held, publish, serve>>
Disconnect(n) ==
  /\ role = "manager" /\ phase = "release" /\ n \in todo
  /\ \/ open' = open \ {held[n]} /\ todo' = todo \ {n} /\ phase' = "release"
     \/ open' = open /\ todo' = todo /\ phase' = "ready"
  /\ UNCHANGED <<role, made, held, publish, serve>>

Released ==
  /\ role = "manager" /\ phase = "release" /\ todo = {}
  /\ phase' = "released"
  /\ UNCHANGED <<role, todo, clients, publish, serve>>

-----------------------------------------------------------------------------
(* InitDefault, once: a failure panics.                                    *)
InitDefault ==
  /\ role = "default" /\ phase = "new"
  /\ \/ Refused /\ phase' = "exited" /\ UNCHANGED held
     \/ Dialled /\ phase' = "ready" /\ held' = [held EXCEPT ![Default] = made + 1]
  /\ UNCHANGED <<role, todo, publish, serve>>

(* ReloadDefault disconnects, connects anew, and then replaces the client; *)
(* an error of the first changes nothing, one of the second leaves the old *)
(* client, disconnected.                                                   *)
ReloadDefault ==
  /\ role = "default" /\ phase \in {"ready", "failed"}
  /\ open' = open \ {held[Default]} /\ phase' = "disconnected"
  /\ UNCHANGED <<role, todo, made, held, publish, serve>>

Reconnect_KeepsClient ==
  /\ role = "default" /\ phase = "disconnected"
  /\ made <= MaxReloads
  /\ \/ Refused /\ phase' = "failed"
     \/ Dialled /\ phase' = "ready"
  /\ UNCHANGED <<role, todo, held, publish, serve>>
Reconnect ==
  /\ role = "default" /\ phase = "disconnected"
  /\ made <= MaxReloads
  /\ \/ Refused /\ phase' = "failed" /\ UNCHANGED held
     \/ Dialled /\ phase' = "failed" /\ UNCHANGED held
     \/ Dialled /\ phase' = "ready" /\ held' = [held EXCEPT ![Default] = made + 1]
  /\ UNCHANGED <<role, todo, publish, serve>>

(* Publish of the default client: the table is read without the lock,      *)
(* again with it, and the first message of a topic goes out under it.      *)
Broker(w) == uses[w][1]
Topic(w)  == uses[w][2]
At(w, place)   == worker[w] = place /\ phase # "exited"
Move(w, place) == worker' = [worker EXCEPT ![w] = place]
Elsewhere == UNCHANGED <<role, phase, todo, clients, serve>>

Publish(w, t) ==
  /\ At(w, "idle")
  /\ held[Default] # 0
  /\ uses' = [uses EXCEPT ![w] = <<held[Default], t>>]
  /\ Move(w, "lookup")
  /\ Elsewhere /\ UNCHANGED <<lock, publishers>>

Lookup(w) ==
  /\ At(w, "lookup")
  /\ Move(w, IF publishers[Broker(w)][Topic(w)] # 0 THEN "publish" ELSE "lock")
  /\ Elsewhere /\ UNCHANGED <<uses, lock, publishers>>

(* Reading a map while another goroutine writes to it may end the process. *)
LookupRaces(w) ==
  /\ At(w, "lookup")
  /\ \E v \in Workers : worker[v] = "create" /\ Broker(v) = Broker(w)
  /\ phase' = "exited"
  /\ UNCHANGED <<role, todo, clients, publish, serve>>

Lock(w) ==
  /\ At(w, "lock")
  /\ \A v \in lock : Broker(v) # Broker(w)
  /\ lock' = lock \cup {w}
  /\ Move(w, "create")
  /\ Elsewhere /\ UNCHANGED <<uses, publishers>>

Create_WithoutSecondLook(w) ==
  /\ At(w, "create")
  /\ publishers' = [publishers EXCEPT ![Broker(w)][Topic(w)] = @ + 1]
  /\ Move(w, "publish")
  /\ Elsewhere /\ UNCHANGED <<uses, lock>>
Create(w) ==
  /\ At(w, "create")
  /\ publishers' = [publishers EXCEPT ![Broker(w)][Topic(w)] = IF @ = 0 THEN 1 ELSE @]
  /\ Move(w, "publish")
  /\ Elsewhere /\ UNCHANGED <<uses, lock>>

(* The broker has answered, or failed; Publish unlocks what it has locked. *)
Return(w) ==
  /\ At(w, "publish")
  /\ lock' = lock \ {w}
  /\ Move(w, "idle")
  /\ Elsewhere /\ UNCHANGED <<uses, publishers>>

-----------------------------------------------------------------------------
(* Subscribe of the subscription manager registers, server by server, the  *)
(* topics that have a handler, until one cannot be registered.             *)
Subscribe ==
  /\ role = "subscriber" /\ phase = "ready"
  /\ phase' = "subscribe" /\ todo' = Names
  /\ UNCHANGED <<role, clients, publish, serve>>

Register(n) ==
  /\ phase = "subscribe" /\ n \in todo
  /\ \E ts \in SUBSET Handled :
       /\ registered' = [registered EXCEPT ![n] = ts]
       /\ IF ts = Handled THEN todo' = todo \ {n} /\ phase' = phase
                         ELSE todo' = todo /\ phase' = "failed"
  /\ UNCHANGED <<role, clients, publish, server, signal>>

Subscribed ==
  /\ phase = "subscribe" /\ todo = {}
  /\ phase' = "subscribed"
  /\ UNCHANGED <<role, todo, clients, publish, serve>>

(* Run: a goroutine per server, and the wait for a signal.  Every server   *)
(* that has started waits with a channel of its own; one that starts after *)
(* the signal waits for another.                                           *)
Run ==
  /\ phase = "subscribed"
  /\ phase' = "run"
  /\ server' = [n \in Names |-> "starting"]
  /\ UNCHANGED <<role, todo, clients, publish, registered, signal>>

Start(n) ==
  /\ phase \in {"run", "returned"} /\ server[n] = "starting"
  /\ \E now \in {IF phase = "run" THEN "waiting" ELSE "late", "failed"} :
       server' = [server EXCEPT ![n] = now]
  /\ UNCHANGED <<role, phase, todo, clients, publish, registered, signal>>

(* The process is told to end: each channel that is registered gets it.    *)
Signal_OneChannel ==
  /\ phase = "run"
  /\ \E n \in Names : signal' = {n} \cap {k \in Names : server[k] = "waiting"}
  /\ phase' = "returned"
  /\ UNCHANGED <<role, todo, clients, publish, registered, server>>
Signal ==
  /\ phase = "run"
  /\ signal' = {n \in Names : server[n] = "waiting"}
  /\ phase' = "returned"
  /\ UNCHANGED <<role, todo, clients, publish, registered, server>>

(* srv.Stop, which disconnects the broker, or fails.                       *)
Stop(n) ==
  /\ phase \in {"run", "returned"} /\ n \in signal /\ server[n] = "waiting"
  /\ \/ server' = [server EXCEPT ![n] = "stopped"] /\ open' = open \ {held[n]}
     \/ server' = [server EXCEPT ![n] = "failed"] /\ open' = open
  /\ UNCHANGED <<role, phase, todo, made, held, publish, registered, signal>>

(* The application may end as soon as Run has returned.                    *)
Exit ==
  /\ phase = "returned"
  /\ phase' = "exited"
  /\ UNCHANGED <<role, todo, clients, publish, serve>>

Worker(w) == \/ \E t \in Topics : Publish(w, t)
             \/ Lookup(w) \/ LookupRaces(w) \/ Lock(w) \/ Create(w) \/ Return(w)

Server(n) == Register(n) \/ Start(n) \/ Stop(n)

Next ==
  \/ Probe \/ NewManager \/ Release \/ Released
  \/ \E n \in Names : NewClient(n) \/ Disconnect(n) \/ Server(n)
  \/ InitDefault \/ ReloadDefault \/ Reconnect
  \/ \E w \in Workers : Worker(w)
  \/ Subscribe \/ Subscribed \/ Run \/ Signal \/ Exit

Spec == Init /\ [][Next]_vars

(* Goroutines run.  Nothing is assumed of Publish, a reload or a signal.   *)
Fairness == /\ \A n \in Names : WF_vars(Stop(n))
            /\ \A w \in Workers : WF_vars(Lookup(w) \/ Create(w) \/ Return(w))
                                  /\ SF_vars(Lock(w))

FairSpec == Spec /\ Fairness

-----------------------------------------------------------------------------
(* Properties.                                                             *)

(* "Release": the manager that NewManager returned has an open broker for  *)
(* every name until Release begins, and none of them is open when it has   *)
(* returned without an error, whatever failed in earlier calls of it.      *)
ManagerSound ==
  role = "manager" =>
    /\ phase = "released" => \A n \in Names : held[n] # 0 /\ held[n] \notin open
    /\ (phase = "release" /\ todo = Names) => \A n \in Names : held[n] # 0

(* What Publish uses after ReloadDefault or InitDefault has returned nil   *)
(* is connected, and a failed reload leaves no client in use that looks    *)
(* connected.                                                              *)
DefaultServed ==
  (role = "default" /\ phase # "exited" /\ held[Default] # 0) =>
    (phase = "ready" <=> held[Default] \in open)

(* A client makes the publisher of a topic once, however many goroutines   *)
(* publish its first message at a time, so that all of them share it.      *)
OnePublisher == \A b \in Brokers, t \in Topics : publishers[b][t] <= 1

(* Subscribe returns nil only after every topic with a handler is          *)
(* registered with every server; a topic without one stops nobody.         *)
SubscribesAll ==
  phase \in {"subscribed", "run", "returned"} =>
    \A n \in Names : registered[n] = Handled

(* What the managers keep, whichever broker fails: a Release that          *)
(* answered nil has closed the connection of every name, and a Subscribe   *)
(* that answered nil has registered each handled topic with every server.  *)
ManagerInv == TypeOK /\ ManagerSound /\ SubscribesAll

(* Every server that was waiting when the signal came stops, unless the    *)
(* process has ended before.                                               *)
WaitingStops ==
  \A n \in Names :
    (phase = "returned" /\ server[n] = "waiting")
      ~> (server[n] # "waiting" \/ phase = "exited")

(* A Publish that has begun comes back, whoever holds the table's lock.    *)
PublishReturns ==
  \A w \in Workers : worker[w] # "idle" ~> (worker[w] = "idle" \/ phase = "exited")

(* Nobody is left behind: a server that waits for the signal stops when    *)
(* it comes, and a Publish comes back whoever else is publishing,          *)
(* reloading or waiting.                                                   *)
GoroutinesGoOn == WaitingStops /\ PublishReturns
=============================================================================
