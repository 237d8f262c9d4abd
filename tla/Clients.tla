-------------------------------- MODULE Clients --------------------------------
(***************************************************************************)
(* A client of the container (redis, redis cluster, mysql or mongo), its   *)
(* pools and its metrics.  A reload closes the pool and puts a new one in  *)
(* its place, step by step and under a lock, disables the client or enables*)
(* it again, while users have taken the pool, most of them without the     *)
(* lock, and work with it.                                                 *)
(***************************************************************************)
EXTENDS Naturals, FiniteSets

(* A definition X_Y just before X is a variant of X with a mistake in it,  *)
(* used by no specification: README, "Mutants".                            *)

CONSTANTS
  Users,       \* goroutines that use the client
  Commands,    \* commands of redis
  Label,       \* the name that each is counted under
  MaxReloads,  \* bound: reloads
  MaxCalls     \* bound: commands of all users

ASSUME BoundsAssumption == MaxReloads \in Nat /\ MaxCalls \in Nat
ASSUME LabelAssumption == Commands # {} /\ Label \in [Commands -> Commands]
ASSUME UsersAssumption == IsFiniteSet(Users)

MaxPools == MaxReloads + 2
Pools    == 1 .. MaxPools
Outcomes == {"ok", "error", "closed"}

VARIABLES
  kind,       \* "redis" (a cluster too), "mysql", "mongo"
  enabled,    \* Prometheus.Enable when Container.Init made the client
  step,       \* of the reload: "idle", "locked", "closed", "publish", "drop", "dead" (the
              \* process ended)
  made,       \* pools made: 1 .. made
  open,       \* those not closed
  current,    \* the pool of the client, 0: none; mongo keeps its client when it is disabled
  published,  \* the one that users see, 0: the container's client is nil
  reloads,    \* reloads begun
  broken,     \* history: closing a pool failed and the reload was given up
  released,   \* history: mongo was disabled
  dropped,    \* history: pools of redis and mysql that the container had when it disabled them
  wired,      \* per pool: where mysql's interceptors count, "none", "empty", "metrics"
  at,         \* per user: "idle", "took", "ran", "counted"
  pool,       \* the pool it took
  call,       \* [command, outcome, locked: it was taken by a getter with the lock]
  overlap,    \* history: a reload was at work since it took the pool, or before with no end
  calls,      \* history: commands begun
  counter,    \* per label and outcome: what the metrics say
  finished    \* history: per label and outcome, the calls that returned

pools == <<made, open, current, published, wired>>
users == <<at, pool, call, overlap, calls, counter, finished>>
lost  == <<broken, released, dropped>>
vars  == <<kind, enabled, step, pools, reloads, lost, users>>

NoCall == [command |-> CHOOSE c \in Commands : TRUE, outcome |-> "ok", locked |-> FALSE]
Counts == [Commands \X {"ok", "error"} -> Nat]

TypeOK ==
  /\ kind \in {"redis", "mysql", "mongo"} /\ enabled \in BOOLEAN
  /\ step \in {"idle", "locked", "closed", "publish", "drop", "dead"}
  /\ made \in 0 .. MaxPools /\ open \subseteq 1 .. made /\ {current, published} \subseteq 0 .. made
  /\ reloads \in 0 .. MaxReloads
  /\ broken \in BOOLEAN /\ released \in BOOLEAN /\ dropped \subseteq 1 .. made
  /\ wired \in [Pools -> {"none", "empty", "metrics"}]
  /\ at \in [Users -> {"idle", "took", "ran", "counted"}]
  /\ pool \in [Users -> Pools] /\ overlap \in [Users -> BOOLEAN]
  /\ call \in [Users -> [command : Commands, outcome : Outcomes, locked : BOOLEAN]]
  /\ calls \in 0 .. MaxCalls /\ counter \in Counts /\ finished \in Counts

(* InitClient, and InitClientWithProm after it, which makes another pool   *)
(* and then says where to count: the pool of mysql made before that counts *)
(* into metrics that are not registered, the very first one nowhere.  A    *)
(* client that is disabled at first is never told where to count.          *)
Twice == enabled /\ kind # "mongo"

Init ==
  /\ kind \in {"redis", "mysql", "mongo"} /\ enabled \in BOOLEAN
  /\ step = "idle" /\ made \in {IF Twice THEN 2 ELSE 1} \cup IF enabled THEN {} ELSE {0}
  /\ open = 1 .. made
  /\ current = made /\ published = made /\ reloads = 0
  /\ broken = FALSE /\ released = FALSE /\ dropped = {}
  /\ wired = [p \in Pools |-> IF p = 2 /\ Twice THEN "empty" ELSE "none"]
  /\ at = [u \in Users |-> "idle"] /\ pool = [u \in Users |-> 1]
  /\ call = [u \in Users |-> NoCall]
  /\ overlap = [u \in Users |-> FALSE] /\ calls = 0
  /\ counter = [x \in Commands \X {"ok", "error"} |-> 0] /\ finished = counter

Alive == step # "dead"
NotUsing == UNCHANGED users

-----------------------------------------------------------------------------
(* Reload of a client that is there.                                       *)
Begins == step = "idle" /\ reloads < MaxReloads /\ reloads' = reloads + 1

Lock ==
  /\ Begins /\ published # 0
  /\ step' = "locked"
  /\ overlap' = [u \in Users |-> TRUE]
  /\ UNCHANGED <<kind, enabled, pools, lost, at, pool, call, calls, counter, finished>>

(* Closing reports the error of a connection, or, in redis and mongo, that *)
(* the pool is closed; but for mysql the reload ends there.                *)
Close ==
  /\ step = "locked"
  /\ open' = open \ {current}
  /\ \/ /\ current \in open \/ kind = "mysql"
        /\ step' = "closed" /\ UNCHANGED broken
     \/ kind # "mysql" /\ step' = "idle" /\ broken' = TRUE
  /\ UNCHANGED <<kind, enabled, made, current, published, wired, reloads, released, dropped>>
  /\ NotUsing

(* open: a pool of mysql counts into the metrics of the package at the time*)
(* that it is made, the first of all has no interceptors yet.              *)
Intercepted ==
  IF kind # "mysql" \/ made = 0 THEN "none" ELSE IF enabled THEN "metrics" ELSE "empty"

MakesFirst == published = 0 /\ (kind = "mongo" => current = 0)

(* The new pool; it cannot be made: log.Fatal or a panic.                  *)
Make_Unassigned ==
  /\ step = "closed" /\ made < MaxPools
  /\ step' = "idle" /\ made' = made + 1
  /\ open' = open \cup {made'}
  /\ UNCHANGED <<kind, enabled, current, published, reloads, lost, wired>> /\ NotUsing
Make ==
  /\ step = "closed" /\ made < MaxPools
  /\ made' = made + 1 /\ open' = open \cup {made'} /\ current' = made'
  /\ wired' = [wired EXCEPT ![made'] = Intercepted]
  /\ IF kind = "mongo" THEN step' = "publish" /\ UNCHANGED published
                       ELSE step' = "idle" /\ published' = made'
  /\ UNCHANGED <<kind, enabled, reloads, lost>> /\ NotUsing

MakeFails ==
  /\ step = "closed" \/ (step = "idle" /\ MakesFirst)
  /\ step' = "dead"
  /\ UNCHANGED <<kind, enabled, pools, reloads, lost>> /\ NotUsing

(* reloadMongo gives the new client to the container.                      *)
Publish ==
  /\ step = "publish" /\ step' = "idle"
  /\ published' = current
  /\ UNCHANGED <<kind, enabled, made, open, current, wired, reloads, lost>> /\ NotUsing

-----------------------------------------------------------------------------
(* Disabling: the container forgets its client of redis or mysql with its  *)
(* pool; the one of mongo is disconnected, and then forgotten.             *)
Disable ==
  /\ Begins /\ published # 0 /\ kind # "mongo"
  /\ dropped' = dropped \cup {published}
  /\ current' = 0 /\ published' = 0
  /\ UNCHANGED <<kind, enabled, step, made, open, wired, broken, released>> /\ NotUsing

Release ==
  /\ Begins /\ published # 0 /\ kind = "mongo"
  /\ step' = "drop" /\ open' = open \ {current} /\ released' = TRUE
  /\ overlap' = [u \in Users |-> TRUE]
  /\ UNCHANGED <<kind, enabled, made, current, published, wired, broken, dropped, at, pool, call,
                 calls, counter, finished>>

Drop ==
  /\ step = "drop" /\ step' = "idle"
  /\ published' = 0
  /\ UNCHANGED <<kind, enabled, made, open, current, wired, reloads, lost>> /\ NotUsing

(* Enabling makes a client, but of mongo only the first time: its once has *)
(* run, and the container is given the client that was released.           *)
Enable ==
  /\ Begins /\ published = 0
  /\ IF MakesFirst
     THEN /\ made < MaxPools
          /\ made' = made + 1 /\ open' = open \cup {made'} /\ current' = made'
          /\ wired' = [wired EXCEPT ![made'] = Intercepted]
     ELSE UNCHANGED <<made, open, current, wired>>
  /\ IF kind = "mongo" THEN step' = "publish" /\ UNCHANGED published
                       ELSE UNCHANGED step /\ published' = current'
  /\ UNCHANGED <<kind, enabled, lost>> /\ NotUsing

-----------------------------------------------------------------------------
(* A user takes the pool: a getter of redis waits for the lock, the        *)
(* commands of redis and the getters of mysql and the container do not.    *)
Take(u, c, locked) ==
  /\ Alive /\ published # 0
  /\ at[u] = "idle" /\ calls < MaxCalls
  /\ locked => kind = "redis" /\ step = "idle"
  /\ at' = [at EXCEPT ![u] = "took"]
  /\ pool' = [pool EXCEPT ![u] = published]
  /\ call' = [call EXCEPT ![u] = [command |-> c, outcome |-> "ok", locked |-> locked]]
  /\ overlap' = [overlap EXCEPT ![u] = step # "idle"]
  /\ calls' = calls + 1
  /\ UNCHANGED <<kind, enabled, step, pools, reloads, lost, counter, finished>>

(* The command runs on it (the server may refuse it).                      *)
Run(u) ==
  /\ Alive /\ at[u] = "took"
  /\ at' = [at EXCEPT ![u] = "ran"]
  /\ \E o \in IF pool[u] \in open THEN {"ok", "error"} ELSE {"closed"} :
       call' = [call EXCEPT ![u].outcome = o]
  /\ UNCHANGED <<kind, enabled, step, pools, reloads, lost, pool, overlap, calls, counter,
                 finished>>

(* The commands of redis, and the interceptors of mysql, count it.         *)
Counting(u) ==
  \/ kind = "redis" /\ enabled /\ ~call[u].locked
  \/ kind = "mysql" /\ wired[pool[u]] = "metrics"

Told(u) == <<Label[call[u].command], IF call[u].outcome = "ok" THEN "ok" ELSE "error">>

(* Incr, and Timing and StateIncr with it.                                 *)
Incremented(u) == [counter EXCEPT ![Told(u)] = @ + 1]

Count_OnlySuccess(u) ==
  /\ Alive /\ at[u] = "ran"
  /\ at' = [at EXCEPT ![u] = "counted"]
  /\ counter' = IF Counting(u) /\ call[u].outcome = "ok"
                THEN Incremented(u) ELSE counter
  /\ UNCHANGED <<kind, enabled, step, pools, reloads, lost, pool, call, overlap, calls,
                 finished>>
Count(u) ==
  /\ Alive /\ at[u] = "ran"
  /\ at' = [at EXCEPT ![u] = "counted"]
  /\ counter' = IF Counting(u) THEN Incremented(u) ELSE counter
  /\ UNCHANGED <<kind, enabled, step, pools, reloads, lost, pool, call, overlap, calls,
                 finished>>

Return(u) ==
  /\ Alive /\ at[u] = "counted"
  /\ at' = [at EXCEPT ![u] = "idle"]
  /\ finished' = IF call[u].locked THEN finished ELSE [finished EXCEPT ![Told(u)] = @ + 1]
  /\ UNCHANGED <<kind, enabled, step, pools, reloads, lost, pool, call, overlap, calls,
                 counter>>

-----------------------------------------------------------------------------
Reload == Lock \/ Close \/ Make \/ MakeFails \/ Publish \/ Disable \/ Release \/ Drop \/ Enable
Use(u) == Run(u) \/ Count(u) \/ Return(u)
            \/ \E c \in Commands, locked \in BOOLEAN : Take(u, c, locked)

Next == Reload \/ \E u \in Users : Use(u)

Spec == Init /\ [][Next]_vars

-----------------------------------------------------------------------------
(* Properties.                                                             *)

(* No pool is lost open but by disabling redis or mysql, which closes      *)
(* nothing: save for those, the current one, and the one InitClient made   *)
(* for nothing, each pool that was made is closed.                         *)
NothingLeaks == open \subseteq {current} \cup dropped \cup IF Twice THEN {1} ELSE {}

(* With the metrics on, what they say of the commands of redis is what the *)
(* callers were told, the commands counted but not yet returned included:  *)
(* each is counted once, also when it fails or meets a closed pool.        *)
Unreturned(x) == {u \in Users : at[u] = "counted" /\ ~call[u].locked /\ Told(u) = x}
CountedOnce ==
  kind = "redis" /\ enabled =>
    \A x \in DOMAIN counter : counter[x] = finished[x] + Cardinality(Unreturned(x))

(* What reloads and calls keep together: no pool is left open but the      *)
(* current one, one that InitClient makes for nothing and those that the   *)
(* container had when it was disabled, and each command of redis is counted*)
(* once.                                                                   *)
ClientsInv == TypeOK /\ NothingLeaks /\ CountedOnce

(* A call meets a closed pool only if a reload was at work since the pool  *)
(* was taken, one was given up before, or mongo was once disabled; with the*)
(* lock or without, and also on the pool of a client that is disabled.     *)
ClosedOnlyByReload ==
  \A u \in Users :
    /\ at[u] = "ran" /\ call[u].outcome = "closed" => overlap[u] \/ broken \/ released
    /\ at[u] = "took" /\ ~overlap[u] => pool[u] \in open \/ broken \/ released
=============================================================================
