----------------------------- MODULE ClientsProofs -----------------------------
(***************************************************************************)
(* Proof that reloads leak no pool, that a call meets a closed pool only   *)
(* because of a reload, and that the commands of redis are counted once,   *)
(* for any commands, any finite number of users and any number of reloads. *)
(***************************************************************************)
EXTENDS Clients, FiniteSetTheorems, TLAPS

(* Where the pools stand at each step of a reload: the pool of the client  *)
(* is open except between closing it and making the next, and it is the    *)
(* one that users see, except before it is published and after mongo was   *)
(* disabled.  What disabling drops is no longer anybody's, and stays open. *)
PoolsInv ==
  /\ step = "closed" => current \notin open
  /\ step \in {"idle", "locked", "drop"} =>
       published = current \/ (kind = "mongo" /\ published = 0 /\ released /\ step = "idle")
  /\ step \in {"idle", "locked", "publish"} /\ current # 0 => current \in open \/ broken \/ released
  /\ step \in {"publish", "drop"} => kind = "mongo"
  /\ step = "drop" => released
  /\ step \in {"locked", "closed", "publish", "drop"} => current # 0
  /\ current \notin dropped /\ (released => kind = "mongo")
  /\ \A p \in dropped : p \in open \/ broken

(* A user with no reload behind it has the pool that the client has now,   *)
(* and the reload, if there was one before, is over; or its pool was       *)
(* dropped open.                                                           *)
FreshInv ==
  \A u \in Users : at[u] = "took" /\ ~overlap[u] =>
    \/ step = "idle" /\ pool[u] = current /\ published # 0
    \/ pool[u] \in dropped \/ released

(* What a user that ran its command knows of its pool.                     *)
RanInv ==
  \A u \in Users :
    at[u] = "ran" /\ call[u].outcome = "closed" => overlap[u] \/ broken \/ released

Inv == TypeOK /\ PoolsInv /\ NothingLeaks /\ FreshInv /\ RanInv

-----------------------------------------------------------------------------
(* Types.                                                                  *)

LEMMA InitTyped == Init => TypeOK
<1> SUFFICES ASSUME Init PROVE TypeOK
  OBVIOUS
<1>1. /\ made \in 0 .. MaxPools /\ open \subseteq 1 .. made
      /\ {current, published} \subseteq 0 .. made /\ dropped \subseteq 1 .. made
  BY BoundsAssumption DEF Init, MaxPools
<1>2. NoCall \in [command : Commands, outcome : Outcomes, locked : BOOLEAN]
  BY LabelAssumption DEF NoCall, Outcomes
<1>3. call \in [Users -> [command : Commands, outcome : Outcomes, locked : BOOLEAN]]
  BY <1>2 DEF Init
<1>4. counter \in Counts /\ finished \in Counts
  BY DEF Init, Counts
<1>5. pool \in [Users -> Pools]
  BY BoundsAssumption DEF Init, Pools, MaxPools
<1>6. wired \in [Pools -> {"none", "empty", "metrics"}]
  BY DEF Init
<1>7. kind \in {"redis", "mysql", "mongo"} /\ enabled \in BOOLEAN /\ step = "idle"
      /\ broken \in BOOLEAN /\ released \in BOOLEAN /\ overlap \in [Users -> BOOLEAN]
      /\ at \in [Users -> {"idle", "took", "ran", "counted"}]
  BY DEF Init
<1>8. reloads \in 0 .. MaxReloads /\ calls \in 0 .. MaxCalls
  BY BoundsAssumption DEF Init
<1> QED BY <1>1, <1>3, <1>4, <1>5, <1>6, <1>7, <1>8 DEF TypeOK

(* What a command is counted under is a key of the counters.               *)
LEMMA ToldTyped ==
  ASSUME TypeOK, NEW u \in Users
  PROVE  Told(u) \in Commands \X {"ok", "error"}
<1>1. call[u].command \in Commands
  BY DEF TypeOK
<1>2. Label[call[u].command] \in Commands
  BY <1>1, LabelAssumption
<1> QED BY <1>2 DEF Told

LEMMA ReloadTyped ==
  ASSUME TypeOK, Reload
  PROVE  TypeOK'
<1> USE DEF lost
<1>0. ASSUME made < MaxPools
      PROVE  made + 1 \in Pools /\ made + 1 \in 0 .. MaxPools /\ made \in Nat
  BY <1>0, BoundsAssumption DEF TypeOK, Pools, MaxPools
<1>10. /\ made \in Nat /\ made \in 0 .. MaxPools /\ open \subseteq 1 .. made
       /\ dropped \subseteq 1 .. made /\ current \in 0 .. made /\ published \in 0 .. made
  BY BoundsAssumption DEF TypeOK, MaxPools
<1>11. ASSUME Begins PROVE reloads' \in 0 .. MaxReloads
  BY <1>11, BoundsAssumption DEF Begins, TypeOK
<1>1. CASE Lock
  BY <1>1, BoundsAssumption DEF Lock, Begins, TypeOK, pools
<1>2. CASE Close
  BY <1>2 DEF Close, TypeOK, NotUsing, users
<1>3. CASE Make
  <2>1. /\ made' \in 0 .. MaxPools /\ open' \subseteq 1 .. made'
        /\ {current', published'} \subseteq 0 .. made' /\ dropped' \subseteq 1 .. made'
    BY <1>0, <1>3 DEF Make, TypeOK
  <2>2. wired' \in [Pools -> {"none", "empty", "metrics"}]
    BY <1>3 DEF Make, TypeOK, Intercepted
  <2>3. step' \in {"idle", "publish"}
    BY <1>3 DEF Make
  <2> QED BY <1>3, <2>1, <2>2, <2>3 DEF Make, TypeOK, NotUsing, users
<1>4. CASE MakeFails
  BY <1>4 DEF MakeFails, TypeOK, NotUsing, users, pools
<1>5. CASE Publish
  BY <1>5 DEF Publish, TypeOK, NotUsing, users
<1>6. CASE Disable
  <2>1. reloads' \in 0 .. MaxReloads
    BY <1>6, <1>11 DEF Disable
  <2>2. {current', published'} \subseteq 0 .. made' /\ dropped' \subseteq 1 .. made'
    BY <1>6, <1>10 DEF Disable
  <2> QED BY <1>6, <2>1, <2>2 DEF Disable, TypeOK, NotUsing, users
<1>7. CASE Release
  <2>1. reloads' \in 0 .. MaxReloads
    BY <1>7, <1>11 DEF Release
  <2> QED BY <1>7, <2>1 DEF Release, TypeOK
<1>8. CASE Drop
  <2>1. 0 \in 0 .. made
    BY <1>8, BoundsAssumption DEF TypeOK, MaxPools
  <2> QED BY <1>8, <2>1 DEF Drop, TypeOK, NotUsing, users
<1>9. CASE Enable
  <2>1. /\ made' \in 0 .. MaxPools /\ open' \subseteq 1 .. made'
        /\ current' \in 0 .. made' /\ dropped' \subseteq 1 .. made' /\ made <= made'
    <3>1. CASE MakesFirst
      <4>1. /\ made < MaxPools /\ made' = made + 1 /\ current' = made + 1
            /\ open' = open \cup {made + 1} /\ dropped' = dropped
        BY <1>9, <3>1 DEF Enable
      <4> QED BY <1>0, <1>10, <4>1
    <3>2. CASE ~MakesFirst
      <4>1. UNCHANGED <<made, open, current, dropped>>
        BY <1>9, <3>2 DEF Enable
      <4> QED BY <1>10, <4>1
    <3> QED BY <3>1, <3>2
  <2>2. published' \in 0 .. made'
    BY <1>9, <1>10, <2>1 DEF Enable
  <2>3. wired' \in [Pools -> {"none", "empty", "metrics"}]
    BY <1>9 DEF Enable, TypeOK, Intercepted
  <2>4. reloads' \in 0 .. MaxReloads /\ step' \in {"idle", "publish"}
    BY <1>9, <1>11 DEF Enable, Begins
  <2> QED BY <1>9, <2>1, <2>2, <2>3, <2>4 DEF Enable, TypeOK, NotUsing, users
<1> QED BY <1>1, <1>2, <1>3, <1>4, <1>5, <1>6, <1>7, <1>8, <1>9 DEF Reload

LEMMA UseTyped ==
  ASSUME TypeOK, NEW u \in Users, Use(u)
  PROVE  TypeOK'
<1> USE DEF lost
<1>1. ASSUME NEW c \in Commands, NEW locked \in BOOLEAN, Take(u, c, locked) PROVE TypeOK'
  <2>1. call' \in [Users -> [command : Commands, outcome : Outcomes, locked : BOOLEAN]]
    BY <1>1 DEF Take, TypeOK, Outcomes
  <2>2. published \in Pools
    BY <1>1, BoundsAssumption DEF Take, TypeOK, Pools, MaxPools
  <2>3. calls' \in 0 .. MaxCalls
    BY <1>1, BoundsAssumption DEF Take, TypeOK
  <2> QED BY <1>1, <2>1, <2>2, <2>3 DEF Take, TypeOK, pools
<1>2. CASE Run(u)
  <2>1. PICK o \in Outcomes : call' = [call EXCEPT ![u].outcome = o]
    BY <1>2 DEF Run, Outcomes
  <2>2. call' \in [Users -> [command : Commands, outcome : Outcomes, locked : BOOLEAN]]
    BY <2>1 DEF TypeOK
  <2> QED BY <1>2, <2>2 DEF Run, TypeOK, pools
<1>3. CASE Count(u)
  <2>1. counter' \in Counts
    BY <1>3, ToldTyped DEF Count, Incremented, TypeOK, Counts
  <2> QED BY <1>3, <2>1 DEF Count, TypeOK, pools
<1>4. CASE Return(u)
  <2>1. finished' \in Counts
    BY <1>4, ToldTyped DEF Return, TypeOK, Counts
  <2> QED BY <1>4, <2>1 DEF Return, TypeOK, pools
<1> QED BY <1>1, <1>2, <1>3, <1>4 DEF Use

LEMMA Typed == TypeOK /\ [Next]_vars => TypeOK'
<1> SUFFICES ASSUME TypeOK, [Next]_vars PROVE TypeOK'
  OBVIOUS
<1>1. CASE UNCHANGED vars
  BY <1>1 DEF vars, pools, lost, users, TypeOK
<1> QED BY <1>1, ReloadTyped, UseTyped DEF Next

-----------------------------------------------------------------------------
(* Counters.                                                               *)

LEMMA UnreturnedFinite ==
  ASSUME NEW x
  PROVE  IsFiniteSet(Unreturned(x))
BY UsersAssumption, FS_Subset DEF Unreturned

LEMMA InitCounted == Init => CountedOnce
<1> SUFFICES ASSUME Init, NEW x \in DOMAIN counter
             PROVE  counter[x] = finished[x] + Cardinality(Unreturned(x))
  BY DEF CountedOnce
<1>1. Unreturned(x) = {}
  BY DEF Init, Unreturned
<1>2. Cardinality(Unreturned(x)) = 0
  BY <1>1, FS_EmptySet
<1> QED BY <1>2 DEF Init

(* A step that counts nothing and returns to nobody.                       *)
LEMMA CountersRest ==
  ASSUME CountedOnce, UNCHANGED <<kind, enabled, counter, finished>>,
         \A x : Unreturned(x)' = Unreturned(x)
  PROVE  CountedOnce'
BY DEF CountedOnce

LEMMA ReloadCounts ==
  ASSUME CountedOnce, Reload
  PROVE  CountedOnce'
<1>1. UNCHANGED <<kind, enabled, at, call, counter, finished>>
  BY DEF Reload, Lock, Close, Make, MakeFails, Publish, Disable, Release, Drop, Enable,
         NotUsing, users
<1>2. \A x : Unreturned(x)' = Unreturned(x)
  BY <1>1 DEF Unreturned, Told
<1> QED BY <1>1, <1>2, CountersRest

(* A command that runs, or begins, was not waiting to return.              *)
LEMMA RunCounts ==
  ASSUME TypeOK, CountedOnce, NEW u \in Users,
         Run(u) \/ \E c \in Commands, locked \in BOOLEAN : Take(u, c, locked)
  PROVE  CountedOnce'
<1>1. at[u] \in {"took", "idle"} /\ at'[u] \in {"ran", "took"}
  BY DEF Run, Take, TypeOK
<1>2. \A v \in Users \ {u} : at'[v] = at[v] /\ call'[v] = call[v]
  <2>1. CASE Run(u)
    BY <2>1 DEF Run, TypeOK
  <2>2. CASE \E c \in Commands, locked \in BOOLEAN : Take(u, c, locked)
    BY <2>2 DEF Take, TypeOK
  <2> QED BY <2>1, <2>2
<1>3. \A x : Unreturned(x)' = Unreturned(x)
  BY <1>1, <1>2 DEF Unreturned, Told
<1>4. UNCHANGED <<kind, enabled, counter, finished>>
  BY DEF Run, Take
<1> QED BY <1>3, <1>4, CountersRest

LEMMA CountCounts ==
  ASSUME TypeOK, CountedOnce, NEW u \in Users, Count(u)
  PROVE  CountedOnce'
<1> SUFFICES ASSUME kind = "redis", enabled, NEW x \in Commands \X {"ok", "error"}
             PROVE  counter'[x] = finished[x] + Cardinality(Unreturned(x)')
  <2>1. kind' = kind /\ enabled' = enabled /\ finished' = finished
    BY DEF Count
  <2>2. DOMAIN counter' = Commands \X {"ok", "error"}
    BY DEF Count, Incremented, TypeOK, Counts
  <2> QED BY <2>1, <2>2 DEF CountedOnce
<1>0. counter[x] = finished[x] + Cardinality(Unreturned(x)) /\ counter[x] \in Nat
      /\ finished[x] \in Nat
  BY DEF CountedOnce, TypeOK, Counts
<1>1. at[u] = "ran" /\ at' = [at EXCEPT ![u] = "counted"] /\ call' = call
  BY DEF Count
<1>2. u \notin Unreturned(x)
  BY <1>1 DEF Unreturned
<1>3. CASE ~call[u].locked /\ x = Told(u)
  <2>1. counter'[x] = counter[x] + 1
    BY <1>3, ToldTyped DEF Count, Counting, Incremented, TypeOK, Counts
  <2>2. Unreturned(x)' = Unreturned(x) \cup {u}
    BY <1>1, <1>3 DEF Unreturned, Told, TypeOK
  <2>3. Cardinality(Unreturned(x)') = Cardinality(Unreturned(x)) + 1
    BY <2>2, <1>2, UnreturnedFinite, FS_AddElement
  <2>4. Cardinality(Unreturned(x)) \in Nat
    BY UnreturnedFinite, FS_CardinalityType
  <2> QED BY <1>0, <2>1, <2>3, <2>4
<1>4. CASE call[u].locked \/ x # Told(u)
  <2>1. counter'[x] = counter[x]
    BY <1>4, ToldTyped DEF Count, Counting, Incremented, TypeOK, Counts
  <2>2. Unreturned(x)' = Unreturned(x)
    BY <1>1, <1>4 DEF Unreturned, Told, TypeOK
  <2> QED BY <1>0, <2>1, <2>2
<1> QED BY <1>3, <1>4

LEMMA ReturnCounts ==
  ASSUME TypeOK, CountedOnce, NEW u \in Users, Return(u)
  PROVE  CountedOnce'
<1> SUFFICES ASSUME kind = "redis", enabled, NEW x \in Commands \X {"ok", "error"}
             PROVE  counter[x] = finished'[x] + Cardinality(Unreturned(x)')
  <2>1. kind' = kind /\ enabled' = enabled /\ counter' = counter
    BY DEF Return
  <2>2. DOMAIN counter = Commands \X {"ok", "error"}
    BY DEF TypeOK, Counts
  <2> QED BY <2>1, <2>2 DEF CountedOnce
<1>0. counter[x] = finished[x] + Cardinality(Unreturned(x)) /\ counter[x] \in Nat
      /\ finished[x] \in Nat
  BY DEF CountedOnce, TypeOK, Counts
<1>1. at[u] = "counted" /\ at' = [at EXCEPT ![u] = "idle"] /\ call' = call
  BY DEF Return
<1>2. CASE ~call[u].locked /\ x = Told(u)
  <2>1. finished'[x] = finished[x] + 1
    BY <1>2, ToldTyped DEF Return, TypeOK, Counts
  <2>2. Unreturned(x)' = Unreturned(x) \ {u} /\ u \in Unreturned(x)
    BY <1>1, <1>2 DEF Unreturned, Told, TypeOK
  <2>3. Cardinality(Unreturned(x)') = Cardinality(Unreturned(x)) - 1
    BY <2>2, UnreturnedFinite, FS_RemoveElement
  <2>4. Cardinality(Unreturned(x)) \in Nat
    BY UnreturnedFinite, FS_CardinalityType
  <2> QED BY <1>0, <2>1, <2>3, <2>4
<1>3. CASE call[u].locked \/ x # Told(u)
  <2>1. finished'[x] = finished[x]
    BY <1>3, ToldTyped DEF Return, TypeOK, Counts
  <2>2. Unreturned(x)' = Unreturned(x)
    BY <1>1, <1>3 DEF Unreturned, Told, TypeOK
  <2> QED BY <1>0, <2>1, <2>2
<1> QED BY <1>2, <1>3

LEMMA Counted == TypeOK /\ CountedOnce /\ [Next]_vars => CountedOnce'
<1> SUFFICES ASSUME TypeOK, CountedOnce, [Next]_vars PROVE CountedOnce'
  OBVIOUS
<1>1. CASE UNCHANGED vars
  <2>1. \A x : Unreturned(x)' = Unreturned(x)
    BY <1>1 DEF vars, users, Unreturned, Told
  <2> QED BY <1>1, <2>1, CountersRest DEF vars, users
<1> QED BY <1>1, ReloadCounts, RunCounts, CountCounts, ReturnCounts DEF Next, Use

-----------------------------------------------------------------------------
(* Pools.                                                                  *)

LEMMA InitInv == Init => Inv
<1> SUFFICES ASSUME Init PROVE Inv
  OBVIOUS
<1>1. TypeOK
  BY InitTyped
<1>2. NothingLeaks /\ PoolsInv
  BY DEF Init, NothingLeaks, PoolsInv, Twice
<1> QED BY <1>1, <1>2 DEF Init, Inv, FreshInv, RanInv

LEMMA ReloadKeeps ==
  ASSUME Inv, Reload
  PROVE  Inv'
<1> USE DEF lost
<1>0. /\ TypeOK' /\ Twice' = Twice /\ kind' = kind /\ kind \in {"redis", "mysql", "mongo"}
      /\ made \in Nat /\ open \subseteq 1 .. made /\ dropped \subseteq 1 .. made
      /\ \A u \in Users : pool[u] # 0
      /\ released \in BOOLEAN /\ broken \in BOOLEAN
  <2>1. kind' = kind /\ enabled' = enabled
    BY DEF Reload, Lock, Close, Make, MakeFails, Publish, Disable, Release, Drop, Enable
  <2>2. made \in Nat /\ \A u \in Users : pool[u] # 0
    BY BoundsAssumption DEF Inv, TypeOK, MaxPools, Pools
  <2> QED BY <2>1, <2>2, ReloadTyped DEF Inv, Twice, TypeOK
<1>1. CASE Lock \/ Release
  <2>1. PoolsInv'
    <3>1. CASE Lock
      BY <1>0, <3>1 DEF Lock, Begins, Inv, PoolsInv, pools
    <3>2. CASE Release
      <4>1. /\ published = current /\ current # 0 /\ current \notin dropped /\ kind = "mongo"
            /\ \A p \in dropped : p \in open \/ broken
        BY <3>2 DEF Release, Begins, Inv, PoolsInv
      <4> QED BY <1>0, <3>2, <4>1 DEF Release, PoolsInv
    <3> QED BY <1>1, <3>1, <3>2
  <2>4. NothingLeaks'
    BY <1>1, <1>0 DEF Lock, Release, Inv, NothingLeaks, pools
  <2>2. FreshInv' /\ RanInv'
    BY <1>1 DEF Lock, Release, Inv, FreshInv, RanInv
  <2> QED BY <1>0, <2>1, <2>2, <2>4 DEF Inv
<1>2. CASE Close
  <2>1. PoolsInv'
    BY <1>2, <1>0 DEF Close, Inv, PoolsInv
  <2>2. NothingLeaks'
    BY <1>2, <1>0 DEF Close, Inv, NothingLeaks
  <2>3. FreshInv' /\ RanInv'
    BY <1>2 DEF Close, Inv, FreshInv, RanInv, NotUsing, users
  <2> QED BY <1>0, <2>1, <2>2, <2>3 DEF Inv
<1>3. CASE Make
  <2>1. PoolsInv' /\ NothingLeaks'
    BY <1>3, <1>0 DEF Make, Inv, PoolsInv, NothingLeaks
  <2>2. FreshInv' /\ RanInv'
    BY <1>3 DEF Make, Inv, FreshInv, RanInv, NotUsing, users
  <2> QED BY <1>0, <2>1, <2>2 DEF Inv
<1>4. CASE MakeFails
  <2>1. PoolsInv' /\ NothingLeaks'
    BY <1>4, <1>0 DEF MakeFails, Inv, PoolsInv, NothingLeaks, pools
  <2>2. FreshInv' /\ RanInv'
    <3>1. ASSUME NEW u \in Users, at[u] = "took", ~overlap[u]
          PROVE  pool[u] \in dropped \/ released
      BY <1>4, <3>1 DEF MakeFails, MakesFirst, Inv, FreshInv
    <3> QED BY <1>4, <3>1 DEF MakeFails, Inv, FreshInv, RanInv, NotUsing, users
  <2> QED BY <1>0, <2>1, <2>2 DEF Inv
<1>5. CASE Publish
  <2>1. PoolsInv' /\ NothingLeaks'
    BY <1>5, <1>0 DEF Publish, Inv, PoolsInv, NothingLeaks
  <2>2. FreshInv' /\ RanInv'
    BY <1>5 DEF Publish, Inv, FreshInv, RanInv, NotUsing, users
  <2> QED BY <1>0, <2>1, <2>2 DEF Inv
<1>6. CASE Disable
  <2>1. /\ current # 0 /\ published = current /\ (current \in open \/ broken \/ released)
        /\ (\A p \in dropped : p \in open \/ broken) /\ step = "idle"
    BY <1>6 DEF Disable, Begins, Inv, PoolsInv
  <2>5. ~released
    BY <1>6 DEF Disable, Inv, PoolsInv
  <2>2. PoolsInv'
    BY <1>6, <1>0, <2>1, <2>5 DEF Disable, PoolsInv
  <2>3. NothingLeaks'
    BY <1>6, <1>0, <2>1 DEF Disable, Inv, NothingLeaks
  <2>4. FreshInv' /\ RanInv'
    BY <1>6, <2>1 DEF Disable, Inv, FreshInv, RanInv, NotUsing, users
  <2> QED BY <1>0, <2>2, <2>3, <2>4 DEF Inv
<1>7. CASE Drop
  <2>1. PoolsInv' /\ NothingLeaks'
    BY <1>7, <1>0 DEF Drop, Inv, PoolsInv, NothingLeaks
  <2>2. FreshInv' /\ RanInv'
    BY <1>7 DEF Drop, Inv, FreshInv, RanInv, NotUsing, users
  <2> QED BY <1>0, <2>1, <2>2 DEF Inv
<1>8. CASE Enable
  <2>1. kind # "mongo" => current = 0
    BY <1>8 DEF Enable, Begins, Inv, PoolsInv
  <2>2. PoolsInv' /\ NothingLeaks'
    <3>1. CASE MakesFirst
      <4>1. /\ made + 1 \notin dropped /\ made + 1 # 0 /\ current = 0 /\ 0 \notin open
            /\ (\A p \in dropped : p \in open \/ broken) /\ (released => kind = "mongo")
        BY <1>0, <2>1, <3>1 DEF MakesFirst, Inv, PoolsInv
      <4>2. /\ current' = made + 1 /\ open' = open \cup {made + 1} /\ UNCHANGED lost
            /\ IF kind = "mongo" THEN step' = "publish"
                                 ELSE step' = "idle" /\ published' = current'
        BY <1>8, <3>1 DEF Enable, Begins
      <4>3. PoolsInv'
        BY <1>0, <4>1, <4>2 DEF PoolsInv
      <4>4. NothingLeaks'
        BY <1>0, <4>1, <4>2 DEF Inv, NothingLeaks
      <4> QED BY <4>3, <4>4
    <3>2. CASE ~MakesFirst
      BY <1>8, <1>0, <2>1, <3>2 DEF Enable, Begins, MakesFirst, Inv, PoolsInv, NothingLeaks
    <3> QED BY <3>1, <3>2
  <2>3. FreshInv' /\ RanInv'
    BY <1>8 DEF Enable, Inv, FreshInv, RanInv, NotUsing, users
  <2> QED BY <1>0, <2>2, <2>3 DEF Inv
<1> QED BY <1>1, <1>2, <1>3, <1>4, <1>5, <1>6, <1>7, <1>8 DEF Reload

LEMMA UseKeeps ==
  ASSUME Inv, NEW u \in Users, Use(u)
  PROVE  Inv'
<1> USE DEF lost
<1>0. TypeOK'
  BY UseTyped DEF Inv
<1>1. UNCHANGED <<kind, enabled, step, pools, lost>>
  BY DEF Use, Take, Run, Count, Return
<1>2. PoolsInv' /\ NothingLeaks'
  BY <1>1 DEF Inv, PoolsInv, NothingLeaks, Twice, pools
<1>3. ASSUME NEW c \in Commands, NEW locked \in BOOLEAN, Take(u, c, locked)
      PROVE  FreshInv' /\ RanInv'
  <2>1. step = "idle" => published = current
    BY <1>3 DEF Take, Inv, PoolsInv
  <2> QED BY <1>3, <2>1 DEF Take, Inv, TypeOK, FreshInv, RanInv, pools
<1>4. ASSUME Run(u) PROVE FreshInv' /\ RanInv'
  <2>1. FreshInv'
    BY <1>4 DEF Run, Inv, TypeOK, FreshInv, pools
  <2>2. PICK o \in IF pool[u] \in open THEN {"ok", "error"} ELSE {"closed"} :
          call' = [call EXCEPT ![u].outcome = o]
    BY <1>4 DEF Run
  <2>3. o = "closed" => overlap[u] \/ broken \/ released
    BY <1>4, <2>2 DEF Run, Inv, FreshInv, PoolsInv
  <2>4. call'[u].outcome = o /\ \A v \in Users \ {u} : call'[v] = call[v]
    BY <2>2 DEF Inv, TypeOK
  <2>5. RanInv'
    BY <1>4, <2>3, <2>4 DEF Run, Inv, TypeOK, RanInv
  <2> QED BY <2>1, <2>5
<1>5. ASSUME Count(u) PROVE FreshInv' /\ RanInv'
  BY <1>5 DEF Count, Inv, TypeOK, FreshInv, RanInv, pools
<1>6. ASSUME Return(u) PROVE FreshInv' /\ RanInv'
  BY <1>6 DEF Return, Inv, TypeOK, FreshInv, RanInv, pools
<1> QED BY <1>0, <1>2, <1>3, <1>4, <1>5, <1>6 DEF Use, Inv

LEMMA InvKept == Inv /\ [Next]_vars => Inv'
<1> SUFFICES ASSUME Inv, [Next]_vars PROVE Inv'
  OBVIOUS
<1>1. CASE UNCHANGED vars
  BY <1>1 DEF vars, pools, lost, users, Inv, TypeOK, PoolsInv, NothingLeaks, Twice, FreshInv,
              RanInv
<1> QED BY <1>1, ReloadKeeps, UseKeeps DEF Next

LEMMA InvClosed == Inv => ClosedOnlyByReload
  BY DEF Inv, PoolsInv, FreshInv, RanInv, ClosedOnlyByReload

LEMMA InvHolds == Spec => []Inv
  BY InitInv, InvKept, PTL DEF Spec

(* Whatever the reloads and the commands do between each other, no pool is *)
(* left open but the current one, one that InitClient makes for nothing and*)
(* those that disabling redis or mysql drops; and the metrics say of the   *)
(* commands of redis what the callers were told.                           *)
THEOREM ClientsSafe == Spec => []ClientsInv
<1>1. Inv /\ CountedOnce => ClientsInv
  BY DEF Inv, ClientsInv
<1>2. Inv => TypeOK
  BY DEF Inv
<1>3. Spec => []CountedOnce
  BY InvHolds, InitCounted, Counted, <1>2, PTL DEF Spec
<1> QED BY InvHolds, <1>1, <1>3, PTL

(* A call meets a closed pool only because a reload was at work or was     *)
(* given up, or mongo was disabled, however many users there are and       *)
(* wherever the reloads fail.                                              *)
THEOREM ClosedByReload == Spec => []ClosedOnlyByReload
  BY InvHolds, InvClosed, PTL
=============================================================================
