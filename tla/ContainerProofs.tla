---------------------------- MODULE ContainerProofs ----------------------------
(***************************************************************************)
(* Proof that the container has the configured clients after every reload, *)
(* for any settings, any set of configurations and any number of requests. *)
(***************************************************************************)
EXTENDS Container, TLAPS

(* The configuration a component runs on: of a reload, the components      *)
(* before step follow the new one already, the others the saved one.       *)
PromConf  == IF step = "prometheus" THEN appcfg.prom ELSE doc.prom
MongoConf == IF step \in {"prometheus", "parts", "mongo"} THEN appcfg.mongo ELSE doc.mongo
MysqlConf == IF step \in {"prometheus", "parts", "mongo", "mysql"} THEN appcfg.mysql ELSE doc.mysql
RedisConf == IF step \in {"idle", "gops", "save"} THEN doc.redis ELSE appcfg.redis

PartConf(p) ==
  IF step \in {"prometheus", "parts"} \/ (p = "gops" /\ step \notin {"idle", "save"})
  THEN appcfg.parts[p] ELSE doc.parts[p]

MongoInv ==
  /\ mongo <=> MongoConf # Off
  /\ mongo /\ "mongo" \notin broken => mgr = [conf |-> MongoConf, open |-> TRUE]
  /\ ~mongo /\ "mongo" \notin broken => mgr.conf = Off

RedisInv ==
  /\ redis.kind = "nil" <=> RedisConf = Off
  /\ redis.kind = "nil" => ~redis.open
  /\ redis.kind # "nil" /\ "redis" \notin broken => redis.open /\ redis.conf = RedisConf

PartsInv == \A p \in Parts \ broken : parts[p] = PartConf(p)

(* The inductive invariant.                                                *)
ContainerInv ==
  /\ proc = "new" => step = "idle" /\ doc = appcfg
  /\ proc = "up" =>
       /\ step \in {"idle", "prometheus", "parts", "mongo", "mysql", "redis", "gops", "save"}
       /\ step = "idle" => appcfg = doc
       /\ mysql = MysqlConf
       /\ MongoInv
       /\ RedisInv
       /\ PartsInv
       /\ prom = "on" <=> PromConf # Off

Components == <<proc, step, doc, appcfg, clients, broken>>

-----------------------------------------------------------------------------
(* Types.                                                                  *)

LEMMA InitTyped == Init => TypeOK
<1> SUFFICES ASSUME Init PROVE TypeOK
  OBVIOUS
<1>1. configer \in AllDocs /\ doc \in AllDocs /\ appcfg \in AllDocs
  BY DocsAssumption DEF Init
<1>2. Off \in Conf
  BY DEF Conf
<1>3. redis \in [kind : {"nil", "plain", "cluster"}, conf : Conf, open : BOOLEAN]
  BY <1>2 DEF Init, NoRedis
<1>4. mgr \in [conf : Conf, open : BOOLEAN]
  BY <1>2 DEF Init
<1> QED BY <1>1, <1>2, <1>3, <1>4 DEF Init, TypeOK

(* Where a request is.                                                     *)
Places == {"idle", "tracer", "mysql", "takeMysql", "prometheus", "redis", "takeRedis", "handler",
           "escaped", "panicked", "unrecorded"}

(* What the configurations of the components are.                          *)
LEMMA DocTyped ==
  ASSUME TypeOK
  PROVE  /\ doc.mongo \in Conf /\ doc.mysql \in Conf /\ doc.redis \in Conf
         /\ doc.prom \in Conf /\ doc.cluster \in BOOLEAN /\ Off \in Conf
         /\ appcfg.mongo \in Conf /\ appcfg.mysql \in Conf
         /\ doc.parts \in [Parts -> Conf]
         /\ \A p \in Parts : doc.parts[p] = Off => p = "gops"
  BY DEF TypeOK, AllDocs, Conf

LEMMA NewRedisTyped ==
  ASSUME TypeOK, NEW kind \in {"plain", "cluster"}
  PROVE  /\ NewRedis(doc, kind) \in
               [kind : {"nil", "plain", "cluster"}, conf : Conf, open : BOOLEAN]
         /\ NoRedis \in [kind : {"nil", "plain", "cluster"}, conf : Conf, open : BOOLEAN]
  BY DocTyped DEF NewRedis, NoRedis

(* The parts that may fail are known by their names, and making them again *)
(* gives them the new configuration or leaves a trace in broken.           *)
LEMMA RemakeTyped ==
  ASSUME TypeOK, NEW some \in SUBSET Parts, Remake(some)
  PROVE  parts' \in [Parts -> Conf] /\ broken' \subseteq {"mongo", "redis"} \cup PartNames
<1>1. PICK bad \in SUBSET MayFail :
        /\ parts' = [p \in Parts |->
                       IF p \notin {q \in some : appcfg.parts[q] # doc.parts[q]} THEN parts[p]
                       ELSE IF p \notin bad THEN doc.parts[p]
                       ELSE IF p = "gops" THEN Off ELSE parts[p]]
        /\ broken' = (broken \ {q \in some : appcfg.parts[q] # doc.parts[q]}) \cup bad
  BY DEF Remake
<1>2. bad \subseteq PartNames
  BY PartsAssumption DEF MayFail
<1>3. \A p \in Parts : parts[p] \in Conf /\ doc.parts[p] \in Conf /\ Off \in Conf
  BY DocTyped DEF TypeOK
<1> QED BY <1>1, <1>2, <1>3 DEF TypeOK

(* Steps of requests change nothing but at, promOn and calm.               *)
LEMMA RequestStep ==
  ASSUME TypeOK, NEW r \in Requests, Request(r)
  PROVE  TypeOK' /\ UNCHANGED Components
<1>1. UNCHANGED Components /\ UNCHANGED configer
  BY DEF Request, BeginRequest, StartSpan, CheckMysql, TakeMysql, CheckPrometheus, CheckRedis,
         TakeRedis, Reply, Recover, Goes, Components, clients
<1>2. PICK from, to : Goes(r, from, to) /\ to \in Places
  BY DEF Request, BeginRequest, StartSpan, CheckMysql, TakeMysql, CheckPrometheus, CheckRedis,
         TakeRedis, Reply, Recover, Places
<1>3. at' \in [Requests -> Places]
  BY <1>2 DEF Goes, TypeOK, Places
<1>4. promOn' \in [Requests -> BOOLEAN] /\ calm' \in [Requests -> BOOLEAN]
  <2>1. CASE BeginRequest(r) \/ StartSpan(r)
    <3>1. /\ UNCHANGED promOn \/ promOn' = [promOn EXCEPT ![r] = configer.prom # Off]
          /\ calm' = [calm EXCEPT ![r] = NotPending]
      BY <2>1, Zenon DEF BeginRequest, StartSpan
    <3>2. (configer.prom # Off) \in BOOLEAN /\ NotPending \in BOOLEAN
      BY Zenon DEF NotPending
    <3> QED BY <3>1, <3>2, Zenon DEF TypeOK
  <2>2. CASE UNCHANGED <<promOn, calm>>
    BY <2>2 DEF TypeOK
  <2> QED BY <2>1, <2>2 DEF Request, CheckMysql, TakeMysql, CheckPrometheus, CheckRedis,
                            TakeRedis, Reply, Recover
<1>5. UNCHANGED <<proc, configer, step, doc, appcfg, mgr, mongo, mysql, redis, prom, parts, broken>>
  BY <1>1 DEF Components, clients
<1>6. TypeOK'
  BY <1>3, <1>4, <1>5, ZenonT(60) DEF TypeOK, Places
<1> QED BY <1>1, <1>6

LEMMA TypeStep == TypeOK /\ [Next]_vars => TypeOK'
<1> SUFFICES ASSUME TypeOK, [Next]_vars PROVE TypeOK'
  OBVIOUS
<1> USE DocTyped
<1>1. CASE Start
  <2>1. Kind(doc) \in {"plain", "cluster"}
    BY DEF Kind
  <2>2. redis' \in [kind : {"nil", "plain", "cluster"}, conf : Conf, open : BOOLEAN]
    BY <1>1, <2>1, NewRedisTyped DEF Start
  <2>3. mgr' \in [conf : Conf, open : BOOLEAN] /\ (mongo' => mgr'.conf # Off)
        /\ mongo' \in BOOLEAN
    BY <1>1 DEF Start
  <2>4. parts' \in [Parts -> Conf] /\ broken' \subseteq PartNames
    BY <1>1, PartsAssumption DEF Start, MayFail
  <2> QED BY <1>1, <2>2, <2>3, <2>4 DEF Start, TypeOK, requests
<1>2. CASE InitFailed
  BY <1>2 DEF InitFailed, Ends, TypeOK, clients, requests
<1>3. ASSUME NEW d \in Docs, Configure(d) PROVE TypeOK'
  BY <1>3, DocsAssumption DEF Configure, TypeOK, clients, requests
<1>4. CASE Reload
  BY <1>4 DEF Reload, TypeOK, clients
<1>5. CASE PrometheusPanics
  <2>1. proc' \in {"nil prometheus", "metrics registered twice"}
        /\ UNCHANGED <<configer, doc, step, appcfg, clients, broken, requests>>
    BY <1>5, Zenon DEF PrometheusPanics, Ends
  <2> QED BY <2>1, ZenonT(60) DEF TypeOK, clients, requests
<1>6. CASE ReloadPrometheus
  BY <1>6 DEF ReloadPrometheus, Doing, NotReloading, TypeOK, requests
<1>7. CASE ReloadMongo
  <2>1. mgr' \in [conf : Conf, open : BOOLEAN] /\ mongo' \in BOOLEAN
        /\ (mongo' => mgr'.conf # Off)
    <3>1. mgr \in [conf : Conf, open : BOOLEAN] /\ (mongo => mgr.conf # Off)
          /\ mongo \in BOOLEAN
      BY Zenon DEF TypeOK
    <3>2. CASE UNCHANGED <<mgr, mongo>>
      BY <3>1, <3>2
    <3>3. CASE doc.mongo # Off /\ mongo' = TRUE
               /\ mgr' = IF mongo THEN ReloadDefault ELSE InitDefalut
      <4>1. mgr' \in {mgr, [conf |-> doc.mongo, open |-> TRUE]}
        BY <3>3 DEF ReloadDefault, InitDefalut, NewMongo
      <4>2. mgr'.conf # Off
        BY <3>1, <3>3 DEF ReloadDefault, InitDefalut, NewMongo
      <4>3. [conf |-> doc.mongo, open |-> TRUE] \in [conf : Conf, open : BOOLEAN]
        BY DEF TypeOK, AllDocs
      <4>4. mgr' \in [conf : Conf, open : BOOLEAN]
        <5>1. CASE mgr' = mgr
          BY <3>1, <5>1
        <5>2. CASE mgr' = [conf |-> doc.mongo, open |-> TRUE]
          BY <4>3, <5>2
        <5> QED BY <4>1, <5>1, <5>2
      <4> QED BY <3>3, <4>2, <4>4
    <3>4. CASE mongo' = FALSE /\ mgr' = IF mongo THEN [mgr EXCEPT !.open = FALSE] ELSE mgr
      BY <3>1, <3>4
    <3> QED BY <1>7, <3>2, <3>3, <3>4 DEF ReloadMongo, DefaultClientRelease
  <2>2. broken' \subseteq {"mongo", "redis"} \cup PartNames
    BY <1>7 DEF ReloadMongo, TypeOK
  <2> QED BY <1>7, <2>1, <2>2 DEF ReloadMongo, Doing, NotReloading, TypeOK, requests
<1>8. CASE ReloadMysql
  BY <1>8 DEF ReloadMysql, Doing, NotReloading, TypeOK, requests
<1>9. CASE ReloadRedis
  <2>1. redis' \in [kind : {"nil", "plain", "cluster"}, conf : Conf, open : BOOLEAN]
    <3>1. CASE redis' = NoRedis
      BY <3>1, NewRedisTyped
    <3>2. CASE redis' = NewRedis(doc, "plain")
      BY <3>2, NewRedisTyped
    <3>3. CASE redis.open /\ redis' = NewRedis(doc, redis.kind)
      BY <3>3 DEF NewRedis, TypeOK
    <3>4. CASE redis' = [redis EXCEPT !.open = FALSE]
      BY <3>4 DEF TypeOK
    <3> QED BY <1>9, <3>1, <3>2, <3>3, <3>4 DEF ReloadRedis
  <2>2. broken' \subseteq {"mongo", "redis"} \cup PartNames
    BY <1>9 DEF ReloadRedis, TypeOK
  <2> QED BY <1>9, <2>1, <2>2 DEF ReloadRedis, Doing, NotReloading, TypeOK, requests
<1>10. CASE Save
  BY <1>10 DEF Save, Doing, TypeOK, clients, requests
<1>11. ASSUME NEW r \in Requests, Request(r) PROVE TypeOK'
  BY <1>11, RequestStep
<1>12. CASE UNCHANGED vars
  BY <1>12, ZenonT(60) DEF vars, TypeOK, clients, requests
<1>13. CASE ReloadParts
  BY <1>13, RemakeTyped DEF ReloadParts, Doing, NotReloading, TypeOK, requests
<1>14. CASE ReloadGoPS
  BY <1>14, RemakeTyped DEF ReloadGoPS, Doing, NotReloading, TypeOK, requests
<1> QED BY <1>1, <1>2, <1>3, <1>4, <1>5, <1>6, <1>7, <1>8, <1>9, <1>10, <1>11, <1>12, <1>13,
           <1>14
        DEF Next

(* Types are preserved for any settings, configurations and requests.      *)
THEOREM ContainerTyped == Spec => []TypeOK
  BY InitTyped, TypeStep, PTL DEF Spec

-----------------------------------------------------------------------------
(* The invariant.                                                          *)

LEMMA InitInv == Init => ContainerInv
  BY DEF Init, ContainerInv

(* What Remake does to each part, and that it leaves mongo and redis alone.*)
LEMMA RemakeFollows ==
  ASSUME TypeOK, NEW some \in SUBSET Parts, Remake(some)
  PROVE  /\ \A p \in Parts \ broken' :
              \/ p \in some /\ appcfg.parts[p] # doc.parts[p] /\ parts'[p] = doc.parts[p]
              \/ /\ p \notin some \/ appcfg.parts[p] = doc.parts[p]
                 /\ p \notin broken /\ parts'[p] = parts[p]
         /\ "mongo" \in broken <=> "mongo" \in broken'
         /\ "redis" \in broken <=> "redis" \in broken'
<1>1. PICK bad \in SUBSET MayFail :
        /\ parts' = [p \in Parts |->
                       IF p \notin {q \in some : appcfg.parts[q] # doc.parts[q]} THEN parts[p]
                       ELSE IF p \notin bad THEN doc.parts[p]
                       ELSE IF p = "gops" THEN Off ELSE parts[p]]
        /\ broken' = (broken \ {q \in some : appcfg.parts[q] # doc.parts[q]}) \cup bad
  BY DEF Remake
<1>2. "mongo" \notin Parts /\ "redis" \notin Parts
  BY PartsAssumption DEF PartNames
<1>3. bad \subseteq Parts
  BY DEF MayFail
<1> QED BY <1>1, <1>2, <1>3

(* A reload that changes neither the parts nor their share of broken.      *)
LEMMA PartsKeep ==
  ASSUME PartsInv, UNCHANGED <<doc, appcfg, parts>>, broken \subseteq broken',
         \A p \in Parts : PartConf(p)' = PartConf(p)
  PROVE  PartsInv'
  BY DEF PartsInv

LEMMA InvStep == TypeOK /\ ContainerInv /\ [Next]_vars => ContainerInv'
<1> SUFFICES ASSUME TypeOK, ContainerInv, [Next]_vars PROVE ContainerInv'
  OBVIOUS
<1> USE DEF PromConf, MongoConf, MysqlConf, RedisConf, PartConf
<1>1. CASE Start
  <2>1. step' = "idle" /\ doc' = appcfg' /\ doc' = doc /\ proc' = "up"
    BY <1>1 DEF Start, ContainerInv
  <2>2. mysql' = MysqlConf' /\ (prom' = "on" <=> PromConf' # Off)
    BY <1>1, <2>1 DEF Start
  <2>3. MongoInv'
    BY <1>1, <2>1 DEF Start, MongoInv
  <2>4. RedisInv'
    BY <1>1, <2>1 DEF Start, RedisInv, NewRedis, NoRedis, Kind
  <2>5. PartsInv'
    BY <1>1, <2>1 DEF Start, PartsInv
  <2> QED BY <2>1, <2>2, <2>3, <2>4, <2>5 DEF ContainerInv
<1>2. CASE InitFailed
  BY <1>2 DEF InitFailed, Ends, ContainerInv
<1>3. ASSUME NEW d \in Docs, Configure(d) PROVE ContainerInv'
  BY <1>3 DEF Configure, ContainerInv, MongoInv, RedisInv, PartsInv, clients
<1>4. CASE Reload
  BY <1>4 DEF Reload, ContainerInv, MongoInv, RedisInv, PartsInv, clients
<1>5. CASE PrometheusPanics
  BY <1>5 DEF PrometheusPanics, Ends, ContainerInv
<1>6. CASE ReloadPrometheus
  BY <1>6 DEF ReloadPrometheus, Doing, NotReloading, Same, ContainerInv, MongoInv,
              RedisInv, PartsInv
<1>7. CASE ReloadMongo
  <2>1. /\ proc' = "up" /\ step = "mongo" /\ step' = "mysql" /\ proc = "up"
        /\ UNCHANGED <<doc, appcfg, mysql, redis, prom, parts>>
    BY <1>7 DEF ReloadMongo, Doing, NotReloading
  <2>2. MongoInv'
    <3>1. MongoInv
      BY <2>1 DEF ContainerInv
    <3>2. CASE Same("mongo") /\ UNCHANGED <<mgr, mongo, broken>>
      BY <2>1, <3>1, <3>2 DEF MongoInv, Same
    <3>3. CASE ~Same("mongo") /\ doc.mongo # Off
      <4>1. mgr' = (IF mongo THEN ReloadDefault ELSE InitDefalut) /\ mongo' = TRUE
            /\ broken' = broken
        BY <1>7, <3>3 DEF ReloadMongo
      <4> QED BY <2>1, <3>1, <3>3, <4>1 DEF MongoInv, ReloadDefault, InitDefalut, NewMongo
    <3>4. CASE ~Same("mongo") /\ doc.mongo = Off
      BY <1>7, <2>1, <3>1, <3>4 DEF ReloadMongo, MongoInv, DefaultClientRelease
    <3> QED BY <1>7, <3>2, <3>3, <3>4 DEF ReloadMongo
  <2>3. RedisInv'
    BY <1>7, <2>1 DEF RedisInv, ContainerInv, ReloadMongo
  <2>4. PartsInv'
    BY <1>7, <2>1, PartsKeep DEF ContainerInv, ReloadMongo
  <2> QED BY <2>1, <2>2, <2>3, <2>4 DEF ContainerInv
<1>8. CASE ReloadMysql
  BY <1>8 DEF ReloadMysql, Doing, NotReloading, Same, ContainerInv, MongoInv, RedisInv,
              PartsInv
<1>9. CASE ReloadRedis
  <2>1. /\ proc' = "up" /\ step = "redis" /\ step' = "gops" /\ proc = "up"
        /\ UNCHANGED <<doc, appcfg, mgr, mongo, mysql, prom, parts>>
    BY <1>9 DEF ReloadRedis, Doing, NotReloading
  <2>2. RedisInv'
    <3>1. redis.kind = "nil" => ~redis.open
      BY <2>1 DEF ContainerInv, RedisInv
    <3>2. redis \in [kind : {"nil", "plain", "cluster"}, conf : Conf, open : BOOLEAN]
      BY DEF TypeOK
    <3>3. CASE redis' = NoRedis /\ doc.redis = Off
      BY <2>1, <3>3 DEF RedisInv, NoRedis
    <3>4. CASE redis' = NewRedis(doc, "plain") /\ doc.redis # Off
      BY <2>1, <3>4 DEF RedisInv, NewRedis
    <3>5. CASE redis.kind # "nil" /\ redis' = NewRedis(doc, redis.kind) /\ doc.redis # Off
      BY <2>1, <3>5 DEF RedisInv, NewRedis
    <3>6. CASE /\ doc.redis # Off /\ redis.kind # "nil"
               /\ redis' = [redis EXCEPT !.open = FALSE]
               /\ broken' = broken \cup {"redis"}
      BY <2>1, <3>2, <3>6 DEF RedisInv
    <3> QED BY <1>9, <3>1, <3>3, <3>4, <3>5, <3>6 DEF ReloadRedis
  <2>3. MongoInv'
    BY <1>9, <2>1 DEF MongoInv, ContainerInv, ReloadRedis
  <2>4. PartsInv'
    BY <1>9, <2>1, PartsKeep DEF ContainerInv, ReloadRedis
  <2> QED BY <2>1, <2>2, <2>3, <2>4 DEF ContainerInv
<1>10. CASE Save
  BY <1>10 DEF Save, Doing, ContainerInv, MongoInv, RedisInv, PartsInv, clients
<1>11. ASSUME NEW r \in Requests, Request(r) PROVE ContainerInv'
  BY <1>11, RequestStep DEF ContainerInv, MongoInv, RedisInv, PartsInv, Components, clients
<1>12. CASE UNCHANGED vars
  BY <1>12 DEF vars, ContainerInv, MongoInv, RedisInv, PartsInv, clients
<1>13. CASE ReloadParts
  <2>1. /\ proc' = "up" /\ step = "parts" /\ step' = "mongo" /\ proc = "up"
        /\ UNCHANGED <<doc, appcfg, mgr, mongo, mysql, redis, prom>>
    BY <1>13 DEF ReloadParts, Doing, NotReloading
  <2>2. Remake(Parts \ {"gops"})
    BY <1>13 DEF ReloadParts
  <2>3. PartsInv'
    BY <2>1, <2>2, RemakeFollows DEF ContainerInv, PartsInv
  <2>4. "mongo" \in broken <=> "mongo" \in broken'
    BY <2>2, RemakeFollows
  <2>5. "redis" \in broken <=> "redis" \in broken'
    BY <2>2, RemakeFollows
  <2> QED BY <2>1, <2>3, <2>4, <2>5 DEF ContainerInv, MongoInv, RedisInv
<1>14. CASE ReloadGoPS
  <2>1. /\ proc' = "up" /\ step = "gops" /\ step' = "save" /\ proc = "up"
        /\ UNCHANGED <<doc, appcfg, mgr, mongo, mysql, redis, prom>>
    BY <1>14 DEF ReloadGoPS, Doing, NotReloading
  <2>2. Remake(Parts \cap {"gops"})
    BY <1>14 DEF ReloadGoPS
  <2>3. PartsInv'
    BY <2>1, <2>2, RemakeFollows DEF ContainerInv, PartsInv
  <2>4. "mongo" \in broken <=> "mongo" \in broken'
    BY <2>2, RemakeFollows
  <2>5. "redis" \in broken <=> "redis" \in broken'
    BY <2>2, RemakeFollows
  <2> QED BY <2>1, <2>3, <2>4, <2>5 DEF ContainerInv, MongoInv, RedisInv
<1> QED BY <1>1, <1>2, <1>3, <1>4, <1>5, <1>6, <1>7, <1>8, <1>9, <1>10, <1>11, <1>12, <1>13,
           <1>14
        DEF Next

(* During a reload the components before step follow the new configuration *)
(* and the others the saved one.                                           *)
THEOREM ContainerSafe == Spec => []ContainerInv
  BY InitTyped, InitInv, TypeStep, InvStep, PTL DEF Spec

(* After every reload the clients are those of the last configuration.     *)
THEOREM ContainerFollows == Spec => []Configured
<1>1. ContainerInv => Configured
  BY DEF ContainerInv, Configured, Settled, MongoInv, RedisInv, PartsInv, PromConf,
         MongoConf, MysqlConf, RedisConf, PartConf
<1> QED BY <1>1, ContainerSafe, PTL

-----------------------------------------------------------------------------
(* Requests.                                                               *)

(* What a request that began in the calm relies on: the clients it has     *)
(* tested are there still, and prometheus is what it has read.             *)
Relies(r) ==
  at[r] # "idle" /\ calm[r] =>
    /\ step = "idle"
    /\ at[r] \notin {"tracer", "escaped"} => (promOn[r] <=> doc.prom # Off)
    /\ at[r] = "takeMysql" => mysql # Off
    /\ at[r] \in {"redis", "takeRedis"} => prom = "nil"
    /\ at[r] = "takeRedis" => redis.kind # "nil"
    /\ at[r] = "panicked" => redis.kind = "cluster" /\ prom = "nil"
    /\ at[r] = "unrecorded" => promOn[r] /\ prom = "on"
    /\ at[r] = "escaped" => "logger" \in broken

CalmInv == \A r \in Requests : Relies(r) /\ (proc = "new" => at[r] = "idle")

LEMMA CalmStep == TypeOK /\ ContainerInv /\ CalmInv /\ [Next]_vars => CalmInv'
<1> SUFFICES ASSUME TypeOK, ContainerInv, CalmInv, [Next]_vars,
                    NEW r \in Requests
             PROVE  Relies(r)' /\ (proc' = "new" => at'[r] = "idle")
  BY DEF CalmInv
<1>0. Relies(r) /\ (proc = "new" => at[r] = "idle")
  BY DEF CalmInv
<1> USE DEF clients, requests
<1>1. CASE Start
  BY <1>0, <1>1 DEF Start, Relies
<1>2. ASSUME NEW why \in {"init failed", "nil prometheus", "metrics registered twice"}, Ends(why)
      PROVE  Relies(r)' /\ (proc' = "new" => at'[r] = "idle")
  BY <1>0, <1>2 DEF Ends, Relies
<1>3. CASE InitFailed \/ PrometheusPanics
  BY <1>2, <1>3 DEF InitFailed, PrometheusPanics
<1>4. CASE (\E d \in Docs : Configure(d)) \/ UNCHANGED vars
  BY <1>0, <1>4 DEF Configure, Relies, vars
<1>5. CASE Reload
  <2>1. ~calm'[r] /\ proc' = "up"
    BY <1>5 DEF Reload
  <2>. QED
    BY <2>1 DEF Relies
<1>6. ASSUME NEW component \in {"prometheus", "parts", "mongo", "mysql", "redis", "gops", "save"},
             NEW next, Doing(component, next), UNCHANGED <<proc, requests>>
      PROVE  Relies(r)' /\ (proc' = "new" => at'[r] = "idle")
  BY <1>0, <1>6 DEF Doing, Relies
<1>7. CASE \/ ReloadPrometheus \/ ReloadParts \/ ReloadMongo \/ ReloadMysql \/ ReloadRedis
           \/ ReloadGoPS \/ Save
  BY <1>6, <1>7 DEF ReloadPrometheus, ReloadParts, ReloadMongo, ReloadMysql, ReloadRedis,
                    ReloadGoPS, Save, NotReloading
<1>8. ASSUME NEW q \in Requests, Request(q), q # r
      PROVE  Relies(r)' /\ (proc' = "new" => at'[r] = "idle")
  <2>1. /\ UNCHANGED <<proc, step, doc, clients>>
        /\ at'[r] = at[r] /\ promOn'[r] = promOn[r] /\ calm'[r] = calm[r] /\ broken' = broken
    BY <1>8 DEF Request, BeginRequest, StartSpan, CheckMysql, TakeMysql, CheckPrometheus, CheckRedis,
                TakeRedis, Reply, Recover, Goes, TypeOK
  <2>. QED
    BY <1>0, <2>1 DEF Relies
<1>9. ASSUME Request(r) PROVE Relies(r)' /\ (proc' = "new" => at'[r] = "idle")
  <2>1. /\ proc = "up" /\ proc' = "up"
        /\ UNCHANGED <<step, doc, mgr, mongo, mysql, redis, prom, broken>>
        /\ redis.kind \in {"nil", "plain", "cluster"}
        /\ at \in [Requests -> Places]
    <3>1. \E from, to : Goes(r, from, to)
      BY <1>9 DEF Request, BeginRequest, StartSpan, CheckMysql, TakeMysql, CheckPrometheus,
                  CheckRedis, TakeRedis, Reply, Recover
    <3>2. redis.kind \in {"nil", "plain", "cluster"} /\ at \in [Requests -> Places]
      BY DEF TypeOK, Places
    <3>. QED
      BY <3>1, <3>2 DEF Goes
  <2>2. CASE BeginRequest(r)
    <3>1. /\ at'[r] = (IF Made("logger") THEN "tracer" ELSE "escaped")
          /\ calm'[r] = NotPending
      BY <2>2 DEF BeginRequest, Goes, TypeOK
    <3>2. ASSUME ~Made("logger"), step = "idle" PROVE "logger" \in broken
      <4>1. "logger" \in Parts /\ parts["logger"] = Off /\ doc.parts["logger"] # Off
        BY <3>2, DocTyped DEF Made
      <4>. QED
        BY <2>1, <3>2, <4>1 DEF ContainerInv, PartsInv, PartConf
    <3>. QED
      BY <2>1, <3>1, <3>2 DEF Relies, NotPending
  <2>6. CASE StartSpan(r)
    <3>1. /\ at'[r] \in {"idle", "mysql"} /\ promOn'[r] = (configer.prom # Off)
          /\ calm'[r] = NotPending
      BY <2>1, <2>6 DEF StartSpan, Goes, TypeOK
    <3>. QED
      BY <2>1, <3>1 DEF Relies, NotPending
  <2>3. ASSUME UNCHANGED <<promOn, calm>>, at[r] \notin {"idle", "tracer"}, calm[r]
        PROVE  Relies(r)'
    <3>1. Relies(r) /\ step = "idle" /\ promOn'[r] = promOn[r] /\ calm'[r] = calm[r]
      BY <1>0, <2>3 DEF Relies
    <3>2. CASE CheckMysql(r) \/ TakeMysql(r)
      BY <2>1, <2>3, <3>1, <3>2 DEF CheckMysql, TakeMysql, Goes, Relies
    <3>3. CASE CheckPrometheus(r) \/ CheckRedis(r) \/ TakeRedis(r)
      BY <2>1, <2>3, <3>1, <3>3 DEF CheckPrometheus, CheckRedis, TakeRedis, Goes, Relies
    <3>4. CASE Reply(r)
      <4>1. promOn[r] => prom = "on"
        BY <2>1, <2>3, <3>1, <3>4 DEF Reply, Goes, Relies, ContainerInv, PromConf
      <4>. QED
        BY <2>1, <2>3, <3>1, <3>4, <4>1 DEF Reply, Goes, Relies
    <3>5. CASE Recover(r)
      BY <2>1, <2>3, <3>1, <3>5 DEF Recover, Goes, Relies
    <3>6. ~BeginRequest(r) /\ ~StartSpan(r)
      BY <2>3 DEF BeginRequest, StartSpan, Goes
    <3>. QED
      BY <1>9, <3>2, <3>3, <3>4, <3>5, <3>6 DEF Request
  <2>4. \/ BeginRequest(r) \/ StartSpan(r)
        \/ UNCHANGED <<promOn, calm>> /\ at[r] \notin {"idle", "tracer"}
    BY <1>9 DEF Request, CheckMysql, TakeMysql, CheckPrometheus, CheckRedis, TakeRedis, Reply,
                Recover, Goes
  <2>5. CASE UNCHANGED <<promOn, calm>> /\ ~calm[r]
    BY <2>1, <2>5 DEF Relies
  <2>. QED
    BY <2>1, <2>2, <2>3, <2>4, <2>5, <2>6
<1>. QED
  BY <1>1, <1>3, <1>4, <1>5, <1>7, <1>8, <1>9 DEF Next

(* A request that began with no reload pending panics before its handler   *)
(* only if it needs a cluster of redis and there is no prometheus, at its  *)
(* end only if there is one, and escapes the wrapper only if the logger    *)
(* could not be made, until the next reload begins and whatever other      *)
(* requests and the watcher do.                                            *)
THEOREM ContainerServes == Spec => []ServedWhileCalm
<1>1. Init => CalmInv
  BY DEF Init, CalmInv, Relies
<1>2. CalmInv => ServedWhileCalm
  BY DEF CalmInv, Relies, ServedWhileCalm
<1>. QED
  BY ContainerTyped, ContainerSafe, <1>1, <1>2, CalmStep, PTL DEF Spec
=============================================================================
