------------------------------ MODULE Container ------------------------------
(***************************************************************************)
(* The container of plugin/plugin.go: Init makes the clients that the      *)
(* configuration enables, Reload brings them in step with a new one,       *)
(* component after component, while requests (the server wrapper of        *)
(* microsrv/gomicro) take clients out of it without a lock.  A component's *)
(* configuration is Off or one of Settings; the clients of mongo, mysql,   *)
(* redis and prometheus decide what a reload does to them.  The loggers,   *)
(* the tracer and the gops agent (Parts) are made anew when what they are  *)
(* configured with changes, and making them may fail; only the agent can be*)
(* disabled.                                                               *)
(***************************************************************************)
EXTENDS Naturals

(* A definition X_Y just before X is a variant of X with a mistake in it,  *)
(* used by no specification: README, "Mutants".                            *)

CONSTANTS
  Settings,   \* what an enabled component may be configured with
  Off,        \* Enable is false
  Parts,      \* which of PartNames are followed
  Docs,       \* the configurations that are tried
  Requests    \* requests in flight

Conf == Settings \cup {Off}
PartNames == {"logger", "access", "tracer", "gops"}
AllDocs == [mongo : Conf, mysql : Conf, redis : Conf, cluster : BOOLEAN, prom : Conf,
            parts : {c \in [Parts -> Conf] : \A p \in Parts : c[p] = Off => p = "gops"}]

ASSUME OffAssumption == Off \notin Settings
ASSUME PartsAssumption == Parts \subseteq PartNames
ASSUME DocsAssumption == Docs \subseteq AllDocs

VARIABLES
  proc,      \* "new", "up", or what ended the process
  configer,  \* ng.configer, ahead of the container by one reload at most
  doc,       \* the configuration Reload was called with last
  step,      \* what Reload does next, "idle" between two reloads
  appcfg,    \* c.appcfg
  mgr,       \* the default client of DefaultMgoMgr; its conf is Off before InitDefalut
  mongo,     \* c.mongo is not nil
  mysql,     \* c.mysql: its configuration, Off for nil
  redis,     \* c.redis
  prom,      \* c.prometheus; its metrics are registered as soon as it is not nil
  parts,     \* per part: what it was made from, Off for nil and an agent that is closed
  broken,    \* history: "mongo" was released, a client of "redis" failed to close, and the
             \* parts that could not be made from what they are configured with
  at,        \* per request: what it does next
  promOn,    \* per request: Prometheus.Enable of the configer it read
  calm       \* history, per request: none was pending when it read the logger, then the
             \* configer, and no reload has run since

clients == <<mgr, mongo, mysql, redis, prom, parts>>
requests == <<at, promOn, calm>>
vars == <<proc, configer, doc, step, appcfg, clients, broken, requests>>

NoRedis == [kind |-> "nil", conf |-> Off, open |-> FALSE]
NewRedis(d, kind) == [kind |-> kind, conf |-> d.redis, open |-> TRUE]
Kind(d) == IF d.cluster THEN "cluster" ELSE "plain"

TypeOK ==
  /\ proc \in {"new", "up", "init failed", "nil prometheus", "metrics registered twice"}
  /\ configer \in AllDocs /\ doc \in AllDocs /\ appcfg \in AllDocs
  /\ step \in {"idle", "prometheus", "parts", "mongo", "mysql", "redis", "gops", "save"}
  /\ mgr \in [conf : Conf, open : BOOLEAN] /\ mongo \in BOOLEAN
  /\ mongo => mgr.conf # Off
  /\ mysql \in Conf
  /\ redis \in [kind : {"nil", "plain", "cluster"}, conf : Conf, open : BOOLEAN]
  /\ prom \in {"nil", "on", "off"}
  /\ parts \in [Parts -> Conf]
  /\ broken \subseteq {"mongo", "redis"} \cup PartNames
  /\ at \in [Requests -> {"idle", "tracer", "mysql", "takeMysql", "prometheus", "redis",
                          "takeRedis", "handler", "escaped", "panicked", "unrecorded"}]
  /\ promOn \in [Requests -> BOOLEAN] /\ calm \in [Requests -> BOOLEAN]

Init ==
  /\ proc = "new"
  /\ configer \in Docs
  /\ doc = configer /\ appcfg = configer /\ step = "idle"
  /\ mgr = [conf |-> Off, open |-> FALSE] /\ mongo = FALSE
  /\ mysql = Off /\ redis = NoRedis /\ prom = "nil"
  /\ parts = [p \in Parts |-> Off] /\ broken = {}
  /\ at = [r \in Requests |-> "idle"]
  /\ promOn = [r \in Requests |-> FALSE] /\ calm = [r \in Requests |-> FALSE]

-----------------------------------------------------------------------------
(* A logger needs a level, a format and an output that it knows, the       *)
(* tracer a collector, an agent that is enabled the port it listens on.    *)
MayFail == {p \in Parts : p = "gops" => doc.parts[p] # Off}

(* Container.Init, before the server takes requests.                       *)
Start ==
  /\ proc = "new"
  /\ proc' = "up"
  /\ mgr' = [conf |-> doc.mongo, open |-> doc.mongo # Off]
  /\ mongo' = (doc.mongo # Off)
  /\ prom' = IF doc.prom # Off THEN "on" ELSE "nil"
  /\ mysql' = doc.mysql
  /\ redis' = IF doc.redis # Off THEN NewRedis(doc, Kind(doc)) ELSE NoRedis
  /\ \E bad \in SUBSET MayFail :
       /\ parts' = [p \in Parts |-> IF p \in bad THEN Off ELSE doc.parts[p]]
       /\ broken' = bad
  /\ UNCHANGED <<configer, doc, step, appcfg, requests>>

Ends(why) ==
  /\ proc' = why
  /\ UNCHANGED <<configer, doc, step, appcfg, clients, broken, requests>>

(* A client that cannot be made: mongo and mysql panic, redis exits.       *)
InitFailed ==
  /\ \/ proc = "new" /\ \E c \in {"mongo", "mysql", "redis"} : doc[c] # Off
     \/ /\ proc = "up" /\ step \in {"mongo", "mysql"}
        /\ doc[step] # Off /\ doc[step] # appcfg[step]
        /\ step = "mongo" => (mongo /\ mgr.open) \/ mgr.conf = Off
     \/ proc = "up" /\ step = "redis" /\ doc.redis # Off
  /\ Ends("init failed")

-----------------------------------------------------------------------------
(* The engine has loaded a new configuration.                              *)
Configure(d) ==
  /\ proc = "up"
  /\ configer = doc
  /\ configer' = d
  /\ UNCHANGED <<proc, doc, step, appcfg, clients, broken, requests>>

Reload ==
  /\ proc = "up" /\ step = "idle"
  /\ configer # doc
  /\ doc' = configer
  /\ step' = "prometheus"
  /\ calm' = [r \in Requests |-> FALSE]
  /\ UNCHANGED <<proc, configer, appcfg, clients, broken, at, promOn>>

Doing(component, next) == proc = "up" /\ step = component /\ step' = next
Same(component) == appcfg[component] = doc[component]
NotReloading == UNCHANGED <<proc, configer, doc, appcfg, requests>>

(* reloadPrometheus.  Without a client it calls a method of a nil          *)
(* interface; Enable registers the metrics that initClient has registered. *)
PrometheusPanics ==
  /\ proc = "up" /\ step = "prometheus"
  /\ ~Same("prom")
  /\ \/ prom = "nil" /\ Ends("nil prometheus")
     \/ prom # "nil" /\ doc.prom # Off /\ Ends("metrics registered twice")

ReloadPrometheus ==
  /\ Doing("prometheus", "parts")
  /\ \/ Same("prom") /\ prom' = prom
     \/ ~Same("prom") /\ prom # "nil" /\ doc.prom = Off /\ prom' = "off"
  /\ UNCHANGED <<mgr, mongo, mysql, redis, parts, broken>> /\ NotReloading

(* The parts whose configuration has changed are made anew; one that       *)
(* cannot be made stays what it was, but the agent is closed before.       *)
Remake(some) ==
  LET changed == {p \in some : appcfg.parts[p] # doc.parts[p]}
  IN  \E bad \in SUBSET (changed \cap MayFail) :
        /\ parts' = [p \in Parts |-> IF p \notin changed THEN parts[p]
                                     ELSE IF p \notin bad THEN doc.parts[p]
                                     ELSE IF p = "gops" THEN Off ELSE parts[p]]
        /\ broken' = (broken \ changed) \cup bad

ReloadParts ==
  /\ Doing("parts", "mongo") /\ Remake(Parts \ {"gops"})
  /\ UNCHANGED <<mgr, mongo, mysql, redis, prom>> /\ NotReloading

ReloadGoPS ==
  /\ Doing("gops", "save") /\ Remake(Parts \cap {"gops"})
  /\ UNCHANGED <<mgr, mongo, mysql, redis, prom>> /\ NotReloading

NewMongo == [conf |-> doc.mongo, open |-> TRUE]

(* ReloadDefault keeps a client that it cannot disconnect, and one that is *)
(* not connected cannot be.                                                *)
ReloadDefault ==
  IF mgr.open THEN NewMongo ELSE mgr

(* InitDefalut makes the client once for the whole process.                *)
InitDefalut_Late == mgr
InitDefalut ==
  IF mgr.conf = Off THEN NewMongo ELSE mgr

DefaultClientRelease == [mgr EXCEPT !.open = FALSE]

ReloadMongo ==
  /\ Doing("mongo", "mysql")
  /\ \/ Same("mongo") /\ UNCHANGED <<mgr, mongo, broken>>
     \/ /\ ~Same("mongo") /\ doc.mongo # Off
        /\ mgr' = IF mongo THEN ReloadDefault ELSE InitDefalut
        /\ mongo' = TRUE
        /\ UNCHANGED broken
     \/ /\ ~Same("mongo") /\ doc.mongo = Off
        /\ mongo' = FALSE
        /\ mgr' = IF mongo THEN DefaultClientRelease ELSE mgr
        /\ broken' = IF mongo THEN broken \cup {"mongo"} ELSE broken
  /\ UNCHANGED <<mysql, redis, prom, parts>> /\ NotReloading

(* A client of the old configuration is closed and made anew, whether or   *)
(* not closing it fails; one that is no longer enabled is dropped.         *)
ReloadMysql ==
  /\ Doing("mysql", "redis")
  /\ mysql' = IF Same("mysql") THEN mysql ELSE doc.mysql
  /\ UNCHANGED <<mgr, mongo, redis, prom, parts, broken>> /\ NotReloading

(* reloadRedis runs at every reload.  Reload of the client closes its      *)
(* pool, which reports the error of a connection and, when closed before,  *)
(* that it is; after an error it keeps the closed pool.                    *)
ReloadRedis ==
  /\ Doing("redis", "gops")
  /\ \/ doc.redis = Off /\ redis' = NoRedis /\ broken' = broken
     \/ /\ doc.redis # Off /\ redis.kind = "nil"
        /\ redis' = NewRedis(doc, "plain") /\ broken' = broken
     \/ /\ doc.redis # Off /\ redis.open
        /\ redis' = NewRedis(doc, redis.kind) /\ broken' = broken
     \/ /\ doc.redis # Off /\ redis.kind # "nil"
        /\ redis' = [redis EXCEPT !.open = FALSE]
        /\ broken' = broken \cup {"redis"}
  /\ UNCHANGED <<mgr, mongo, mysql, prom, parts>> /\ NotReloading

Save_Forgets ==
  /\ Doing("save", "idle")
  /\ UNCHANGED <<proc, configer, doc, appcfg, clients, broken, requests>>
Save ==
  /\ Doing("save", "idle")
  /\ appcfg' = doc
  /\ UNCHANGED <<proc, configer, doc, clients, broken, requests>>

-----------------------------------------------------------------------------
(* The wrapper of a request takes the logger, the configer and the tracer, *)
(* puts the clients into its context, each after a test of its own, and    *)
(* calls the handler.                                                      *)
Goes(r, from, to) ==
  /\ proc = "up"
  /\ at[r] = from
  /\ at' = [at EXCEPT ![r] = to]
  /\ UNCHANGED <<proc, configer, doc, step, appcfg, clients, broken>>

NotPending == step = "idle" /\ configer = doc
Made(p) == p \in Parts => parts[p] # Off

(* Without a logger it panics before it has installed its recover.         *)
BeginRequest(r) ==
  /\ Goes(r, "idle", IF Made("logger") THEN "tracer" ELSE "escaped")
  /\ calm' = [calm EXCEPT ![r] = NotPending]
  /\ UNCHANGED promOn

(* The engines give their configer without an error.  Without a tracer,    *)
(* with a span that cannot be started and with a request that is not valid *)
(* the wrapper answers at once.                                            *)
StartSpan(r) ==
  /\ \/ Goes(r, "tracer", "idle")
     \/ Made("tracer") /\ Goes(r, "tracer", "mysql")
  /\ promOn' = [promOn EXCEPT ![r] = configer.prom # Off]
  /\ calm' = [calm EXCEPT ![r] = NotPending]

CheckMysql_None(r) ==
  Goes(r, "mysql", "takeMysql") /\ UNCHANGED <<promOn, calm>>
CheckMysql(r) ==
  Goes(r, "mysql", IF mysql # Off THEN "takeMysql" ELSE "prometheus")
  /\ UNCHANGED <<promOn, calm>>

(* GetMysqlCli().GetCli()                                                  *)
TakeMysql(r) ==
  Goes(r, "takeMysql", IF mysql # Off THEN "prometheus" ELSE "panicked")
  /\ UNCHANGED <<promOn, calm>>

(* With a prometheus client redis goes into the context as it is.          *)
CheckPrometheus(r) ==
  Goes(r, "prometheus", IF prom # "nil" THEN "handler" ELSE "redis")
  /\ UNCHANGED <<promOn, calm>>

CheckRedis(r) ==
  Goes(r, "redis", IF redis.kind # "nil" THEN "takeRedis" ELSE "handler")
  /\ UNCHANGED <<promOn, calm>>

(* GetRedisCli().( *zredis.Client).GetCli()                                *)
TakeRedis(r) ==
  Goes(r, "takeRedis", IF redis.kind = "plain" THEN "handler" ELSE "panicked")
  /\ UNCHANGED <<promOn, calm>>

(* The handler returns and the metrics of the call are recorded, with one  *)
(* label more than the histogram has: that panics too, unless Disable has  *)
(* taken the metrics away.                                                 *)
Reply(r) ==
  Goes(r, "handler", IF promOn[r] /\ prom # "off" THEN "unrecorded" ELSE "idle")
  /\ UNCHANGED <<promOn, calm>>

(* The wrapper recovers and answers ECodeSystem, or, before it can, the    *)
(* server of go-micro does.                                                *)
Recover(r) ==
  /\ \E place \in {"escaped", "panicked", "unrecorded"} : Goes(r, place, "idle")
  /\ UNCHANGED <<promOn, calm>>

-----------------------------------------------------------------------------
Request(r) == \/ BeginRequest(r) \/ StartSpan(r) \/ CheckMysql(r) \/ TakeMysql(r)
              \/ CheckPrometheus(r) \/ CheckRedis(r) \/ TakeRedis(r) \/ Reply(r) \/ Recover(r)

Next ==
  \/ Start \/ InitFailed \/ (\E d \in Docs : Configure(d))
  \/ Reload \/ PrometheusPanics \/ ReloadPrometheus \/ ReloadParts \/ ReloadMongo
  \/ ReloadMysql \/ ReloadRedis \/ ReloadGoPS \/ Save
  \/ \E r \in Requests : Request(r)

Spec == Init /\ [][Next]_vars

-----------------------------------------------------------------------------
(* Properties.                                                             *)

Settled == proc = "up" /\ step = "idle"

(* Whatever the sequence of configurations, also one that returns to an    *)
(* earlier one, after each reload the clients are those of the last        *)
(* configuration: there is one exactly where it is enabled, with its       *)
(* settings, as long as mongo was never disabled and every redis client    *)
(* could be closed; and every part that could be made is made from it.     *)
Configured ==
  Settled =>
    /\ mysql = doc.mysql
    /\ mongo <=> doc.mongo # Off
    /\ mongo /\ "mongo" \notin broken => mgr = [conf |-> doc.mongo, open |-> TRUE]
    /\ redis.kind = "nil" <=> doc.redis = Off
    /\ redis.kind # "nil" /\ "redis" \notin broken => redis.open /\ redis.conf = doc.redis
    /\ prom = "on" <=> doc.prom # Off
    /\ \A p \in Parts \ broken : parts[p] = doc.parts[p]

(* Unless a reload was pending or runs meanwhile, a request never panics   *)
(* between the test of a client and its use, except for the redis cluster  *)
(* without prometheus; at its end it panics only with prometheus enabled   *)
(* and there, where it fails to record itself; and it escapes the wrapper  *)
(* only if the logger could not be made.                                   *)
ServedWhileCalm ==
  \A r \in Requests : calm[r] =>
    /\ at[r] = "panicked" => redis.kind = "cluster" /\ prom = "nil"
    /\ at[r] = "unrecorded" => doc.prom # Off /\ prom = "on"
    /\ at[r] = "escaped" => "logger" \in broken
=============================================================================
