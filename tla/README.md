# Models and proofs of broccoli

broccoli is a Go library on which services are built: it loads a service's
configuration from etcd or a file, keeps a container of clients (Redis, MySQL,
Mongo, loggers, metrics, brokers) in step with it, runs a go-micro RPC server
behind an HTTP gateway, and offers a distributed lock, a sequence generator,
an HTTP client with retries and two message brokers.

This directory holds TLA+ models of the parts of it whose correctness is a
matter of order, failure and timing, the TLC configurations that check them and
the proofs that TLAPS checks. `PROJECT.json` lists the runs, the source lines
each definition stands for, the hazards and the theorems.

## Inventory

| component | source | state | operations | what makes it hard | correct when |
|---|---|---|---|---|---|
| Redis lock | `lock/redis` | a key with an expiry, per locker a mutex and a token | Lock, LockWithContext, Unlock, IsLocked, Run | lost and late commands, expiry under a holder, retries under a mutex | tokens exclusive, holder's key survives, answers true |
| Service start and configuration watch | `service`, `engine/etcd`, `engine/file`, `config` | configer, container version, three channels, three goroutines | Init, loadEngine, Subscribe, processChange, cancel | goroutines at their own pace, full buffer, watch that ends, channels closed | reloads in order, none lost, a bad document changes nothing |
| RabbitMQ broker | `pubsub/broker/rabbitmq` | connection, reconnect loop, subscriber, handler group | Connect, Close, reconnect, Subscribe, Unsubscribe, Publish | reconnect against Close, resubscribe against Unsubscribe, handlers against Disconnect | the connection and the stream come back, no unhandled message is acknowledged |
| Kafka broker | `pubsub/broker/kafka` | client, producer, a client and consumer group per Subscribe, marks | Connect, Disconnect, Publish, Subscribe, Unsubscribe, ConsumeClaim, Ack | cumulative marks, rebalances, half-made connections, Subscribe beside Connect | no message is passed over untried, the group goes on, clients are closed |
| PubSub managers | `pubsub/pub`, `pubsub/sub` | brokers by name, publishers by topic, servers | NewManager, Release, InitDefault, ReloadDefault, Publish, Subscribe, Run | failure half way, a table read without its lock, reload under publishers, signals | every broker released, one publisher per topic, the client in use is connected |
| Sequence generator | `sequence` | second, counter, a pool of numbers | gen, GetUUID | steps of the clock, restarts, a counter that leaves its bits | numbers unique |
| Container | `plugin`, `mongo`, `log`, the wrapper of `microsrv/gomicro` | one client or part per component, the saved configuration | Init, Reload; assembly of a request's context | enable, disable, enable again; clients replaced under requests; once-guards; parts that cannot be made | what is in use is what is configured, requests are served |
| Clients of the container | `redis`, `mysql`, `mongo`, `prometheus/innerprom.go` | a pool, a lock, the metrics of the package | InitClient, Reload, GetCli, the commands | a pool that is closed under its users, reloads that stop half way, disabling | pools not leaked, closed pools only by reloads, commands counted once |
| HTTP client | `httpclient` | table of clients; per call a reader of the body, a response | InitHttpClientConf, GetClient, do | one reader for all attempts while the transport reads it, table replaced under calls | attempts bounded, bodies complete, responses closed, clients there |
| RPC errors and metadata | `microsrv/gomicro/wrap.go`, `errors`, `trace` | the flag in the metadata | server and client wrapper, Write, StartSpanFromContext | negative codes through a transport that does not take them, maps changed in place | the client reads the error that was raised |
| HTTP middleware | `middleware/http` | a pool of buffers | Access, Recovery, GenerateGinHandle, the responses | deferred functions on every path, which may panic themselves, shared buffers | one answer, recorded as it was given |
| Published metrics | `prometheus/pubprom.go` | metrics by name | WithPub* | calls into a library | a metric is registered once |

How they interact: `service.Run` makes the engine, the container and the
server, and connects engine and container by the channel `changesC`; the
container owns the clients, which the RPC wrapper and the HTTP middleware put
into every request's context; handlers use the lock, the generator, the HTTP
client and the pub/sub managers directly; the managers own brokers. A request
enters by gin or by the gateway and goes from service to service over RPC.

## Modules

| module | models | extends |
|---|---|---|
| `RedisLock` | `Locker` of `lock/redis/lock.go`, the Redis key, the unreliable client | |
| `LockRun` | `lock.Run` with handlers and leases | `RedisLock` |
| `LockProofs` | theorems about `LockRun` and the lock it extends | `LockRun`, TLAPS |
| `ConfigWatch` | `service.Run`, the watcher and the processor goroutine, both engines | |
| `ConfigWatchProofs` | theorems about `ConfigWatch` | `ConfigWatch`, TLAPS |
| `RabbitConn` | the connection and its reconnect loops | |
| `RabbitSubscriber` | a subscriber, its handlers, acknowledgements and Disconnect | `RabbitConn` |
| `KafkaBroker` | the Kafka broker and the members of one consumer group | |
| `BrokerProofs` | theorems about both brokers | `RabbitSubscriber`, `KafkaBroker`, TLAPS |
| `PubSub` | the managers, the default publisher, the servers of a subscription manager | |
| `PubSubProofs` | theorems about `PubSub` | `PubSub`, TLAPS |
| `Sequence` | the generator of `sequence/sequence.go` | |
| `UniqueIds` | what the generator promises | |
| `SequenceProofs` | theorems about `Sequence` | `Sequence`, TLAPS |
| `Container` | the container, its clients and parts, and requests that take them | |
| `ContainerProofs` | theorems about `Container` | `Container`, TLAPS |
| `Clients` | one client, its pools, its metrics, its users | |
| `ClientsProofs` | theorems about `Clients` | `Clients`, TLAPS |
| `HttpClient` | the table of HTTP clients and one call | |
| `Errors` | errors and their conversions, as pure operators | |
| `Front` | requests through gin, the gateway and services, and their errors back | `Errors` |
| `HttpProofs` | theorems about both | `HttpClient`, `Front`, TLAPS |
| `MC*` | one per model, for TLC | the model |

A module's variables carry the names of the code's fields where there is one;
program counters (`step`, `at`, `main`, `watcher`, `sub`, ...) stand for where a
goroutine is. Variables marked "history" are written and never read by an
action; they exist for the properties.

### RedisLock and LockRun

`token`, `mutex` and `cand` are the fields and the local variable of a
`Locker`; `store` and `ttl` the key and what is left of its expiry in
milliseconds. A call takes the mutex (`Enter*`), sends a command and waits; the
command is executed (`Execute`), it or its reply is lost (`Lose`), or the client
gives up on it and Redis may execute it later (`GiveUp`, `ExecuteLate`). The
two Lua scripts and `SetNX` are atomic, as Redis makes them. The remaining
actions are the code after each reply. A random token is one that nothing in
the system knows (`Fresh`): 16 random bytes do not repeat, and a token that
nobody knows any more can stand for a new one.

`LockRun` adds, for every invocation of `lock.Run`, where it is, its handler's
goroutine, which `Run` does not stop, and its timer. `overlap` records whose
handlers were running at the same time.

### ConfigWatch

`writes` is the sequence of documents the key or the file has had; a version is
an index into it, so "older" and "newer" are comparisons. The main goroutine
goes through `Run`, `Init`, `loadEngine` and `RunServer`; the watcher through
`Subscribe`; the processor through the loop that receives from `changesC`.
`select` statements are one action per case that is ready. The engine is chosen
in `Init` and never changes. A panic or the end of the process is a value of
`proc`, after which nothing happens.

### RabbitConn and RabbitSubscriber

`alive` is the set of open connections, `connection` the field `r.Connection`.
Callers and loops share `tryConnect`, split where other goroutines can come
between: dialling, opening the two channels, setting `connected`. `gen` counts
the `r.close` channels made, so that a loop that waits for an old one is told
apart. `RabbitSubscriber` adds the resubscribe goroutine, the server's queue,
the goroutines that run handlers, and `Disconnect`, which is `Close` and then
the wait for the handlers. A stream belongs to a connection and ends with it; an
acknowledgement on a stream that has ended does nothing, and one for a delivery
that waits for none (`owed` are those that do) closes the channel, as AMQP says.
The application acknowledges with `publication.Ack` (`Acknowledge`) inside the
handler or later, the library when the handler ends, by the options `AutoAck`,
`AckSuccess` and `RequeueOnError`. The server learns that a stream is closed some
time later (`Detach`): what was delivered to it becomes ready again, but a queue
that is not durable is dropped with its messages when its last consumer goes
(`DurableQueue`; `declared`, `attached`, `status`, `holder`).

### KafkaBroker

`conn` stands for `k.c` and `k.p` together and for how far `Connect` has come: the
client, the producer, and the new, empty `k.sc`, each a step; "half" is a client
without a producer, which `Connect` leaves when the producer cannot be made.
Subscribe may come before, between and after them; `early` remembers the
subscriptions that came before the last. Each Subscribe has a client (`open`, and
`sc` for the field `k.sc`), a consumer group and a loop. The subscriptions share
topic and queue, hence one group with one partition, which `owner` reads. `mark`
is sarama's mark of a session, one more than the last offset marked, and
`committed` the offset of the group: a session that ends well commits, one that is
evicted does not. `ConsumeClaim` takes what is buffered even after the session is
over. `Ack` marks any message the application was given, also while its handler
runs. A message that does not decode is passed over without a mark; what `Publish`
writes in each mode of the codec is `Encoded`. `shut` are the groups that were
closed, `nilProducer` says that `Publish` or `Disconnect` used a producer that is
nil. Names begin with Kafka where RabbitMQ has the same one, because
`BrokerProofs` speaks of both.

### PubSub

A process plays one of three roles: a publishing manager, the default publisher
or a subscription manager. A broker is a number; `open` are those that are
connected, `held` the broker of each name's client. `NewManager` makes two
brokers per name, one to try and one to keep. `Publish` of the default client
is split where the table of publishers is read without the lock (`Lookup`), with
it (`Create`) and where it returns. `LookupRaces` is the read of the map beside
a write to it, which the runtime answers by ending the process if it notices.

### Sequence and UniqueIds

A number is its three bit fields as a record. `high` and `low` split the
counter at the width of its field, so that adding it to the shifted second and
the random bits is what `Number` says it is. `made` is every number generated,
`pushed` and `returned` how far the pool and the callers have got. A restart
loses what is in the pool. `UniqueIds` is the abstract specification: each step
issues one number that was not issued before. `issued` counts the numbers that
were returned before the first disturbance (the counter leaves its field, the
clock steps back, the process restarts); the refinement maps `ids` to them.

### Container and Clients

In `Container` a configuration says for mongo, mysql, redis and prometheus
whether each is enabled and with which settings, whether redis is a cluster, and
what the logger, the access logger, the tracer and gops (`Parts`, as many of
them as an instance wants) are made from. `Reload` is one action per component
in the code's order, then the assignment of `appcfg`. `mgr` is the package-level
default client of the mongo package, which outlives `c.mongo`. `broken` are the
components whose reload has failed once. A request takes the logger, without
which it panics before the wrapper's recover is installed ("escaped"), then the
configer and the tracer, without which it is answered at once; it goes through
the wrapper's tests and type assertions one at a time ("panicked" if one fails),
and with prometheus enabled it panics when its metrics are recorded
("unrecorded"). The table of HTTP clients is modelled in `HttpClient`.

`Clients` looks into one client. A pool is a number; a reload locks, closes, makes
and, for mongo, publishes in the container, each a step of its own, and users take
the pool between any two of them. A reload may also disable the client (`Disable`,
for mongo `Release` and `Drop`) or enable it (`Enable`). `current` is the pool of
the client, `published` the one the container gives to users; they differ for
mongo, whose client outlives its being disabled. The redis client and the cluster
client have the same commands, reloads and counters, so `kind = "redis"` stands
for both: `Run` and `Count` are every `Z...` command. For mysql the counting is
that of the interceptors that are installed when a pool is made (`wired`).

### HttpClient

`table` is the package's map, `fresh` the one `InitHttpClientConf` fills. One
call is followed through its attempts. `offset` is where `bodyReader` stands;
each attempt has a goroutine of the transport that reads the body from it
(`WriteBody`), and that may go on when the call to `Do` has returned, because the
server answered early or the attempt timed out. `received` are the bodies that a
server took for complete.

### Errors and Front

`Errors` has the conversions of an error as operators. A code is an integer; the
text of an error is the number of marks ("-@") in front of it, and whether it has
a cause. `ServerWrap` is the server's wrapper after the handler, `Wire` what the
transport does to negative codes, `ClientUnwrap` the client's wrapper,
`assertError` and `Write` what gin answers, `GatewayResponse` what the gateway
answers.

In `Front` a request enters by gin (level 0) or by the gateway (level 1) and
each handler may call the next level. `incoming` is the flag in the metadata that
came with a request, `metadata` the one in the metadata of the handler's
context, which the client's wrapper changes in place; they are different maps
because `StartSpanFromContext` copies. `origin` remembers where the error comes
from; `stage` is what the request does next. `buf` and `content` are the buffer
that `Access` reads the answer back from; `free` is the pool, `counted` and
`logged` what is recorded of the answer, which is decoded into an int32 for that
(`ErrCode`). `metrics` are the levels with prometheus enabled: the server's
wrapper there panics after the handler and answers `ECodeSystem` (`Wrap`), and
the client's wrapper after a call that succeeded, in the handler that made it
(`BackPanics`). `Access` may panic before it has its buffer (`AccessFails`) and
after (`AccessPanics`). Names begin with Front where `HttpClient` has the
same one, because `HttpProofs` speaks of both.

## Runs

| run | instance | shows |
|---|---|---|
| `RedisLock` | 2 callers, 2 lockers, expiry 2 ms, 1 retry, 1 late command | `LockInv`, `HeldKeySurvives`, `UnlockReportsTruth`, `LockReportsTruth`, `RetryBudget` |
| `LockRun` | 2 invocations, lease 1 ms, 1 retry, 1 late command | `RunInv` (`NilMeansExclusive`), `RunReturns`, `OrphanExpires` |
| `ConfigWatch` | both engines, 5 writes, buffer of 2 | `WatchInv` (`InFlight`), `ChannelsSafe`, `KeepsGoodConfig`, `Converges` |
| `RabbitConn` | 2 callers, 2 successful Connects, 1 Close with a Connect after it, 2 troubles | `ConnInv` (`WaitSound`) |
| `RabbitSubscriber` | 1 Connect, Disconnect, 1 trouble, 1 message; acknowledged after success, requeued, queue not durable | `SubInv` (`StreamKnown`), `NothingUnhandledLost`, `KeepsConnection`, `Resumes` |
| `KafkaBroker` | 2 subscriptions, 2 messages, 1 rebalance | `KafkaInv` (`ClientsKnown`), `CommitsWhatWasTried`, `EventuallyTried` |
| `PubSub` | 2 names, 2 publishing goroutines, 2 topics of which one has a handler, 1 reload | `ManagerInv` (`ManagerSound`, `SubscribesAll`), `DefaultServed`, `OnePublisher`, `GoroutinesGoOn` |
| `HttpClient` | 2 clients, at most 2 retries, a body of 2 parts, 2 reloads | `ClientInv` (`BodiesClosed`, `WaitBounded`), `BodyIntact`, `TriesEnough`, `ClientsStay` |
| `Front` | 2 requests, gin and 2 services, 6 errors, 2 buffers; metrics nowhere, or in gin and the first service | `FrontInv` (`OneAnswer`, `BuffersOwned`), `AnswersTruly`, `CountsAnswers` |
| `Clients` | 2 users, 3 commands, 2 calls, 3 reloads (disabling and enabling are ones) | `ClientsInv` (`NothingLeaks`, `CountedOnce`), `ClosedOnlyByReload` |
| `Sequence` | counter and random field of 1 bit, pool of 1, 2 seconds, a step back, a restart | `SequenceInv`, `KeepsPromise` |
| `Container` | 11 configurations, logger and gops as parts, one request | `Configured`, `ServedWhileCalm` |

A name in parentheses is a named part of the invariant before it; each
invariant also has its module's type invariant as a part.

Why the bounds are enough.

* Lock: exclusion is a matter of two lockers; two callers make the mutex
  contended; one late command is the one that comes in the wrong moment, and
  each is executed against the whole state; an expiry of 2 lets the key expire
  before, between and after any two steps. Four tokens are as many as can be
  known at once (the key, a late command and two lockers), so `Fresh` is never
  empty when the code would draw one.
* ConfigWatch: with a buffer of 2, five writes fill the buffer, the processor
  and the watcher at once, so that a change is dropped; two documents that parse
  and one that does not make every order of good, bad and absent possible.
* RabbitMQ: two loops are what a second Connect during an outage makes; two
  troubles let a reconnect fail while it repairs the first. With one message
  every stage of delivery, redelivery, late and second acknowledgement occurs,
  and the loss of the queue; the proof covers every number of messages and every
  combination of the options.
* Kafka: two members hand the partition over; two messages let a later one
  succeed where an earlier one failed, in the same session or in another.
* PubSub: two names let a manager fail half way; two goroutines race for a
  topic's publisher, with a reload that puts another client under them.
* HTTP client: three attempts have a first, a middle and a last one; with two
  parts a body can be half sent, and three configurations add a client, remove
  one and panic half way.
* Front: two services have one that is called by a service and calls another;
  the errors are one of each kind the conversions tell apart, and a code that is
  one more than the largest int32 (`Half` stands for 2^31); with `metrics` in gin
  and the first service, gin counts and calls with them on, a service answers and
  calls with them on and one is called without; two requests and two buffers let
  one request take the buffer another has just given back.
* Clients: three reloads make a pool that is closed by the reload after the one
  that made it, and let a client be disabled, enabled and reloaded; two calls let
  one be counted while the other's pool is closed.
* Sequence: with one bit per field every overflow happens within a few steps;
  the proofs cover every width.
* Container: the state after a reload depends on the configurations before and
  after it and on what the once-guards remember, so every pair of the 11 is
  tried in sequences of any length. The logger and gops stand for the two ways a
  part is made (`ReloadParts`, `ReloadGoPS`), and requests panic for want of the
  first; the proof covers all four.

The configuration of every run but `RedisLock` says
`CHECK_DEADLOCK FALSE`: those programs end (Run returns, the process exits, the
bound on writes, connects or calls is reached).

## Fairness

Fairness is assumed only of what the runtime and the libraries guarantee.

* A goroutine that can go on does (weak fairness of each goroutine's step); a
  goroutine that waits for a `sync.Mutex` is served (strong fairness of `Enter` and
  `Lock`), since Go's mutex has a starvation mode.
* The Redis client answers every command, with an error at its timeout at the
  latest; timers fire and time goes on. A publish to a broker returns, with an
  error if need be.
* A server that is dialled again and again answers some time, opens a channel
  some time and accepts Consume some time (strong fairness of `Dial`,
  `OpenChannels`, `Consume`). A Kafka group gives the partition to a member that
  asks again and again.
* `EventuallyTried` alone assumes that a handler returns: ConsumeClaim runs the
  handlers of a partition one after the other, so nothing could be said
  otherwise.
* Never assumed: that the handler of `lock.Run` or of a RabbitMQ message returns,
  that the configuration is written, that a connection is lost or not lost, that
  a late command is executed, that a server starts or ends, that a signal comes.

## What is proved

Every invariant and every action property that a run checks is a theorem of its
specification; the refinement of `UniqueIds` too. `PROJECT.json` lists them. Where
a theorem has a shorter name than its property, the property is given here.

The constants' assumptions are the `ASSUME`s of the modules: options are
integers (the code normalises them); bounds are naturals; the counter's field has a
bit at least and the random field may have none; there is a topic, a command and a service;
the users of a client and the names of a manager are finitely many, since they are
counted or gone through; `Good`, `Bad` and `Absent` documents are told apart; the
library's codes fit into an int32; an error that a handler raises has a code only if
it is the library's or go-micro's. The proofs hold for every value of the constants.
The bounds matter to the type invariants, and to `LoopsStarted`, since the loops
of `RabbitConn` are numbered up to `MaxConnects`.

Each proof module has the same plan: an inductive invariant with named parts,
one lemma per action or part, and theorems that take the property from it. What
each invariant adds to the property, and why:

`LockProofs`. `LockTyped` (`TypeOK`), `LockSafe` (`LockInv`), `HolderKeepsKey`,
`UnlockIsTruthful`, `LockIsTruthful`, `RefusedAfterBudget`. Exclusion alone is not
inductive: a locker could know a token that another one is about to be told, through
a late command or the key. Therefore `LockInv` adds who is in a call and what its
local variables are (`InCall`), that only the call that sent a late SetNX or release
can still know its token (`LateForgotten`), where the key of a locker is in every
phase of a call (`KeyAccounted`) and how `attempts` and `sent` add up (`Budgeted`).
`NilExcludes` (`RunInv`) builds on it. `RunPhase` says which call on its own locker an
invocation is in, and that its handler was started with a token. An invocation is
`Doomed` if it will not return nil: it timed out or failed, or its key lapsed. When
a handler starts beside another one, `ExclusiveTokens` and `KeyAccounted` say that
the other's key has lapsed, so of any two that overlap one is doomed
(`OverlapDoomed`); and what is doomed stays so, as Unlock answers nil only for a
lock without a gap.

`SequenceProofs`. `SequenceTyped`; `SequenceSafe`: `SequenceInv`, which says that
the numbers made are those of earlier seconds and of counts that this second
has used up (`Used`), and so distinct, until a disturbance.
`GeneratorKeepsPromise`: `Spec => KeepsPromise`, the refinement of `UniqueIds`;
every action but `GetUUID` leaves the issued numbers alone, and `GetUUID` adds
one that `Distinct` says is new.

`ContainerProofs`. `ContainerTyped`; `ContainerSafe`: `ContainerInv`. `Configured`
speaks of the time between reloads only, so it is not inductive: a reload compares
`doc` with `appcfg`, and does nothing for a component where they agree. The
invariant therefore says at every step of a reload which configuration each
component and part runs on, `doc` for those before `step` and `appcfg` for the
others, and what the default mongo manager remembers while mongo is off.
`ContainerFollows`: `Configured`, for any settings, any set of parts and
configurations and any number of requests. `ContainerServes`: `ServedWhileCalm`; a
request goes through tests whose results it relies on later, so `Relies` says at
each of them what still holds if no reload was pending or running since the request
read the configer, that its `promOn` is what the container has included, and
`ContainerInv` that it holds at the start; a logger is missing then only if it
is among the parts that could not be made.

`ConfigWatchProofs`. `NoReloadLost` (`WatchInv`), `FileChannelsSafe` (`ChannelsSafe`),
`RefusedChangesNothing` (`KeepsGoodConfig`). `Begun` says which goroutines exist at
each point of the start; `Current` that the configer is parsed and not ahead of the
watch; `Line` that the container, the change being applied, those in `changesC` and
the one in the hands of `Subscribe` are parsed and each newer than the one before,
and that the last of them is the configer unless one was dropped. `Chain` and the
lemmas that join chains turn `Line` into `InFlight`. `FileChannels` says that with
the file engine `Subscribe` ends only when `Run` has failed, which is why nothing is
sent on a closed channel there.

`ClientsProofs`. `ClientsSafe`: `ClientsInv`; `ClosedByReload`. The invariant says
where the pools stand at each step of a reload (`PoolsInv`) and that a user with
no reload behind it has the pool the client has now (`FreshInv`); `NothingLeaks`
is then preserved because the step that makes a pool comes after the one that
closed the last, or after the client was disabled, which puts its pool among those
that were `dropped`, and the client of mongo is made once. `FreshInv` except after
mongo was disabled (`released`): its next client is the closed one. `CountedOnce`
compares the counters with what was returned and what is about to be
(`Unreturned`): one lemma per step of a call says how that set changes.

`PubSubProofs`. `ManagersKeepPromises`: `ManagerInv`; `DefaultClientServes`;
`PublisherMadeOnce`. NewManager, Release and Subscribe go through the names one by
one, so what they promise of all names is proved of those whose turn has come
(`ManagerSteps`, `SubscribeSteps`); `RolePhases` keeps the three roles apart.

`BrokerProofs`, RabbitMQ. `ConnectionKept`: `ConnInv`. `LoopsStarted` counts: there
is one loop for every Connect that succeeded, and room for those of the callers
under way; with one loop alone, `WaitSound` is inductive. `OneStream` (`SubInv`)
and `NoMessageLost` (`NothingUnhandledLost`): a connection that is gone never comes
back under its number, so a stream that is not open stays so, and the goroutine
that receives has a stream (`Streaming`), the one Unsubscribe knows (`StreamKnown`).
The server consumes for every stream that is open, so it drops no queue of one, and
it has dropped none before there was a stream (`ServerKnows`); whatever settles a
message for good puts it into `handled`.

`BrokerProofs`, Kafka. `ClientsFound` (`KafkaInv`); `CommitsFollowTries`
(`CommitsWhatWasTried`). A commit passes every offset below it, whoever handled
them, so the invariant compares sessions: what a session is done with
since its start was tried or does not decode, and its mark stands right behind an
offset it has taken and that was marked (`SessionInv`); everything between the first
session's start and what is committed was tried or acknowledged (`Committed`); and
the owner started at or before what is committed, so its commits leave no gap
(`OwnerStarted`). `EarlyClients`: until Connect is through, every client that is open
was opened early, and `k.sc` still has them.

`HttpProofs`, the client. `NothingLeftBehind`: `ClientInv`; `TriesAsConfigured`;
`BodiesWhole`; `ReloadKeepsClients`. Three parts: where a call stands and which
response may be open (`CallInv`); a bound on what has been waited after each number
of judged attempts, from which the bound on the whole call follows (`WaitInv`); and,
until the reader is set back under a writer, that only the last attempt's goroutine
writes and that it has sent what the reader has given (`BodyInv`).

`HttpProofs`, the middleware and the errors. `AnsweredFromOwnBuffer` (`FrontInv`):
each stage has the number of answers that belongs to it (`AnsweredOnce`), and the
buffer of a request in gin is in no other request's hands and not in the pool
(`OwnBuffers`). `RecordsItsAnswer` (`CountsAnswers`): such a buffer holds the code
of the answer given so far (`CountInv`); others cannot write to it, so what is
decoded from it (`Recordable`) is that answer's code or nothing. `CodesArrive`
(`AnswersTruly`): on its way back an error is as it was raised (`Raw`), as a
caller gets it (`Carried`) or as a server sends it (`Sent`), and `Truthful` says
which at each stage; `Unmetered` that none of the services it has passed has
metrics on, since it would have been replaced there. The lemmas about the
operators of `Errors` say how one becomes the other: `WrapSends` (the server's
wrapper and the transport), `UnwrapCarries` (the client's wrapper takes the mark
off that the server put on, since the flag reaches every service behind a client
of the library, `FlagsSound`), `ErrorAnswered`, `GatewayAnswers` and
`RecoveryAnswers`. Texts that begin with the mark and the smallest 32-bit code are
outside `Claimed`, as in the property.

Only model-checked: the liveness properties `RunReturns`, `OrphanExpires`,
`Converges`, `KeepsConnection`, `Resumes`, `EventuallyTried` and `GoroutinesGoOn`,
which need fairness and ENABLED, and so are out of the prover's reach.

## Mutants

A definition `X_Y` that stands just before `X` is a variant of `X` with a
plausible mistake `Y` in it. No specification uses it. Each property of a
run is violated when `X` is replaced by one of them; `PROJECT.json` lists
which by which.

## Known deviations

Behaviours of the models that follow from the code; the properties above are
stated around them. Where a document or comment of the repository says
otherwise, it is quoted.

Lock and start.

* `IsLocked` (`lock/redis/lock.go:92`) reads the local token only and answers true
  for a lock that has expired, while lock.go:89 says "returns true if a lock is
  still being held".
* The handler of `lock.Run` (`lock.go:59`) goes on when its lease is over, beside
  the handler of the next invocation. `NilMeansExclusive` says what a caller can
  rely on nevertheless.
* When the server cannot start, `Run` and `Init` send on `watcherCancelC`
  (`service/service.go:99`, `:126`; "服务启动失败，通知停止engine的监听"), from which
  `Subscribe` receives only while it has a change to push (`engine/file/ng.go:79`,
  `engine/etcd/ng.go:209`). Without one, the error is never returned.
* A document written between the first read and the start of the watch
  (`engine/etcd/ng.go:187`) is not noticed until the next write.
* The etcd engine's `Subscribe` closes `watcherCancelC`, which its caller closes
  again (`engine/etcd/ng.go:185`, `service/service.go:210`): every end of the watch
  ends the process, the "graceful shutdown" of ng.go:190 too. `ChannelsSafe`
  is therefore stated for the file engine.
* An event that creates a key under the watched prefix has no `PrevKv` and
  panics (`ng.go:198`); a nil engine is used when etcd cannot be reached
  (`service.go:109`).

RabbitMQ.

* After Close both cases of the loop's select are ready (`connection.go:134`);
  it may take the other one and connect again, although pub/manager.go:103 says
  "Release 释放broker连接资源".
* A second Connect during an outage starts a second loop, and both close
  `waitConnection` (`connection.go:126`). `WaitSound` covers the time before.
* Unsubscribe between the successful Consume and the assignment of `s.ch`
  (`rabbitmq.go:123`) closes the previous channel or none, and the goroutine goes
  on receiving.
* Unless `DurableQueue` is asked for, the queue is declared neither durable nor kept
  (`rabbitmq.go:199`, `channel.go:87`, autoDelete): the server deletes it with its
  messages when its only consumer goes, for an outage or Unsubscribe, unhandled
  ones included. `NothingUnhandledLost` says when that may happen ("dropped").
  Messages published while there is no queue go nowhere. The model assumes that
  Subscribe names its queue; one without a name is a new one for every stream.
* A handler that calls Ack although the library does so too acknowledges twice,
  and the server closes the channel (`Settle`).
* `Consume` may be called on a nil connection in spite of the recheck of
  `connected` (`rabbitmq.go:102`), and a buffered message may start a handler
  after Disconnect has waited for all of them (`rabbitmq.go:134`, `:290`).

Kafka.

* A Connect whose producer cannot be made leaves `k.c` set (`kafka.go:97`): the
  next Connect answers nil, and Publish and Disconnect use a nil producer.
* Subscribe before or while Connect runs opens a client that `k.sc = make(...)`
  (`kafka.go:107`) forgets: Disconnect does not close it. `ClientsKnown` tells those
  apart (`early`).
* `publication.Ack` inside the handler (`kafka.go:56`) marks the message before the
  handler has returned, so the group may commit one that is still being handled,
  and every earlier one with it, failed or not.
* A closed group may leave its goroutine receiving from the closed channel of
  errors for ever (`ConsumeEnds`, "spinning").
* A group without an offset starts at what is published next, so a message
  published before its first session, or before its first commit, is skipped by
  it (`StartOffset`); one that failed is passed over by the success of a later one.

PubSub.

* The broker a manager makes to try the configuration is never released, nor are
  those made before NewManager fails (`pub/manager.go:52`).
* The table of publishers is read without its lock (`pub.go:35`).
* A subscription server that has started after the signal waits for the next one
  (`sub.go:83`); Run of the manager does not wait for its servers.

Container and clients.

* Mongo disabled and enabled again gets the disconnected client of before
  (`plugin/plugin.go:380`, `mongo/client.go:122`, `:171`; the once-guard is not
  reset): calls fail without a reload at work (`released`).
* Redis or mysql disabled is forgotten with its pool open, and nobody can close it
  any more (`plugin.go:146`, `:181`); `NothingLeaks` allows for these (`dropped`).
* Without a logger a request panics where the wrapper's recover is not installed
  yet (`wrap.go:53`); the server of go-micro recovers from it.
* A redis client whose Close fails is kept, closed (`redis/client.go:83`); a reload
  never changes the kind of the redis client (`plugin/plugin.go:144`); a redis
  cluster without prometheus makes every request panic in the wrapper
  (`wrap.go:130`); a reload that enables prometheus panics (`plugin.go:205`).
* A logger, tracer or agent that could not be made is not tried again until its
  configuration changes, since the configuration is saved all the same
  (`plugin.go:108`).
* With metrics the clients of redis and mysql are made twice and the first pool is
  never closed; mysql counts into the registered metrics only from the first
  reload on; ZSetRange counts as a ttl; metrics that were enabled once go on
  counting. Every reload of mysql starts another goroutine that pings for ever
  (`mysql/client.go:67`). `GetCli` of mysql does not take the lock.

HTTP client.

* A last answer of 500 and more is returned as a body without an error, and the
  client waits after the last attempt too (`client.go:318`).
* The reader is set back while the transport may still be reading from it
  (`client.go:315`); `BodyIntact` covers the other calls.
* A jitter of 0 with retries panics in `rand.Int63n` (`backoff.go:37`); the default
  client has no host and panics when it chooses one.

Errors and middleware.

* A text that begins with "-@" gets its code negated; the smallest 32-bit code is
  its own negative. A typed nil is a success over RPC and `ECodeSystem` in gin. A
  panic with a value that is no error is `ECodeInternal` in gin and `ECodeSystem`
  over RPC.
* With prometheus enabled, `Timing` at `wrap.go:136` and `:294` is given two labels for
  a histogram with one (`innerprom.go:57`, `:80`, `:157`) and panics in a deferred
  function. The server's wrapper then answers every request that has come to its
  handler, the successful ones too, with `ECodeSystem`; the client's wrapper
  panics in the handler that made the call, if that succeeded. `AnswersTruly` and
  `ServedWhileCalm` say so.
* Access reads the code of an answer into an int32 (`gin.go:156`); one that does not
  fit is recorded nowhere (`gin.go:161`), and the access log has the code only of
  answers with status 200 (`gin.go:168`). `CountsAnswers` says so.
* Recovery outside of Access answers with a writer whose buffer is in the pool
  again; Access that fails without a span panics in ErrorResponse, and when it
  panics with its buffer taken (`gin.go:200` to `:223`) Recovery panics likewise: the
  request has no answer. Access without OnlyLogErr records the code 0 always.
  `CountsAnswers` is stated around these.
* At this commit `wrap.go:136`, `:294`, `gin.go:197` and `mysql/interceptor.go:37` pass
  an integer where `Timing` wants a float, so these files do not compile; the
  models take the call for what it says.

Sequence.

* 2^16 numbers in a second, a clock that steps back and a restart within a
  second can each repeat a number (`sequence.go:59`, `:65`): `KeepsPromise` is
  about the time before the first of them.

## Plan

Done: every component with state of its own, its runs, and a theorem for every
invariant and action property of them. Next, in this order:

1. For each liveness property the safety half that can be proved: what is true as
   long as the goal is not reached, and which step reaches it.
2. `OneStream` and `ConnectionKept` beyond the second Connect, as far as the code
   keeps anything then.
3. The lemmas that several proof modules have in a form of their own (sequences
   under Append and Tail, functions under EXCEPT), stated once.

## Not modelled, and why

The code generator `tools/gen-broccoli` writes text; swagger data, proto definitions
and samples are generated or example code. `prometheus/pubprom.go` builds metrics
at the start of a process and calls the library. `ratelimit`, `context`, `utils`,
`pprof` and the hooks of `log` are thin wrappers of libraries or pure helpers
without state. Broker options are records of settings.

Left out within the modelled parts: routes, swagger and options of `service`;
declarations of exchanges and queues; the default subscriber, which does what one
server of the subscription manager does; the choice of a host, headers and
traces of the HTTP client; binding, rate limits, rewrite functions and raw
responses of the gin middleware; durations and calls in flight, which are
measured around the commands that are counted; wording of logs and errors.

Assumed of what is outside: the RabbitMQ and Kafka servers do not restart; a
stream whose queue cannot be bound is as one that has not begun; Connect and
Disconnect of the Kafka broker are called by the goroutine that owns it, which
does not use the broker after Disconnect; a request's configuration is the one
its wrapper has read at the start.
