------------------------------ MODULE KafkaBroker ------------------------------
(***************************************************************************)
(* The Kafka broker, pubsub/broker/kafka: what Connect, Disconnect and     *)
(* Subscribe do to the sarama clients, the loop that every Subscribe       *)
(* starts, and how the members of one consumer group handle, mark and      *)
(* commit the messages of one partition.  The group coordinator and sarama *)
(* are external; they are modelled from how this code uses them.  A name   *)
(* begins with Kafka where the RabbitMQ modules have the name that the code*)
(* gives it, so that BrokerProofs can speak of both brokers.               *)
(***************************************************************************)
EXTENDS Integers, Sequences, FiniteSetsExt

(* A definition X_Y just before X is a variant of X with a mistake in it,  *)
(* used by no specification: README, "Mutants".                            *)

CONSTANTS
  Subs,         \* calls of Subscribe, all with the same topic and queue
  None,         \* nobody
  MaxLog,       \* bound: messages in the partition
  MaxRebalances \* bound: sessions ended by the coordinator

ASSUME SubsAssumption == None \notin Subs
ASSUME LogAssumption  == MaxLog \in Nat /\ MaxRebalances \in Nat

Offsets == 1 .. MaxLog
Ends    == 0 .. MaxLog + 1
Kinds   == {"message", "undecodable"}

VARIABLES
  conn,       \* what Connect has done: "none", "client" (k.c is set), "half" (it failed
              \* then), "producer" (k.p is set too), "up"; "down": Disconnect was called
  sc,         \* k.sc: subscriptions whose client is in it
  open,       \* subscriptions whose client is open
  early,      \* history: subscriptions made before Connect was through
  loop,       \* per subscription: "none", "consume", "session", "ended", "spinning"
  shut,       \* subscriptions whose consumer group was closed
  autoAck,    \* the subscribe option
  log,        \* the partition: what it holds
  committed,  \* the offset the group reads next; 0: none was ever committed
  owner,      \* the member of the current generation
  from,       \* per subscription: where its session started
  pos,        \* per subscription: the next offset its session delivers
  busy,       \* per subscription: the offset its handler works on, or 0
  mark,       \* per subscription: one more than the last mark of its session, or 0
  base,       \* history: where the session of the first commit started
  tried,      \* history: offsets a handler has returned from
  settled,    \* history: offsets that were marked
  rebalances,
  nilProducer \* k.p was nil when it was used

links     == <<conn, sc, open, early>>
group     == <<log, committed, owner, base, rebalances>>
session   == <<from, pos, busy, mark>>
outcome   == <<tried, settled>>
kafkaVars == <<links, loop, shut, autoAck, group, session, outcome, nilProducer>>

KafkaTypeOK ==
  /\ conn \in {"none", "client", "half", "producer", "up", "down"}
  /\ sc \subseteq Subs /\ open \subseteq Subs /\ early \subseteq Subs /\ shut \subseteq Subs
  /\ loop \in [Subs -> {"none", "consume", "session", "ended", "spinning"}]
  /\ autoAck \in BOOLEAN /\ nilProducer \in BOOLEAN
  /\ log \in Seq(Kinds) /\ Len(log) <= MaxLog
  /\ committed \in Ends /\ base \in Ends /\ owner \in Subs \cup {None}
  /\ from \in [Subs -> Ends] /\ pos \in [Subs -> Ends]
  /\ busy \in [Subs -> {0} \cup Offsets] /\ mark \in [Subs -> Ends]
  /\ tried \subseteq Offsets /\ settled \subseteq Offsets
  /\ rebalances \in 0 .. MaxRebalances

(* NewBroker and Init: addresses and options, no connection.               *)
KafkaInit ==
  /\ conn = "none" /\ sc = {} /\ open = {} /\ early = {} /\ shut = {}
  /\ loop = [s \in Subs |-> "none"]
  /\ autoAck \in BOOLEAN
  /\ log = <<>> /\ committed = 0 /\ owner = None /\ base = 0 /\ rebalances = 0
  /\ from = [s \in Subs |-> 0] /\ pos = [s \in Subs |-> 0]
  /\ busy = [s \in Subs |-> 0] /\ mark = [s \in Subs |-> 0]
  /\ tried = {} /\ settled = {}
  /\ nilProducer = FALSE

-----------------------------------------------------------------------------
(* Connect makes the client, then the producer, then k.sc anew: whoever is *)
(* in it by then is forgotten.  If the producer fails, k.c stays; once k.c *)
(* is set Connect returns nil and does nothing.  Connect and Disconnect    *)
(* are called by the goroutine that owns the broker, Subscribe by any.     *)
KafkaConnect ==
  /\ ~nilProducer
  /\ conn = "none"
  /\ conn' = "client"
  /\ UNCHANGED <<sc, open, early, loop, shut, autoAck, group, session, outcome,
                 nilProducer>>

ProducerMade ==
  /\ ~nilProducer
  /\ conn = "client"
  /\ conn' \in {"producer", "half"}
  /\ UNCHANGED <<sc, open, early, loop, shut, autoAck, group, session, outcome,
                 nilProducer>>

ClientsReset ==
  /\ ~nilProducer
  /\ conn = "producer"
  /\ conn' = "up" /\ sc' = {}
  /\ UNCHANGED <<open, early, loop, shut, autoAck, group, session, outcome,
                 nilProducer>>

(* Disconnect closes every client of k.sc, then the producer, nil unless   *)
(* Connect has come to it, and k.c.                                        *)
KafkaDisconnect ==
  /\ ~nilProducer
  /\ conn \in {"none", "half", "up"}
  /\ open' = open \ sc /\ sc' = {}
  /\ owner' = IF owner \in sc THEN None ELSE owner
  /\ IF conn = "up" THEN conn' = "down" /\ UNCHANGED nilProducer
                    ELSE nilProducer' = TRUE /\ UNCHANGED conn
  /\ UNCHANGED <<early, loop, shut, autoAck, log, committed, base, rebalances,
                 session, outcome>>

(* What Publish writes decodes for a subscriber if the codec has encoded   *)
(* the message; the body as it is may be no JSON object, and without the   *)
(* broker's configuration the value is empty.                              *)
Encoded == [bare |-> {"undecodable"}, original |-> Kinds, codec |-> {"message"}]

KafkaPublish ==
  /\ ~nilProducer
  /\ conn # "down"
  /\ Len(log) < MaxLog
  /\ IF conn \in {"none", "client", "half"}
     THEN nilProducer' = TRUE /\ UNCHANGED log
     ELSE /\ \E mode \in DOMAIN Encoded : \E kind \in Encoded[mode] :
               log' = Append(log, kind)
          /\ UNCHANGED nilProducer
  /\ UNCHANGED <<links, loop, shut, autoAck, committed, owner, base,
                 rebalances, session, outcome>>

(* Subscribe: a client of its own, remembered in k.sc before the consumer  *)
(* group is made of it, so that it is there even if that fails.  It looks  *)
(* at nothing that Connect sets.                                           *)
Early(s) == IF conn \in {"none", "client", "producer"} THEN early \cup {s} ELSE early

KafkaSubscribe_RemembersGroupsOnly(s) ==
  /\ ~nilProducer
  /\ loop[s] = "none"
  /\ open' = open \cup {s} /\ early' = Early(s)
  /\ \E made \in BOOLEAN :
       /\ loop' = [loop EXCEPT ![s] = IF made THEN "consume" ELSE "ended"]
       /\ sc' = IF made THEN sc \cup {s} ELSE sc
  /\ UNCHANGED <<conn, shut, autoAck, group, session, outcome, nilProducer>>
KafkaSubscribe(s) ==
  /\ ~nilProducer
  /\ loop[s] = "none"
  /\ open' = open \cup {s} /\ sc' = sc \cup {s} /\ early' = Early(s)
  /\ loop' \in {[loop EXCEPT ![s] = "consume"], [loop EXCEPT ![s] = "ended"]}
  /\ UNCHANGED <<conn, shut, autoAck, group, session, outcome, nilProducer>>

KafkaUnsubscribe(s) ==
  /\ ~nilProducer
  /\ loop[s] \in {"consume", "session"} /\ s \notin shut
  /\ shut' = shut \cup {s}
  /\ UNCHANGED <<links, loop, autoAck, group, session, outcome, nilProducer>>

-----------------------------------------------------------------------------
(* The loop: Consume joins the group and runs ConsumeClaim; a group that   *)
(* has no offset starts with what is published from now on.                *)
StartOffset_Newest == Len(log) + 1
StartOffset == IF committed = 0 THEN Len(log) + 1 ELSE committed

KafkaConsume(s) ==
  /\ ~nilProducer
  /\ loop[s] = "consume" /\ s \in open \ shut
  /\ owner = None
  /\ owner' = s
  /\ loop' = [loop EXCEPT ![s] = "session"]
  /\ from' = [from EXCEPT ![s] = StartOffset]
  /\ pos' = [pos EXCEPT ![s] = StartOffset]
  /\ mark' = [mark EXCEPT ![s] = 0]
  /\ UNCHANGED <<links, shut, autoAck, log, committed, base, rebalances, busy,
                 outcome, nilProducer>>

(* Consume returns ErrClosedConsumerGroup and the goroutine ends, unless   *)
(* the channel of errors is closed by then: receiving from it is always    *)
(* possible, and Consume is never called again.                            *)
ConsumeEnds(s) ==
  /\ ~nilProducer
  /\ loop[s] = "consume" /\ s \in shut
  /\ \E end \in {"ended", "spinning"} : loop' = [loop EXCEPT ![s] = end]
  /\ UNCHANGED <<links, shut, autoAck, group, session, outcome, nilProducer>>

Idle(s) == ~nilProducer /\ loop[s] = "session" /\ busy[s] = 0

Marked(s, o) == [mark EXCEPT ![s] = Max({@, o + 1})]

(* ConsumeClaim takes the next message, from its buffer even when the      *)
(* session is over.  One that does not decode is passed over, any other is *)
(* given to the handler.                                                   *)
Take(s) ==
  /\ Idle(s)
  /\ pos[s] <= Len(log)
  /\ pos' = [pos EXCEPT ![s] = @ + 1]
  /\ busy' = IF log[pos[s]] = "undecodable" THEN busy
             ELSE [busy EXCEPT ![s] = pos[s]]
  /\ UNCHANGED <<links, loop, shut, autoAck, group, from, mark, outcome,
                 nilProducer>>

(* The handler returns; after success the message is marked, with AutoAck. *)
HandlerReturns_MarksFailed(s, ok) ==
  /\ ~nilProducer
  /\ busy[s] # 0
  /\ busy' = [busy EXCEPT ![s] = 0]
  /\ tried' = tried \cup {busy[s]}
  /\ mark' = Marked(s, busy[s])
  /\ settled' = IF ok THEN settled \cup {busy[s]} ELSE settled
  /\ UNCHANGED <<links, loop, shut, autoAck, group, from, pos, nilProducer>>
HandlerReturns(s, ok) ==
  /\ ~nilProducer
  /\ busy[s] # 0
  /\ busy' = [busy EXCEPT ![s] = 0]
  /\ tried' = tried \cup {busy[s]}
  /\ IF ok /\ autoAck
     THEN mark' = Marked(s, busy[s]) /\ settled' = settled \cup {busy[s]}
     ELSE UNCHANGED <<mark, settled>>
  /\ UNCHANGED <<links, loop, shut, autoAck, group, from, pos, nilProducer>>

(* publication.Ack, of any message the application was given, by its       *)
(* handler while it runs or by whoever has kept the publication, in any    *)
(* order.  In a session that is over it would change nothing that is ever  *)
(* committed.                                                              *)
Given(s) == {o \in from[s] .. pos[s] - 1 : log[o] # "undecodable"}

Ack(s, o) ==
  /\ ~nilProducer
  /\ owner = s
  /\ o \in Given(s)
  /\ mark' = Marked(s, o) /\ settled' = settled \cup {o}
  /\ UNCHANGED <<links, loop, shut, autoAck, group, from, pos, busy, tried,
                 nilProducer>>

-----------------------------------------------------------------------------
(* sarama and the coordinator (external): marks are committed in the       *)
(* background and when a session ends in good order; those of an evicted   *)
(* member are refused.                                                     *)
Flush(s) ==
  /\ committed' = IF mark[s] = 0 THEN committed ELSE mark[s]
  /\ base' = IF committed = 0 /\ mark[s] # 0 THEN from[s] ELSE base

Commit(s) ==
  /\ ~nilProducer
  /\ owner = s /\ mark[s] \notin {0, committed}
  /\ Flush(s)
  /\ UNCHANGED <<links, loop, shut, autoAck, log, owner, rebalances, session,
                 outcome, nilProducer>>

Release(s) ==
  /\ Idle(s)
  /\ owner = s
  /\ IF s \in shut THEN UNCHANGED rebalances
     ELSE rebalances < MaxRebalances /\ rebalances' = rebalances + 1
  /\ Flush(s)
  /\ owner' = None
  /\ loop' = [loop EXCEPT ![s] = "consume"]
  /\ UNCHANGED <<links, shut, autoAck, log, session, outcome, nilProducer>>

Evict(s) ==
  /\ ~nilProducer
  /\ owner = s /\ rebalances < MaxRebalances
  /\ rebalances' = rebalances + 1 /\ owner' = None
  /\ UNCHANGED <<links, loop, shut, autoAck, log, committed, base, session,
                 outcome, nilProducer>>

(* ConsumeClaim of a session that is lost returns.                         *)
SessionLost(s) ==
  /\ Idle(s)
  /\ owner # s
  /\ loop' = [loop EXCEPT ![s] = "consume"]
  /\ UNCHANGED <<links, shut, autoAck, group, session, outcome, nilProducer>>

Member(s) ==
  \/ KafkaSubscribe(s) \/ KafkaUnsubscribe(s)
  \/ KafkaConsume(s) \/ ConsumeEnds(s) \/ Take(s)
  \/ \E ok \in BOOLEAN : HandlerReturns(s, ok)
  \/ \E o \in Offsets : Ack(s, o)
  \/ Commit(s) \/ Release(s) \/ Evict(s) \/ SessionLost(s)

KafkaNext == \/ KafkaConnect \/ ProducerMade \/ ClientsReset \/ KafkaDisconnect
             \/ KafkaPublish \/ \E s \in Subs : Member(s)

KafkaSpec == KafkaInit /\ [][KafkaNext]_kafkaVars

(* The loops run, a member is given the partition when it asks again and   *)
(* again, a session that is closed or lost ends, and handlers return.      *)
KafkaFairness == \A s \in Subs :
  /\ SF_kafkaVars(KafkaConsume(s)) /\ WF_kafkaVars(Take(s)) /\ WF_kafkaVars(SessionLost(s))
  /\ WF_kafkaVars(s \in shut /\ Release(s))
  /\ WF_kafkaVars(\E ok \in BOOLEAN : HandlerReturns(s, ok))

FairKafkaSpec == KafkaSpec /\ KafkaFairness

-----------------------------------------------------------------------------
(* Properties.                                                             *)

Decodable(o) == log[o] # "undecodable"

(* From where the group first committed, the committed offset passes no    *)
(* message that decodes unless a handler has returned from it or the       *)
(* application has acknowledged it itself, whoever owned the partition     *)
(* meanwhile; and it stands right behind a message that was marked, so     *)
(* that one that failed is passed over only by the success of a later one. *)
CommitsWhatWasTried ==
  committed # 0 =>
    /\ committed - 1 \in settled
    /\ \A o \in base .. committed - 1 : Decodable(o) => o \in tried \cup settled

(* Every client that Subscribe opened and nobody closed is one Disconnect  *)
(* will find, the one whose consumer group could not be made too; only     *)
(* when Connect is through are those forgotten that were opened before.    *)
ClientsKnown ==
  ~nilProducer =>
    /\ open \subseteq sc \cup early
    /\ conn \notin {"up", "down"} => open \subseteq sc

(* What the broker keeps while clients are opened and closed: Disconnect   *)
(* will find every client that is open and was not opened too early.       *)
KafkaInv == KafkaTypeOK /\ ClientsKnown

(* Once the group has an offset, a message published behind it is tried by *)
(* some handler, through rebalances, failures and closed groups, while anybody *)
(* is subscribed.                                                          *)
Deserted ==
  nilProducer \/ \A s \in Subs : \/ loop[s] \in {"none", "ended", "spinning"}
                                 \/ s \in shut \/ s \notin open
EventuallyTried ==
  \A o \in Offsets :
    (committed \in 1 .. o /\ o <= Len(log) /\ log[o] # "undecodable")
      ~> (o \in tried \/ Deserted)
=============================================================================
