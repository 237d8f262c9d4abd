--------------------------- MODULE RabbitSubscriber ---------------------------
(***************************************************************************)
(* One subscriber of the RabbitMQ broker on a connection of RabbitConn:    *)
(* the resubscribe goroutine, Unsubscribe, the handlers it starts, their   *)
(* acknowledgements, and Disconnect, which waits for the handlers.  A      *)
(* stream is the channel of one Consume that has come as far as the server;*)
(* streams are numbered, 0 is none.  There is one subscriber, so           *)
(* rbroker.mtx is always free.  The server and its queue are external.     *)
(***************************************************************************)
EXTENDS RabbitConn

CONSTANTS
  Msgs,            \* messages published to the queue
  AutoAck,         \* option, set unless the other one is or DisableAutoAck
  AckSuccess,      \* option: acknowledge after success, no AutoAck
  RequeueOnError,  \* option: put the message of a failed handler back
  DurableQueue     \* option; without it the server drops the queue with its last consumer

ASSUME OptionsAssumption ==
  /\ AutoAck \in BOOLEAN /\ AckSuccess \in BOOLEAN /\ ~(AutoAck /\ AckSuccess)
  /\ RequeueOnError \in BOOLEAN /\ DurableQueue \in BOOLEAN

VARIABLES
  sub,       \* the resubscribe goroutine
  mayRun,    \* subscriber.mayRun
  ch,        \* subscriber.ch
  stream,    \* the last stream
  on,        \* the connection it is on
  cancelled, \* its channel was closed
  owed,      \* its messages that a handler was given and that wait for an answer
  declared,  \* server: the queue is there
  attached,  \* server: the streams that consume from it
  status,    \* server: per message, "unsent", "ready", "unacked", "gone" or "dropped"
  holder,    \* server: the stream a message that is unacked was delivered to, else 0
  buffer,    \* messages of the stream not yet received
  handlers,  \* goroutines that run fn, each with its message and stream
  disc,      \* per caller: "none", "waits" in wg.Wait(), or "returned"
  handled    \* history: messages that the application has acknowledged itself, or for which
             \* a handler returned nil with AckSuccess, or failed and requeues nothing

subscriber == <<sub, mayRun, ch>>
consuming  == <<stream, on, cancelled>>
queue      == <<declared, attached, status, holder>>
server     == <<consuming, owed, queue, buffer>>
outcomes   == <<disc, handled>>
subVars    == <<subscriber, server, handlers, outcomes>>
allVars    == <<vars, subVars>>

Statuses == {"unsent", "ready", "unacked", "gone", "dropped"}

SubTypeOK ==
  /\ TypeOK
  /\ sub \in {"none", "check", "wait", "recheck", "consume", "store", "range", "done"}
  /\ mayRun \in BOOLEAN /\ cancelled \in BOOLEAN /\ declared \in BOOLEAN
  /\ stream \in Nat /\ ch \in 0 .. stream /\ on \in Conns \cup {0}
  /\ owed \subseteq Msgs /\ buffer \subseteq Msgs
  /\ attached \subseteq 1 .. stream
  /\ status \in [Msgs -> Statuses] /\ holder \in [Msgs -> 0 .. stream]
  /\ handlers \subseteq Msgs \X (1 .. stream)
  /\ disc \in [Callers -> {"none", "waits", "returned"}]
  /\ handled \subseteq Msgs

SubInit ==
  /\ Init
  /\ sub = "none" /\ mayRun = TRUE /\ ch = 0
  /\ stream = 0 /\ on = 0 /\ cancelled = FALSE
  /\ owed = {} /\ buffer = {} /\ handlers = {}
  /\ declared = FALSE /\ attached = {}
  /\ status = [m \in Msgs |-> "unsent"] /\ holder = [m \in Msgs |-> 0]
  /\ disc = [c \in Callers |-> "none"] /\ handled = {}

Up == panic = "none"
SubAt(place) == Up /\ sub = place
Open == stream # 0 /\ on \in alive /\ ~cancelled

-----------------------------------------------------------------------------
(* Subscribe needs a broker whose Connect was called.                      *)
Subscribe ==
  /\ SubAt("none")
  /\ gen > 0
  /\ sub' = "check"
  /\ UNCHANGED <<vars, mayRun, ch, server, handlers, outcomes>>

(* Unsubscribe closes the channel it finds, the goroutine stops by itself. *)
Unsubscribe ==
  /\ Up
  /\ sub # "none"
  /\ mayRun
  /\ mayRun' = FALSE
  /\ cancelled' = (cancelled \/ (ch # 0 /\ ch = stream))
  /\ UNCHANGED <<vars, sub, ch, stream, on, owed, queue, buffer, handlers, outcomes>>

-----------------------------------------------------------------------------
(* resubscribe                                                             *)
SubGoto(place) ==
  /\ sub' = place
  /\ UNCHANGED <<vars, mayRun, ch, server, handlers, outcomes>>

SubCheck == SubAt("check") /\ SubGoto(IF mayRun THEN "wait" ELSE "done")

(* select: r.close is closed, or waitConnection is.                        *)
SubShutdown == SubAt("wait") /\ closed /\ SubGoto("done")
SubReady    == SubAt("wait") /\ ~waiting /\ SubGoto("recheck")
SubRecheck  == SubAt("recheck") /\ SubGoto(IF connected THEN "consume" ELSE "check")

(* Consume opens a channel on r.Connection, declares the queue, starts a   *)
(* stream and binds the queue, ...                                         *)
Consume ==
  /\ SubAt("consume")
  /\ connection \in alive
  /\ sub' = "store"
  /\ stream' = stream + 1 /\ on' = connection /\ cancelled' = FALSE
  /\ owed' = {} /\ declared' = TRUE /\ attached' = attached \cup {stream + 1}
  /\ UNCHANGED <<vars, mayRun, ch, status, holder, buffer, handlers, outcomes>>

(* ... or one of them fails, which closes the channel and is as if it had  *)
(* not begun: a delay that doubles up to its maximum, then once more.      *)
ConsumeFailed_GivesUp == SubAt("consume") /\ connection # 0 /\ SubGoto("done")
ConsumeFailed == SubAt("consume") /\ connection # 0 /\ SubGoto("check")

ConsumeOnNil ==
  /\ SubAt("consume")
  /\ connection = 0
  /\ Panic("nil connection")
  /\ UNCHANGED subVars

Store_FirstOnly ==
  /\ SubAt("store")
  /\ ch' = IF ch = 0 THEN stream ELSE ch
  /\ sub' = "range"
  /\ UNCHANGED <<vars, mayRun, server, handlers, outcomes>>
Store ==
  /\ SubAt("store")
  /\ ch' = stream
  /\ sub' = "range"
  /\ UNCHANGED <<vars, mayRun, server, handlers, outcomes>>

(* A message of the stream: wg.Add(1) and a goroutine for it.              *)
StartHandler(m) ==
  /\ SubAt("range")
  /\ m \in buffer
  /\ buffer' = buffer \ {m}
  /\ handlers' = handlers \cup {<<m, stream>>}
  /\ owed' = IF AutoAck THEN owed ELSE owed \cup {m}
  /\ UNCHANGED <<vars, subscriber, consuming, queue, outcomes>>

(* The stream is closed; what was buffered may be received first or not.   *)
RangeEnds ==
  /\ SubAt("range")
  /\ ~Open
  /\ buffer' = {} /\ owed' = {}
  /\ sub' = "check"
  /\ UNCHANGED <<vars, mayRun, ch, consuming, queue, handlers, outcomes>>

-----------------------------------------------------------------------------
(* An Ack or a Nack of a delivery of stream s.  On a stream that is closed *)
(* it has no effect; for a delivery that waits for none the server closes  *)
(* the channel.                                                            *)
Settle(m, s, to) ==
  /\ IF s = stream /\ Open /\ m \in owed
     THEN /\ status' = [status EXCEPT ![m] = to] /\ holder' = [holder EXCEPT ![m] = 0]
          /\ owed' = owed \ {m}
     ELSE UNCHANGED <<status, holder, owed>>
  /\ cancelled' = (cancelled \/ (s = stream /\ Open /\ m \notin owed))

(* publication.Ack, which the application calls in the handler, or later  *)
(* for a message that still waits: called twice it closes the channel.     *)
Acknowledge(m) ==
  /\ Up
  /\ Open
  /\ m \in owed \/ <<m, stream>> \in handlers
  /\ Settle(m, stream, "gone")
  /\ handled' = handled \cup {m}
  /\ UNCHANGED <<vars, subscriber, stream, on, declared, attached, buffer, handlers, disc>>

(* Where a message goes whose handler failed.                              *)
Refused_Acks == "gone"
Refused == IF RequeueOnError THEN "ready" ELSE "gone"

(* The end of a handler, which may have acknowledged its message itself.   *)
HandlerEnds(h) ==
  /\ Up
  /\ h \in handlers
  /\ handlers' = handlers \ {h}
  /\ UNCHANGED <<vars, subscriber, stream, on, declared, attached, buffer, disc>>

HandlerDone(h) ==
  /\ HandlerEnds(h)
  /\ IF AckSuccess
     THEN Settle(h[1], h[2], "gone") /\ handled' = handled \cup {h[1]}
     ELSE UNCHANGED <<status, holder, cancelled, owed, handled>>

HandlerFailed(h) ==
  /\ HandlerEnds(h)
  /\ IF AutoAck THEN UNCHANGED <<status, holder, cancelled, owed>>
                ELSE Settle(h[1], h[2], Refused)
  /\ handled' = IF RequeueOnError THEN handled ELSE handled \cup {h[1]}

(* Disconnect: Close, then wg.Wait() for the handlers that run.            *)
Disconnect(c) ==
  /\ disc[c] = "none"
  /\ Close(c)
  /\ disc' = [disc EXCEPT ![c] = "waits"]
  /\ UNCHANGED <<subscriber, server, handlers, handled>>

Disconnected(c) ==
  /\ Up
  /\ disc[c] = "waits"
  /\ handlers = {}
  /\ disc' = [disc EXCEPT ![c] = "returned"]
  /\ UNCHANGED <<vars, subscriber, server, handlers, handled>>

-----------------------------------------------------------------------------
(* A message is published to the queue, and delivered to a stream of which *)
(* the server does not know that it is closed.                             *)
Arrive(m) ==
  /\ Up
  /\ declared
  /\ status[m] = "unsent"
  /\ status' = [status EXCEPT ![m] = "ready"]
  /\ UNCHANGED <<vars, subscriber, consuming, owed, declared, attached, holder, buffer,
                 handlers, outcomes>>

Deliver(m, s) ==
  /\ Up
  /\ s \in attached
  /\ status[m] = "ready"
  /\ status' = [status EXCEPT ![m] = IF AutoAck THEN "gone" ELSE "unacked"]
  /\ holder' = [holder EXCEPT ![m] = IF AutoAck THEN 0 ELSE s]
  /\ buffer' = IF s = stream /\ Open THEN buffer \cup {m} ELSE buffer
  /\ UNCHANGED <<vars, subscriber, consuming, owed, declared, attached, handlers, outcomes>>

(* The server learns that a stream is closed: what it has not acknowledged *)
(* is ready again, and a queue that is not durable (autoDelete) is dropped *)
(* with all that is in it once nobody consumes from it.                    *)
Detach(s) ==
  LET last == attached = {s} /\ ~DurableQueue
      back(m) == status[m] = "ready" \/ holder[m] = s
  IN
  /\ Up
  /\ s \in attached
  /\ s # stream \/ ~Open
  /\ attached' = attached \ {s}
  /\ declared' = ~last
  /\ status' = [m \in Msgs |->
       IF back(m) THEN (IF last THEN "dropped" ELSE "ready") ELSE status[m]]
  /\ holder' = [m \in Msgs |-> IF holder[m] = s THEN 0 ELSE holder[m]]
  /\ UNCHANGED <<vars, subscriber, consuming, owed, buffer, handlers, outcomes>>

-----------------------------------------------------------------------------
Resubscribe ==
  \/ SubCheck \/ SubShutdown \/ SubReady \/ SubRecheck \/ Consume \/ ConsumeFailed
  \/ ConsumeOnNil \/ Store \/ RangeEnds \/ \E m \in Msgs : StartHandler(m)

Conn(c) == \/ Connect(c) \/ TryConnect(c) \/ Connected(c)
           \/ CloseWithoutConnection(c) \/ PublishWithoutChannel(c)

SubNext ==
  \/ (\E c \in Callers : Conn(c)) /\ UNCHANGED subVars
  \/ (\E l \in Loops : LoopStep(l)) /\ UNCHANGED subVars
  \/ (\E k \in alive : Lose(k)) /\ UNCHANGED subVars
  \/ Subscribe \/ Unsubscribe \/ Resubscribe
  \/ \E h \in handlers : HandlerDone(h) \/ HandlerFailed(h)
  \/ \E c \in Callers : Disconnect(c) \/ Disconnected(c)
  \/ \E m \in Msgs : Arrive(m) \/ Acknowledge(m)
  \/ \E s \in attached : Detach(s) \/ \E m \in Msgs : Deliver(m, s)

SubSpec == SubInit /\ [][SubNext]_allVars

(* The fairness of RabbitConn; the goroutine runs, and Consume on a        *)
(* connection that stays succeeds in the end.  Of a handler nothing is     *)
(* assumed, nor of the server's deliveries.                                *)
SubFairness ==
  /\ \A p \in Callers \cup Loops : SF_allVars(Dial(p) /\ UNCHANGED subVars)
  /\ \A p \in Callers \cup Loops : WF_allVars(TryConnect(p) /\ UNCHANGED subVars)
  /\ \A c \in Callers : WF_allVars(Connected(c) /\ UNCHANGED subVars)
  /\ \A l \in Loops : /\ WF_allVars(LoopStep(l) /\ UNCHANGED subVars)
                      /\ SF_allVars(OpenChannels(l) /\ UNCHANGED subVars)
  /\ WF_allVars(Resubscribe) /\ SF_allVars(Consume)

FairSubSpec == SubSpec /\ SubFairness

-----------------------------------------------------------------------------
(* Properties.                                                             *)

(* Without AutoAck a message leaves the queue only when the application    *)
(* acknowledged it, when a handler of it returned nil with AckSuccess, or  *)
(* failed where failures are not requeued: through lost connections, late  *)
(* and second acknowledgements, Unsubscribe and Disconnect.  The server    *)
(* drops it with the queue only if that is not durable, and never while the*)
(* first stream is open.                                                   *)
NothingUnhandledLost ==
  \A m \in Msgs :
    /\ status[m] = "gone" /\ ~AutoAck => m \in handled
    /\ status[m] = "dropped" => ~DurableQueue /\ (Open => stream > 1)

(* The stream that is being received from is the one that Unsubscribe will *)
(* close, and the only one.                                                *)
StreamKnown ==
  /\ sub = "range" => ch = stream
  /\ Open => sub \in {"store", "range"}

(* What a subscriber keeps through outages: there is one stream of         *)
(* deliveries at most, and Unsubscribe would close that one.               *)
SubInv == SubTypeOK /\ StreamKnown

(* A subscriber that is not unsubscribed gets a stream again and again,    *)
(* after every outage, until the connection is closed.                     *)
Resumes ==
  []<>(Open \/ sub = "none" \/ ~mayRun \/ closed \/ opens = 0 \/ panic # "none")
=============================================================================
