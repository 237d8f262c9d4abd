--------------------------------- MODULE Front ---------------------------------
(***************************************************************************)
(* A request on its way through the services and its error on the way      *)
(* back.  It enters by gin (level 0, middleware/http/gin.go) or by the     *)
(* gateway, and goes from the handler of a service to the next over RPC    *)
(* (microsrv/gomicro/wrap.go).  The requests in gin share a pool of        *)
(* buffers, in which Access reads what was answered to record it.          *)
(* Some names begin with Front, since HttpProofs speaks of both ends of a  *)
(* request and HttpClient has them too.                                    *)
(***************************************************************************)
EXTENDS Errors, Sequences

CONSTANTS
  Requests,
  Depth,      \* the services behind gin are 1 .. Depth
  Raised,     \* errors handlers return
  Metered,    \* sets of levels whose services may have metrics on (a bound)
  Buffers     \* what bytesBuffPool holds at most

Levels  == 0 .. Depth
Own(l)  == l + 1   \* the ServiceID at level l
Faithful(e) == e.code \in -Half + 1 .. Half - 1 /\ e.code # 0 /\ e.marks = 0

Int32s  == -Half .. Half - 1

Reply == [status : {200, 400, 401, 404, 500}, code : Int, marks : Nat, service : Nat]
ErrorType == [kind : Kinds, code : Int, marks : Nat, service : Nat, cause : BOOLEAN]

(* An error that is neither the library's nor go-micro's has no code and no*)
(* service; go-micro's code is an int32.                                   *)
Raisable(e) ==
  /\ e.kind # "nil"
  /\ e.kind \in {"plain", "typed nil"} => e.code = 0 /\ e.service = 0
  /\ e.kind = "gm" => e.code \in Int32s

ASSUME FrontAssumption ==
  /\ Depth \in Nat \ {0} /\ 0 \notin Buffers
  /\ Raised \subseteq ErrorType /\ \A e \in Raised : Raisable(e)
  /\ Metered \subseteq SUBSET Levels

NoOrigin == [how |-> "none", level |-> 0, error |-> NoError]

VARIABLES
  recovery,   \* Recovery is a middleware "outside" of Access, "inside", or "none"
  onlyLogErr, \* Trace.OnlyLogErr: Access puts its buffer behind the writer
  metrics,    \* levels with Prometheus.Enable and registered metrics
  entry,      \* per request: "none", "gin", "gateway"
  stage,      \* what it does next
  level,      \* the service that it is in
  incoming,   \* per level: the broccoli-rpc-flag in the metadata it came with
  metadata,   \* per level: the flag in the metadata of the handler's context
  error,      \* what is on the way back
  origin,     \* history: where that comes from
  replies,    \* the answers written to the client
  buf,        \* the buffer of the writer, 0 before there is one
  free,       \* buffers in the pool
  content,    \* per buffer: the codes written to it
  counted,    \* the codes that the metrics of gin count for the request
  logged      \* the codes in its line of the access log

setting == <<recovery, onlyLogErr, metrics>>
flags   == <<incoming, metadata>>
pool    == <<buf, free, content>>
records == <<counted, logged>>
frontVars == <<setting, entry, stage, level, flags, error, origin, replies, pool, records>>

Stages == {"idle", "access", "aborted", "bind", "serve", "handle", "called", "wrap",
           "return", "respond", "panic", "closing", "unwound", "done"}

FrontTypeOK ==
  /\ recovery \in {"outside", "inside", "none"} /\ onlyLogErr \in BOOLEAN
  /\ metrics \subseteq Levels
  /\ entry \in [Requests -> {"none", "gin", "gateway"}]
  /\ stage \in [Requests -> Stages]
  /\ level \in [Requests -> Levels]
  /\ incoming \in [Requests -> [Levels -> BOOLEAN]]
  /\ metadata \in [Requests -> [Levels -> BOOLEAN]]
  /\ \A r \in Requests : error[r] \in ErrorType /\ replies[r] \in Seq(Reply)
  /\ buf \in [Requests -> Buffers \cup {0}] /\ free \subseteq Buffers

FrontInit ==
  /\ recovery \in {"outside", "inside", "none"} /\ onlyLogErr \in BOOLEAN
  /\ metrics \in Metered
  /\ entry = [r \in Requests |-> "none"] /\ stage = [r \in Requests |-> "idle"]
  /\ level = [r \in Requests |-> 0]
  /\ incoming = [r \in Requests |-> [l \in Levels |-> FALSE]] /\ metadata = incoming
  /\ error = [r \in Requests |-> NoError] /\ origin = [r \in Requests |-> NoOrigin]
  /\ replies = [r \in Requests |-> <<>>]
  /\ buf = [r \in Requests |-> 0] /\ free = Buffers
  /\ content = [b \in Buffers |-> <<>>]
  /\ counted = [r \in Requests |-> <<>>] /\ logged = counted

Moves(r, from, to) == stage[r] = from /\ stage' = [stage EXCEPT ![r] = to]
Sets(r, e, how) ==
  /\ error' = [error EXCEPT ![r] = e]
  /\ origin' = [origin EXCEPT ![r] = [how |-> how, level |-> level[r], error |-> e]]

-----------------------------------------------------------------------------
(* A request arrives.                                                      *)
Arrive(r, e) ==
  /\ Moves(r, "idle", IF e = "gin" THEN "access" ELSE "serve")
  /\ entry' = [entry EXCEPT ![r] = e]
  /\ level' = [level EXCEPT ![r] = IF e = "gin" THEN 0 ELSE 1]
  /\ UNCHANGED <<setting, flags, error, origin, replies, pool, records>>

(* Access.  Without a configuration, tracer or span it calls ErrorResponse,*)
(* which asks the span, that there is not, for the trace id.               *)
AccessFails(r) ==
  /\ Moves(r, "access", "panic")
  /\ Sets(r, NoError, "access")
  /\ UNCHANGED <<setting, entry, level, flags, replies, pool, records>>

TakeBuffer(r) ==
  \E b \in free :
    /\ buf' = [buf EXCEPT ![r] = b] /\ free' = free \ {b}
    /\ content' = [content EXCEPT ![b] = <<>>]

Access(r) ==
  /\ Moves(r, "access", "bind")
  /\ TakeBuffer(r)
  /\ UNCHANGED <<setting, entry, level, flags, error, origin, replies, records>>

(* It panics with the buffer taken: the span is not zipkin's, a client is  *)
(* nil, a redis cluster has no metrics.                                    *)
AccessPanics(r) ==
  /\ Moves(r, "access", "aborted")
  /\ TakeBuffer(r)
  /\ Sets(r, NoError, "access")
  /\ UNCHANGED <<setting, entry, level, flags, replies, records>>

(* GenerateGinHandle: the parameters are bound and validated.              *)
Bind(r) ==
  /\ \/ Moves(r, "bind", "handle") /\ UNCHANGED <<error, origin>>
     \/ Moves(r, "bind", "respond") /\ Sets(r, New(ECodeInvalidParams), "error")
  /\ UNCHANGED <<setting, entry, level, flags, replies, pool, records>>

-----------------------------------------------------------------------------
(* The server's wrapper before the handler: no configuration, tracer or    *)
(* span, or a request that is not valid; otherwise StartSpanFromContext    *)
(* makes a copy of the metadata.                                           *)
StartSpan(r) == [metadata EXCEPT ![r][level[r]] = incoming[r][level[r]]]

Serve(r) ==
  /\ \/ /\ Moves(r, "serve", "return")
        /\ \E code \in {ECodeSystem, ECodeInvalidParams} :
             Sets(r, GoMicro(code, Own(level[r])), "refused")
        /\ UNCHANGED metadata
     \/ /\ Moves(r, "serve", "handle")
        /\ metadata' = StartSpan(r)
        /\ UNCHANGED <<error, origin>>
  /\ UNCHANGED <<setting, entry, level, incoming, replies, pool, records>>

(* The handler calls the next service; the flag goes into the metadata of  *)
(* its context, in place.                                                  *)
CallNext_SharedMetadata(r) ==
  /\ level[r] < Depth
  /\ Moves(r, "handle", "serve")
  /\ level' = [level EXCEPT ![r] = @ + 1]
  /\ metadata' = [metadata EXCEPT ![r][level[r]] = TRUE]
  /\ incoming' = [incoming EXCEPT ![r][level[r] + 1] = TRUE, ![r][level[r]] = TRUE]
  /\ UNCHANGED <<setting, entry, error, origin, replies, pool, records>>
CallNext(r) ==
  /\ level[r] < Depth
  /\ Moves(r, "handle", "serve")
  /\ level' = [level EXCEPT ![r] = @ + 1]
  /\ metadata' = [metadata EXCEPT ![r][level[r]] = TRUE]
  /\ incoming' = [incoming EXCEPT ![r][level[r] + 1] = TRUE]
  /\ UNCHANGED <<setting, entry, error, origin, replies, pool, records>>

(* The call ends at the client: by the wrapper, whose own errors are not   *)
(* unwrapped, or by the transport.                                         *)
CallFails(r) ==
  /\ level[r] < Depth
  /\ Moves(r, "handle", "called")
  /\ \E e \in {GoMicro(ECodeSystem, Own(level[r])),
               ClientUnwrap(GoMicro(TransportTimeout, 0), Own(level[r]))} :
       Sets(r, e, "error")
  /\ UNCHANGED <<setting, entry, level, flags, replies, pool, records>>

Leave(r) == IF level[r] = 0 THEN "respond" ELSE "wrap"

(* The handler after a call: it returns the error, or goes on without.     *)
AfterCall(r) ==
  /\ \/ error[r].kind # "nil" /\ Moves(r, "called", Leave(r)) /\ UNCHANGED <<error, origin>>
     \/ Moves(r, "called", "handle") /\ Sets(r, NoError, "none")
  /\ UNCHANGED <<setting, entry, level, flags, replies, pool, records>>

(* The handler returns, or panics: with an error of the runtime, one of    *)
(* the library, or a value that is no error.                               *)
HandlerReturns(r) ==
  /\ Moves(r, "handle", Leave(r))
  /\ \E e \in Raised \cup {NoError} : Sets(r, e, IF e = NoError THEN "none" ELSE "error")
  /\ UNCHANGED <<setting, entry, level, flags, replies, pool, records>>

Panicked == {Error("plain", 0, 0, 0, FALSE), New(ECodeInvalidParams), NoError}

HandlerPanics(r) ==
  /\ Moves(r, "handle", "panic")
  /\ \E e \in Panicked : Sets(r, e, "panic")
  /\ UNCHANGED <<setting, entry, level, flags, replies, pool, records>>

(* The server's wrapper after the handler, and its recover.  Its metrics   *)
(* are deferred, and Timing panics: it has two labels, the histogram one.  *)
Wrap(r) ==
  /\ Moves(r, "wrap", "return")
  /\ \/ /\ level[r] \in metrics
        /\ Sets(r, GoMicro(ECodeSystem, Own(level[r])), "metrics")
     \/ /\ level[r] \notin metrics
        /\ error' = [error EXCEPT ![r] = ServerWrap(@, Own(level[r]), incoming[r][level[r]])]
        /\ UNCHANGED origin
  /\ UNCHANGED <<setting, entry, level, flags, replies, pool, records>>

RecoverRpc(r) ==
  /\ level[r] > 0
  /\ Moves(r, "panic", "return")
  /\ error' = [error EXCEPT ![r] = GoMicro(ECodeSystem, Own(level[r]))]
  /\ UNCHANGED <<setting, entry, level, flags, origin, replies, pool, records>>

(* The answer goes back to the client's wrapper, or to the gateway.        *)
ToCaller(r, to) ==
  /\ level[r] > 1 \/ entry[r] = "gin"
  /\ Moves(r, "return", to)
  /\ level' = [level EXCEPT ![r] = @ - 1]
  /\ UNCHANGED <<setting, entry, flags, replies, pool, records>>

Back(r) ==
  /\ error[r].kind = "nil" => level[r] - 1 \notin metrics
  /\ ToCaller(r, "called")
  /\ error' = [error EXCEPT ![r] =
                 IF @.kind = "nil" THEN @ ELSE ClientUnwrap(Wire(@), Own(level[r] - 1))]
  /\ UNCHANGED origin

(* After a call that succeeded the client's wrapper defers its metrics,    *)
(* whose Timing panics in the handler that made the call.                  *)
MetricsPanic == Error("plain", 0, 0, 0, FALSE)

BackPanics(r) ==
  /\ error[r].kind = "nil" /\ level[r] - 1 \in metrics
  /\ ToCaller(r, "panic")
  /\ error' = [error EXCEPT ![r] = MetricsPanic]
  /\ origin' = [origin EXCEPT ![r] =
                  [how |-> "panic", level |-> level[r] - 1, error |-> MetricsPanic]]

Gateway(r) ==
  /\ level[r] = 1 /\ entry[r] = "gateway"
  /\ Moves(r, "return", "done")
  /\ replies' = [replies EXCEPT ![r] = Append(@, GatewayResponse(error[r]))]
  /\ UNCHANGED <<setting, entry, level, flags, error, origin, pool, records>>

-----------------------------------------------------------------------------
(* SuccessResponse and ErrorResponse write to c.Writer.                    *)
Writes(r, answer) ==
  /\ replies' = [replies EXCEPT ![r] = Append(@, answer)]
  /\ content' = IF onlyLogErr THEN [content EXCEPT ![buf[r]] = Append(@, answer.code)]
                              ELSE content
  /\ UNCHANGED <<buf, free>>

Respond_GoesOn(r) ==
  /\ Moves(r, "respond", IF error[r].kind = "nil" THEN "closing" ELSE "respond")
  /\ Writes(r, IF error[r].kind = "nil" THEN Success(Own(0))
                                         ELSE ErrorResponse(error[r], Own(0)))
  /\ error' = [error EXCEPT ![r] = NoError]
  /\ UNCHANGED <<setting, entry, level, flags, origin, records>>
Respond(r) ==
  /\ Moves(r, "respond", "closing")
  /\ Writes(r, IF error[r].kind = "nil" THEN Success(Own(0))
                                         ELSE ErrorResponse(error[r], Own(0)))
  /\ UNCHANGED <<setting, entry, level, flags, error, origin, records>>

(* Recovery inside of Access answers a panic with the writer of Access, a  *)
(* value that is no error as ECodeInternal.                                *)
AnswersPanic(r) ==
  Writes(r, ErrorResponse(IF error[r].kind = "nil" THEN New(ECodeInternal) ELSE error[r],
                          Own(0)))

Recover(r) ==
  /\ level[r] = 0 /\ recovery = "inside" /\ buf[r] # 0
  /\ Moves(r, "panic", "closing")
  /\ AnswersPanic(r)
  /\ UNCHANGED <<setting, entry, level, flags, error, origin, records>>

(* What Access defers: it reads the errcode of the body into an int32, 0 if*)
(* there is no body, and records nothing at all if that fails or the body  *)
(* is not one JSON object; the access log has the code only for status 200.*)
(* The buffer is given back after that.                                    *)
ErrCode(body) ==
  IF Len(body) = 0 THEN <<0>>
  ELSE IF Len(body) = 1 /\ body[1] \in Int32s THEN body ELSE <<>>

Status(r) == IF replies[r] = <<>> THEN 200 ELSE replies[r][Len(replies[r])].status

Records(r, codes) ==
  /\ counted' = [counted EXCEPT ![r] = IF 0 \in metrics THEN codes ELSE <<>>]
  /\ logged' = [logged EXCEPT ![r] = IF Status(r) = 200 THEN codes ELSE <<>>]

Deferred_PutFirst(r, from, to) ==
  /\ IF buf[r] \in free
     THEN Moves(r, from, to) /\ UNCHANGED free /\ Records(r, ErrCode(content[buf[r]]))
     ELSE stage[r] = from /\ UNCHANGED <<stage, records>> /\ free' = free \cup {buf[r]}
  /\ UNCHANGED <<setting, entry, level, flags, error, origin, replies, buf, content>>
Deferred(r, from, to) ==
  /\ Moves(r, from, to)
  /\ Records(r, ErrCode(content[buf[r]]))
  /\ free' = free \cup {buf[r]}
  /\ UNCHANGED <<setting, entry, level, flags, error, origin, replies, buf, content>>

Close(r) == Deferred(r, "closing", "done")

Unwind(r) ==
  /\ level[r] = 0 /\ recovery # "inside" /\ buf[r] # 0
  /\ Deferred(r, "panic", "unwound")

(* Access has set no span yet when it panics, and Recovery, outside of it, *)
(* panics in turn for want of it.                                          *)
AccessEnds(r) == Deferred(r, "aborted", "done")

(* Recovery outside of Access writes to the writer of Access all the same; *)
(* without one, or when Access itself panicked, the connection is closed.  *)
RecoverLate(r) ==
  /\ recovery = "outside"
  /\ Moves(r, "unwound", "done")
  /\ AnswersPanic(r)
  /\ UNCHANGED <<setting, entry, level, flags, error, origin, records>>

Abort(r) ==
  /\ \/ recovery = "none" /\ Moves(r, "unwound", "done")
     \/ level[r] = 0 /\ buf[r] = 0 /\ Moves(r, "panic", "done")
  /\ UNCHANGED <<setting, entry, level, flags, error, origin, replies, pool, records>>

-----------------------------------------------------------------------------
Handler(r) == CallNext(r) \/ CallFails(r) \/ AfterCall(r) \/ HandlerReturns(r) \/ HandlerPanics(r)

Step(r) ==
  \/ Arrive(r, "gin") \/ Arrive(r, "gateway")
  \/ AccessFails(r) \/ Access(r) \/ AccessPanics(r) \/ AccessEnds(r) \/ Bind(r)
  \/ Serve(r) \/ Handler(r) \/ Wrap(r) \/ RecoverRpc(r) \/ Back(r) \/ BackPanics(r) \/ Gateway(r)
  \/ Respond(r) \/ Recover(r) \/ Close(r) \/ Unwind(r)
  \/ RecoverLate(r) \/ Abort(r)

FrontNext == \E r \in Requests : Step(r)

FrontSpec == FrontInit /\ [][FrontNext]_frontVars

-----------------------------------------------------------------------------
(* Properties.                                                             *)

Done(r) == stage[r] = "done"
Gin(r)  == entry[r] = "gin"
Died(r) == origin[r].how = "panic" /\ origin[r].level = 0

(* Every request gets one answer and never a second one, over all paths of *)
(* errors and panics; none only after a panic in gin when there is no      *)
(* Recovery, or in Access itself, before or after it has its buffer.       *)
OneAnswer ==
  \A r \in Requests :
    /\ Len(replies[r]) <= 1
    /\ Done(r) /\ replies[r] = <<>> =>
         origin[r].how = "access" \/ (Died(r) /\ recovery = "none")

(* Between Access and its end a buffer belongs to one request.             *)
BuffersOwned ==
  \A r \in Requests :
    Gin(r) /\ stage[r] \in {"aborted", "bind", "handle", "called", "respond", "closing"} =>
    /\ buf[r] \in Buffers \ free
    /\ \A q \in Requests \ {r} :
         Gin(q) /\ buf[q] = buf[r] => stage[q] \in {"unwound", "done"}

(* What the middlewares keep while requests interleave: a request is       *)
(* answered at most once, and the buffer that collects its answer is its   *)
(* own until then.                                                         *)
FrontInv == FrontTypeOK /\ OneAnswer /\ BuffersOwned

(* The code a handler's error is answered with, wherever it was raised.    *)
Expected(o) ==
  CASE o.how = "none" -> ECodeSuccessed
    [] o.how = "panic" /\ o.level > 0 -> ECodeSystem
    [] o.how = "panic" /\ o.level = 0 /\ o.error.kind = "nil" -> ECodeInternal
    [] o.error.kind = "typed nil" -> IF o.level = 0 THEN ECodeSystem ELSE ECodeSuccessed
    [] o.error.kind = "plain" -> IF o.level = 0 THEN ECodeSystemAPI ELSE ECodeSystem
    [] OTHER -> o.error.code

Claimed(o) ==
  /\ o.error.marks = 0
  /\ \/ o.error.kind \in {"plain", "typed nil", "nil"}
     \/ o.error.kind = "broccoli" /\ Faithful(o.error)
     \/ o.error.kind = "gm" /\ o.error.code > 0 /\ o.error.service # 0 /\ o.level > 0

(* The services whose wrapper is passed by what was made at o.             *)
Passed(o) == 1 .. IF o.how = "refused" THEN o.level - 1 ELSE o.level

(* The client of the first service, by gin or by the gateway, reads the    *)
(* code and the message with which an error was raised, however many       *)
(* services passed it on, with the HTTP status of that code, and in gin the*)
(* service it names or was raised in.                                      *)
(* A negative code too: "防止go-micro grpc 将小于errcode小于0的错误转换成       *)
(* internal error" (wrap.go:162).  For codes of 32 bits, and messages that *)
(* do not begin with the mark.                                             *)
(* With metrics on a service answers everything with an error of its own,  *)
(* ECodeSystem: that is what the client then reads, and where nothing of   *)
(* the kind was read, no service on the way had metrics on.                *)
AnswersTruly ==
  \A r \in Requests : \A i \in DOMAIN replies[r] :
    /\ Claimed(origin[r]) =>
         /\ replies[r][i].code = Expected(origin[r]) /\ replies[r][i].marks = 0
         /\ replies[r][i].status = StatusCode(Expected(origin[r]))
         /\ Gin(r) /\ replies[r][i].code # ECodeSuccessed =>
              replies[r][i].service = IF origin[r].error.service # 0
                                      THEN origin[r].error.service ELSE Own(origin[r].level)
    /\ origin[r].how \in {"none", "error", "refused"} => Passed(origin[r]) \cap metrics = {}

(* What Access records for a request, in the metrics of gin and in the log,*)
(* is the code it was answered with, no matter what other requests do with *)
(* the buffers, when the writer goes through the buffer and Recovery, if   *)
(* any, is inside of Access; a code that is no int32 is recorded nowhere,  *)
(* and the log has only those of status 200.                               *)
Recordable(answer) == IF answer.code \in Int32s THEN <<answer.code>> ELSE <<>>

CountsAnswers ==
  \A r \in Requests :
    onlyLogErr /\ recovery # "outside" /\ Done(r) /\ replies[r] # <<>> /\ Gin(r) =>
      /\ counted[r] = IF 0 \in metrics THEN Recordable(replies[r][1]) ELSE <<>>
      /\ logged[r] = IF replies[r][1].status = 200 THEN Recordable(replies[r][1]) ELSE <<>>
=============================================================================
