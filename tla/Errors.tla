-------------------------------- MODULE Errors --------------------------------
(***************************************************************************)
(* The errors of a service and what is made of them on their way to the    *)
(* caller: errors/error.go, and the conversions of                         *)
(* microsrv/gomicro/wrap.go, middleware/http/gin.go and the gateway of     *)
(* service/service.go.  A message is the number of "-@" it begins with.    *)
(***************************************************************************)
EXTENDS Integers

(* A definition X_Y just before X is a variant of X with a mistake in it,  *)
(* used by no specification: README, "Mutants".                            *)

CONSTANT Half   \* an int32 is at least -Half and less than Half

ECodeSuccessed == 0
ECodeSystem == 10001
ECodeSystemAPI == 10002
ECodeInvalidParams == 10011
ECodeInternal == 10047
ECodeNotFound == 10048
ECodeUnauthorized == 10049
ECodeProxyFailed == 10050
ECodeParseTime == 10055

(* The codes of the library fit into an int32.                             *)
ASSUME HalfAssumption == Half \in Nat /\ Half > ECodeParseTime

(* The codes of the library; services have others of their own.            *)
Codes == {ECodeSuccessed} \cup ECodeSystem .. ECodeParseTime

ECodeStatus == [c \in Codes |-> CASE c = ECodeInternal -> 500 [] c = ECodeNotFound -> 404
                                   [] c = ECodeUnauthorized -> 401
                                   [] c = ECodeProxyFailed -> 400 [] OTHER -> 200]
StatusCode(code) == IF code \in Codes THEN ECodeStatus[code] ELSE 400

(* go-micro's own (external): a negative code, a call that timed out.      *)
TransportInternal == 500
TransportTimeout == 408

(* An error of the library ("broccoli"), of go-micro ("gm"), any other     *)
(* ("plain"), a nil pointer in an error interface ("typed nil"), no error  *)
(* ("nil").  service is 0 when it is not set; cause tells whether the      *)
(* trace id is in front of it.                                             *)
Kinds  == {"broccoli", "gm", "plain", "typed nil", "nil"}
Error(kind, code, marks, service, cause) ==
  [kind |-> kind, code |-> code, marks |-> marks, service |-> service, cause |-> cause]
NoError == Error("nil", 0, 0, 0, FALSE)

New(code) == Error("broccoli", code, 0, 0, FALSE)
GoMicro(code, service) == Error("gm", code, 0, service, FALSE)

Int32(n) == ((n + Half) % (2 * Half)) - Half

-----------------------------------------------------------------------------
(* GenerateServerLogWrap, after the handler: a negative code is sent as a  *)
(* positive one with a mark, to a caller that takes the mark off again.    *)
Marked(e, fromBroccoli) ==
  IF fromBroccoli /\ e.code < 0
  THEN [e EXCEPT !.code = Int32(-e.code), !.marks = @ + 1] ELSE e

ServerWrap(e, own, fromBroccoli) ==
  CASE e.kind \in {"nil", "typed nil"} -> NoError
    [] e.kind = "broccoli" ->
         Marked(Error("gm", Int32(e.code), e.marks,
                      IF e.service = 0 THEN own ELSE e.service, TRUE), fromBroccoli)
    [] e.kind = "gm" -> e
    [] OTHER -> Error("gm", ECodeSystem, e.marks, own, TRUE)

(* Between two services (external): a negative code becomes an internal    *)
(* error.                                                                  *)
Wire(e) == IF e.code < 0 THEN GoMicro(TransportInternal, e.service) ELSE e

(* clientLogWrap.Call, after the call.                                     *)
ClientUnwrap(e, own) ==
  LET negative == e.marks > 0
  IN  Error("broccoli", IF negative THEN Int32(-e.code) ELSE e.code,
            IF negative THEN e.marks - 1 ELSE 0,
            IF e.service = 0 THEN own ELSE e.service, e.cause)

(* assertError and defaultErrorResponse: what is written to the client.    *)
assertError(e) ==
  CASE e.kind \in {"nil", "typed nil"} -> New(ECodeSystem)
    [] e.kind = "broccoli" -> e
    [] OTHER -> Error("broccoli", ECodeSystemAPI, e.marks, 0, FALSE)

Write(code, marks, service) ==
  [status |-> StatusCode(code), code |-> code, marks |-> marks, service |-> service]

Success(own) == Write(ECodeSuccessed, 0, own)
ErrorResponse(e, own) ==
  LET err == assertError(e)
  IN  Write(err.code, err.marks, IF err.service = 0 THEN own ELSE err.service)

(* grpcGatewayHTTPError: the message of the status is a go-micro error; it *)
(* does not name the service.                                              *)
GatewayResponse(e) ==
  Write(IF e.kind = "nil" THEN ECodeSuccessed
        ELSE IF e.code # 0 THEN e.code ELSE ECodeProxyFailed, e.marks, 0)
=============================================================================
