------------------------------ MODULE HttpClient ------------------------------
(***************************************************************************)
(* httpclient: the table of clients, which a reload replaces, and one call *)
(* of a client: its attempts, the waits between them, and the body, which  *)
(* every attempt sends from the same reader.  A goroutine of the transport *)
(* writes the body, and may still do so when Do has returned, because the  *)
(* server answered early or the attempt timed out.                         *)
(***************************************************************************)
EXTENDS Integers, Sequences, FiniteSets

(* A definition X_Y just before X is a variant of X with a mistake in it,  *)
(* used by no specification: README, "Mutants".                            *)

CONSTANTS
  Instances,   \* names of clients
  Configs,     \* configurations: per name its RetryCount, or one of these
  Absent,      \*   - the name is not configured
  Unusable,    \*   - the client has no host
  MaxRetries,  \* RetryCount of a configuration is at most this
  Interval,    \* BackoffInterval
  Jitter,      \* MaximumJitterInterval, when it is configured
  Parts,       \* the body is read in that many parts
  MaxReloads   \* bound: reloads

ASSUME NumbersAssumption ==
  /\ MaxRetries \in Nat /\ Interval \in Nat /\ Jitter \in Nat \ {0}
  /\ Parts \in Nat /\ MaxReloads \in Nat

Attempts == 1 .. MaxRetries + 1

Clients  == 0 .. MaxRetries
ASSUME ConfigsAssumption ==
  /\ Configs \subseteq [Instances -> Clients \cup {Absent, Unusable}]
  /\ {Absent, Unusable} \cap Clients = {} /\ Absent # Unusable

VARIABLES
  table,     \* httpclientInstance: per name its RetryCount, or Absent
  target,    \* the configuration InitHttpClientConf works on
  fresh,     \* tmpInstanceMap
  building,  \* it is at work
  reloads,   \* reloads begun
  at,        \* the call: "idle", "send", "wait", "judge", "read", "panic"
  retries,   \* RetryCount of the call's client
  jitter,    \* its MaximumJitterInterval
  attempt,   \* attempts made
  response,  \* "none", "ok" (below 500), "bad"
  failed,    \* err of the last attempt
  unclosed,  \* attempts whose response body is not closed
  offset,    \* of bodyReader
  writer,    \* per attempt: "none", "writing", "done"
  sent,      \* per attempt: the parts it has sent
  received,  \* history: the bodies the server took for complete
  overlap,   \* history: the reader was set back while an attempt was writing
  waited,    \* history: time slept
  result     \* what the last call returned: "none", "body", "error"

conf    == <<table, target, fresh, building, reloads>>
body    == <<offset, writer, sent, received, overlap>>
answer  == <<response, failed, unclosed>>
pause   == <<jitter, waited>>
vars    == <<conf, at, retries, attempt, answer, body, pause, result>>

Whole == [i \in 1 .. Parts |-> i]
Bodies == UNION {[1 .. n -> 1 .. Parts] : n \in 0 .. Parts}

TypeOK ==
  /\ table \in [Instances -> Clients \cup {Absent}]
  /\ target \in Configs \cup {[i \in Instances |-> Absent]}
  /\ fresh \in [Instances -> Clients \cup {Absent}] /\ building \in BOOLEAN
  /\ reloads \in 0 .. MaxReloads
  /\ at \in {"idle", "send", "wait", "judge", "read", "panic"}
  /\ retries \in Clients /\ jitter \in {0, Jitter}
  /\ attempt \in 0 .. retries + 1
  /\ response \in {"none", "ok", "bad"} /\ failed \in BOOLEAN
  /\ unclosed \subseteq Attempts
  /\ offset \in 0 .. Parts
  /\ writer \in [Attempts -> {"none", "writing", "done"}]
  /\ sent \in [Attempts -> Bodies] /\ received \subseteq Bodies
  /\ overlap \in BOOLEAN /\ waited \in Nat
  /\ result \in {"none", "body", "error"}

Init ==
  /\ table = [i \in Instances |-> Absent] /\ target = table /\ fresh = table
  /\ building = FALSE /\ reloads = 0
  /\ at = "idle" /\ retries = 0 /\ jitter = 0 /\ attempt = 0
  /\ response = "none" /\ failed = FALSE /\ unclosed = {}
  /\ offset = 0 /\ writer = [k \in Attempts |-> "none"]
  /\ sent = [k \in Attempts |-> <<>>] /\ received = {} /\ overlap = FALSE
  /\ waited = 0 /\ result = "none"

Alive == at # "panic"
Calling == UNCHANGED <<retries, attempt, answer, body, pause, result>>

-----------------------------------------------------------------------------
(* InitHttpClientConf: a new table is filled and then put in the place of  *)
(* the old one; a client without a host panics, and the processor of       *)
(* changes with it.                                                        *)
Reload ==
  /\ Alive /\ ~building /\ reloads < MaxReloads
  /\ reloads' = reloads + 1 /\ building' = TRUE
  /\ target' \in Configs
  /\ fresh' = [i \in Instances |-> Absent]
  /\ UNCHANGED <<table, at>> /\ Calling

NewClient_IntoTable(i) ==
  /\ Alive /\ building /\ fresh[i] # target[i]
  /\ fresh' = [fresh EXCEPT ![i] = target[i]]
  /\ table' = fresh'
  /\ UNCHANGED <<target, building, reloads, at>> /\ Calling
NewClient(i) ==
  /\ Alive /\ building /\ fresh[i] # target[i]
  /\ IF target[i] = Unusable
     THEN at' = "panic" /\ UNCHANGED fresh
     ELSE fresh' = [fresh EXCEPT ![i] = target[i]] /\ UNCHANGED at
  /\ UNCHANGED <<table, target, building, reloads>> /\ Calling

Replace ==
  /\ Alive /\ building /\ fresh = target
  /\ table' = fresh /\ building' = FALSE
  /\ UNCHANGED <<target, fresh, reloads, at>> /\ Calling

-----------------------------------------------------------------------------
(* GetClient, and a request by the client it returns, for which the body   *)
(* is read into bodyReader.                                                *)
Call(i) ==
  /\ at = "idle" /\ result = "none"
  /\ IF table[i] = Absent
     THEN result' = "error" /\ UNCHANGED <<at, retries, jitter>>
     ELSE /\ at' = "send" /\ retries' = table[i] /\ jitter' \in {0, Jitter}
          /\ UNCHANGED result
  /\ UNCHANGED <<conf, attempt, answer, body, waited>>

(* The client of the container has no host to choose from.                 *)
CallDefault ==
  /\ at = "idle" /\ result = "none"
  /\ at' = "panic"
  /\ UNCHANGED conf /\ Calling

Send_KeepsResponse ==
  /\ at = "send"
  /\ attempt' = attempt + 1 /\ at' = "wait"
  /\ writer' = [writer EXCEPT ![attempt + 1] = "writing"]
  /\ UNCHANGED <<conf, retries, answer, offset, sent, received, overlap, pause, result>>
Send ==
  /\ at = "send"
  /\ attempt' = attempt + 1 /\ at' = "wait"
  /\ unclosed' = IF response = "none" THEN unclosed ELSE unclosed \ {attempt}
  /\ writer' = [writer EXCEPT ![attempt + 1] = "writing"]
  /\ UNCHANGED <<conf, retries, response, failed, offset, sent, received, overlap,
                 pause, result>>

(* The transport (external) reads the body until its end or its length,    *)
(* or until the connection breaks.                                         *)
WriteBody(k) ==
  /\ Alive /\ writer[k] = "writing" /\ offset < Parts /\ Len(sent[k]) < Parts
  /\ offset' = offset + 1
  /\ sent' = [sent EXCEPT ![k] = Append(@, offset + 1)]
  /\ UNCHANGED <<conf, at, retries, attempt, answer, writer, received, overlap,
                 pause, result>>

WriteEnds(k) ==
  /\ Alive /\ writer[k] = "writing"
  /\ offset = Parts \/ Len(sent[k]) = Parts \/ k < attempt \/ at # "wait"
  /\ writer' = [writer EXCEPT ![k] = "done"]
  /\ UNCHANGED <<conf, at, retries, attempt, answer, offset, sent, received,
                 overlap, pause, result>>

(* The server (external) answers a complete request, or any request early. *)
Answered(status) ==
  /\ at = "wait"
  /\ response' = status /\ failed' = FALSE
  /\ unclosed' = unclosed \cup {attempt}
  /\ at' = "judge"

Answer(status) ==
  /\ Answered(status)
  /\ writer[attempt] = "done"
  /\ received' = received \cup {sent[attempt]}
  /\ UNCHANGED <<conf, retries, attempt, offset, writer, sent, overlap, pause, result>>

AnswerEarly(status) ==
  /\ Answered(status)
  /\ writer[attempt] = "writing"
  /\ UNCHANGED <<conf, retries, attempt, body, pause, result>>

(* No connection, a timeout, a connection that breaks.                     *)
Fail ==
  /\ at = "wait"
  /\ response' = "none" /\ failed' = TRUE /\ at' = "judge"
  /\ UNCHANGED <<conf, retries, attempt, unclosed, body, pause, result>>

(* The waits that constantBackoff.Next may return, none when rand.Int63n   *)
(* panics because the configured jitter is 0; a client that has nothing to *)
(* retry has a retrier that does not wait.                                 *)
Backoff(k) == IF k <= 0 THEN {0} ELSE {Interval + j : j \in 0 .. jitter - 1}
NextInterval(k) == IF retries = 0 THEN {0} ELSE Backoff(k)

(* The end of a round of the loop: the reader is set back, and after an    *)
(* error or a status of 500 and more there is a wait, the last time too.   *)
More == attempt <= retries

Again == failed \/ response = "bad"

Judge_WithoutSeek ==
  /\ at = "judge"
  /\ IF Again THEN \E t \in NextInterval(attempt - 1) :
                     waited' = waited + t /\ at' = IF More THEN "send" ELSE "read"
              ELSE at' = "read" /\ UNCHANGED waited
  /\ UNCHANGED <<conf, retries, attempt, answer, body, jitter, result>>
Judge_FailuresOnly ==
  /\ at = "judge"
  /\ offset' = 0
  /\ overlap' = (overlap \/ \E k \in Attempts : writer[k] = "writing")
  /\ IF failed THEN \E t \in NextInterval(attempt - 1) :
                      waited' = waited + t /\ at' = IF More THEN "send" ELSE "read"
               ELSE at' = "read" /\ UNCHANGED waited
  /\ UNCHANGED <<conf, retries, attempt, answer, writer, sent, received, jitter,
                 result>>
Judge ==
  /\ at = "judge"
  /\ offset' = 0
  /\ overlap' = (overlap \/ \E k \in Attempts : writer[k] = "writing")
  /\ IF Again THEN \E t \in NextInterval(attempt - 1) :
                     waited' = waited + t /\ at' = IF More THEN "send" ELSE "read"
              ELSE at' = "read" /\ UNCHANGED waited
  /\ UNCHANGED <<conf, retries, attempt, answer, writer, sent, received, jitter,
                 result>>

JitterPanics ==
  /\ at = "judge" /\ Again
  /\ NextInterval(attempt - 1) = {}
  /\ at' = "panic"
  /\ UNCHANGED conf /\ Calling

(* The last attempt decides, whatever status it had; its body is read, or  *)
(* fails to, and closed.                                                   *)
Read ==
  /\ at = "read"
  /\ at' = "idle"
  /\ IF response = "none"
     THEN result' = "error" /\ UNCHANGED unclosed
     ELSE result' \in {"body", "error"} /\ unclosed' = unclosed \ {attempt}
  /\ UNCHANGED <<conf, retries, attempt, response, failed, body, pause>>

Do == Send \/ Judge \/ JitterPanics \/ Read

Exchange == Fail \/ \E s \in {"ok", "bad"} : Answer(s) \/ AnswerEarly(s)

Next ==
  \/ Reload \/ Replace \/ \E i \in Instances : NewClient(i) \/ Call(i)
  \/ CallDefault \/ Do \/ Exchange
  \/ \E k \in Attempts : WriteBody(k) \/ WriteEnds(k)

Spec == Init /\ [][Next]_vars

-----------------------------------------------------------------------------
(* Properties.                                                             *)

(* "since at this point it's already read" (client.go:313): as long as     *)
(* that is so whenever the reader is set back, every request the server    *)
(* takes for complete carries the whole body, the second and third too.    *)
BodyIntact == ~overlap => received \subseteq {Whole}

(* A response is an answer only if no attempt was left: the call goes on   *)
(* until an attempt succeeds or RetryCount + 1 of them have been made, and *)
(* not a single time more.                                                 *)
TriesEnough ==
  (at = "read" \/ (at = "idle" /\ attempt > 0)) =>
    attempt = retries + 1 \/ (response = "ok" /\ ~failed)

(* Every response but the one in use is closed, on every path through the  *)
(* loop, and all of them when the call has returned.                       *)
BodiesClosed ==
  /\ Cardinality(unclosed) <= 1
  /\ (at = "idle" => unclosed = {})

(* What a call sleeps is bounded by its configuration: the first retry     *)
(* comes at once, each later wait is shorter than interval and jitter, and *)
(* without a jitter there is none.                                         *)
WaitBounded ==
  IF jitter = 0 THEN waited = 0 ELSE waited <= retries * (Interval + jitter - 1)

(* What a call of the HTTP client leaves behind: every response body but   *)
(* the last is closed, all of them once it has returned, and it has not    *)
(* waited longer than it was configured to.                                *)
ClientInv == TypeOK /\ BodiesClosed /\ WaitBounded

(* A client that is configured before a reload and after it can be had all *)
(* the time, also while the reload goes on and when it panics half way.    *)
ClientsStay ==
  [][\A i \in Instances :
       (table[i] # Absent /\ table'[i] = Absent) =>
         building /\ target[i] = Absent]_table
=============================================================================
