------------------------------ MODULE HttpProofs ------------------------------
(***************************************************************************)
(* Proofs about HTTP, its two ends.  The client: what a call leaves behind,*)
(* how often it tries and how long it waits, which bodies the server gets, *)
(* and that a reload takes no configured client away, for any number of    *)
(* retries, parts of a body, clients and configurations.  The middlewares  *)
(* and the services behind them: that a request is answered once, and      *)
(* recorded with its answer, and that an error keeps its code on its way,  *)
(* for any requests, buffers, errors and number of services.               *)
(***************************************************************************)
EXTENDS HttpClient, Front, FiniteSetTheorems, SequenceTheorems, TLAPS

(* Attempts whose answer has been judged.                                  *)
Judged == IF at \in {"wait", "judge"} THEN attempt - 1 ELSE attempt

(* Where a call stands: before it begins, nothing is there; only the last  *)
(* response may be open, and only once it has come.                        *)
CallInv ==
  /\ at = "idle" /\ result = "none" =>
       /\ attempt = 0 /\ waited = 0 /\ response = "none" /\ offset = 0
       /\ \A k \in Attempts : writer[k] = "none"
  /\ at \in {"wait", "judge"} => attempt >= 1
  /\ at = "send" => attempt <= retries
  /\ unclosed \subseteq {attempt}
  /\ at \in {"idle", "wait"} \/ response = "none" => unclosed = {}
  /\ at \in {"judge", "read"} /\ ~failed => response # "none"
  /\ TriesEnough

(* The first judged attempt waits for nothing, each later one for less     *)
(* than interval and jitter together.                                      *)
WaitInv ==
  /\ WaitBounded
  /\ at # "panic" =>
       /\ jitter = 0 \/ Judged <= 1 => waited = 0
       /\ jitter # 0 /\ Judged >= 1 => waited <= (Judged - 1) * (Interval + jitter - 1)

(* Until the reader is set back under a writer: only the goroutine of the  *)
(* last attempt writes, and not when the reader has been set back; while   *)
(* an answer is awaited, its attempt has sent what the reader has given.   *)
BodyInv ==
  ~overlap =>
    /\ BodyIntact
    /\ \A k \in Attempts : writer[k] = "writing" =>
         k = attempt /\ at \in {"wait", "judge", "panic"}
    /\ \A k \in Attempts : k > attempt => writer[k] = "none" /\ sent[k] = <<>>
    /\ at = "send" => offset = 0
    /\ at = "wait" => /\ Len(sent[attempt]) = offset
                      /\ \A i \in 1 .. offset : sent[attempt][i] = i
                      /\ writer[attempt] = "done" => offset = Parts

Inv == TypeOK /\ CallInv /\ WaitInv /\ BodyInv

-----------------------------------------------------------------------------
(* Types.                                                                  *)

LEMMA InitTyped == Init => TypeOK
<1> SUFFICES ASSUME Init PROVE TypeOK
  OBVIOUS
<1>1. sent \in [Attempts -> Bodies]
  <2>1. <<>> \in [1 .. 0 -> 1 .. Parts] /\ 0 \in 0 .. Parts
    BY NumbersAssumption
  <2>2. <<>> \in Bodies
    BY <2>1 DEF Bodies
  <2> QED BY <2>2 DEF Init
<1>2. writer \in [Attempts -> {"none", "writing", "done"}]
  BY DEF Init
<1>3. retries \in Clients /\ attempt \in 0 .. retries + 1 /\ reloads \in 0 .. MaxReloads
      /\ offset \in 0 .. Parts
  BY NumbersAssumption DEF Init, Clients
<1>4. table \in [Instances -> Clients \cup {Absent}]
      /\ target \in Configs \cup {[i \in Instances |-> Absent]}
      /\ fresh \in [Instances -> Clients \cup {Absent}]
  BY DEF Init
<1> QED BY <1>1, <1>2, <1>3, <1>4 DEF Init, TypeOK

LEMMA TableTyped ==
  ASSUME TypeOK, Reload \/ Replace \/ \E i \in Instances : NewClient(i)
  PROVE  TypeOK'
<1>1. CASE Reload
  BY <1>1, NumbersAssumption DEF Reload, Calling, TypeOK, answer, body, pause
<1>2. CASE Replace
  BY <1>2 DEF Replace, Calling, TypeOK, answer, body, pause
<1>3. ASSUME NEW i \in Instances, NewClient(i) PROVE TypeOK'
  <2>1. target[i] \in Clients \cup {Absent, Unusable}
    BY ConfigsAssumption DEF TypeOK
  <2>2. fresh' \in [Instances -> Clients \cup {Absent}]
    BY <1>3, <2>1 DEF NewClient, TypeOK
  <2> QED BY <1>3, <2>2 DEF NewClient, Calling, TypeOK, answer, body, pause
<1> QED BY <1>1, <1>2, <1>3

LEMMA CallTyped ==
  ASSUME TypeOK, CallInv, CallDefault \/ \E i \in Instances : Call(i)
  PROVE  TypeOK'
<1>1. CASE CallDefault
  BY <1>1 DEF CallDefault, Calling, TypeOK, conf, answer, body, pause
<1>2. ASSUME NEW i \in Instances, Call(i) PROVE TypeOK'
  <2>1. attempt = 0 /\ table[i] \in Clients \cup {Absent}
    BY <1>2 DEF Call, TypeOK, CallInv
  <2>2. retries' \in Clients /\ attempt' \in 0 .. retries' + 1
    BY <1>2, <2>1, NumbersAssumption DEF Call, TypeOK, Clients
  <2>3. at' \in {"idle", "send"} /\ jitter' \in {0, Jitter} /\ result' \in {"none", "error"}
    BY <1>2 DEF Call, TypeOK
  <2> QED BY <1>2, <2>2, <2>3 DEF Call, TypeOK, conf, answer, body
<1> QED BY <1>1, <1>2

LEMMA SendTyped ==
  ASSUME TypeOK, CallInv, Send
  PROVE  TypeOK'
<1>1. attempt' \in 0 .. retries + 1
  BY NumbersAssumption DEF Send, TypeOK, CallInv, Clients
<1>2. unclosed' \subseteq Attempts
  BY DEF Send, TypeOK
<1> QED BY <1>1, <1>2 DEF Send, TypeOK, conf, pause

(* One more part makes a body of a body that is not complete.             *)
LEMMA AppendBody ==
  ASSUME NEW s \in Bodies, NEW x \in 1 .. Parts, Len(s) < Parts
  PROVE  Append(s, x) \in Bodies
<1>1. PICK n \in 0 .. Parts : s \in [1 .. n -> 1 .. Parts]
  BY DEF Bodies
<1>2. s \in Seq(1 .. Parts)
  BY <1>1, SeqDef, NumbersAssumption
<1>3. Append(s, x) \in Seq(1 .. Parts) /\ Len(Append(s, x)) = Len(s) + 1
  BY <1>2, AppendProperties
<1>4. Append(s, x) \in [1 .. Len(s) + 1 -> 1 .. Parts] /\ Len(s) \in Nat
  BY <1>2, <1>3, LenProperties
<1> QED BY <1>4, NumbersAssumption DEF Bodies

LEMMA WriteTyped ==
  ASSUME TypeOK, NEW k \in Attempts, WriteBody(k) \/ WriteEnds(k)
  PROVE  TypeOK'
<1>1. CASE WriteBody(k)
  <2>1. offset' \in 0 .. Parts /\ offset' = offset + 1 /\ offset' \in 1 .. Parts
    BY <1>1, NumbersAssumption DEF WriteBody, TypeOK
  <2>2. Append(sent[k], offset + 1) \in Bodies
    BY <1>1, <2>1, AppendBody DEF WriteBody, TypeOK
  <2>6. sent' \in [Attempts -> Bodies]
    BY <1>1, <2>2 DEF WriteBody, TypeOK
  <2> QED BY <1>1, <2>1, <2>6 DEF WriteBody, TypeOK, conf, answer, pause
<1>2. CASE WriteEnds(k)
  BY <1>2 DEF WriteEnds, TypeOK, conf, answer, pause
<1> QED BY <1>1, <1>2

LEMMA ExchangeTyped ==
  ASSUME TypeOK, CallInv, Exchange
  PROVE  TypeOK'
<1>0. at = "wait" /\ attempt \in Attempts
  BY NumbersAssumption DEF Exchange, Fail, Answer, AnswerEarly, Answered, TypeOK, CallInv,
                           Attempts, Clients
<1>1. CASE Fail
  BY <1>1 DEF Fail, TypeOK, conf, body, pause
<1>2. ASSUME NEW s \in {"ok", "bad"}, Answer(s) \/ AnswerEarly(s) PROVE TypeOK'
  <2>1. received' \subseteq Bodies
    BY <1>0, <1>2 DEF Answer, AnswerEarly, TypeOK, body
  <2>2. response' \in {"ok", "bad"} /\ failed' = FALSE /\ unclosed' \subseteq Attempts
        /\ at' = "judge"
    BY <1>0, <1>2 DEF Answer, AnswerEarly, Answered, TypeOK
  <2> QED BY <1>2, <2>1, <2>2 DEF Answer, AnswerEarly, TypeOK, conf, body, pause
<1> QED BY <1>1, <1>2 DEF Exchange

(* A wait is a natural number.                                             *)
LEMMA WaitTyped ==
  ASSUME TypeOK, NEW k \in Int, NEW t \in NextInterval(k)
  PROVE  /\ t \in Nat
         /\ k <= 0 \/ jitter = 0 => t = 0
         /\ jitter # 0 => t <= Interval + jitter - 1
<1>1. CASE retries = 0 \/ k <= 0
  <2>1. t = 0
    BY <1>1 DEF NextInterval, Backoff
  <2> QED BY <2>1, NumbersAssumption DEF TypeOK
<1>2. CASE retries # 0 /\ ~(k <= 0)
  <2>1. PICK j \in 0 .. jitter - 1 : t = Interval + j
    BY <1>2 DEF NextInterval, Backoff
  <2>2. jitter \in Nat /\ jitter # 0
    BY <2>1, NumbersAssumption DEF TypeOK
  <2> QED BY <1>2, <2>1, <2>2, NumbersAssumption
<1> QED BY <1>1, <1>2

LEMMA JudgeTyped ==
  ASSUME TypeOK, Judge \/ JitterPanics \/ Read
  PROVE  TypeOK'
<1>1. CASE Judge
  <2>1. attempt - 1 \in Int /\ waited \in Nat
    BY NumbersAssumption DEF TypeOK, Clients
  <2>2. waited' \in Nat /\ at' \in {"send", "read"}
    <3>1. CASE Again
      <4>1. PICK t \in NextInterval(attempt - 1) :
              waited' = waited + t /\ at' = IF More THEN "send" ELSE "read"
        BY <1>1, <3>1 DEF Judge
      <4>2. t \in Nat
        BY <2>1, WaitTyped
      <4> QED BY <2>1, <4>1, <4>2
    <3>2. CASE ~Again
      BY <1>1, <2>1, <3>2 DEF Judge
    <3> QED BY <3>1, <3>2
  <2>3. offset' \in 0 .. Parts /\ overlap' \in BOOLEAN
    <3>1. overlap' \in BOOLEAN
      BY <1>1 DEF Judge, TypeOK
    <3> QED BY <1>1, <3>1, NumbersAssumption DEF Judge
  <2> QED BY <1>1, <2>2, <2>3 DEF Judge, TypeOK, conf, answer
<1>2. CASE JitterPanics
  BY <1>2 DEF JitterPanics, Calling, TypeOK, conf, answer, body, pause
<1>3. CASE Read
  BY <1>3 DEF Read, TypeOK, conf, body, pause
<1> QED BY <1>1, <1>2, <1>3

LEMMA NextTyped == TypeOK /\ CallInv /\ [Next]_vars => TypeOK'
<1> SUFFICES ASSUME TypeOK, CallInv, [Next]_vars PROVE TypeOK'
  OBVIOUS
<1>1. CASE UNCHANGED vars
  BY <1>1 DEF vars, conf, answer, body, pause, TypeOK
<1>2. CASE Next
  BY <1>2, TableTyped, CallTyped, SendTyped, WriteTyped, ExchangeTyped, JudgeTyped
     DEF Next, Do
<1> QED BY <1>1, <1>2

-----------------------------------------------------------------------------
(* Where a call stands.                                                    *)

LEMMA CallKept == TypeOK /\ CallInv /\ [Next]_vars => CallInv'
<1> SUFFICES ASSUME TypeOK, CallInv, [Next]_vars PROVE CallInv'
  OBVIOUS
<1>0. attempt \in Nat /\ retries \in Nat /\ attempt <= retries + 1
  BY NumbersAssumption DEF TypeOK, Clients
<1>1. CASE UNCHANGED vars
  BY <1>1 DEF vars, answer, body, pause, CallInv, TriesEnough
<1>2. CASE Reload \/ Replace \/ \E i \in Instances : NewClient(i)
  <2>1. at' \in {at, "panic"} /\ Calling
    BY <1>2 DEF Reload, Replace, NewClient
  <2> QED BY <2>1 DEF Calling, answer, body, pause, CallInv, TriesEnough
<1>3. ASSUME NEW i \in Instances, Call(i) PROVE CallInv'
  BY <1>0, <1>3, NumbersAssumption DEF Call, answer, body, CallInv, TriesEnough, TypeOK, Clients
<1>4. CASE CallDefault \/ JitterPanics
  BY <1>4 DEF CallDefault, JitterPanics, Calling, answer, body, pause, CallInv, TriesEnough
<1>5. CASE Send
  BY <1>0, <1>5 DEF Send, CallInv, TriesEnough
<1>6. CASE Fail
  BY <1>0, <1>6 DEF Fail, CallInv, TriesEnough
<1>7. ASSUME NEW s \in {"ok", "bad"}, Answer(s) \/ AnswerEarly(s) PROVE CallInv'
  BY <1>0, <1>7 DEF Answer, AnswerEarly, Answered, body, CallInv, TriesEnough
<1>8. CASE Judge
  <2>1. at' = "send" => attempt <= retries
    BY <1>8, <1>0 DEF Judge, More
  <2>2. at' = "read" => attempt = retries + 1 \/ (response = "ok" /\ ~failed)
    <3>1. CASE Again
      BY <1>8, <1>0, <3>1 DEF Judge, More
    <3>2. CASE ~Again
      BY <1>8, <3>2 DEF Judge, Again, CallInv, TypeOK
    <3> QED BY <3>1, <3>2
  <2>3. at' \in {"send", "read"} /\ at = "judge"
    BY <1>8 DEF Judge
  <2> QED BY <1>8, <2>1, <2>2, <2>3 DEF Judge, answer, CallInv, TriesEnough
<1>9. CASE Read
  BY <1>0, <1>9 DEF Read, body, pause, CallInv, TriesEnough
<1>10. ASSUME NEW k \in Attempts, WriteBody(k) \/ WriteEnds(k) PROVE CallInv'
  <2>1. CASE WriteBody(k)
    <3>1. at # "idle" \/ result # "none"
      BY <2>1 DEF WriteBody, CallInv
    <3> QED BY <2>1, <3>1 DEF WriteBody, answer, pause, CallInv, TriesEnough
  <2>2. CASE WriteEnds(k)
    <3>1. at # "idle" \/ result # "none"
      BY <2>2 DEF WriteEnds, CallInv
    <3> QED BY <2>2, <3>1 DEF WriteEnds, answer, pause, CallInv, TriesEnough
  <2> QED BY <1>10, <2>1, <2>2
<1> QED BY <1>1, <1>2, <1>3, <1>4, <1>5, <1>6, <1>7, <1>8, <1>9, <1>10
        DEF Next, Do, Exchange

-----------------------------------------------------------------------------
(* How long it waits.                                                      *)

LEMMA Products ==
  ASSUME NEW a \in Nat, NEW b \in Nat, NEW d \in Nat, a <= b
  PROVE  a * d <= b * d /\ (a + 1) * d = a * d + d /\ a * d \in Nat
<1>1. b * d = a * d + (b - a) * d /\ (b - a) * d >= 0 /\ a * d \in Nat
  OBVIOUS
<1>2. (a + 1) * d = a * d + d
  OBVIOUS
<1> QED BY <1>1, <1>2

LEMMA JudgeWaits ==
  ASSUME TypeOK, CallInv, WaitInv, Judge
  PROVE  WaitInv'
<1> DEFINE D == Interval + jitter - 1
<1>0. /\ attempt \in Nat /\ retries \in Nat /\ attempt <= retries + 1 /\ attempt >= 1
      /\ at = "judge" /\ at' \in {"send", "read"} /\ waited \in Nat
      /\ jitter # 0 => D \in Nat
      /\ UNCHANGED <<jitter, retries, attempt>>
  BY NumbersAssumption DEF TypeOK, Clients, CallInv, Judge, answer
<1>1. /\ jitter = 0 \/ attempt <= 2 => waited = 0
      /\ jitter # 0 /\ attempt >= 2 => waited <= (attempt - 2) * D
  BY <1>0 DEF WaitInv, Judged
<1>2. PICK t \in Nat :
        /\ waited' = waited + t
        /\ attempt <= 1 \/ jitter = 0 => t = 0
        /\ jitter # 0 => t <= D
  <2>1. CASE Again
    <3>1. PICK t \in NextInterval(attempt - 1) : waited' = waited + t
      BY <2>1 DEF Judge
    <3>2. /\ t \in Nat
          /\ attempt - 1 <= 0 \/ jitter = 0 => t = 0
          /\ jitter # 0 => t <= D
      BY <1>0, WaitTyped
    <3> QED BY <1>0, <3>1, <3>2
  <2>2. CASE ~Again
    BY <1>0, <2>2 DEF Judge
  <2> QED BY <2>1, <2>2
<1>3. jitter = 0 \/ attempt <= 1 => waited' = 0
  BY <1>0, <1>1, <1>2
<1>4. jitter # 0 /\ attempt >= 1 => waited' <= (attempt - 1) * D
  <2>1. CASE jitter # 0 /\ attempt >= 2
    <3>1. (attempt - 2) + 1 = attempt - 1 /\ attempt - 2 \in Nat
      BY <1>0, <2>1
    <3>2. (attempt - 1) * D = (attempt - 2) * D + D /\ (attempt - 2) * D \in Nat
      BY <1>0, <2>1, <3>1, Products
    <3>3. waited <= (attempt - 2) * D
      BY <1>1, <2>1
    <3>4. PICK m \in Nat : m = (attempt - 2) * D
      BY <3>2
    <3> HIDE DEF D
    <3> QED BY <1>0, <1>2, <2>1, <3>2, <3>3, <3>4
  <2>2. CASE jitter # 0 /\ attempt = 1
    <3>1. (attempt - 1) * D = 0
      BY <1>0, <2>2
    <3> QED BY <1>3, <2>2, <3>1
  <2> QED BY <1>0, <2>1, <2>2
<1>5. jitter # 0 => waited' <= retries * D
  <2> SUFFICES ASSUME jitter # 0 PROVE waited' <= retries * D
    OBVIOUS
  <2>1. attempt - 1 \in Nat /\ attempt - 1 <= retries /\ D \in Nat
    BY <1>0
  <2>2. (attempt - 1) * D <= retries * D
    BY <1>0, <2>1, Products
  <2>3. waited' \in Nat /\ (attempt - 1) * D \in Nat /\ retries * D \in Nat
    BY <1>0, <1>2, <2>1, Products
  <2> HIDE DEF D
  <2> QED BY <1>0, <1>4, <2>2, <2>3
<1>6. Judged' = attempt
  BY <1>0 DEF Judged
<1> QED BY <1>0, <1>3, <1>4, <1>5, <1>6 DEF WaitInv, WaitBounded

LEMMA WaitKept == TypeOK /\ CallInv /\ WaitInv /\ [Next]_vars => WaitInv'
<1> SUFFICES ASSUME TypeOK, CallInv, WaitInv, [Next]_vars PROVE WaitInv'
  OBVIOUS
<1>0. attempt \in Nat
  BY NumbersAssumption DEF TypeOK, Clients
<1>1. CASE UNCHANGED vars
  BY <1>1 DEF vars, pause, WaitInv, WaitBounded, Judged
<1>2. CASE Reload \/ Replace \/ \E i \in Instances : NewClient(i)
  <2>1. at' \in {at, "panic"} /\ Calling
    BY <1>2 DEF Reload, Replace, NewClient
  <2> QED BY <2>1 DEF Calling, pause, WaitInv, WaitBounded, Judged
<1>3. ASSUME NEW i \in Instances, Call(i) PROVE WaitInv'
  <2>1. attempt' = 0 /\ waited' = 0 /\ at' \in {"idle", "send"}
    BY <1>3 DEF Call, CallInv
  <2>2. jitter' = 0 \/ waited' <= retries' * (Interval + jitter' - 1)
    <3> DEFINE D == Interval + jitter' - 1
    <3>1. retries' \in Nat /\ (jitter' # 0 => D \in Nat)
      BY <1>3, CallTyped, NumbersAssumption DEF TypeOK, Clients
    <3>2. jitter' # 0 => retries' * D \in Nat
      BY <3>1, Products
    <3> QED BY <2>1, <3>2
  <2> QED BY <2>1, <2>2 DEF WaitInv, WaitBounded, Judged
<1>4. CASE CallDefault \/ JitterPanics
  BY <1>4 DEF CallDefault, JitterPanics, Calling, pause, WaitInv, WaitBounded
<1>5. CASE Send
  BY <1>0, <1>5 DEF Send, pause, WaitInv, WaitBounded, Judged
<1>6. CASE Exchange
  BY <1>6 DEF Exchange, Fail, Answer, AnswerEarly, Answered, pause, WaitInv, WaitBounded,
              Judged
<1>7. CASE Judge
  BY <1>7, JudgeWaits
<1>8. CASE Read
  BY <1>8 DEF Read, pause, WaitInv, WaitBounded, Judged
<1>9. ASSUME NEW k \in Attempts, WriteBody(k) \/ WriteEnds(k) PROVE WaitInv'
  BY <1>9 DEF WriteBody, WriteEnds, pause, WaitInv, WaitBounded, Judged
<1> QED BY <1>1, <1>2, <1>3, <1>4, <1>5, <1>6, <1>7, <1>8, <1>9 DEF Next, Do

-----------------------------------------------------------------------------
(* What the server gets.                                                   *)

LEMMA BodySent ==
  ASSUME TypeOK, CallInv, BodyInv, Send
  PROVE  BodyInv'
<1> SUFFICES ASSUME ~overlap' PROVE BodyInv'
  BY DEF BodyInv
<1>0. /\ attempt \in Nat /\ attempt' \in Attempts /\ at = "send" /\ at' = "wait"
      /\ attempt' = attempt + 1 /\ ~overlap
      /\ UNCHANGED <<offset, sent, received>>
      /\ writer' = [writer EXCEPT ![attempt + 1] = "writing"]
  BY NumbersAssumption DEF TypeOK, Clients, CallInv, Send, Attempts
<1>1. \A k \in Attempts : writer[k] # "writing"
  BY <1>0 DEF BodyInv
<1>2. writer'[attempt'] = "writing" /\ \A k \in Attempts : k # attempt' => writer'[k] = writer[k]
  BY <1>0 DEF TypeOK
<1>3. offset = 0 /\ sent[attempt'] = <<>>
  BY <1>0 DEF BodyInv
<1>4. Len(sent'[attempt']) = offset' /\ \A i \in 1 .. offset' : sent'[attempt'][i] = i
  BY <1>0, <1>3
<1>5. BodyIntact'
  BY <1>0 DEF BodyInv, BodyIntact
<1>6. \A k \in Attempts : k > attempt' => writer'[k] = "none" /\ sent'[k] = <<>>
  BY <1>0, <1>2 DEF BodyInv, Attempts
<1> QED BY <1>0, <1>1, <1>2, <1>4, <1>5, <1>6 DEF BodyInv

LEMMA BodyWritten ==
  ASSUME TypeOK, CallInv, BodyInv, NEW k \in Attempts, WriteBody(k)
  PROVE  BodyInv'
<1> SUFFICES ASSUME ~overlap' PROVE BodyInv'
  BY DEF BodyInv
<1>0. /\ attempt \in Nat /\ ~overlap /\ offset \in Nat /\ offset' = offset + 1
      /\ UNCHANGED <<at, attempt, writer, received>>
      /\ sent' = [sent EXCEPT ![k] = Append(sent[k], offset + 1)]
  BY NumbersAssumption DEF TypeOK, Clients, WriteBody, answer
<1>1. k = attempt /\ at \in {"wait", "judge", "panic"} /\ writer[k] = "writing"
  BY <1>0 DEF BodyInv, WriteBody
<1>2. sent'[k] = Append(sent[k], offset + 1) /\ \A j \in Attempts : j # k => sent'[j] = sent[j]
  BY <1>0 DEF TypeOK
<1>3. sent[k] \in Seq(1 .. Parts) /\ offset + 1 \in 1 .. Parts
  <2>0. sent[k] \in Bodies
    BY DEF TypeOK
  <2>1. PICK n \in 0 .. Parts : sent[k] \in [1 .. n -> 1 .. Parts]
    BY <2>0 DEF Bodies
  <2> QED BY <2>1, SeqDef, NumbersAssumption DEF WriteBody, TypeOK
<1>4. ASSUME at = "wait"
      PROVE  Len(sent'[attempt]) = offset' /\ \A i \in 1 .. offset' : sent'[attempt][i] = i
  <2>1. Len(sent[k]) = offset /\ \A i \in 1 .. offset : sent[k][i] = i
    BY <1>0, <1>1, <1>4 DEF BodyInv
  <2>2. /\ Len(Append(sent[k], offset + 1)) = offset + 1
        /\ \A i \in 1 .. offset : Append(sent[k], offset + 1)[i] = sent[k][i]
        /\ Append(sent[k], offset + 1)[offset + 1] = offset + 1
    BY <1>3, <2>1, AppendProperties
  <2> QED BY <1>0, <1>1, <1>2, <2>1, <2>2
<1>5. \A j \in Attempts : j > attempt => writer'[j] = "none" /\ sent'[j] = <<>>
  BY <1>0, <1>1, <1>2 DEF BodyInv, Attempts
<1>6. BodyIntact'
  BY <1>0 DEF BodyInv, BodyIntact
<1>7. \A j \in Attempts : writer'[j] = "writing" =>
        j = attempt' /\ at' \in {"wait", "judge", "panic"}
  BY <1>0 DEF BodyInv
<1> QED BY <1>0, <1>1, <1>4, <1>5, <1>6, <1>7 DEF BodyInv

LEMMA BodyTaken ==
  ASSUME TypeOK, CallInv, BodyInv, NEW s \in {"ok", "bad"}, Answer(s)
  PROVE  BodyInv'
<1> SUFFICES ASSUME ~overlap' PROVE BodyInv'
  BY DEF BodyInv
<1>0. /\ at = "wait" /\ at' = "judge" /\ attempt \in Attempts /\ ~overlap
      /\ writer[attempt] = "done" /\ received' = received \cup {sent[attempt]}
      /\ UNCHANGED <<attempt, writer, sent, offset>>
  BY NumbersAssumption DEF Answer, Answered, TypeOK, CallInv, Attempts, Clients
<1>1. Len(sent[attempt]) = Parts /\ \A i \in 1 .. Parts : sent[attempt][i] = i
  BY <1>0 DEF BodyInv
<1>2. sent[attempt] = Whole
  <2>0. sent[attempt] \in Bodies
    BY <1>0 DEF TypeOK
  <2>1. PICK n \in 0 .. Parts : sent[attempt] \in [1 .. n -> 1 .. Parts]
    BY <2>0 DEF Bodies
  <2>2. sent[attempt] \in Seq(1 .. Parts)
    BY <2>1, SeqDef, NumbersAssumption
  <2>3. sent[attempt] \in [1 .. Parts -> 1 .. Parts]
    BY <1>1, <2>2, LenProperties
  <2> QED BY <1>1, <2>3 DEF Whole
<1>3. BodyIntact'
  BY <1>0, <1>2 DEF BodyInv, BodyIntact, Whole
<1> QED BY <1>0, <1>3 DEF BodyInv

LEMMA BodyKept == TypeOK /\ CallInv /\ BodyInv /\ [Next]_vars => BodyInv'
<1> SUFFICES ASSUME TypeOK, CallInv, BodyInv, [Next]_vars PROVE BodyInv'
  OBVIOUS
<1>1. CASE UNCHANGED vars
  BY <1>1 DEF vars, body, BodyInv, BodyIntact, Whole
<1>2. CASE Reload \/ Replace \/ \E i \in Instances : NewClient(i)
  <2>1. at' \in {at, "panic"} /\ Calling
    BY <1>2 DEF Reload, Replace, NewClient
  <2> QED BY <2>1 DEF Calling, body, BodyInv, BodyIntact, Whole
<1>3. ASSUME NEW i \in Instances, Call(i) PROVE BodyInv'
  <2>1. \A k \in Attempts : writer[k] = "none"
    BY <1>3 DEF Call, CallInv
  <2>2. at' \in {"idle", "send"} /\ offset = 0
    BY <1>3 DEF Call, CallInv
  <2> QED BY <1>3, <2>1, <2>2 DEF Call, body, BodyInv, BodyIntact, Whole
<1>4. CASE CallDefault \/ JitterPanics
  <2>1. at' = "panic" /\ UNCHANGED <<attempt, body>>
    BY <1>4 DEF CallDefault, JitterPanics, Calling
  <2> QED BY <2>1 DEF body, BodyInv, BodyIntact, Whole
<1>5. CASE Send
  BY <1>5, BodySent
<1>6. ASSUME Fail \/ \E s \in {"ok", "bad"} : AnswerEarly(s) PROVE BodyInv'
  <2>1. at = "wait" /\ at' = "judge" /\ UNCHANGED <<attempt, body>>
    BY <1>6 DEF Fail, AnswerEarly, Answered
  <2> QED BY <2>1 DEF body, BodyInv, BodyIntact, Whole
<1>7. ASSUME NEW s \in {"ok", "bad"}, Answer(s) PROVE BodyInv'
  BY <1>7, BodyTaken
<1>8. CASE Judge
  <2>1. /\ at' \in {"send", "read"} /\ offset' = 0
        /\ overlap' = (overlap \/ \E k \in Attempts : writer[k] = "writing")
        /\ UNCHANGED <<attempt, writer, sent, received>>
    BY <1>8 DEF Judge
  <2> SUFFICES ASSUME ~overlap' PROVE BodyInv'
    BY DEF BodyInv
  <2>2. ~overlap /\ \A k \in Attempts : writer'[k] # "writing"
    BY <2>1
  <2>3. BodyIntact'
    BY <2>1, <2>2 DEF BodyInv, BodyIntact, Whole
  <2>4. \A k \in Attempts : k > attempt' => writer'[k] = "none" /\ sent'[k] = <<>>
    BY <2>1, <2>2 DEF BodyInv
  <2> QED BY <2>1, <2>2, <2>3, <2>4 DEF BodyInv
<1>9. CASE Read
  <2>1. at' = "idle" /\ at = "read" /\ UNCHANGED <<attempt, body>>
    BY <1>9 DEF Read
  <2> QED BY <2>1 DEF body, BodyInv, BodyIntact, Whole
<1>10. ASSUME NEW k \in Attempts, WriteBody(k) PROVE BodyInv'
  BY <1>10, BodyWritten
<1>11. ASSUME NEW k \in Attempts, WriteEnds(k) PROVE BodyInv'
  <2> SUFFICES ASSUME ~overlap' PROVE BodyInv'
    BY DEF BodyInv
  <2>0. /\ ~overlap /\ UNCHANGED <<at, attempt, offset, sent, received>>
        /\ writer' = [writer EXCEPT ![k] = "done"] /\ writer[k] = "writing"
    BY <1>11 DEF WriteEnds
  <2>1. k = attempt /\ attempt \in Nat
    BY <2>0, NumbersAssumption DEF BodyInv, Attempts
  <2>2. writer'[k] = "done" /\ \A j \in Attempts : j # k => writer'[j] = writer[j]
    BY <2>0 DEF TypeOK
  <2>3. at = "wait" => offset = Parts
    BY <1>11, <2>0, <2>1 DEF WriteEnds, BodyInv
  <2>4. BodyIntact'
    BY <2>0 DEF BodyInv, BodyIntact, Whole
  <2> QED BY <2>0, <2>1, <2>2, <2>3, <2>4 DEF BodyInv
<1> QED BY <1>1, <1>2, <1>3, <1>4, <1>5, <1>6, <1>7, <1>8, <1>9, <1>10, <1>11
        DEF Next, Do, Exchange

-----------------------------------------------------------------------------
(* The theorems.                                                           *)

LEMMA InvInductive == Spec => []Inv
<1>1. Init => Inv
  <2> SUFFICES ASSUME Init PROVE Inv
    OBVIOUS
  <2>1. TypeOK
    BY InitTyped
  <2>2. CallInv /\ BodyInv
    BY NumbersAssumption DEF Init, CallInv, TriesEnough, BodyInv, BodyIntact, Attempts
  <2>3. WaitInv
    BY NumbersAssumption DEF Init, WaitInv, WaitBounded, Judged
  <2> QED BY <2>1, <2>2, <2>3 DEF Inv
<1>2. Inv /\ [Next]_vars => Inv'
  BY NextTyped, CallKept, WaitKept, BodyKept DEF Inv
<1> QED BY <1>1, <1>2, PTL DEF Spec

(* Every response but the one in use is closed, all of them when the call  *)
(* has returned, and no call waits longer than it was configured to.       *)
THEOREM NothingLeftBehind == Spec => []ClientInv
<1>1. Inv => ClientInv
  <2> SUFFICES ASSUME Inv PROVE ClientInv
    OBVIOUS
  <2>1. Cardinality(unclosed) <= 1
    <3>1. IsFiniteSet({attempt}) /\ Cardinality({attempt}) = 1
      BY FS_Singleton
    <3>2. unclosed \subseteq {attempt}
      BY DEF Inv, CallInv
    <3>3. Cardinality(unclosed) <= Cardinality({attempt})
      BY <3>1, <3>2, FS_Subset
    <3> QED BY <3>1, <3>3
  <2> QED BY <2>1 DEF Inv, CallInv, WaitInv, BodiesClosed, ClientInv
<1> QED BY <1>1, InvInductive, PTL

(* A call goes on until an attempt succeeds or RetryCount + 1 of them have *)
(* been made.                                                              *)
THEOREM TriesAsConfigured == Spec => []TriesEnough
<1>1. Inv => TriesEnough
  BY DEF Inv, CallInv
<1> QED BY <1>1, InvInductive, PTL

(* A server never takes a part of the body for the whole, unless the       *)
(* reader was set back under the goroutine of an earlier attempt.          *)
THEOREM BodiesWhole == Spec => []BodyIntact
<1>1. Inv => BodyIntact
  BY DEF Inv, BodyInv, BodyIntact
<1> QED BY <1>1, InvInductive, PTL

(* Only the end of a reload, and only one whose configuration no longer    *)
(* has it, takes a client out of the table.                                *)
THEOREM ReloadKeepsClients == Spec => ClientsStay
<1> DEFINE Stays == \A i \in Instances :
                      (table[i] # Absent /\ table'[i] = Absent) =>
                        building /\ target[i] = Absent
<1>1. [Next]_vars => [Stays]_table
  <2> SUFFICES ASSUME [Next]_vars, table' # table PROVE Stays
    OBVIOUS
  <2>1. Replace
    BY DEF vars, conf, Next, Do, Exchange, Reload, NewClient, Call, CallDefault, Send, Judge,
           JitterPanics, Read, Fail, Answer, AnswerEarly, WriteBody, WriteEnds
  <2> QED BY <2>1 DEF Replace
<1> QED BY <1>1, PTL DEF Spec, ClientsStay

-----------------------------------------------------------------------------
(* The types of errors and of what is made of them.                        *)

LEMMA ModSmall ==
  ASSUME NEW m \in Nat, m > 0, NEW x \in 0 .. m - 1
  PROVE  x % m = x
<1>1. x = m * (x \div m) + (x % m) /\ x % m \in 0 .. m - 1 /\ x \div m \in Int
  OBVIOUS
<1>2. x \div m = 0
  BY <1>1
<1>. QED
  BY <1>1, <1>2

LEMMA Int32Fits ==
  ASSUME NEW n \in -Half .. Half - 1
  PROVE  Int32(n) = n
<1>1. Half \in Nat /\ Half > 0
  BY HalfAssumption DEF ECodeParseTime
<1>2. n + Half \in 0 .. 2 * Half - 1 /\ 2 * Half \in Nat /\ 2 * Half > 0
  BY <1>1
<1>3. (n + Half) % (2 * Half) = n + Half
  BY <1>2, ModSmall
<1>. QED
  BY <1>1, <1>3 DEF Int32

LEMMA Int32Typed ==
  ASSUME NEW n \in Int
  PROVE  Int32(n) \in Int
<1>1. Half \in Nat /\ Half > 0
  BY HalfAssumption DEF ECodeParseTime
<1>2. 2 * Half \in Nat /\ 2 * Half > 0 /\ n + Half \in Int
  BY <1>1
<1>3. (n + Half) % (2 * Half) \in Int
  BY <1>2
<1>. QED
  BY <1>1, <1>3 DEF Int32

LEMMA ErrorTyped ==
  ASSUME NEW kind \in Kinds, NEW code \in Int, NEW marks \in Nat, NEW service \in Nat,
         NEW cause \in BOOLEAN
  PROVE  Error(kind, code, marks, service, cause) \in ErrorType
BY DEF Error, ErrorType

LEMMA NamedErrorsTyped ==
  /\ NoError \in ErrorType
  /\ \A code \in Int : New(code) \in ErrorType
  /\ \A code \in Int, service \in Nat : GoMicro(code, service) \in ErrorType
BY DEF NoError, New, GoMicro, Error, ErrorType, Kinds

LEMMA ServerWrapTyped ==
  ASSUME NEW e \in ErrorType, NEW own \in Nat, NEW f \in BOOLEAN
  PROVE  ServerWrap(e, own, f) \in ErrorType
<1>1. /\ e.kind \in Kinds /\ e.code \in Int /\ e.marks \in Nat /\ e.service \in Nat
      /\ Int32(e.code) \in Int /\ "gm" \in Kinds
  BY Int32Typed DEF ErrorType, Kinds
<1>2. ASSUME NEW x \in ErrorType
      PROVE  Marked(x, f) \in ErrorType
  <2>1. x.code \in Int /\ -x.code \in Int /\ Int32(-x.code) \in Int /\ x.marks + 1 \in Nat
    BY Int32Typed DEF ErrorType
  <2>. QED
    BY <2>1 DEF Marked, ErrorType
<1>3. CASE e.kind = "broccoli"
  <2>. DEFINE s == IF e.service = 0 THEN own ELSE e.service
  <2>1. s \in Nat
    BY <1>1
  <2>2. Error("gm", Int32(e.code), e.marks, s, TRUE) \in ErrorType
    BY <1>1, <2>1 DEF Error, ErrorType
  <2>3. ServerWrap(e, own, f) = Marked(Error("gm", Int32(e.code), e.marks, s, TRUE), f)
    BY <1>3 DEF ServerWrap
  <2>. QED
    BY <1>2, <2>2, <2>3
<1>4. CASE e.kind # "broccoli"
  <2>1. Error("gm", ECodeSystem, e.marks, own, TRUE) \in ErrorType
    BY <1>1 DEF Error, ErrorType, ECodeSystem
  <2>. QED
    BY <1>4, <2>1, NamedErrorsTyped DEF ServerWrap
<1>. QED
  BY <1>3, <1>4

LEMMA ClientUnwrapTyped ==
  ASSUME NEW e \in ErrorType, NEW own \in Nat
  PROVE  ClientUnwrap(e, own) \in ErrorType /\ ClientUnwrap(e, own).kind = "broccoli"
<1>. DEFINE c == IF e.marks > 0 THEN Int32(-e.code) ELSE e.code
            m == IF e.marks > 0 THEN e.marks - 1 ELSE 0
            s == IF e.service = 0 THEN own ELSE e.service
<1>1. /\ e.code \in Int /\ -e.code \in Int /\ e.marks \in Nat /\ e.service \in Nat
      /\ e.cause \in BOOLEAN
  BY DEF ErrorType
<1>2. c \in Int /\ m \in Nat /\ s \in Nat
  BY <1>1, Int32Typed
<1>3. ClientUnwrap(e, own) = Error("broccoli", c, m, s, e.cause)
  BY DEF ClientUnwrap
<1>4. "broccoli" \in Kinds
  BY DEF Kinds
<1>. HIDE DEF c, m, s
<1>5. Error("broccoli", c, m, s, e.cause) \in ErrorType
  BY <1>1, <1>2, <1>4, ErrorTyped
<1>6. Error("broccoli", c, m, s, e.cause).kind = "broccoli"
  BY DEF Error
<1>. QED
  BY <1>3, <1>5, <1>6

LEMMA WireTyped ==
  ASSUME NEW e \in ErrorType
  PROVE  Wire(e) \in ErrorType
<1>1. e.service \in Nat
  BY DEF ErrorType
<1>. QED
  BY <1>1, NamedErrorsTyped DEF Wire, TransportInternal

LEMMA ReplyTyped ==
  ASSUME NEW code \in Int, NEW marks \in Nat, NEW service \in Nat
  PROVE  Write(code, marks, service) \in Reply
<1>1. StatusCode(code) \in {200, 400, 401, 404, 500}
  BY DEF StatusCode, ECodeStatus
<1>. QED
  BY <1>1 DEF Write, Reply

LEMMA ResponsesTyped ==
  ASSUME NEW e \in ErrorType, NEW own \in Nat
  PROVE  /\ Success(own) \in Reply /\ ErrorResponse(e, own) \in Reply
         /\ GatewayResponse(e) \in Reply
<1>1. e.code \in Int /\ e.marks \in Nat
  BY DEF ErrorType
<1>2. Success(own) \in Reply
  BY ReplyTyped DEF Success, ECodeSuccessed
<1>3. assertError(e) \in ErrorType
  <2>0. "broccoli" \in Kinds /\ ECodeSystemAPI \in Int /\ 0 \in Nat /\ FALSE \in BOOLEAN
    BY DEF Kinds, ECodeSystemAPI
  <2>1. Error("broccoli", ECodeSystemAPI, e.marks, 0, FALSE) \in ErrorType
    BY <1>1, <2>0, ErrorTyped
  <2>2. New(ECodeSystem) \in ErrorType
    BY NamedErrorsTyped DEF ECodeSystem
  <2>. QED
    BY <2>1, <2>2 DEF assertError
<1>4. ErrorResponse(e, own) \in Reply
  <2>. DEFINE x == assertError(e)
  <2>1. x.code \in Int /\ x.marks \in Nat /\ x.service \in Nat
    BY <1>3 DEF ErrorType
  <2>2. (IF x.service = 0 THEN own ELSE x.service) \in Nat
    BY <2>1
  <2>. QED
    BY <2>1, <2>2, ReplyTyped DEF ErrorResponse
<1>5. GatewayResponse(e) \in Reply
  <2>. DEFINE c == IF e.kind = "nil" THEN ECodeSuccessed
                   ELSE IF e.code # 0 THEN e.code ELSE ECodeProxyFailed
  <2>1. c \in Int
    BY <1>1 DEF ECodeSuccessed, ECodeProxyFailed
  <2>. QED
    BY <1>1, <2>1, ReplyTyped DEF GatewayResponse
<1>. QED
  BY <1>2, <1>4, <1>5

-----------------------------------------------------------------------------
(* The middlewares and the services.                                       *)

Hows    == {"none", "error", "refused", "metrics", "panic", "access"}
Origins == [how : Hows, level : Levels, error : ErrorType]

(* The types that the proofs need besides those of FrontTypeOK.            *)
FrontTyped ==
  /\ FrontTypeOK
  /\ error \in [Requests -> ErrorType] /\ origin \in [Requests -> Origins]
  /\ replies \in [Requests -> Seq(Reply)] /\ content \in [Buffers -> Seq(Int)]
  /\ counted \in [Requests -> Seq(Int)] /\ logged \in [Requests -> Seq(Int)]

(* Where a request can be at each stage, and who has a buffer.             *)
Placed(r) ==
  /\ stage[r] = "idle" <=> entry[r] = "none"
  /\ stage[r] \in {"idle", "access"} => buf[r] = 0
  /\ entry[r] = "gateway" => level[r] >= 1 /\ buf[r] = 0
  /\ stage[r] \in {"serve", "wrap", "return"} => level[r] >= 1
  /\ stage[r] \in {"idle", "access", "aborted", "bind", "respond", "closing", "unwound"} =>
       level[r] = 0
  /\ stage[r] = "done" => level[r] = IF Gin(r) THEN 0 ELSE 1
  /\ Gin(r) /\ buf[r] = 0 =>
       stage[r] \in {"access", "done"} \/ (stage[r] = "panic" /\ level[r] = 0)

(* A request is answered when it closes, and at the end unless a panic has *)
(* ended it.                                                               *)
AnsweredOnce(r) ==
  /\ replies[r] = <<>> \/ Len(replies[r]) = 1
  /\ stage[r] \notin {"closing", "done"} => replies[r] = <<>>
  /\ stage[r] = "closing" => replies[r] # <<>>
  /\ stage[r] = "panic" => IF level[r] = 0 /\ buf[r] = 0 THEN origin[r].how = "access"
                           ELSE origin[r].how = "panic" /\ (level[r] = 0 => Died(r))
  /\ stage[r] = "unwound" => Died(r) /\ recovery # "inside"
  /\ stage[r] = "aborted" => origin[r].how = "access"
  /\ origin[r].how = "access" => stage[r] \in {"panic", "aborted", "done"} /\ replies[r] = <<>>
  /\ Done(r) /\ replies[r] = <<>> =>
       origin[r].how = "access" \/ (Died(r) /\ recovery = "none")

(* A buffer belongs to one request, until that gives it back.              *)
Owns(r) == Gin(r) /\ buf[r] # 0 /\ stage[r] \notin {"unwound", "done"}
OwnBuffers ==
  /\ \A r \in Requests : Owns(r) => buf[r] \in Buffers \ free
  /\ \A r, q \in Requests : r # q /\ Owns(r) /\ Owns(q) => buf[r] # buf[q]

(* The buffer holds the code of the answer, if there is one already.       *)
Recorded(r) == IF replies[r] = <<>> THEN <<>> ELSE <<replies[r][1].code>>
CountInv(r) ==
  onlyLogErr /\ recovery # "outside" =>
    /\ Owns(r) => content[buf[r]] = Recorded(r)
    /\ Done(r) /\ replies[r] # <<>> /\ Gin(r) =>
         /\ counted[r] = IF 0 \in metrics THEN Recordable(replies[r][1]) ELSE <<>>
         /\ logged[r] = IF replies[r][1].status = 200 THEN Recordable(replies[r][1]) ELSE <<>>

(* A step for a request changes no other one.                              *)
Frame(r) ==
  /\ recovery' = recovery /\ onlyLogErr' = onlyLogErr /\ metrics' = metrics
  /\ \A q \in Requests \ {r} :
       /\ entry'[q] = entry[q] /\ stage'[q] = stage[q] /\ level'[q] = level[q]
       /\ incoming'[q] = incoming[q] /\ error'[q] = error[q] /\ origin'[q] = origin[q]
       /\ replies'[q] = replies[q] /\ buf'[q] = buf[q] /\ counted'[q] = counted[q]
       /\ logged'[q] = logged[q]

FrontIInv ==
  /\ FrontTyped
  /\ \A r \in Requests : Placed(r) /\ AnsweredOnce(r)
  /\ OwnBuffers

-----------------------------------------------------------------------------
(* A step changes one request, and keeps the types.                        *)

LEMMA WritesTyped ==
  ASSUME FrontTyped, NEW r \in Requests, NEW a \in Reply, Writes(r, a)
  PROVE  /\ replies' \in [Requests -> Seq(Reply)]
         /\ replies' = [replies EXCEPT ![r] = Append(@, a)]
         /\ content' \in [Buffers -> Seq(Int)]
         /\ buf' = buf /\ free' = free
<1>1. Append(replies[r], a) \in Seq(Reply)
  BY DEF FrontTyped
<1>2. a.code \in Int
  BY DEF Reply
<1>3. \A b \in Buffers : Append(content[b], a.code) \in Seq(Int)
  BY <1>2 DEF FrontTyped
<1>. QED
  BY <1>1, <1>3 DEF FrontTyped, Writes

LEMMA SetsTyped ==
  ASSUME FrontTyped, NEW r \in Requests, NEW e \in ErrorType,
         NEW how \in Hows, Sets(r, e, how)
  PROVE  /\ error' \in [Requests -> ErrorType] /\ error' = [error EXCEPT ![r] = e]
         /\ origin' \in [Requests -> Origins]
         /\ origin' = [origin EXCEPT ![r] = [how |-> how, level |-> level[r], error |-> e]]
<1>1. [how |-> how, level |-> level[r], error |-> e] \in Origins
  BY DEF FrontTyped, FrontTypeOK, Origins
<1>. QED
  BY <1>1 DEF FrontTyped, Sets

LEMMA LevelFacts ==
  /\ 0 \in Levels /\ 1 \in Levels
  /\ \A l \in Levels : l < Depth => l + 1 \in Levels
  /\ \A l \in Levels : l >= 1 => l - 1 \in Levels
  /\ \A l \in Levels : l \in Nat /\ Own(l) = l + 1 /\ Own(l) \in Nat /\ Own(l) # 0
<1>1. Depth \in Nat \ {0}
  BY FrontAssumption
<1>2. Levels = 0 .. Depth /\ \A l : Own(l) = l + 1
  BY DEF Levels, Own
<1>. HIDE DEF Levels
<1>. QED
  BY <1>1, <1>2

LEMMA ErrorFacts ==
  /\ NoError \in ErrorType /\ New(ECodeInvalidParams) \in ErrorType
  /\ New(ECodeInternal) \in ErrorType
  /\ \A s \in Nat : /\ GoMicro(ECodeSystem, s) \in ErrorType
                    /\ GoMicro(ECodeInvalidParams, s) \in ErrorType
                    /\ ClientUnwrap(GoMicro(TransportTimeout, 0), s) \in ErrorType
  /\ Raised \subseteq ErrorType /\ Panicked \subseteq ErrorType /\ MetricsPanic \in Panicked
<1>1. /\ ECodeInvalidParams \in Int /\ ECodeInternal \in Int /\ ECodeSystem \in Int
      /\ TransportTimeout \in Int
  BY DEF ECodeInvalidParams, ECodeInternal, ECodeSystem, TransportTimeout
<1>2. GoMicro(TransportTimeout, 0) \in ErrorType
  BY <1>1, NamedErrorsTyped
<1>3. Error("plain", 0, 0, 0, FALSE) \in ErrorType
  BY DEF Error, ErrorType, Kinds
<1>4. Raised \subseteq ErrorType
  BY FrontAssumption
<1>5. /\ NoError \in ErrorType /\ New(ECodeInvalidParams) \in ErrorType
      /\ New(ECodeInternal) \in ErrorType
  BY <1>1, NamedErrorsTyped
<1>6. ASSUME NEW s \in Nat
      PROVE  /\ GoMicro(ECodeSystem, s) \in ErrorType
             /\ GoMicro(ECodeInvalidParams, s) \in ErrorType
             /\ ClientUnwrap(GoMicro(TransportTimeout, 0), s) \in ErrorType
  BY <1>1, <1>2, NamedErrorsTyped, ClientUnwrapTyped
<1>7. Panicked \subseteq ErrorType
  BY <1>3, <1>5 DEF Panicked
<1>8. MetricsPanic \in Panicked
  BY DEF MetricsPanic, Panicked
<1>. QED
  BY <1>4, <1>5, <1>6, <1>7, <1>8

(* g is f but for the value at r.                                          *)
Updates(f, g, r, T) == g = f \/ \E x \in T : g = [f EXCEPT ![r] = x]

LEMMA Updated ==
  ASSUME NEW D, NEW T, NEW f \in [D -> T], NEW g, NEW r \in D, Updates(f, g, r, T)
  PROVE  g \in [D -> T] /\ \A q \in D \ {r} : g[q] = f[q]
BY DEF Updates

(* What every step of a request keeps.                                     *)
StepUpdates(r) ==
  /\ UNCHANGED setting
  /\ Updates(entry, entry', r, {"none", "gin", "gateway"})
  /\ Updates(stage, stage', r, Stages)
  /\ Updates(level, level', r, Levels)
  /\ Updates(incoming, incoming', r, [Levels -> BOOLEAN])
  /\ Updates(metadata, metadata', r, [Levels -> BOOLEAN])
  /\ Updates(error, error', r, ErrorType)
  /\ Updates(origin, origin', r, Origins)
  /\ Updates(replies, replies', r, Seq(Reply))
  /\ Updates(buf, buf', r, Buffers \cup {0})
  /\ free' \subseteq Buffers /\ content' \in [Buffers -> Seq(Int)]
  /\ Updates(counted, counted', r, Seq(Int)) /\ Updates(logged, logged', r, Seq(Int))

LEMMA Retyped ==
  ASSUME FrontTyped, NEW r \in Requests, StepUpdates(r)
  PROVE  FrontTyped' /\ Frame(r)
<1>1. recovery' = recovery /\ onlyLogErr' = onlyLogErr /\ metrics' = metrics
  BY DEF StepUpdates, setting
<1>2. /\ entry' \in [Requests -> {"none", "gin", "gateway"}]
      /\ \A q \in Requests \ {r} : entry'[q] = entry[q]
  <2>1. entry \in [Requests -> {"none", "gin", "gateway"}]
    BY DEF FrontTyped, FrontTypeOK
  <2>2. Updates(entry, entry', r, {"none", "gin", "gateway"})
    BY DEF StepUpdates
  <2>. QED
    BY <2>1, <2>2, Updated
<1>3. /\ stage' \in [Requests -> Stages]
      /\ \A q \in Requests \ {r} : stage'[q] = stage[q]
  <2>1. stage \in [Requests -> Stages]
    BY DEF FrontTyped, FrontTypeOK
  <2>2. Updates(stage, stage', r, Stages)
    BY DEF StepUpdates
  <2>. QED
    BY <2>1, <2>2, Updated
<1>4. /\ level' \in [Requests -> Levels]
      /\ \A q \in Requests \ {r} : level'[q] = level[q]
  <2>1. level \in [Requests -> Levels]
    BY DEF FrontTyped, FrontTypeOK
  <2>2. Updates(level, level', r, Levels)
    BY DEF StepUpdates
  <2>. QED
    BY <2>1, <2>2, Updated
<1>5. /\ incoming' \in [Requests -> [Levels -> BOOLEAN]]
      /\ \A q \in Requests \ {r} : incoming'[q] = incoming[q]
  <2>1. incoming \in [Requests -> [Levels -> BOOLEAN]]
    BY DEF FrontTyped, FrontTypeOK
  <2>2. Updates(incoming, incoming', r, [Levels -> BOOLEAN])
    BY DEF StepUpdates
  <2>. QED
    BY <2>1, <2>2 DEF Updates
<1>6. /\ metadata' \in [Requests -> [Levels -> BOOLEAN]]
      /\ \A q \in Requests \ {r} : metadata'[q] = metadata[q]
  <2>1. metadata \in [Requests -> [Levels -> BOOLEAN]]
    BY DEF FrontTyped, FrontTypeOK
  <2>2. Updates(metadata, metadata', r, [Levels -> BOOLEAN])
    BY DEF StepUpdates
  <2>. QED
    BY <2>1, <2>2 DEF Updates
<1>7. /\ error' \in [Requests -> ErrorType]
      /\ \A q \in Requests \ {r} : error'[q] = error[q]
  <2>1. error \in [Requests -> ErrorType]
    BY DEF FrontTyped, FrontTypeOK
  <2>2. Updates(error, error', r, ErrorType)
    BY DEF StepUpdates
  <2>. QED
    BY <2>1, <2>2, Updated
<1>8. /\ origin' \in [Requests -> Origins]
      /\ \A q \in Requests \ {r} : origin'[q] = origin[q]
  <2>1. origin \in [Requests -> Origins]
    BY DEF FrontTyped, FrontTypeOK
  <2>2. Updates(origin, origin', r, Origins)
    BY DEF StepUpdates
  <2>. QED
    BY <2>1, <2>2, Updated
<1>9. /\ replies' \in [Requests -> Seq(Reply)]
      /\ \A q \in Requests \ {r} : replies'[q] = replies[q]
  <2>1. replies \in [Requests -> Seq(Reply)]
    BY DEF FrontTyped, FrontTypeOK
  <2>2. Updates(replies, replies', r, Seq(Reply))
    BY DEF StepUpdates
  <2>. QED
    BY <2>1, <2>2 DEF Updates
<1>10. /\ buf' \in [Requests -> Buffers \cup {0}]
      /\ \A q \in Requests \ {r} : buf'[q] = buf[q]
  <2>1. buf \in [Requests -> Buffers \cup {0}]
    BY DEF FrontTyped, FrontTypeOK
  <2>2. Updates(buf, buf', r, Buffers \cup {0})
    BY DEF StepUpdates
  <2>. QED
    BY <2>1, <2>2 DEF Updates
<1>11. /\ counted' \in [Requests -> Seq(Int)]
      /\ \A q \in Requests \ {r} : counted'[q] = counted[q]
  <2>1. counted \in [Requests -> Seq(Int)]
    BY DEF FrontTyped, FrontTypeOK
  <2>2. Updates(counted, counted', r, Seq(Int))
    BY DEF StepUpdates
  <2>. QED
    BY <2>1, <2>2 DEF Updates
<1>12. free' \subseteq Buffers /\ content' \in [Buffers -> Seq(Int)]
  BY DEF StepUpdates
<1>l. /\ logged' \in [Requests -> Seq(Int)]
      /\ \A q \in Requests \ {r} : logged'[q] = logged[q]
  <2>1. logged \in [Requests -> Seq(Int)]
    BY DEF FrontTyped, FrontTypeOK
  <2>2. Updates(logged, logged', r, Seq(Int))
    BY DEF StepUpdates
  <2>. QED
    BY <2>1, <2>2 DEF Updates
<1>13. FrontTyped'
  BY <1>1, <1>2, <1>3, <1>4, <1>5, <1>6, <1>7, <1>8, <1>9, <1>10, <1>11, <1>12, <1>l
  DEF FrontTyped, FrontTypeOK
<1>14. Frame(r)
  BY <1>1, <1>2, <1>3, <1>4, <1>5, <1>7, <1>8, <1>9, <1>10, <1>11, <1>l DEF Frame
<1>. QED
  BY <1>13, <1>14

LEMMA WritesUpdates ==
  ASSUME FrontTyped, NEW r \in Requests, NEW a \in Reply, Writes(r, a)
  PROVE  /\ Updates(replies, replies', r, Seq(Reply))
         /\ content' \in [Buffers -> Seq(Int)] /\ buf' = buf /\ free' = free
<1>1. Append(replies[r], a) \in Seq(Reply)
  BY DEF FrontTyped
<1>. QED
  BY <1>1, WritesTyped DEF Updates

LEMMA SetsUpdates ==
  ASSUME FrontTyped, NEW r \in Requests, NEW e \in ErrorType,
         NEW how \in Hows, Sets(r, e, how)
  PROVE  Updates(error, error', r, ErrorType) /\ Updates(origin, origin', r, Origins)
<1>1. [how |-> how, level |-> level[r], error |-> e] \in Origins
  BY DEF FrontTyped, FrontTypeOK, Origins
<1>. QED
  BY <1>1, SetsTyped DEF Updates

LEMMA MovesUpdates ==
  ASSUME NEW r \in Requests, NEW from, NEW to \in Stages, Moves(r, from, to)
  PROVE  Updates(stage, stage', r, Stages)
BY DEF Moves, Updates

LEMMA DeferredUpdates ==
  ASSUME FrontTyped, NEW r \in Requests, NEW from, NEW to \in Stages,
         Deferred(r, from, to), buf[r] # 0
  PROVE  StepUpdates(r)
<1>1. content[buf[r]] \in Seq(Int) /\ buf[r] \in Buffers
  BY DEF FrontTyped, FrontTypeOK
<1>2. \A s \in Seq(Int) : ErrCode(s) \in Seq(Int)
  BY DEF ErrCode
<1>3. /\ Moves(r, from, to) /\ Records(r, ErrCode(content[buf[r]]))
      /\ free' = free \cup {buf[r]}
      /\ UNCHANGED <<setting, entry, level, flags, error, origin, replies, buf, content>>
  BY DEF Deferred
<1>4. Updates(stage, stage', r, Stages)
  BY <1>3, MovesUpdates
<1>5. Updates(counted, counted', r, Seq(Int)) /\ Updates(logged, logged', r, Seq(Int))
  <2>. DEFINE codes == ErrCode(content[buf[r]])
  <2>1. codes \in Seq(Int) /\ <<>> \in Seq(Int)
    BY <1>1, <1>2
  <2>2. /\ counted' = [counted EXCEPT ![r] = IF 0 \in metrics THEN codes ELSE <<>>]
        /\ logged' = [logged EXCEPT ![r] = IF Status(r) = 200 THEN codes ELSE <<>>]
    BY <1>3 DEF Records
  <2>. HIDE DEF codes
  <2>3. Updates(counted, counted', r, Seq(Int))
    BY <2>1, <2>2 DEF Updates
  <2>4. Updates(logged, logged', r, Seq(Int))
    BY <2>1, <2>2 DEF Updates
  <2>. QED
    BY <2>3, <2>4
<1>6. free' \subseteq Buffers /\ content' \in [Buffers -> Seq(Int)]
  BY <1>1, <1>3 DEF FrontTyped, FrontTypeOK
<1>. QED
  BY <1>3, <1>4, <1>5, <1>6 DEF StepUpdates, Updates, flags

LEMMA StagesHas ==
  {"idle", "access", "aborted", "bind", "serve", "handle", "called", "wrap", "return",
   "respond", "panic", "closing", "unwound", "done"} \subseteq Stages
BY DEF Stages

LEMMA ArriveTyped ==
  ASSUME FrontTyped, NEW r \in Requests, NEW e \in {"gin", "gateway"}, Arrive(r, e)
  PROVE  StepUpdates(r)
<1>1. /\ Moves(r, "idle", IF e = "gin" THEN "access" ELSE "serve")
      /\ entry' = [entry EXCEPT ![r] = e]
      /\ level' = [level EXCEPT ![r] = IF e = "gin" THEN 0 ELSE 1]
      /\ UNCHANGED <<setting, flags, error, origin, replies, pool, records>>
  BY DEF Arrive
<1>2. Updates(stage, stage', r, Stages)
  <2>1. (IF e = "gin" THEN "access" ELSE "serve") \in Stages
    BY StagesHas
  <2>. QED
    BY <1>1, <2>1, MovesUpdates
<1>3. Updates(entry, entry', r, {"none", "gin", "gateway"})
  BY <1>1 DEF Updates
<1>4. Updates(level, level', r, Levels)
  BY <1>1, LevelFacts DEF Updates
<1>5. free' \subseteq Buffers /\ content' \in [Buffers -> Seq(Int)]
  BY <1>1 DEF FrontTyped, FrontTypeOK, pool
<1>. QED
  BY <1>1, <1>2, <1>3, <1>4, <1>5 DEF StepUpdates, Updates, flags, pool, records

LEMMA BufferTaken ==
  ASSUME FrontTyped, NEW r \in Requests, TakeBuffer(r)
  PROVE  /\ Updates(buf, buf', r, Buffers \cup {0}) /\ buf'[r] # 0
         /\ free' \subseteq Buffers /\ content' \in [Buffers -> Seq(Int)]
<1>1. free \subseteq Buffers /\ content \in [Buffers -> Seq(Int)]
  BY DEF FrontTyped, FrontTypeOK
<1>2. PICK b \in free : /\ buf' = [buf EXCEPT ![r] = b] /\ free' = free \ {b}
                        /\ content' = [content EXCEPT ![b] = <<>>]
  BY DEF TakeBuffer
<1>3. Updates(buf, buf', r, Buffers \cup {0})
  BY <1>1, <1>2 DEF Updates
<1>4. free' \subseteq Buffers /\ content' \in [Buffers -> Seq(Int)]
  BY <1>1, <1>2
<1>5. buf'[r] # 0
  BY <1>1, <1>2, FrontAssumption DEF FrontTyped, FrontTypeOK
<1>. QED
  BY <1>3, <1>4, <1>5

LEMMA AccessTyped ==
  ASSUME FrontTyped, NEW r \in Requests,
         AccessFails(r) \/ Access(r) \/ AccessPanics(r) \/ Bind(r)
  PROVE  StepUpdates(r)
<1>. USE DEF setting, flags, pool, records
<1>1. free \subseteq Buffers /\ content \in [Buffers -> Seq(Int)]
  BY DEF FrontTyped, FrontTypeOK
<1>2. CASE AccessFails(r)
  <2>1. /\ Moves(r, "access", "panic") /\ Sets(r, NoError, "access") /\ "access" \in Hows
        /\ UNCHANGED <<setting, entry, level, flags, replies, pool, records>>
    BY <1>2 DEF AccessFails, Hows
  <2>2. Updates(stage, stage', r, Stages)
    BY <2>1, MovesUpdates, StagesHas
  <2>3. Updates(error, error', r, ErrorType) /\ Updates(origin, origin', r, Origins)
    BY <2>1, SetsUpdates, ErrorFacts
  <2>. QED
    BY <1>1, <2>1, <2>2, <2>3 DEF StepUpdates, Updates
<1>3. CASE Access(r)
  <2>1. /\ Moves(r, "access", "bind")
        /\ UNCHANGED <<setting, entry, level, flags, error, origin, replies, records>>
    BY <1>3 DEF Access
  <2>3. Updates(stage, stage', r, Stages)
    BY <2>1, MovesUpdates, StagesHas
  <2>. QED
    BY <1>3, <2>1, <2>3, BufferTaken DEF StepUpdates, Updates, Access
<1>5. CASE AccessPanics(r)
  <2>1. /\ Moves(r, "access", "aborted") /\ TakeBuffer(r) /\ Sets(r, NoError, "access")
        /\ UNCHANGED <<setting, entry, level, flags, replies, records>> /\ "access" \in Hows
    BY <1>5 DEF AccessPanics, Hows
  <2>2. Updates(stage, stage', r, Stages)
    BY <2>1, MovesUpdates, StagesHas
  <2>3. Updates(error, error', r, ErrorType) /\ Updates(origin, origin', r, Origins)
    BY <2>1, SetsUpdates, ErrorFacts
  <2>. QED
    BY <2>1, <2>2, <2>3, BufferTaken DEF StepUpdates, Updates
<1>4. CASE Bind(r)
  <2>1. UNCHANGED <<setting, entry, level, flags, replies, pool, records>>
    BY <1>4 DEF Bind
  <2>2. Updates(stage, stage', r, Stages)
    BY <1>4, MovesUpdates, StagesHas DEF Bind
  <2>3. Updates(error, error', r, ErrorType) /\ Updates(origin, origin', r, Origins)
    <3>1. CASE UNCHANGED <<error, origin>>
      BY <3>1 DEF Updates
    <3>2. CASE Sets(r, New(ECodeInvalidParams), "error")
      BY <3>2, SetsUpdates, ErrorFacts DEF Hows
    <3>. QED
      BY <1>4, <3>1, <3>2 DEF Bind
  <2>. QED
    BY <1>1, <2>1, <2>2, <2>3 DEF StepUpdates, Updates
<1>. QED
  BY <1>2, <1>3, <1>4, <1>5

LEMMA ServeTyped ==
  ASSUME FrontTyped, NEW r \in Requests, Serve(r)
  PROVE  StepUpdates(r)
<1>. USE DEF setting, flags, pool, records
<1>1. free \subseteq Buffers /\ content \in [Buffers -> Seq(Int)]
  BY DEF FrontTyped, FrontTypeOK
<1>2. UNCHANGED <<setting, entry, level, incoming, replies, pool, records>>
  BY DEF Serve
<1>3. level[r] \in Levels /\ Own(level[r]) \in Nat
  BY LevelFacts DEF FrontTyped, FrontTypeOK
<1>4. Updates(stage, stage', r, Stages)
  BY MovesUpdates, StagesHas DEF Serve
<1>5. CASE /\ \E code \in {ECodeSystem, ECodeInvalidParams} :
                Sets(r, GoMicro(code, Own(level[r])), "refused")
           /\ UNCHANGED metadata
  <2>1. PICK code \in {ECodeSystem, ECodeInvalidParams} :
                Sets(r, GoMicro(code, Own(level[r])), "refused")
    BY <1>5
  <2>2. GoMicro(code, Own(level[r])) \in ErrorType
    BY <1>3, ErrorFacts
  <2>3. Updates(error, error', r, ErrorType) /\ Updates(origin, origin', r, Origins)
    BY <2>1, <2>2, SetsUpdates DEF Hows
  <2>. QED
    BY <1>1, <1>2, <1>4, <1>5, <2>3 DEF StepUpdates, Updates
<1>6. CASE metadata' = StartSpan(r) /\ UNCHANGED <<error, origin>>
  <2>1. metadata[r] \in [Levels -> BOOLEAN] /\ incoming[r] \in [Levels -> BOOLEAN]
    BY DEF FrontTyped, FrontTypeOK
  <2>2. incoming[r][level[r]] \in BOOLEAN
    BY <1>3, <2>1
  <2>3. Updates(metadata, metadata', r, [Levels -> BOOLEAN])
    <3>1. [metadata[r] EXCEPT ![level[r]] = incoming[r][level[r]]] \in [Levels -> BOOLEAN]
      BY <2>1, <2>2
    <3>2. metadata' = [metadata EXCEPT ![r] =
                         [metadata[r] EXCEPT ![level[r]] = incoming[r][level[r]]]]
      BY <1>6 DEF StartSpan
    <3>. QED
      BY <3>1, <3>2 DEF Updates
  <2>. QED
    BY <1>1, <1>2, <1>4, <1>6, <2>3 DEF StepUpdates, Updates
<1>. QED
  BY <1>5, <1>6 DEF Serve

LEMMA CallNextTyped ==
  ASSUME FrontTyped, NEW r \in Requests, CallNext(r)
  PROVE  StepUpdates(r)
<1>. USE DEF setting, flags, pool, records
<1>1. free \subseteq Buffers /\ content \in [Buffers -> Seq(Int)]
  BY DEF FrontTyped, FrontTypeOK
<1>2. /\ level[r] < Depth /\ Moves(r, "handle", "serve")
      /\ level' = [level EXCEPT ![r] = @ + 1]
      /\ UNCHANGED <<setting, entry, error, origin, replies, pool, records>>
  BY DEF CallNext
<1>3. level[r] \in Levels /\ level[r] + 1 \in Levels
  BY <1>2, LevelFacts DEF FrontTyped, FrontTypeOK
<1>4. metadata[r] \in [Levels -> BOOLEAN] /\ incoming[r] \in [Levels -> BOOLEAN]
  BY DEF FrontTyped, FrontTypeOK
<1>5. /\ metadata' = [metadata EXCEPT ![r] = [metadata[r] EXCEPT ![level[r]] = TRUE]]
      /\ incoming' = [incoming EXCEPT ![r] = [incoming[r] EXCEPT ![level[r] + 1] = TRUE]]
  BY DEF CallNext
<1>6. /\ [metadata[r] EXCEPT ![level[r]] = TRUE] \in [Levels -> BOOLEAN]
      /\ [incoming[r] EXCEPT ![level[r] + 1] = TRUE] \in [Levels -> BOOLEAN]
  BY <1>4
<1>7. Updates(metadata, metadata', r, [Levels -> BOOLEAN])
  BY <1>5, <1>6 DEF Updates
<1>8. Updates(incoming, incoming', r, [Levels -> BOOLEAN])
  BY <1>5, <1>6 DEF Updates
<1>9. Updates(level, level', r, Levels)
  BY <1>2, <1>3 DEF Updates
<1>10. Updates(stage, stage', r, Stages)
  BY <1>2, MovesUpdates, StagesHas
<1>. QED
  BY <1>1, <1>2, <1>7, <1>8, <1>9, <1>10 DEF StepUpdates, Updates

LEMMA HandlerTyped ==
  ASSUME FrontTyped, NEW r \in Requests,
         CallFails(r) \/ AfterCall(r) \/ HandlerReturns(r) \/ HandlerPanics(r)
  PROVE  StepUpdates(r)
<1>. USE DEF setting, flags, pool, records
<1>1. free \subseteq Buffers /\ content \in [Buffers -> Seq(Int)]
  BY DEF FrontTyped, FrontTypeOK
<1>2. UNCHANGED <<setting, entry, level, flags, replies, pool, records>>
  BY DEF CallFails, AfterCall, HandlerReturns, HandlerPanics
<1>3. level[r] \in Levels /\ Own(level[r]) \in Nat
  BY LevelFacts DEF FrontTyped, FrontTypeOK
<1>4. Leave(r) \in Stages
  BY StagesHas DEF Leave
<1>5. Updates(stage, stage', r, Stages)
  BY <1>4, MovesUpdates, StagesHas DEF CallFails, AfterCall, HandlerReturns, HandlerPanics
<1>6. \/ UNCHANGED <<error, origin>>
      \/ \E e \in ErrorType, how \in Hows : Sets(r, e, how)
  <2>1. CASE CallFails(r)
    BY <2>1, <1>3, ErrorFacts DEF CallFails, Hows
  <2>2. CASE AfterCall(r)
    BY <2>2, ErrorFacts DEF AfterCall, Hows
  <2>3. CASE HandlerReturns(r)
    BY <2>3, ErrorFacts DEF HandlerReturns, Hows
  <2>4. CASE HandlerPanics(r)
    BY <2>4, ErrorFacts DEF HandlerPanics, Hows
  <2>. QED
    BY <2>1, <2>2, <2>3, <2>4
<1>7. Updates(error, error', r, ErrorType) /\ Updates(origin, origin', r, Origins)
  <2>1. CASE UNCHANGED <<error, origin>>
    BY <2>1 DEF Updates
  <2>2. CASE \E e \in ErrorType, how \in Hows : Sets(r, e, how)
    BY <2>2, SetsUpdates
  <2>. QED
    BY <1>6, <2>1, <2>2
<1>. QED
  BY <1>1, <1>2, <1>5, <1>7 DEF StepUpdates, Updates

LEMMA ReturnTyped ==
  ASSUME FrontTyped, NEW r \in Requests, Wrap(r) \/ RecoverRpc(r) \/ Gateway(r)
  PROVE  StepUpdates(r)
<1>. USE DEF setting, flags, pool, records
<1>1. free \subseteq Buffers /\ content \in [Buffers -> Seq(Int)]
  BY DEF FrontTyped, FrontTypeOK
<1>2. level[r] \in Levels /\ Own(level[r]) \in Nat /\ error[r] \in ErrorType
  BY LevelFacts DEF FrontTyped, FrontTypeOK
<1>3. incoming[r][level[r]] \in BOOLEAN
  <2>1. incoming[r] \in [Levels -> BOOLEAN]
    BY DEF FrontTyped, FrontTypeOK
  <2>. QED
    BY <1>2, <2>1
<1>4. Updates(stage, stage', r, Stages)
  BY MovesUpdates, StagesHas DEF Wrap, RecoverRpc, Gateway
<1>5. CASE Wrap(r)
  <2>1. UNCHANGED <<setting, entry, level, flags, replies, pool, records>>
    BY <1>5 DEF Wrap
  <2>3. Updates(error, error', r, ErrorType) /\ Updates(origin, origin', r, Origins)
    <3>1. CASE level[r] \notin metrics
      <4>1. /\ error' = [error EXCEPT ![r] =
                           ServerWrap(error[r], Own(level[r]), incoming[r][level[r]])]
            /\ origin' = origin
        BY <1>5, <3>1 DEF Wrap
      <4>2. ServerWrap(error[r], Own(level[r]), incoming[r][level[r]]) \in ErrorType
        BY <1>2, <1>3, ServerWrapTyped
      <4>. QED
        BY <4>1, <4>2 DEF Updates
    <3>2. CASE level[r] \in metrics
      <4>1. Sets(r, GoMicro(ECodeSystem, Own(level[r])), "metrics") /\ "metrics" \in Hows
        BY <1>5, <3>2 DEF Wrap, Hows
      <4>. QED
        BY <1>2, <4>1, ErrorFacts, SetsUpdates
    <3>. QED
      BY <3>1, <3>2
  <2>. QED
    BY <1>1, <1>4, <2>1, <2>3 DEF StepUpdates, Updates
<1>6. CASE RecoverRpc(r)
  <2>1. /\ error' = [error EXCEPT ![r] = GoMicro(ECodeSystem, Own(level[r]))]
        /\ UNCHANGED <<setting, entry, level, flags, origin, replies, pool, records>>
    BY <1>6 DEF RecoverRpc
  <2>2. Updates(error, error', r, ErrorType)
    BY <1>2, <2>1, ErrorFacts DEF Updates
  <2>. QED
    BY <1>1, <1>4, <2>1, <2>2 DEF StepUpdates, Updates
<1>7. CASE Gateway(r)
  <2>1. /\ replies' = [replies EXCEPT ![r] = Append(@, GatewayResponse(error[r]))]
        /\ UNCHANGED <<setting, entry, level, flags, error, origin, pool, records>>
    BY <1>7 DEF Gateway
  <2>2. Append(replies[r], GatewayResponse(error[r])) \in Seq(Reply)
    BY <1>2, ResponsesTyped DEF FrontTyped
  <2>3. Updates(replies, replies', r, Seq(Reply))
    BY <2>1, <2>2 DEF Updates
  <2>. QED
    BY <1>1, <1>4, <2>1, <2>3 DEF StepUpdates, Updates
<1>. QED
  BY <1>5, <1>6, <1>7

LEMMA BackTyped ==
  ASSUME FrontTyped, NEW r \in Requests, Placed(r), Back(r) \/ BackPanics(r)
  PROVE  StepUpdates(r)
<1>. USE DEF setting, flags, pool, records
<1>1. free \subseteq Buffers /\ content \in [Buffers -> Seq(Int)]
  BY DEF FrontTyped, FrontTypeOK
<1>2. PICK to \in {"called", "panic"} : ToCaller(r, to)
  BY DEF Back, BackPanics
<1>t. /\ Moves(r, "return", to) /\ level' = [level EXCEPT ![r] = @ - 1]
      /\ UNCHANGED <<setting, entry, flags, replies, pool, records>>
  BY <1>2 DEF ToCaller
<1>3. level[r] \in Levels /\ level[r] >= 1
  BY <1>t DEF Moves, Placed, FrontTyped, FrontTypeOK
<1>4. level[r] - 1 \in Levels /\ Own(level[r] - 1) \in Nat
  BY <1>3, LevelFacts
<1>5. error[r] \in ErrorType /\ MetricsPanic \in ErrorType
  BY ErrorFacts DEF FrontTyped
<1>6. ClientUnwrap(Wire(error[r]), Own(level[r] - 1)) \in ErrorType
  BY <1>4, <1>5, WireTyped, ClientUnwrapTyped
<1>7. Updates(error, error', r, ErrorType)
  BY <1>5, <1>6 DEF Updates, Back, BackPanics
<1>o. Updates(origin, origin', r, Origins)
  <2>1. [how |-> "panic", level |-> level[r] - 1, error |-> MetricsPanic] \in Origins
    BY <1>4, <1>5 DEF Origins, Hows
  <2>. QED
    BY <2>1 DEF Updates, Back, BackPanics
<1>8. Updates(level, level', r, Levels)
  BY <1>t, <1>4 DEF Updates
<1>9. Updates(stage, stage', r, Stages)
  BY <1>t, MovesUpdates, StagesHas
<1>. QED
  BY <1>1, <1>t, <1>7, <1>o, <1>8, <1>9 DEF StepUpdates, Updates

LEMMA AnswerTyped ==
  ASSUME FrontTyped, NEW r \in Requests, Respond(r) \/ Recover(r) \/ RecoverLate(r)
  PROVE  StepUpdates(r) /\ \E a \in Reply : Writes(r, a)
<1>. USE DEF setting, flags, pool, records
<1>1. error[r] \in ErrorType /\ Own(0) \in Nat
  BY LevelFacts DEF FrontTyped
<1>2. \E a \in Reply : Writes(r, a)
  BY <1>1, ResponsesTyped, ErrorFacts DEF Respond, Recover, RecoverLate, AnswersPanic
<1>3. UNCHANGED <<setting, entry, level, flags, error, origin, records>>
  BY DEF Respond, Recover, RecoverLate
<1>4. Updates(stage, stage', r, Stages)
  BY MovesUpdates, StagesHas DEF Respond, Recover, RecoverLate
<1>5. /\ Updates(replies, replies', r, Seq(Reply))
      /\ content' \in [Buffers -> Seq(Int)] /\ buf' = buf /\ free' = free
  BY <1>2, WritesUpdates
<1>6. free' \subseteq Buffers
  BY <1>5 DEF FrontTyped, FrontTypeOK
<1>. QED
  BY <1>2, <1>3, <1>4, <1>5, <1>6 DEF StepUpdates, Updates

LEMMA CloseTyped ==
  ASSUME FrontTyped, NEW r \in Requests, Placed(r),
         Close(r) \/ AccessEnds(r) \/ Unwind(r) \/ Abort(r)
  PROVE  StepUpdates(r)
<1>1. CASE Close(r) \/ AccessEnds(r)
  <2>1. stage[r] \in {"closing", "aborted"}
    BY <1>1 DEF Close, AccessEnds, Deferred, Moves
  <2>2. buf[r] # 0
    BY <2>1 DEF Placed, FrontTyped, FrontTypeOK, Gin
  <2>. QED
    BY <1>1, <2>2, DeferredUpdates, StagesHas DEF Close, AccessEnds
<1>2. CASE Unwind(r)
  BY <1>2, DeferredUpdates, StagesHas DEF Unwind
<1>3. CASE Abort(r)
  <2>1. UNCHANGED <<setting, entry, level, flags, error, origin, replies, pool, records>>
    BY <1>3 DEF Abort
  <2>2. Updates(stage, stage', r, Stages)
    BY <1>3, MovesUpdates, StagesHas DEF Abort
  <2>3. free' \subseteq Buffers /\ content' \in [Buffers -> Seq(Int)]
    BY <2>1 DEF FrontTyped, FrontTypeOK, pool
  <2>. QED
    BY <2>1, <2>2, <2>3 DEF StepUpdates, Updates, flags, pool, records
<1>. QED
  BY <1>1, <1>2, <1>3

(* A step keeps the types, and changes one request.                        *)
LEMMA StepTyped ==
  ASSUME FrontTyped, NEW r \in Requests, Placed(r), Step(r)
  PROVE  FrontTyped' /\ Frame(r)
<1>1. StepUpdates(r)
  BY ArriveTyped, AccessTyped, ServeTyped, CallNextTyped, HandlerTyped, ReturnTyped, BackTyped,
     AnswerTyped, CloseTyped
  DEF Step, Handler
<1>. QED
  BY <1>1, Retyped

-----------------------------------------------------------------------------
(* Every request is answered once.                                         *)

LEMMA AppendsOne ==
  ASSUME NEW S, NEW s \in Seq(S), NEW a \in S, s = <<>>
  PROVE  Append(s, a) = <<a>> /\ Len(Append(s, a)) = 1 /\ Append(s, a)[1] = a
OBVIOUS

LEMMA OthersPlaced ==
  ASSUME NEW r \in Requests, Frame(r), NEW q \in Requests \ {r}, Placed(q), AnsweredOnce(q)
  PROVE  Placed(q)' /\ AnsweredOnce(q)'
<1>1. /\ entry'[q] = entry[q] /\ stage'[q] = stage[q] /\ level'[q] = level[q]
      /\ origin'[q] = origin[q] /\ replies'[q] = replies[q] /\ buf'[q] = buf[q]
      /\ recovery' = recovery /\ metrics' = metrics
  BY DEF Frame
<1>2. Placed(q)'
  BY <1>1 DEF Placed, Gin
<1>3. AnsweredOnce(q)'
  BY <1>1 DEF AnsweredOnce, Died, Done
<1>. QED
  BY <1>2, <1>3

(* The same for a request that takes a step: one action at a time.         *)
LEMMA PlacedOnArrival ==
  ASSUME FrontTyped, NEW r \in Requests, Placed(r), AnsweredOnce(r),
         \/ Arrive(r, "gin") \/ Arrive(r, "gateway")
         \/ AccessFails(r) \/ Access(r) \/ AccessPanics(r) \/ Bind(r) \/ Serve(r)
  PROVE  Placed(r)' /\ AnsweredOnce(r)'
<1>. USE DEF FrontTyped, FrontTypeOK, Placed, AnsweredOnce, Gin, Died, Done, Moves,
         setting, pool, records
<1>1. ASSUME NEW e \in {"gin", "gateway"}, Arrive(r, e)
      PROVE  Placed(r)' /\ AnsweredOnce(r)'
  <2>1. /\ stage[r] = "idle" /\ stage'[r] = IF e = "gin" THEN "access" ELSE "serve"
        /\ entry'[r] = e /\ level'[r] = IF e = "gin" THEN 0 ELSE 1
        /\ replies'[r] = replies[r] /\ buf'[r] = buf[r] /\ origin'[r] = origin[r]
    BY <1>1 DEF Arrive
  <2>. QED
    BY <2>1
<1>2. CASE AccessFails(r)
  <2>1. /\ stage[r] = "access" /\ stage'[r] = "panic"
        /\ entry'[r] = entry[r] /\ level'[r] = level[r]
        /\ replies'[r] = replies[r] /\ buf'[r] = buf[r]
    BY <1>2 DEF AccessFails
  <2>2. origin'[r].how = "access"
    BY <1>2 DEF AccessFails, Sets
  <2>. QED
    BY <2>1, <2>2
<1>3. CASE Access(r)
  <2>1. /\ stage[r] = "access" /\ stage'[r] = "bind" /\ origin'[r] = origin[r]
        /\ entry'[r] = entry[r] /\ level'[r] = level[r] /\ replies'[r] = replies[r]
    BY <1>3 DEF Access
  <2>2. buf'[r] # 0
    BY <1>3, BufferTaken DEF Access
  <2>. QED
    BY <2>1, <2>2
<1>6. CASE AccessPanics(r)
  <2>1. /\ stage[r] = "access" /\ stage'[r] = "aborted"
        /\ entry'[r] = entry[r] /\ level'[r] = level[r] /\ replies'[r] = replies[r]
    BY <1>6 DEF AccessPanics
  <2>2. buf'[r] # 0
    BY <1>6, BufferTaken DEF AccessPanics
  <2>3. origin'[r].how = "access"
    BY <1>6 DEF AccessPanics, Sets
  <2>. QED
    BY <2>1, <2>2, <2>3
<1>4. CASE Bind(r)
  <2>1. /\ stage[r] = "bind" /\ stage'[r] \in {"handle", "respond"}
        /\ entry'[r] = entry[r] /\ level'[r] = level[r]
        /\ replies'[r] = replies[r] /\ buf'[r] = buf[r]
        /\ origin'[r].how = origin[r].how \/ origin'[r].how = "error"
    BY <1>4 DEF Bind, Sets
  <2>. QED
    BY <2>1
<1>5. CASE Serve(r)
  <2>1. /\ stage[r] = "serve" /\ stage'[r] \in {"handle", "return"}
        /\ entry'[r] = entry[r] /\ level'[r] = level[r]
        /\ replies'[r] = replies[r] /\ buf'[r] = buf[r]
        /\ origin'[r].how = origin[r].how \/ origin'[r].how = "refused"
    BY <1>5 DEF Serve, Sets
  <2>. QED
    BY <2>1
<1>. QED
  BY <1>1, <1>2, <1>3, <1>4, <1>5, <1>6

LEMMA PlacedInHandler ==
  ASSUME FrontTyped, NEW r \in Requests, Placed(r), AnsweredOnce(r), Handler(r)
  PROVE  Placed(r)' /\ AnsweredOnce(r)'
<1>. USE DEF FrontTyped, FrontTypeOK, Placed, AnsweredOnce, Gin, Died, Done, Moves,
         setting, pool, records
<1>1. /\ entry'[r] = entry[r] /\ replies'[r] = replies[r] /\ buf'[r] = buf[r]
      /\ recovery' = recovery
  BY DEF Handler, CallNext, CallFails, AfterCall, HandlerReturns, HandlerPanics
<1>2. level[r] \in Nat
  BY LevelFacts
<1>3. CASE CallNext(r)
  <2>1. /\ stage[r] = "handle" /\ stage'[r] = "serve" /\ level'[r] = level[r] + 1
        /\ origin'[r] = origin[r]
    BY <1>3 DEF CallNext
  <2>. QED
    BY <1>1, <1>2, <2>1
<1>4. CASE CallFails(r) \/ AfterCall(r) \/ HandlerReturns(r)
  <2>1. /\ level'[r] = level[r] /\ stage[r] \in {"handle", "called"}
        /\ \/ stage'[r] \in {"handle", "called"}
           \/ stage'[r] = "respond" /\ level[r] = 0
           \/ stage'[r] = "wrap" /\ level[r] # 0
        /\ origin'[r].how = origin[r].how \/ origin'[r].how \in {"none", "error"}
    BY <1>4 DEF CallFails, AfterCall, HandlerReturns, Leave, Sets
  <2>2. level[r] # 0 => level[r] >= 1
    BY <1>2
  <2>3. Placed(r)'
    BY <1>1, <2>1, <2>2
  <2>4. AnsweredOnce(r)'
    BY <1>1, <2>1
  <2>. QED
    BY <2>3, <2>4
<1>5. CASE HandlerPanics(r)
  <2>1. stage[r] = "handle" /\ stage'[r] = "panic" /\ level'[r] = level[r]
    BY <1>5 DEF HandlerPanics
  <2>2. origin'[r].how = "panic" /\ origin'[r].level = level[r]
    BY <1>5 DEF HandlerPanics, Sets
  <2>. QED
    BY <1>1, <1>2, <2>1, <2>2
<1>. QED
  BY <1>3, <1>4, <1>5 DEF Handler

LEMMA PlacedOnReturn ==
  ASSUME FrontTyped, NEW r \in Requests, Placed(r), AnsweredOnce(r),
         Wrap(r) \/ RecoverRpc(r) \/ Back(r) \/ BackPanics(r) \/ Gateway(r)
  PROVE  Placed(r)' /\ AnsweredOnce(r)'
<1>. USE DEF FrontTyped, FrontTypeOK, Placed, AnsweredOnce, Gin, Died, Done, Moves,
         setting, pool, records
<1>1. /\ entry'[r] = entry[r] /\ buf'[r] = buf[r] /\ recovery' = recovery
  BY DEF Wrap, RecoverRpc, Back, BackPanics, ToCaller, Gateway
<1>2. level[r] \in Nat
  BY LevelFacts
<1>3. CASE Wrap(r) \/ RecoverRpc(r)
  <2>1. /\ stage[r] \in {"wrap", "panic"} /\ stage'[r] = "return" /\ level'[r] = level[r]
        /\ level[r] > 0 /\ replies'[r] = replies[r]
        /\ origin'[r].how = origin[r].how \/ origin'[r].how = "metrics"
    BY <1>2, <1>3 DEF Wrap, RecoverRpc, Sets
  <2>. QED
    BY <1>1, <1>2, <2>1
<1>4. CASE Back(r)
  <2>1. /\ stage[r] = "return" /\ stage'[r] = "called" /\ level'[r] = level[r] - 1
        /\ level[r] > 1 \/ entry[r] = "gin"
        /\ replies'[r] = replies[r] /\ origin'[r] = origin[r]
    BY <1>4 DEF Back, ToCaller
  <2>. QED
    BY <1>1, <1>2, <2>1
<1>6. CASE BackPanics(r)
  <2>1. /\ stage[r] = "return" /\ stage'[r] = "panic" /\ level'[r] = level[r] - 1
        /\ level[r] > 1 \/ entry[r] = "gin"
        /\ replies'[r] = replies[r]
        /\ origin'[r].how = "panic" /\ origin'[r].level = level[r] - 1
    BY <1>6 DEF BackPanics, ToCaller
  <2>. QED
    BY <1>1, <1>2, <2>1
<1>5. CASE Gateway(r)
  <2>1. /\ stage[r] = "return" /\ stage'[r] = "done" /\ level'[r] = level[r]
        /\ entry[r] = "gateway" /\ level[r] = 1 /\ origin'[r] = origin[r]
        /\ replies'[r] = Append(replies[r], GatewayResponse(error[r]))
    BY <1>5 DEF Gateway
  <2>2. Len(replies'[r]) = 1 /\ replies'[r] # <<>>
    BY <2>1, AppendsOne, ResponsesTyped, LevelFacts
  <2>. QED
    BY <1>1, <1>2, <2>1, <2>2
<1>. QED
  BY <1>3, <1>4, <1>5, <1>6

LEMMA PlacedAtEnd ==
  ASSUME FrontTyped, NEW r \in Requests, Placed(r), AnsweredOnce(r),
         \/ Respond(r) \/ Recover(r) \/ Close(r) \/ AccessEnds(r) \/ Unwind(r)
         \/ RecoverLate(r) \/ Abort(r)
  PROVE  Placed(r)' /\ AnsweredOnce(r)'
<1>. USE DEF FrontTyped, FrontTypeOK, Placed, AnsweredOnce, Gin, Died, Done, Moves,
         setting, pool, records
<1>1. /\ entry'[r] = entry[r] /\ buf'[r] = buf[r] /\ origin'[r] = origin[r]
      /\ recovery' = recovery /\ level'[r] = level[r]
  BY DEF Respond, Recover, Close, AccessEnds, Unwind, RecoverLate, Abort, Deferred, AnswersPanic,
         Writes
<1>2. CASE Respond(r) \/ Recover(r) \/ RecoverLate(r)
  <2>1. PICK a \in Reply : Writes(r, a)
    BY <1>2, AnswerTyped
  <2>2. /\ \/ stage[r] \in {"respond", "unwound"}
           \/ stage[r] = "panic" /\ level[r] = 0 /\ buf[r] # 0
        /\ stage'[r] \in {"closing", "done"}
        /\ stage[r] = "respond" => stage'[r] = "closing"
        /\ stage[r] = "panic" => stage'[r] = "closing"
        /\ stage[r] = "unwound" => stage'[r] = "done"
    BY <1>2 DEF Respond, Recover, RecoverLate
  <2>3. replies[r] = <<>> /\ replies'[r] = Append(replies[r], a)
    BY <2>1, <2>2, WritesTyped
  <2>4. Len(replies'[r]) = 1 /\ replies'[r] # <<>>
    BY <2>3, AppendsOne
  <2>. QED
    BY <1>1, <2>2, <2>4
<1>3. CASE Close(r)
  <2>1. stage[r] = "closing" /\ stage'[r] = "done" /\ replies'[r] = replies[r]
    BY <1>3 DEF Close, Deferred
  <2>. QED
    BY <1>1, <2>1
<1>4. CASE Unwind(r)
  <2>1. /\ stage[r] = "panic" /\ stage'[r] = "unwound" /\ replies'[r] = replies[r]
        /\ level[r] = 0 /\ recovery # "inside" /\ buf[r] # 0
    BY <1>4 DEF Unwind, Deferred
  <2>. QED
    BY <1>1, <2>1
<1>6. CASE AccessEnds(r)
  <2>1. stage[r] = "aborted" /\ stage'[r] = "done" /\ replies'[r] = replies[r]
    BY <1>6 DEF AccessEnds, Deferred
  <2>. QED
    BY <1>1, <2>1
<1>5. CASE Abort(r)
  <2>1. /\ stage'[r] = "done" /\ replies'[r] = replies[r]
        /\ \/ stage[r] = "unwound" /\ recovery = "none"
           \/ stage[r] = "panic" /\ level[r] = 0 /\ buf[r] = 0
    BY <1>5 DEF Abort
  <2>. QED
    BY <1>1, <2>1
<1>. QED
  BY <1>2, <1>3, <1>4, <1>5, <1>6

-----------------------------------------------------------------------------
(* The buffers.                                                            *)

LEMMA OwnersKept ==
  ASSUME FrontIInv, NEW r \in Requests, Frame(r), FrontTyped', OwnBuffers,
         buf' = buf, free' = free, Owns(r)' => Owns(r)
  PROVE  OwnBuffers'
<1>1. \A q \in Requests : Owns(q)' => Owns(q)
  BY DEF Frame, Owns, Gin
<1>. QED
  BY <1>1 DEF OwnBuffers

LEMMA BuffersAccess ==
  ASSUME FrontIInv, NEW r \in Requests, Frame(r), FrontTyped', TakeBuffer(r)
  PROVE  OwnBuffers'
<1>1. PICK b \in free : buf' = [buf EXCEPT ![r] = b] /\ free' = free \ {b}
  BY DEF TakeBuffer
<1>2. b \in Buffers
  BY DEF FrontIInv, FrontTyped, FrontTypeOK
<1>3. buf'[r] = b /\ b \in Buffers \ free'
  BY <1>1, <1>2 DEF FrontIInv, FrontTyped, FrontTypeOK
<1>4. \A q \in Requests \ {r} : Owns(q)' => Owns(q) /\ buf'[q] = buf[q]
  BY DEF Frame, Owns, Gin
<1>5. \A q \in Requests \ {r} : Owns(q)' => buf'[q] \in Buffers \ free' /\ buf'[q] # b
  BY <1>1, <1>4 DEF FrontIInv, OwnBuffers
<1>6. \A p, q \in Requests \ {r} : p # q /\ Owns(p)' /\ Owns(q)' => buf'[p] # buf'[q]
  BY <1>4 DEF FrontIInv, OwnBuffers
<1>. QED
  BY <1>3, <1>5, <1>6 DEF OwnBuffers

LEMMA BuffersBack ==
  ASSUME FrontIInv, NEW r \in Requests, Frame(r), FrontTyped',
         Close(r) \/ AccessEnds(r) \/ Unwind(r)
  PROVE  OwnBuffers' /\ Owns(r) /\ ~ Owns(r)'
<1>1. /\ buf' = buf /\ free' = free \cup {buf[r]} /\ entry'[r] = entry[r]
      /\ stage'[r] \in {"done", "unwound"} /\ stage[r] \in {"closing", "aborted", "panic"}
      /\ stage[r] = "panic" => level[r] = 0 /\ buf[r] # 0
  BY DEF Close, AccessEnds, Unwind, Deferred, Moves, FrontIInv, FrontTyped, FrontTypeOK
<1>2. Owns(r)
  BY <1>1 DEF Owns, Gin, Placed, FrontIInv, FrontTyped, FrontTypeOK
<1>3. ~ Owns(r)'
  BY <1>1 DEF Owns
<1>4. \A q \in Requests \ {r} : Owns(q)' => Owns(q)
  BY DEF Frame, Owns, Gin
<1>5. \A q \in Requests : Owns(q)' => q # r /\ Owns(q) /\ buf[q] # buf[r]
  BY <1>2, <1>3, <1>4 DEF FrontIInv, OwnBuffers
<1>6. \A q \in Requests : Owns(q)' => buf'[q] \in Buffers \ free'
  BY <1>1, <1>5 DEF FrontIInv, OwnBuffers
<1>7. \A p, q \in Requests : p # q /\ Owns(p)' /\ Owns(q)' => buf'[p] # buf'[q]
  BY <1>1, <1>5 DEF FrontIInv, OwnBuffers
<1>. QED
  BY <1>2, <1>3, <1>6, <1>7 DEF OwnBuffers

LEMMA BuffersOwnedStep ==
  ASSUME FrontIInv, NEW r \in Requests, Step(r), Frame(r), FrontTyped'
  PROVE  OwnBuffers'
<1>. USE DEF setting, flags, pool, records, Moves
<1>1. CASE Arrive(r, "gin") \/ Arrive(r, "gateway")
  <2>1. buf' = buf /\ free' = free /\ buf[r] = 0
    BY <1>1 DEF Arrive, FrontIInv, Placed
  <2>. QED
    BY <2>1, OwnersKept DEF Owns, FrontIInv
<1>2. CASE Access(r) \/ AccessPanics(r)
  BY <1>2, BuffersAccess DEF Access, AccessPanics
<1>3. CASE Close(r) \/ AccessEnds(r) \/ Unwind(r)
  BY <1>3, BuffersBack
<1>4. CASE \/ AccessFails(r) \/ Bind(r) \/ Serve(r) \/ Handler(r) \/ Wrap(r) \/ RecoverRpc(r)
           \/ Back(r) \/ BackPanics(r) \/ Gateway(r)
  <2>1. /\ buf' = buf /\ free' = free /\ entry' = entry
        /\ stage[r] \notin {"done", "unwound"}
    BY <1>4 DEF AccessFails, Bind, Serve, Handler, CallNext, CallFails, AfterCall,
                HandlerReturns, HandlerPanics, Wrap, RecoverRpc, Back, BackPanics, ToCaller,
                Gateway
  <2>2. Owns(r)' => Owns(r)
    BY <2>1 DEF Owns, Gin
  <2>. QED
    BY <2>1, <2>2, OwnersKept DEF FrontIInv
<1>5. CASE Respond(r) \/ Recover(r) \/ RecoverLate(r) \/ Abort(r)
  <2>1. buf' = buf /\ free' = free /\ entry' = entry
    BY <1>5 DEF Respond, Recover, RecoverLate, Abort, AnswersPanic, Writes
  <2>2. stage[r] \in {"done", "unwound"} => stage'[r] = "done"
    BY <1>5 DEF Respond, Recover, RecoverLate, Abort, FrontIInv, FrontTyped, FrontTypeOK
  <2>3. Owns(r)' => Owns(r)
    BY <2>1, <2>2 DEF Owns, Gin
  <2>. QED
    BY <2>1, <2>3, OwnersKept DEF FrontIInv
<1>. QED
  BY <1>1, <1>2, <1>3, <1>4, <1>5 DEF Step

LEMMA FrontStep ==
  ASSUME FrontIInv, [FrontNext]_frontVars
  PROVE  FrontIInv'
<1>1. CASE UNCHANGED frontVars
  BY <1>1 DEF FrontIInv, FrontTyped, FrontTypeOK, Placed, AnsweredOnce, OwnBuffers, Owns, Gin,
              Died, Done, frontVars, setting, flags, pool, records
<1>2. ASSUME NEW r \in Requests, Step(r)
      PROVE  FrontIInv'
  <2>1. FrontTyped /\ Placed(r) /\ AnsweredOnce(r)
    BY DEF FrontIInv
  <2>2. FrontTyped' /\ Frame(r)
    BY <1>2, <2>1, StepTyped
  <2>3. Placed(r)' /\ AnsweredOnce(r)'
    BY <1>2, <2>1, PlacedOnArrival, PlacedInHandler, PlacedOnReturn, PlacedAtEnd DEF Step
  <2>4. \A q \in Requests \ {r} : Placed(q)' /\ AnsweredOnce(q)'
    BY <2>2, OthersPlaced DEF FrontIInv
  <2>5. OwnBuffers'
    BY <1>2, <2>2, BuffersOwnedStep
  <2>. QED
    BY <2>2, <2>3, <2>4, <2>5 DEF FrontIInv
<1>. QED
  BY <1>1, <1>2 DEF FrontNext

LEMMA FrontStart ==
  ASSUME FrontInit
  PROVE  FrontIInv
<1>. USE DEF FrontInit
<1>1. NoOrigin \in Origins /\ NoError \in ErrorType
  <2>1. NoError \in ErrorType /\ 0 \in Levels
    BY LevelFacts, ErrorFacts
  <2>. QED
    BY <2>1 DEF NoOrigin, Origins, Hows
<1>2. /\ error \in [Requests -> ErrorType] /\ origin \in [Requests -> Origins]
      /\ level \in [Requests -> Levels]
  BY <1>1, LevelFacts
<1>3. /\ incoming \in [Requests -> [Levels -> BOOLEAN]]
      /\ metadata \in [Requests -> [Levels -> BOOLEAN]]
  OBVIOUS
<1>4. /\ replies \in [Requests -> Seq(Reply)] /\ content \in [Buffers -> Seq(Int)]
      /\ counted \in [Requests -> Seq(Int)] /\ logged \in [Requests -> Seq(Int)]
  OBVIOUS
<1>5. /\ entry \in [Requests -> {"none", "gin", "gateway"}] /\ stage \in [Requests -> Stages]
      /\ buf \in [Requests -> Buffers \cup {0}] /\ free \subseteq Buffers
  BY StagesHas
<1>m. metrics \subseteq Levels
  BY FrontAssumption
<1>6. FrontTyped
  BY <1>2, <1>3, <1>4, <1>5, <1>m DEF FrontTyped, FrontTypeOK
<1>7. \A r \in Requests : Placed(r) /\ AnsweredOnce(r)
  BY DEF Placed, AnsweredOnce, Gin, Done, NoOrigin
<1>8. OwnBuffers
  BY DEF OwnBuffers, Owns, Gin
<1>. QED
  BY <1>6, <1>7, <1>8 DEF FrontIInv

LEMMA FrontSafe == FrontSpec => []FrontIInv
<1>. QED
  BY FrontStart, FrontStep, PTL DEF FrontSpec

(* Every request is answered once on all paths, except after a panic that  *)
(* nothing answers, and while it is served the buffer that Access took for *)
(* it is its own (gin.go: Access, bytesBuffPool, Recovery).                *)
THEOREM AnsweredFromOwnBuffer == FrontSpec => []FrontInv
<1>1. FrontIInv => FrontInv
  <2>. SUFFICES ASSUME FrontIInv PROVE OneAnswer /\ BuffersOwned
    BY DEF FrontInv, FrontIInv, FrontTyped
  <2>1. OneAnswer
    <3>. SUFFICES ASSUME NEW r \in Requests
                  PROVE  /\ Len(replies[r]) <= 1
                         /\ Done(r) /\ replies[r] = <<>> =>
                              origin[r].how = "access" \/ (Died(r) /\ recovery = "none")
      BY DEF OneAnswer
    <3>1. AnsweredOnce(r)
      BY DEF FrontIInv
    <3>2. replies[r] = <<>> => Len(replies[r]) = 0
      OBVIOUS
    <3>3. Len(replies[r]) = 0 \/ Len(replies[r]) = 1
      BY <3>1, <3>2 DEF AnsweredOnce
    <3>4. \A n : n = 0 \/ n = 1 => n <= 1
      OBVIOUS
    <3>6. Len(replies[r]) <= 1
      BY <3>3, <3>4
    <3>5. Done(r) /\ replies[r] = <<>> =>
            origin[r].how = "access" \/ (Died(r) /\ recovery = "none")
      BY <3>1 DEF AnsweredOnce
    <3>. QED
      BY <3>5, <3>6
  <2>2. ASSUME NEW r \in Requests, Gin(r),
               stage[r] \in {"aborted", "bind", "handle", "called", "respond", "closing"}
        PROVE  /\ buf[r] \in Buffers \ free
               /\ \A q \in Requests \ {r} :
                    Gin(q) /\ buf[q] = buf[r] => stage[q] \in {"unwound", "done"}
    <3>1. buf[r] # 0 /\ Owns(r)
      BY <2>2 DEF FrontIInv, Placed, Owns
    <3>. QED
      BY <3>1 DEF FrontIInv, OwnBuffers, Owns
  <2>. QED
    BY <2>1, <2>2 DEF BuffersOwned
<1>. QED
  BY <1>1, FrontSafe, PTL

-----------------------------------------------------------------------------
(* What is recorded.                                                       *)

LEMMA CountsKept ==
  ASSUME NEW r \in Requests, Frame(r), CountInv(r), entry'[r] = entry[r],
         replies'[r] = replies[r], buf'[r] = buf[r], counted'[r] = counted[r],
         logged'[r] = logged[r],
         Owns(r)' => Owns(r) /\ content'[buf[r]] = content[buf[r]],
         Done(r)' => Done(r) \/ replies[r] = <<>>
  PROVE  CountInv(r)'
BY DEF CountInv, Recorded, Gin, Done, Frame

LEMMA OthersCount ==
  ASSUME FrontIInv, NEW r \in Requests, Step(r), Frame(r),
         NEW q \in Requests \ {r}, CountInv(q)
  PROVE  CountInv(q)'
<1>1. /\ entry'[q] = entry[q] /\ stage'[q] = stage[q] /\ replies'[q] = replies[q]
      /\ buf'[q] = buf[q] /\ counted'[q] = counted[q] /\ logged'[q] = logged[q]
      /\ recovery' = recovery /\ onlyLogErr' = onlyLogErr /\ metrics' = metrics
  BY DEF Frame
<1>2. ASSUME Owns(q), recovery # "outside"
      PROVE  content'[buf[q]] = content[buf[q]]
  <2>. USE DEF setting, flags, pool, records
  <2>1. buf[q] \in Buffers \ free
    BY <1>2 DEF FrontIInv, OwnBuffers
  <2>2. CASE content' = content
    BY <2>2
  <2>3. CASE TakeBuffer(r)
    <3>1. PICK b \in free : content' = [content EXCEPT ![b] = <<>>]
      BY <2>3 DEF TakeBuffer
    <3>. QED
      BY <2>1, <3>1 DEF FrontIInv, FrontTyped
  <2>4. CASE Respond(r) \/ Recover(r)
    <3>1. PICK a \in Reply : Writes(r, a)
      BY <2>4, AnswerTyped DEF FrontIInv
    <3>2. Owns(r)
      <4>1. \/ stage[r] = "respond"
            \/ stage[r] = "panic" /\ level[r] = 0 /\ buf[r] # 0
        BY <2>4 DEF Respond, Recover, Moves
      <4>2. Placed(r) /\ FrontTyped
        BY DEF FrontIInv
      <4>. QED
        BY <4>1, <4>2 DEF Placed, FrontTyped, FrontTypeOK, Gin, Owns
    <3>3. buf[q] # buf[r]
      BY <1>2, <3>2 DEF FrontIInv, OwnBuffers
    <3>. QED
      BY <2>1, <3>1, <3>3 DEF Writes, FrontIInv, FrontTyped
  <2>5. ~ RecoverLate(r)
    BY <1>2 DEF RecoverLate
  <2>6. \/ TakeBuffer(r) \/ Respond(r) \/ Recover(r) \/ content' = content
    BY <2>5 DEF Step, Arrive, AccessFails, Access, AccessPanics, Bind, Serve, Handler, CallNext,
                CallFails, AfterCall, HandlerReturns, HandlerPanics, Wrap, RecoverRpc, Back,
                BackPanics, ToCaller, Gateway, Close, AccessEnds, Unwind, Deferred, Abort
  <2>. QED
    BY <2>2, <2>3, <2>4, <2>6
<1>. QED
  BY <1>1, <1>2 DEF CountInv, Recorded, Owns, Gin, Done

LEMMA OwnCount ==
  ASSUME FrontIInv, NEW r \in Requests, Step(r), Frame(r), FrontTyped', CountInv(r),
         onlyLogErr, recovery # "outside"
  PROVE  CountInv(r)'
<1>. USE DEF setting, flags, pool, records, Moves
<1>t. FrontTyped /\ Placed(r) /\ AnsweredOnce(r)
  BY DEF FrontIInv
<1>1. CASE Arrive(r, "gin") \/ Arrive(r, "gateway")
  <2>1. buf' = buf /\ buf[r] = 0 /\ stage'[r] # "done"
    BY <1>1, <1>t DEF Arrive, Placed, FrontTyped, FrontTypeOK
  <2>. QED
    BY <2>1 DEF CountInv, Owns, Done
<1>2. CASE Access(r) \/ AccessPanics(r)
  <2>1. PICK b \in free : buf' = [buf EXCEPT ![r] = b] /\ content' = [content EXCEPT ![b] = <<>>]
    BY <1>2 DEF Access, AccessPanics, TakeBuffer
  <2>2. b \in Buffers
    BY <1>t DEF FrontTyped, FrontTypeOK
  <2>3. content'[buf'[r]] = <<>>
    BY <1>t, <2>1, <2>2 DEF FrontTyped, FrontTypeOK
  <2>4. /\ stage'[r] \in {"bind", "aborted"} /\ stage[r] = "access"
        /\ replies'[r] = replies[r]
    BY <1>2, <1>t DEF Access, AccessPanics, FrontTyped, FrontTypeOK
  <2>5. replies'[r] = <<>>
    BY <1>t, <2>4 DEF AnsweredOnce
  <2>. QED
    BY <2>3, <2>4, <2>5 DEF CountInv, Done, Recorded
<1>3. CASE Respond(r) \/ Recover(r)
  <2>1. PICK a \in Reply : Writes(r, a)
    BY <1>3, <1>t, AnswerTyped
  <2>2. /\ \/ stage[r] = "respond"
           \/ stage[r] = "panic" /\ level[r] = 0 /\ buf[r] # 0
        /\ stage'[r] = "closing"
    BY <1>3, <1>t DEF Respond, Recover, FrontTyped, FrontTypeOK
  <2>3. Owns(r)
    BY <1>t, <2>2 DEF Placed, FrontTyped, FrontTypeOK, Gin, Owns
  <2>4. replies[r] = <<>> /\ buf[r] \in Buffers
    BY <1>t, <2>2, <2>3 DEF AnsweredOnce, FrontIInv, OwnBuffers
  <2>5. content[buf[r]] = <<>>
    BY <2>3, <2>4 DEF CountInv, Recorded
  <2>6. /\ replies'[r] = Append(replies[r], a) /\ buf' = buf
        /\ content'[buf[r]] = Append(content[buf[r]], a.code)
    BY <1>t, <2>1, <2>4 DEF Writes, FrontTyped
  <2>7. a.code \in Int
    BY DEF Reply
  <2>8. replies'[r] = <<a>> /\ content'[buf[r]] = <<a.code>>
    BY <1>t, <2>4, <2>5, <2>6, <2>7, AppendsOne DEF FrontTyped
  <2>9. Recorded(r)' = <<a.code>>
    BY <2>8 DEF Recorded
  <2>. QED
    BY <2>2, <2>6, <2>8, <2>9 DEF CountInv, Done
<1>4. CASE Close(r)
  <2>1. /\ Owns(r) /\ ~ Owns(r)'
    BY <1>4, BuffersBack
  <2>2. /\ stage[r] = "closing" /\ replies' = replies /\ metrics' = metrics
        /\ Records(r, ErrCode(content[buf[r]]))
    BY <1>4, <1>t DEF Close, Deferred, FrontTyped
  <2>3. replies[r] # <<>>
    BY <1>t, <2>2 DEF AnsweredOnce
  <2>4. content[buf[r]] = <<replies[r][1].code>>
    BY <2>1, <2>3 DEF CountInv, Recorded
  <2>5. ErrCode(content[buf[r]]) = Recordable(replies[r][1])
    <3>. DEFINE c == replies[r][1].code
    <3>1. Len(<<c>>) = 1 /\ <<c>>[1] = c
      OBVIOUS
    <3>. QED
      BY <2>4, <3>1 DEF ErrCode, Recordable
  <2>6. Status(r) = replies[r][1].status
    BY <1>t, <2>3 DEF AnsweredOnce, Status
  <2>7. /\ counted'[r] = IF 0 \in metrics THEN Recordable(replies[r][1]) ELSE <<>>
        /\ logged'[r] = IF replies[r][1].status = 200 THEN Recordable(replies[r][1]) ELSE <<>>
    BY <1>t, <2>2, <2>5, <2>6 DEF Records, FrontTyped
  <2>. QED
    BY <2>1, <2>2, <2>7 DEF CountInv
<1>10. CASE AccessEnds(r)
  <2>1. ~ Owns(r)'
    BY <1>10, BuffersBack
  <2>2. stage[r] = "aborted" /\ replies' = replies
    BY <1>10 DEF AccessEnds, Deferred
  <2>3. replies'[r] = <<>>
    BY <1>t, <2>2 DEF AnsweredOnce
  <2>. QED
    BY <2>1, <2>3 DEF CountInv
<1>5. CASE Unwind(r)
  <2>1. ~ Owns(r)'
    BY <1>5, BuffersBack
  <2>2. stage'[r] = "unwound"
    BY <1>5, <1>t DEF Unwind, Deferred, FrontTyped, FrontTypeOK
  <2>. QED
    BY <2>1, <2>2 DEF CountInv, Done
<1>6. CASE Abort(r)
  <2>1. /\ stage'[r] = "done" /\ replies' = replies
        /\ stage[r] \in {"unwound", "panic"}
    BY <1>6, <1>t DEF Abort, FrontTyped, FrontTypeOK
  <2>2. replies[r] = <<>>
    BY <1>t, <2>1 DEF AnsweredOnce
  <2>. QED
    BY <2>1, <2>2 DEF CountInv, Owns
<1>7. CASE \/ AccessFails(r) \/ Bind(r) \/ Serve(r) \/ Handler(r) \/ Wrap(r) \/ RecoverRpc(r)
           \/ Back(r) \/ BackPanics(r)
  <2>1. /\ buf' = buf /\ content' = content /\ entry' = entry /\ replies' = replies
        /\ counted' = counted /\ logged' = logged /\ stage[r] \notin {"done", "unwound"}
    BY <1>7 DEF AccessFails, Bind, Serve, Handler, CallNext, CallFails, AfterCall,
                HandlerReturns, HandlerPanics, Wrap, RecoverRpc, Back, BackPanics, ToCaller
  <2>2. stage'[r] # "done"
    BY <1>7, <1>t DEF AccessFails, Bind, Serve, Handler, CallNext, CallFails, AfterCall, Leave,
                HandlerReturns, HandlerPanics, Wrap, RecoverRpc, Back, BackPanics, ToCaller,
                FrontTyped, FrontTypeOK
  <2>3. Owns(r)' => Owns(r)
    BY <2>1 DEF Owns, Gin
  <2>. QED
    BY <2>1, <2>2, <2>3, CountsKept DEF Done
<1>8. CASE Gateway(r)
  <2>1. entry'[r] = "gateway"
    BY <1>8 DEF Gateway
  <2>. QED
    BY <2>1 DEF CountInv, Owns, Gin
<1>9. ~ RecoverLate(r)
  BY DEF RecoverLate
<1>. QED
  BY <1>1, <1>2, <1>3, <1>4, <1>5, <1>6, <1>7, <1>8, <1>9, <1>10 DEF Step

AllCount == \A r \in Requests : CountInv(r)

LEMMA CountStep ==
  ASSUME FrontIInv, AllCount, [FrontNext]_frontVars
  PROVE  AllCount'
<1>1. CASE UNCHANGED frontVars
  BY <1>1 DEF AllCount, CountInv, Recorded, Owns, Gin, Done, frontVars, setting, flags, pool, records
<1>2. ASSUME NEW r \in Requests, Step(r)
      PROVE  AllCount'
  <2>1. FrontTyped' /\ Frame(r)
    BY <1>2, StepTyped DEF FrontIInv
  <2>2. \A q \in Requests \ {r} : CountInv(q)'
    BY <1>2, <2>1, OthersCount DEF AllCount
  <2>3. CountInv(r)'
    <3>1. CASE onlyLogErr /\ recovery # "outside"
      BY <1>2, <2>1, <3>1, OwnCount DEF AllCount
    <3>2. CASE ~ (onlyLogErr /\ recovery # "outside")
      BY <2>1, <3>2 DEF CountInv, Frame
    <3>. QED
      BY <3>1, <3>2
  <2>. QED
    BY <2>2, <2>3 DEF AllCount
<1>. QED
  BY <1>1, <1>2 DEF FrontNext

(* The code that Access records for a request in gin, in its metrics and   *)
(* its log, is the one that the request was answered with, and none if that*)
(* is no int32, however the requests share the pool of buffers (gin.go:    *)
(* Access).                                                                *)
THEOREM RecordsItsAnswer == FrontSpec => []CountsAnswers
<1>1. FrontInit => AllCount
  BY DEF FrontInit, AllCount, CountInv, Owns, Gin, Done
<1>2. AllCount => CountsAnswers
  BY DEF AllCount, CountInv, CountsAnswers
<1>. QED
  BY <1>1, <1>2, CountStep, FrontSafe, PTL DEF FrontSpec

-----------------------------------------------------------------------------
(* What is answered.                                                       *)

(* The service that an error names, or else the one it was raised in.      *)
Namer(o) == IF o.error.service # 0 THEN o.error.service ELSE Own(o.level)

(* What an origin can be.                                                  *)
Erred(o) == o.how \in {"error", "refused", "metrics"}
OriginSound(o) ==
  /\ o.how = "none" => o.error = NoError
  /\ Erred(o) =>
       /\ o.error.kind # "nil"
       /\ o.error.kind \in {"plain", "typed nil"} => o.error.code = 0 /\ o.error.service = 0
       /\ o.error.kind = "gm" => o.error.code \in Int32s
  /\ o.how = "panic" => o.error \in Panicked
  /\ o.how = "metrics" => o.level \in metrics

(* An error as it was raised, as a caller gets it, and as a server sends   *)
(* it: marked if it is negative and the caller takes the mark off.         *)
Raw(e, o, l) == e = o.error /\ o.level = l
Carried(e, o) ==
  e.kind = "broccoli" /\ e.code = Expected(o) /\ e.code # 0 /\ e.marks = 0 /\ e.service = Namer(o)
Sent(e, o, marks) ==
  IF Expected(o) = 0 THEN e = NoError
  ELSE /\ e.kind = "gm" /\ e.service = Namer(o)
       /\ IF marks /\ Expected(o) < 0 THEN e.code = -Expected(o) /\ e.marks = 1
                                      ELSE e.code = Expected(o) /\ e.marks = 0

Answers(a, o, gin) ==
  /\ a.code = Expected(o) /\ a.marks = 0 /\ a.status = StatusCode(Expected(o))
  /\ gin /\ a.code # ECodeSuccessed => a.service = Namer(o)

(* The services that are called by one of the library say so.              *)
FlagsSound(r) ==
  /\ stage[r] = "idle" => \A l \in Levels : ~incoming[r][l]
  /\ entry[r] = "gateway" => ~incoming[r][1]
  /\ \A l \in 1 .. level[r] : l > 1 \/ Gin(r) => incoming[r][l]

(* No service with metrics on was passed by what was not lost there.       *)
Lowest(r) == IF stage[r] = "return" \/ (stage[r] = "done" /\ ~ Gin(r)) THEN level[r]
                                                                     ELSE level[r] + 1
Unmetered(r) ==
  origin[r].how \in {"none", "error", "refused"} =>
    \A l \in metrics : l >= Lowest(r) => l \notin Passed(origin[r])

Truthful(r) ==
  Claimed(origin[r]) /\ origin[r].how # "access" =>
    /\ stage[r] \in {"wrap", "respond"} =>
         \/ Raw(error[r], origin[r], level[r]) /\ origin[r].how # "panic"
         \/ Carried(error[r], origin[r])
    /\ stage[r] = "called" =>
         \/ error[r].kind = "nil"
         \/ Raw(error[r], origin[r], level[r]) /\ Erred(origin[r])
         \/ Carried(error[r], origin[r])
    /\ stage[r] = "return" => Sent(error[r], origin[r], incoming[r][level[r]])
    /\ stage[r] \in {"panic", "unwound"} =>
         Raw(error[r], origin[r], level[r]) /\ origin[r].how = "panic"
    /\ \A i \in DOMAIN replies[r] : Answers(replies[r][i], origin[r], Gin(r))

TruthOf(r) == OriginSound(origin[r]) /\ FlagsSound(r) /\ Truthful(r) /\ Unmetered(r)

LEMMA CodesFit ==
  /\ ECodeSystem \in 1 .. Half - 1 /\ ECodeSystemAPI \in 1 .. Half - 1
  /\ ECodeInternal \in 1 .. Half - 1 /\ ECodeInvalidParams \in 1 .. Half - 1
  /\ 0 \in -Half + 1 .. Half - 1
  /\ \A n \in 1 .. Half - 1 : n \in -Half + 1 .. Half - 1
  /\ \A n \in -Half + 1 .. Half - 1 :
       -n \in -Half + 1 .. Half - 1 /\ n \in -Half .. Half - 1 /\ n \in Int
BY HalfAssumption
DEF ECodeSystem, ECodeSystemAPI, ECodeInternal, ECodeInvalidParams, ECodeParseTime

(* What is expected, by the kind of the error.                             *)
LEMMA ExpectedIs ==
  ASSUME NEW o \in Origins, OriginSound(o), Claimed(o), o.how # "access"
  PROVE  \/ o.how = "none" /\ o.error = NoError /\ Expected(o) = 0
         \/ o.how = "panic" /\ o.level > 0 /\ o.error.service = 0 /\ Expected(o) = ECodeSystem
         \/ /\ o.how = "panic" /\ o.level = 0 /\ o.error.kind = "nil" /\ o.error.service = 0
            /\ Expected(o) = ECodeInternal
         \/ /\ Erred(o) /\ o.error.kind = "typed nil" /\ o.error.service = 0
            /\ Expected(o) = IF o.level = 0 THEN ECodeSystem ELSE 0
         \/ /\ Erred(o) \/ o.level = 0
            /\ o.how # "none" /\ o.error.kind = "plain" /\ o.error.service = 0
            /\ Expected(o) = IF o.level = 0 THEN ECodeSystemAPI ELSE ECodeSystem
         \/ /\ Erred(o) \/ o.level = 0
            /\ o.how # "none" /\ o.error.kind = "broccoli" /\ o.error.marks = 0
            /\ o.error.code \in -Half + 1 .. Half - 1 /\ o.error.code # 0
            /\ Expected(o) = o.error.code
         \/ /\ Erred(o) /\ o.error.kind = "gm" /\ o.error.marks = 0
            /\ o.error.code \in 1 .. Half - 1 /\ o.error.service # 0 /\ o.level > 0
            /\ Expected(o) = o.error.code
<1>1. /\ o.how \in {"none", "panic"} \/ Erred(o)
      /\ o.level \in Nat /\ o.error \in ErrorType
      /\ o.error.kind \in {"broccoli", "gm", "plain", "typed nil", "nil"}
      /\ o.error.code \in Int
  BY LevelFacts DEF Origins, Hows, Erred, ErrorType, Kinds
<1>l. \A n \in Nat : (n = 0 \/ n > 0) /\ ~ (n = 0 /\ n > 0)
  OBVIOUS
<1>2. o.level = 0 \/ o.level > 0
  BY <1>1, <1>l
<1>3. ~ (o.level = 0 /\ o.level > 0)
  BY <1>1, <1>l
<1>4. CASE o.how = "none"
  <2>1. o.error = NoError
    BY <1>4 DEF OriginSound
  <2>3. o.error.kind = "nil"
    BY <2>1 DEF NoError, Error
  <2>2. Expected(o) = ECodeSuccessed
    BY <1>4, <2>3 DEF Expected
  <2>. QED
    BY <1>4, <2>1, <2>2 DEF ECodeSuccessed
<1>5. CASE o.how = "panic"
  <2>0. o.error \in Panicked
    BY <1>5 DEF OriginSound
  <2>1. o.error.service = 0 /\ o.error.kind \in {"plain", "broccoli", "nil"}
    BY <2>0 DEF Panicked, New, NoError, Error
  <2>2. CASE o.level > 0
    BY <1>3, <1>5, <2>1, <2>2 DEF Expected
  <2>3. CASE o.level = 0
    BY <1>1, <1>3, <1>5, <2>1, <2>3 DEF Expected, Claimed, Faithful
  <2>. QED
    BY <1>2, <2>2, <2>3
<1>6. CASE Erred(o)
  <2>1. CASE o.error.kind = "typed nil"
    BY <1>6, <2>1 DEF OriginSound, Expected, ECodeSuccessed, Erred
  <2>2. CASE o.error.kind = "plain"
    BY <1>6, <2>2 DEF OriginSound, Expected, Erred
  <2>3. CASE o.error.kind = "broccoli"
    BY <1>6, <2>3 DEF Claimed, Faithful, Expected, Erred
  <2>4. CASE o.error.kind = "gm"
    <3>1. o.error.code \in -Half .. Half - 1 /\ o.error.code > 0
      BY <1>6, <2>4 DEF Claimed, OriginSound, Int32s
    <3>2. o.error.code \in 1 .. Half - 1
      BY <3>1, HalfAssumption
    <3>. QED
      BY <1>6, <2>4, <3>2 DEF Claimed, Expected, Erred
  <2>. QED
    BY <1>1, <1>6, <2>1, <2>2, <2>3, <2>4 DEF OriginSound
<1>. QED
  BY <1>1, <1>4, <1>5, <1>6

LEMMA ExpectedFits ==
  ASSUME NEW o \in Origins, OriginSound(o), Claimed(o), o.how # "access"
  PROVE  Expected(o) \in -Half + 1 .. Half - 1
BY ExpectedIs, CodesFit

LEMMA NamerTyped ==
  ASSUME NEW o \in Origins
  PROVE  Namer(o) \in Nat /\ Namer(o) # 0
<1>1. o.error.service \in Nat /\ Own(o.level) \in Nat /\ Own(o.level) # 0
  BY LevelFacts DEF Origins, ErrorType
<1>. QED
  BY <1>1 DEF Namer

(* The server's wrapper sends what the handler returned; an error that the *)
(* wrapper itself makes is as it should be sent.                           *)
LEMMA PositiveSent ==
  ASSUME NEW o \in Origins, NEW e, NEW f \in BOOLEAN,
         e.kind = "gm", e.service = Namer(o), e.marks = 0,
         e.code = Expected(o), Expected(o) \in 1 .. Half - 1
  PROVE  Sent(e, o, f)
<1>1. Expected(o) # 0 /\ ~ (Expected(o) < 0)
  OBVIOUS
<1>. QED
  BY <1>1 DEF Sent

LEMMA MarkedSent ==
  ASSUME NEW o \in Origins, NEW f \in BOOLEAN, NEW own \in Nat,
         NEW e \in ErrorType, e.kind = "broccoli", e.marks = 0,
         e.code = Expected(o), Expected(o) \in -Half + 1 .. Half - 1, Expected(o) # 0,
         Namer(o) = IF e.service = 0 THEN own ELSE e.service
  PROVE  Sent(ServerWrap(e, own, f), o, f)
<1>. DEFINE g == Error("gm", Int32(e.code), e.marks,
                       IF e.service = 0 THEN own ELSE e.service, TRUE)
<1>1. ServerWrap(e, own, f) = Marked(g, f)
  BY DEF ServerWrap
<1>2. Int32(e.code) = Expected(o) /\ Int32(-Expected(o)) = -Expected(o)
  BY CodesFit, Int32Fits
<1>3. g = [kind |-> "gm", code |-> Expected(o), marks |-> 0, service |-> Namer(o), cause |-> TRUE]
  BY <1>2 DEF Error
<1>. HIDE DEF g
<1>4. CASE f /\ Expected(o) < 0
  <2>1. Marked(g, f) = [kind |-> "gm", code |-> -Expected(o), marks |-> 0 + 1,
                        service |-> Namer(o), cause |-> TRUE]
    BY <1>2, <1>3, <1>4 DEF Marked
  <2>2. 0 + 1 = 1
    OBVIOUS
  <2>3. /\ ServerWrap(e, own, f).kind = "gm" /\ ServerWrap(e, own, f).service = Namer(o)
        /\ ServerWrap(e, own, f).code = -Expected(o) /\ ServerWrap(e, own, f).marks = 1
    BY <1>1, <2>1, <2>2
  <2>. QED
    BY <1>4, <2>3 DEF Sent
<1>5. CASE ~ (f /\ Expected(o) < 0)
  <2>1. Marked(g, f) = g
    BY <1>3, <1>5 DEF Marked
  <2>. QED
    BY <1>1, <1>3, <1>5, <2>1 DEF Sent
<1>. QED
  BY <1>4, <1>5

(* An error that the wrapper makes itself.                                 *)
LEMMA OwnErrorSent ==
  ASSUME NEW o \in Origins, NEW e, NEW code \in 1 .. Half - 1, NEW f \in BOOLEAN,
         Erred(o), o.error = e, e = GoMicro(code, Own(o.level))
  PROVE  Sent(e, o, f)
<1>1. /\ e.kind = "gm" /\ e.code = code /\ e.marks = 0
      /\ e.service = Own(o.level) /\ Own(o.level) # 0
  BY LevelFacts DEF GoMicro, Error, Origins
<1>2. Namer(o) = Own(o.level)
  BY <1>1 DEF Namer
<1>3. Expected(o) = code
  BY <1>1 DEF Expected, Erred
<1>. QED
  BY <1>1, <1>2, <1>3, PositiveSent

LEMMA WrapSends ==
  ASSUME NEW o \in Origins, OriginSound(o), Claimed(o), o.how # "access",
         NEW e \in ErrorType, NEW f \in BOOLEAN,
         NEW l \in Levels, l > 0,
         (Raw(e, o, l) /\ o.how # "panic") \/ Carried(e, o)
  PROVE  Sent(ServerWrap(e, Own(l), f), o, f)
<1>1. Own(l) \in Nat /\ Own(l) # 0 /\ l # 0
  BY LevelFacts
<1>2. Namer(o) \in Nat /\ Namer(o) # 0 /\ Expected(o) \in -Half + 1 .. Half - 1
  BY NamerTyped, ExpectedFits
<1>3. CASE Carried(e, o)
  BY <1>1, <1>2, <1>3, MarkedSent DEF Carried
<1>4. CASE Raw(e, o, l) /\ o.how # "panic"
  <2>1. e = o.error /\ o.level = l
    BY <1>4 DEF Raw
  <2>2. Namer(o) = IF e.service = 0 THEN Own(l) ELSE e.service
    BY <2>1 DEF Namer
  <2>3. CASE o.how = "none"
    <3>0. e = NoError
      BY <2>1, <2>3 DEF OriginSound
    <3>1. e.kind = "nil" /\ Expected(o) = 0
      BY <2>3, <3>0, ExpectedIs DEF NoError, Error, Erred
    <3>2. ServerWrap(e, Own(l), f) = NoError
      BY <3>1 DEF ServerWrap
    <3>. QED
      BY <3>1, <3>2 DEF Sent
  <2>4. CASE e.kind = "typed nil"
    <3>1. Expected(o) = 0
      BY <1>1, <1>4, <2>1, <2>4, ExpectedIs DEF NoError, Error, Erred
    <3>2. ServerWrap(e, Own(l), f) = NoError
      BY <2>4 DEF ServerWrap
    <3>. QED
      BY <3>1, <3>2 DEF Sent
  <2>5. CASE Erred(o) /\ e.kind = "plain"
    <3>1. Expected(o) = ECodeSystem /\ e.service = 0 /\ e.marks = 0
      BY <1>1, <1>4, <2>1, <2>5, ExpectedIs DEF Claimed, Erred
    <3>2. ServerWrap(e, Own(l), f) = Error("gm", ECodeSystem, e.marks, Own(l), TRUE)
      BY <2>5 DEF ServerWrap
    <3>3. ServerWrap(e, Own(l), f) =
            [kind |-> "gm", code |-> ECodeSystem, marks |-> 0, service |-> Own(l), cause |-> TRUE]
      BY <3>1, <3>2 DEF Error
    <3>. QED
      BY <2>2, <3>1, <3>3, CodesFit, PositiveSent
  <2>6. CASE Erred(o) /\ e.kind = "broccoli"
    <3>1. Expected(o) = e.code /\ Expected(o) # 0 /\ e.marks = 0
      BY <1>4, <2>1, <2>6, ExpectedIs DEF Erred
    <3>. QED
      BY <1>1, <1>2, <2>2, <2>6, <3>1, MarkedSent
  <2>7. CASE Erred(o) /\ e.kind = "gm"
    <3>1. Expected(o) = e.code /\ e.code \in 1 .. Half - 1 /\ e.marks = 0 /\ e.service # 0
      BY <1>4, <2>1, <2>7, ExpectedIs DEF Erred
    <3>2. ServerWrap(e, Own(l), f) = e
      BY <2>7 DEF ServerWrap
    <3>. QED
      BY <2>2, <2>7, <3>1, <3>2, PositiveSent
  <2>8. \/ o.how = "none" \/ e.kind = "typed nil"
        \/ Erred(o) /\ e.kind \in {"plain", "broccoli", "gm"}
    BY <1>4, <2>1 DEF OriginSound, Origins, Hows, Erred, ErrorType, Kinds
  <2>. QED
    BY <2>3, <2>4, <2>5, <2>6, <2>7, <2>8
<1>. QED
  BY <1>3, <1>4

(* The client takes the mark off.                                          *)
LEMMA UnwrapCarries ==
  ASSUME NEW o \in Origins, OriginSound(o), Claimed(o), o.how # "access",
         NEW e \in ErrorType, NEW own \in Nat,
         Sent(e, o, TRUE), e.kind # "nil"
  PROVE  Carried(ClientUnwrap(Wire(e), own), o)
<1>. DEFINE X == Expected(o)
<1>1. X # 0
  BY DEF Sent, NoError, Error
<1>2. X \in -Half + 1 .. Half - 1 /\ X \in Int /\ Namer(o) # 0
  BY NamerTyped, ExpectedFits, CodesFit
<1>3. /\ e.service = Namer(o)
      /\ IF X < 0 THEN e.code = -X /\ e.marks = 1 ELSE e.code = X /\ e.marks = 0
  BY <1>1 DEF Sent
<1>. HIDE DEF X
<1>4. ~ (e.code < 0)
  <2>1. \A n \in Int : (n < 0 => ~ (-n < 0))
    OBVIOUS
  <2>. QED
    BY <1>2, <1>3, <2>1
<1>5. Wire(e) = e
  BY <1>4 DEF Wire
<1>6. CASE X < 0
  <2>1. e.marks > 0 /\ e.marks - 1 = 0 /\ Int32(-e.code) = X
    <3>1. -e.code = X
      BY <1>2, <1>3, <1>6
    <3>2. Int32(X) = X
      BY <1>2, CodesFit, Int32Fits
    <3>3. e.marks = 1
      BY <1>3, <1>6
    <3>4. 1 > 0 /\ 1 - 1 = 0
      OBVIOUS
    <3>. QED
      BY <3>1, <3>2, <3>3, <3>4
  <2>2. ClientUnwrap(e, own) = [kind |-> "broccoli", code |-> X, marks |-> 0,
                                service |-> Namer(o), cause |-> e.cause]
    BY <1>2, <1>3, <2>1 DEF ClientUnwrap, Error
  <2>. QED
    BY <1>1, <1>5, <2>2 DEF Carried, X
<1>7. CASE ~ (X < 0)
  <2>1. ~ (e.marks > 0)
    BY <1>3, <1>7
  <2>2. ClientUnwrap(e, own) = [kind |-> "broccoli", code |-> X, marks |-> 0,
                                service |-> Namer(o), cause |-> e.cause]
    BY <1>2, <1>3, <1>7, <2>1 DEF ClientUnwrap, Error
  <2>. QED
    BY <1>1, <1>5, <2>2 DEF Carried, X
<1>. QED
  BY <1>6, <1>7

(* What the client of the first service reads.                             *)
LEMMA GatewayAnswers ==
  ASSUME NEW o \in Origins, NEW e \in ErrorType, Sent(e, o, FALSE)
  PROVE  Answers(GatewayResponse(e), o, FALSE)
<1>1. CASE Expected(o) = 0
  <2>1. e.kind = "nil" /\ e.marks = 0
    BY <1>1 DEF Sent, NoError, Error
  <2>2. GatewayResponse(e) = Write(0, 0, 0)
    BY <2>1 DEF GatewayResponse, ECodeSuccessed
  <2>. QED
    BY <1>1, <2>2 DEF Write, Answers
<1>2. CASE Expected(o) # 0
  <2>1. e.kind = "gm" /\ e.code = Expected(o) /\ e.marks = 0
    BY <1>2 DEF Sent
  <2>2. GatewayResponse(e) = Write(Expected(o), 0, 0)
    BY <1>2, <2>1 DEF GatewayResponse
  <2>. QED
    BY <2>2 DEF Write, Answers
<1>. QED
  BY <1>1, <1>2

(* A library error that does not name a service is answered with gin's.    *)
LEMMA ErrorAnswered ==
  ASSUME NEW o \in Origins, NEW e, NEW gin,
         assertError(e).code = Expected(o), assertError(e).marks = 0,
         Namer(o) = IF assertError(e).service = 0 THEN Own(0) ELSE assertError(e).service
  PROVE  Answers(ErrorResponse(e, Own(0)), o, gin)
<1>1. ErrorResponse(e, Own(0)) = Write(Expected(o), 0, Namer(o))
  BY DEF ErrorResponse
<1>. QED
  BY <1>1 DEF Write, Answers

LEMMA ResponseAnswers ==
  ASSUME NEW o \in Origins, OriginSound(o), Claimed(o), o.how # "access",
         NEW e \in ErrorType, NEW gin \in BOOLEAN,
         (Raw(e, o, 0) /\ o.how # "panic") \/ Carried(e, o)
  PROVE  Answers(IF e.kind = "nil" THEN Success(Own(0)) ELSE ErrorResponse(e, Own(0)), o, gin)
<1>1. Namer(o) \in Nat /\ Namer(o) # 0
  BY NamerTyped
<1>2. CASE Carried(e, o)
  <2>1. assertError(e) = e /\ e.kind # "nil"
    BY <1>2 DEF assertError, Carried
  <2>. QED
    BY <1>1, <1>2, <2>1, ErrorAnswered DEF Carried
<1>3. CASE Raw(e, o, 0) /\ o.how # "panic"
  <2>0. \A n \in Nat : n > 0 => n # 0
    OBVIOUS
  <2>1. e = o.error /\ o.level = 0 /\ ~ (o.level > 0)
    BY <1>3 DEF Raw
  <2>2. Namer(o) = IF e.service = 0 THEN Own(0) ELSE e.service
    BY <2>1 DEF Namer
  <2>3. CASE o.how = "none"
    <3>0. e = NoError
      BY <2>1, <2>3 DEF OriginSound
    <3>1. e.kind = "nil" /\ Expected(o) = 0
      BY <2>3, <3>0, ExpectedIs DEF NoError, Error, Erred
    <3>. QED
      BY <3>1 DEF Success, Write, Answers, ECodeSuccessed
  <2>4. CASE Erred(o) /\ e.kind = "typed nil"
    <3>1. Expected(o) = ECodeSystem /\ e.service = 0
      BY <2>1, <2>4, ExpectedIs DEF Erred
    <3>2. assertError(e) = [kind |-> "broccoli", code |-> ECodeSystem, marks |-> 0,
                            service |-> 0, cause |-> FALSE]
      BY <2>4 DEF assertError, New, Error
    <3>3. /\ assertError(e).code = Expected(o) /\ assertError(e).marks = 0
          /\ Namer(o) = IF assertError(e).service = 0 THEN Own(0) ELSE assertError(e).service
      BY <2>2, <3>1, <3>2
    <3>4. e.kind # "nil"
      BY <2>4
    <3>. QED
      BY <3>3, <3>4, ErrorAnswered
  <2>5. CASE Erred(o) /\ e.kind = "plain"
    <3>1. Expected(o) = ECodeSystemAPI /\ e.service = 0 /\ e.marks = 0
      BY <2>1, <2>5, ExpectedIs DEF Claimed, Erred
    <3>2. assertError(e) = [kind |-> "broccoli", code |-> ECodeSystemAPI, marks |-> 0,
                            service |-> 0, cause |-> FALSE]
      BY <2>5, <3>1 DEF assertError, Error
    <3>. QED
      BY <2>2, <2>5, <3>1, <3>2, ErrorAnswered
  <2>6. CASE Erred(o) /\ e.kind = "broccoli"
    <3>1. Expected(o) = e.code /\ e.marks = 0
      BY <2>1, <2>6, ExpectedIs DEF Erred
    <3>2. assertError(e) = e
      BY <2>6 DEF assertError
    <3>. QED
      BY <2>2, <2>6, <3>1, <3>2, ErrorAnswered
  <2>7. ~ (Erred(o) /\ e.kind = "gm")
    BY <2>1 DEF Claimed
  <2>8. \/ o.how = "none"
        \/ Erred(o) /\ e.kind \in {"typed nil", "plain", "broccoli", "gm"}
    BY <1>3, <2>1 DEF OriginSound, Origins, Hows, Erred, ErrorType, Kinds
  <2>. QED
    BY <2>3, <2>4, <2>5, <2>6, <2>7, <2>8
<1>. QED
  BY <1>2, <1>3

LEMMA RecoveryAnswers ==
  ASSUME NEW o \in Origins, OriginSound(o), Claimed(o), o.how # "access",
         NEW e \in ErrorType, NEW gin \in BOOLEAN,
         Raw(e, o, 0), o.how = "panic"
  PROVE  Answers(ErrorResponse(IF e.kind = "nil" THEN New(ECodeInternal) ELSE e, Own(0)), o, gin)
<1>1. e = o.error /\ o.level = 0 /\ ~ (o.level > 0)
  BY DEF Raw
<1>2. Namer(o) = IF e.service = 0 THEN Own(0) ELSE e.service
  BY <1>1 DEF Namer
<1>3. CASE e.kind = "nil"
  <2>1. Expected(o) = ECodeInternal /\ e.service = 0
    BY <1>1, <1>3, ExpectedIs DEF Erred
  <2>2. assertError(New(ECodeInternal)) =
          [kind |-> "broccoli", code |-> ECodeInternal, marks |-> 0, service |-> 0,
           cause |-> FALSE]
    BY DEF assertError, New, Error
  <2>. QED
    BY <1>2, <1>3, <2>1, <2>2, ErrorAnswered
<1>4. CASE e.kind = "plain"
  <2>1. Expected(o) = ECodeSystemAPI /\ e.service = 0 /\ e.marks = 0
    BY <1>1, <1>4, ExpectedIs DEF Claimed, Erred
  <2>2. assertError(e) = [kind |-> "broccoli", code |-> ECodeSystemAPI, marks |-> 0,
                          service |-> 0, cause |-> FALSE]
    BY <1>4, <2>1 DEF assertError, Error
  <2>. QED
    BY <1>2, <1>4, <2>1, <2>2, ErrorAnswered
<1>5. CASE e.kind = "broccoli"
  <2>1. Expected(o) = e.code /\ e.marks = 0
    BY <1>1, <1>5, ExpectedIs DEF Erred
  <2>2. assertError(e) = e
    BY <1>5 DEF assertError
  <2>. QED
    BY <1>2, <1>5, <2>1, <2>2, ErrorAnswered
<1>6. e.kind \in {"nil", "plain", "broccoli"}
  <2>1. e \in Panicked
    BY <1>1 DEF OriginSound
  <2>. QED
    BY <2>1 DEF Panicked, New, NoError, Error
<1>. QED
  BY <1>3, <1>4, <1>5, <1>6

LEMMA OthersTruth ==
  ASSUME NEW r \in Requests, Frame(r), NEW q \in Requests \ {r}, TruthOf(q)
  PROVE  TruthOf(q)'
<1>1. /\ entry'[q] = entry[q] /\ stage'[q] = stage[q] /\ level'[q] = level[q]
      /\ incoming'[q] = incoming[q] /\ error'[q] = error[q] /\ origin'[q] = origin[q]
      /\ replies'[q] = replies[q]
  BY DEF Frame
<1>2. OriginSound(origin[q])'
  BY <1>1 DEF TruthOf, OriginSound, Frame
<1>3. FlagsSound(q)'
  BY <1>1 DEF TruthOf, FlagsSound, Gin
<1>4. Truthful(q)'
  BY <1>1 DEF TruthOf, Truthful, Gin
<1>5. Unmetered(q)'
  BY <1>1 DEF TruthOf, Unmetered, Lowest, Gin, Frame
<1>. QED
  BY <1>2, <1>3, <1>4, <1>5 DEF TruthOf

LEMMA RaisedSound ==
  ASSUME NEW o, o.how = "metrics" => o.level \in metrics
  PROVE  /\ o.how = "none" /\ o.error = NoError => OriginSound(o)
         /\ \A s : Erred(o) /\ o.error = GoMicro(ECodeSystem, s) => OriginSound(o)
         /\ \A s : Erred(o) /\ o.error = GoMicro(ECodeInvalidParams, s) => OriginSound(o)
         /\ Erred(o) /\ o.error.kind = "broccoli" => OriginSound(o)
         /\ Erred(o) /\ o.error \in Raised => OriginSound(o)
         /\ o.how = "panic" /\ o.error \in Panicked => OriginSound(o)
         /\ o.how = "access" => OriginSound(o)
<1>. USE DEF Erred
<1>1. ECodeSystem \in Int32s /\ ECodeInvalidParams \in Int32s
  BY CodesFit DEF Int32s
<1>2. \A e \in Raised : Raisable(e)
  BY FrontAssumption
<1>3. \/ o.how = "none" /\ o.error = NoError
      \/ o.how = "access"
      \/ o.how = "panic" /\ o.error \in Panicked
      => OriginSound(o)
  BY DEF OriginSound
<1>4. \A s, c : c \in Int32s /\ Erred(o) /\ o.error = GoMicro(c, s) => OriginSound(o)
  BY DEF OriginSound, GoMicro, Error
<1>5. Erred(o) /\ o.error.kind = "broccoli" => OriginSound(o)
  BY DEF OriginSound
<1>6. Erred(o) /\ o.error \in Raised => OriginSound(o)
  BY <1>2 DEF OriginSound, Raisable
<1>. QED
  BY <1>1, <1>3, <1>4, <1>5, <1>6

LEMMA SetsOrigin ==
  ASSUME FrontTyped, NEW r \in Requests, NEW e, NEW how, Sets(r, e, how)
  PROVE  /\ origin'[r].how = how /\ origin'[r].error = e /\ origin'[r].level = level[r]
         /\ error'[r] = e
BY DEF Sets, FrontTyped

LEMMA OriginStep ==
  ASSUME FrontTyped, NEW r \in Requests, Step(r), OriginSound(origin[r])
  PROVE  OriginSound(origin[r])'
<1>m. metrics' = metrics
  BY DEF Step, Handler, Arrive, AccessFails, Access, AccessPanics, AccessEnds, Bind, Serve, CallNext,
         CallFails, AfterCall, HandlerReturns, HandlerPanics, Wrap, RecoverRpc, Back, BackPanics,
         ToCaller, Gateway, Respond, Recover, Close, Unwind, RecoverLate, Deferred, Abort, setting
<1>s. SUFFICES OriginSound(origin'[r])
  BY <1>m DEF OriginSound
<1>2. CASE origin' = origin
  BY <1>2
<1>3. CASE HandlerPanics(r)
  <2>1. PICK e \in Panicked : Sets(r, e, "panic")
    BY <1>3 DEF HandlerPanics
  <2>. QED
    BY <2>1, SetsOrigin, RaisedSound
<1>10. CASE AccessFails(r) \/ AccessPanics(r)
  <2>1. Sets(r, NoError, "access")
    BY <1>10 DEF AccessFails, AccessPanics
  <2>. QED
    BY <2>1, SetsOrigin, RaisedSound
<1>4. CASE Bind(r)
  <2>1. origin' = origin \/ Sets(r, New(ECodeInvalidParams), "error")
    BY <1>4 DEF Bind
  <2>2. New(ECodeInvalidParams).kind = "broccoli"
    BY DEF New, Error
  <2>. QED
    BY <1>2, <2>1, <2>2, SetsOrigin, RaisedSound DEF Erred
<1>5. CASE Serve(r)
  <2>1. \/ origin' = origin
        \/ Sets(r, GoMicro(ECodeSystem, Own(level[r])), "refused")
        \/ Sets(r, GoMicro(ECodeInvalidParams, Own(level[r])), "refused")
    BY <1>5 DEF Serve
  <2>. QED
    BY <1>2, <2>1, SetsOrigin, RaisedSound DEF Erred
<1>6. CASE CallFails(r)
  <2>1. \/ Sets(r, GoMicro(ECodeSystem, Own(level[r])), "error")
        \/ Sets(r, ClientUnwrap(GoMicro(TransportTimeout, 0), Own(level[r])), "error")
    BY <1>6 DEF CallFails
  <2>2. ClientUnwrap(GoMicro(TransportTimeout, 0), Own(level[r])).kind = "broccoli"
    BY DEF ClientUnwrap, Error
  <2>. QED
    BY <2>1, <2>2, SetsOrigin, RaisedSound DEF Erred
<1>7. CASE AfterCall(r)
  <2>1. origin' = origin \/ Sets(r, NoError, "none")
    BY <1>7 DEF AfterCall
  <2>. QED
    BY <1>2, <2>1, SetsOrigin, RaisedSound
<1>8. CASE HandlerReturns(r)
  <2>1. PICK e \in Raised \cup {NoError} : Sets(r, e, IF e = NoError THEN "none" ELSE "error")
    BY <1>8 DEF HandlerReturns
  <2>2. /\ origin'[r].how = IF e = NoError THEN "none" ELSE "error"
        /\ origin'[r].error = e
    BY <2>1, SetsOrigin
  <2>. QED
    BY <2>2, RaisedSound DEF Erred
<1>11. CASE Wrap(r)
  <2>1. \/ origin' = origin
        \/ /\ Sets(r, GoMicro(ECodeSystem, Own(level[r])), "metrics")
           /\ level[r] \in metrics
    BY <1>11 DEF Wrap
  <2>. QED
    BY <1>2, <2>1, SetsOrigin, RaisedSound DEF Erred
<1>12. CASE BackPanics(r)
  <2>1. origin'[r] = [how |-> "panic", level |-> level[r] - 1, error |-> MetricsPanic]
    BY <1>12 DEF BackPanics, FrontTyped
  <2>. QED
    BY <2>1, ErrorFacts, RaisedSound
<1>9. \/ AccessFails(r) \/ AccessPanics(r) \/ HandlerPanics(r) \/ Bind(r) \/ Serve(r)
      \/ CallFails(r) \/ AfterCall(r) \/ HandlerReturns(r) \/ Wrap(r) \/ BackPanics(r)
      \/ origin' = origin
  BY DEF Step, Handler, Arrive, Access, AccessEnds, CallNext, RecoverRpc, Back, Gateway, Respond,
         Recover, Close, Unwind, RecoverLate, Deferred, Abort
<1>. QED
  BY <1>2, <1>3, <1>4, <1>5, <1>6, <1>7, <1>8, <1>9, <1>10, <1>11, <1>12

LEMMA FlagsStep ==
  ASSUME FrontTyped, NEW r \in Requests, Placed(r), Step(r), FlagsSound(r)
  PROVE  FlagsSound(r)'
<1>. USE DEF setting, flags, pool, records, Moves
<1>1. level[r] \in Nat /\ level[r] \in Levels
  BY LevelFacts DEF FrontTyped, FrontTypeOK
<1>2. stage'[r] # "idle"
  BY DEF Step, Handler, Arrive, AccessFails, Access, AccessPanics, AccessEnds, Bind, Serve, CallNext,
         CallFails, AfterCall, Leave, HandlerReturns, HandlerPanics, Wrap, RecoverRpc, Back,
         BackPanics, ToCaller, Gateway, Respond, Recover, Close, Unwind, RecoverLate, Deferred,
         Abort, FrontTyped, FrontTypeOK
<1>3. CASE Arrive(r, "gin") \/ Arrive(r, "gateway")
  <2>1. \/ level'[r] = 0
        \/ level'[r] = 1 /\ entry'[r] = "gateway"
    BY <1>3 DEF Arrive, FrontTyped, FrontTypeOK
  <2>2. incoming' = incoming /\ stage[r] = "idle"
    BY <1>3 DEF Arrive
  <2>3. ~ incoming'[r][1]
    BY <2>2, LevelFacts DEF FlagsSound
  <2>4. ASSUME NEW l \in 1 .. level'[r]
        PROVE  l = 1 /\ ~ (l > 1) /\ level'[r] # 0
    <3>1. level'[r] = 0 \/ level'[r] = 1
      BY <2>1
    <3>. QED
      BY <3>1
  <2>5. \A l \in 1 .. level'[r] : ~ (l > 1) /\ ~ Gin(r)'
    BY <2>1, <2>4 DEF Gin
  <2>. QED
    BY <1>2, <2>3, <2>5 DEF FlagsSound
<1>4. CASE CallNext(r)
  <2>1. /\ level'[r] = level[r] + 1 /\ entry'[r] = entry[r] /\ stage[r] = "handle"
        /\ incoming'[r] = [incoming[r] EXCEPT ![level[r] + 1] = TRUE]
        /\ level[r] + 1 \in Levels
    BY <1>1, <1>4, LevelFacts DEF CallNext, FrontTyped, FrontTypeOK
  <2>2. incoming[r] \in [Levels -> BOOLEAN]
    BY DEF FrontTyped, FrontTypeOK
  <2>3. /\ incoming'[r][level[r] + 1]
        /\ \A l \in Levels : l # level[r] + 1 => incoming'[r][l] = incoming[r][l]
    <3>. DEFINE f == incoming[r]  n == level[r] + 1
    <3>1. f \in [Levels -> BOOLEAN] /\ n \in Levels /\ incoming'[r] = [f EXCEPT ![n] = TRUE]
      BY <2>1, <2>2
    <3>. HIDE DEF f, n
    <3>2. incoming'[r][n] /\ \A l \in Levels : l # n => incoming'[r][l] = f[l]
      BY <3>1, Zenon
    <3>. QED
      BY <3>2 DEF f, n
  <2>a. 1 \in Levels /\ \A l \in 1 .. level[r] : l \in Levels
    <3>1. Depth \in Nat
      BY FrontAssumption
    <3>2. level[r] \in 0 .. Depth
      BY <1>1 DEF Levels
    <3>3. \A l \in 1 .. level[r] : l \in 0 .. Depth
      BY <3>1, <3>2
    <3>. QED
      BY <3>3, LevelFacts DEF Levels
  <2>4. entry'[r] = "gateway" => level[r] >= 1
    BY <2>1 DEF Placed
  <2>5. level[r] >= 1 => 1 # level[r] + 1
    BY <1>1
  <2>6. entry'[r] = "gateway" => ~ incoming'[r][1]
    BY <2>1, <2>3, <2>4, <2>5, <2>a DEF FlagsSound
  <2>7. \A l \in 1 .. level[r] + 1 : l = level[r] + 1 \/ (l \in 1 .. level[r] /\ l # level[r] + 1)
    BY <1>1
  <2>8. \A l \in 1 .. level[r] + 1 : (l > 1 \/ Gin(r)) => incoming'[r][l]
    BY <2>3, <2>7, <2>a DEF FlagsSound
  <2>9. Gin(r)' = Gin(r)
    BY <2>1 DEF Gin
  <2>. QED
    BY <1>2, <2>1, <2>6, <2>8, <2>9 DEF FlagsSound
<1>5. CASE Back(r) \/ BackPanics(r)
  <2>1. level'[r] = level[r] - 1 /\ entry'[r] = entry[r] /\ incoming'[r] = incoming[r]
    BY <1>5 DEF Back, BackPanics, ToCaller, FrontTyped, FrontTypeOK
  <2>2. \A l \in 1 .. level[r] - 1 : l \in 1 .. level[r]
    BY <1>1
  <2>. QED
    BY <1>2, <2>1, <2>2 DEF FlagsSound, Gin
<1>6. CASE ~ (\/ Arrive(r, "gin") \/ Arrive(r, "gateway") \/ CallNext(r) \/ Back(r)
              \/ BackPanics(r))
  <2>1. incoming' = incoming /\ level' = level /\ entry' = entry
    BY <1>6 DEF Step, Handler, AccessFails, Access, AccessPanics, AccessEnds, Bind, Serve,
         CallFails, AfterCall, HandlerReturns, HandlerPanics, Wrap, RecoverRpc, Gateway, Respond, Recover,
         Close, Unwind, RecoverLate, Deferred, Abort
  <2>. QED
    BY <1>2, <2>1 DEF FlagsSound, Gin
<1>. QED
  BY <1>3, <1>4, <1>5, <1>6

(* Truthful, one action at a time.                                         *)
LEMMA TruthInHandler ==
  ASSUME FrontTyped, NEW r \in Requests, Placed(r), AnsweredOnce(r), TruthOf(r),
         AnsweredOnce(r)', origin'[r] \in Origins,
         \/ Arrive(r, "gin") \/ Arrive(r, "gateway") \/ AccessFails(r) \/ Access(r)
         \/ AccessPanics(r) \/ Bind(r) \/ Serve(r) \/ Handler(r)
  PROVE  Truthful(r)'
<1>. USE DEF Moves
<1>l. level[r] \in Levels /\ level[r] \in Nat
  BY LevelFacts DEF FrontTyped, FrontTypeOK
<1>n. stage'[r] \notin {"closing", "done"} => DOMAIN replies'[r] = {}
  <2>1. stage'[r] \notin {"closing", "done"} => replies'[r] = <<>>
    BY DEF AnsweredOnce
  <2>. QED
    BY <2>1
<1>1. CASE Arrive(r, "gin") \/ Arrive(r, "gateway") \/ Access(r) \/ CallNext(r)
  <2>1. stage'[r] \in {"access", "serve", "bind"}
    BY <1>1 DEF Arrive, Access, CallNext, FrontTyped, FrontTypeOK
  <2>. QED
    BY <1>n, <2>1 DEF Truthful
<1>8. CASE AccessFails(r) \/ AccessPanics(r)
  <2>1. Sets(r, NoError, "access")
    BY <1>8 DEF AccessFails, AccessPanics
  <2>. QED
    BY <2>1, SetsOrigin DEF Truthful
<1>2. CASE HandlerPanics(r)
  <2>1. PICK e : Sets(r, e, "panic")
    BY <1>2 DEF HandlerPanics
  <2>2. stage'[r] = "panic" /\ level'[r] = level[r]
    BY <1>2 DEF HandlerPanics, FrontTyped, FrontTypeOK
  <2>3. Raw(error'[r], origin'[r], level'[r]) /\ origin'[r].how = "panic"
    BY <2>1, <2>2, SetsOrigin DEF Raw
  <2>. QED
    BY <1>n, <2>2, <2>3 DEF Truthful
<1>3. CASE Bind(r)
  <2>1. CASE stage' = [stage EXCEPT ![r] = "handle"]
    <3>1. stage'[r] = "handle"
      BY <2>1 DEF FrontTyped, FrontTypeOK
    <3>. QED
      BY <1>n, <3>1 DEF Truthful
  <2>2. CASE /\ stage' = [stage EXCEPT ![r] = "respond"]
             /\ Sets(r, New(ECodeInvalidParams), "error")
    <3>1. stage'[r] = "respond" /\ level'[r] = level[r]
      BY <1>3, <2>2 DEF Bind, FrontTyped, FrontTypeOK
    <3>2. Raw(error'[r], origin'[r], level'[r]) /\ origin'[r].how = "error"
      BY <2>2, <3>1, SetsOrigin DEF Raw
    <3>. QED
      BY <1>n, <3>1, <3>2 DEF Truthful
  <2>. QED
    BY <1>3, <2>1, <2>2 DEF Bind
<1>4. CASE Serve(r)
  <2>1. CASE stage' = [stage EXCEPT ![r] = "handle"]
    <3>1. stage'[r] = "handle"
      BY <2>1 DEF FrontTyped, FrontTypeOK
    <3>. QED
      BY <1>n, <3>1 DEF Truthful
  <2>2. CASE /\ stage' = [stage EXCEPT ![r] = "return"]
             /\ \E code \in {ECodeSystem, ECodeInvalidParams} :
                  Sets(r, GoMicro(code, Own(level[r])), "refused")
    <3>1. PICK code \in {ECodeSystem, ECodeInvalidParams} :
                  Sets(r, GoMicro(code, Own(level[r])), "refused")
      BY <2>2
    <3>2. stage'[r] = "return" /\ level'[r] = level[r] /\ incoming' = incoming
      BY <1>4, <2>2 DEF Serve, FrontTyped, FrontTypeOK
    <3>3. /\ origin'[r].how = "refused" /\ origin'[r].error = GoMicro(code, Own(level[r]))
          /\ error'[r] = GoMicro(code, Own(level[r]))
      BY <3>1, SetsOrigin
    <3>4. /\ error'[r].kind = "gm" /\ error'[r].code = code /\ error'[r].marks = 0
          /\ error'[r].service = Own(level[r]) /\ Own(level[r]) # 0
      BY <1>l, <3>3, LevelFacts DEF GoMicro, Error
    <3>5. Namer(origin'[r]) = Own(level[r])
      BY <3>3, <3>4 DEF Namer
    <3>6. Expected(origin'[r]) = code
      BY <3>3, <3>4 DEF Expected
    <3>7. code \in 1 .. Half - 1
      BY CodesFit
    <3>8. incoming'[r][level'[r]] \in BOOLEAN
      <4>1. incoming[r] \in [Levels -> BOOLEAN]
        BY DEF FrontTyped, FrontTypeOK
      <4>. QED
        BY <1>l, <3>2, <4>1
    <3>9. Sent(error'[r], origin'[r], incoming'[r][level'[r]])
      BY <3>4, <3>5, <3>6, <3>7, <3>8, PositiveSent
    <3>. QED
      BY <1>n, <3>2, <3>9 DEF Truthful
  <2>. QED
    BY <1>4, <2>1, <2>2 DEF Serve
<1>5. CASE CallFails(r)
  <2>1. PICK e : Sets(r, e, "error")
    BY <1>5 DEF CallFails
  <2>2. stage'[r] = "called" /\ level'[r] = level[r]
    BY <1>5 DEF CallFails, FrontTyped, FrontTypeOK
  <2>3. Raw(error'[r], origin'[r], level'[r]) /\ Erred(origin'[r])
    BY <2>1, <2>2, SetsOrigin DEF Raw, Erred
  <2>. QED
    BY <1>n, <2>2, <2>3 DEF Truthful
<1>6. CASE AfterCall(r)
  <2>1. CASE stage' = [stage EXCEPT ![r] = "handle"]
    <3>1. stage'[r] = "handle"
      BY <2>1 DEF FrontTyped, FrontTypeOK
    <3>. QED
      BY <1>n, <3>1 DEF Truthful
  <2>2. CASE /\ error[r].kind # "nil" /\ stage' = [stage EXCEPT ![r] = Leave(r)]
             /\ UNCHANGED <<error, origin>>
    <3>1. /\ stage'[r] \in {"wrap", "respond"} /\ level'[r] = level[r] /\ stage[r] = "called"
          /\ error'[r] = error[r] /\ origin'[r] = origin[r]
      BY <1>6, <2>2 DEF AfterCall, Leave, FrontTyped, FrontTypeOK
    <3>2. Claimed(origin[r]) /\ origin[r].how # "access" =>
            \/ Raw(error[r], origin[r], level[r]) /\ Erred(origin[r])
            \/ Carried(error[r], origin[r])
      BY <2>2, <3>1 DEF TruthOf, Truthful
    <3>. QED
      BY <1>n, <3>1, <3>2 DEF Truthful, Erred
  <2>. QED
    BY <1>6, <2>1, <2>2 DEF AfterCall
<1>7. CASE HandlerReturns(r)
  <2>1. PICK e : Sets(r, e, "none") \/ Sets(r, e, "error")
    BY <1>7 DEF HandlerReturns
  <2>2. stage'[r] \in {"wrap", "respond"} /\ level'[r] = level[r]
    BY <1>7 DEF HandlerReturns, Leave, FrontTyped, FrontTypeOK
  <2>3. Raw(error'[r], origin'[r], level'[r]) /\ origin'[r].how # "panic"
    BY <2>1, <2>2, SetsOrigin DEF Raw
  <2>. QED
    BY <1>n, <2>2, <2>3 DEF Truthful
<1>. QED
  BY <1>1, <1>2, <1>3, <1>4, <1>5, <1>6, <1>7, <1>8 DEF Handler

LEMMA TruthOnReturn ==
  ASSUME FrontTyped, NEW r \in Requests, Placed(r), AnsweredOnce(r), TruthOf(r),
         AnsweredOnce(r)', origin'[r] \in Origins,
         Wrap(r) \/ RecoverRpc(r) \/ Back(r) \/ BackPanics(r) \/ Gateway(r)
  PROVE  Truthful(r)'
<1>. USE DEF Moves
<1>l. level[r] \in Levels /\ level[r] \in Nat /\ error[r] \in ErrorType /\ origin[r] \in Origins
  BY LevelFacts DEF FrontTyped, FrontTypeOK
<1>i. incoming[r] \in [Levels -> BOOLEAN] /\ incoming[r][level[r]] \in BOOLEAN
  <2>1. incoming[r] \in [Levels -> BOOLEAN]
    BY DEF FrontTyped, FrontTypeOK
  <2>. QED
    BY <1>l, <2>1
<1>n. stage'[r] \notin {"closing", "done"} => DOMAIN replies'[r] = {}
  <2>1. stage'[r] \notin {"closing", "done"} => replies'[r] = <<>>
    BY DEF AnsweredOnce
  <2>. QED
    BY <2>1
<1>o. incoming' = incoming /\ entry' = entry
  BY DEF Wrap, RecoverRpc, Back, BackPanics, ToCaller, Gateway, flags
<1>a. origin[r].how # "access"
  BY DEF AnsweredOnce, Wrap, RecoverRpc, Back, BackPanics, ToCaller, Gateway, Placed
<1>p. \A n \in Nat : n >= 1 => n > 0
  OBVIOUS
<1>s. OriginSound(origin[r])
  BY DEF TruthOf
<1>1. CASE Wrap(r) /\ level[r] \notin metrics
  <2>1. /\ stage[r] = "wrap" /\ stage'[r] = "return" /\ level'[r] = level[r]
        /\ error'[r] = ServerWrap(error[r], Own(level[r]), incoming[r][level[r]])
        /\ origin' = origin
    BY <1>1 DEF Wrap, FrontTyped, FrontTypeOK
  <2>2. level[r] >= 1 /\ level[r] > 0
    <3>1. level[r] >= 1
      BY <2>1 DEF Placed
    <3>. QED
      BY <1>l, <1>p, <3>1
  <2>3. ASSUME Claimed(origin[r])
        PROVE  Sent(error'[r], origin[r], incoming[r][level[r]])
    <3>1. \/ Raw(error[r], origin[r], level[r]) /\ origin[r].how # "panic"
          \/ Carried(error[r], origin[r])
      BY <1>a, <2>1, <2>3 DEF TruthOf, Truthful
    <3>. QED
      BY <1>a, <1>l, <1>i, <1>s, <2>1, <2>2, <2>3, <3>1, WrapSends
  <2>. QED
    BY <1>n, <1>o, <2>1, <2>3 DEF Truthful
<1>5. CASE Wrap(r) /\ level[r] \in metrics
  <2>1. /\ stage'[r] = "return" /\ level'[r] = level[r]
        /\ Sets(r, GoMicro(ECodeSystem, Own(level[r])), "metrics")
    BY <1>5 DEF Wrap, FrontTyped, FrontTypeOK
  <2>2. /\ origin'[r].how = "metrics" /\ origin'[r].error = GoMicro(ECodeSystem, Own(level[r]))
        /\ error'[r] = GoMicro(ECodeSystem, Own(level[r])) /\ origin'[r].level = level[r]
    BY <2>1, SetsOrigin
  <2>3. Sent(error'[r], origin'[r], incoming[r][level[r]])
    BY <1>i, <2>2, CodesFit, OwnErrorSent DEF Erred
  <2>. QED
    BY <1>n, <1>o, <2>1, <2>3 DEF Truthful
<1>2. CASE RecoverRpc(r)
  <2>1. /\ stage[r] = "panic" /\ stage'[r] = "return" /\ level'[r] = level[r] /\ level[r] > 0
        /\ error'[r] = GoMicro(ECodeSystem, Own(level[r])) /\ origin' = origin
    BY <1>2 DEF RecoverRpc, FrontTyped, FrontTypeOK
  <2>2. ASSUME Claimed(origin[r])
        PROVE  Sent(error'[r], origin[r], incoming[r][level[r]])
    <3>1. origin[r].how = "panic" /\ origin[r].level = level[r]
      BY <1>a, <2>1, <2>2 DEF TruthOf, Truthful, Raw
    <3>2. ~ (level[r] = 0)
      BY <1>l, <2>1
    <3>3. Expected(origin[r]) = ECodeSystem /\ origin[r].error.service = 0
      BY <1>a, <1>l, <1>s, <2>2, <3>1, <3>2, ExpectedIs DEF Erred
    <3>4. Namer(origin[r]) = Own(level[r])
      BY <3>1, <3>3 DEF Namer
    <3>5. /\ error'[r].kind = "gm" /\ error'[r].code = ECodeSystem /\ error'[r].marks = 0
          /\ error'[r].service = Own(level[r])
      BY <2>1 DEF GoMicro, Error
    <3>. QED
      BY <1>l, <1>i, <3>3, <3>4, <3>5, CodesFit, PositiveSent
  <2>. QED
    BY <1>n, <1>o, <2>1, <2>2 DEF Truthful
<1>3. CASE Back(r)
  <2>1. /\ stage[r] = "return" /\ stage'[r] = "called"
        /\ level[r] > 1 \/ Gin(r)
        /\ error'[r] = IF error[r].kind = "nil" THEN error[r]
                       ELSE ClientUnwrap(Wire(error[r]), Own(level[r] - 1))
        /\ origin' = origin
    BY <1>3 DEF Back, ToCaller, Gin, FrontTyped, FrontTypeOK
  <2>2. level[r] >= 1
    BY <2>1 DEF Placed
  <2>3. level[r] \in 1 .. level[r]
    BY <1>l, <2>2
  <2>4. incoming[r][level[r]] = TRUE
    BY <1>i, <2>1, <2>3 DEF TruthOf, FlagsSound
  <2>5. Own(level[r] - 1) \in Nat
    BY <1>l, <2>2, LevelFacts
  <2>6. ASSUME Claimed(origin[r])
        PROVE  error'[r].kind = "nil" \/ Carried(error'[r], origin[r])
    <3>1. Sent(error[r], origin[r], TRUE)
      BY <1>a, <2>1, <2>4, <2>6 DEF TruthOf, Truthful
    <3>. QED
      BY <1>a, <1>l, <1>s, <2>1, <2>5, <2>6, <3>1, UnwrapCarries
  <2>. QED
    BY <1>n, <1>o, <2>1, <2>6 DEF Truthful
<1>6. CASE BackPanics(r)
  <2>1. /\ stage'[r] = "panic" /\ level'[r] = level[r] - 1 /\ error'[r] = MetricsPanic
        /\ origin'[r] = [how |-> "panic", level |-> level[r] - 1, error |-> MetricsPanic]
    BY <1>6 DEF BackPanics, ToCaller, FrontTyped, FrontTypeOK
  <2>2. Raw(error'[r], origin'[r], level'[r]) /\ origin'[r].how = "panic"
    BY <2>1 DEF Raw
  <2>. QED
    BY <1>n, <2>1, <2>2 DEF Truthful
<1>4. CASE Gateway(r)
  <2>1. /\ stage[r] = "return" /\ stage'[r] = "done" /\ level[r] = 1 /\ entry[r] = "gateway"
        /\ replies'[r] = Append(replies[r], GatewayResponse(error[r])) /\ origin' = origin
    BY <1>4 DEF Gateway, FrontTyped, FrontTypeOK
  <2>2. replies'[r] = <<GatewayResponse(error[r])>>
    <3>1. replies[r] = <<>> /\ replies[r] \in Seq(Reply)
      BY <2>1 DEF AnsweredOnce, FrontTyped
    <3>. QED
      BY <1>l, <2>1, <3>1, AppendsOne, ResponsesTyped, LevelFacts
  <2>3. incoming[r][level[r]] = FALSE
    BY <1>i, <2>1 DEF TruthOf, FlagsSound
  <2>4. ASSUME Claimed(origin[r])
        PROVE  Answers(GatewayResponse(error[r]), origin[r], FALSE)
    <3>1. Sent(error[r], origin[r], FALSE)
      BY <1>a, <2>1, <2>3, <2>4 DEF TruthOf, Truthful
    <3>. QED
      BY <1>l, <3>1, GatewayAnswers
  <2>5. Gin(r)' = FALSE
    BY <1>o, <2>1 DEF Gin
  <2>6. \A i \in DOMAIN replies'[r] : replies'[r][i] = GatewayResponse(error[r])
    BY <2>2
  <2>. QED
    BY <1>o, <2>1, <2>4, <2>5, <2>6 DEF Truthful
<1>. QED
  BY <1>1, <1>2, <1>3, <1>4, <1>5, <1>6

LEMMA TruthAtEnd ==
  ASSUME FrontTyped, NEW r \in Requests, Placed(r), AnsweredOnce(r), TruthOf(r),
         \/ Respond(r) \/ Recover(r) \/ Close(r) \/ AccessEnds(r) \/ Unwind(r)
         \/ RecoverLate(r) \/ Abort(r)
  PROVE  Truthful(r)'
<1>. USE DEF Moves
<1>l. error[r] \in ErrorType /\ origin[r] \in Origins /\ replies[r] \in Seq(Reply)
  BY DEF FrontTyped
<1>o. origin' = origin /\ entry' = entry /\ error' = error /\ level' = level
  BY DEF Respond, Recover, Close, AccessEnds, Unwind, RecoverLate, Abort, Deferred
<1>s. OriginSound(origin[r])
  BY DEF TruthOf
<1>g. Gin(r) \in BOOLEAN /\ Gin(r)' = Gin(r)
  BY <1>o DEF Gin
<1>a. ASSUME NEW a \in Reply, Writes(r, a), replies[r] = <<>>, stage'[r] \in {"closing", "done"},
             Claimed(origin[r]) /\ origin[r].how # "access" => Answers(a, origin[r], Gin(r))
      PROVE  Truthful(r)'
  <2>1. replies'[r] = <<a>>
    BY <1>l, <1>a, AppendsOne, WritesTyped DEF FrontTyped
  <2>2. \A i \in DOMAIN replies'[r] : replies'[r][i] = a
    BY <2>1
  <2>. QED
    BY <1>a, <1>g, <1>o, <2>2 DEF Truthful
<1>1. CASE Respond(r)
  <2>1. /\ stage[r] = "respond" /\ stage'[r] = "closing"
        /\ Writes(r, IF error[r].kind = "nil" THEN Success(Own(0))
                                              ELSE ErrorResponse(error[r], Own(0)))
    BY <1>1 DEF Respond, FrontTyped, FrontTypeOK
  <2>2. level[r] = 0 /\ replies[r] = <<>>
    BY <2>1 DEF Placed, AnsweredOnce
  <2>3. ASSUME Claimed(origin[r]), origin[r].how # "access"
        PROVE  Answers(IF error[r].kind = "nil" THEN Success(Own(0))
                       ELSE ErrorResponse(error[r], Own(0)), origin[r], Gin(r))
    <3>1. \/ Raw(error[r], origin[r], 0) /\ origin[r].how # "panic"
          \/ Carried(error[r], origin[r])
      BY <2>1, <2>2, <2>3 DEF TruthOf, Truthful
    <3>. QED
      BY <1>g, <1>l, <1>s, <2>3, <3>1, ResponseAnswers
  <2>4. (IF error[r].kind = "nil" THEN Success(Own(0))
                                  ELSE ErrorResponse(error[r], Own(0))) \in Reply
    BY <1>l, ResponsesTyped, LevelFacts
  <2>. QED
    BY <1>a, <2>1, <2>2, <2>3, <2>4
<1>2. CASE Recover(r) \/ RecoverLate(r)
  <2>. DEFINE e == IF error[r].kind = "nil" THEN New(ECodeInternal) ELSE error[r]
  <2>1. /\ stage[r] \in {"panic", "unwound"} /\ stage'[r] \in {"closing", "done"}
        /\ Writes(r, ErrorResponse(e, Own(0)))
    BY <1>2 DEF Recover, RecoverLate, AnswersPanic, FrontTyped, FrontTypeOK
  <2>2. level[r] = 0 /\ replies[r] = <<>>
    BY <1>2, <2>1 DEF Recover, RecoverLate, Placed, AnsweredOnce
  <2>3. ASSUME Claimed(origin[r]), origin[r].how # "access"
        PROVE  Answers(ErrorResponse(e, Own(0)), origin[r], Gin(r))
    <3>1. Raw(error[r], origin[r], 0) /\ origin[r].how = "panic"
      BY <2>1, <2>2, <2>3 DEF TruthOf, Truthful
    <3>. QED
      BY <1>g, <1>l, <1>s, <2>3, <3>1, RecoveryAnswers
  <2>4. ErrorResponse(e, Own(0)) \in Reply
    BY <1>l, ResponsesTyped, LevelFacts, ErrorFacts
  <2>. QED
    BY <1>a, <2>1, <2>2, <2>3, <2>4
<1>3. CASE Close(r) \/ AccessEnds(r) \/ Unwind(r) \/ Abort(r)
  <2>1. /\ replies' = replies /\ stage'[r] \in {"done", "unwound"}
        /\ stage'[r] = "unwound" => stage[r] = "panic"
    BY <1>3 DEF Close, AccessEnds, Unwind, Abort, Deferred, FrontTyped, FrontTypeOK
  <2>. QED
    BY <1>g, <1>o, <2>1 DEF TruthOf, Truthful
<1>. QED
  BY <1>1, <1>2, <1>3

(* What reaches the client passed no service with metrics on.              *)
LEMMA UnmeteredStep ==
  ASSUME FrontTyped, NEW r \in Requests, Placed(r), AnsweredOnce(r), Unmetered(r), Step(r)
  PROVE  Unmetered(r)'
<1>. USE DEF Moves, setting, flags
<1>l. level[r] \in Nat /\ origin[r].level \in Nat /\ \A l \in metrics : l \in Nat
  BY LevelFacts DEF FrontTyped, FrontTypeOK, Origins
<1>m. metrics' = metrics
  BY DEF Step, Handler, Arrive, AccessFails, Access, AccessPanics, AccessEnds, Bind, Serve, CallNext,
         CallFails, AfterCall, HandlerReturns, HandlerPanics, Wrap, RecoverRpc, Back, BackPanics,
         ToCaller, Gateway, Respond, Recover, Close, Unwind, RecoverLate, Deferred, Abort
<1>k. ASSUME origin'[r] = origin[r], Lowest(r)' \in Nat, Lowest(r) \in Nat, Lowest(r)' >= Lowest(r)
      PROVE  Unmetered(r)'
  BY <1>k, <1>l, <1>m DEF Unmetered
<1>s. ASSUME NEW e, NEW how, Sets(r, e, how), how # "refused", Lowest(r)' = level[r] + 1
      PROVE  Unmetered(r)'
  <2>1. origin'[r].how = how /\ origin'[r].level = level[r]
    BY <1>s, SetsOrigin
  <2>2. \A l \in Nat : l >= level[r] + 1 => l \notin 1 .. level[r]
    BY <1>l
  <2>. QED
    BY <1>l, <1>m, <1>s, <2>1, <2>2 DEF Unmetered, Passed
<1>1. CASE Arrive(r, "gin") \/ Arrive(r, "gateway")
  <2>1. /\ level[r] = 0 /\ level'[r] \in {0, 1} /\ stage[r] = "idle"
        /\ stage'[r] \in {"access", "serve"} /\ origin' = origin
    BY <1>1 DEF Arrive, Placed, FrontTyped, FrontTypeOK
  <2>. QED
    BY <1>k, <2>1 DEF Lowest
<1>2. CASE Access(r) \/ CallNext(r)
  <2>1. /\ stage[r] \in {"access", "handle"} /\ stage'[r] \in {"bind", "serve"}
        /\ level'[r] \in {level[r], level[r] + 1} /\ origin' = origin
    BY <1>2 DEF Access, CallNext, FrontTyped, FrontTypeOK
  <2>. QED
    BY <1>k, <1>l, <2>1 DEF Lowest
<1>3. CASE \/ AccessFails(r) \/ AccessPanics(r) \/ HandlerPanics(r) \/ BackPanics(r)
           \/ Wrap(r) /\ level[r] \in metrics
  <2>1. origin'[r].how \in {"access", "panic", "metrics"}
    BY <1>3 DEF AccessFails, AccessPanics, HandlerPanics, BackPanics, Wrap, Sets, FrontTyped
  <2>. QED
    BY <2>1 DEF Unmetered
<1>4. CASE Bind(r) \/ CallFails(r) \/ AfterCall(r) \/ HandlerReturns(r)
  <2>1. /\ level'[r] = level[r] /\ stage[r] \in {"bind", "handle", "called"}
        /\ stage'[r] \in {"handle", "respond", "called", "wrap"}
    BY <1>4 DEF Bind, CallFails, AfterCall, HandlerReturns, Leave, FrontTyped, FrontTypeOK
  <2>2. Lowest(r)' = level[r] + 1 /\ Lowest(r) = level[r] + 1
    BY <2>1 DEF Lowest
  <2>3. CASE origin' = origin
    BY <1>k, <1>l, <2>2, <2>3
  <2>4. CASE \E e, how : Sets(r, e, how) /\ how # "refused"
    BY <1>s, <2>2, <2>4
  <2>5. origin' = origin \/ \E e, how : Sets(r, e, how) /\ how # "refused"
    BY <1>4 DEF Bind, CallFails, AfterCall, HandlerReturns
  <2>. QED
    BY <2>3, <2>4, <2>5
<1>5. CASE Serve(r)
  <2>1. CASE stage' = [stage EXCEPT ![r] = "handle"]
    <3>1. stage[r] = "serve" /\ stage'[r] = "handle" /\ level' = level /\ origin' = origin
      BY <1>5, <2>1 DEF Serve, FrontTyped, FrontTypeOK
    <3>. QED
      BY <1>k, <1>l, <3>1 DEF Lowest
  <2>2. CASE \E e : Sets(r, e, "refused")
    <3>1. origin'[r].how = "refused" /\ origin'[r].level = level[r]
      BY <2>2, SetsOrigin
    <3>2. level' = level /\ level[r] >= 1 /\ stage[r] = "serve"
      BY <1>5 DEF Serve, Placed
    <3>3. Lowest(r)' \in {level[r], level[r] + 1}
      BY <3>2 DEF Lowest
    <3>4. \A l \in Nat : l >= level[r] \/ l >= level[r] + 1 => l \notin 1 .. level[r] - 1
      BY <1>l
    <3>. QED
      BY <1>l, <1>m, <3>1, <3>3, <3>4 DEF Unmetered, Passed
  <2>. QED
    BY <1>5, <2>1, <2>2 DEF Serve
<1>6. CASE Wrap(r) /\ level[r] \notin metrics
  <2>1. /\ stage[r] = "wrap" /\ stage'[r] = "return" /\ level' = level /\ origin' = origin
    BY <1>6 DEF Wrap, FrontTyped, FrontTypeOK
  <2>2. Lowest(r) = level[r] + 1 /\ Lowest(r)' = level[r]
    BY <2>1 DEF Lowest
  <2>3. \A l \in metrics : l >= level[r] => l >= level[r] + 1
    BY <1>l, <1>6
  <2>. QED
    BY <1>m, <2>1, <2>2, <2>3 DEF Unmetered
<1>7. CASE RecoverRpc(r)
  <2>1. origin' = origin /\ stage[r] = "panic" /\ level[r] > 0
    BY <1>7 DEF RecoverRpc
  <2>2. origin[r].how = "panic"
    BY <1>l, <2>1 DEF AnsweredOnce
  <2>. QED
    BY <2>1, <2>2 DEF Unmetered
<1>8. CASE Back(r)
  <2>1. /\ stage[r] = "return" /\ stage'[r] = "called" /\ level'[r] = level[r] - 1
        /\ origin' = origin
    BY <1>8 DEF Back, ToCaller, FrontTyped, FrontTypeOK
  <2>2. Lowest(r) = level[r] /\ Lowest(r)' = level[r]
    BY <1>l, <2>1 DEF Lowest
  <2>. QED
    BY <1>k, <1>l, <2>1, <2>2
<1>9. CASE Gateway(r)
  <2>1. /\ stage[r] = "return" /\ stage'[r] = "done" /\ level' = level /\ origin' = origin
        /\ entry'[r] = "gateway"
    BY <1>9 DEF Gateway, FrontTyped, FrontTypeOK
  <2>2. Lowest(r) = level[r] /\ Lowest(r)' = level[r]
    BY <2>1 DEF Lowest, Gin
  <2>. QED
    BY <1>k, <1>l, <2>1, <2>2
<1>10. CASE \/ Respond(r) \/ Recover(r) \/ Close(r) \/ AccessEnds(r) \/ Unwind(r)
            \/ RecoverLate(r) \/ Abort(r)
  <2>1. /\ level' = level /\ origin' = origin /\ entry' = entry
        /\ stage[r] \in {"respond", "panic", "closing", "aborted", "unwound"} /\ level[r] = 0
    BY <1>10 DEF Respond, Recover, Close, AccessEnds, Unwind, RecoverLate, Abort, Deferred, Placed
  <2>2. Gin(r)
    BY <2>1, <1>l DEF Placed, Gin, FrontTyped, FrontTypeOK
  <2>3. stage'[r] \in {"closing", "unwound", "done"}
    BY <1>10 DEF Respond, Recover, Close, AccessEnds, Unwind, RecoverLate, Abort, Deferred,
                 FrontTyped, FrontTypeOK
  <2>4. Lowest(r) = level[r] + 1 /\ Lowest(r)' = level[r] + 1
    BY <2>1, <2>2, <2>3 DEF Lowest, Gin
  <2>. QED
    BY <1>k, <1>l, <2>1, <2>4
<1>. QED
  BY <1>1, <1>2, <1>3, <1>4, <1>5, <1>6, <1>7, <1>8, <1>9, <1>10 DEF Step, Handler

AllTruth == \A r \in Requests : TruthOf(r)

LEMMA TruthStep ==
  ASSUME FrontIInv, AllTruth, [FrontNext]_frontVars
  PROVE  AllTruth'
<1>1. CASE UNCHANGED frontVars
  <2>1. ASSUME NEW q \in Requests
        PROVE  TruthOf(q)'
    <3>1. TruthOf(q)
      BY DEF AllTruth
    <3>2. /\ origin' = origin /\ entry' = entry /\ stage' = stage /\ level' = level
          /\ incoming' = incoming /\ metadata' = metadata /\ error' = error
          /\ replies' = replies /\ metrics' = metrics
      BY <1>1 DEF frontVars, setting, flags
    <3>3. OriginSound(origin[q])' /\ FlagsSound(q)'
      BY <3>1, <3>2 DEF TruthOf, OriginSound, FlagsSound, Gin
    <3>4. Truthful(q)'
      BY <3>1, <3>2 DEF TruthOf, Truthful, Gin
    <3>5. Unmetered(q)'
      BY <3>1, <3>2 DEF TruthOf, Unmetered, Lowest, Gin
    <3>. QED
      BY <3>3, <3>4, <3>5 DEF TruthOf
  <2>. QED
    BY <2>1 DEF AllTruth
<1>2. ASSUME NEW r \in Requests, Step(r)
      PROVE  AllTruth'
  <2>1. FrontTyped /\ Placed(r) /\ AnsweredOnce(r) /\ TruthOf(r)
    BY DEF FrontIInv, AllTruth
  <2>2. FrontTyped' /\ Frame(r)
    BY <1>2, <2>1, StepTyped
  <2>3. \A q \in Requests \ {r} : TruthOf(q)'
    BY <2>2, OthersTruth DEF AllTruth
  <2>4. AnsweredOnce(r)' /\ origin'[r] \in Origins
    <3>1. AnsweredOnce(r)'
      BY <1>2, <2>1, PlacedOnArrival, PlacedInHandler, PlacedOnReturn, PlacedAtEnd DEF Step
    <3>. QED
      BY <2>2, <3>1 DEF FrontTyped
  <2>5. OriginSound(origin[r])'
    BY <1>2, <2>1, OriginStep DEF TruthOf
  <2>6. FlagsSound(r)'
    BY <1>2, <2>1, FlagsStep DEF TruthOf
  <2>7. Truthful(r)'
    <3>1. CASE \/ Arrive(r, "gin") \/ Arrive(r, "gateway") \/ AccessFails(r) \/ Access(r)
               \/ AccessPanics(r) \/ Bind(r) \/ Serve(r) \/ Handler(r)
      BY <2>1, <2>4, <3>1, TruthInHandler
    <3>2. CASE Wrap(r) \/ RecoverRpc(r) \/ Back(r) \/ BackPanics(r) \/ Gateway(r)
      BY <2>1, <2>4, <3>2, TruthOnReturn
    <3>3. CASE \/ Respond(r) \/ Recover(r) \/ Close(r) \/ AccessEnds(r) \/ Unwind(r)
               \/ RecoverLate(r) \/ Abort(r)
      BY <2>1, <3>3, TruthAtEnd
    <3>. QED
      BY <1>2, <3>1, <3>2, <3>3 DEF Step
  <2>9. Unmetered(r)'
    BY <1>2, <2>1, UnmeteredStep DEF TruthOf
  <2>8. TruthOf(r)'
    BY <2>5, <2>6, <2>7, <2>9 DEF TruthOf
  <2>. QED
    BY <2>3, <2>8 DEF AllTruth
<1>. QED
  BY <1>1, <1>2 DEF FrontNext

(* The client of the first service reads the code, the status and, in gin, *)
(* the service of an error as it was raised, through any number of services*)
(* unless one of them has metrics on, whose own ECodeSystem it reads then  *)
(* (errors.go; wrap.go: GenerateServerLogWrap, clientLogWrap.Call; gin.go: *)
(* assertError; service.go: grpcGatewayHTTPError).                         *)
THEOREM CodesArrive == FrontSpec => []AnswersTruly
<1>1. FrontInit => AllTruth
  <2>. SUFFICES ASSUME FrontInit, NEW r \in Requests
                PROVE  TruthOf(r)
    BY DEF AllTruth
  <2>1. /\ origin[r] = NoOrigin /\ stage[r] = "idle" /\ level[r] = 0 /\ entry[r] = "none"
        /\ replies[r] = <<>>
    BY DEF FrontInit
  <2>2. \A l \in Levels : ~ incoming[r][l]
    BY DEF FrontInit
  <2>3. OriginSound(origin[r])
    BY <2>1 DEF OriginSound, NoOrigin, Erred
  <2>4. FlagsSound(r)
    <3>1. 1 .. level[r] = {}
      BY <2>1
    <3>. QED
      BY <2>1, <2>2, <3>1 DEF FlagsSound
  <2>5. Truthful(r)
    BY <2>1 DEF Truthful
  <2>6. Unmetered(r)
    <3>1. 1 .. 0 = {}
      OBVIOUS
    <3>. QED
      BY <2>1, <3>1 DEF Unmetered, Passed, NoOrigin
  <2>. QED
    BY <2>3, <2>4, <2>5, <2>6 DEF TruthOf
<1>2. FrontIInv /\ AllTruth => AnswersTruly
  <2>. SUFFICES ASSUME FrontIInv, AllTruth, NEW r \in Requests, NEW i \in DOMAIN replies[r]
                PROVE  /\ Claimed(origin[r]) => Answers(replies[r][i], origin[r], Gin(r))
                       /\ origin[r].how \in {"none", "error", "refused"} =>
                            Passed(origin[r]) \cap metrics = {}
    BY DEF AnswersTruly, Answers, Namer
  <2>1. /\ FrontTyped /\ Placed(r) /\ AnsweredOnce(r) /\ TruthOf(r)
    BY DEF FrontIInv, AllTruth
  <2>2. replies[r] # <<>> /\ stage[r] \in {"closing", "done"}
    BY <2>1 DEF AnsweredOnce
  <2>3. origin[r].how # "access"
    BY <2>1, <2>2 DEF AnsweredOnce
  <2>4. Lowest(r) = 1
    <3>1. stage[r] = "closing" => level[r] = 0
      BY <2>1 DEF Placed
    <3>2. stage[r] = "done" => level[r] = IF Gin(r) THEN 0 ELSE 1
      BY <2>1 DEF Placed
    <3>. QED
      BY <2>2, <3>1, <3>2 DEF Lowest
  <2>5. \A l \in Passed(origin[r]) : l >= 1
    <3>1. origin[r].level \in Nat
      BY <2>1, LevelFacts DEF FrontTyped, Origins
    <3>. QED
      BY <3>1 DEF Passed
  <2>6. Truthful(r) /\ Unmetered(r)
    BY <2>1 DEF TruthOf
  <2>7. Claimed(origin[r]) => Answers(replies[r][i], origin[r], Gin(r))
    BY <2>3, <2>6 DEF Truthful
  <2>. QED
    BY <2>4, <2>5, <2>6, <2>7 DEF Unmetered
<1>. QED
  BY <1>1, <1>2, TruthStep, FrontSafe, PTL DEF FrontSpec
=============================================================================
