-------------------------- MODULE ConfigWatchProofs --------------------------
(***************************************************************************)
(* Proofs about the start of a service and the reload of its               *)
(* configuration, for both engines, any documents, any capacity of         *)
(* changesC and any number of writes: no reload is lost, repeated or       *)
(* overtaken, a refused document changes nothing, and the channels of the  *)
(* file engine are closed once and not used afterwards.                    *)
(***************************************************************************)
EXTENDS ConfigWatch, SequenceTheorems, TLAPS

Parsed(v) == v \in 1 .. Len(writes) /\ writes[v] \in Good

(* What has begun: the goroutines and the container before loadEngine has  *)
(* made them, and the watch.                                               *)
Begun ==
  /\ main \in {"new", "load"} => configer = 0
  /\ main \in {"new", "load", "init"} => watcher = "none"
  /\ main \in {"server", "run", "cancel", "returned"} => watcher # "none"
  /\ main = "init" \/ watcher # "none" => configer # 0
  /\ watcher = "none" =>
       /\ processor = "none" /\ container = 0 /\ applying = 0 /\ changes = <<>>
       /\ ~unsent /\ cancelC = "open"
  /\ watcher # "none" => container # 0
  /\ processor = "apply" <=> applying # 0

(* The configer is a parsed version the watch has already passed.          *)
Current ==
  /\ Len(writes) >= 1 /\ pos <= Len(writes)
  /\ configer # 0 => Parsed(configer)
  /\ engine = "etcd" /\ watcher \in {"watch", "push"} => pos >= 1 /\ configer <= pos

(* The versions on their way to the container, each newer than the one     *)
(* before it.  Base is the one the processor is at, Tip the last that is   *)
(* past the watcher.                                                       *)
Base == IF applying # 0 THEN applying ELSE container
Tip == IF changes = <<>> THEN Base ELSE changes[Len(changes)]

Line ==
  container # 0 =>
    /\ Parsed(container)
    /\ applying # 0 => Parsed(applying) /\ container < applying
    /\ \A i \in DOMAIN changes : Parsed(changes[i]) /\ Base < changes[i]
    /\ \A i, j \in DOMAIN changes : i < j => changes[i] < changes[j]
    /\ IF watcher = "push" THEN change = configer /\ Tip < change
                           ELSE Tip = configer \/ (unsent /\ Tip < configer)

(* The channels of the file engine: Subscribe returns only when Run fails. *)
FileChannels ==
  engine = "file" =>
    /\ watcher # "endErr"
    /\ watcher \in {"end", "done"} => main = "failed"
    /\ cancelC = "closed" <=> watcher = "done"
    /\ ChannelsSafe

Inv == TypeOK /\ Begun /\ Current /\ Line /\ FileChannels

-----------------------------------------------------------------------------
(* Sequences.                                                              *)

LEMMA BoundedSeqDef ==
  ASSUME NEW S, NEW n \in Nat, NEW s
  PROVE  s \in BoundedSeq(S, n) <=> s \in Seq(S) /\ Len(s) <= n
<1>1. ASSUME s \in BoundedSeq(S, n) PROVE s \in Seq(S) /\ Len(s) <= n
  <2>1. PICK m \in 0 .. n : s \in [1 .. m -> S]
    BY <1>1 DEF BoundedSeq, SeqOf
  <2>2. s \in Seq(S)
    BY <2>1, SeqDef
  <2>3. Len(s) = m
    BY <2>1, <2>2, LenProperties
  <2>. QED
    BY <2>2, <2>3
<1>2. ASSUME s \in Seq(S), Len(s) <= n PROVE s \in BoundedSeq(S, n)
  <2>1. Len(s) \in 0 .. n /\ s \in [1 .. Len(s) -> S]
    BY <1>2, LenProperties
  <2>. QED
    BY <2>1 DEF BoundedSeq, SeqOf
<1>. QED
  BY <1>1, <1>2

(* TypeOK with the sequences as sequences, which is what the steps use.    *)
LEMMA SeqTypes ==
  ASSUME TypeOK
  PROVE  /\ writes \in Seq(Docs) /\ Len(writes) \in 0 .. MaxWrites
         /\ changes \in Seq(Versions) /\ Len(changes) \in 0 .. ChangesBufferSize
         /\ DOMAIN changes = 1 .. Len(changes) /\ Versions = 0 .. MaxWrites
         /\ changes = <<>> <=> Len(changes) = 0
         /\ 0 \in Versions /\ Len(writes) \in Versions
         /\ \A v \in Versions : v \in Nat
<1>1. /\ writes \in Seq(Docs) /\ Len(writes) <= MaxWrites
      /\ changes \in Seq(Versions) /\ Len(changes) <= ChangesBufferSize
  BY BoundedSeqDef, SizeAssumption DEF TypeOK
<1>2. Len(writes) \in Nat /\ Len(changes) \in Nat /\ DOMAIN changes = 1 .. Len(changes)
  BY <1>1, LenProperties
<1>3. changes = <<>> <=> Len(changes) = 0
  BY <1>1, EmptySeq
<1>. QED
  BY <1>1, <1>2, <1>3, SizeAssumption DEF Versions

LEMMA InitInv == Init => Inv
<1> SUFFICES ASSUME Init PROVE Inv
  OBVIOUS
<1>1. PICK d \in Docs : writes = <<d>>
  BY DEF Init
<1>2. writes \in Seq(Docs) /\ Len(writes) = 1
  BY <1>1
<1>3. <<>> \in Seq(Versions) /\ Len(<<>>) = 0
  OBVIOUS
<1>4. writes \in BoundedSeq(Docs, MaxWrites) /\ changes \in BoundedSeq(Versions, ChangesBufferSize)
  <2>1. Len(writes) <= MaxWrites /\ MaxWrites \in Nat
    BY <1>2, SizeAssumption
  <2>2. changes \in Seq(Versions) /\ Len(changes) <= ChangesBufferSize
    BY <1>3, SizeAssumption DEF Init
  <2>3. writes \in BoundedSeq(Docs, MaxWrites)
    BY <1>2, <2>1, BoundedSeqDef
  <2>4. changes \in BoundedSeq(Versions, ChangesBufferSize)
    BY <2>2, BoundedSeqDef, SizeAssumption
  <2>. QED
    BY <2>3, <2>4
<1>5. TypeOK
  <2>1. 0 \in Versions
    BY SizeAssumption DEF Versions
  <2>. QED
    BY <1>4, <2>1 DEF Init, TypeOK
<1>6. Begun /\ Current /\ Line /\ FileChannels
  BY <1>2 DEF Init, Begun, Current, Line, FileChannels, ChannelsSafe
<1>. QED
  BY <1>5, <1>6 DEF Inv

-----------------------------------------------------------------------------
(* Types.                                                                  *)

LEMMA TypeStep == Inv /\ [Next]_vars => TypeOK'
<1> SUFFICES ASSUME Inv, [Next]_vars PROVE TypeOK'
  OBVIOUS
<1>0. TypeOK /\ Current
  BY DEF Inv
<1> USE DEF source, process, watching, config, processing
<1>1. ASSUME NEW d \in Docs, Write(d) PROVE TypeOK'
  <2>1. writes' \in Seq(Docs) /\ Len(writes') <= MaxWrites
    <3>1. writes \in Seq(Docs) /\ Len(writes) \in Nat
      BY <1>0, SeqTypes
    <3>2. writes' = Append(writes, d) /\ Len(writes) < MaxWrites /\ MaxWrites \in Nat
      BY <1>1, SizeAssumption DEF Write
    <3>. QED
      BY <3>1, <3>2, AppendProperties
  <2>2. writes' \in BoundedSeq(Docs, MaxWrites)
    BY <2>1, BoundedSeqDef, SizeAssumption
  <2>. QED
    BY <1>0, <1>1, <2>2 DEF Write, TypeOK
<1>2. CASE Main \/ ServerEnds \/ Exit
  <2>1. CASE LoadConfig
    <3>1. Len(writes) \in Versions
      BY <1>0, SeqTypes
    <3>. QED
      BY <1>0, <2>1, <3>1 DEF LoadConfig, TypeOK
  <2>2. CASE NewEngine \/ LoadConfigFailed \/ LoadEngine
    BY <1>0, <2>2 DEF NewEngine, LoadConfigFailed, LoadEngine, TypeOK
  <2>3. CASE NewEngineFailed \/ CancelOnClosed \/ Exit
    BY <1>0, <2>3 DEF NewEngineFailed, CancelOnClosed, Exit, Panic, TypeOK
  <2>4. ASSUME NEW from, NEW to \in {"run", "cancel", "returned"}, ServerStep(from, to)
        PROVE  TypeOK'
    BY <1>0, <2>4, ZenonT(60) DEF ServerStep, TypeOK
  <2>. QED
    BY <1>2, <2>1, <2>2, <2>3, <2>4 DEF Main, ServerEnds
<1>3. CASE Subscribe
  <2>1. Len(writes) \in Versions /\ 0 \in Versions
    BY <1>0, SeqTypes
  <2>. QED
    BY <1>0, <1>3, <2>1 DEF Subscribe, TypeOK
<1>4. ASSUME NEW v \in Versions, Refresh(v),
             UNCHANGED <<source, process, cancelC, unsent, processing>>, pos' \in Versions
      PROVE  TypeOK'
  <2>1. configer' \in Versions /\ change' \in Versions
        /\ watcher' \in {"none", "subscribe", "watch", "push", "endErr", "end", "done"}
    BY <1>0, <1>4 DEF Refresh, TypeOK
  <2>. QED
    BY <1>0, <1>4, <2>1 DEF TypeOK
<1>5. CASE WatchEvent
  <2>1. pos + 1 \in Versions
    <3>1. pos \in Versions /\ pos < Len(writes)
      BY <1>0, <1>5 DEF WatchEvent, TypeOK
    <3>2. Versions = 0 .. MaxWrites /\ Len(writes) \in 0 .. MaxWrites /\ MaxWrites \in Nat
      BY <1>0, SeqTypes, SizeAssumption
    <3>. QED
      BY <3>1, <3>2
  <2>2. CASE writes[pos + 1] \in {Absent, writes[pos]}
    BY <1>0, <1>5, <2>1, <2>2, ZenonT(60) DEF WatchEvent, TypeOK
  <2>3. CASE writes[pos + 1] \notin {Absent, writes[pos]}
    BY <1>4, <1>5, <2>1, <2>3 DEF WatchEvent
  <2>. QED
    BY <2>2, <2>3
<1>6. CASE Poll
  <2>1. Len(writes) \in Versions /\ pos' \in Versions
    BY <1>0, <1>6, SeqTypes DEF Poll, TypeOK
  <2>. QED
    BY <1>4, <1>6, <2>1 DEF Poll
<1>7. CASE KeyCreated \/ SiblingCreated \/ CloseTwice
  BY <1>0, <1>7 DEF KeyCreated, SiblingCreated, CloseTwice, Panic, TypeOK
<1>8. CASE WatchEnds \/ TakeCancel
  BY <1>0, <1>8 DEF WatchEnds, TakeCancel, Return, TypeOK
<1>9. CASE Push
  <2>1. change \in Versions
    BY <1>0 DEF TypeOK
  <2>2. changes' \in Seq(Versions) /\ Len(changes') <= ChangesBufferSize
    BY <1>0, <1>9, <2>1, SeqTypes, AppendProperties, SizeAssumption DEF Push, Room
  <2>3. changes' \in BoundedSeq(Versions, ChangesBufferSize)
    BY <2>2, BoundedSeqDef, SizeAssumption
  <2>. QED
    BY <1>0, <1>9, <2>3 DEF Push, TypeOK
<1>10. CASE Drop \/ Report \/ CloseChannels
  BY <1>0, <1>10 DEF Drop, Report, CloseChannels, TypeOK
<1>11. CASE Receive
  <2>1. applying' \in Versions /\ changes' \in Seq(Versions) /\ Len(changes') <= ChangesBufferSize
    BY <1>0, <1>11, SeqTypes, HeadTailProperties, SizeAssumption DEF Receive
  <2>2. changes' \in BoundedSeq(Versions, ChangesBufferSize)
    BY <2>1, BoundedSeqDef, SizeAssumption
  <2>. QED
    BY <1>0, <1>11, <2>1, <2>2 DEF Receive, TypeOK
<1>12. CASE Apply \/ ReceiveNil
  <2>1. 0 \in Versions
    BY SizeAssumption DEF Versions
  <2>. QED
    BY <1>0, <1>12, <2>1 DEF Apply, ReceiveNil, TypeOK
<1>13. CASE UNCHANGED vars
  <2>1. UNCHANGED <<engine, writes, main, proc, watcher, pos, change>>
    BY <1>13 DEF vars
  <2>2. UNCHANGED <<cancelC, configer, unsent, container, changes, processor, applying>>
    BY <1>13 DEF vars
  <2>. QED
    BY <1>0, <2>1, <2>2, ZenonT(60) DEF TypeOK
<1>. QED
  BY <1>1, <1>2, <1>3, <1>5, <1>6, <1>7, <1>8, <1>9, <1>10, <1>11, <1>12, <1>13
     DEF Next, Watcher, Trouble, Processor

-----------------------------------------------------------------------------
(* What has begun, and what the watch has passed.                          *)

LEMMA BegunStep == Inv /\ [Next]_vars => Begun'
<1> SUFFICES ASSUME Inv, [Next]_vars PROVE Begun'
  OBVIOUS
<1>0. TypeOK /\ Begun /\ Current
  BY DEF Inv
<1> USE DEF source, process, watching, config, processing
<1>1. ASSUME UNCHANGED <<main, watcher, configer, processing, unsent, cancelC>> PROVE Begun'
  BY <1>0, <1>1 DEF Begun
<1>2. CASE (\E d \in Docs : Write(d)) \/ NewEngineFailed \/ CancelOnClosed \/ Exit \/ KeyCreated
           \/ SiblingCreated \/ CloseTwice \/ UNCHANGED vars
  BY <1>1, <1>2 DEF Write, NewEngineFailed, CancelOnClosed, Exit, KeyCreated, SiblingCreated,
                    CloseTwice, Panic, vars
<1>3. CASE NewEngine \/ LoadConfig \/ LoadConfigFailed \/ LoadEngine
  <2>1. CASE LoadConfig
    <3>1. Len(writes) # 0
      BY <1>0, SeqTypes DEF Current
    <3>. QED
      BY <1>0, <2>1, <3>1 DEF LoadConfig, MainAt, Begun
  <2>2. CASE NewEngine \/ LoadConfigFailed \/ LoadEngine
    BY <1>0, <2>2 DEF NewEngine, LoadConfigFailed, LoadEngine, MainAt, Begun
  <2>. QED
    BY <1>3, <2>1, <2>2
<1>4. CASE ServerStep("server", "run") \/ ServerStep("server", "cancel") \/ ServerEnds
  BY <1>0, <1>4 DEF ServerEnds, ServerStep, MainAt, Begun
<1>5. CASE Subscribe \/ WatchEnds \/ TakeCancel \/ Drop \/ CloseChannels
  BY <1>0, <1>5 DEF Subscribe, WatchEnds, TakeCancel, Drop, CloseChannels, Return, WatcherAt, Begun
<1>6. CASE WatchEvent \/ Poll
  <2>1. PICK v \in Nat \ {0} :
          Refresh(v) \/ UNCHANGED <<configer, change, watcher>>
    <3>1. pos + 1 \in Nat \ {0} /\ Len(writes) \in Nat \ {0}
      <4>1. pos \in Nat
        BY <1>0, SeqTypes DEF TypeOK
      <4>2. Len(writes) \in Nat /\ Len(writes) >= 1
        BY <1>0, SeqTypes DEF Current
      <4>. QED
        BY <4>1, <4>2
    <3>. QED
      BY <1>6, <3>1 DEF WatchEvent, Poll
  <2>2. watcher = "watch" /\ UNCHANGED <<main, processing, unsent, cancelC>>
    BY <1>6 DEF WatchEvent, Poll, WatcherAt
  <2>. QED
    BY <1>0, <2>1, <2>2 DEF Refresh, Begun
<1>7. CASE Push
  BY <1>0, <1>7 DEF Push, WatcherAt, Begun
<1>8. CASE Report
  BY <1>0, <1>8 DEF Report, WatcherAt, Begun
<1>9. CASE Receive
  <2>1. applying' # 0
    <3>1. applying' = changes[1] /\ 1 \in DOMAIN changes
      BY <1>0, <1>9, SeqTypes DEF Receive
    <3>2. container # 0
      BY <1>0, <1>9 DEF Receive, ProcessorAt, Begun
    <3>. QED
      BY <3>1, <3>2 DEF Inv, Line, Parsed
  <2>. QED
    BY <1>0, <1>9, <2>1 DEF Receive, ProcessorAt, Begun
<1>10. CASE Apply \/ ReceiveNil
  BY <1>0, <1>10 DEF Apply, ReceiveNil, ProcessorAt, Begun
<1>. QED
  BY <1>2, <1>3, <1>4, <1>5, <1>6, <1>7, <1>8, <1>9, <1>10
     DEF Next, Main, Watcher, Trouble, Processor

(* Writes are only appended, so what was parsed stays so.                  *)
LEMMA WritesGrow ==
  ASSUME Inv, [Next]_vars
  PROVE  /\ Len(writes') >= Len(writes) /\ Len(writes') \in Nat /\ Len(writes) \in Nat
         /\ \A v \in 1 .. Len(writes) : writes'[v] = writes[v]
         /\ \A v : Parsed(v) => Parsed(v)'
<1>0. writes \in Seq(Docs) /\ Len(writes) \in Nat
  BY SeqTypes DEF Inv
<1>1. writes' = writes \/ \E d \in Docs : writes' = Append(writes, d)
  BY DEF Next, Write, Main, NewEngine, NewEngineFailed, LoadConfig, LoadConfigFailed,
         LoadEngine, ServerStep, CancelOnClosed, ServerEnds, Exit, Panic, Watcher, Subscribe,
         WatchEvent, KeyCreated, Poll, Push, TakeCancel, Drop, Report, CloseChannels,
         CloseTwice, Trouble, SiblingCreated, WatchEnds, Processor, Receive, Apply,
         ReceiveNil, source, vars
<1>2. /\ Len(writes') >= Len(writes) /\ Len(writes') \in Nat
      /\ \A v \in 1 .. Len(writes) : writes'[v] = writes[v]
  BY <1>0, <1>1, AppendProperties
<1>. QED
  BY <1>0, <1>2 DEF Parsed

(* The version a refresh takes is newer than the configer, and parsed.     *)
LEMMA RefreshIsNewer ==
  ASSUME Inv, WatchEvent \/ Poll
  PROVE  /\ watcher = "watch"
         /\ UNCHANGED <<source, process, cancelC, unsent, processing>>
         /\ \/ UNCHANGED <<configer, change, watcher>>
            \/ /\ configer' > configer /\ Parsed(configer')
               /\ change' = configer' /\ watcher' = "push"
         /\ pos' <= Len(writes) /\ pos' \in Nat
         /\ engine = "etcd" => pos' >= 1 /\ configer' <= pos'
<1>0. /\ pos \in Nat /\ configer \in Nat /\ Len(writes) \in Nat
      /\ pos <= Len(writes) /\ Len(writes) >= 1
      /\ configer # 0 => Parsed(configer)
      /\ engine = "etcd" /\ watcher = "watch" => pos >= 1 /\ configer <= pos
  BY SeqTypes DEF Inv, TypeOK, Current
<1>1. watcher = "watch" /\ UNCHANGED <<source, process, cancelC, unsent, processing>>
  BY DEF WatchEvent, Poll, WatcherAt
<1>2. CASE WatchEvent
  <2>1. engine = "etcd" /\ pos' = pos + 1 /\ pos < Len(writes)
    BY <1>2 DEF WatchEvent
  <2>2. Refresh(pos + 1) \/ UNCHANGED <<configer, change, watcher>>
    BY <1>2 DEF WatchEvent
  <2>3. CASE UNCHANGED <<configer, change, watcher>>
    BY <1>0, <1>1, <2>1, <2>3
  <2>4. CASE /\ writes[pos + 1] \in Good /\ configer' = pos + 1 /\ change' = pos + 1
             /\ watcher' = "push"
    <3>1. Parsed(configer')
      BY <1>0, <2>1, <2>4 DEF Parsed
    <3>. QED
      BY <1>0, <1>1, <2>1, <2>4, <3>1
  <2>. QED
    BY <2>2, <2>3, <2>4 DEF Refresh
<1>3. CASE Poll
  <2>1. /\ engine = "file" /\ pos' = pos /\ writes[Len(writes)] # writes[configer]
        /\ Refresh(Len(writes))
    BY <1>3 DEF Poll, Newest
  <2>2. CASE UNCHANGED <<configer, change, watcher>>
    BY <1>0, <1>1, <2>1, <2>2
  <2>3. CASE /\ writes[Len(writes)] \in Good /\ configer' = Len(writes)
             /\ change' = Len(writes) /\ watcher' = "push"
    <3>1. Parsed(configer')
      BY <1>0, <2>3 DEF Parsed
    <3>2. configer <= Len(writes) /\ configer # Len(writes)
      BY <1>0, <2>1 DEF Parsed
    <3>. QED
      BY <1>0, <1>1, <2>1, <2>3, <3>1, <3>2
  <2>. QED
    BY <2>1, <2>2, <2>3 DEF Refresh
<1>. QED
  BY <1>2, <1>3

LEMMA CurrentStep == Inv /\ [Next]_vars => Current'
<1> SUFFICES ASSUME Inv, [Next]_vars PROVE Current'
  OBVIOUS
<1>0. /\ Begun /\ Current
      /\ pos \in Nat /\ configer \in Nat /\ Len(writes) \in Nat /\ Len(writes') \in Nat
      /\ Len(writes) >= 1 /\ Len(writes') >= Len(writes) /\ pos <= Len(writes)
      /\ \A v : Parsed(v) => Parsed(v)'
  BY SeqTypes, WritesGrow DEF Inv, TypeOK, Current
<1>1. ASSUME UNCHANGED <<engine, pos, configer>>,
             watcher' \in {"watch", "push"} => watcher \in {"watch", "push"}
      PROVE  Current'
  BY <1>0, <1>1 DEF Current
<1> USE DEF source, process, watching, config, processing
<1>2. CASE (\E d \in Docs : Write(d)) \/ NewEngineFailed \/ CancelOnClosed \/ Exit \/ KeyCreated
           \/ SiblingCreated \/ CloseTwice \/ UNCHANGED vars
  BY <1>1, <1>2 DEF Write, NewEngineFailed, CancelOnClosed, Exit, KeyCreated, SiblingCreated,
                    CloseTwice, Panic, vars
<1>3. CASE NewEngine \/ LoadConfigFailed \/ LoadEngine
  BY <1>1, <1>3 DEF NewEngine, LoadConfigFailed, LoadEngine
<1>4. CASE LoadConfig
  <2>1. configer' = Len(writes) /\ writes' = writes /\ pos' = pos /\ watcher' = "none"
    BY <1>0, <1>4 DEF LoadConfig, MainAt, Begun
  <2>2. Parsed(configer')
    BY <1>0, <1>4, <2>1 DEF LoadConfig, Newest, Parsed
  <2>3. Parsed(configer)'
    BY <2>1, <2>2 DEF Parsed
  <2>. QED
    BY <1>0, <2>1, <2>3 DEF Current
<1>5. CASE ServerStep("server", "run") \/ ServerStep("server", "cancel") \/ ServerEnds
  BY <1>1, <1>5 DEF ServerEnds, ServerStep
<1>6. CASE Subscribe
  <2>1. /\ configer' = configer /\ writes' = writes /\ engine' = engine
        /\ pos' \in Nat /\ pos' <= Len(writes) /\ (engine = "etcd" => pos' = Len(writes))
    BY <1>0, <1>6 DEF Subscribe
  <2>2. configer # 0 => Parsed(configer) /\ configer <= Len(writes)
    BY <1>0 DEF Current, Parsed
  <2>. QED
    BY <1>0, <2>1, <2>2 DEF Current
<1>7. CASE WatchEvent \/ Poll
  <2>1. /\ writes' = writes /\ engine' = engine /\ pos' <= Len(writes) /\ pos' \in Nat
        /\ engine = "etcd" => pos' >= 1 /\ configer' <= pos'
        /\ configer' = configer \/ Parsed(configer')
    BY <1>7, RefreshIsNewer
  <2>2. configer' # 0 => Parsed(configer')
    BY <1>0, <2>1 DEF Current
  <2>3. configer' # 0 => Parsed(configer)'
    BY <2>1, <2>2 DEF Parsed
  <2>. QED
    BY <1>0, <2>1, <2>3 DEF Current
<1>8. CASE WatchEnds \/ TakeCancel \/ CloseChannels
  BY <1>1, <1>8 DEF WatchEnds, TakeCancel, CloseChannels, Return
<1>9. CASE Push \/ Drop \/ Report \/ Receive \/ Apply \/ ReceiveNil
  BY <1>1, <1>9 DEF Push, Drop, Report, Receive, Apply, ReceiveNil, WatcherAt
<1>. QED
  BY <1>2, <1>3, <1>4, <1>5, <1>6, <1>7, <1>8, <1>9
     DEF Next, Main, Watcher, Trouble, Processor

-----------------------------------------------------------------------------
(* The line of versions on their way to the container.                     *)

LEMMA LineTypes ==
  ASSUME Inv, container # 0
  PROVE  /\ changes \in Seq(Versions) /\ Len(changes) \in Nat
         /\ DOMAIN changes = 1 .. Len(changes)
         /\ changes = <<>> <=> Len(changes) = 0
         /\ container \in Nat /\ applying \in Nat /\ configer \in Nat /\ change \in Nat
         /\ \A i \in DOMAIN changes : changes[i] \in Nat /\ changes[i] <= Tip
         /\ Base \in Nat /\ Tip \in Nat /\ Base <= Tip
<1>1. /\ changes \in Seq(Versions) /\ Len(changes) \in Nat
      /\ DOMAIN changes = 1 .. Len(changes)
      /\ changes = <<>> <=> Len(changes) = 0
  BY SeqTypes DEF Inv
<1>2. container \in Nat /\ applying \in Nat /\ configer \in Nat /\ change \in Nat
  BY SeqTypes DEF Inv, TypeOK
<1>3. \A i \in DOMAIN changes : changes[i] \in Versions
  BY <1>1, ElementOfSeq
<1>4. \A i \in DOMAIN changes : changes[i] \in Nat
  BY <1>3, SeqTypes DEF Inv
<1>5. Base \in Nat /\ Tip \in Nat
  BY <1>1, <1>2, <1>4 DEF Base, Tip
<1>6. /\ \A i \in DOMAIN changes : Base < changes[i]
      /\ \A i, j \in DOMAIN changes : i < j => changes[i] < changes[j]
  BY DEF Inv, Line
<1>7. Base <= Tip
  BY <1>1, <1>5, <1>6 DEF Tip
<1>8. ASSUME NEW i \in DOMAIN changes PROVE changes[i] <= Tip
  <2>1. Tip = changes[Len(changes)] /\ Len(changes) \in DOMAIN changes /\ i <= Len(changes)
    BY <1>1, <1>8 DEF Tip
  <2>2. CASE i = Len(changes)
    BY <1>4, <2>1, <2>2
  <2>3. CASE i < Len(changes)
    BY <1>4, <1>6, <2>1, <2>3
  <2>. QED
    BY <1>1, <2>1, <2>2, <2>3
<1>. QED
  BY <1>1, <1>2, <1>4, <1>5, <1>7, <1>8

(* A step that leaves the line where it is.                                *)
LEMMA LineFrame ==
  ASSUME Inv, [Next]_vars,
         UNCHANGED <<container, applying, changes, change, configer, unsent>>,
         watcher' = "push" <=> watcher = "push"
  PROVE  Line'
<1>1. \A v : Parsed(v) => Parsed(v)'
  BY WritesGrow
<1>2. Base' = Base /\ Tip' = Tip
  BY DEF Base, Tip
<1>. QED
  BY <1>1, <1>2 DEF Inv, Line

LEMMA PushKeepsLine ==
  ASSUME Inv, [Next]_vars, Push
  PROVE  Line'
<1>1. /\ container # 0 /\ watcher = "push" /\ watcher' = "watch" /\ ~unsent'
      /\ changes' = Append(changes, change)
      /\ UNCHANGED <<container, applying, configer, writes>>
  BY DEF Push, WatcherAt, Inv, Begun, source
<1>2. /\ change = configer /\ Tip < change /\ Parsed(container)
      /\ applying # 0 => Parsed(applying) /\ container < applying
      /\ \A i \in DOMAIN changes : Parsed(changes[i]) /\ Base < changes[i]
      /\ \A i, j \in DOMAIN changes : i < j => changes[i] < changes[j]
  BY <1>1 DEF Inv, Line
<1>3. change \in Versions /\ Parsed(change)
  BY <1>1, <1>2 DEF Inv, TypeOK, Current, Begun
<1>4. /\ Len(changes') = Len(changes) + 1 /\ DOMAIN changes' = 1 .. Len(changes) + 1
      /\ changes'[Len(changes) + 1] = change
      /\ \A i \in DOMAIN changes : changes'[i] = changes[i]
  BY <1>1, <1>3, LineTypes, AppendProperties, LenProperties
<1>5. \A v : Parsed(v)' <=> Parsed(v)
  BY <1>1 DEF Parsed
<1>6. Base' = Base /\ Tip' = change
  <2>1. changes' # <<>>
    BY <1>4, LineTypes, <1>1
  <2>. QED
    BY <1>1, <1>4, <2>1 DEF Base, Tip
<1>7. ASSUME NEW i \in DOMAIN changes' PROVE Parsed(changes'[i]) /\ Base < changes'[i]
  <2>1. i \in DOMAIN changes \/ i = Len(changes) + 1
    BY <1>1, <1>4, LineTypes
  <2>. QED
    BY <1>1, <1>2, <1>3, <1>4, <2>1, LineTypes
<1>8. ASSUME NEW i \in DOMAIN changes', NEW j \in DOMAIN changes', i < j
      PROVE  changes'[i] < changes'[j]
  <2>1. i \in DOMAIN changes /\ (j \in DOMAIN changes \/ j = Len(changes) + 1)
    BY <1>1, <1>4, <1>8, LineTypes
  <2>. QED
    BY <1>1, <1>2, <1>4, <1>8, <2>1, LineTypes
<1>. QED
  BY <1>1, <1>2, <1>5, <1>6, <1>7, <1>8 DEF Line

LEMMA ReceiveKeepsLine ==
  ASSUME Inv, [Next]_vars, Receive
  PROVE  Line'
<1>1. /\ changes # <<>> /\ applying' = changes[1] /\ changes' = Tail(changes)
      /\ applying = 0 /\ container # 0
      /\ UNCHANGED <<container, configer, change, unsent, watcher, writes>>
  BY DEF Receive, ProcessorAt, Inv, Begun, source, watching, config
<1>2. /\ Parsed(container)
      /\ \A i \in DOMAIN changes : Parsed(changes[i]) /\ container < changes[i]
      /\ \A i, j \in DOMAIN changes : i < j => changes[i] < changes[j]
      /\ IF watcher = "push" THEN change = configer /\ Tip < change
                             ELSE Tip = configer \/ (unsent /\ Tip < configer)
  BY <1>1 DEF Inv, Line, Base
<1>3. /\ Len(changes) \in Nat \ {0} /\ DOMAIN changes = 1 .. Len(changes)
      /\ Len(changes') = Len(changes) - 1 /\ DOMAIN changes' = 1 .. Len(changes) - 1
      /\ \A i \in DOMAIN changes' : i + 1 \in DOMAIN changes /\ changes'[i] = changes[i + 1]
  <2>1. Len(changes) \in Nat \ {0} /\ DOMAIN changes = 1 .. Len(changes)
    BY <1>1, LineTypes
  <2>2. /\ changes' \in Seq(Versions) /\ Len(changes') = Len(changes) - 1
        /\ \A i \in 1 .. Len(changes') : changes'[i] = changes[i + 1]
    BY <1>1, LineTypes, HeadTailProperties
  <2>3. DOMAIN changes' = 1 .. Len(changes')
    BY <2>2, LenProperties
  <2>. QED
    BY <2>1, <2>2, <2>3
<1>4. 1 \in DOMAIN changes /\ applying' # 0 /\ container < applying'
  BY <1>1, <1>2, <1>3, LineTypes
<1>5. \A v : Parsed(v)' <=> Parsed(v)
  BY <1>1 DEF Parsed
<1>6. Base' = changes[1]
  BY <1>1, <1>4 DEF Base
<1>7. Tip' = Tip
  <2>1. Tip = changes[Len(changes)]
    BY <1>1 DEF Tip
  <2>2. CASE Len(changes) = 1
    <3>1. changes' = <<>>
      BY <1>1, <1>3, <2>2, EmptySeq, LineTypes, HeadTailProperties
    <3>. QED
      BY <1>6, <2>1, <2>2, <3>1 DEF Tip
  <2>3. CASE Len(changes) > 1
    <3>1. Len(changes') \in DOMAIN changes' /\ changes' # <<>>
      BY <1>3, <2>3
    <3>2. changes'[Len(changes')] = changes[Len(changes)]
      BY <1>3, <3>1
    <3>. QED
      BY <2>1, <3>1, <3>2 DEF Tip
  <2>. QED
    BY <1>3, <2>2, <2>3
<1>8. ASSUME NEW i \in DOMAIN changes' PROVE Parsed(changes'[i]) /\ changes[1] < changes'[i]
  BY <1>2, <1>3, <1>4, <1>8
<1>9. ASSUME NEW i \in DOMAIN changes', NEW j \in DOMAIN changes', i < j
      PROVE  changes'[i] < changes'[j]
  BY <1>2, <1>3, <1>9
<1>. QED
  BY <1>1, <1>2, <1>4, <1>5, <1>6, <1>7, <1>8, <1>9 DEF Line

LEMMA ApplyKeepsLine ==
  ASSUME Inv, [Next]_vars, Apply
  PROVE  Line'
<1>1. /\ applying # 0 /\ container # 0 /\ container' = applying /\ applying' = 0
      /\ UNCHANGED <<changes, configer, change, unsent, watcher, writes>>
  BY DEF Apply, ProcessorAt, Inv, Begun, source, watching, config
<1>2. \A v : Parsed(v)' <=> Parsed(v)
  BY <1>1 DEF Parsed
<1>3. Base' = Base /\ Tip' = Tip
  BY <1>1 DEF Base, Tip
<1>. QED
  BY <1>1, <1>2, <1>3 DEF Inv, Line

LEMMA RefreshKeepsLine ==
  ASSUME Inv, [Next]_vars, WatchEvent \/ Poll
  PROVE  Line'
<1>1. CASE UNCHANGED <<configer, change, watcher>>
  BY <1>1, RefreshIsNewer, LineFrame DEF processing
<1>2. CASE ~UNCHANGED <<configer, change, watcher>>
  <2>1. /\ watcher = "watch" /\ watcher' = "push" /\ configer' > configer /\ change' = configer'
        /\ UNCHANGED <<container, applying, changes, unsent>>
        /\ container # 0
    BY <1>2, RefreshIsNewer DEF processing, Inv, Begun
  <2>2. Tip = configer \/ Tip < configer
    BY <2>1 DEF Inv, Line
  <2>3. configer \in Nat /\ Tip \in Nat /\ Parsed(configer')
    BY <1>2, <2>1, LineTypes, RefreshIsNewer
  <2>4. Base' = Base /\ Tip' = Tip
    BY <2>1 DEF Base, Tip
  <2>5. Tip < change'
    <3>1. configer' \in Nat
      BY <2>3, SeqTypes DEF Parsed, Inv
    <3>. QED
      BY <2>1, <2>2, <2>3, <3>1
  <2>6. \A v : Parsed(v) => Parsed(v)'
    BY WritesGrow
  <2>. QED
    BY <2>1, <2>4, <2>5, <2>6 DEF Inv, Line
<1>. QED
  BY <1>1, <1>2

LEMMA LineStep == Inv /\ [Next]_vars => Line'
<1> SUFFICES ASSUME Inv, [Next]_vars PROVE Line'
  OBVIOUS
<1>0. Begun /\ Line
  BY DEF Inv
<1> USE DEF source, process, watching, config, processing
<1>1. CASE (\E d \in Docs : Write(d)) \/ NewEngineFailed \/ CancelOnClosed \/ Exit \/ KeyCreated
           \/ SiblingCreated \/ CloseTwice \/ UNCHANGED vars
  BY <1>1, LineFrame DEF Write, NewEngineFailed, CancelOnClosed, Exit, KeyCreated,
                         SiblingCreated, CloseTwice, Panic, vars
<1>2. CASE NewEngine \/ LoadConfigFailed \/ ServerStep("server", "run")
           \/ ServerStep("server", "cancel") \/ ServerEnds
  BY <1>2, LineFrame DEF NewEngine, LoadConfigFailed, ServerEnds, ServerStep
<1>3. CASE LoadConfig
  BY <1>0, <1>3 DEF LoadConfig, MainAt, Begun, Line
<1>4. CASE LoadEngine
  <2>1. /\ container' = configer /\ configer' = configer /\ applying' = 0 /\ changes' = <<>>
        /\ watcher' = "subscribe" /\ configer # 0 /\ writes' = writes
    BY <1>0, <1>4 DEF LoadEngine, MainAt, Begun
  <2>2. Parsed(container)'
    BY <2>1 DEF Inv, Current, Parsed
  <2>3. Base' = configer /\ Tip' = configer
    BY <2>1 DEF Base, Tip
  <2>. QED
    BY <2>1, <2>2, <2>3 DEF Line
<1>5. CASE Subscribe \/ WatchEnds \/ Report \/ CloseChannels
  BY <1>5, LineFrame DEF Subscribe, WatchEnds, Report, CloseChannels, Return, WatcherAt
<1>6. CASE TakeCancel \/ Drop
  <2>1. /\ watcher = "push" /\ watcher' # "push" /\ unsent' /\ container # 0 /\ writes' = writes
        /\ UNCHANGED <<container, applying, changes, change, configer>>
    BY <1>0, <1>6 DEF TakeCancel, Drop, Return, WatcherAt, Begun
  <2>2. change = configer /\ Tip < change
    BY <1>0, <2>1 DEF Line
  <2>3. Base' = Base /\ Tip' = Tip
    BY <2>1 DEF Base, Tip
  <2>4. \A v : Parsed(v) => Parsed(v)'
    BY WritesGrow
  <2>. QED
    BY <1>0, <2>1, <2>2, <2>3, <2>4 DEF Line
<1>7. CASE ReceiveNil
  BY <1>7, LineFrame DEF ReceiveNil
<1>. QED
  BY <1>1, <1>2, <1>3, <1>4, <1>5, <1>6, <1>7, PushKeepsLine, ReceiveKeepsLine, ApplyKeepsLine,
     RefreshKeepsLine DEF Next, Main, Watcher, Trouble, Processor

LEMMA FileStep == Inv /\ [Next]_vars => FileChannels'
<1> SUFFICES ASSUME Inv, [Next]_vars PROVE FileChannels'
  OBVIOUS
<1>0. Begun /\ FileChannels
  BY DEF Inv
<1> USE DEF source, process, watching, config, processing
<1>1. ASSUME UNCHANGED <<engine, watcher, cancelC>>, main = "failed" => main' = "failed",
             proc' \notin {"close of closed channel", "send on closed channel"} \/ proc' = proc
      PROVE  FileChannels'
  BY <1>0, <1>1 DEF FileChannels, ChannelsSafe
<1>2. CASE (\E d \in Docs : Write(d)) \/ NewEngineFailed \/ Exit \/ KeyCreated
           \/ SiblingCreated \/ UNCHANGED vars
  BY <1>1, <1>2 DEF Write, NewEngineFailed, Exit, KeyCreated, SiblingCreated, Panic, vars
<1>3. CASE NewEngine \/ LoadConfig \/ LoadConfigFailed \/ ServerStep("server", "run")
           \/ ServerStep("server", "cancel") \/ ServerEnds
  BY <1>1, <1>3 DEF NewEngine, LoadConfig, LoadConfigFailed, ServerEnds, ServerStep, MainAt
<1>4. CASE CancelOnClosed \/ CloseTwice
  <2>1. engine' = engine /\ engine # "file"
    BY <1>0, <1>4 DEF CancelOnClosed, CloseTwice, Panic, MainAt, WatcherAt, FileChannels
  <2>. QED
    BY <2>1 DEF FileChannels
<1>5. CASE LoadEngine \/ Subscribe \/ Push \/ Drop
  <2>1. /\ UNCHANGED <<engine, cancelC, proc>> /\ watcher' \in {"subscribe", "watch"}
        /\ watcher # "done"
    BY <1>0, <1>5 DEF LoadEngine, Subscribe, Push, Drop, MainAt, WatcherAt, Begun
  <2>. QED
    BY <1>0, <2>1 DEF FileChannels, ChannelsSafe
<1>6. CASE WatchEvent \/ Poll
  <2>1. /\ UNCHANGED <<engine, cancelC, proc>> /\ watcher' \in {"watch", "push"}
        /\ watcher = "watch"
    BY <1>6, RefreshIsNewer
  <2>. QED
    BY <1>0, <2>1 DEF FileChannels, ChannelsSafe
<1>7. CASE WatchEnds \/ Report
  BY <1>0, <1>7 DEF WatchEnds, Report, WatcherAt, FileChannels
<1>8. CASE TakeCancel
  <2>1. /\ engine' = engine /\ proc' = proc /\ main' = "failed" /\ watcher = "push"
        /\ watcher' = "end" /\ (engine = "file" => cancelC' = cancelC)
    BY <1>8 DEF TakeCancel, Return, WatcherAt
  <2>. QED
    BY <1>0, <2>1 DEF FileChannels, ChannelsSafe
<1>9. CASE CloseChannels
  BY <1>0, <1>9 DEF CloseChannels, WatcherAt, FileChannels, ChannelsSafe
<1>10. CASE Processor
  BY <1>1, <1>10 DEF Processor, Receive, Apply, ReceiveNil
<1>. QED
  BY <1>2, <1>3, <1>4, <1>5, <1>6, <1>7, <1>8, <1>9, <1>10 DEF Next, Main, Watcher, Trouble

LEMMA InvStep == Inv /\ [Next]_vars => Inv'
BY TypeStep, BegunStep, CurrentStep, LineStep, FileStep DEF Inv

LEMMA InvHolds == Spec => []Inv
BY InitInv, InvStep, PTL DEF Spec

-----------------------------------------------------------------------------
(* The line as one sequence, as the runs check it.                         *)

(* A rising sequence of parsed versions above lo and not above hi.         *)
Chain(s, lo, hi) ==
  /\ s \in Seq(Nat) /\ lo <= hi
  /\ \A i \in 1 .. Len(s) : Parsed(s[i]) /\ lo < s[i] /\ s[i] <= hi
  /\ \A i, j \in 1 .. Len(s) : i < j => s[i] < s[j]

(* The part of the line at the processor and the part at the watcher.      *)
Taken  == IF applying # 0 THEN <<applying>> ELSE <<>>
Coming == IF watcher = "push" THEN <<change>> ELSE <<>>

LEMMA EmptyChain ==
  ASSUME NEW lo \in Nat, NEW hi \in Nat, lo <= hi
  PROVE  Chain(<<>>, lo, hi)
BY DEF Chain

LEMMA UnitChain ==
  ASSUME NEW v \in Nat, NEW lo \in Nat, Parsed(v), lo < v
  PROVE  Chain(<<v>>, lo, v)
<1>1. <<v>> \in Seq(Nat) /\ Len(<<v>>) = 1 /\ <<v>>[1] = v
  OBVIOUS
<1>. QED
  BY <1>1 DEF Chain

LEMMA JoinChain ==
  ASSUME NEW s, NEW t, NEW lo \in Nat, NEW mid \in Nat, NEW hi \in Nat,
         Chain(s, lo, mid), Chain(t, mid, hi)
  PROVE  Chain(s \o t, lo, hi)
<1>1. s \in Seq(Nat) /\ t \in Seq(Nat) /\ lo <= mid /\ mid <= hi
  BY DEF Chain
<1>2. Len(s) \in Nat /\ Len(t) \in Nat
  BY <1>1, LenProperties
<1>3. /\ s \o t \in Seq(Nat) /\ Len(s \o t) = Len(s) + Len(t)
      /\ \A i \in 1 .. Len(s) + Len(t) :
           (s \o t)[i] = IF i <= Len(s) THEN s[i] ELSE t[i - Len(s)]
  BY <1>1, ConcatProperties
<1>4. /\ \A i \in 1 .. Len(s) : s[i] \in Nat /\ Parsed(s[i]) /\ lo < s[i] /\ s[i] <= mid
      /\ \A i \in 1 .. Len(t) : t[i] \in Nat /\ Parsed(t[i]) /\ mid < t[i] /\ t[i] <= hi
  BY <1>1, ElementOfSeq DEF Chain
<1>5. ASSUME NEW i \in 1 .. Len(s \o t)
      PROVE  Parsed((s \o t)[i]) /\ lo < (s \o t)[i] /\ (s \o t)[i] <= hi
  <2>1. CASE i <= Len(s)
    <3>1. i \in 1 .. Len(s) /\ (s \o t)[i] = s[i]
      BY <1>2, <1>3, <2>1
    <3>. QED
      BY <1>1, <1>4, <3>1
  <2>2. CASE i > Len(s)
    <3>1. i - Len(s) \in 1 .. Len(t) /\ (s \o t)[i] = t[i - Len(s)]
      BY <1>2, <1>3, <2>2
    <3>. QED
      BY <1>1, <1>4, <3>1
  <2>. QED
    BY <1>2, <2>1, <2>2
<1>6. ASSUME NEW i \in 1 .. Len(s \o t), NEW j \in 1 .. Len(s \o t), i < j
      PROVE  (s \o t)[i] < (s \o t)[j]
  <2>1. CASE j <= Len(s)
    <3>1. i \in 1 .. Len(s) /\ j \in 1 .. Len(s) /\ (s \o t)[i] = s[i] /\ (s \o t)[j] = s[j]
      BY <1>2, <1>3, <1>6, <2>1
    <3>. QED
      BY <1>6, <3>1 DEF Chain
  <2>2. CASE i <= Len(s) /\ j > Len(s)
    <3>1. /\ i \in 1 .. Len(s) /\ j - Len(s) \in 1 .. Len(t)
          /\ (s \o t)[i] = s[i] /\ (s \o t)[j] = t[j - Len(s)]
      BY <1>2, <1>3, <2>2, SMTT(40)
    <3>. QED
      BY <1>4, <3>1
  <2>3. CASE i > Len(s)
    <3>1. /\ i - Len(s) \in 1 .. Len(t) /\ j - Len(s) \in 1 .. Len(t)
          /\ i - Len(s) < j - Len(s)
          /\ (s \o t)[i] = t[i - Len(s)] /\ (s \o t)[j] = t[j - Len(s)]
      BY <1>2, <1>3, <1>6, <2>3, SMTT(40)
    <3>. QED
      BY <3>1 DEF Chain
  <2>. QED
    BY <1>2, <2>1, <2>2, <2>3
<1>. QED
  BY <1>1, <1>3, <1>5, <1>6 DEF Chain

(* The last of two parts of a line.                                        *)
LEMMA JoinLast ==
  ASSUME NEW s \in Seq(Nat), NEW t \in Seq(Nat)
  PROVE  Last(s \o t) = IF t = <<>> THEN Last(s) ELSE Last(t)
<1>1. Len(s) \in Nat /\ Len(t) \in Nat /\ (t = <<>> <=> Len(t) = 0)
  BY LenProperties, EmptySeq
<1>2. /\ Len(s \o t) = Len(s) + Len(t)
      /\ \A i \in 1 .. Len(s) + Len(t) :
           (s \o t)[i] = IF i <= Len(s) THEN s[i] ELSE t[i - Len(s)]
  BY ConcatProperties
<1>3. CASE t = <<>>
  <2>1. s \o t = s
    BY <1>3, ConcatEmptySeq
  <2>. QED
    BY <1>3, <2>1
<1>4. CASE t # <<>>
  <2>1. Len(s) + Len(t) \in 1 .. Len(s) + Len(t) /\ ~(Len(s) + Len(t) <= Len(s))
    BY <1>1, <1>4
  <2>2. (s \o t)[Len(s) + Len(t)] = t[Len(t)]
    BY <1>1, <1>2, <2>1
  <2>. QED
    BY <1>2, <1>4, <2>2 DEF Last
<1>. QED
  BY <1>3, <1>4

LEMMA LineIsInFlight == Inv => InFlight
<1> SUFFICES ASSUME Inv, container # 0 PROVE InFlight
  BY DEF InFlight
<1>0. /\ container \in Nat \ {0} /\ applying \in Nat /\ change \in Nat /\ configer \in Nat
      /\ Base \in Nat /\ Tip \in Nat /\ Base <= Tip /\ container - 1 \in Nat
      /\ changes \in Seq(Versions) /\ Len(changes) \in Nat
      /\ \A i \in 1 .. Len(changes) : changes[i] \in Nat /\ changes[i] <= Tip
      /\ DOMAIN changes = 1 .. Len(changes)
  BY LineTypes
<1>1. /\ Parsed(container)
      /\ applying # 0 => Parsed(applying) /\ container < applying
      /\ \A i \in 1 .. Len(changes) : Parsed(changes[i]) /\ Base < changes[i]
      /\ \A i, j \in 1 .. Len(changes) : i < j => changes[i] < changes[j]
      /\ IF watcher = "push" THEN change = configer /\ Tip < change
                             ELSE Tip = configer \/ (unsent /\ Tip < configer)
  BY <1>0 DEF Inv, Line
<1>2. Chain(<<container>>, container - 1, container)
  BY <1>0, <1>1, UnitChain
<1>3. Chain(Taken, container, Base)
  BY <1>0, <1>1, UnitChain, EmptyChain DEF Taken, Base
<1>4. Chain(changes, Base, Tip)
  <2>1. changes \in Seq(Nat)
    BY <1>0, SeqTypes DEF Inv
  <2>. QED
    BY <1>0, <1>1, <2>1 DEF Chain
<1>5. Chain(Coming, Tip, configer) /\ Tip <= configer
  <2>1. CASE watcher = "push"
    <3>1. Coming = <<configer>> /\ Tip < configer
      BY <1>1, <2>1 DEF Coming
    <3>2. Parsed(configer)
      BY <1>0, <3>1 DEF Inv, Current
    <3>. QED
      BY <1>0, <3>1, <3>2, UnitChain
  <2>2. CASE watcher # "push"
    <3>1. Coming = <<>> /\ Tip <= configer
      BY <1>0, <1>1, <2>2 DEF Coming
    <3>. QED
      BY <1>0, <3>1, EmptyChain
  <2>. QED
    BY <2>1, <2>2
<1> DEFINE line == <<container>> \o Pending
<1>6. Pending = (Taken \o changes) \o Coming
  BY DEF Pending, Taken, Coming
<1>7. Chain(Pending, container, configer) /\ Chain(line, container - 1, configer)
  <2>1. Chain(Taken \o changes, container, Tip)
    BY <1>0, <1>3, <1>4, JoinChain
  <2>2. Chain(Pending, container, configer)
    BY <1>0, <1>5, <1>6, <2>1, JoinChain
  <2>. QED
    BY <1>0, <1>2, <2>2, JoinChain
<1>8. Last(line) = IF watcher = "push" THEN change ELSE Tip
  <2>1. <<container>> \in Seq(Nat) /\ Taken \in Seq(Nat) /\ changes \in Seq(Nat) /\ Coming \in Seq(Nat)
    BY <1>2, <1>3, <1>4, <1>5 DEF Chain
  <2>2. Taken \o changes \in Seq(Nat) /\ Pending \in Seq(Nat)
    BY <1>6, <1>7, <2>1, ConcatProperties
  <2>3. /\ Last(line) = IF Pending = <<>> THEN container ELSE Last(Pending)
        /\ Last(Pending) = IF Coming = <<>> THEN Last(Taken \o changes) ELSE Last(Coming)
        /\ Last(Taken \o changes) = IF changes = <<>> THEN Last(Taken) ELSE Last(changes)
    <3>1. Last(<<container>>) = container
      BY DEF Last
    <3>. QED
      BY <1>6, <2>1, <2>2, <3>1, JoinLast
  <2>4. Pending = <<>> <=> (Taken = <<>> /\ changes = <<>> /\ Coming = <<>>)
    <3>1. Len(Pending) = (Len(Taken) + Len(changes)) + Len(Coming)
      BY <1>6, <2>1, <2>2, ConcatProperties
    <3>2. /\ Len(Taken) \in Nat /\ Len(changes) \in Nat /\ Len(Coming) \in Nat
          /\ (Taken = <<>> <=> Len(Taken) = 0) /\ (changes = <<>> <=> Len(changes) = 0)
          /\ (Coming = <<>> <=> Len(Coming) = 0) /\ (Pending = <<>> <=> Len(Pending) = 0)
      BY <2>1, <2>2, LenProperties, EmptySeq
    <3>. QED
      BY <3>1, <3>2
  <2>5. CASE watcher = "push"
    <3>1. Coming = <<change>> /\ Coming # <<>> /\ Last(Coming) = change
      BY <2>5 DEF Coming, Last
    <3>. QED
      BY <2>3, <2>4, <2>5, <3>1
  <2>6. CASE watcher # "push" /\ changes # <<>>
    <3>1. Coming = <<>> /\ Last(changes) = Tip
      BY <2>6 DEF Coming, Last, Tip
    <3>. QED
      BY <2>3, <2>4, <2>6, <3>1
  <2>7. CASE watcher # "push" /\ changes = <<>>
    <3>1. Coming = <<>> /\ Tip = Base
      BY <2>7 DEF Coming, Tip
    <3>2. CASE applying # 0
      <4>1. Taken = <<applying>> /\ Taken # <<>> /\ Last(Taken) = applying /\ Base = applying
        BY <3>2 DEF Taken, Last, Base
      <4>. QED
        BY <2>3, <2>4, <2>7, <3>1, <4>1
    <3>3. CASE applying = 0
      <4>1. Taken = <<>> /\ Base = container
        BY <3>3 DEF Taken, Base
      <4>. QED
        BY <2>3, <2>4, <2>7, <3>1, <4>1
    <3>. QED
      BY <3>2, <3>3
  <2>. QED
    BY <2>5, <2>6, <2>7
<1>9. Last(line) = configer \/ (unsent /\ Last(line) < configer)
  BY <1>1, <1>8
<1>10. /\ \A i \in 1 .. Len(line) - 1 : line[i] < line[i + 1]
       /\ \A i \in 1 .. Len(line) : writes[line[i]] \in Good
  <2>1. line \in Seq(Nat) /\ Len(line) \in Nat
    BY <1>7, LenProperties DEF Chain
  <2>2. /\ \A i \in 1 .. Len(line) : Parsed(line[i])
        /\ \A i, j \in 1 .. Len(line) : i < j => line[i] < line[j]
    BY <1>7 DEF Chain
  <2>3. ASSUME NEW i \in 1 .. Len(line) - 1 PROVE line[i] < line[i + 1]
    <3>1. i \in 1 .. Len(line) /\ i + 1 \in 1 .. Len(line) /\ i < i + 1
      BY <2>1, <2>3
    <3>. QED
      BY <2>2, <3>1
  <2>. QED
    BY <2>2, <2>3 DEF Parsed
<1>. QED
  BY <1>9, <1>10 DEF InFlight

-----------------------------------------------------------------------------
(* Theorems.                                                               *)

(* While main, watcher and processor run at their own pace, the container  *)
(* runs on a version that was parsed, and the versions on their way to it  *)
(* - in the processor, in changesC, in the hands of Subscribe - are parsed *)
(* and newer one by one; the last of them is what GetConfiger returns      *)
(* unless Subscribe dropped it or was cancelled in its place.              *)
THEOREM NoReloadLost == Spec => []WatchInv
<1>1. Inv => WatchInv
  BY LineIsInFlight DEF Inv, WatchInv
<1>. QED
  BY InvHolds, <1>1, PTL

(* No order of starting, failing, cancelling and reloading makes a         *)
(* goroutine of a service with the file engine send on a closed channel or *)
(* close one twice: its Subscribe returns only when main has taken the     *)
(* way out.                                                                *)
THEOREM FileChannelsSafe == Spec => []ChannelsSafe
<1>1. Inv => ChannelsSafe
  BY DEF Inv, FileChannels, ChannelsSafe
<1>. QED
  BY InvHolds, <1>1, PTL

(* Once there is a configer, no write, refused document, missed event or   *)
(* failure of a goroutine makes it older or leaves it unparsed.            *)
THEOREM RefusedChangesNothing == Spec => KeepsGoodConfig
<1>1. ASSUME Inv, [Next]_vars, configer # 0
      PROVE  configer' >= configer /\ writes'[configer'] \in Good
  <2>1. Inv' /\ configer \in Nat /\ configer' \in Nat
    BY <1>1, InvStep, SeqTypes DEF Inv, TypeOK
  <2>2. configer' = configer \/ configer' > configer
    <3>1. CASE LoadConfig
      BY <1>1, <3>1 DEF LoadConfig, MainAt, Inv, Begun
    <3>2. CASE WatchEvent \/ Poll
      BY <1>1, <3>2, RefreshIsNewer
    <3>3. CASE ~(LoadConfig \/ WatchEvent \/ Poll)
      BY <1>1, <3>3
         DEF Next, Write, Main, NewEngine, NewEngineFailed, LoadConfigFailed, LoadEngine,
             ServerStep, CancelOnClosed, ServerEnds, Exit, Panic, Watcher, Subscribe,
             KeyCreated, Push, TakeCancel, Drop, Report, CloseChannels, CloseTwice, Trouble,
             SiblingCreated, WatchEnds, Processor, Receive, Apply, ReceiveNil, config, vars
    <3>. QED
      BY <3>1, <3>2, <3>3
  <2>3. configer' # 0 => writes'[configer'] \in Good
    BY <2>1 DEF Inv, Current, Parsed
  <2>. QED
    BY <1>1, <2>1, <2>2, <2>3
<1>2. Inv /\ [Next]_vars =>
        [configer # 0 => configer' >= configer /\ writes'[configer'] \in Good]_vars
  BY <1>1
<1>. QED
  BY InvHolds, <1>2, PTL DEF Spec, KeepsGoodConfig
=============================================================================
