----------------------------- MODULE ConfigWatch -----------------------------
(***************************************************************************)
(* Start of a service and reload of its configuration: the main goroutine  *)
(* of service.Run, the watcher goroutine that runs Engine.Subscribe, the   *)
(* processor goroutine that reloads the container, and the channels        *)
(* changesC, watcherCancelC and watcherErrorC between them, for the engine *)
(* of engine/etcd and that of engine/file.  The configuration is a key of  *)
(* etcd or a file that others write at any time.  A version is the index   *)
(* of a write; version 0 is no configuration at all.                       *)
(***************************************************************************)
EXTENDS Integers, Sequences, SequencesExt

(* A definition X_Y just before X is a variant of X with a mistake in it,  *)
(* used by no specification: README, "Mutants".                            *)

CONSTANTS
  Engines,            \* the engines that entry.EngineType may name
  Good,               \* documents that Jsoner.Init accepts
  Bad,                \* documents that it refuses
  Absent,             \* no key, no file
  ChangesBufferSize,  \* the capacity of changesC, 10 in the code
  MaxWrites           \* bound: writes to the configuration

ASSUME EnginesAssumption == Engines \subseteq {"etcd", "file"}
ASSUME DocsAssumption == Good \cap Bad = {} /\ Absent \notin Good \cup Bad
ASSUME SizeAssumption == ChangesBufferSize \in Nat /\ MaxWrites \in Nat \ {0}

VARIABLES
  engine,     \* the engine of this service
  writes,     \* the documents written so far, the last one is there now
  main,       \* the main goroutine
  watcher,    \* the goroutine of Subscribe
  pos,        \* etcd: the last write the watch has delivered
  change,     \* the version Subscribe is about to push
  configer,   \* ng.configer
  container,  \* the version the container runs on
  changes,    \* changesC
  cancelC,    \* watcherCancelC: "open" or "closed"
  processor,  \* the goroutine of processChange
  applying,   \* the version it has taken from changesC, 0 for none
  unsent,     \* history: the newest configer was not pushed into changesC
  proc        \* "up", "exited", or the panic that ended the process

source     == <<engine, writes>>
process    == <<main, proc>>
watching   == <<watcher, pos, change, cancelC>>
config     == <<configer, unsent>>
processing == <<container, changes, processor, applying>>
vars       == <<source, process, watching, config, processing>>

Docs     == Good \cup Bad \cup {Absent}
Newest   == writes[Len(writes)]
Versions == 0 .. MaxWrites

TypeOK ==
  /\ engine \in Engines
  /\ writes \in BoundedSeq(Docs, MaxWrites)
  /\ main \in {"new", "load", "init", "server", "run", "cancel", "failed", "returned"}
  /\ watcher \in {"none", "subscribe", "watch", "push", "endErr", "end", "done"}
  /\ pos \in Versions /\ change \in Versions
  /\ configer \in Versions /\ container \in Versions /\ applying \in Versions
  /\ changes \in BoundedSeq(Versions, ChangesBufferSize)
  /\ cancelC \in {"open", "closed"}
  /\ processor \in {"none", "select", "apply", "spin", "done"}
  /\ unsent \in BOOLEAN
  /\ proc \in {"up", "exited", "nil engine", "nil PrevKv", "close of closed channel",
               "send on closed channel"}

Init ==
  /\ engine \in Engines
  /\ \E d \in Docs : writes = <<d>>
  /\ main = "new" /\ watcher = "none" /\ processor = "none"
  /\ pos = 0 /\ change = 0 /\ configer = 0 /\ container = 0 /\ applying = 0
  /\ changes = <<>> /\ cancelC = "open" /\ unsent = FALSE /\ proc = "up"

-----------------------------------------------------------------------------
(* Where a goroutine is, as long as there is a process.                    *)
MainAt(m)      == proc = "up" /\ main = m
WatcherAt(w)   == proc = "up" /\ watcher = w
ProcessorAt(p) == proc = "up" /\ processor = p

(* Somebody writes the configuration, or deletes it.                       *)
Write(d) ==
  /\ proc = "up"
  /\ Len(writes) < MaxWrites
  /\ ~(d = Absent /\ Newest = Absent)
  /\ writes' = Append(writes, d)
  /\ UNCHANGED <<engine, process, watching, config, processing>>

Panic(why) ==
  /\ proc' = why
  /\ UNCHANGED <<source, main, watching, config, processing>>

-----------------------------------------------------------------------------
(* The main goroutine: Run, Init, loadEngine, initServer, RunServer.       *)

NewEngine ==
  /\ MainAt("new")
  /\ main' = "load"
  /\ UNCHANGED <<source, watching, config, proc, processing>>

(* The etcd client cannot be made: Init only logs the error and calls      *)
(* loadEngine with a nil engine.                                           *)
NewEngineFailed ==
  /\ MainAt("new")
  /\ engine = "etcd"
  /\ Panic("nil engine")

(* ng.Init: read the configuration and parse it.                           *)
LoadConfig ==
  /\ MainAt("load")
  /\ Newest \in Good
  /\ configer' = Len(writes)
  /\ main' = "init"
  /\ UNCHANGED <<source, watching, unsent, proc, processing>>

(* It cannot be read, is empty or is refused: Run returns the error.       *)
LoadConfigFailed ==
  /\ MainAt("load")
  /\ main' = "failed"
  /\ UNCHANGED <<source, watching, config, proc, processing>>

(* The rest of loadEngine: initialise the container, start the watcher and *)
(* the processor.                                                          *)
LoadEngine ==
  /\ MainAt("init")
  /\ container' = configer
  /\ watcher' = "subscribe" /\ processor' = "select" /\ main' = "server"
  /\ UNCHANGED <<source, pos, change, config, changes, cancelC, applying, proc>>

(* initServer or RunServer returns, with an error or without.              *)
ServerStep(from, to) ==
  /\ MainAt(from)
  /\ main' = to
  /\ UNCHANGED <<source, watching, config, proc, processing>>

(* watcherCancelC <- struct{}{} after Subscribe of the etcd engine closed  *)
(* the channel.                                                            *)
CancelOnClosed ==
  /\ MainAt("cancel")
  /\ cancelC = "closed"
  /\ Panic("send on closed channel")

(* Run has returned and the application's main returns.                    *)
Exit ==
  /\ \E m \in {"failed", "returned"} : MainAt(m)
  /\ Panic("exited")

Main ==
  \/ NewEngine \/ NewEngineFailed \/ LoadConfig \/ LoadConfigFailed \/ LoadEngine
  \/ ServerStep("server", "run") \/ ServerStep("server", "cancel") \/ CancelOnClosed

ServerEnds == ServerStep("run", "returned") \/ ServerStep("run", "cancel")

-----------------------------------------------------------------------------
(* The watcher goroutine.                                                  *)

(* The watch starts at the revision of now, the file at the next poll.     *)
Subscribe ==
  /\ WatcherAt("subscribe")
  /\ watcher' = "watch"
  /\ pos' = IF engine = "etcd" THEN Len(writes) ELSE 0
  /\ UNCHANGED <<source, process, change, config, cancelC, processing>>

(* refreshConfig of version v, an error of which leaves everything as it   *)
(* was; a new configer is to be pushed.                                    *)
Refresh_IgnoresError(v) ==
  /\ configer' = v /\ change' = v /\ watcher' = "push"
Refresh(v) ==
  \/ writes[v] \in Good /\ configer' = v /\ change' = v /\ watcher' = "push"
  \/ writes[v] \notin Good /\ UNCHANGED <<configer, change, watcher>>

(* A watch event.  It panics on a PUT that creates the key: no PrevKv.  A  *)
(* DELETE, and a PUT of the same value, change nothing.                    *)
WatchEvent ==
  /\ engine = "etcd"
  /\ WatcherAt("watch")
  /\ pos < Len(writes)
  /\ writes[pos] # Absent
  /\ pos' = pos + 1
  /\ IF writes[pos + 1] \in {Absent, writes[pos]}
       THEN UNCHANGED <<configer, change, watcher>>
       ELSE Refresh(pos + 1)
  /\ UNCHANGED <<source, process, cancelC, unsent, processing>>

KeyCreated ==
  /\ engine = "etcd"
  /\ WatcherAt("watch")
  /\ pos < Len(writes)
  /\ writes[pos] = Absent
  /\ Panic("nil PrevKv")

(* The watch is on a prefix: another key that begins with the path of the  *)
(* configuration is created.                                               *)
SiblingCreated ==
  /\ engine = "etcd"
  /\ WatcherAt("watch")
  /\ Panic("nil PrevKv")

(* The file is read every ten seconds.                                     *)
Poll ==
  /\ engine = "file"
  /\ WatcherAt("watch")
  /\ Newest \notin {Absent, writes[configer]}
  /\ Refresh(Len(writes))
  /\ UNCHANGED <<source, process, pos, cancelC, unsent, processing>>

(* Subscribe returns; that of the etcd engine closes its cancel channel.   *)
Return_AlwaysCloses(to) ==
  /\ watcher' = to
  /\ cancelC' = "closed"
Return(to) ==
  /\ watcher' = to
  /\ cancelC' = IF engine = "etcd" THEN "closed" ELSE cancelC

(* The watch of the etcd engine is cancelled or its channel closed (nil),  *)
(* or it fails.                                                            *)
WatchEnds ==
  /\ engine = "etcd"
  /\ WatcherAt("watch")
  /\ \E to \in {"end", "endErr"} : Return(to)
  /\ UNCHANGED <<source, process, pos, change, config, processing>>

(* There is room in changesC.                                              *)
Room == Len(changes) < ChangesBufferSize

(* select: push the change, ...                                            *)
Push ==
  /\ WatcherAt("push")
  /\ Room
  /\ changes' = Append(changes, change)
  /\ watcher' = "watch" /\ unsent' = FALSE
  /\ UNCHANGED <<source, process, pos, change, configer, container, cancelC,
                 processor, applying>>

(* ... or take the cancellation that the main goroutine is sending, ...    *)
TakeCancel ==
  /\ WatcherAt("push")
  /\ main = "cancel"
  /\ main' = "failed" /\ unsent' = TRUE
  /\ Return("end")
  /\ UNCHANGED <<source, pos, change, configer, proc, processing>>

(* ... or, neither being possible, drop the change.                        *)
Drop ==
  /\ WatcherAt("push")
  /\ ~Room
  /\ main # "cancel"
  /\ watcher' = "watch" /\ unsent' = TRUE
  /\ UNCHANGED <<source, process, pos, change, configer, cancelC, processing>>

(* watcherErrorC <- struct{}{}: the processor takes it and returns.        *)
Report ==
  /\ WatcherAt("endErr")
  /\ processor = "select"
  /\ watcher' = "end" /\ processor' = "done"
  /\ UNCHANGED <<source, process, pos, change, config, container, changes,
                 cancelC, applying>>

(* The deferred close(watcherCancelC) and close(changesC).                 *)
CloseChannels ==
  /\ WatcherAt("end")
  /\ cancelC = "open"
  /\ watcher' = "done" /\ cancelC' = "closed"
  /\ UNCHANGED <<source, process, pos, change, config, processing>>

CloseTwice ==
  /\ WatcherAt("end")
  /\ cancelC = "closed"
  /\ Panic("close of closed channel")

Watcher == \/ Subscribe \/ WatchEvent \/ KeyCreated \/ Poll
           \/ Push \/ TakeCancel \/ Drop \/ Report \/ CloseChannels \/ CloseTwice

Trouble == SiblingCreated \/ WatchEnds

-----------------------------------------------------------------------------
(* The processor goroutine.                                                *)

Receive_Newest ==
  /\ ProcessorAt("select")
  /\ changes # <<>>
  /\ applying' = Last(changes) /\ changes' = Front(changes)
  /\ processor' = "apply"
  /\ UNCHANGED <<source, process, watching, config, container>>
Receive ==
  /\ ProcessorAt("select")
  /\ changes # <<>>
  /\ applying' = Head(changes) /\ changes' = Tail(changes)
  /\ processor' = "apply"
  /\ UNCHANGED <<source, process, watching, config, container>>

(* processChange: container.Reload; ProcessChangeFn runs in a goroutine of  *)
(* its own, and a panic in it is recovered.                                *)
Apply_CallbackBlocks ==
  /\ ProcessorAt("apply")
  /\ container' = applying /\ applying' = 0
  /\ processor' = "spin"
  /\ UNCHANGED <<source, process, watching, config, changes>>
Apply ==
  /\ ProcessorAt("apply")
  /\ container' = applying /\ applying' = 0
  /\ processor' = "select"
  /\ UNCHANGED <<source, process, watching, config, changes>>

(* changesC is closed and empty: from now on every receive gives nil, an   *)
(* "unsupported event change" for which ProcessChangeFn(nil) is started.   *)
ReceiveNil ==
  /\ ProcessorAt("select")
  /\ watcher = "done"
  /\ changes = <<>>
  /\ processor' = "spin"
  /\ UNCHANGED <<source, process, watching, config, container, changes,
                 applying>>

Processor == Receive \/ Apply \/ ReceiveNil

-----------------------------------------------------------------------------
Next ==
  \/ \E d \in Docs : Write(d)
  \/ Main \/ ServerEnds \/ Exit \/ Watcher \/ Trouble \/ Processor

Spec == Init /\ [][Next]_vars

(* Every goroutine that can take a step takes one; neither a write, nor    *)
(* trouble, nor the end of the server ever has to happen.                  *)
Fairness ==
  /\ WF_vars(Main)
  /\ WF_vars(Watcher)
  /\ WF_vars(Processor)

FairSpec == Spec /\ Fairness

-----------------------------------------------------------------------------
(* Properties.                                                             *)

(* The versions on their way to the container, oldest first.               *)
Pending ==
  (IF applying # 0 THEN <<applying>> ELSE <<>>) \o changes
  \o (IF watcher = "push" THEN <<change>> ELSE <<>>)

(* The container runs on a version that was parsed, the versions on their  *)
(* way to it are newer, parsed and in the order they were written, and the *)
(* last of them is what GetConfiger returns, unless that one was dropped:  *)
(* no reload is lost, repeated or overtaken while the three goroutines run *)
(* at their own pace.                                                      *)
InFlight ==
  container # 0 =>
    LET line == <<container>> \o Pending IN
      /\ \A i \in 1 .. Len(line) - 1 : line[i] < line[i + 1]
      /\ \A i \in 1 .. Len(line) : writes[line[i]] \in Good
      /\ Last(line) = configer \/ (unsent /\ Last(line) < configer)

(* What the watch keeps while it delivers: the configurations on their     *)
(* way to the container are newer one by one, all of them can be used,     *)
(* and none is missing but what the full buffer dropped.                   *)
WatchInv == TypeOK /\ InFlight

(* A refused document leaves the process on the configuration it has: a    *)
(* configer, once there, is never older and never unparsed, whatever is    *)
(* written and in whatever state the goroutines are.                       *)
KeepsGoodConfig ==
  [][configer # 0 => configer' >= configer /\ writes'[configer'] \in Good]_vars

(* The container catches up with the configer, unless the processor was    *)
(* stopped or the change was dropped for a full changesC.                  *)
Converges ==
  []<>(proc # "up" \/ processor = "done" \/ unsent \/ container = configer)

(* With the file engine no order of starting, failing, cancelling and      *)
(* reloading makes a goroutine panic on a channel.                         *)
ChannelsSafe ==
  engine = "file" => proc \notin {"close of closed channel", "send on closed channel"}
=============================================================================
