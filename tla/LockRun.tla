------------------------------- MODULE LockRun -------------------------------
(***************************************************************************)
(* lock.Run of lock/redis/lock.go over the lock of RedisLock.  Every       *)
(* caller is one invocation of Run; New gives it a Locker of its own,      *)
(* which has the invocation's name.  The handler runs in a goroutine that  *)
(* Run does not stop when LockTimeout passes first.                        *)
(***************************************************************************)
EXTENDS RedisLock

ASSUME OwnLockerAssumption == Callers \subseteq Lockers

VARIABLES
  run,      \* where the invocation is
  handler,  \* the goroutine that runs the handler
  timer,    \* what is left of time.After(LockTimeout)
  overlap   \* history: the handlers that were running while this one was

runVars == <<run, handler, timer, overlap>>
allVars == <<vars, runVars>>

Outcomes == {"nil", "error", "exceeded"}

RunTypeOK ==
  /\ TypeOK
  /\ run \in [Callers -> {"new", "obtain", "select", "unlock"} \cup Outcomes]
  /\ handler \in [Callers -> {"none", "running", "done"}]
  /\ timer \in [Callers -> 0 .. LockTimeout]
  /\ overlap \in [Callers -> SUBSET Callers]

RunInit ==
  /\ Init
  /\ run = [r \in Callers |-> "new"]
  /\ handler = [r \in Callers |-> "none"]
  /\ timer = [r \in Callers |-> 0]
  /\ overlap = [r \in Callers |-> {}]

Running == {r \in Callers : handler[r] = "running"}

(* Obtain calls Lock, which takes no context: the ctx of Run cancels nothing. *)
RunObtain(r) ==
  /\ run[r] = "new"
  /\ Begin(r, "lock", r)
  /\ run' = [run EXCEPT ![r] = "obtain"]
  /\ UNCHANGED <<handler, timer, overlap>>

(* Obtain failed: Run returns its error and the handler never runs.        *)
ObtainFailed(r) ==
  /\ run[r] = "obtain"
  /\ call[r] = Idle
  /\ result[r] # "true"
  /\ run' = [run EXCEPT ![r] = "error"]
  /\ UNCHANGED <<vars, handler, timer, overlap>>

(* Obtain succeeded: start the handler, then wait for it or for the timer. *)
StartHandler(r) ==
  /\ run[r] = "obtain"
  /\ call[r] = Idle
  /\ result[r] = "true"
  /\ run' = [run EXCEPT ![r] = "select"]
  /\ handler' = [handler EXCEPT ![r] = "running"]
  /\ timer' = [timer EXCEPT ![r] = LockTimeout]
  /\ overlap' = [s \in Callers |-> overlap[s] \cup
       (IF s = r THEN Running ELSE IF s \in Running THEN {r} ELSE {})]
  /\ UNCHANGED vars

(* The handler returns and closes sem.                                     *)
HandlerReturns(r) ==
  /\ handler[r] = "running"
  /\ handler' = [handler EXCEPT ![r] = "done"]
  /\ UNCHANGED <<vars, run, timer, overlap>>

SelectDone(r) ==
  /\ run[r] = "select"
  /\ handler[r] = "done"
  /\ Begin(r, "unlock", r)
  /\ run' = [run EXCEPT ![r] = "unlock"]
  /\ UNCHANGED <<handler, timer, overlap>>

SelectTimeout_AfterHandler(r) ==
  /\ run[r] = "select"
  /\ timer[r] = 0 /\ handler[r] = "done"
  /\ run' = [run EXCEPT ![r] = "exceeded"]
  /\ UNCHANGED <<vars, handler, timer, overlap>>
SelectTimeout(r) ==
  /\ run[r] = "select"
  /\ timer[r] = 0
  /\ run' = [run EXCEPT ![r] = "exceeded"]
  /\ UNCHANGED <<vars, handler, timer, overlap>>

UnlockReturned_IgnoresError(r) ==
  /\ run[r] = "unlock"
  /\ call[r] = Idle
  /\ run' = [run EXCEPT ![r] = "nil"]
  /\ UNCHANGED <<vars, handler, timer, overlap>>
UnlockReturned(r) ==
  /\ run[r] = "unlock"
  /\ call[r] = Idle
  /\ run' = [run EXCEPT ![r] = result[r]]
  /\ UNCHANGED <<vars, handler, timer, overlap>>

(* A millisecond passes for the key and for every timer.                   *)
RunTick ==
  /\ ttl > 0 \/ \E r \in Callers : timer[r] > 0
  /\ Tick \/ (ttl = 0 /\ UNCHANGED vars)
  /\ timer' = [r \in Callers |-> IF timer[r] > 0 THEN timer[r] - 1 ELSE 0]
  /\ UNCHANGED <<run, handler, overlap>>

RunStep(r) == RunObtain(r) \/ ObtainFailed(r) \/ StartHandler(r) \/ SelectDone(r)
              \/ SelectTimeout(r) \/ UnlockReturned(r)

LockCall(l) == (Network(l) \/ Proceed(l)) /\ UNCHANGED runVars

RunNext ==
  \/ \E r \in Callers : RunStep(r) \/ HandlerReturns(r)
  \/ (\E r \in Callers : Enter(r)) /\ UNCHANGED runVars
  \/ \E l \in Lockers : LockCall(l)
  \/ (\E d \in late : ExecuteLate(d)) /\ UNCHANGED runVars
  \/ RunTick

RunSpec == RunInit /\ [][RunNext]_allVars

(* The goroutine of Run runs; sync.Mutex serves a goroutine that starves;  *)
(* the client library answers every command, with an error once its        *)
(* timeout has passed; timers fire and time goes on.  Nothing is assumed   *)
(* of the handler, which may never return, nor of commands given up on.    *)
RunFairness ==
  /\ \A r \in Callers : WF_allVars(RunStep(r))
  /\ \A r \in Callers : SF_allVars(Enter(r) /\ UNCHANGED runVars)
  /\ \A l \in Lockers : /\ WF_allVars(Network(l) /\ UNCHANGED runVars)
                        /\ WF_allVars(Proceed(l) /\ UNCHANGED runVars)
  /\ WF_allVars(RunTick)

FairRunSpec == RunSpec /\ RunFairness

-----------------------------------------------------------------------------
(* Two invocations of Run that both returned nil never had their handlers  *)
(* running at the same time: nil means "ran alone among those who know",   *)
(* although keys expire under running handlers and commands arrive late.   *)
NilMeansExclusive ==
  \A r, s \in Callers : r # s /\ run[r] = "nil" /\ run[s] = "nil" => s \notin overlap[r]

(* What lock.Run promises in every state: its state is well formed, and    *)
(* two calls that answered nil have excluded each other.                   *)
RunInv == RunTypeOK /\ NilMeansExclusive

(* Run returns even when the handler never does.                           *)
RunReturns == \A r \in Callers : run[r] = "obtain" ~> run[r] \in Outcomes
=============================================================================
