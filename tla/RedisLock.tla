------------------------------ MODULE RedisLock ------------------------------
(***************************************************************************)
(* The distributed lock of lock/redis/lock.go: several Lockers, each with  *)
(* a mutex and the token it believes it holds, compete for one Redis key.  *)
(* Callers are the goroutines that call Lock, LockWithContext, Unlock and  *)
(* IsLocked.  Redis executes one command at a time; the command of a       *)
(* caller may be lost, may be executed and its reply lost, or may be       *)
(* executed after the caller has given up on it.  One unit of time is one  *)
(* millisecond, the resolution of the key's expiry.                        *)
(***************************************************************************)
EXTENDS Integers, FiniteSets

(* A definition X_Y just before X is a variant of X with a mistake in it,  *)
(* used by no specification: README, "Mutants".                            *)

CONSTANTS
  Callers,          \* goroutines
  Lockers,          \* *Locker values created by New on the same key
  Token,            \* the random tokens
  None,             \* the empty token, the absent key, the free mutex
  OptLockTimeout,   \* Options.LockTimeout as given by the application, in ms
  OptRetryCount,    \* Options.RetryCount as given by the application
  MaxLate           \* bound: commands in the network that nobody waits for

ASSUME OptionsAssumption == OptLockTimeout \in Int /\ OptRetryCount \in Int
ASSUME BoundAssumption == MaxLate \in Nat
ASSUME NoneAssumption == None \notin Token \cup Callers \cup Lockers

(* Options.normalize *)
LockTimeout == IF OptLockTimeout < 1 THEN 5000 ELSE OptLockTimeout
RetryCount  == IF OptRetryCount < 0 THEN 0 ELSE OptRetryCount

VARIABLES
  store,     \* the value of the Redis key, None when it does not exist
  ttl,       \* what is left of its expiry
  token,     \* Locker.token
  mutex,     \* Locker.mutex: the caller that holds it
  step,      \* what the call that holds the mutex is doing
  cand,      \* the local variable token of create()
  attempts,  \* the local variable attempts of create()
  reply,     \* Redis' answer to the outstanding command of the call
  call,      \* per caller: the operation it is in
  late,      \* commands whose caller has given up but Redis may yet execute
  result,    \* per caller: what its last call returned
  lapsed,    \* history: the key of the locker's token existed and expired
  sent       \* history: SetNX commands sent by the current Lock call

redis == <<store, ttl>>
locker == <<token, mutex, step, cand, attempts, reply>>
vars == <<store, ttl, token, mutex, step, cand, attempts, reply, call, late,
          result, lapsed, sent>>

Maybe(S) == S \cup {None}
Steps    == {"free", "refresh", "obtain", "sleep", "release"}
Commands == [cmd : {"refresh", "obtain", "release"}, token : Maybe(Token)]
Calls    == [op : {"none", "lock", "lockCtx", "unlock", "isLocked"},
             on : Maybe(Lockers)]
Results  == {"none", "true", "false", "error", "nil"}
Idle     == [op |-> "none", on |-> None]

TypeOK ==
  /\ store \in Maybe(Token)
  /\ ttl \in 0 .. LockTimeout
  /\ token \in [Lockers -> Maybe(Token)]
  /\ mutex \in [Lockers -> Maybe(Callers)]
  /\ step \in [Lockers -> Steps]
  /\ cand \in [Lockers -> Maybe(Token)]
  /\ attempts \in [Lockers -> 0 .. RetryCount + 1]
  /\ reply \in [Lockers -> {"none", "yes", "no", "error"}]
  /\ call \in [Callers -> Calls]
  /\ late \subseteq Commands
  /\ result \in [Callers -> Results]
  /\ lapsed \in [Lockers -> BOOLEAN]
  /\ sent \in [Lockers -> 0 .. RetryCount + 1]

Init ==
  /\ store = None
  /\ ttl = 0
  /\ token = [l \in Lockers |-> None]
  /\ mutex = [l \in Lockers |-> None]
  /\ step = [l \in Lockers |-> "free"]
  /\ cand = [l \in Lockers |-> None]
  /\ attempts = [l \in Lockers |-> 0]
  /\ reply = [l \in Lockers |-> "none"]
  /\ call = [c \in Callers |-> Idle]
  /\ late = {}
  /\ result = [c \in Callers |-> "none"]
  /\ lapsed = [l \in Lockers |-> FALSE]
  /\ sent = [l \in Lockers |-> 0]

-----------------------------------------------------------------------------
(* What the steps of a call have in common.                                *)

(* The tokens the locker l knows.                                          *)
Claims(l) == {token[l], cand[l]} \ {None}

(* The tokens some part of the system still knows.  Random tokens never    *)
(* repeat; a token nobody knows any more can stand for a new one.          *)
Known == {store} \cup {d.token : d \in late} \cup UNION {Claims(l) : l \in Lockers}

(* A new token: randomToken after the token prefix.                        *)
Fresh_PrefixOnly == Token
Fresh == Token \ Known

(* The call that holds the mutex of l returns r, leaving the token of the  *)
(* locker at t; its local variables go and the mutex is unlocked.          *)
Return(l, t, r) ==
  /\ token' = [token EXCEPT ![l] = t]
  /\ call' = [call EXCEPT ![mutex[l]] = Idle]
  /\ result' = [result EXCEPT ![mutex[l]] = r]
  /\ mutex' = [mutex EXCEPT ![l] = None]
  /\ step' = [step EXCEPT ![l] = "free"]
  /\ reply' = [reply EXCEPT ![l] = "none"]
  /\ cand' = [cand EXCEPT ![l] = None]
  /\ attempts' = [attempts EXCEPT ![l] = 0]
  /\ lapsed' = [lapsed EXCEPT ![l] = @ /\ t # None]
  /\ sent' = [sent EXCEPT ![l] = 0]
  /\ UNCHANGED <<redis, late>>

(* The call on l goes on to send a command and wait for Redis.             *)
Await(l, s) ==
  /\ step' = [step EXCEPT ![l] = s]
  /\ reply' = [reply EXCEPT ![l] = "none"]

(* The value create() starts attempts from.                                *)
Attempts_OffByOne == RetryCount
Attempts == RetryCount + 1

(* create(): forget the old token, draw a new one, try to obtain.          *)
Create(c, l) ==
  /\ token' = [token EXCEPT ![l] = None]
  /\ \E t \in Fresh : cand' = [cand EXCEPT ![l] = t]
  /\ attempts' = [attempts EXCEPT ![l] = Attempts]
  /\ mutex' = [mutex EXCEPT ![l] = c]
  /\ Await(l, "obtain")
  /\ lapsed' = [lapsed EXCEPT ![l] = FALSE]
  /\ sent' = [sent EXCEPT ![l] = 1]
  /\ UNCHANGED <<redis, call, late, result>>

-----------------------------------------------------------------------------
(* The application's calls.                                                *)

Begin(c, op, l) ==
  /\ call[c] = Idle
  /\ call' = [call EXCEPT ![c] = [op |-> op, on |-> l]]
  /\ result' = [result EXCEPT ![c] = "none"]
  /\ UNCHANGED <<redis, locker, late, lapsed, sent>>

Waiting(c, l) == call[c].on = l /\ mutex[l] = None

(* LockWithContext with a token: refresh it.                               *)
EnterRefresh(c, l) ==
  /\ Waiting(c, l)
  /\ call[c].op \in {"lock", "lockCtx"}
  /\ token[l] # None
  /\ mutex' = [mutex EXCEPT ![l] = c]
  /\ Await(l, "refresh")
  /\ UNCHANGED <<redis, token, cand, attempts, call, late, result, lapsed, sent>>

(* LockWithContext without a token: create one.                            *)
EnterCreate(c, l) ==
  /\ Waiting(c, l)
  /\ call[c].op \in {"lock", "lockCtx"}
  /\ token[l] = None
  /\ Create(c, l)

(* rand.Read fails: create() has reset the token and returns the error.    *)
EnterNoRandom(c, l) ==
  /\ Waiting(c, l)
  /\ call[c].op \in {"lock", "lockCtx"}
  /\ token[l] = None
  /\ call' = [call EXCEPT ![c] = Idle]
  /\ result' = [result EXCEPT ![c] = "error"]
  /\ UNCHANGED <<redis, locker, late, lapsed, sent>>

EnterUnlock(c, l) ==
  /\ Waiting(c, l)
  /\ call[c].op = "unlock"
  /\ mutex' = [mutex EXCEPT ![l] = c]
  /\ Await(l, "release")
  /\ UNCHANGED <<redis, token, cand, attempts, call, late, result, lapsed, sent>>

(* IsLocked takes the mutex, reads the token and lets the mutex go.        *)
IsLocked(c, l) ==
  /\ Waiting(c, l)
  /\ call[c].op = "isLocked"
  /\ call' = [call EXCEPT ![c] = Idle]
  /\ result' = [result EXCEPT ![c] = IF token[l] # None THEN "true" ELSE "false"]
  /\ UNCHANGED <<redis, locker, late, lapsed, sent>>

-----------------------------------------------------------------------------
(* Redis.  A command is a SetNX or one of the two scripts with a token.    *)

CommandOf(l) == [cmd |-> step[l],
                 token |-> IF step[l] = "obtain" THEN cand[l] ELSE token[l]]

(* luaRefresh and luaRelease touch the key only when it holds the token.   *)
Matches_Any(d) == store # None
Matches(d) == store # None /\ store = d.token

Accepts(d) == IF d.cmd = "obtain" THEN store = None ELSE Matches(d)

Effect_NoExpiry(d) ==
  \/ ~Accepts(d) /\ UNCHANGED redis
  \/ Accepts(d) /\ d.cmd = "obtain"  /\ store' = d.token /\ ttl' = 0
  \/ Accepts(d) /\ d.cmd = "refresh" /\ store' = store /\ ttl' = LockTimeout
  \/ Accepts(d) /\ d.cmd = "release" /\ store' = None /\ ttl' = 0
Effect(d) ==
  \/ ~Accepts(d) /\ UNCHANGED redis
  \/ Accepts(d) /\ d.cmd = "obtain"  /\ store' = d.token /\ ttl' = LockTimeout
  \/ Accepts(d) /\ d.cmd = "refresh" /\ store' = store /\ ttl' = LockTimeout
  \/ Accepts(d) /\ d.cmd = "release" /\ store' = None /\ ttl' = 0

(* Redis executes the command the call on l waits for.                     *)
Execute(l) ==
  /\ step[l] \in {"refresh", "obtain", "release"}
  /\ reply[l] = "none"
  /\ Effect(CommandOf(l))
  /\ reply' = [reply EXCEPT ![l] = IF Accepts(CommandOf(l)) THEN "yes" ELSE "no"]
  /\ UNCHANGED <<token, mutex, step, cand, attempts, call, late, result, lapsed, sent>>

(* The command or its reply is lost and the client sees an error.          *)
Lose(l) ==
  /\ step[l] \in {"refresh", "obtain", "release"}
  /\ reply[l] # "error"
  /\ reply' = [reply EXCEPT ![l] = "error"]
  /\ UNCHANGED <<redis, token, mutex, step, cand, attempts, call, late, result,
                 lapsed, sent>>

(* The client gives up on a command that Redis will still receive.         *)
GiveUp(l) ==
  /\ step[l] \in {"refresh", "obtain", "release"}
  /\ reply[l] = "none"
  /\ Cardinality(late) < MaxLate
  /\ reply' = [reply EXCEPT ![l] = "error"]
  /\ late' = late \cup {CommandOf(l)}
  /\ UNCHANGED <<redis, token, mutex, step, cand, attempts, call, result,
                 lapsed, sent>>

ExecuteLate(d) ==
  /\ d \in late
  /\ Effect(d)
  /\ late' = late \ {d}
  /\ UNCHANGED <<locker, call, result, lapsed, sent>>

(* A millisecond passes; at the end of its expiry the key disappears.      *)
Tick ==
  /\ ttl > 0
  /\ ttl' = ttl - 1
  /\ store' = IF ttl = 1 THEN None ELSE store
  /\ lapsed' = [l \in Lockers |-> lapsed[l] \/ (ttl = 1 /\ store \in Claims(l))]
  /\ UNCHANGED <<locker, call, late, result, sent>>

-----------------------------------------------------------------------------
(* The call on l reads the reply.                                          *)

(* refresh(): on an error the token is kept, on a 1 the lock is ours, on a *)
(* 0 the key is no longer ours and create() starts over.                   *)
RefreshDone(l) ==
  /\ step[l] = "refresh"
  /\ reply[l] \in {"yes", "error"}
  /\ Return(l, token[l], IF reply[l] = "yes" THEN "true" ELSE "error")

RefreshLost(l) ==
  /\ step[l] = "refresh"
  /\ reply[l] = "no"
  /\ Create(mutex[l], l)

RefreshLostNoRandom(l) ==
  /\ step[l] = "refresh"
  /\ reply[l] = "no"
  /\ Return(l, None, "error")

(* create(): SetNX succeeded.                                              *)
Obtained_ErrorOnly(l) ==
  /\ step[l] = "obtain"
  /\ reply[l] \in {"yes", "no"}
  /\ Return(l, cand[l], "true")
Obtained(l) ==
  /\ step[l] = "obtain"
  /\ reply[l] = "yes"
  /\ Return(l, cand[l], "true")

(* create(): SetNX failed with an error.                                   *)
ObtainError(l) ==
  /\ step[l] = "obtain"
  /\ reply[l] = "error"
  /\ Return(l, None, "error")

(* create(): the key is taken and attempts-- leaves no attempt.            *)
ObtainRefused(l) ==
  /\ step[l] = "obtain"
  /\ reply[l] = "no"
  /\ attempts[l] - 1 <= 0
  /\ Return(l, None, "false")

(* create(): the key is taken; wait before the next attempt.               *)
Backoff_OffByOne(l) ==
  /\ step[l] = "obtain"
  /\ reply[l] = "no"
  /\ attempts[l] > 0
  /\ attempts' = [attempts EXCEPT ![l] = @ - 1]
  /\ Await(l, "sleep")
  /\ UNCHANGED <<redis, token, mutex, cand, call, late, result, lapsed, sent>>
Backoff(l) ==
  /\ step[l] = "obtain"
  /\ reply[l] = "no"
  /\ attempts[l] - 1 > 0
  /\ attempts' = [attempts EXCEPT ![l] = @ - 1]
  /\ Await(l, "sleep")
  /\ UNCHANGED <<redis, token, mutex, cand, call, late, result, lapsed, sent>>

(* retryDelay.C fires first.                                               *)
Retry(l) ==
  /\ step[l] = "sleep"
  /\ Await(l, "obtain")
  /\ sent' = [sent EXCEPT ![l] = @ + 1]
  /\ UNCHANGED <<redis, token, mutex, cand, attempts, call, late, result, lapsed>>

(* ctx.Done() fires first; Lock passes a context that is never done.       *)
Cancel(l) ==
  /\ step[l] = "sleep"
  /\ call[mutex[l]].op = "lockCtx"
  /\ Return(l, None, "error")

(* release(): whatever the reply, the deferred reset forgets the token.    *)
Released_ResetOnSuccess(l) ==
  /\ step[l] = "release"
  /\ reply[l] # "none"
  /\ Return(l, IF reply[l] = "yes" THEN None ELSE token[l],
               IF reply[l] = "yes" THEN "nil" ELSE "error")
Released(l) ==
  /\ step[l] = "release"
  /\ reply[l] # "none"
  /\ Return(l, None, IF reply[l] = "yes" THEN "nil" ELSE "error")

-----------------------------------------------------------------------------
Application ==
  \E c \in Callers, l \in Lockers, op \in {"lock", "lockCtx", "unlock", "isLocked"} :
    Begin(c, op, l)

Enter(c) ==
  \E l \in Lockers : \/ EnterRefresh(c, l) \/ EnterCreate(c, l)
                     \/ EnterNoRandom(c, l) \/ EnterUnlock(c, l) \/ IsLocked(c, l)

Network(l) == Execute(l) \/ Lose(l) \/ GiveUp(l)

Proceed(l) ==
  \/ RefreshDone(l) \/ RefreshLost(l) \/ RefreshLostNoRandom(l)
  \/ Obtained(l) \/ ObtainError(l) \/ ObtainRefused(l)
  \/ Backoff(l) \/ Retry(l) \/ Cancel(l) \/ Released(l)

LockNext ==
  \/ \E c \in Callers : Enter(c)
  \/ \E l \in Lockers : Network(l) \/ Proceed(l)
  \/ \E d \in late : ExecuteLate(d)
  \/ Tick

Next == Application \/ LockNext

Spec == Init /\ [][Next]_vars

-----------------------------------------------------------------------------
(* Properties.                                                             *)

Holds(l)  == token[l] # None /\ store = token[l]

(* Two lockers never know the same token, not even while one is obtaining  *)
(* the lock: what keeps refresh() and release() of one locker, and their   *)
(* delayed commands, away from the key of another.                         *)
ExclusiveTokens ==
  \A l, m \in Lockers : l # m => Claims(l) \cap Claims(m) = {}

(* Who is in the call on l, and what the local variables of it are.        *)
InCall(l) ==
  /\ (mutex[l] = None) <=> (step[l] = "free")
  /\ mutex[l] # None =>
       /\ call[mutex[l]].on = l
       /\ call[mutex[l]].op \in IF step[l] = "release" THEN {"unlock"}
                                                       ELSE {"lock", "lockCtx"}
  /\ (cand[l] # None) <=> (step[l] \in {"obtain", "sleep"})
  /\ cand[l] # None => token[l] = None
  /\ step[l] = "refresh" => token[l] # None

(* Only the call that sent a delayed SetNX or release can still know its   *)
(* token, and it is about to forget it.                                    *)
LateForgotten(l) ==
  \A d \in late : d.cmd # "refresh" /\ d.token # None /\ d.token \in {token[l], cand[l]} =>
                   step[l] = d.cmd /\ reply[l] = "error"

(* A key is with its locker until it expires or the locker releases it.    *)
KeyAccounted(l) ==
  /\ token[l] # None =>
       \/ (lapsed[l] <=> store # token[l])
       \/ step[l] = "release" /\ reply[l] \in {"yes", "error"} /\ store # token[l]
  /\ step[l] = "release" /\ reply[l] = "yes" =>
       token[l] # None /\ ~lapsed[l] /\ store # token[l]
  /\ step[l] = "sleep" => store # cand[l] /\ ~lapsed[l]
  /\ step[l] = "obtain" /\ reply[l] = "yes" => (lapsed[l] <=> store # cand[l])
  /\ step[l] = "obtain" /\ reply[l] \in {"none", "no"} => store # cand[l] /\ ~lapsed[l]

(* attempts counts down what sent counts up.                               *)
Budgeted(l) ==
  /\ step[l] = "obtain" => attempts[l] >= 1 /\ sent[l] + attempts[l] = RetryCount + 2
  /\ step[l] = "sleep"  => attempts[l] >= 1 /\ sent[l] + attempts[l] = RetryCount + 1

(* What every reachable state satisfies about tokens and the key: tokens   *)
(* are exclusive, and the key of a locker that believes it holds the lock  *)
(* is there unless it expired or is being released.                        *)
LockInv ==
  /\ ExclusiveTokens
  /\ \A l \in Lockers : InCall(l) /\ LateForgotten(l) /\ KeyAccounted(l) /\ Budgeted(l)

(* The key of a locker that holds the lock goes away only by its expiry or *)
(* by an Unlock call that is running on that very locker: no call of       *)
(* another locker, and no command of an earlier call that Redis executes   *)
(* late, takes the lock from its holder.                                   *)
HeldKeySurvives ==
  [][\A l \in Lockers : Holds(l) /\ store' # store =>
        \/ ttl = 1 /\ lapsed'[l]
        \/ step[l] = "release" /\ mutex[l] # None]_vars

(* Unlock returns nil only when the lock was never lost between the Lock   *)
(* that took it and this Unlock, however late the call and its command     *)
(* were: a caller that checks the error learns whether it was alone.       *)
UnlockReportsTruth ==
  [][\A c \in Callers : result[c] # "nil" /\ result'[c] = "nil" =>
        LET l == call[c].on IN
          token[l] # None /\ ~lapsed[l] /\ store # token[l]]_vars

(* Lock returns true only when the key holds the locker's token or held it *)
(* during the call and has expired since; and never while the key is gone  *)
(* through anything but its expiry.                                        *)
LockReportsTruth ==
  [][\A c \in Callers : result[c] # "true" /\ result'[c] = "true"
                        /\ call[c].op \in {"lock", "lockCtx"} =>
        LET l == call[c].on IN
          token'[l] # None /\ (store = token'[l] \/ lapsed[l])]_vars

(* A Lock call that is refused because the key is taken has tried exactly  *)
(* RetryCount + 1 times, whether or not a refresh came before.             *)
RetryBudget ==
  [][\A c \in Callers : call[c].op \in {"lock", "lockCtx"} /\ result[c] # "false"
                          /\ result'[c] = "false" =>
        sent[call[c].on] = RetryCount + 1]_vars

(* A key that no locker knows the token of, left by a SetNX whose reply    *)
(* was lost or by an Unlock that failed, does not block the lock for ever. *)
OrphanExpires ==
  \A t \in Token :
    (store = t /\ \A l \in Lockers : t \notin Claims(l)) ~> store # t
=============================================================================
