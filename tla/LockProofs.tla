----------------------------- MODULE LockProofs -----------------------------
(***************************************************************************)
(* Proofs about RedisLock and LockRun for every number of lockers and      *)
(* callers, every LockTimeout and every RetryCount.                        *)
(***************************************************************************)
EXTENDS LockRun, TLAPS

LEMMA ConstantsTyped ==
  /\ LockTimeout \in Nat /\ LockTimeout >= 1
  /\ RetryCount \in Nat
BY OptionsAssumption DEF LockTimeout, RetryCount

Inv == TypeOK /\ LockInv

LEMMA InitInv == Init => Inv
BY ConstantsTyped, NoneAssumption
   DEF Init, Inv, TypeOK, LockInv, ExclusiveTokens, Claims, InCall, LateForgotten,
       KeyAccounted, Budgeted, Maybe, Steps, Commands, Calls, Results, Idle

-----------------------------------------------------------------------------
(* Types.  The history counters stay in range because of Budgeted.         *)

LEMMA ReturnType ==
  ASSUME Inv, NEW l \in Lockers, mutex[l] # None, NEW t \in Maybe(Token),
         NEW r \in Results, Return(l, t, r)
  PROVE  TypeOK'
BY ConstantsTyped, NoneAssumption
   DEF Inv, TypeOK, Return, redis, Maybe, Steps, Idle, Calls

LEMMA CreateType ==
  ASSUME Inv, NEW l \in Lockers, NEW c \in Callers, Create(c, l)
  PROVE  TypeOK'
BY ConstantsTyped, NoneAssumption
   DEF Inv, TypeOK, Create, Await, Fresh, Attempts, redis, Maybe, Steps

LEMMA EffectType ==
  ASSUME Inv, NEW d \in Commands, Effect(d)
  PROVE  store' \in Maybe(Token) /\ ttl' \in 0 .. LockTimeout
BY ConstantsTyped DEF Inv, TypeOK, Effect, Commands, redis, Maybe

LEMMA TypeStep == Inv /\ [Next]_vars => TypeOK'
<1> SUFFICES ASSUME Inv, [Next]_vars PROVE TypeOK'
  OBVIOUS
<1> USE ConstantsTyped, NoneAssumption
<1>1. ASSUME NEW c \in Callers, NEW l \in Lockers,
             NEW op \in {"lock", "lockCtx", "unlock", "isLocked"}, Begin(c, op, l)
      PROVE  TypeOK'
  BY <1>1 DEF Inv, TypeOK, Begin, redis, locker, Calls, Results, Maybe
<1>2. ASSUME NEW c \in Callers, NEW l \in Lockers, EnterRefresh(c, l)
      PROVE  TypeOK'
  BY <1>2 DEF Inv, TypeOK, EnterRefresh, Await, redis, Maybe, Steps
<1>3. ASSUME NEW c \in Callers, NEW l \in Lockers, EnterCreate(c, l)
      PROVE  TypeOK'
  BY <1>3, CreateType DEF EnterCreate
<1>4. ASSUME NEW c \in Callers, NEW l \in Lockers, EnterNoRandom(c, l)
      PROVE  TypeOK'
  BY <1>4 DEF Inv, TypeOK, EnterNoRandom, redis, locker, Calls, Results, Maybe, Idle
<1>5. ASSUME NEW c \in Callers, NEW l \in Lockers, EnterUnlock(c, l)
      PROVE  TypeOK'
  BY <1>5 DEF Inv, TypeOK, EnterUnlock, Await, redis, Maybe, Steps
<1>6. ASSUME NEW c \in Callers, NEW l \in Lockers, IsLocked(c, l)
      PROVE  TypeOK'
  BY <1>6 DEF Inv, TypeOK, IsLocked, redis, locker, Calls, Results, Maybe, Idle
<1>7. ASSUME NEW l \in Lockers, Network(l)
      PROVE  TypeOK'
  <2>1. CommandOf(l) \in Commands
    BY <1>7 DEF Inv, TypeOK, Network, Execute, Lose, GiveUp, CommandOf, Commands, Maybe
  <2>2. CASE Execute(l)
    BY <2>1, <2>2, EffectType DEF Inv, TypeOK, Execute
  <2>3. CASE Lose(l)
    BY <2>3 DEF Inv, TypeOK, Lose, redis
  <2>4. CASE GiveUp(l)
    BY <2>1, <2>4 DEF Inv, TypeOK, GiveUp, redis
  <2>. QED
    BY <1>7, <2>2, <2>3, <2>4 DEF Network
<1>8. ASSUME NEW l \in Lockers, Proceed(l)
      PROVE  TypeOK'
  <2>0. step[l] # "free" => mutex[l] # None
    BY DEF Inv, LockInv, InCall
  <2>1. CASE RefreshDone(l)
    BY <2>0, <2>1, ReturnType DEF RefreshDone, Inv, TypeOK, Results
  <2>2. CASE RefreshLost(l)
    BY <2>0, <2>2, CreateType DEF RefreshLost, Inv, TypeOK, Maybe
  <2>3. CASE RefreshLostNoRandom(l)
    BY <2>0, <2>3, ReturnType DEF RefreshLostNoRandom, Maybe, Results
  <2>4. CASE Obtained(l)
    BY <2>0, <2>4, ReturnType DEF Obtained, Inv, TypeOK, Results
  <2>5. CASE ObtainError(l)
    BY <2>0, <2>5, ReturnType DEF ObtainError, Maybe, Results
  <2>6. CASE ObtainRefused(l)
    BY <2>0, <2>6, ReturnType DEF ObtainRefused, Maybe, Results
  <2>7. CASE Backoff(l)
    BY <2>7 DEF Inv, TypeOK, Backoff, Await, redis, Steps
  <2>8. CASE Retry(l)
    <3>1. sent[l] + 1 \in 0 .. RetryCount + 1
      BY <2>8 DEF Retry, Inv, TypeOK, LockInv, Budgeted
    <3>. QED
      BY <2>8, <3>1 DEF Inv, TypeOK, Retry, Await, redis, Steps
  <2>9. CASE Cancel(l)
    BY <2>0, <2>9, ReturnType DEF Cancel, Maybe, Results
  <2>10. CASE Released(l)
    BY <2>0, <2>10, ReturnType DEF Released, Maybe, Results
  <2>. QED
    BY <1>8, <2>1, <2>2, <2>3, <2>4, <2>5, <2>6, <2>7, <2>8, <2>9, <2>10 DEF Proceed
<1>9. ASSUME NEW d \in late, ExecuteLate(d)
      PROVE  TypeOK'
  <2>1. d \in Commands
    BY DEF Inv, TypeOK
  <2>. QED
    BY <1>9, <2>1, EffectType DEF Inv, TypeOK, ExecuteLate, locker
<1>10. CASE Tick
  BY <1>10 DEF Inv, TypeOK, Tick, locker, Maybe
<1>11. CASE UNCHANGED vars
  BY <1>11 DEF Inv, TypeOK, vars
<1>. QED
  BY <1>1, <1>2, <1>3, <1>4, <1>5, <1>6, <1>7, <1>8, <1>9, <1>10, <1>11
     DEF Next, Application, LockNext, Enter

-----------------------------------------------------------------------------
(* The lock invariant, one lemma per kind of step.                         *)

(* What a return, a creation and a command leave of the state of l.        *)
LEMMA ReturnLock ==
  ASSUME Inv, NEW l \in Lockers, mutex[l] # None, NEW t \in Maybe(Token),
         NEW r \in Results, Return(l, t, r),
         t # None => /\ t \in Claims(l) /\ (lapsed[l] <=> store # t)
                     /\ reply[l] = "yes" \/ step[l] = "refresh"
  PROVE  LockInv'
<1>1. ASSUME NEW m \in Lockers, m # l
      PROVE  /\ mutex'[m] = mutex[m] /\ step'[m] = step[m] /\ cand'[m] = cand[m]
             /\ token'[m] = token[m] /\ reply'[m] = reply[m] /\ lapsed'[m] = lapsed[m]
             /\ attempts'[m] = attempts[m] /\ sent'[m] = sent[m]
             /\ mutex[m] # None => call'[mutex[m]] = call[mutex[m]]
  BY <1>1 DEF Inv, TypeOK, LockInv, InCall, Return, Maybe
<1>2. /\ mutex'[l] = None /\ step'[l] = "free" /\ cand'[l] = None
      /\ token'[l] = t /\ reply'[l] = "none" /\ lapsed'[l] = (lapsed[l] /\ t # None)
      /\ store' = store /\ late' = late
  BY DEF Inv, TypeOK, Return, redis
<1>3. ExclusiveTokens'
  BY <1>1, <1>2 DEF Inv, LockInv, ExclusiveTokens, Claims
<1>4. ASSUME NEW m \in Lockers
      PROVE  (InCall(m) /\ LateForgotten(m) /\ KeyAccounted(m) /\ Budgeted(m))'
  <2>1. CASE m # l
    BY <1>1, <1>2, <2>1
       DEF Inv, LockInv, InCall, LateForgotten, KeyAccounted, Budgeted
  <2>2. CASE m = l
    <3>1. InCall(l)' /\ Budgeted(l)'
      BY <1>2 DEF InCall, Budgeted
    <3>2. LateForgotten(l)'
      BY <1>2, NoneAssumption DEF Inv, LockInv, LateForgotten, Claims
    <3>3. KeyAccounted(l)'
      BY <1>2 DEF KeyAccounted
    <3>. QED
      BY <2>2, <3>1, <3>2, <3>3
  <2>. QED
    BY <2>1, <2>2
<1>. QED
  BY <1>3, <1>4 DEF LockInv

LEMMA CreateLock ==
  ASSUME Inv, NEW l \in Lockers, NEW c \in Callers, mutex[l] \in {None, c},
         call[c].on = l, call[c].op \in {"lock", "lockCtx"}, Create(c, l)
  PROVE  LockInv'
<1>1. PICK t \in Fresh : cand' = [cand EXCEPT ![l] = t]
  BY DEF Create
<1>2. ASSUME NEW m \in Lockers, m # l
      PROVE  /\ mutex'[m] = mutex[m] /\ step'[m] = step[m] /\ cand'[m] = cand[m]
             /\ token'[m] = token[m] /\ reply'[m] = reply[m] /\ lapsed'[m] = lapsed[m]
             /\ attempts'[m] = attempts[m] /\ sent'[m] = sent[m]
             /\ t \notin Claims(m)
  BY <1>1, <1>2 DEF Inv, TypeOK, Create, Await, Fresh, Known, Claims
<1>3. /\ mutex'[l] = c /\ step'[l] = "obtain" /\ cand'[l] = t
      /\ token'[l] = None /\ reply'[l] = "none" /\ lapsed'[l] = FALSE
      /\ attempts'[l] = RetryCount + 1 /\ sent'[l] = 1
      /\ store' = store /\ late' = late /\ call' = call
      /\ t # store /\ t # None /\ c # None /\ \A d \in late : t # d.token
  BY <1>1, NoneAssumption DEF Inv, TypeOK, Create, Await, Fresh, Attempts, redis, Known
<1>4. ExclusiveTokens'
  <2>1. Claims(l)' = {t} /\ \A m \in Lockers \ {l} : Claims(m)' = Claims(m)
    BY <1>2, <1>3 DEF Claims
  <2>2. \A m \in Lockers \ {l} : t \notin Claims(m)
    BY <1>2
  <2>. QED
    BY <2>1, <2>2 DEF Inv, LockInv, ExclusiveTokens
<1>5. ASSUME NEW m \in Lockers
      PROVE  (InCall(m) /\ LateForgotten(m) /\ KeyAccounted(m) /\ Budgeted(m))'
  <2>1. CASE m # l
    BY <1>2, <1>3, <2>1
       DEF Inv, LockInv, InCall, LateForgotten, KeyAccounted, Budgeted
  <2>2. CASE m = l
    BY <1>3, <2>2, ConstantsTyped
       DEF InCall, LateForgotten, KeyAccounted, Budgeted
  <2>. QED
    BY <2>1, <2>2
<1>. QED
  BY <1>4, <1>5 DEF LockInv

(* Taking the mutex to refresh or to release.                              *)
LEMMA EnterLock ==
  ASSUME Inv, NEW l \in Lockers, NEW c \in Callers,
         EnterRefresh(c, l) \/ EnterUnlock(c, l)
  PROVE  LockInv'
<1>1. ASSUME NEW m \in Lockers, m # l
      PROVE  mutex'[m] = mutex[m] /\ step'[m] = step[m] /\ reply'[m] = reply[m]
  BY <1>1 DEF Inv, TypeOK, EnterRefresh, EnterUnlock, Await
<1>2. /\ mutex'[l] = c /\ reply'[l] = "none" /\ c # None
      /\ step[l] = "free" /\ cand[l] = None
      /\ call[c].on = l
      /\ \/ step'[l] = "refresh" /\ token[l] # None /\ call[c].op \in {"lock", "lockCtx"}
         \/ step'[l] = "release" /\ call[c].op = "unlock"
      /\ UNCHANGED <<store, token, cand, attempts, call, late, lapsed, sent>>
  BY NoneAssumption
     DEF Inv, TypeOK, LockInv, InCall, EnterRefresh, EnterUnlock, Waiting, Await, redis
<1>3. ExclusiveTokens'
  BY <1>2 DEF Inv, LockInv, ExclusiveTokens, Claims
<1>4. ASSUME NEW m \in Lockers
      PROVE  (InCall(m) /\ LateForgotten(m) /\ KeyAccounted(m) /\ Budgeted(m))'
  <2>1. CASE m # l
    BY <1>1, <1>2, <2>1
       DEF Inv, LockInv, InCall, LateForgotten, KeyAccounted, Budgeted
  <2>2. CASE m = l
    <3>1. InCall(l)' /\ Budgeted(l)'
      BY <1>2 DEF InCall, Budgeted
    <3>2. LateForgotten(l)'
      BY <1>2 DEF Inv, TypeOK, LockInv, LateForgotten, Commands
    <3>3. KeyAccounted(l)'
      BY <1>2 DEF Inv, LockInv, KeyAccounted
    <3>. QED
      BY <2>2, <3>1, <3>2, <3>3
  <2>. QED
    BY <2>1, <2>2
<1>. QED
  BY <1>3, <1>4 DEF LockInv

(* Beginning a call and IsLocked: only callers that hold no mutex change.  *)
LEMMA CallLock ==
  ASSUME Inv, NEW c \in Callers, \A l \in Lockers : mutex[l] # c,
         NEW k, call' = [call EXCEPT ![c] = k],
         UNCHANGED <<redis, locker, late, lapsed, sent>>
  PROVE  LockInv'
<1>1. \A l \in Lockers : mutex[l] # None => call'[mutex[l]] = call[mutex[l]]
  BY DEF Inv, TypeOK, Maybe
<1>2. ExclusiveTokens'
  BY DEF Inv, LockInv, ExclusiveTokens, Claims, locker
<1>3. ASSUME NEW m \in Lockers
      PROVE  (InCall(m) /\ LateForgotten(m) /\ KeyAccounted(m) /\ Budgeted(m))'
  BY <1>1 DEF Inv, LockInv, InCall, LateForgotten, KeyAccounted, Budgeted, redis, locker
<1>. QED
  BY <1>2, <1>3 DEF LockInv

(* A change of the key that concerns no token of m keeps the account of m. *)
LEMMA KeyFrame ==
  ASSUME Inv, NEW m \in Lockers,
         token'[m] = token[m], cand'[m] = cand[m], step'[m] = step[m],
         reply'[m] = reply[m], lapsed'[m] = lapsed[m],
         store' = store \/ (store \notin Claims(m) /\ store' \notin Claims(m))
  PROVE  KeyAccounted(m)'
<1>1. CASE store' = store
  BY <1>1 DEF Inv, LockInv, KeyAccounted
<1>2. CASE store \notin Claims(m) /\ store' \notin Claims(m)
  <2>1. step[m] \in {"obtain", "sleep"} => cand[m] # None
    BY DEF Inv, LockInv, InCall
  <2>. QED
    BY <1>2, <2>1 DEF Inv, LockInv, KeyAccounted, Claims
<1>. QED
  BY <1>1, <1>2

(* What a command of token t may do to the key.                            *)
LEMMA EffectStore ==
  ASSUME Inv, NEW d, d.cmd \in {"refresh", "obtain", "release"}, Effect(d)
  PROVE  \/ store' = store /\ (~Accepts(d) \/ d.cmd = "refresh")
         \/ store = None /\ store' = d.token /\ d.cmd = "obtain" /\ Accepts(d)
         \/ store = d.token /\ store' = None /\ d.cmd = "release" /\ Accepts(d)
            /\ d.token # None
BY DEF Effect, Accepts, Matches, redis

LEMMA ExecuteLock ==
  ASSUME Inv, NEW l \in Lockers, Execute(l)
  PROVE  LockInv'
<1> DEFINE d == CommandOf(l)
<1>1. /\ step[l] \in {"refresh", "obtain", "release"} /\ reply[l] = "none"
      /\ reply'[l] = IF Accepts(d) THEN "yes" ELSE "no"
      /\ \A m \in Lockers \ {l} : reply'[m] = reply[m]
      /\ UNCHANGED <<token, mutex, step, cand, attempts, call, late, lapsed, sent>>
  BY DEF Execute, Inv, TypeOK
<1>2. /\ d.cmd = step[l]
      /\ d.token = IF step[l] = "obtain" THEN cand[l] ELSE token[l]
  BY DEF CommandOf
<1>3. \/ store' = store /\ (~Accepts(d) \/ d.cmd = "refresh")
      \/ store = None /\ store' = d.token /\ d.cmd = "obtain" /\ Accepts(d)
      \/ store = d.token /\ store' = None /\ d.cmd = "release" /\ Accepts(d)
         /\ d.token # None
  <2>1. Effect(d)
    BY DEF Execute
  <2>. HIDE DEF d
  <2>. QED
    BY <1>1, <1>2, <2>1, EffectStore
<1>4. Accepts(d) <=> IF step[l] = "obtain" THEN store = None
                     ELSE store # None /\ store = token[l]
  BY <1>1 DEF Accepts, Matches, CommandOf
<1> HIDE DEF d
<1>5. ExclusiveTokens'
  BY <1>1 DEF Inv, LockInv, ExclusiveTokens, Claims
<1>6. ASSUME NEW m \in Lockers
      PROVE  (InCall(m) /\ LateForgotten(m) /\ KeyAccounted(m) /\ Budgeted(m))'
  <2>1. InCall(m)' /\ Budgeted(m)'
    BY <1>1 DEF Inv, LockInv, InCall, Budgeted
  <2>2. LateForgotten(m)'
    BY <1>1 DEF Inv, LockInv, LateForgotten
  <2>3. CASE m # l
    <3>1. d.token # None => d.token \notin Claims(m)
      <4>1. d.token # None => d.token \in Claims(l)
        BY <1>2 DEF Claims
      <4>. QED
        BY <2>3, <4>1 DEF Inv, LockInv, ExclusiveTokens
    <3>2. None \notin Claims(m)
      BY DEF Claims
    <3>3. store' = store \/ (store \notin Claims(m) /\ store' \notin Claims(m))
      BY <1>3, <3>1, <3>2
    <3>4. KeyAccounted(m)'
      BY <1>1, <2>3, <3>3, KeyFrame
    <3>. QED
      BY <2>1, <2>2, <3>4
  <2>4. CASE m = l
    <3>1. KeyAccounted(l) /\ InCall(l)
      BY DEF Inv, LockInv
    <3>2. KeyAccounted(l)'
      <4>1. CASE step[l] = "obtain"
        BY <1>1, <1>2, <1>3, <1>4, <3>1, <4>1 DEF KeyAccounted, InCall
      <4>2. CASE step[l] = "refresh"
        BY <1>1, <1>2, <1>3, <1>4, <3>1, <4>2 DEF KeyAccounted, InCall
      <4>3. CASE step[l] = "release"
        BY <1>1, <1>2, <1>3, <1>4, <3>1, <4>3 DEF KeyAccounted, InCall
      <4>. QED
        BY <1>1, <4>1, <4>2, <4>3
    <3>. QED
      BY <2>1, <2>2, <2>4, <3>2
  <2>. QED
    BY <2>3, <2>4
<1>. QED
  BY <1>5, <1>6 DEF LockInv

(* The client sees an error, with the command gone or still on its way.    *)
LEMMA ErrorLock ==
  ASSUME Inv, NEW l \in Lockers, Lose(l) \/ GiveUp(l)
  PROVE  LockInv'
<1>1. /\ step[l] \in {"refresh", "obtain", "release"}
      /\ reply'[l] = "error"
      /\ \A m \in Lockers \ {l} : reply'[m] = reply[m]
      /\ late' = late \/ late' = late \cup {CommandOf(l)}
      /\ UNCHANGED <<store, token, mutex, step, cand, attempts, call, lapsed, sent>>
  BY DEF Lose, GiveUp, Inv, TypeOK, redis
<1>2. /\ CommandOf(l).cmd = step[l]
      /\ CommandOf(l).token # None => CommandOf(l).token \in Claims(l)
  BY DEF CommandOf, Claims
<1>3. ExclusiveTokens'
  BY <1>1 DEF Inv, LockInv, ExclusiveTokens, Claims
<1>4. ASSUME NEW m \in Lockers
      PROVE  (InCall(m) /\ LateForgotten(m) /\ KeyAccounted(m) /\ Budgeted(m))'
  <2>1. InCall(m)' /\ Budgeted(m)'
    BY <1>1 DEF Inv, LockInv, InCall, Budgeted
  <2>2. LateForgotten(m)'
    <3>1. m # l => Claims(l) \cap Claims(m) = {}
      BY DEF Inv, LockInv, ExclusiveTokens
    <3>2. SUFFICES ASSUME NEW d \in late', d.cmd # "refresh", d.token # None,
                          d.token \in {token[m], cand[m]}
                   PROVE  step[m] = d.cmd /\ reply'[m] = "error"
      BY <1>1 DEF LateForgotten
    <3>3. CASE d \in late
      BY <1>1, <3>2, <3>3 DEF Inv, LockInv, LateForgotten
    <3>4. CASE d = CommandOf(l)
      BY <1>1, <1>2, <3>1, <3>2, <3>4 DEF Claims
    <3>. QED
      BY <1>1, <3>3, <3>4
  <2>3. KeyAccounted(m)'
    <3>1. CASE m # l
      BY <1>1, <3>1, KeyFrame
    <3>2. CASE m = l
      BY <1>1, <3>2 DEF Inv, LockInv, KeyAccounted
    <3>. QED
      BY <3>1, <3>2
  <2>. QED
    BY <2>1, <2>2, <2>3
<1>. QED
  BY <1>3, <1>4 DEF LockInv

LEMMA LateLock ==
  ASSUME Inv, NEW d \in late, ExecuteLate(d)
  PROVE  LockInv'
<1>1. /\ late' = late \ {d}
      /\ UNCHANGED <<token, mutex, step, cand, reply, attempts, call, lapsed, sent>>
  BY DEF ExecuteLate, locker
<1>2. \/ store' = store
      \/ store = None /\ store' = d.token /\ d.cmd = "obtain"
      \/ store = d.token /\ store' = None /\ d.cmd = "release" /\ d.token # None
  <2>1. d.cmd \in {"refresh", "obtain", "release"}
    BY DEF Inv, TypeOK, Commands
  <2>2. Effect(d)
    BY DEF ExecuteLate
  <2>. QED
    BY <2>1, <2>2, EffectStore
<1>3. ExclusiveTokens'
  BY <1>1 DEF Inv, LockInv, ExclusiveTokens, Claims
<1>4. ASSUME NEW m \in Lockers
      PROVE  (InCall(m) /\ LateForgotten(m) /\ KeyAccounted(m) /\ Budgeted(m))'
  <2>1. InCall(m)' /\ LateForgotten(m)' /\ Budgeted(m)'
    BY <1>1 DEF Inv, LockInv, InCall, LateForgotten, Budgeted
  <2>2. CASE store' = store \/ d.token \notin Claims(m)
    <3>1. None \notin Claims(m)
      BY DEF Claims
    <3>. QED
      BY <1>1, <1>2, <2>1, <2>2, <3>1, KeyFrame
  <2>3. CASE store' # store /\ d.token \in Claims(m)
    <3>1. d.token # None /\ d.token \in {token[m], cand[m]}
      BY <2>3 DEF Claims
    <3>2. step[m] = d.cmd /\ reply[m] = "error"
      BY <1>2, <2>3, <3>1 DEF Inv, LockInv, LateForgotten
    <3>3. KeyAccounted(m) /\ InCall(m)
      BY DEF Inv, LockInv
    <3>4. KeyAccounted(m)'
      BY <1>1, <1>2, <2>3, <3>1, <3>2, <3>3 DEF KeyAccounted, InCall
    <3>. QED
      BY <2>1, <3>4
  <2>. QED
    BY <2>2, <2>3
<1>. QED
  BY <1>3, <1>4 DEF LockInv

LEMMA TickLock ==
  ASSUME Inv, Tick
  PROVE  LockInv'
<1>1. UNCHANGED <<token, mutex, step, cand, reply, attempts, call, late, sent>>
  BY DEF Tick, locker
<1>2. store' = IF ttl = 1 THEN None ELSE store
  BY DEF Tick
<1>3. ASSUME NEW m \in Lockers
      PROVE  lapsed'[m] <=> lapsed[m] \/ (ttl = 1 /\ store \in Claims(m))
  BY DEF Tick
<1>4. ExclusiveTokens'
  BY <1>1 DEF Inv, LockInv, ExclusiveTokens, Claims
<1>5. ASSUME NEW m \in Lockers
      PROVE  (InCall(m) /\ LateForgotten(m) /\ KeyAccounted(m) /\ Budgeted(m))'
  <2>1. InCall(m)' /\ LateForgotten(m)' /\ Budgeted(m)'
    BY <1>1 DEF Inv, LockInv, InCall, LateForgotten, Budgeted
  <2>2. KeyAccounted(m)'
    BY <1>1, <1>2, <1>3 DEF Inv, LockInv, KeyAccounted, InCall, Claims
  <2>. QED
    BY <2>1, <2>2
<1>. QED
  BY <1>4, <1>5 DEF LockInv

(* One attempt is over, or the next one begins.                            *)
LEMMA AttemptLock ==
  ASSUME Inv, NEW l \in Lockers, Backoff(l) \/ Retry(l)
  PROVE  LockInv'
<1>1. /\ \A m \in Lockers \ {l} : /\ step'[m] = step[m] /\ reply'[m] = reply[m]
                                  /\ attempts'[m] = attempts[m] /\ sent'[m] = sent[m]
      /\ reply'[l] = "none"
      /\ \/ /\ step[l] = "obtain" /\ reply[l] = "no" /\ step'[l] = "sleep"
            /\ attempts[l] - 1 > 0 /\ attempts'[l] = attempts[l] - 1 /\ sent'[l] = sent[l]
         \/ /\ step[l] = "sleep" /\ step'[l] = "obtain"
            /\ attempts'[l] = attempts[l] /\ sent'[l] = sent[l] + 1
      /\ UNCHANGED <<store, token, mutex, cand, call, late, lapsed>>
  BY DEF Inv, TypeOK, Backoff, Retry, Await, redis
<1>2. ExclusiveTokens'
  BY <1>1 DEF Inv, LockInv, ExclusiveTokens, Claims
<1>3. ASSUME NEW m \in Lockers
      PROVE  (InCall(m) /\ LateForgotten(m) /\ KeyAccounted(m) /\ Budgeted(m))'
  <2>1. CASE m # l
    BY <1>1, <2>1 DEF Inv, LockInv, InCall, LateForgotten, KeyAccounted, Budgeted
  <2>2. CASE m = l
    <3>1. InCall(l) /\ LateForgotten(l) /\ KeyAccounted(l) /\ Budgeted(l)
      BY DEF Inv, LockInv
    <3>2. InCall(l)' /\ KeyAccounted(l)'
      BY <1>1, <3>1 DEF InCall, KeyAccounted
    <3>3. Budgeted(l)'
      BY <1>1, <3>1, ConstantsTyped DEF Inv, TypeOK, Budgeted
    <3>4. LateForgotten(l)'
      BY <1>1, <3>1 DEF LateForgotten, Inv, TypeOK, Commands
    <3>. QED
      BY <2>2, <3>2, <3>3, <3>4
  <2>. QED
    BY <2>1, <2>2
<1>. QED
  BY <1>2, <1>3 DEF LockInv

LEMMA ProceedLock ==
  ASSUME Inv, NEW l \in Lockers, Proceed(l)
  PROVE  LockInv'
<1>1. /\ mutex[l] # None /\ mutex[l] \in Callers
      /\ call[mutex[l]].on = l
      /\ step[l] # "release" => call[mutex[l]].op \in {"lock", "lockCtx"}
  <2>1. step[l] # "free"
    BY DEF Proceed, RefreshDone, RefreshLost, RefreshLostNoRandom, Obtained, ObtainError,
           ObtainRefused, Backoff, Retry, Cancel, Released
  <2>. QED
    BY <2>1 DEF Inv, TypeOK, LockInv, InCall, Maybe
<1>2. KeyAccounted(l) /\ InCall(l)
  BY DEF Inv, LockInv
<1>3. CASE RefreshDone(l)
  BY <1>1, <1>2, <1>3, ReturnLock
     DEF RefreshDone, KeyAccounted, InCall, Claims, Results, Inv, TypeOK
<1>4. CASE RefreshLost(l)
  BY <1>1, <1>4, CreateLock DEF RefreshLost
<1>5. CASE Obtained(l)
  <2>1. cand[l] \in Maybe(Token) /\ cand[l] # None
    BY <1>2, <1>5 DEF Obtained, InCall, Inv, TypeOK
  <2>. QED
    BY <1>1, <1>2, <1>5, <2>1, ReturnLock DEF Obtained, KeyAccounted, Claims, Results
<1>6. CASE RefreshLostNoRandom(l) \/ ObtainError(l) \/ ObtainRefused(l) \/ Cancel(l)
           \/ Released(l)
  <2>1. PICK r \in Results : Return(l, None, r)
    BY <1>6 DEF RefreshLostNoRandom, ObtainError, ObtainRefused, Cancel, Released, Results
  <2>. QED
    BY <1>1, <2>1, ReturnLock DEF Maybe
<1>7. CASE Backoff(l) \/ Retry(l)
  BY <1>7, AttemptLock
<1>. QED
  BY <1>3, <1>4, <1>5, <1>6, <1>7 DEF Proceed

LEMMA LockStep == Inv /\ [Next]_vars => LockInv'
<1> SUFFICES ASSUME Inv, [Next]_vars PROVE LockInv'
  OBVIOUS
<1>1. ASSUME NEW c \in Callers, NEW l \in Lockers,
             NEW op \in {"lock", "lockCtx", "unlock", "isLocked"}, Begin(c, op, l)
      PROVE  LockInv'
  <2>1. \A m \in Lockers : mutex[m] # c
    BY <1>1, NoneAssumption DEF Begin, Idle, Inv, LockInv, InCall
  <2>. QED
    BY <1>1, <2>1, CallLock DEF Begin
<1>2. ASSUME NEW c \in Callers, Enter(c)
      PROVE  LockInv'
  <2>1. PICK l \in Lockers : \/ EnterRefresh(c, l) \/ EnterCreate(c, l)
                             \/ EnterNoRandom(c, l) \/ EnterUnlock(c, l) \/ IsLocked(c, l)
    BY <1>2 DEF Enter
  <2>2. CASE EnterRefresh(c, l) \/ EnterUnlock(c, l)
    BY <2>2, EnterLock
  <2>3. CASE EnterCreate(c, l)
    BY <2>3, CreateLock DEF EnterCreate, Waiting
  <2>4. CASE EnterNoRandom(c, l) \/ IsLocked(c, l)
    <3>1. Waiting(c, l)
      BY <2>4 DEF EnterNoRandom, IsLocked
    <3>2. \A m \in Lockers : mutex[m] # c
      BY <3>1, NoneAssumption DEF Waiting, Inv, LockInv, InCall
    <3>. QED
      BY <2>4, <3>2, CallLock DEF EnterNoRandom, IsLocked
  <2>. QED
    BY <2>1, <2>2, <2>3, <2>4
<1>3. ASSUME NEW l \in Lockers, Network(l)
      PROVE  LockInv'
  BY <1>3, ExecuteLock, ErrorLock DEF Network
<1>4. ASSUME NEW l \in Lockers, Proceed(l)
      PROVE  LockInv'
  BY <1>4, ProceedLock
<1>5. ASSUME NEW d \in late, ExecuteLate(d)
      PROVE  LockInv'
  BY <1>5, LateLock
<1>6. CASE Tick
  BY <1>6, TickLock
<1>7. CASE UNCHANGED vars
  BY <1>7 DEF Inv, LockInv, ExclusiveTokens, Claims, InCall, LateForgotten, KeyAccounted,
              Budgeted, vars
<1>. QED
  BY <1>1, <1>2, <1>3, <1>4, <1>5, <1>6, <1>7 DEF Next, Application, LockNext

LEMMA InvHolds == Spec => []Inv
<1>1. Inv /\ [Next]_vars => Inv'
  BY TypeStep, LockStep DEF Inv
<1>. QED
  BY InitInv, <1>1, PTL DEF Spec

-----------------------------------------------------------------------------
(* The variables of lock.go and of Redis keep their types; in particular   *)
(* no call sends more than RetryCount + 1 SetNX commands.                  *)
THEOREM LockTyped == Spec => []TypeOK
<1>1. Inv => TypeOK
  BY DEF Inv
<1>. QED
  BY InvHolds, <1>1, PTL

(* Tokens are exclusive and keys accounted for, for every number of        *)
(* lockers, callers and delayed commands.                                  *)
THEOREM LockSafe == Spec => []LockInv
<1>1. Inv => LockInv
  BY DEF Inv
<1>. QED
  BY InvHolds, <1>1, PTL

(* Whose call it is when a step changes what a caller was returned.        *)
LEMMA ResultSteps ==
  ASSUME Inv, [Next]_vars, NEW c \in Callers, result'[c] # result[c]
  PROVE  \/ result'[c] = "none"
         \/ call[c].op \in {"lock", "lockCtx"} /\ result'[c] = "error"
         \/ \E l \in Lockers : IsLocked(c, l)
         \/ \E l \in Lockers : Proceed(l) /\ mutex[l] = c /\ call[c].on = l
<1>1. ASSUME NEW d \in Callers, NEW l \in Lockers,
             NEW op \in {"lock", "lockCtx", "unlock", "isLocked"}, Begin(d, op, l)
      PROVE  result'[c] = "none"
  BY <1>1 DEF Begin, Inv, TypeOK
<1>2. ASSUME NEW d \in Callers, Enter(d)
      PROVE  \/ call[c].op \in {"lock", "lockCtx"} /\ result'[c] = "error"
             \/ \E l \in Lockers : IsLocked(c, l)
  <2>1. PICK l \in Lockers : EnterNoRandom(d, l) \/ IsLocked(d, l)
    BY <1>2 DEF Enter, EnterRefresh, EnterCreate, EnterUnlock, Create
  <2>2. d = c
    BY <2>1 DEF EnterNoRandom, IsLocked, Inv, TypeOK
  <2>. QED
    BY <2>1, <2>2 DEF EnterNoRandom, Inv, TypeOK
<1>3. ASSUME NEW l \in Lockers, Network(l)
      PROVE  FALSE
  BY <1>3 DEF Network, Execute, Lose, GiveUp
<1>4. ASSUME NEW l \in Lockers, Proceed(l)
      PROVE  mutex[l] = c /\ call[c].on = l
  <2>1. PICK t, r : Return(l, t, r)
    BY <1>4 DEF Proceed, RefreshDone, RefreshLost, RefreshLostNoRandom, Obtained,
           ObtainError, ObtainRefused, Backoff, Retry, Cancel, Released, Create
  <2>2. mutex[l] = c
    BY <2>1 DEF Return, Inv, TypeOK
  <2>. QED
    BY <2>2, NoneAssumption DEF Inv, LockInv, InCall
<1>5. ASSUME NEW d \in late, ExecuteLate(d)
      PROVE  FALSE
  BY <1>5 DEF ExecuteLate
<1>6. ~Tick /\ ~UNCHANGED vars
  BY DEF Tick, vars
<1>. QED
  BY <1>1, <1>2, <1>3, <1>4, <1>5, <1>6 DEF Next, Application, LockNext

(* The key of a holder goes away only by expiry or in its own Unlock.      *)
THEOREM HolderKeepsKey == Spec => HeldKeySurvives
<1>1. ASSUME Inv, [Next]_vars, NEW l \in Lockers, Holds(l), store' # store
      PROVE  (ttl = 1 /\ lapsed'[l]) \/ (step[l] = "release" /\ mutex[l] # None)
  <2>0. step[l] = "release" => mutex[l] # None
    BY <1>1 DEF Inv, LockInv, InCall
  <2>1. ASSUME NEW m \in Lockers, Execute(m)
        PROVE  step[l] = "release"
    <3>1. CommandOf(m).cmd = step[m] /\ step[m] \in {"refresh", "obtain", "release"}
      BY <2>1 DEF CommandOf, Execute
    <3>2. store = CommandOf(m).token /\ step[m] = "release"
      BY <1>1, <2>1, <3>1, EffectStore DEF Execute, Holds
    <3>3. store \in Claims(l) /\ store \in Claims(m)
      BY <1>1, <3>2 DEF Holds, Claims, CommandOf
    <3>. QED
      BY <1>1, <3>2, <3>3 DEF Inv, LockInv, ExclusiveTokens
  <2>2. ASSUME NEW d \in late, ExecuteLate(d)
        PROVE  step[l] = "release"
    <3>1. d.cmd \in {"refresh", "obtain", "release"}
      BY <1>1 DEF Inv, TypeOK, Commands
    <3>2. store = d.token /\ d.cmd = "release"
      BY <1>1, <2>2, <3>1, EffectStore DEF ExecuteLate, Holds
    <3>. QED
      BY <1>1, <3>2 DEF Holds, Inv, LockInv, LateForgotten
  <2>3. ASSUME Tick
        PROVE  ttl = 1 /\ lapsed'[l]
    BY <1>1, <2>3 DEF Tick, Holds, Claims
  <2>4. (\E m \in Lockers : Execute(m)) \/ (\E d \in late : ExecuteLate(d)) \/ Tick
    <3>1. ASSUME NEW m \in Lockers, Proceed(m)
          PROVE  store' = store
      BY <3>1 DEF Proceed, RefreshDone, RefreshLost, RefreshLostNoRandom, Obtained,
                  ObtainError, ObtainRefused, Backoff, Retry, Cancel, Released, Create,
                  Return, redis
    <3>2. ASSUME NEW c \in Callers, Enter(c)
          PROVE  store' = store
      BY <3>2 DEF Enter, EnterRefresh, EnterCreate, EnterNoRandom, EnterUnlock, IsLocked,
                  Create, redis
    <3>3. ASSUME NEW m \in Lockers, Lose(m) \/ GiveUp(m)
          PROVE  store' = store
      BY <3>3 DEF Lose, GiveUp, redis
    <3>. QED
      BY <1>1, <3>1, <3>2, <3>3
         DEF Next, Application, LockNext, Network, Begin, redis, vars
  <2>. QED
    BY <2>0, <2>1, <2>2, <2>3, <2>4
<1>2. Inv /\ [Next]_vars => [\A l \in Lockers : Holds(l) /\ store' # store =>
                               \/ ttl = 1 /\ lapsed'[l]
                               \/ step[l] = "release" /\ mutex[l] # None]_vars
  BY <1>1
<1>. QED
  BY InvHolds, <1>2, PTL DEF Spec, HeldKeySurvives

(* A nil from Unlock: the lock was held without a gap, and this call ended *)
(* it.                                                                     *)
THEOREM UnlockIsTruthful == Spec => UnlockReportsTruth
<1>1. ASSUME Inv, [Next]_vars, NEW c \in Callers, result[c] # "nil", result'[c] = "nil"
      PROVE  LET l == call[c].on IN token[l] # None /\ ~lapsed[l] /\ store # token[l]
  <2>1. ~\E l \in Lockers : IsLocked(c, l)
    BY <1>1 DEF IsLocked, Inv, TypeOK
  <2>2. PICK l \in Lockers : Proceed(l) /\ mutex[l] = c /\ call[c].on = l
    BY <1>1, <2>1, ResultSteps
  <2>3. Released(l) /\ reply[l] = "yes"
    BY <1>1, <2>2 DEF Proceed, RefreshDone, RefreshLost, RefreshLostNoRandom, Obtained,
           ObtainError, ObtainRefused, Backoff, Retry, Cancel, Released, Create, Return,
           Inv, TypeOK
  <2>4. token[l] # None /\ ~lapsed[l] /\ store # token[l]
    BY <1>1, <2>3 DEF Released, Inv, LockInv, KeyAccounted
  <2>. QED
    BY <2>2, <2>4
<1>2. Inv /\ [Next]_vars =>
        [\A c \in Callers : result[c] # "nil" /\ result'[c] = "nil" =>
           LET l == call[c].on IN token[l] # None /\ ~lapsed[l] /\ store # token[l]]_vars
  BY <1>1
<1>. QED
  BY InvHolds, <1>2, PTL DEF Spec, UnlockReportsTruth

(* A true from Lock: the key is the locker's, or was and expired.          *)
THEOREM LockIsTruthful == Spec => LockReportsTruth
<1>1. ASSUME Inv, [Next]_vars, NEW c \in Callers, result[c] # "true", result'[c] = "true",
             call[c].op \in {"lock", "lockCtx"}
      PROVE  LET l == call[c].on IN token'[l] # None /\ (store = token'[l] \/ lapsed[l])
  <2>1. ~\E l \in Lockers : IsLocked(c, l)
    BY <1>1 DEF IsLocked
  <2>2. PICK l \in Lockers : Proceed(l) /\ mutex[l] = c /\ call[c].on = l
    BY <1>1, <2>1, ResultSteps
  <2>3. RefreshDone(l) \/ Obtained(l)
    BY <1>1, <2>2 DEF Proceed, RefreshDone, RefreshLost, RefreshLostNoRandom, Obtained,
           ObtainError, ObtainRefused, Backoff, Retry, Cancel, Released, Create, Return,
           Inv, TypeOK
  <2>4. KeyAccounted(l) /\ InCall(l)
    BY <1>1 DEF Inv, LockInv
  <2>5. token'[l] # None /\ (store = token'[l] \/ lapsed[l])
    <3>1. CASE RefreshDone(l)
      <4>1. token'[l] = token[l] /\ step[l] = "refresh"
        BY <1>1, <3>1 DEF RefreshDone, Return, Inv, TypeOK
      <4>. QED
        BY <2>4, <4>1 DEF KeyAccounted, InCall
    <3>2. CASE Obtained(l)
      <4>1. token'[l] = cand[l] /\ step[l] = "obtain" /\ reply[l] = "yes"
        BY <1>1, <3>2 DEF Obtained, Return, Inv, TypeOK
      <4>. QED
        BY <2>4, <4>1 DEF KeyAccounted, InCall
    <3>. QED
      BY <2>3, <3>1, <3>2
  <2>. QED
    BY <2>2, <2>5
<1>2. Inv /\ [Next]_vars =>
        [\A c \in Callers : result[c] # "true" /\ result'[c] = "true"
                             /\ call[c].op \in {"lock", "lockCtx"} =>
           LET l == call[c].on IN token'[l] # None /\ (store = token'[l] \/ lapsed[l])]_vars
  BY <1>1
<1>. QED
  BY InvHolds, <1>2, PTL DEF Spec, LockReportsTruth

(* A refused Lock has made RetryCount + 1 attempts.                        *)
THEOREM RefusedAfterBudget == Spec => RetryBudget
<1>1. ASSUME Inv, [Next]_vars, NEW c \in Callers, call[c].op \in {"lock", "lockCtx"},
             result[c] # "false", result'[c] = "false"
      PROVE  sent[call[c].on] = RetryCount + 1
  <2>1. ~\E l \in Lockers : IsLocked(c, l)
    BY <1>1 DEF IsLocked
  <2>2. PICK l \in Lockers : Proceed(l) /\ mutex[l] = c /\ call[c].on = l
    BY <1>1, <2>1, ResultSteps
  <2>3. ObtainRefused(l)
    BY <1>1, <2>2 DEF Proceed, RefreshDone, RefreshLost, RefreshLostNoRandom, Obtained,
           ObtainError, ObtainRefused, Backoff, Retry, Cancel, Released, Create, Return,
           Inv, TypeOK
  <2>4. sent[l] = RetryCount + 1
    BY <1>1, <2>3, ConstantsTyped DEF ObtainRefused, Inv, TypeOK, LockInv, Budgeted
  <2>. QED
    BY <2>2, <2>4
<1>2. Inv /\ [Next]_vars =>
        [\A c \in Callers : call[c].op \in {"lock", "lockCtx"} /\ result[c] # "false"
                             /\ result'[c] = "false" =>
           sent[call[c].on] = RetryCount + 1]_vars
  BY <1>1
<1>. QED
  BY InvHolds, <1>2, PTL DEF Spec, RetryBudget

-----------------------------------------------------------------------------
(* lock.Run.  Every step of it is a step of the lock or leaves the lock    *)
(* alone, so Inv holds; what Run adds is below.                            *)

(* Where an invocation is, and what call on its own locker it is in.       *)
RunPhase(r) ==
  /\ run[r] = "obtain" => call[r] \in {Idle, [op |-> "lock", on |-> r]}
  /\ run[r] = "unlock" => call[r] \in {Idle, [op |-> "unlock", on |-> r]}
  /\ run[r] \notin {"obtain", "unlock"} => call[r] = Idle
  /\ run[r] = "obtain" /\ call[r] = Idle =>
       result[r] \in {"true", "false", "error"} /\ (result[r] = "true" => token[r] # None)
  /\ run[r] = "select" => token[r] # None
  /\ run[r] = "unlock" /\ call[r] = Idle => result[r] \in {"nil", "error"}
  /\ handler[r] = "running" => run[r] \in {"select", "exceeded"}

(* The invocation will not return nil, or has not.                         *)
Doomed(r) ==
  \/ run[r] \in {"error", "exceeded"}
  \/ run[r] = "select" /\ lapsed[r]
  \/ run[r] = "unlock" /\ IF call[r] = Idle THEN result[r] # "nil" ELSE lapsed[r]

(* Of two whose handlers ran at the same time, one is doomed.              *)
OverlapDoomed == \A r, s \in Callers : r # s /\ s \in overlap[r] => Doomed(r) \/ Doomed(s)

RunIInv ==
  /\ Inv /\ RunTypeOK
  /\ \A r \in Callers : RunPhase(r)
  /\ OverlapDoomed

LEMMA RunInitInv == RunInit => RunIInv
<1> SUFFICES ASSUME RunInit PROVE RunIInv
  OBVIOUS
<1>1. Inv
  BY InitInv DEF RunInit
<1>2. RunTypeOK
  BY <1>1, ConstantsTyped DEF RunInit, RunTypeOK, Inv
<1>3. \A r \in Callers : RunPhase(r)
  BY DEF RunInit, RunPhase, Init
<1>4. OverlapDoomed
  BY DEF RunInit, OverlapDoomed
<1>. QED
  BY <1>1, <1>2, <1>3, <1>4 DEF RunIInv

(* Every step of Run is a step of the lock or leaves it alone.             *)
LEMMA RunStepsLock == [RunNext]_allVars => [Next]_vars
<1> SUFFICES ASSUME [RunNext]_allVars PROVE [Next]_vars
  OBVIOUS
<1>1. ASSUME NEW r \in Callers, RunStep(r) \/ HandlerReturns(r)
      PROVE  [Next]_vars
  <2>1. CASE RunObtain(r) \/ SelectDone(r)
    BY <2>1, OwnLockerAssumption DEF RunObtain, SelectDone, Next, Application
  <2>2. CASE ~(RunObtain(r) \/ SelectDone(r))
    BY <1>1, <2>2 DEF RunStep, ObtainFailed, StartHandler, SelectTimeout, UnlockReturned,
                      HandlerReturns
  <2>. QED
    BY <2>1, <2>2
<1>2. CASE UNCHANGED allVars
  BY <1>2 DEF allVars
<1>. QED
  BY <1>1, <1>2 DEF RunNext, LockCall, RunTick, Next, LockNext

-----------------------------------------------------------------------------
(* What a step of the lock does to the call of an invocation.              *)

(* It leaves the call where it is; what has lapsed stays so, unless a Lock *)
(* is creating a new token.                                                *)
CallGoesOn(r) ==
  /\ call'[r] = call[r]
  /\ call[r] = Idle => result'[r] = result[r] /\ token'[r] = token[r]
  /\ lapsed[r] /\ call[r].op # "lock" => lapsed'[r]

(* It ends the call with an answer, which is no nil when the key lapsed.   *)
CallEnds(r) ==
  /\ call[r] # Idle /\ call'[r] = Idle
  /\ call[r].op = "lock" =>
       result'[r] \in {"true", "false", "error"} /\ (result'[r] = "true" => token'[r] # None)
  /\ call[r].op = "unlock" =>
       result'[r] \in {"nil", "error"} /\ (lapsed[r] => result'[r] = "error")

(* An invocation uses its own locker, and nobody else does.                *)
LEMMA OwnLocker ==
  ASSUME RunIInv, NEW l \in Lockers, mutex[l] # None
  PROVE  l \in Callers /\ mutex[l] = l /\ call[l] # Idle /\ call[l].op \in {"lock", "unlock"}
<1>1. mutex[l] \in Callers /\ call[mutex[l]].on = l
  BY DEF RunIInv, Inv, TypeOK, LockInv, InCall, Maybe
<1>2. call[mutex[l]] \in {Idle, [op |-> "lock", on |-> mutex[l]],
                          [op |-> "unlock", on |-> mutex[l]]}
  BY <1>1 DEF RunIInv, RunPhase
<1>3. call[mutex[l]] # Idle
  BY <1>1, NoneAssumption DEF Idle
<1>. QED
  BY <1>1, <1>2, <1>3

(* The same of a call that waits for its locker's mutex.                   *)
LEMMA OwnWaiting ==
  ASSUME RunIInv, NEW c \in Callers, NEW l \in Lockers, Waiting(c, l)
  PROVE  l = c /\ call[c] # Idle /\ call[c].op \in {"lock", "unlock"} /\ mutex[c] = None
<1>1. call[c] \in {Idle, [op |-> "lock", on |-> c], [op |-> "unlock", on |-> c]}
  BY DEF RunIInv, RunPhase
<1>2. call[c] # Idle
  BY NoneAssumption DEF Waiting, Idle
<1>. QED
  BY <1>1, <1>2 DEF Waiting

LEMMA EnterCall ==
  ASSUME RunIInv, NEW c \in Callers, Enter(c), NEW r \in Callers
  PROVE  CallGoesOn(r) \/ CallEnds(r)
<1>1. PICK l \in Lockers : \/ EnterRefresh(c, l) \/ EnterCreate(c, l)
                           \/ EnterNoRandom(c, l) \/ EnterUnlock(c, l) \/ IsLocked(c, l)
  BY DEF Enter
<1>2. Waiting(c, l)
  BY <1>1 DEF EnterRefresh, EnterCreate, EnterNoRandom, EnterUnlock, IsLocked
<1>3. l = c /\ call[c] # Idle /\ call[c].op \in {"lock", "unlock"}
  BY <1>2, OwnWaiting
<1>4. TypeOK /\ r \in Lockers
  BY OwnLockerAssumption DEF RunIInv, Inv
<1>5. CASE EnterRefresh(c, l) \/ EnterUnlock(c, l)
  BY <1>3, <1>4, <1>5 DEF EnterRefresh, EnterUnlock, CallGoesOn
<1>6. CASE EnterCreate(c, l)
  <2>1. call[c].op = "lock"
    BY <1>3, <1>6 DEF EnterCreate
  <2>2. /\ token' = [token EXCEPT ![c] = None] /\ lapsed' = [lapsed EXCEPT ![c] = FALSE]
        /\ call' = call /\ result' = result
    BY <1>3, <1>6 DEF EnterCreate, Create
  <2>. QED
    BY <1>3, <1>4, <2>1, <2>2 DEF CallGoesOn, TypeOK
<1>7. CASE EnterNoRandom(c, l)
  <2>1. call[c].op = "lock" /\ UNCHANGED <<token, lapsed>>
        /\ call' = [call EXCEPT ![c] = Idle] /\ result' = [result EXCEPT ![c] = "error"]
    BY <1>3, <1>7 DEF EnterNoRandom, locker
  <2>. QED
    BY <1>3, <1>4, <2>1 DEF CallGoesOn, CallEnds, TypeOK
<1>8. CASE IsLocked(c, l)
  BY <1>3, <1>8 DEF IsLocked
<1>. QED
  BY <1>1, <1>5, <1>6, <1>7, <1>8

LEMMA ProceedCall ==
  ASSUME RunIInv, NEW l \in Lockers, Proceed(l), NEW r \in Callers
  PROVE  CallGoesOn(r) \/ CallEnds(r)
<1>0. TypeOK /\ InCall(l) /\ KeyAccounted(l) /\ r \in Lockers
  BY OwnLockerAssumption DEF RunIInv, Inv, LockInv
<1>1. step[l] # "free" /\ mutex[l] # None
  <2>1. step[l] # "free"
    BY DEF Proceed, RefreshDone, RefreshLost, RefreshLostNoRandom, Obtained, ObtainError,
           ObtainRefused, Backoff, Retry, Cancel, Released
  <2>. QED
    BY <1>0, <2>1 DEF InCall
<1>2. l \in Callers /\ mutex[l] = l /\ call[l] # Idle
  BY <1>1, OwnLocker
<1>3. ASSUME NEW t, NEW v, Return(l, t, v)
      PROVE  /\ call'[l] = Idle /\ result'[l] = v /\ token'[l] = t
             /\ r # l => CallGoesOn(r)
  BY <1>0, <1>2, <1>3 DEF Return, TypeOK, CallGoesOn
<1>4. (call[l].op = "lock" /\ step[l] # "release") \/ (call[l].op = "unlock" /\ step[l] = "release")
  BY <1>0, <1>1, <1>2, OwnLocker DEF InCall
<1>5. CASE RefreshDone(l)
  <2>1. Return(l, token[l], IF reply[l] = "yes" THEN "true" ELSE "error")
        /\ step[l] = "refresh" /\ token[l] # None
    BY <1>0, <1>5 DEF RefreshDone, InCall
  <2>. QED
    BY <1>2, <1>3, <1>4, <2>1 DEF CallEnds
<1>6. CASE Obtained(l)
  <2>1. Return(l, cand[l], "true") /\ step[l] = "obtain" /\ cand[l] # None
    BY <1>0, <1>6 DEF Obtained, InCall
  <2>. QED
    BY <1>2, <1>3, <1>4, <2>1 DEF CallEnds
<1>7. CASE RefreshLostNoRandom(l) \/ ObtainError(l) \/ ObtainRefused(l) \/ Cancel(l)
  <2>1. PICK v \in {"false", "error"} : Return(l, None, v)
    BY <1>7 DEF RefreshLostNoRandom, ObtainError, ObtainRefused, Cancel
  <2>2. step[l] # "release"
    BY <1>7 DEF RefreshLostNoRandom, ObtainError, ObtainRefused, Cancel
  <2>. QED
    BY <1>2, <1>3, <1>4, <2>1, <2>2 DEF CallEnds
<1>8. CASE Released(l)
  <2>1. Return(l, None, IF reply[l] = "yes" THEN "nil" ELSE "error") /\ step[l] = "release"
    BY <1>8 DEF Released
  <2>2. lapsed[l] => reply[l] # "yes"
    BY <1>0, <2>1 DEF KeyAccounted
  <2>. QED
    BY <1>2, <1>3, <1>4, <2>1, <2>2 DEF CallEnds
<1>9. CASE RefreshLost(l)
  <2>1. /\ token' = [token EXCEPT ![l] = None] /\ lapsed' = [lapsed EXCEPT ![l] = FALSE]
        /\ call' = call /\ result' = result /\ step[l] = "refresh"
    BY <1>9 DEF RefreshLost, Create
  <2>. QED
    BY <1>0, <1>2, <1>4, <2>1 DEF CallGoesOn, TypeOK
<1>10. CASE Backoff(l) \/ Retry(l)
  BY <1>10 DEF Backoff, Retry, CallGoesOn
<1>. QED
  BY <1>5, <1>6, <1>7, <1>8, <1>9, <1>10 DEF Proceed

LEMMA LockCallStep ==
  ASSUME RunIInv, NEW r \in Callers,
         \/ \E c \in Callers : Enter(c)
         \/ \E l \in Lockers : Network(l) \/ Proceed(l)
         \/ \E d \in late : ExecuteLate(d)
         \/ Tick \/ UNCHANGED vars
  PROVE  CallGoesOn(r) \/ CallEnds(r)
<1>1. ASSUME NEW l \in Lockers, Network(l)
      PROVE  CallGoesOn(r)
  BY <1>1 DEF Network, Execute, Lose, GiveUp, CallGoesOn
<1>2. ASSUME NEW d \in late, ExecuteLate(d)
      PROVE  CallGoesOn(r)
  BY <1>2 DEF ExecuteLate, locker, CallGoesOn
<1>3. CASE Tick
  <2>1. r \in Lockers
    BY OwnLockerAssumption
  <2>. QED
    BY <1>3, <2>1 DEF Tick, locker, CallGoesOn
<1>4. CASE UNCHANGED vars
  BY <1>4 DEF vars, CallGoesOn
<1>. QED
  BY <1>1, <1>2, <1>3, <1>4, EnterCall, ProceedCall

-----------------------------------------------------------------------------
(* One lemma per kind of step of Run.                                      *)

(* A step of the lock: where the invocations are does not change, and who  *)
(* is doomed stays so.                                                     *)
LEMMA CallsKeepRun ==
  ASSUME RunIInv, UNCHANGED <<run, handler, overlap>>,
         \A r \in Callers : CallGoesOn(r) \/ CallEnds(r)
  PROVE  (\A r \in Callers : RunPhase(r)') /\ OverlapDoomed'
<1>1. ASSUME NEW r \in Callers PROVE RunPhase(r)' /\ (Doomed(r) => Doomed(r)')
  <2>0. RunPhase(r)
    BY DEF RunIInv
  <2>1. CASE CallGoesOn(r)
    <3>1. RunPhase(r)'
      BY <2>0, <2>1 DEF CallGoesOn, RunPhase
    <3>2. Doomed(r) => Doomed(r)'
      <4>1. run[r] \in {"select", "unlock"} => call[r].op # "lock"
        BY <2>0 DEF RunPhase, Idle
      <4>. QED
        BY <2>1, <4>1 DEF CallGoesOn, Doomed
    <3>. QED
      BY <3>1, <3>2
  <2>2. CASE CallEnds(r)
    <3>1. \/ run[r] = "obtain" /\ call[r].op = "lock"
          \/ run[r] = "unlock" /\ call[r].op = "unlock"
      BY <2>0, <2>2 DEF RunPhase, CallEnds
    <3>2. RunPhase(r)'
      BY <2>0, <2>2, <3>1 DEF CallEnds, RunPhase
    <3>3. Doomed(r) => Doomed(r)'
      BY <2>2, <3>1 DEF CallEnds, Doomed
    <3>. QED
      BY <3>2, <3>3
  <2>. QED
    BY <2>1, <2>2
<1>2. OverlapDoomed'
  BY <1>1 DEF RunIInv, OverlapDoomed
<1>. QED
  BY <1>1, <1>2

(* The handler starts beside others: an invocation that has the lock and   *)
(* has not lapsed has its token in the key, and so do not two.             *)
LEMMA StartKeepsRun ==
  ASSUME RunIInv, NEW r \in Callers, StartHandler(r)
  PROVE  (\A s \in Callers : RunPhase(s)') /\ OverlapDoomed'
<1>0. /\ run[r] = "obtain" /\ call[r] = Idle /\ token[r] # None /\ r \in Lockers
      /\ run' = [run EXCEPT ![r] = "select"]
      /\ handler' = [handler EXCEPT ![r] = "running"]
      /\ UNCHANGED vars
  BY OwnLockerAssumption DEF RunIInv, RunPhase, StartHandler
<1>1. /\ run'[r] = "select" /\ \A s \in Callers \ {r} : run'[s] = run[s] /\ handler'[s] = handler[s]
      /\ UNCHANGED <<call, result, token, lapsed>>
  BY <1>0 DEF RunIInv, RunTypeOK, vars
<1>2. ASSUME NEW s \in Callers PROVE RunPhase(s)'
  BY <1>0, <1>1 DEF RunIInv, RunPhase
<1>3. \A s \in Callers : Doomed(s) => Doomed(s)'
  BY <1>0, <1>1 DEF Doomed
<1>4. ASSUME NEW s \in Callers, s # r, handler[s] = "running", ~Doomed(s)
      PROVE  lapsed[r]
  <2>1. run[s] = "select" /\ ~lapsed[s] /\ token[s] # None /\ call[s] = Idle /\ s \in Lockers
    BY <1>4, OwnLockerAssumption DEF RunIInv, RunPhase, Doomed
  <2>2. step[r] = "free" /\ step[s] = "free"
    BY <1>0, <2>1, OwnLocker DEF RunIInv, Inv, LockInv, InCall
  <2>3. store = token[s] /\ (lapsed[r] \/ store = token[r])
    BY <1>0, <2>1, <2>2 DEF RunIInv, Inv, TypeOK, LockInv, KeyAccounted
  <2>4. token[r] # token[s]
    <3>1. Claims(r) \cap Claims(s) = {}
      BY <1>0, <1>4, <2>1 DEF RunIInv, Inv, LockInv, ExclusiveTokens
    <3>. QED
      BY <1>0, <2>1, <3>1 DEF Claims
  <2>. QED
    BY <2>3, <2>4
<1>5. ASSUME NEW p \in Callers, NEW s \in Callers, p # s, s \in overlap'[p]
      PROVE  Doomed(p)' \/ Doomed(s)'
  <2>1. overlap'[p] = overlap[p] \cup
          (IF p = r THEN Running ELSE IF p \in Running THEN {r} ELSE {})
    BY DEF StartHandler
  <2>2. CASE s \in overlap[p]
    BY <1>3, <1>5, <2>2 DEF RunIInv, OverlapDoomed
  <2>3. CASE p = r /\ s \in Running
    <3>1. Doomed(s) \/ lapsed[r]
      BY <1>4, <1>5, <2>3 DEF Running
    <3>. QED
      BY <1>1, <1>3, <2>3, <3>1 DEF Doomed
  <2>4. CASE p \in Running /\ s = r
    <3>1. Doomed(p) \/ lapsed[r]
      BY <1>4, <1>5, <2>4 DEF Running
    <3>. QED
      BY <1>1, <1>3, <2>4, <3>1 DEF Doomed
  <2>. QED
    BY <1>5, <2>1, <2>2, <2>3, <2>4
<1>. QED
  BY <1>2, <1>5 DEF OverlapDoomed

(* The other steps of Run change only where the invocation itself is.      *)
LEMMA StepKeepsRun ==
  ASSUME RunIInv, NEW r \in Callers,
         \/ RunObtain(r) \/ ObtainFailed(r) \/ SelectDone(r) \/ SelectTimeout(r)
         \/ UnlockReturned(r) \/ HandlerReturns(r)
  PROVE  (\A s \in Callers : RunPhase(s)') /\ OverlapDoomed'
<1>0. RunPhase(r) /\ r \in Lockers /\ r # None
  BY OwnLockerAssumption, NoneAssumption DEF RunIInv
<1>1. /\ UNCHANGED <<token, lapsed, overlap>>
      /\ \A s \in Callers \ {r} : /\ run'[s] = run[s] /\ call'[s] = call[s]
                                  /\ result'[s] = result[s] /\ handler'[s] = handler[s]
  BY DEF RunObtain, ObtainFailed, SelectDone, SelectTimeout, UnlockReturned, HandlerReturns,
         Begin, locker, vars, RunIInv, RunTypeOK, TypeOK
<1>2. ASSUME NEW s \in Callers, s # r PROVE RunPhase(s)' /\ (Doomed(s) => Doomed(s)')
  BY <1>1, <1>2 DEF RunIInv, RunPhase, Doomed
<1>3. RunPhase(r)' /\ (Doomed(r) => Doomed(r)')
  <2>1. CASE RunObtain(r)
    <3>1. /\ run[r] = "new" /\ run'[r] = "obtain" /\ handler'[r] = handler[r]
          /\ call'[r] = [op |-> "lock", on |-> r] /\ call'[r] # Idle
      BY <2>1 DEF RunObtain, Begin, RunIInv, RunTypeOK, TypeOK, Idle
    <3>. QED
      BY <1>0, <3>1 DEF RunPhase, Doomed
  <2>2. CASE ObtainFailed(r)
    <3>1. /\ run[r] = "obtain" /\ run'[r] = "error" /\ handler'[r] = handler[r]
          /\ call[r] = Idle /\ call'[r] = Idle
      BY <2>2 DEF ObtainFailed, vars, RunIInv, RunTypeOK
    <3>. QED
      BY <1>0, <3>1 DEF RunPhase, Doomed
  <2>3. CASE SelectDone(r)
    <3>1. /\ run[r] = "select" /\ run'[r] = "unlock"
          /\ handler'[r] = "done" /\ lapsed'[r] = lapsed[r]
          /\ call'[r] = [op |-> "unlock", on |-> r] /\ call'[r] # Idle
      BY <2>3 DEF SelectDone, Begin, RunIInv, RunTypeOK, TypeOK, Idle
    <3>. QED
      BY <1>0, <3>1 DEF RunPhase, Doomed
  <2>4. CASE SelectTimeout(r)
    <3>1. /\ run[r] = "select" /\ run'[r] = "exceeded"
          /\ call'[r] = call[r] /\ handler'[r] = handler[r]
      BY <2>4 DEF SelectTimeout, vars, RunIInv, RunTypeOK
    <3>. QED
      BY <1>0, <3>1 DEF RunPhase, Doomed
  <2>5. CASE UnlockReturned(r)
    <3>1. /\ run[r] = "unlock" /\ run'[r] = result[r] /\ handler'[r] = handler[r]
          /\ call[r] = Idle /\ call'[r] = Idle /\ result[r] \in {"nil", "error"}
      BY <1>0, <2>5 DEF UnlockReturned, vars, RunIInv, RunTypeOK, RunPhase
    <3>. QED
      BY <1>0, <3>1 DEF RunPhase, Doomed
  <2>6. CASE HandlerReturns(r)
    <3>1. /\ UNCHANGED <<run, call, result, token, lapsed>> /\ handler'[r] = "done"
      BY <2>6 DEF HandlerReturns, vars, RunIInv, RunTypeOK
    <3>. QED
      BY <1>0, <3>1 DEF RunPhase, Doomed
  <2>. QED
    BY <2>1, <2>2, <2>3, <2>4, <2>5, <2>6
<1>4. OverlapDoomed'
  BY <1>1, <1>2, <1>3 DEF RunIInv, OverlapDoomed
<1>. QED
  BY <1>2, <1>3, <1>4

LEMMA RunTyped ==
  ASSUME RunIInv, RunNext, TypeOK'
  PROVE  RunTypeOK'
<1> USE ConstantsTyped
<1>1. ASSUME NEW r \in Callers, RunStep(r) \/ HandlerReturns(r)
      PROVE  RunTypeOK'
  <2>1. CASE StartHandler(r)
    <3>1. overlap' \in [Callers -> SUBSET Callers]
      BY <2>1 DEF StartHandler, Running, RunIInv, RunTypeOK
    <3>. QED
      BY <2>1, <3>1 DEF StartHandler, RunIInv, RunTypeOK
  <2>2. CASE UnlockReturned(r)
    <3>1. result[r] \in Outcomes
      BY <2>2 DEF UnlockReturned, RunIInv, RunPhase, Outcomes
    <3>. QED
      BY <2>2, <3>1 DEF UnlockReturned, RunIInv, RunTypeOK
  <2>3. CASE RunObtain(r) \/ ObtainFailed(r) \/ SelectDone(r) \/ SelectTimeout(r)
             \/ HandlerReturns(r)
    BY <2>3 DEF RunObtain, ObtainFailed, SelectDone, SelectTimeout, HandlerReturns,
                RunIInv, RunTypeOK, Outcomes
  <2>. QED
    BY <1>1, <2>1, <2>2, <2>3 DEF RunStep
<1>2. CASE RunTick
  BY <1>2 DEF RunTick, RunIInv, RunTypeOK
<1>3. CASE UNCHANGED runVars
  BY <1>3 DEF runVars, RunIInv, RunTypeOK
<1>. QED
  BY <1>1, <1>2, <1>3 DEF RunNext, LockCall

LEMMA RunInvStep == RunIInv /\ [RunNext]_allVars => RunIInv'
<1> SUFFICES ASSUME RunIInv, [RunNext]_allVars PROVE RunIInv'
  OBVIOUS
<1>1. Inv'
  BY RunStepsLock, TypeStep, LockStep DEF RunIInv, Inv
<1>2. CASE UNCHANGED allVars
  BY <1>1, <1>2 DEF allVars, vars, runVars, RunIInv, Inv, RunTypeOK, RunPhase, OverlapDoomed,
                    Doomed
<1>3. CASE RunNext
  <2>1. RunTypeOK'
    BY <1>1, <1>3, RunTyped DEF Inv
  <2>2. ASSUME NEW r \in Callers, RunStep(r) \/ HandlerReturns(r)
        PROVE  (\A s \in Callers : RunPhase(s)') /\ OverlapDoomed'
    BY <2>2, StartKeepsRun, StepKeepsRun DEF RunStep
  <2>3. ASSUME ~\E r \in Callers : RunStep(r) \/ HandlerReturns(r)
        PROVE  (\A s \in Callers : RunPhase(s)') /\ OverlapDoomed'
    <3>1. UNCHANGED <<run, handler, overlap>>
      BY <1>3, <2>3 DEF RunNext, LockCall, RunTick, runVars
    <3>2. \A r \in Callers : CallGoesOn(r) \/ CallEnds(r)
      BY <1>3, <2>3, LockCallStep DEF RunNext, LockCall, RunTick
    <3>. QED
      BY <3>1, <3>2, CallsKeepRun
  <2>. QED
    BY <1>1, <2>1, <2>2, <2>3 DEF RunIInv
<1>. QED
  BY <1>2, <1>3

(* Two invocations of Run that both returned nil never had their handlers  *)
(* running at the same time, however many invocations there are, however   *)
(* long their handlers take and however late their commands arrive.        *)
THEOREM NilExcludes == RunSpec => []RunInv
<1>1. RunIInv => RunInv
  <2> SUFFICES ASSUME RunIInv PROVE RunInv
    OBVIOUS
  <2>1. \A r \in Callers : run[r] = "nil" => ~Doomed(r)
    BY DEF Doomed
  <2>. QED
    BY <2>1 DEF RunIInv, RunInv, OverlapDoomed, NilMeansExclusive
<1>. QED
  BY RunInitInv, RunInvStep, <1>1, PTL DEF RunSpec
=============================================================================
