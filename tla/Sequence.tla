------------------------------- MODULE Sequence -------------------------------
(***************************************************************************)
(* The generator of sequence/sequence.go: a goroutine that fills the       *)
(* channel pool with numbers made of the second, of random bits and of a   *)
(* counter, and the callers of GetUUID that take them out.  A number is    *)
(* its three bit fields.  The counter last_count is high * CountSize + low *)
(* and is added to the fields: its high part falls on the random bits.     *)
(***************************************************************************)
EXTENDS Integers, Sequences

(* A definition X_Y just before X is a variant of X with a mistake in it,  *)
(* used by no specification: README, "Mutants".                            *)

CONSTANTS
  CountSize,    \* 2^COUNT_BITS
  RandSize,     \* 2^RAND_BITS
  PoolSize,     \* the capacity of pool
  MaxSecond,    \* bound: seconds that pass
  MaxHigh,      \* bound: rounds of the counter in a second
  MaxBack,      \* bound: steps of the clock back
  MaxRestarts   \* bound: restarts of the process

ASSUME SizesAssumption == CountSize \in Nat \ {0, 1} /\ RandSize \in Nat \ {0}
                          /\ PoolSize \in Nat
ASSUME BoundsAssumption == MaxSecond \in Nat /\ MaxHigh \in Nat
                           /\ MaxBack \in Nat /\ MaxRestarts \in Nat

VARIABLES
  clock,      \* time.Now().Unix()
  last_sec,
  high, low,  \* last_count
  made,       \* the numbers generated and not lost by a restart
  pushed,     \* how many of them were put into pool
  returned,   \* how many of them were taken out of it
  issued,     \* history: how many of them before the first disturbance
  disturbed,  \* history: the counter went round, the clock went back or the
              \* process restarted
  backs, restarts

counter == <<last_sec, high, low>>
vars == <<clock, last_sec, high, low, made, pushed, returned, issued,
          disturbed,
          backs, restarts>>

Numbers == [sec : Nat, rand : 0 .. RandSize - 1, count : 0 .. CountSize - 1]

TypeOK ==
  /\ clock \in 1 .. MaxSecond + 1
  /\ last_sec \in 0 .. MaxSecond + 1
  /\ high \in Nat /\ low \in 0 .. CountSize - 1
  /\ made \in Seq(Numbers)
  /\ returned \in Nat /\ pushed \in returned .. returned + PoolSize
  /\ Len(made) \in {pushed, pushed + 1}
  /\ issued \in 0 .. returned /\ disturbed \in BOOLEAN
  /\ backs \in 0 .. MaxBack /\ restarts \in 0 .. MaxRestarts

Start ==
  /\ last_sec = 0 /\ high = 0 /\ low = 1

Init ==
  /\ clock = 1
  /\ Start
  /\ made = <<>> /\ pushed = 0 /\ returned = 0 /\ issued = 0
  /\ disturbed = FALSE /\ backs = 0 /\ restarts = 0

-----------------------------------------------------------------------------
(* The fields of second sec with the counter at h and l: random bits when  *)
(* the part of the counter that falls on them is zero, that part when not; *)
(* what is left of the counter is added to the second.                     *)
Number(sec, h, l, r) ==
  [sec   |-> sec + h \div RandSize,
   rand  |-> IF h % RandSize = 0 THEN r ELSE h % RandSize,
   count |-> l]

(* One round of gen() up to the send, with the counter at h and l.         *)
Round(sec, h, l) ==
  /\ \E r \in 0 .. RandSize - 1 : made' = Append(made, Number(sec, h, l, r))
  /\ last_sec' = clock
  /\ low' = IF l = CountSize - 1 THEN 0 ELSE l + 1
  /\ high' = IF l = CountSize - 1 THEN h + 1 ELSE h
  /\ disturbed' = (disturbed \/ h > 0)

(* A new second restarts the counter.                                      *)
Generate_AlwaysRestarts ==
  /\ pushed = Len(made)
  /\ Round(clock, 0, 1)
  /\ UNCHANGED <<clock, pushed, returned, issued, backs, restarts>>
Generate ==
  /\ pushed = Len(made)
  /\ \/ clock # last_sec /\ Round(clock, 0, 1)
     \/ clock = last_sec /\ high <= MaxHigh /\ Round(clock, high, low)
  /\ UNCHANGED <<clock, pushed, returned, issued, backs, restarts>>

(* pool <- c                                                               *)
Push_Unbounded ==
  /\ pushed < Len(made)
  /\ pushed' = pushed + 1
  /\ UNCHANGED <<clock, counter, made, returned, issued, disturbed, backs,
                 restarts>>
Push ==
  /\ pushed < Len(made)
  /\ pushed - returned < PoolSize
  /\ pushed' = pushed + 1
  /\ UNCHANGED <<clock, counter, made, returned, issued, disturbed, backs,
                 restarts>>

GetUUID ==
  /\ returned < pushed
  /\ returned' = returned + 1
  /\ issued' = IF disturbed THEN issued ELSE issued + 1
  /\ UNCHANGED <<clock, counter, made, pushed, disturbed, backs, restarts>>

-----------------------------------------------------------------------------
Tick ==
  /\ clock <= MaxSecond
  /\ clock' = clock + 1
  /\ UNCHANGED <<counter, made, pushed, returned, issued, disturbed, backs,
                 restarts>>

StepBack ==
  /\ backs < MaxBack
  /\ clock > 1
  /\ clock' = clock - 1
  /\ backs' = backs + 1
  /\ disturbed' = TRUE
  /\ UNCHANGED <<counter, made, pushed, returned, issued, restarts>>

(* The process restarts: what is in pool is lost, the counter starts anew. *)
Restart ==
  /\ restarts < MaxRestarts
  /\ restarts' = restarts + 1
  /\ last_sec' = 0 /\ high' = 0 /\ low' = 1
  /\ made' = SubSeq(made, 1, returned) /\ pushed' = returned
  /\ disturbed' = TRUE
  /\ UNCHANGED <<clock, returned, issued, backs>>

Next == Generate \/ Push \/ GetUUID \/ Tick \/ StepBack \/ Restart

Spec == Init /\ [][Next]_vars

-----------------------------------------------------------------------------
(* Properties.                                                             *)

(* As long as fewer than CountSize numbers are made in a second, the clock *)
(* does not go back and the process does not restart, the generator does   *)
(* what UniqueIds promises, whatever the random bits and whenever the      *)
(* numbers are taken.                                                      *)
Promise == INSTANCE UniqueIds WITH ids <- SubSeq(made, 1, issued)
KeepsPromise == Promise!Spec

(* The numbers made so far and not disturbed are those of earlier seconds  *)
(* and the counts already used in this one.                                *)
Used ==
  \A i \in 1 .. Len(made) :
    LET n == made[i] IN
      /\ n.sec <= last_sec
      /\ n.sec = last_sec => high > 0 \/ n.count < low

Distinct == \A i, j \in 1 .. Len(made) : i # j => made[i] # made[j]

(* The inductive invariant: what has been made is used up, and distinct.   *)
SequenceInv ==
  /\ TypeOK
  /\ ~disturbed => last_sec <= clock /\ issued = returned /\ Used /\ Distinct
=============================================================================
