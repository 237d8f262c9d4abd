---------------------------- MODULE SequenceProofs ----------------------------
(***************************************************************************)
(* Proofs about Sequence for every size of the fields and of the pool: the *)
(* numbers stay unique while nothing disturbs the generator, and it then   *)
(* implements UniqueIds.                                                   *)
(***************************************************************************)
EXTENDS Sequence, TLAPS

LEMMA ConstantsTyped ==
  /\ CountSize \in Nat /\ CountSize > 1 /\ RandSize \in Nat /\ RandSize > 0
  /\ PoolSize \in Nat /\ MaxSecond \in Nat /\ MaxHigh \in Nat
  /\ MaxBack \in Nat /\ MaxRestarts \in Nat
  BY SizesAssumption, BoundsAssumption

USE ConstantsTyped

(* A number made of counter values is a number.                            *)
LEMMA NumberTyped ==
  ASSUME NEW sec \in Nat, NEW h \in Nat, NEW l \in 0 .. CountSize - 1,
         NEW r \in 0 .. RandSize - 1
  PROVE  Number(sec, h, l, r) \in Numbers
<1>1. h \div RandSize \in Nat /\ h % RandSize \in 0 .. RandSize - 1
  OBVIOUS
<1> QED BY <1>1 DEF Number, Numbers

(* While the counter has not gone round, it changes neither the second nor *)
(* the count of the number.                                                *)
LEMMA NumberFields ==
  ASSUME NEW sec \in Nat, NEW l, NEW r
  PROVE  Number(sec, 0, l, r).sec = sec /\ Number(sec, 0, l, r).count = l
<1>1. 0 \div RandSize = 0
  OBVIOUS
<1> QED BY <1>1 DEF Number

LEMMA InitInv == Init => SequenceInv
<1> SUFFICES ASSUME Init PROVE SequenceInv
  OBVIOUS
<1>1. made = <<>> /\ Len(made) = 0 /\ made \in Seq(Numbers)
  BY DEF Init
<1>2. TypeOK
  <2>1. clock \in 1 .. MaxSecond + 1 /\ last_sec \in 0 .. MaxSecond + 1
    BY DEF Init, Start
  <2>2. high \in Nat /\ low \in 0 .. CountSize - 1
    BY DEF Init, Start
  <2>3. returned \in Nat /\ pushed \in returned .. returned + PoolSize
        /\ Len(made) \in {pushed, pushed + 1} /\ issued \in 0 .. returned
    BY <1>1 DEF Init
  <2>4. backs \in 0 .. MaxBack /\ restarts \in 0 .. MaxRestarts
    BY DEF Init
  <2>5. disturbed \in BOOLEAN
    BY Zenon DEF Init
  <2> QED BY <1>1, <2>1, <2>2, <2>3, <2>4, <2>5 DEF TypeOK
<1>3. Used /\ Distinct
  BY <1>1 DEF Used, Distinct
<1> QED BY <1>2, <1>3 DEF Init, Start, SequenceInv

(* A round keeps the types.                                                *)
LEMMA RoundType ==
  ASSUME TypeOK, NEW h \in Nat, NEW l \in 0 .. CountSize - 1, Round(clock, h, l),
         pushed = Len(made),
         UNCHANGED <<clock, pushed, returned, issued, backs, restarts>>
  PROVE  TypeOK'
<1>1. PICK r \in 0 .. RandSize - 1 : made' = Append(made, Number(clock, h, l, r))
  BY DEF Round
<1>2. Number(clock, h, l, r) \in Numbers
  BY NumberTyped DEF TypeOK
<1>3. made' \in Seq(Numbers) /\ Len(made') = Len(made) + 1
  BY <1>1, <1>2 DEF TypeOK
<1>4. high' \in Nat /\ low' \in 0 .. CountSize - 1 /\ disturbed' \in BOOLEAN
  BY DEF Round, TypeOK
<1> QED BY <1>3, <1>4 DEF TypeOK, Round

LEMMA TypeStep == TypeOK /\ [Next]_vars => TypeOK'
<1> SUFFICES ASSUME TypeOK, [Next]_vars PROVE TypeOK'
  OBVIOUS
<1>1. CASE Generate
  <2>1. CASE clock # last_sec /\ Round(clock, 0, 1)
    BY <1>1, <2>1, RoundType DEF Generate
  <2>2. CASE clock = last_sec /\ Round(clock, high, low)
    BY <1>1, <2>2, RoundType DEF Generate, TypeOK
  <2> QED BY <1>1, <2>1, <2>2 DEF Generate
<1>2. CASE Push
  BY <1>2 DEF Push, TypeOK, counter
<1>3. CASE GetUUID
  BY <1>3 DEF GetUUID, TypeOK, counter
<1>4. CASE Tick
  BY <1>4 DEF Tick, TypeOK, counter
<1>5. CASE StepBack
  BY <1>5 DEF StepBack, TypeOK, counter
<1>6. CASE Restart
  <2>1. returned \in Nat /\ returned <= Len(made)
    BY DEF TypeOK
  <2>2. made' \in Seq(Numbers) /\ Len(made') = returned
    BY <1>6, <2>1 DEF Restart, TypeOK
  <2> QED BY <1>6, <2>1, <2>2 DEF Restart, TypeOK
<1>7. CASE UNCHANGED vars
  BY <1>7 DEF vars, TypeOK
<1> QED BY <1>1, <1>2, <1>3, <1>4, <1>5, <1>6, <1>7 DEF Next

(* A round of the counter in a second that it has not gone round in makes  *)
(* a number that was not made before.                                      *)
LEMMA RoundFresh ==
  ASSUME TypeOK, Used, Distinct, last_sec <= clock,
         NEW l \in 0 .. CountSize - 1, Round(clock, 0, l),
         clock # last_sec \/ (high = 0 /\ l = low)
  PROVE  last_sec' = clock /\ Used' /\ Distinct'
<1>1. PICK r \in 0 .. RandSize - 1 : made' = Append(made, Number(clock, 0, l, r))
  BY DEF Round
<1> DEFINE new == Number(clock, 0, l, r)
<1>2. new.sec = clock /\ new.count = l /\ new \in Numbers
  BY NumberFields, NumberTyped DEF TypeOK
<1>3. Len(made') = Len(made) + 1 /\ made'[Len(made) + 1] = new
      /\ \A i \in 1 .. Len(made) : made'[i] = made[i]
  BY <1>1, <1>2 DEF TypeOK
<1>4. \A i \in 1 .. Len(made) :
        made[i].sec \in Nat /\ made[i].count \in 0 .. CountSize - 1
  <2>1. \A i \in 1 .. Len(made) : made[i] \in Numbers
    BY DEF TypeOK
  <2> QED BY <2>1 DEF Numbers
<1>5. \A i \in 1 .. Len(made) : made[i].sec <= clock
                                 /\ (made[i].sec = clock => made[i].count < l)
  BY <1>4 DEF Used, TypeOK
<1>6. \A i \in 1 .. Len(made) : made[i] # new
  BY <1>2, <1>4, <1>5
<1>7. last_sec' = clock /\ (high' > 0 \/ low' = l + 1)
  BY DEF Round, TypeOK
<1>8. \A i \in 1 .. Len(made') : made'[i].sec <= clock
                                 /\ (made'[i].sec = clock => made'[i].count < l + 1)
  <2> SUFFICES ASSUME NEW i \in 1 .. Len(made')
               PROVE  made'[i].sec <= clock
                      /\ (made'[i].sec = clock => made'[i].count < l + 1)
    OBVIOUS
  <2>1. CASE i = Len(made) + 1
    BY <2>1, <1>2, <1>3 DEF TypeOK
  <2>2. CASE i \in 1 .. Len(made)
    BY <2>2, <1>3, <1>4, <1>5
  <2> QED BY <1>3, <2>1, <2>2 DEF TypeOK
<1>9. Used'
  BY <1>7, <1>8 DEF Used
<1>10. Distinct'
  <2> SUFFICES ASSUME NEW i \in 1 .. Len(made'), NEW j \in 1 .. Len(made'), i # j
               PROVE  made'[i] # made'[j]
    BY DEF Distinct
  <2>1. i \in 1 .. Len(made) \/ i = Len(made) + 1
    BY <1>3 DEF TypeOK
  <2>2. j \in 1 .. Len(made) \/ j = Len(made) + 1
    BY <1>3 DEF TypeOK
  <2> QED BY <1>3, <1>6, <2>1, <2>2 DEF Distinct
<1> QED BY <1>7, <1>9, <1>10

LEMMA InvStep == SequenceInv /\ [Next]_vars => SequenceInv'
<1> SUFFICES ASSUME SequenceInv, [Next]_vars PROVE SequenceInv'
  OBVIOUS
<1>1. TypeOK /\ TypeOK'
  BY TypeStep DEF SequenceInv
<1>2. SUFFICES ASSUME ~disturbed' 
      PROVE last_sec' <= clock' /\ issued' = returned' /\ Used' /\ Distinct'
  BY <1>1 DEF SequenceInv
<1>3. CASE Generate
  <2>1. ~disturbed /\ last_sec <= clock /\ Used /\ Distinct
        /\ issued' = returned'
    BY <1>2, <1>3 DEF SequenceInv, Generate, Round
  <2>2. CASE clock # last_sec /\ Round(clock, 0, 1)
    BY <1>1, <1>3, <2>1, <2>2, RoundFresh DEF Generate, TypeOK
  <2>3. CASE clock = last_sec /\ Round(clock, high, low)
    <3>1. high = 0
      <4>1. ~(high > 0)
        BY <1>2, <2>3 DEF Round
      <4> QED BY <1>1, <4>1 DEF TypeOK
    <3> QED BY <1>1, <1>3, <2>1, <2>3, <3>1, RoundFresh DEF Generate, TypeOK
  <2> QED BY <1>3, <2>2, <2>3 DEF Generate
<1>4. CASE Push
  BY <1>2, <1>4 DEF Push, counter, SequenceInv, Used, Distinct
<1>5. CASE GetUUID
  <2>1. ~disturbed /\ UNCHANGED <<clock, last_sec, high, low, made>>
        /\ returned' = returned + 1
        /\ issued' = (IF disturbed THEN issued ELSE issued + 1)
    BY <1>2, <1>5 DEF GetUUID, counter
  <2>2. issued' = issued + 1
    BY <2>1
  <2>3. last_sec <= clock /\ issued = returned /\ Used /\ Distinct
    BY <2>1 DEF SequenceInv
  <2>4. issued' = returned'
    BY <2>1, <2>2, <2>3
  <2>5. Used' /\ Distinct'
    BY <2>1, <2>3 DEF Used, Distinct
  <2> QED BY <2>1, <2>3, <2>4, <2>5
<1>6. CASE Tick
  <2>1. ~disturbed /\ UNCHANGED <<last_sec, high, low, made, returned, issued>>
        /\ clock' = clock + 1
    BY <1>2, <1>6 DEF Tick, counter
  <2>2. last_sec <= clock /\ issued = returned /\ Used /\ Distinct
    BY <2>1 DEF SequenceInv
  <2>3. last_sec' <= clock' /\ issued' = returned'
    BY <1>1, <2>1, <2>2 DEF TypeOK
  <2>4. Used' /\ Distinct'
    BY <2>1, <2>2 DEF Used, Distinct
  <2> QED BY <2>3, <2>4
<1>7. CASE StepBack
  BY <1>2, <1>7 DEF StepBack
<1>8. CASE Restart
  BY <1>2, <1>8 DEF Restart
<1>9. CASE UNCHANGED vars
  BY <1>2, <1>9 DEF vars, SequenceInv, Used, Distinct
<1> QED BY <1>3, <1>4, <1>5, <1>6, <1>7, <1>8, <1>9 DEF Next

(* The types hold for every size of the fields and of the pool.            *)
THEOREM SequenceTyped == Spec => []TypeOK
<1>1. Init => TypeOK
  BY InitInv DEF SequenceInv
<1> QED BY <1>1, TypeStep, PTL DEF Spec

(* In every reachable state what was made is used up and distinct, unless  *)
(* the generator was disturbed.                                            *)
THEOREM SequenceSafe == Spec => []SequenceInv
  BY InitInv, InvStep, PTL DEF Spec

-----------------------------------------------------------------------------
(* The numbers issued, as the abstract specification sees them.            *)
Issued == SubSeq(made, 1, issued)

LEMMA Lengths ==
  ASSUME TypeOK
  PROVE  /\ made \in Seq(Numbers)
         /\ issued \in Nat /\ returned \in Nat
         /\ issued <= returned /\ returned <= Len(made)
  BY DEF TypeOK

LEMMA LengthsNext ==
  ASSUME TypeOK'
  PROVE  made' \in Seq(Numbers) /\ issued' \in Nat /\ issued' <= Len(made')
<1>1. /\ returned' \in Nat /\ pushed' \in returned' .. returned' + PoolSize
      /\ issued' \in 0 .. returned' /\ made' \in Seq(Numbers)
      /\ Len(made') \in {pushed', pushed' + 1}
  BY Zenon DEF TypeOK
<1>2. /\ pushed' \in Int /\ returned' <= pushed'
      /\ issued' \in Nat /\ issued' <= returned'
  BY <1>1
<1>3. Len(made') = pushed' \/ Len(made') = pushed' + 1
  BY <1>1, Zenon
<1>4. \A i, r, p, l \in Int : i <= r /\ r <= p /\ (l = p \/ l = p + 1) => i <= l
  OBVIOUS
<1>5. Len(made') \in Int /\ issued' \in Int /\ returned' \in Int
  BY <1>1, <1>2
<1>6. issued' <= Len(made')
  BY <1>2, <1>3, <1>4, <1>5, Zenon
<1> QED BY <1>1, <1>2, <1>6

LEMMA IssuedIds ==
  ASSUME TypeOK
  PROVE  /\ Issued \in Seq(Numbers)
         /\ Len(Issued) = issued
         /\ \A i \in 1 .. issued : Issued[i] = made[i]
  BY Lengths DEF Issued

(* A step that leaves the issued numbers alone is a stutter.               *)
LEMMA SameIds ==
  ASSUME TypeOK, TypeOK', issued' = issued,
         \A i \in 1 .. issued : made'[i] = made[i]
  PROVE  Issued' = Issued
  BY Lengths, LengthsNext DEF Issued

(* An undisturbed GetUUID issues one number more.                          *)
LEMMA NextId ==
  ASSUME SequenceInv, ~disturbed, GetUUID
  PROVE  /\ issued' = issued + 1 /\ issued + 1 <= Len(made)
         /\ Issued' = Append(Issued, made[issued + 1])
<1>1. issued = returned /\ issued' = issued + 1 /\ made' = made
  BY DEF SequenceInv, GetUUID
<1>2. issued \in Nat /\ issued + 1 <= Len(made) /\ made \in Seq(Numbers)
  BY <1>1 DEF SequenceInv, TypeOK, GetUUID
<1>3. SubSeq(made, 1, issued + 1) = Append(SubSeq(made, 1, issued), made[issued + 1])
  BY <1>2
<1> QED BY <1>1, <1>2, <1>3 DEF Issued

(* It was not issued before.                                               *)
LEMMA NextIdNew ==
  ASSUME SequenceInv, ~disturbed, GetUUID
  PROVE  Len(Issued') = Len(Issued) + 1
         /\ Issued'[Len(Issued')] = made[issued + 1]
         /\ \A i \in 1 .. Len(Issued) : Issued[i] # made[issued + 1]
<1>1. issued' = issued + 1 /\ issued + 1 <= Len(made)
      /\ Issued' = Append(Issued, made[issued + 1])
  BY NextId
<1>2. made \in Seq(Numbers) /\ issued \in Nat
  BY Lengths DEF SequenceInv
<1>3. Issued \in Seq(Numbers) /\ Len(Issued) = issued
      /\ \A i \in 1 .. issued : Issued[i] = made[i]
  BY IssuedIds DEF SequenceInv
<1>4. made[issued + 1] \in Numbers
  BY <1>1, <1>2
<1>5. Len(Issued') = issued + 1 /\ Issued'[issued + 1] = made[issued + 1]
  <2> HIDE DEF Issued
  <2> QED BY <1>1, <1>3, <1>4
<1>6. \A i \in 1 .. issued : made[i] # made[issued + 1]
  BY <1>1, <1>2 DEF SequenceInv, Distinct
<1> QED BY <1>3, <1>5, <1>6

LEMMA PromiseInit == Init => Promise!Init
  BY DEF Init, Promise!Init

(* Every step is a step or a stutter of the promise.                       *)
LEMMA PromiseStep ==
  ASSUME SequenceInv, SequenceInv', [Next]_vars
  PROVE  [Promise!Issue]_Issued
<1>1. TypeOK /\ TypeOK' /\ made \in Seq(Numbers) /\ issued \in Nat
      /\ issued <= returned /\ returned \in Nat /\ returned <= Len(made)
  BY Lengths DEF SequenceInv
<1>2. CASE Generate
  <2>1. PICK n : made' = Append(made, n)
    BY <1>2 DEF Generate, Round
  <2>2. issued' = issued /\ \A i \in 1 .. issued : made'[i] = made[i]
    BY <1>1, <1>2, <2>1 DEF Generate
  <2> QED BY <1>1, <2>2, SameIds
<1>3. CASE Push
  BY <1>1, <1>3, SameIds DEF Push
<1>4. CASE GetUUID
  <2>1. CASE disturbed
    <3>1. issued' = issued /\ made' = made
      BY <1>4, <2>1 DEF GetUUID
    <3> QED BY <1>1, <3>1, SameIds
  <2>2. CASE ~disturbed
    <3>1. Issued' = Append(Issued, made[issued + 1])
      BY <1>4, <2>2, NextId
    <3>2. Len(Issued') = Len(Issued) + 1
          /\ Issued'[Len(Issued')] = made[issued + 1]
          /\ \A i \in 1 .. Len(Issued) : Issued[i] # made[issued + 1]
      BY <1>4, <2>2, NextIdNew
    <3> QED BY <3>1, <3>2 DEF Promise!Issue, Issued
  <2> QED BY <2>1, <2>2
<1>5. CASE Tick
  BY <1>1, <1>5, SameIds DEF Tick
<1>6. CASE StepBack
  BY <1>1, <1>6, SameIds DEF StepBack
<1>7. CASE Restart
  <2>1. issued' = issued /\ \A i \in 1 .. issued : made'[i] = made[i]
    BY <1>1, <1>7 DEF Restart
  <2> QED BY <1>1, <2>1, SameIds
<1>8. CASE UNCHANGED vars
  BY <1>8 DEF vars, Issued
<1> QED BY <1>2, <1>3, <1>4, <1>5, <1>6, <1>7, <1>8 DEF Next

(* The generator implements UniqueIds: no number that GetUUID returned     *)
(* before the first disturbance is returned again before it.               *)
THEOREM GeneratorKeepsPromise == Spec => KeepsPromise
<1>1. Spec => []SequenceInv
  BY SequenceSafe
<1>2. SequenceInv /\ SequenceInv' /\ [Next]_vars => [Promise!Issue]_Issued
  BY PromiseStep
<1>3. SequenceInv /\ SequenceInv' /\ [Next]_vars
        => [Promise!Issue]_(SubSeq(made, 1, issued))
  BY <1>2 DEF Issued
<1> QED BY <1>1, <1>3, PromiseInit, PTL DEF Spec, KeepsPromise, Promise!Spec
=============================================================================
