---------------------------- MODULE MQTTQueueProofs ----------------------------
(* Theorems about MQTTQueue, for every finite set of drains, every capacity   *)
(* and every bound on the messages.                                          *)
EXTENDS MQTTQueue, TLAPS, SequenceTheorems, FiniteSetTheorems

(* What ExactlyOnceInOrder needs: what left the buffer, to a drain or because *)
(* it was full, is older than all the buffer holds.                          *)
Gone == pushed - Len(buf)

Ordered ==
  /\ pushed \in 0 .. MaxPushes
  /\ buf \in Seq(Nat) /\ Len(buf) <= Capacity /\ Gone \in Nat
  /\ \A i \in 1 .. Len(buf) : buf[i] = Gone + i
  /\ consumed \in Seq(Nat)
  /\ \A i \in 1 .. Len(consumed) : consumed[i] \in 1 .. Gone /\ consumed[i] \notin dropped
  /\ \A i, j \in 1 .. Len(consumed) : i < j => consumed[i] < consumed[j]
  /\ dropped \subseteq 1 .. Gone
  /\ Len(consumed) + Cardinality(dropped) = Gone

(* What NoSleeperBehindMail needs: a drain that is about to sleep has kept    *)
(* the lock since it saw the buffer empty.                                   *)
Dozing == \A d \in Drainers : pc[d] = "armed" => buf = <<>>

Inductive == FlagsOK /\ Ordered /\ LockOK /\ Dozing /\ NoSleeperBehindMail

-----------------------------------------------------------------------------
LEMMA FlagsStep == FlagsOK /\ [Next]_vars => FlagsOK'
<1> SUFFICES ASSUME FlagsOK, [Next]_vars PROVE FlagsOK'
  OBVIOUS
<1> USE DEF FlagsOK
<1>1. CASE push \/ close
  BY <1>1 DEF push, close
<1>2. ASSUME NEW d \in Drainers, NEW max \in 0 .. Capacity, DrainNow(d, max) \/ DrainWaiting(d, max)
      PROVE  FlagsOK'
  BY <1>2 DEF DrainNow, DrainWaiting, queue
<1>3. ASSUME NEW d \in Drainers, Running(d) \/ Reacquire(d)
      PROVE  FlagsOK'
  BY <1>3 DEF Running, ArmTimer, Wait, DrainReturns, Reacquire, queue
<1>4. ASSUME NEW d \in Drainers, TimerFires(d) \/ DeadlinePasses(d)
      PROVE  FlagsOK'
  BY <1>4 DEF TimerFires, DeadlinePasses, queue
<1>5. CASE UNCHANGED vars
  BY <1>5 DEF vars, queue, drains
<1>6. QED BY <1>1, <1>2, <1>3, <1>4, <1>5 DEF Next

-----------------------------------------------------------------------------
LEMMA PushOrdered == Ordered /\ push => Ordered'
<1> SUFFICES ASSUME Ordered, push PROVE Ordered'
  OBVIOUS
<1> USE QueueAssumption
<1>1. /\ Len(buf) \in Nat /\ Len(consumed) \in Nat /\ pushed \in Nat
      /\ Gone = pushed - Len(buf) /\ Gone \in Nat /\ Len(buf) <= Capacity
      /\ pushed' = pushed + 1 /\ pushed + 1 \in 0 .. MaxPushes /\ consumed' = consumed
  BY LenProperties DEF Ordered, push, Gone
<1>2. /\ IsFiniteSet(dropped) /\ Cardinality(dropped) \in Nat
      /\ \A m : m \notin dropped => Cardinality(dropped \cup {m}) = Cardinality(dropped) + 1
  <2>1. IsFiniteSet(1 .. Gone)
    BY <1>1, FS_Interval
  <2>2. IsFiniteSet(dropped)
    BY <2>1, FS_Subset DEF Ordered
  <2>3. QED BY <2>2, FS_CardinalityType, FS_AddElement
<1>3. CASE Len(buf) >= Capacity
  <2>1. /\ buf' = Append(Tail(buf), pushed + 1) /\ dropped' = dropped \cup {Head(buf)}
        /\ buf \in Seq(Nat) /\ buf # <<>>
    BY <1>1, <1>3, EmptySeq DEF push, AppendOrReplace, Ordered
  <2>2. /\ Tail(buf) \in Seq(Nat) /\ Len(Tail(buf)) = Len(buf) - 1
        /\ \A i \in 1 .. Len(buf) - 1 : Tail(buf)[i] = buf[i + 1]
        /\ Head(buf) = buf[1]
    BY <2>1, HeadTailProperties
  <2>3. /\ buf' \in Seq(Nat) /\ Len(buf') = Len(buf)
        /\ \A i \in 1 .. Len(buf) - 1 : buf'[i] = buf[i + 1]
        /\ buf'[Len(buf)] = pushed + 1
    <3>1. /\ Append(Tail(buf), pushed + 1) \in Seq(Nat)
          /\ Len(Append(Tail(buf), pushed + 1)) = Len(Tail(buf)) + 1
          /\ \A i \in 1 .. Len(Tail(buf)) : Append(Tail(buf), pushed + 1)[i] = Tail(buf)[i]
          /\ Append(Tail(buf), pushed + 1)[Len(Tail(buf)) + 1] = pushed + 1
      BY <1>1, <2>2, AppendProperties
    <3>2. QED BY <1>1, <2>1, <2>2, <3>1
  <2>4. Gone' = Gone + 1
    BY <1>1, <2>3 DEF Gone
  <2>5. Head(buf) = Gone + 1 /\ Head(buf) \notin dropped
    BY <1>1, <1>3, <2>2 DEF Ordered
  <2>6. \A i \in 1 .. Len(buf') : buf'[i] = Gone' + i
    <3>1. \A i \in 1 .. Len(buf) : buf[i] = Gone + i
      BY DEF Ordered
    <3>2. TAKE i \in 1 .. Len(buf')
    <3>3. CASE i = Len(buf)
      BY <1>1, <2>3, <2>4, <3>3
    <3>4. CASE i # Len(buf)
      <4>1. i \in 1 .. Len(buf) - 1 /\ i + 1 \in 1 .. Len(buf) /\ i \in Nat
        BY <1>1, <2>3, <3>2, <3>4
      <4>2. buf'[i] = Gone + (i + 1)
        BY <2>3, <3>1, <4>1
      <4>3. QED BY <1>1, <2>4, <4>1, <4>2
    <3>5. QED BY <3>3, <3>4
  <2>7. Len(consumed') + Cardinality(dropped') = Gone'
    <3>1. Cardinality(dropped \cup {Head(buf)}) = Cardinality(dropped) + 1
      BY <1>2, <2>5
    <3>2. Cardinality(dropped') = Cardinality(dropped) + 1
      BY <2>1, <3>1
    <3>3. Len(consumed) + Cardinality(dropped) = Gone /\ Len(consumed') = Len(consumed)
      BY <1>1 DEF Ordered
    <3>4. QED BY <1>1, <1>2, <2>4, <3>2, <3>3
  <2>8. dropped' \subseteq 1 .. Gone'
    <3>1. dropped \subseteq 1 .. Gone /\ Gone + 1 \in 1 .. Gone + 1
      BY <1>1 DEF Ordered
    <3>2. 1 .. Gone \subseteq 1 .. Gone + 1
      BY <1>1
    <3>3. QED BY <2>1, <2>4, <2>5, <3>1, <3>2
  <2>9. \A i \in 1 .. Len(consumed') : consumed'[i] \in 1 .. Gone' /\ consumed'[i] \notin dropped'
    <3>1. \A i \in 1 .. Len(consumed) : consumed[i] \in 1 .. Gone /\ consumed[i] \notin dropped
      BY DEF Ordered
    <3>2. TAKE i \in 1 .. Len(consumed')
    <3>3. consumed'[i] = consumed[i] /\ consumed[i] \in 1 .. Gone /\ consumed[i] \notin dropped
      BY <1>1, <3>1, <3>2
    <3>4. consumed[i] # Head(buf)
      BY <1>1, <2>5, <3>3
    <3>5. QED BY <1>1, <2>1, <2>4, <3>3, <3>4
  <2>10. /\ consumed' \in Seq(Nat)
         /\ \A i, j \in 1 .. Len(consumed') : i < j => consumed'[i] < consumed'[j]
    BY <1>1 DEF Ordered
  <2>11. /\ pushed' \in 0 .. MaxPushes /\ Gone' \in Nat
         /\ buf' \in Seq(Nat) /\ Len(buf') <= Capacity
    BY <1>1, <2>3, <2>4
  <2>12. QED BY <2>6, <2>7, <2>8, <2>9, <2>10, <2>11 DEF Ordered
<1>4. CASE ~(Len(buf) >= Capacity)
  <2>1. buf' = Append(buf, pushed + 1) /\ dropped' = dropped
    BY <1>1, <1>4 DEF push, AppendOrReplace
  <2>2. /\ buf' \in Seq(Nat) /\ Len(buf') = Len(buf) + 1
        /\ \A i \in 1 .. Len(buf) : buf'[i] = buf[i]
        /\ buf'[Len(buf) + 1] = pushed + 1
    BY <1>1, <2>1, AppendProperties DEF Ordered
  <2>3. Gone' = Gone
    <3>1. pushed' - Len(buf') = pushed - Len(buf)
      BY <1>1, <2>2
    <3>2. QED BY <3>1 DEF Gone
  <2>4. \A i \in 1 .. Len(buf') : buf'[i] = Gone' + i
    <3>1. \A i \in 1 .. Len(buf) : buf[i] = Gone + i
      BY DEF Ordered
    <3>2. TAKE i \in 1 .. Len(buf')
    <3>3. CASE i = Len(buf) + 1
      BY <1>1, <2>2, <2>3, <3>3
    <3>4. CASE i # Len(buf) + 1
      <4>1. i \in 1 .. Len(buf)
        BY <1>1, <2>2, <3>2, <3>4
      <4>2. QED BY <2>2, <2>3, <3>1, <4>1
    <3>5. QED BY <3>3, <3>4
  <2>5. /\ pushed' \in 0 .. MaxPushes /\ Gone' \in Nat
        /\ buf' \in Seq(Nat) /\ Len(buf') <= Capacity
    BY <1>1, <1>4, <2>2, <2>3
  <2>6. QED BY <1>1, <2>1, <2>3, <2>4, <2>5 DEF Ordered
<1>5. QED BY <1>3, <1>4

LEMMA TakeOrdered ==
  ASSUME Ordered, NEW n \in 0 .. Len(buf), Take(n), pushed' = pushed, dropped' = dropped
  PROVE  Ordered' /\ Len(buf') = Len(buf) - n
<1>1. /\ Len(buf) \in Nat /\ Len(consumed) \in Nat /\ pushed \in Nat /\ n \in Nat /\ n <= Len(buf)
      /\ Gone = pushed - Len(buf) /\ Gone \in Nat /\ Len(buf) <= Capacity
      /\ buf \in Seq(Nat) /\ consumed \in Seq(Nat)
  BY LenProperties DEF Ordered, Gone
<1>2. /\ \A i \in 1 .. Len(buf) : buf[i] = Gone + i
      /\ \A i \in 1 .. Len(consumed) : consumed[i] \in 1 .. Gone /\ consumed[i] \notin dropped
      /\ \A i, j \in 1 .. Len(consumed) : i < j => consumed[i] < consumed[j]
      /\ dropped \subseteq 1 .. Gone /\ Len(consumed) + Cardinality(dropped) = Gone
      /\ IsFiniteSet(dropped) /\ Cardinality(dropped) \in Nat
  <2>1. IsFiniteSet(1 .. Gone)
    BY <1>1, FS_Interval
  <2>2. IsFiniteSet(dropped)
    BY <2>1, FS_Subset DEF Ordered
  <2>3. QED BY <2>2, FS_CardinalityType DEF Ordered
<1> DEFINE taken == SubSeq(buf, 1, n)
           left  == SubSeq(buf, n + 1, Len(buf))
<1>3. \A i \in 1 .. Len(buf) : buf[i] \in Nat
  BY <1>1, <1>2
<1>4. taken \in Seq(Nat) /\ Len(taken) = n /\ \A i \in 1 .. n : taken[i] = Gone + i
  <2>1. \A i \in 1 .. n : buf[i] \in Nat /\ buf[i] = Gone + i
    BY <1>1, <1>2
  <2>2. /\ taken \in Seq(Nat) /\ Len(taken) = (IF 1 <= n THEN n - 1 + 1 ELSE 0)
        /\ \A i \in 1 .. n - 1 + 1 : taken[i] = buf[1 + i - 1]
    BY <1>1, <2>1, SubSeqProperties
  <2>3. QED BY <1>1, <2>1, <2>2
<1>5. /\ left \in Seq(Nat) /\ Len(left) = Len(buf) - n
      /\ \A i \in 1 .. Len(buf) - n : left[i] = Gone + n + i
  <2>1. \A i \in n + 1 .. Len(buf) : buf[i] \in Nat
    BY <1>1, <1>3
  <2>2. /\ left \in Seq(Nat)
        /\ Len(left) = (IF n + 1 <= Len(buf) THEN Len(buf) - (n + 1) + 1 ELSE 0)
        /\ \A i \in 1 .. Len(buf) - (n + 1) + 1 : left[i] = buf[(n + 1) + i - 1]
    BY <1>1, <2>1, SubSeqProperties
  <2>3. \A i \in 1 .. Len(buf) - n : n + i \in 1 .. Len(buf) /\ (n + 1) + i - 1 = n + i
    BY <1>1
  <2>4. Len(buf) - (n + 1) + 1 = Len(buf) - n
    BY <1>1
  <2>5. ASSUME NEW i \in 1 .. Len(buf) - n PROVE left[i] = Gone + n + i
    <3>1. left[i] = buf[n + i]
      BY <2>2, <2>3, <2>4
    <3>2. buf[n + i] = Gone + (n + i)
      BY <1>2, <2>3
    <3>3. QED BY <1>1, <3>1, <3>2
  <2>6. Len(left) = Len(buf) - n
    <3>1. CASE n + 1 <= Len(buf)
      BY <1>1, <2>2, <2>4, <3>1
    <3>2. CASE ~(n + 1 <= Len(buf))
      BY <1>1, <2>2, <3>2
    <3>3. QED BY <3>1, <3>2
  <2>7. QED BY <2>2, <2>5, <2>6
<1>6. /\ consumed \o taken \in Seq(Nat) /\ Len(consumed \o taken) = Len(consumed) + n
      /\ \A i \in 1 .. Len(consumed) : (consumed \o taken)[i] = consumed[i]
      /\ \A i \in Len(consumed) + 1 .. Len(consumed) + n :
           (consumed \o taken)[i] = Gone + (i - Len(consumed))
  <2>1. /\ consumed \o taken \in Seq(Nat) /\ Len(consumed \o taken) = Len(consumed) + Len(taken)
        /\ \A i \in 1 .. Len(consumed) + Len(taken) : (consumed \o taken)[i] =
             IF i <= Len(consumed) THEN consumed[i] ELSE taken[i - Len(consumed)]
    BY <1>1, <1>4, ConcatProperties
  <2> HIDE DEF taken
  <2>2. \A i \in 1 .. Len(consumed) : (consumed \o taken)[i] = consumed[i]
    BY <1>1, <1>4, <2>1
  <2>3. ASSUME NEW i \in Len(consumed) + 1 .. Len(consumed) + n
        PROVE  (consumed \o taken)[i] = Gone + (i - Len(consumed))
    <3>1. i - Len(consumed) \in 1 .. n /\ (consumed \o taken)[i] = taken[i - Len(consumed)]
      BY <1>1, <1>4, <2>1
    <3>2. QED BY <1>4, <3>1
  <2>4. QED BY <1>4, <2>1, <2>2, <2>3
<1> HIDE DEF taken, left
<1>7. consumed' = consumed \o taken /\ buf' = left
  BY DEF Take, Remove, taken, left
<1>8. Gone' = Gone + n
  <2>1. pushed' - Len(buf') = Gone + n
    <3>1. Len(buf') = Len(buf) - n
      BY <1>5, <1>7
    <3>2. pushed - (Len(buf) - n) = Gone + n
      BY <1>1
    <3>3. QED BY <3>1, <3>2
  <2>2. QED BY <2>1 DEF Gone
<1>9. /\ Len(buf') = Len(buf) - n /\ buf' \in Seq(Nat) /\ Len(buf') <= Capacity
      /\ pushed' \in 0 .. MaxPushes /\ Gone' \in Nat
      /\ \A i \in 1 .. Len(buf') : buf'[i] = Gone' + i
  <2>1. pushed \in 0 .. MaxPushes
    BY DEF Ordered
  <2>2. Len(buf) - n <= Capacity /\ Gone + n \in Nat
    BY <1>1, QueueAssumption
  <2>3. QED BY <1>5, <1>7, <1>8, <2>1, <2>2
<1>10. /\ consumed' \in Seq(Nat) /\ Len(consumed') = Len(consumed) + n
       /\ \A i \in 1 .. Len(consumed) : consumed'[i] = consumed[i]
       /\ \A i \in Len(consumed) + 1 .. Len(consumed) + n :
            consumed'[i] = Gone + (i - Len(consumed))
  BY <1>6, <1>7
<1>11. \A i \in 1 .. Len(consumed') : consumed'[i] \in 1 .. Gone' /\ consumed'[i] \notin dropped'
  <2>1. TAKE i \in 1 .. Len(consumed')
  <2>2. CASE i <= Len(consumed)
    <3>1. i \in 1 .. Len(consumed)
      BY <1>1, <1>10, <2>1, <2>2
    <3>2. consumed'[i] = consumed[i] /\ consumed[i] \in 1 .. Gone /\ consumed[i] \notin dropped
      BY <1>2, <1>10, <3>1
    <3>3. QED BY <1>1, <1>8, <3>2
  <2>3. CASE ~(i <= Len(consumed))
    <3>1. i \in Len(consumed) + 1 .. Len(consumed) + n
      BY <1>1, <1>10, <2>1, <2>3
    <3>2. consumed'[i] = Gone + (i - Len(consumed)) /\ i - Len(consumed) \in 1 .. n
      BY <1>1, <1>10, <3>1
    <3>3. consumed'[i] \in 1 .. Gone + n /\ consumed'[i] \notin 1 .. Gone
      BY <1>1, <3>2
    <3>4. QED BY <1>2, <1>8, <3>3
  <2>4. QED BY <2>2, <2>3
<1>12. \A i, j \in 1 .. Len(consumed') : i < j => consumed'[i] < consumed'[j]
  <2>1. SUFFICES ASSUME NEW i \in 1 .. Len(consumed'), NEW j \in 1 .. Len(consumed'), i < j
                 PROVE  consumed'[i] < consumed'[j]
    OBVIOUS
  <2>2. i \in 1 .. Len(consumed) + n /\ j \in 1 .. Len(consumed) + n
    BY <1>10, <2>1
  <2>3. CASE j <= Len(consumed)
    <3>1. i \in 1 .. Len(consumed) /\ j \in 1 .. Len(consumed)
      BY <1>1, <2>1, <2>2, <2>3
    <3>2. QED BY <1>2, <1>10, <2>1, <3>1
  <2>4. CASE ~(j <= Len(consumed)) /\ i <= Len(consumed)
    <3>1. i \in 1 .. Len(consumed) /\ j \in Len(consumed) + 1 .. Len(consumed) + n
      BY <1>1, <2>2, <2>4
    <3>2. consumed'[i] \in 1 .. Gone /\ consumed'[j] = Gone + (j - Len(consumed))
      BY <1>2, <1>10, <3>1
    <3>3. QED BY <1>1, <3>1, <3>2
  <2>5. CASE ~(j <= Len(consumed)) /\ ~(i <= Len(consumed))
    <3>1. i \in Len(consumed) + 1 .. Len(consumed) + n /\ j \in Len(consumed) + 1 .. Len(consumed) + n
      BY <1>1, <2>2, <2>5
    <3>2. consumed'[i] = Gone + (i - Len(consumed)) /\ consumed'[j] = Gone + (j - Len(consumed))
      BY <1>10, <3>1
    <3>3. QED BY <1>1, <2>1, <3>1, <3>2
  <2>6. QED BY <2>3, <2>4, <2>5
<1>13. dropped' \subseteq 1 .. Gone' /\ Len(consumed') + Cardinality(dropped') = Gone'
  <2>1. 1 .. Gone \subseteq 1 .. Gone + n
    BY <1>1
  <2>2. Len(consumed) + n + Cardinality(dropped) = Gone + n
    <3>1. Len(consumed) + Cardinality(dropped) = Gone /\ Cardinality(dropped) \in Nat
      BY <1>2
    <3>2. n \in Nat /\ Len(consumed) \in Nat
      BY <1>1
    <3>3. QED BY <3>1, <3>2
  <2>3. QED BY <1>2, <1>8, <1>10, <2>1, <2>2
<1>14. QED BY <1>9, <1>10, <1>11, <1>12, <1>13 DEF Ordered

LEMMA OrderedStep == Ordered /\ LockOK /\ [Next]_vars => Ordered'
<1> SUFFICES ASSUME Ordered, LockOK, [Next]_vars PROVE Ordered'
  OBVIOUS
<1>1. Len(buf) \in Nat /\ want \in [Drainers -> 0 .. Capacity] /\ QueueAssumption
  BY LenProperties, QueueAssumption DEF Ordered, LockOK
<1>2. ASSUME UNCHANGED queue, UNCHANGED consumed
      PROVE  Ordered'
  BY <1>2 DEF Ordered, Gone, queue
<1>3. CASE push
  BY <1>3, PushOrdered
<1>4. CASE close
  BY <1>4 DEF close, Ordered, Gone
<1>5. ASSUME NEW d \in Drainers, NEW max \in 0 .. Capacity, DrainNow(d, max)
      PROVE  Ordered'
  <2> DEFINE n == IF max > Len(buf) THEN Len(buf) ELSE max
  <2>1. n \in 0 .. Len(buf)
    BY <1>1 DEF QueueAssumption
  <2>2. Take(n) /\ pushed' = pushed /\ dropped' = dropped
    BY <1>5 DEF DrainNow
  <2>3. QED BY <2>1, <2>2, TakeOrdered
<1>6. ASSUME NEW d \in Drainers, NEW max \in 0 .. Capacity, DrainWaiting(d, max)
      PROVE  Ordered'
  BY <1>2, <1>6 DEF DrainWaiting
<1>7. ASSUME NEW d \in Drainers, DrainReturns(d)
      PROVE  Ordered'
  <2> DEFINE n == IF want[d] = 0 \/ want[d] > Len(buf) THEN Len(buf) ELSE want[d]
  <2>1. n \in 0 .. Len(buf)
    <3>1. want[d] \in 0 .. Capacity /\ Capacity \in Nat
      BY <1>1 DEF QueueAssumption
    <3>2. QED BY <1>1, <3>1
  <2>2. Take(n) /\ pushed' = pushed /\ dropped' = dropped
    BY <1>7 DEF DrainReturns
  <2>3. QED BY <2>1, <2>2, TakeOrdered
<1>8. ASSUME NEW d \in Drainers,
             ArmTimer(d) \/ Wait(d) \/ Reacquire(d) \/ TimerFires(d) \/ DeadlinePasses(d)
      PROVE  Ordered'
  BY <1>2, <1>8 DEF ArmTimer, Wait, Reacquire, TimerFires, DeadlinePasses
<1>9. CASE UNCHANGED vars
  BY <1>2, <1>9 DEF vars, drains
<1>10. QED BY <1>3, <1>4, <1>5, <1>6, <1>7, <1>8, <1>9 DEF Next, Running

-----------------------------------------------------------------------------
(* The steps by the drain they move.                                         *)
Holding == {"check", "armed"}

(* pc and want keep their types, and only a drain that saw the lock free      *)
(* takes it.                                                                 *)
LEMMA LockMoves ==
  ASSUME LockOK, NEW d \in Drainers,
         pc' \in [Drainers -> Phases], want' \in [Drainers -> 0 .. Capacity],
         \A e \in Drainers \ {d} : pc'[e] = pc[e],
         pc'[d] \in Holding => pc[d] \in Holding \/ Unlocked
  PROVE  LockOK'
<1>1. \A e, f \in Drainers : pc[e] \in Holding /\ pc[f] \in Holding => e = f
  BY DEF LockOK, Holding
<1>2. ASSUME NEW e \in Drainers, NEW f \in Drainers, pc'[e] \in Holding, pc'[f] \in Holding
      PROVE  e = f
  <2>1. CASE e # d /\ f # d
    BY <1>1, <1>2, <2>1
  <2>2. CASE e = d /\ f # d
    <3>1. pc[f] \in Holding
      BY <1>2, <2>2
    <3>2. QED BY <1>1, <1>2, <2>2, <3>1 DEF Unlocked, Holding
  <2>3. CASE e # d /\ f = d
    <3>1. pc[e] \in Holding
      BY <1>2, <2>3
    <3>2. QED BY <1>1, <1>2, <2>3, <3>1 DEF Unlocked, Holding
  <2>4. CASE e = d /\ f = d
    BY <2>4
  <2>5. QED BY <2>1, <2>2, <2>3, <2>4
<1>3. QED BY <1>2 DEF LockOK, Holding

(* Waking drains is none of the lock's business.                             *)
LEMMA WakingKeepsLock ==
  ASSUME LockOK, Dozing, want' = want, buf' = buf \/ Unlocked,
         pc' = pc \/ Broadcast \/ (\E d \in Asleep : pc' = [pc EXCEPT ![d] = "woken"])
  PROVE  LockOK' /\ Dozing'
<1>1. /\ pc' \in [Drainers -> Phases]
      /\ \A e \in Drainers : pc'[e] \in Holding => pc'[e] = pc[e]
  BY DEF LockOK, Phases, Broadcast, Asleep, Holding
<1>2. LockOK'
  BY <1>1 DEF LockOK, Holding
<1>3. Dozing'
  BY <1>1 DEF Dozing, Holding, Unlocked
<1>4. QED BY <1>2, <1>3

LEMMA LockStep == LockOK /\ Dozing /\ [Next]_vars => LockOK' /\ Dozing'
<1> SUFFICES ASSUME LockOK, Dozing, [Next]_vars PROVE LockOK' /\ Dozing'
  OBVIOUS
<1>1. CASE push
  BY <1>1, WakingKeepsLock DEF push, Signal
<1>2. CASE close
  BY <1>2, WakingKeepsLock DEF close, WakeAll
<1>3. ASSUME NEW d \in Drainers, NEW max \in 0 .. Capacity, DrainNow(d, max)
      PROVE  LockOK' /\ Dozing'
  BY <1>3, WakingKeepsLock DEF DrainNow
<1>4. ASSUME NEW d \in Drainers, NEW max \in 0 .. Capacity, DrainWaiting(d, max)
      PROVE  LockOK' /\ Dozing'
  <2>1. /\ pc' \in [Drainers -> Phases] /\ want' \in [Drainers -> 0 .. Capacity]
        /\ \A e \in Drainers \ {d} : pc'[e] = pc[e]
        /\ pc'[d] = "check" /\ Unlocked /\ buf' = buf
    BY <1>4 DEF DrainWaiting, LockOK, Phases, queue
  <2>2. LockOK'
    BY <2>1, LockMoves
  <2>3. QED BY <2>1, <2>2 DEF Dozing
<1>5. ASSUME NEW d \in Drainers, ArmTimer(d)
      PROVE  LockOK' /\ Dozing'
  <2>1. /\ pc' \in [Drainers -> Phases] /\ want' \in [Drainers -> 0 .. Capacity]
        /\ \A e \in Drainers \ {d} : pc'[e] = pc[e]
        /\ pc[d] \in Holding /\ buf' = <<>>
    BY <1>5 DEF ArmTimer, MustWait, LockOK, Phases, Holding, queue
  <2>2. LockOK'
    BY <2>1, LockMoves
  <2>3. QED BY <2>1, <2>2 DEF Dozing
<1>6. ASSUME NEW d \in Drainers, Wait(d)
      PROVE  LockOK' /\ Dozing'
  <2>1. /\ pc' \in [Drainers -> Phases] /\ want' \in [Drainers -> 0 .. Capacity]
        /\ \A e \in Drainers \ {d} : pc'[e] = pc[e]
        /\ pc'[d] = "asleep" /\ buf' = buf
    BY <1>6 DEF Wait, LockOK, Phases, queue
  <2>2. LockOK'
    BY <2>1, LockMoves DEF Holding
  <2>3. QED BY <2>1, <2>2 DEF Dozing
<1>7. ASSUME NEW d \in Drainers, Reacquire(d)
      PROVE  LockOK' /\ Dozing'
  <2>1. /\ pc' \in [Drainers -> Phases] /\ want' \in [Drainers -> 0 .. Capacity]
        /\ \A e \in Drainers \ {d} : pc'[e] = pc[e]
        /\ pc'[d] = "check" /\ Unlocked /\ buf' = buf
    BY <1>7 DEF Reacquire, LockOK, Phases, queue
  <2>2. LockOK'
    BY <2>1, LockMoves
  <2>3. QED BY <2>1, <2>2 DEF Dozing
<1>8. ASSUME NEW d \in Drainers, DrainReturns(d)
      PROVE  LockOK' /\ Dozing'
  <2>1. /\ pc' \in [Drainers -> Phases] /\ want' \in [Drainers -> 0 .. Capacity]
        /\ \A e \in Drainers \ {d} : pc'[e] = pc[e]
        /\ pc[d] \in Holding /\ pc'[d] = "idle"
    BY <1>8, QueueAssumption DEF DrainReturns, LockOK, Phases, Holding, QueueAssumption
  <2>2. LockOK'
    BY <2>1, LockMoves
  <2>3. \A e \in Drainers : pc'[e] # "armed"
    BY <2>1 DEF LockOK, Holding
  <2>4. QED BY <2>2, <2>3 DEF Dozing
<1>9. ASSUME NEW d \in Drainers, TimerFires(d) \/ DeadlinePasses(d)
      PROVE  LockOK' /\ Dozing'
  BY <1>9, WakingKeepsLock DEF TimerFires, DeadlinePasses, queue
<1>10. CASE UNCHANGED vars
  BY <1>10, WakingKeepsLock DEF vars, queue, drains
<1>11. QED BY <1>1, <1>2, <1>3, <1>4, <1>5, <1>6, <1>7, <1>8, <1>9, <1>10 DEF Next, Running

-----------------------------------------------------------------------------
(* The drains that will look at the buffer before they sleep.                *)
Awake == {d \in Drainers : pc[d] \in {"woken", "check"}}

LEMMA AwakeCounted == IsFiniteSet(Awake) /\ Cardinality(Awake) \in Nat
<1>1. IsFiniteSet(Awake)
  BY QueueAssumption, FS_Subset DEF QueueAssumption, Awake
<1>2. QED BY <1>1, FS_CardinalityType

(* A drain wakes or comes in, one leaves, or none does.                      *)
LEMMA AwakeMoves ==
  ASSUME NEW d \in Drainers, \A e \in Drainers \ {d} : pc'[e] = pc[e]
  PROVE  /\ pc[d] \notin {"woken", "check"} /\ pc'[d] \in {"woken", "check"}
              => Cardinality(Awake') = Cardinality(Awake) + 1
         /\ pc[d] \in {"woken", "check"} /\ pc'[d] \notin {"woken", "check"}
              => Cardinality(Awake') = Cardinality(Awake) - 1
         /\ (pc[d] \in {"woken", "check"} <=> pc'[d] \in {"woken", "check"})
              => Cardinality(Awake') = Cardinality(Awake)
<1>1. CASE pc[d] \notin {"woken", "check"} /\ pc'[d] \in {"woken", "check"}
  <2>1. Awake' = Awake \cup {d} /\ d \notin Awake
    BY <1>1 DEF Awake
  <2>2. QED BY <1>1, <2>1, AwakeCounted, FS_AddElement
<1>2. CASE pc[d] \in {"woken", "check"} /\ pc'[d] \notin {"woken", "check"}
  <2>1. Awake' = Awake \ {d} /\ d \in Awake
    BY <1>2 DEF Awake
  <2>2. QED BY <1>2, <2>1, AwakeCounted, FS_RemoveElement
<1>3. CASE pc[d] \in {"woken", "check"} <=> pc'[d] \in {"woken", "check"}
  <2>1. Awake' = Awake
    BY <1>3 DEF Awake
  <2>2. QED BY <1>3, <2>1
<1>4. QED BY <1>1, <1>2, <1>3

Mail == Asleep # {} => Len(buf) <= Cardinality(Awake)

LEMMA SleeperStep ==
  ASSUME Ordered, Ordered', LockOK, Dozing, Mail, [Next]_vars
  PROVE  Mail'
<1>1. /\ Len(buf) \in Nat /\ Len(buf') \in Nat /\ Cardinality(Awake) \in Nat
      /\ pc \in [Drainers -> Phases] /\ want \in [Drainers -> 0 .. Capacity]
  BY LenProperties, AwakeCounted DEF Ordered, LockOK
<1>2. ASSUME pc' = pc, buf' = buf
      PROVE  Mail'
  BY <1>2 DEF Mail, Asleep, Awake
<1>3. ASSUME Broadcast
      PROVE  Mail'
  BY <1>3 DEF Broadcast, Mail, Asleep
<1>4. CASE push
  <2>1. Len(buf') <= Len(buf) + 1
    <3>1. pushed' - Len(buf') \in Nat /\ pushed' = pushed + 1 /\ pushed \in Nat
      BY <1>4 DEF Ordered, Gone, push
    <3>2. CASE Len(buf) >= Capacity
      BY <1>1, <3>2, QueueAssumption DEF Ordered, QueueAssumption
    <3>3. CASE ~(Len(buf) >= Capacity)
      <4>1. buf' = Append(buf, pushed + 1) /\ buf \in Seq(Nat) /\ pushed + 1 \in Nat
        BY <1>4, <3>1, <3>3 DEF push, AppendOrReplace, Ordered
      <4>2. Len(buf') = Len(buf) + 1
        BY <4>1, AppendProperties
      <4>3. QED BY <1>1, <4>2
    <3>4. QED BY <3>2, <3>3
  <2>2. CASE Asleep = {}
    <3>1. pc' = pc
      BY <1>4, <2>2 DEF push, Signal
    <3>2. QED BY <2>2, <3>1 DEF Mail, Asleep
  <2>3. CASE Asleep # {}
    <3>1. PICK d \in Asleep : pc' = [pc EXCEPT ![d] = "woken"]
      BY <1>4, <2>3 DEF push, Signal
    <3>2. /\ d \in Drainers /\ pc[d] = "asleep" /\ pc'[d] = "woken"
          /\ \A e \in Drainers \ {d} : pc'[e] = pc[e]
      BY <1>1, <3>1 DEF Asleep
    <3>3. Cardinality(Awake') = Cardinality(Awake) + 1
      BY <3>2, AwakeMoves
    <3>4. Len(buf) <= Cardinality(Awake)
      BY <2>3 DEF Mail
    <3>5. QED BY <1>1, <2>1, <3>3, <3>4 DEF Mail
  <2>4. QED BY <2>2, <2>3
<1>5. CASE close
  BY <1>3, <1>5 DEF close, WakeAll
<1>6. ASSUME NEW d \in Drainers, NEW max \in 0 .. Capacity, DrainNow(d, max)
      PROVE  Mail'
  <2> DEFINE n == IF max > Len(buf) THEN Len(buf) ELSE max
  <2>1. n \in 0 .. Len(buf)
    BY <1>1, QueueAssumption DEF QueueAssumption
  <2>2. Take(n) /\ pushed' = pushed /\ dropped' = dropped /\ pc' = pc
    BY <1>6 DEF DrainNow
  <2>3. Len(buf') = Len(buf) - n
    BY <2>1, <2>2, TakeOrdered
  <2>4. Len(buf') <= Len(buf)
    BY <1>1, <2>1, <2>3
  <2>5. Asleep' = Asleep /\ Awake' = Awake
    BY <2>2 DEF Asleep, Awake
  <2>6. QED BY <1>1, <2>4, <2>5 DEF Mail
<1>7. ASSUME NEW d \in Drainers, NEW max \in 0 .. Capacity, DrainWaiting(d, max)
      PROVE  Mail'
  <2>1. /\ pc[d] = "idle" /\ pc'[d] = "check" /\ buf' = buf
        /\ \A e \in Drainers \ {d} : pc'[e] = pc[e]
    BY <1>1, <1>7 DEF DrainWaiting, queue
  <2>2. Cardinality(Awake') = Cardinality(Awake) + 1 /\ Asleep' = Asleep
    BY <2>1, AwakeMoves DEF Asleep
  <2>3. QED BY <1>1, <2>1, <2>2 DEF Mail
<1>8. ASSUME NEW d \in Drainers, ArmTimer(d) \/ Wait(d)
      PROVE  Mail'
  <2>1. buf' = <<>>
    BY <1>8 DEF ArmTimer, MustWait, Wait, Dozing, queue
  <2>2. Len(buf') = 0
    BY <2>1, EmptySeq
  <2>3. Cardinality(Awake') \in Nat
    <3>1. IsFiniteSet(Awake')
      BY QueueAssumption, FS_Subset DEF QueueAssumption, Awake
    <3>2. QED BY <3>1, FS_CardinalityType
  <2>4. QED BY <2>2, <2>3 DEF Mail
<1>9. ASSUME NEW d \in Drainers, Reacquire(d)
      PROVE  Mail'
  <2>1. /\ pc[d] = "woken" /\ pc'[d] = "check" /\ buf' = buf
        /\ \A e \in Drainers \ {d} : pc'[e] = pc[e]
    BY <1>1, <1>9 DEF Reacquire, queue
  <2>2. Cardinality(Awake') = Cardinality(Awake) /\ Asleep' = Asleep
    BY <2>1, AwakeMoves DEF Asleep
  <2>3. QED BY <2>1, <2>2 DEF Mail
<1>10. ASSUME NEW d \in Drainers, DrainReturns(d)
      PROVE  Mail'
  <2> DEFINE n == IF want[d] = 0 \/ want[d] > Len(buf) THEN Len(buf) ELSE want[d]
  <2>1. n \in 0 .. Len(buf) /\ (n = 0 => Len(buf) = 0)
    <3>1. want[d] \in 0 .. Capacity /\ Capacity \in Nat
      BY <1>1, QueueAssumption DEF QueueAssumption
    <3>2. QED BY <1>1, <3>1
  <2>2. Take(n) /\ pushed' = pushed /\ dropped' = dropped
    BY <1>10 DEF DrainReturns
  <2>3. Len(buf') = Len(buf) - n
    BY <2>1, <2>2, TakeOrdered
  <2> HIDE DEF n
  <2>4. Len(buf') = 0 \/ Len(buf') <= Len(buf) - 1
    BY <1>1, <2>1, <2>3
  <2>5. /\ pc[d] = "check" /\ pc'[d] = "idle"
        /\ \A e \in Drainers \ {d} : pc'[e] = pc[e]
    BY <1>1, <1>10 DEF DrainReturns
  <2>6. Cardinality(Awake') = Cardinality(Awake) - 1 /\ Asleep' = Asleep
    BY <2>5, AwakeMoves DEF Asleep
  <2>7. Cardinality(Awake) >= 1
    <3>1. IsFiniteSet(Awake) /\ Awake # {}
      BY <2>5, AwakeCounted DEF Awake
    <3>2. Cardinality(Awake) # 0
      BY <3>1, FS_EmptySet
    <3>3. QED BY <1>1, <3>2
  <2>8. QED BY <1>1, <2>4, <2>6, <2>7 DEF Mail
<1>11. ASSUME NEW d \in Drainers, TimerFires(d) \/ DeadlinePasses(d)
      PROVE  Mail'
  BY <1>2, <1>3, <1>11 DEF TimerFires, DeadlinePasses, queue
<1>12. CASE UNCHANGED vars
  BY <1>2, <1>12 DEF vars, queue, drains
<1>13. QED BY <1>4, <1>5, <1>6, <1>7, <1>8, <1>9, <1>10, <1>11, <1>12 DEF Next, Running

-----------------------------------------------------------------------------
LEMMA InductiveInit == Init => Inductive
<1> SUFFICES ASSUME Init PROVE Inductive
  OBVIOUS
<1>1. FlagsOK
  BY DEF Init, FlagsOK
<1>2. LockOK /\ Dozing /\ NoSleeperBehindMail
  BY QueueAssumption
     DEF Init, LockOK, Phases, Dozing, NoSleeperBehindMail, Asleep, QueueAssumption
<1>3. Ordered
  <2>1. /\ buf = <<>> /\ consumed = <<>> /\ dropped = {} /\ pushed = 0
        /\ Len(buf) = 0 /\ Len(consumed) = 0 /\ <<>> \in Seq(Nat) /\ Cardinality(dropped) = 0
    BY EmptySeq, FS_EmptySet DEF Init
  <2>2. Gone = 0
    <3>1. pushed = 0 /\ Len(buf) = 0
      BY <2>1
    <3>2. pushed - Len(buf) = 0
      BY <3>1
    <3>3. QED BY <3>2 DEF Gone
  <2>3. QED BY <2>1, <2>2, QueueAssumption DEF Ordered, QueueAssumption
<1>4. QED BY <1>1, <1>2, <1>3 DEF Inductive

LEMMA InductiveStep == Inductive /\ [Next]_vars => Inductive'
<1> SUFFICES ASSUME Inductive, [Next]_vars PROVE Inductive'
  OBVIOUS
<1>1. Ordered'
  BY OrderedStep DEF Inductive
<1>2. LockOK' /\ Dozing' /\ FlagsOK'
  BY LockStep, FlagsStep DEF Inductive
<1>3. NoSleeperBehindMail'
  <2>1. Mail
    BY DEF Inductive, NoSleeperBehindMail, Mail, Awake
  <2>2. Mail'
    BY <1>1, <2>1, SleeperStep DEF Inductive
  <2>3. QED BY <2>2 DEF NoSleeperBehindMail, Mail, Awake
<1>4. QED BY <1>1, <1>2, <1>3 DEF Inductive

(* The strengthening of ExactlyOnceInOrder and of NoSleeperBehindMail that the *)
(* steps of mqttQueue preserve by themselves.                                *)
THEOREM InductiveHolds == Spec => []Inductive
BY InductiveInit, InductiveStep, PTL DEF Spec

LEMMA NumberedAgain ==
  ASSUME NEW s \in Seq(Nat), NEW S, \A i \in 1 .. Len(s) : s[i] \in S
  PROVE  s \in Seq(S)
BY SeqDef, LenProperties

(* mqttQueue: every message push accepted is returned by exactly one drain,  *)
(* discarded by a full queue or still in the buffer, and the drains return   *)
(* messages in the order in which they arrived.                              *)
THEOREM ExactlyOnceInOrderHolds == Spec => []ExactlyOnceInOrder
<1>1. ASSUME Inductive PROVE ExactlyOnceInOrder
  <2>1. /\ FlagsOK /\ LockOK /\ Ordered
        /\ Len(buf) \in Nat /\ Len(consumed) \in Nat /\ pushed \in 0 .. MaxPushes
        /\ Gone = pushed - Len(buf) /\ Gone \in Nat
    BY <1>1, LenProperties DEF Inductive, Ordered, Gone
  <2>2. \A i \in 1 .. Len(buf) : buf[i] = Gone + i /\ buf[i] \in 1 .. pushed
    BY <2>1, QueueAssumption DEF Ordered, QueueAssumption
  <2>3. 1 .. Gone \subseteq 1 .. pushed
    BY <2>1, QueueAssumption DEF QueueAssumption
  <2>4. MessagesOK
    <3>1. buf \in Seq(1 .. pushed)
      BY <2>1, <2>2, NumberedAgain DEF Ordered
    <3>2. \A i \in 1 .. Len(consumed) : consumed[i] \in 1 .. pushed
      BY <2>1, <2>3 DEF Ordered
    <3>3. consumed \in Seq(1 .. pushed)
      BY <2>1, <3>2, NumberedAgain DEF Ordered
    <3>4. dropped \subseteq 1 .. pushed
      BY <2>1, <2>3 DEF Ordered
    <3>5. QED BY <2>1, <3>1, <3>3, <3>4 DEF MessagesOK, Ordered
  <2>5. Len(consumed) + Cardinality(dropped) + Len(buf) = pushed
    <3>1. Len(consumed) + Cardinality(dropped) = Gone
      BY <2>1 DEF Ordered
    <3>2. QED BY <2>1, <3>1
  <2>6. \A i \in 1 .. Len(buf) : buf[i] = pushed - Len(buf) + i
    BY <2>1, <2>2
  <2>7. QED BY <2>1, <2>4, <2>5, <2>6 DEF ExactlyOnceInOrder, TypeOK, Ordered
<1>2. QED BY <1>1, InductiveHolds, PTL

(* push signals and close broadcasts: no drain stays in cond.Wait while there *)
(* is a message that no drain is awake to take.                              *)
THEOREM NoSleeperBehindMailHolds == Spec => []NoSleeperBehindMail
<1>1. Inductive => NoSleeperBehindMail
  BY DEF Inductive
<1>2. QED BY <1>1, InductiveHolds, PTL
=============================================================================
