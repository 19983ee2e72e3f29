------------------------------ MODULE MQTTQueue ------------------------------
(***************************************************************************)
(* The message queue of one MQTT subscription (mqttQueue of                *)
(* ability/mqtt_ability.go): the transport pushes, drain commands take, a  *)
(* drain with a timeout waits on the condition variable q.cond, which a    *)
(* timer of its own broadcasts.                                            *)
(*                                                                         *)
(* A message is the number of its push. A message beyond                   *)
(* mqttMaxPayloadBytes is refused before the queue is looked at.           *)
(***************************************************************************)
EXTENDS Integers, Sequences, FiniteSets

CONSTANTS
  Drainers,   \* goroutines that call drain
  Capacity,   \* q.max; newMQTTQueue makes it positive
  MaxPushes   \* bound on the number of messages

ASSUME QueueAssumption ==
  Capacity \in Nat \ {0} /\ MaxPushes \in Nat /\ IsFiniteSet(Drainers)

VARIABLES
  buf, closed,   \* fields of mqttQueue, guarded by q.mu
  pc,            \* where each drain is
  want,          \* its max argument
  timer,         \* its time.AfterFunc is pending
  late,          \* its deadline has passed
  pushed,        \* history: number of messages accepted
  consumed,      \* history: what the drains returned, in order
  dropped        \* history: what push discarded

queue == <<buf, closed, pushed, dropped>>
drains == <<pc, want, timer, late, consumed>>
vars == <<queue, drains>>

(* "check" and "armed" hold q.mu; "asleep" is inside cond.Wait and "woken"   *)
(* is the same after a signal, before the lock is taken again.               *)
Phases == {"idle", "check", "armed", "asleep", "woken"}

Init ==
  /\ buf = <<>> /\ closed = FALSE
  /\ pc = [d \in Drainers |-> "idle"] /\ want = [d \in Drainers |-> 0]
  /\ timer = [d \in Drainers |-> FALSE] /\ late = [d \in Drainers |-> FALSE]
  /\ pushed = 0 /\ consumed = <<>> /\ dropped = {}

Unlocked == \A d \in Drainers : pc[d] \notin {"check", "armed"}
Asleep   == {d \in Drainers : pc[d] = "asleep"}

\* Variant: wake a drain only when the queue was empty.
SignalFirst == IF buf = <<>> /\ Asleep # {}
               THEN \E d \in Asleep : pc' = [pc EXCEPT ![d] = "woken"]
               ELSE UNCHANGED pc

Signal == IF Asleep = {} THEN UNCHANGED pc
          ELSE \E d \in Asleep : pc' = [pc EXCEPT ![d] = "woken"]

Broadcast == pc' = [d \in Drainers |-> IF d \in Asleep THEN "woken" ELSE pc[d]]

\* Variant: append without making room.
AppendAlways(m) == buf' = Append(buf, m) /\ UNCHANGED dropped

\* A full queue discards its oldest message.
AppendOrReplace(m) ==
  IF Len(buf) >= Capacity
  THEN buf' = Append(Tail(buf), m) /\ dropped' = dropped \cup {Head(buf)}
  ELSE buf' = Append(buf, m) /\ UNCHANGED dropped

push ==
  /\ Unlocked /\ ~closed
  /\ pushed < MaxPushes
  /\ pushed' = pushed + 1
  /\ AppendOrReplace(pushed')
  /\ Signal
  /\ UNCHANGED <<closed, want, timer, late, consumed>>

\* Variant: wake one drain when closing.
WakeOne == Signal

WakeAll == Broadcast

close ==
  /\ Unlocked
  /\ closed' = TRUE
  /\ WakeAll
  /\ UNCHANGED <<buf, pushed, dropped, want, timer, late, consumed>>

\* Variant: the last message returned stays in the buffer.
KeepLast(n) == buf' = SubSeq(buf, IF n = 0 THEN 1 ELSE n, Len(buf))

Remove(n) == buf' = SubSeq(buf, n + 1, Len(buf))

Take(n) ==
  /\ consumed' = consumed \o SubSeq(buf, 1, n)
  /\ Remove(n)

\* timeout = 0: max messages at most, none when max is 0.
DrainNow(d, max) ==
  /\ pc[d] = "idle" /\ Unlocked
  /\ Take(IF max > Len(buf) THEN Len(buf) ELSE max)
  /\ UNCHANGED <<closed, pushed, dropped, pc, want, timer, late>>

DrainWaiting(d, max) ==
  /\ pc[d] = "idle" /\ Unlocked
  /\ pc' = [pc EXCEPT ![d] = "check"]
  /\ want' = [want EXCEPT ![d] = max]
  /\ UNCHANGED <<queue, timer, late, consumed>>

MustWait(d) == buf = <<>> /\ ~closed /\ ~late[d]

\* time.AfterFunc is started with the lock held ...
ArmTimer(d) ==
  /\ pc[d] = "check" /\ MustWait(d)
  /\ pc' = [pc EXCEPT ![d] = "armed"]
  /\ timer' = [timer EXCEPT ![d] = TRUE]
  /\ UNCHANGED <<queue, want, late, consumed>>

\* ... and cond.Wait joins the waiters and releases it.
Wait(d) ==
  /\ pc[d] = "armed"
  /\ pc' = [pc EXCEPT ![d] = "asleep"]
  /\ UNCHANGED <<queue, want, timer, late, consumed>>

(* The timer's goroutine broadcasts without the lock. (One that timer.Stop   *)
(* came too late for wakes the others spuriously, which they tolerate.)      *)
TimerFires(d) ==
  /\ timer[d]
  /\ timer' = [timer EXCEPT ![d] = FALSE]
  /\ Broadcast
  /\ UNCHANGED <<queue, want, late, consumed>>

DeadlinePasses(d) ==
  /\ pc[d] # "idle" /\ ~late[d]
  /\ late' = [late EXCEPT ![d] = TRUE]
  /\ UNCHANGED <<queue, pc, want, timer, consumed>>

\* cond.Wait takes the lock again, timer.Stop.
Reacquire(d) ==
  /\ pc[d] = "woken" /\ Unlocked
  /\ pc' = [pc EXCEPT ![d] = "check"]
  /\ timer' = [timer EXCEPT ![d] = FALSE]
  /\ UNCHANGED <<queue, want, late, consumed>>

\* After the wait a max of 0 means everything.
DrainReturns(d) ==
  /\ pc[d] = "check" /\ ~MustWait(d)
  /\ Take(IF want[d] = 0 \/ want[d] > Len(buf) THEN Len(buf) ELSE want[d])
  /\ pc' = [pc EXCEPT ![d] = "idle"]
  /\ want' = [want EXCEPT ![d] = 0]
  /\ late' = [late EXCEPT ![d] = FALSE]
  /\ UNCHANGED <<closed, pushed, dropped, timer>>

Running(d) == ArmTimer(d) \/ Wait(d) \/ DrainReturns(d)

Next ==
  \/ push \/ close
  \/ \E d \in Drainers :
       \/ \E max \in 0 .. Capacity : DrainNow(d, max) \/ DrainWaiting(d, max)
       \/ Running(d) \/ Reacquire(d) \/ TimerFires(d) \/ DeadlinePasses(d)

Spec == Init /\ [][Next]_vars

(* Goroutines run, sync.Mutex hands itself over to a waiter in the end (its  *)
(* starvation mode), time passes and timers fire.                            *)
Fairness ==
  \A d \in Drainers :
    /\ WF_vars(Running(d)) /\ SF_vars(Reacquire(d))
    /\ WF_vars(TimerFires(d)) /\ WF_vars(DeadlinePasses(d))
FairSpec == Spec /\ Fairness

-----------------------------------------------------------------------------
FlagsOK ==
  /\ closed \in BOOLEAN
  /\ timer \in [Drainers -> BOOLEAN] /\ late \in [Drainers -> BOOLEAN]

MessagesOK ==
  /\ pushed \in 0 .. MaxPushes
  /\ buf \in Seq(1 .. pushed) /\ Len(buf) <= Capacity
  /\ consumed \in Seq(1 .. pushed) /\ dropped \subseteq 1 .. pushed

LockOK ==
  /\ pc \in [Drainers -> Phases] /\ want \in [Drainers -> 0 .. Capacity]
  /\ \A d, e \in Drainers :
       pc[d] \in {"check", "armed"} /\ pc[e] \in {"check", "armed"} => d = e

TypeOK == FlagsOK /\ MessagesOK /\ LockOK

(* Every accepted message is in exactly one place: returned by one drain,    *)
(* discarded, or in the buffer; the buffer holds the newest ones in order,   *)
(* and concurrent drains together return them in the order of their arrival; *)
(* the buffer keeps to its bound (TypeOK).                                   *)
ExactlyOnceInOrder ==
  /\ TypeOK
  /\ \A i \in 1 .. Len(buf) : buf[i] = pushed - Len(buf) + i
  /\ \A i, j \in 1 .. Len(consumed) : i < j => consumed[i] < consumed[j]
  /\ Len(consumed) + Cardinality(dropped) + Len(buf) = pushed
  /\ \A i \in 1 .. Len(consumed) : consumed[i] \notin dropped

(* No drain sleeps while there is a message that no drain is awake to take.  *)
NoSleeperBehindMail ==
  Asleep # {} => Len(buf) <= Cardinality({d \in Drainers : pc[d] \in {"woken", "check"}})

(* close releases every drain (Unmount, disconnect and unsubscribe count on  *)
(* it), also one whose timer is gone.                                        *)
CloseReleases ==
  \A d \in Drainers : closed /\ pc[d] # "idle" ~> pc[d] = "idle"

(* mqtt_queue_drain_regression_test.go: a drain of an empty queue with a      *)
(* timeout must return.                                                      *)
DrainEnds == \A d \in Drainers : pc[d] = "check" ~> pc[d] = "idle"
=============================================================================
