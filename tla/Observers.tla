------------------------------ MODULE Observers ------------------------------
(***************************************************************************)
(* The events of an Atom (types/observer.go) and the collector of their    *)
(* durations (types/metrics.go). The sink of the Atom is a MultiEventSink, *)
(* which Add extends at any time; every transaction and command runs       *)
(* between the emission of a start event and of a terminal one. A sink may *)
(* panic. One phase of the collector is modelled, without its counts.      *)
(***************************************************************************)
EXTENDS Integers, Sequences, FiniteSets

CONSTANTS
  Operations,    \* goroutines that call observe
  Sinks,         \* what Add registers, each once at most
  Collector,     \* the sink that is the MetricsCollector
  ringCapacity,
  Durations,
  MaxEvents      \* bound on the terminal events

VARIABLES
  sinks,      \* MultiEventSink, in order of registration
  emission,   \* where each operation is, and the sinks it has left to call
  ring,       \* MetricsCollector: durations, ringPos and ringFull of the phase
  told,       \* history: the sinks called, and those there at the beginning,
  recorded,   \* history: of each operation's last emission; the durations recorded
  ended       \* number of terminal events emitted

vars == <<sinks, emission, ring, told, recorded, ended>>

EventsAssumption == ringCapacity \in Nat \ {0} /\ MaxEvents \in Nat /\ IsFiniteSet(Operations)

Positions == 0 .. ringCapacity - 1
Registered == {sinks[i] : i \in DOMAIN sinks}

Init ==
  /\ sinks = <<>>
  /\ emission = [o \in Operations |-> [at |-> "outside", left |-> <<>>]]
  /\ ring = [buf |-> [i \in Positions |-> 0], pos |-> 0, full |-> FALSE]
  /\ told = [o \in Operations |-> [called |-> {}, there |-> {}]]
  /\ recorded = <<>> /\ ended = 0

Add(s) ==
  /\ s \notin Registered
  /\ sinks' = Append(sinks, s)
  /\ UNCHANGED <<emission, ring, told, recorded, ended>>

-----------------------------------------------------------------------------
(* observe: emit, the operation, emit. The slice of sinks is copied under    *)
(* the read lock; they are called outside it.                                *)

Emit(o, event) ==
  /\ emission' = [emission EXCEPT ![o] = event]
  /\ told' = [told EXCEPT ![o] = [called |-> {}, there |-> Registered]]

EmitStart(o) ==
  /\ emission[o].at = "outside" /\ ended < MaxEvents
  /\ Emit(o, [at |-> "start", left |-> sinks])
  /\ UNCHANGED <<sinks, ring, recorded, ended>>

OperationBegins(o) ==
  /\ emission[o].at = "start" /\ emission[o].left = <<>>
  /\ emission' = [emission EXCEPT ![o].at = "inside"]
  /\ UNCHANGED <<sinks, ring, told, recorded, ended>>

EmitTerminal(o, d) ==
  /\ emission[o].at = "inside" /\ ended < MaxEvents
  /\ Emit(o, [at |-> "terminal", left |-> sinks, duration |-> d])
  /\ ended' = ended + 1
  /\ UNCHANGED <<sinks, ring, recorded>>

ObserveReturns(o) ==
  /\ emission[o].at = "terminal" /\ emission[o].left = <<>>
  /\ emission' = [emission EXCEPT ![o] = [at |-> "outside", left |-> <<>>]]
  /\ UNCHANGED <<sinks, ring, told, recorded, ended>>

-----------------------------------------------------------------------------
(* The ring of durations.                                                    *)

\* Variant: the position wraps one slot early.
WrapsEarly(pos) == pos >= ringCapacity - 1

Wraps(pos) == pos >= ringCapacity

\* Where the next duration goes.
Slot == IF Wraps(ring.pos) THEN 0 ELSE ring.pos

Record(d) ==
  /\ ring' = [buf |-> [ring.buf EXCEPT ![Slot] = d],
              pos |-> Slot + 1, full |-> ring.full \/ Wraps(ring.pos)]
  /\ recorded' = Append(recorded, d)

\* Variant: a panic is recovered around the loop, not in it.
AfterPanic(rest) == <<>>

Recovered(rest) == rest

\* The next sink is called; it may panic after what it does.
Call(o, panics) ==
  /\ emission[o].left # <<>>
  /\ LET s == Head(emission[o].left)
         rest == Tail(emission[o].left)
     IN /\ emission' = [emission EXCEPT ![o].left = IF panics THEN Recovered(rest) ELSE rest]
        /\ told' = [told EXCEPT ![o].called = @ \cup {s}]
        /\ s = Collector => ~panics
        /\ IF s = Collector /\ emission[o].at = "terminal"
           THEN Record(emission[o].duration) ELSE UNCHANGED <<ring, recorded>>
  /\ UNCHANGED <<sinks, ended>>

\* What Snapshot returns.
Samples ==
  LET length == IF ring.full THEN ringCapacity ELSE ring.pos
  IN [i \in 1 .. length |-> ring.buf[i - 1]]

-----------------------------------------------------------------------------
Done == ended = MaxEvents /\ (\A o \in Operations : emission[o].at \in {"outside", "inside"})
          /\ UNCHANGED vars

Next ==
  \/ \E s \in Sinks : Add(s)
  \/ \E o \in Operations :
       \/ EmitStart(o) \/ OperationBegins(o) \/ ObserveReturns(o)
       \/ \E d \in Durations : EmitTerminal(o, d)
       \/ \E panics \in BOOLEAN : Call(o, panics)
  \/ Done

Spec == Init /\ [][Next]_vars
-----------------------------------------------------------------------------
TypeOK ==
  /\ Registered \subseteq Sinks /\ Len(sinks) = Cardinality(Registered)
  /\ \A o \in Operations : emission[o].at \in {"outside", "start", "inside", "terminal"}
  /\ DOMAIN ring.buf = Positions /\ ring.pos \in 0 .. ringCapacity /\ ring.full \in BOOLEAN
  /\ \A o \in Operations : told[o].called \cup told[o].there \subseteq Sinks
  /\ Len(recorded) <= ended /\ ended \in 0 .. MaxEvents

(* An emission that is over has told every sink that was there when it began, *)
(* though others panicked, and none that was added later.                    *)
EverySinkTold ==
  \A o \in Operations :
    emission[o].at \in {"inside", "outside"} => told[o].called = told[o].there

HowOften(s, d) == Cardinality({i \in DOMAIN s : s[i] = d})

(* Snapshot returns the latest durations: all of them while the ring has not  *)
(* wrapped, the last ringCapacity of them from then on, each as often as it   *)
(* was recorded.                                                             *)
LatestSamples ==
  LET n == Len(recorded)
      first == IF n > ringCapacity THEN n - ringCapacity + 1 ELSE 1
      latest == SubSeq(recorded, first, n)
  IN \A d \in Durations \cup {0} : HowOften(Samples, d) = HowOften(latest, d)
=============================================================================
