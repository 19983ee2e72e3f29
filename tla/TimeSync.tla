------------------------------- MODULE TimeSync -------------------------------
(***************************************************************************)
(* TimeAbility (ability/time_ability.go): a base, which is a time read     *)
(* from some source and the monotonic clock when it was stored, replaced   *)
(* by the sync commands and by the runner in ticker mode, and extrapolated *)
(* by get_time. Sources are read outside t.mu.                             *)
(*                                                                         *)
(* The time in a base is told by the moment at which the source shows it,  *)
(* in halves of a tick: base.read. The source of sync_net is read at some  *)
(* moment of the call. That of sync_ntp is not: its time is estimated, by  *)
(* the rule of NTP that both ways of the query took equally long. Whether  *)
(* an answer is within maxSyncOffset is a choice, and the system clock is  *)
(* not set while a query is under way. Times are not Go's zero time (the   *)
(* start of year 1), which the code takes for no time at all.              *)
(***************************************************************************)
EXTENDS Integers, FiniteSets

CONSTANTS
  Clients,         \* goroutines that call Command
  Runner,          \* the goroutine of Run
  MaxConcurrency,  \* maxTimeSyncConcurrency, the capacity of t.sem
  MaxTime          \* bound on the monotonic clock

ClockAssumption == MaxTime \in Nat

VARIABLES
  mono,      \* the monotonic clock
  base,      \* lastSynced, lastSource and baseMono; how long the query took
  sem,       \* the goroutines that hold a slot of t.sem
  runMode,   \* what configure_run has set
  running,   \* the mode of the runner, "no" when there is none
  task,      \* where each goroutine is
  history    \* answers of get_time, and whether a sync has been made

vars == <<mono, base, sem, runMode, running, task, history>>

Goroutines == Clients \cup {Runner}
Modes == {"monotonic", "ticker"}
Idle == [at |-> "idle"]
NotSynced == [by |-> "nobody"]
Synced == base # NotSynced

Init ==
  /\ mono = 0 /\ base = NotSynced /\ sem = {}
  /\ runMode = "monotonic" /\ running = "no"
  /\ task = [g \in Goroutines |-> Idle]
  /\ history = [answers |-> {}, sync |-> FALSE]

\* setSync is about to store a time, currentTime to read the base.
Settling(read, trip) == [at |-> "set", entered |-> mono, read |-> read, trip |-> trip]
Reading == [at |-> "read", entered |-> mono]

Go(g, place) == task' = [task EXCEPT ![g] = place]
Begin(g, place) == task[g] = Idle /\ Go(g, place)
Return(g) == Go(g, Idle)

Tick ==
  /\ mono < MaxTime /\ mono' = mono + 1
  /\ UNCHANGED <<base, sem, runMode, running, task, history>>

-----------------------------------------------------------------------------
(* Where the monotonic clock is read: inside the lock, with the base.        *)

\* Variant: on entry to setSync and currentTime, before the lock, as it once was.
ReadOnEntry(g) == task[g].entered

ReadClock(g) == mono

-----------------------------------------------------------------------------
(* The syncs. sync_manual and sync_system have their time at once.           *)

Sync(g) ==
  /\ g \in Clients
  /\ Begin(g, Settling(2 * mono, 0))
  /\ UNCHANGED <<mono, base, sem, runMode, running, history>>

AcquireSlot(g) ==
  /\ g \in Clients /\ Cardinality(sem) < MaxConcurrency
  /\ sem' = sem \cup {g}
  /\ \/ Begin(g, [at |-> "fetch"])
     \/ Begin(g, [at |-> "request", entered |-> mono])
  /\ UNCHANGED <<mono, base, runMode, running, history>>

\* sync_net: the source is read, and answers later.
Fetch(g) ==
  /\ task[g].at = "fetch"
  /\ Go(g, Settling(2 * mono, 0))
  /\ UNCHANGED <<mono, base, sem, runMode, running, history>>

\* sync_ntp: the server takes the request when it has been under way for leg.
ServerAnswers(g) ==
  /\ task[g].at = "request"
  /\ Go(g, [at |-> "response", entered |-> task[g].entered, leg |-> mono - task[g].entered])
  /\ UNCHANGED <<mono, base, sem, runMode, running, history>>

RoundTrip(g) == mono - task[g].entered

\* The response comes back. The four timestamps give the offset of the clock:
\* what it lacks, and half of what the request took longer than the response.
QueryReturns(g) ==
  /\ task[g].at = "response"
  /\ Go(g, [at |-> "estimate", offset |-> 2 * task[g].leg - RoundTrip(g), trip |-> RoundTrip(g)])
  /\ UNCHANGED <<mono, base, sem, runMode, running, history>>

\* Variant: the offset is added twice over.
OffsetDoubled(g) == 2 * mono + 2 * task[g].offset

Corrected(g) == 2 * mono + task[g].offset

Estimate(g) ==
  /\ task[g].at = "estimate"
  /\ Go(g, Settling(Corrected(g), task[g].trip))
  /\ UNCHANGED <<mono, base, sem, runMode, running, history>>

ReleaseSlot(g) == sem' = sem \ {g}

\* No address, no answer in time, a response that does not validate.
FetchFails(g) ==
  /\ task[g].at \in {"fetch", "request", "response", "estimate"}
  /\ ReleaseSlot(g) /\ Return(g)
  /\ UNCHANGED <<mono, base, runMode, running, history>>

\* A time that is too far off is refused; one that is not goes on to SetSync.
CheckOffset(g) ==
  /\ task[g].at = "set" /\ g \in sem
  /\ ReleaseSlot(g) /\ Return(g)
  /\ UNCHANGED <<mono, base, runMode, running, history>>

SetSync(g) ==
  /\ task[g].at = "set"
  /\ base' = [by |-> "sync", read |-> task[g].read, mono |-> ReadClock(g), trip |-> task[g].trip]
  /\ history' = [history EXCEPT !.sync = TRUE]
  /\ ReleaseSlot(g) /\ Return(g)
  /\ UNCHANGED <<mono, runMode, running>>

-----------------------------------------------------------------------------
(* get_time: ensureSynced looks once under the read lock and again under the *)
(* write lock; then the base is extrapolated.                                *)

GetTime(g) ==
  /\ g \in Clients
  /\ Begin(g, [at |-> "ensure"])
  /\ UNCHANGED <<mono, base, sem, runMode, running, history>>

\* get_time goes on to read the base; Run to its ticks.
Ensured(g) == IF g = Runner THEN Return(g) ELSE Go(g, Reading)

EnsureSynced(g) ==
  /\ task[g].at = "ensure"
  /\ IF Synced THEN Ensured(g) ELSE Go(g, [at |-> "default"])
  /\ UNCHANGED <<mono, base, sem, runMode, running, history>>

\* Variant: not looked at again under the write lock.
MayDefaultUnchecked == TRUE

MayDefault == ~Synced

SetDefault(g) ==
  /\ task[g].at = "default"
  /\ base' = IF MayDefault
             THEN [by |-> "default", read |-> 2 * mono, mono |-> mono, trip |-> 0]
             ELSE base
  /\ Ensured(g)
  /\ UNCHANGED <<mono, sem, runMode, running, history>>

Elapsed(g) == ReadClock(g) - base.mono

CurrentTime(g) ==
  /\ task[g].at = "read"
  /\ history' = [history EXCEPT !.answers = @ \cup
                  {IF ~Synced THEN "not synced" ELSE IF Elapsed(g) < 0 THEN "backwards" ELSE "time"}]
  /\ Return(g)
  /\ UNCHANGED <<mono, base, sem, runMode, running>>

-----------------------------------------------------------------------------
(* The runner keeps the mode it read when it began.                          *)

ConfigureRun(mode) ==
  /\ runMode' = mode
  /\ UNCHANGED <<mono, base, sem, running, task, history>>

Run ==
  /\ running = "no"
  /\ running' = runMode
  /\ Begin(Runner, [at |-> "ensure"])
  /\ UNCHANGED <<mono, base, sem, runMode, history>>

RunTicker ==
  /\ running = "ticker"
  /\ Begin(Runner, Settling(2 * mono, 0))
  /\ UNCHANGED <<mono, base, sem, runMode, running, history>>

RunMonotonic ==
  /\ running = "monotonic"
  /\ Begin(Runner, Reading)
  /\ UNCHANGED <<mono, base, sem, runMode, running, history>>

\* The context of the Atom is done.
RunReturns ==
  /\ running # "no" /\ task[Runner] = Idle
  /\ running' = "no"
  /\ UNCHANGED <<mono, base, sem, runMode, task, history>>

-----------------------------------------------------------------------------
Next ==
  \/ Tick
  \/ \E g \in Goroutines :
       \/ Sync(g) \/ AcquireSlot(g) \/ Fetch(g) \/ FetchFails(g) \/ CheckOffset(g) \/ SetSync(g)
       \/ ServerAnswers(g) \/ QueryReturns(g) \/ Estimate(g)
       \/ GetTime(g) \/ EnsureSynced(g) \/ SetDefault(g) \/ CurrentTime(g)
  \/ \E mode \in Modes : ConfigureRun(mode)
  \/ Run \/ RunTicker \/ RunMonotonic \/ RunReturns

Spec == Init /\ [][Next]_vars
-----------------------------------------------------------------------------
Places ==
  [at : {"idle", "fetch", "ensure", "default"}] \cup
  [at : {"request", "read"}, entered : 0 .. mono] \cup
  [at : {"response"}, entered : 0 .. mono, leg : 0 .. mono] \cup
  [at : {"estimate"}, offset : Int, trip : 0 .. mono] \cup
  [at : {"set"}, entered : 0 .. mono, read : Int, trip : 0 .. mono]

TypeOK ==
  /\ mono \in 0 .. MaxTime
  /\ base = NotSynced \/ base \in [by : {"sync", "default"}, read : Int, mono : 0 .. mono, trip : 0 .. mono]
  /\ sem \subseteq Clients /\ runMode \in Modes /\ running \in Modes \cup {"no"}
  /\ \A g \in Goroutines : task[g] \in Places
  /\ history \in [answers : SUBSET {"not synced", "backwards", "time"}, sync : BOOLEAN]

(* get_time always answers with a time: never that the monotonic clock moved  *)
(* backwards, whatever sync stores a base beside it, nor that there is none.  *)
TimeAnswers == history.answers \subseteq {"time"}

(* The base never counts time that passed before its source was read, so what *)
(* get_time reports is not ahead of the source, however slow the answer was.  *)
(* After sync_ntp it may be, but by no more than half of the time the query   *)
(* took, and not by the time until its answer was stored.                     *)
NoHeadStart == Synced => base.read <= 2 * base.mono + base.trip

(* The default that get_time and Run store never replaces a sync.             *)
SyncSticks == history.sync => base.by = "sync"

(* A slot is held by the network syncs under way and by nobody else.          *)
SlotsReturned ==
  \A g \in sem : task[g].at \in {"fetch", "request", "response", "estimate", "set"}

BaseHonest == TimeAnswers /\ NoHeadStart /\ SyncSticks /\ SlotsReturned
=============================================================================
