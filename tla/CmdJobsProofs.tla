----------------------------- MODULE CmdJobsProofs -----------------------------
(* Theorems about CmdJobs, for every finite set of users, every set of        *)
(* programs, every limit and every bound on the jobs.                        *)
EXTENDS CmdJobs, TLAPS, FiniteSetTheorems

USE SlotAssumption
    DEF Done, Blocking, ability, jobs, users, teardown, vars, Goto

Taking    == {"giveBack", "registerRun", "registerStart"}
Admitted  == {"registerRun", "registerStart"}
Occupying == {"executing", "draining", "ended", "published"}

(* How many of the calls, and how many of the jobs, are in one of the places. *)
Population(S, at, places) == Cardinality({x \in S : at[x] \in places})
Calls(places) == Population(Users, pc, places)
Slots(places) == Population(Jobs, proc, places)

(* What SlotsBalanced needs: who got past the limit is within it, although    *)
(* the counter also counts the calls that did not.                           *)
Counted == running = Calls(Taking) + Slots(Occupying)
Limited == Calls(Admitted) + Slots(Occupying) <= MaxConcurrent

(* What NothingEscapes needs: Unmount has every live job ahead of it, and no  *)
(* job begins behind it.                                                     *)
Live == {j \in Jobs : proc[j] \in {"executing", "draining", "ended"}}
Found ==
  /\ Live \subseteq table
  /\ unmount # "before" => closing
  /\ unmount = "cancel" => Live \subseteq todo
  /\ unmount = "await" => Live \subseteq todo \cup {current}
  /\ unmount = "done" => Live = {}

Inductive == TypeOK /\ Counted /\ Limited /\ Found

-----------------------------------------------------------------------------
(* One of finitely many processes moves: how many are in a set of places.     *)
One(place, places) == IF place \in places THEN 1 ELSE 0

LEMMA Recount ==
  ASSUME NEW S, IsFiniteSet(S), NEW s \in S, NEW at, NEW then,
         \A x \in S \ {s} : then[x] = at[x],
         NEW places
  PROVE  /\ Population(S, at, places) \in Nat
         /\ Population(S, then, places)
              = Population(S, at, places) + One(then[s], places) - One(at[s], places)
<1> DEFINE before == {x \in S : at[x] \in places}
           after  == {x \in S : then[x] \in places}
<1>1. IsFiniteSet(before)
  BY FS_Subset
<1>2. Cardinality(before) \in Nat
  BY <1>1, FS_CardinalityType
<1>3. CASE at[s] \in places <=> then[s] \in places
  <2>1. after = before
    BY <1>3
  <2>2. One(then[s], places) = One(at[s], places) /\ One(at[s], places) \in {0, 1}
    BY <1>3 DEF One
  <2>3. QED BY <1>2, <2>1, <2>2 DEF Population
<1>4. CASE at[s] \notin places /\ then[s] \in places
  <2>1. after = before \cup {s} /\ s \notin before
    BY <1>4
  <2>2. Cardinality(after) = Cardinality(before) + 1
    BY <1>1, <2>1, FS_AddElement
  <2>3. QED BY <1>2, <1>4, <2>2 DEF Population, One
<1>5. CASE at[s] \in places /\ then[s] \notin places
  <2>1. after = before \ {s} /\ s \in before
    BY <1>5
  <2>2. Cardinality(after) = Cardinality(before) - 1
    BY <1>1, <2>1, FS_RemoveElement
  <2>3. QED BY <1>2, <1>5, <2>2 DEF Population, One
<1>6. QED BY <1>3, <1>4, <1>5

LEMMA CallRecount ==
  ASSUME NEW u \in Users, \A v \in Users \ {u} : pc'[v] = pc[v], NEW places
  PROVE  /\ Calls(places) \in Nat
         /\ Calls(places)' = Calls(places) + One(pc'[u], places) - One(pc[u], places)
BY Recount DEF Calls

LEMMA JobRecount ==
  ASSUME NEW j \in Jobs, \A i \in Jobs \ {j} : proc'[i] = proc[i], NEW places
  PROVE  /\ Slots(places) \in Nat
         /\ Slots(places)' = Slots(places) + One(proc'[j], places) - One(proc[j], places)
<1>1. IsFiniteSet(Jobs)
  BY FS_Interval DEF Jobs
<1>2. QED BY <1>1, Recount DEF Slots

-----------------------------------------------------------------------------
LEMMA InductiveInit == Init => Inductive
<1> SUFFICES ASSUME Init PROVE Inductive
  OBVIOUS
<1>1. closing \in BOOLEAN /\ allowlist \subseteq Programs /\ running \in Nat
  BY DEF Init
<1>2. JobsOK /\ CallsOK /\ TeardownOK
  BY DEF Init, JobsOK, CallsOK, TeardownOK, Jobs
<1>3. Calls(Taking) = 0 /\ Calls(Admitted) = 0
  <2>1. /\ {u \in Users : pc[u] \in Taking} = {}
        /\ {u \in Users : pc[u] \in Admitted} = {}
    BY DEF Init, Taking, Admitted
  <2>2. QED BY <2>1, FS_EmptySet DEF Calls, Population
<1>4. Slots(Occupying) = 0
  <2>1. {j \in Jobs : proc[j] \in Occupying} = {}
    BY DEF Init, Occupying
  <2>2. QED BY <2>1, FS_EmptySet DEF Slots, Population
<1>5. Counted /\ Limited
  BY <1>3, <1>4 DEF Init, Counted, Limited
<1>6. Found
  BY DEF Init, Found, Live
<1>7. QED BY <1>1, <1>2, <1>5, <1>6 DEF Inductive, TypeOK

LEMMA FlagsStep ==
  closing \in BOOLEAN /\ allowlist \subseteq Programs /\ [Next]_vars
    => closing' \in BOOLEAN /\ allowlist' \subseteq Programs
<1> SUFFICES ASSUME closing \in BOOLEAN, allowlist \subseteq Programs, [Next]_vars
             PROVE  closing' \in BOOLEAN /\ allowlist' \subseteq Programs
  OBVIOUS
<1>1. ASSUME NEW programs \in SUBSET Programs, SetAllowlist(programs)
      PROVE  closing' \in BOOLEAN /\ allowlist' \subseteq Programs
  BY <1>1 DEF SetAllowlist
<1>2. ASSUME NEW u \in Users, Command(u) PROVE closing' = closing /\ allowlist' = allowlist
  BY <1>2 DEF Command, Request, Allowed, NotAllowed, TakeSlot, GiveSlotBack, Register,
    RegisterRejected, RunReturns, WaitReturns, KillReturns, Wait, Kill
<1>3. ASSUME NEW j \in Jobs, Execution(j) PROVE closing' = closing /\ allowlist' = allowlist
  BY <1>3 DEF Execution, ProcessEnds, OutputCloses, Publish, FreeSlot
<1>4. CASE Unmount
  BY <1>4 DEF Unmount, BeginShutdown, Snapshot, CancelNext, AwaitReturns, UnmountTimesOut,
    UnmountDone
<1>5. CASE ClearFinished \/ UNCHANGED vars
  BY <1>5 DEF ClearFinished
<1>6. QED BY <1>1, <1>2, <1>3, <1>4, <1>5 DEF Next

(* The calls keep a job each while the table grows by one.                    *)
LEMMA NumberedAgain ==
  ASSUME NEW n \in Nat, NEW held \in [Users -> 0 .. n], NEW u \in Users, NEW j \in 0 .. n + 1
  PROVE  [held EXCEPT ![u] = j] \in [Users -> 0 .. n + 1]
OBVIOUS

LEMMA TypeStep ==
  JobsOK /\ CallsOK /\ TeardownOK /\ [Next]_vars => JobsOK' /\ CallsOK' /\ TeardownOK'
<1> SUFFICES ASSUME JobsOK, CallsOK, TeardownOK, [Next]_vars
             PROVE  JobsOK' /\ CallsOK' /\ TeardownOK'
  OBVIOUS
<1> USE DEF JobsOK, CallsOK, TeardownOK, Jobs
<1>1. ASSUME NEW u \in Users, Command(u) PROVE JobsOK' /\ CallsOK' /\ TeardownOK'
  <2>1. CASE Request(u)
    BY <2>1 DEF Request
  <2>2. ASSUME NEW name \in Programs, Allowed(u, name) \/ NotAllowed(u, name)
        PROVE  JobsOK' /\ CallsOK' /\ TeardownOK'
    BY <2>2 DEF Allowed, NotAllowed, Refuse
  <2>3. CASE TakeSlot(u)
    BY <2>3 DEF TakeSlot, Registering
  <2>4. CASE GiveSlotBack(u) \/ RegisterRejected(u)
    BY <2>4 DEF GiveSlotBack, RegisterRejected, RollsBack
  <2>5. CASE Register(u)
    <3>1. seq' = seq + 1 /\ seq + 1 \in Jobs /\ seq \in Nat
      BY <2>5 DEF Register
    <3>2. JobsOK'
      BY <2>5, <3>1 DEF Register
    <3>3. CallsOK'
      <4>1. \/ pc' = [pc EXCEPT ![u] = "run"] /\ mine' = [mine EXCEPT ![u] = seq + 1]
            \/ pc' = [pc EXCEPT ![u] = "idle"] /\ mine' = [mine EXCEPT ![u] = 0]
        BY <2>5, <3>1 DEF Register
      <4>2. \A j \in 0 .. seq + 1 : [mine EXCEPT ![u] = j] \in [Users -> 0 .. seq + 1]
        BY <3>1, NumberedAgain
      <4>3. mine' \in [Users -> 0 .. seq']
        <5>1. PICK j \in 0 .. seq + 1 : mine' = [mine EXCEPT ![u] = j]
          BY <3>1, <4>1
        <5>2. mine' \in [Users -> 0 .. seq + 1]
          BY <4>2, <5>1
        <5>3. QED BY <3>1, <5>2
      <4>4. \A v \in Users : pc'[v] \in Blocking <=> mine'[v] # 0
        BY <3>1, <4>1
      <4>5. QED BY <4>1, <4>3, <4>4
    <3>4. TeardownOK'
      BY <2>5, <3>1 DEF Register
    <3>5. QED BY <3>2, <3>3, <3>4
  <2>6. CASE RunReturns(u) \/ WaitReturns(u) \/ KillReturns(u)
    <3>1. pc' = [pc EXCEPT ![u] = "idle"] /\ mine' = [mine EXCEPT ![u] = 0]
      BY <2>6 DEF RunReturns, WaitReturns, KillReturns
    <3>2. UNCHANGED <<ability, jobs, teardown>>
      BY <2>6 DEF RunReturns, WaitReturns, KillReturns
    <3>3. QED BY <3>1, <3>2
  <2>7. ASSUME NEW j \in Jobs, Wait(u, j) PROVE JobsOK' /\ CallsOK' /\ TeardownOK'
    BY <2>7 DEF Wait
  <2>8. ASSUME NEW j \in Jobs, Kill(u, j) PROVE JobsOK' /\ CallsOK' /\ TeardownOK'
    BY <2>8 DEF Kill
  <2>9. QED BY <1>1, <2>1, <2>2, <2>3, <2>4, <2>5, <2>6, <2>7, <2>8 DEF Command
<1>2. ASSUME NEW j \in Jobs, Execution(j) PROVE JobsOK' /\ CallsOK' /\ TeardownOK'
  <2>1. /\ \E phase \in {"draining", "ended", "published", "gone"} : proc' = [proc EXCEPT ![j] = phase]
        /\ proc[j] # "none" /\ UNCHANGED <<seq, table, cancelled, users, teardown>>
    BY <1>2 DEF Execution, ProcessEnds, OutputCloses, Publish, FreeSlot
  <2>2. QED BY <2>1
<1>3. CASE Unmount
  <2>1. ASSUME NEW j \in Jobs, CancelNext(j) PROVE JobsOK' /\ CallsOK' /\ TeardownOK'
    <3>1. j \in 1 .. seq /\ cancelled' \subseteq 1 .. seq
      BY <2>1 DEF CancelNext, CancelJob
    <3>2. /\ UNCHANGED <<seq, table, proc, users>>
          /\ todo' \subseteq todo /\ current' = j /\ unmount' = "await"
      BY <2>1 DEF CancelNext
    <3>3. QED BY <3>1, <3>2
  <2>2. CASE BeginShutdown \/ Snapshot \/ AwaitReturns \/ UnmountTimesOut \/ UnmountDone
    <3>1. UNCHANGED <<seq, table, proc, cancelled, users>>
      BY <2>2 DEF BeginShutdown, Snapshot, AwaitReturns, UnmountTimesOut, UnmountDone
    <3>2. TeardownOK'
      <4>1. CASE Snapshot
        BY <4>1 DEF Snapshot
      <4>2. CASE BeginShutdown \/ UnmountDone
        BY <4>2 DEF BeginShutdown, UnmountDone
      <4>3. CASE AwaitReturns \/ UnmountTimesOut
        <5>1. /\ unmount' \in {"cancel", "failed"} /\ todo' \subseteq todo /\ current' = 0
              /\ seq' = seq /\ 0 \in 0 .. seq
          BY <4>3 DEF AwaitReturns, UnmountTimesOut
        <5>2. QED BY <5>1
      <4>4. QED BY <2>2, <4>1, <4>2, <4>3
    <3>3. QED BY <3>1, <3>2
  <2>3. QED BY <1>3, <2>1, <2>2 DEF Unmount
<1>4. CASE ClearFinished
  BY <1>4 DEF ClearFinished, Forget
<1>5. CASE (\E programs \in SUBSET Programs : SetAllowlist(programs)) \/ UNCHANGED vars
  BY <1>5 DEF SetAllowlist
<1>6. QED BY <1>1, <1>2, <1>3, <1>4, <1>5 DEF Next

-----------------------------------------------------------------------------
(* A call that moves, and the counter with it, keeps the slots balanced: it   *)
(* is admitted only while the counter is within the limit.                   *)
LEMMA CallBalanced ==
  ASSUME CallsOK, Counted, Limited, running \in Nat,
         NEW u \in Users, \A v \in Users \ {u} : pc'[v] = pc[v], proc' = proc,
         running' = running + One(pc'[u], Taking) - One(pc[u], Taking),
         pc'[u] \in Admitted => pc[u] \in Admitted \/ running' <= MaxConcurrent
  PROVE  Counted' /\ Limited'
<1>1. Slots(Occupying)' = Slots(Occupying) /\ Slots(Occupying) \in Nat
  <2>1. IsFiniteSet({j \in Jobs : proc[j] \in Occupying})
    <3>1. IsFiniteSet(Jobs) /\ {j \in Jobs : proc[j] \in Occupying} \in SUBSET Jobs
      BY FS_Interval DEF Jobs
    <3>2. QED BY <3>1, FS_Subset
  <2>2. QED BY <2>1, FS_CardinalityType DEF Slots, Population
<1>2. /\ Calls(Taking) \in Nat /\ Calls(Admitted) \in Nat
      /\ Calls(Taking)' = Calls(Taking) + One(pc'[u], Taking) - One(pc[u], Taking)
      /\ Calls(Admitted)' = Calls(Admitted) + One(pc'[u], Admitted) - One(pc[u], Admitted)
  BY CallRecount
<1>3. Calls(Admitted)' <= Calls(Taking)'
  <2>1. /\ IsFiniteSet({v \in Users : pc'[v] \in Taking})
        /\ {v \in Users : pc'[v] \in Admitted} \in SUBSET {v \in Users : pc'[v] \in Taking}
    BY FS_Subset DEF Admitted, Taking
  <2>2. QED BY <2>1, FS_Subset DEF Calls, Population
<1>4. Counted'
  BY <1>1, <1>2 DEF Counted, One
<1>5. CASE pc'[u] \notin Admitted \/ pc[u] \in Admitted
  <2>1. Calls(Admitted)' <= Calls(Admitted)
    BY <1>2, <1>5 DEF One
  <2>2. QED BY <1>1, <1>2, <1>4, <2>1 DEF Limited, One
<1>6. CASE running' <= MaxConcurrent
  BY <1>1, <1>2, <1>3, <1>4, <1>6 DEF Limited, Counted, One
<1>7. QED BY <1>4, <1>5, <1>6

LEMMA BalanceStep ==
  /\ running \in Nat /\ JobsOK /\ CallsOK /\ TeardownOK /\ Counted /\ Limited /\ [Next]_vars
  => Counted' /\ Limited'
<1> SUFFICES ASSUME running \in Nat, JobsOK, CallsOK, TeardownOK, Counted, Limited, [Next]_vars
             PROVE  Counted' /\ Limited'
  OBVIOUS
<1>1. ASSUME NEW u \in Users, Command(u) PROVE Counted' /\ Limited'
  <2>0. \A v \in Users \ {u} : pc'[v] = pc[v]
    BY <1>1 DEF Command, Request, Allowed, NotAllowed, Refuse, TakeSlot, GiveSlotBack, Register,
      RegisterRejected, RollsBack, RunReturns, WaitReturns, KillReturns, Wait, Kill, CallsOK
  <2>1. CASE Request(u) \/ RunReturns(u) \/ WaitReturns(u) \/ KillReturns(u)
            \/ (\E name \in Programs : Allowed(u, name) \/ NotAllowed(u, name))
            \/ (\E j \in Jobs : Wait(u, j) \/ Kill(u, j))
    <3>1. pc[u] \notin Taking /\ proc' = proc /\ running' = running
      BY <2>1 DEF Request, RunReturns, WaitReturns, KillReturns, Allowed, NotAllowed, Wait, Kill,
        Taking
    <3>2. pc'[u] \notin Taking /\ pc'[u] \notin Admitted
      BY <2>1 DEF Request, RunReturns, WaitReturns, KillReturns, Allowed, NotAllowed, Refuse,
        Wait, Kill, CallsOK, Taking, Admitted
    <3>3. running' = running + One(pc'[u], Taking) - One(pc[u], Taking)
      BY <3>1, <3>2 DEF One
    <3>4. QED BY <2>0, <3>1, <3>2, <3>3, CallBalanced
  <2>2. CASE TakeSlot(u)
    <3>1. pc[u] \notin Taking /\ proc' = proc /\ running' = running + 1
      BY <2>2 DEF TakeSlot, Taking
    <3>2. pc'[u] \in Taking /\ (pc'[u] \in Admitted => running' <= MaxConcurrent)
      BY <2>2 DEF TakeSlot, TooMany, Registering, CallsOK, Taking, Admitted
    <3>3. running' = running + One(pc'[u], Taking) - One(pc[u], Taking)
      BY <3>1, <3>2 DEF One
    <3>4. QED BY <2>0, <3>1, <3>2, <3>3, CallBalanced
  <2>3. CASE GiveSlotBack(u)
    <3>1. pc[u] \in Taking /\ proc' = proc /\ running' = running - 1
      BY <2>3 DEF GiveSlotBack, Taking
    <3>2. pc'[u] \notin Taking /\ pc'[u] \notin Admitted
      BY <2>3 DEF GiveSlotBack, CallsOK, Taking, Admitted
    <3>3. running' = running + One(pc'[u], Taking) - One(pc[u], Taking)
      BY <3>1, <3>2 DEF One
    <3>4. QED BY <2>0, <3>1, <3>2, <3>3, CallBalanced
  <2>4. CASE RegisterRejected(u)
    <3>1. pc[u] \in Taking /\ proc' = proc /\ running' = running
      BY <2>4 DEF RegisterRejected, Taking
    <3>2. pc'[u] \in Taking /\ pc'[u] \notin Admitted
      BY <2>4 DEF RegisterRejected, RollsBack, CallsOK, Taking, Admitted
    <3>3. running' = running + One(pc'[u], Taking) - One(pc[u], Taking)
      BY <3>1, <3>2 DEF One
    <3>4. QED BY <2>0, <3>1, <3>2, <3>3, CallBalanced
  <2>5. CASE Register(u)
    <3>1. /\ seq + 1 \in Jobs /\ proc'[seq + 1] = "executing" /\ proc[seq + 1] = "none"
          /\ \A i \in Jobs \ {seq + 1} : proc'[i] = proc[i]
      BY <2>5 DEF Register, JobsOK, Jobs
    <3>2. /\ pc'[u] \notin Taking /\ pc'[u] \notin Admitted
          /\ pc[u] \in Taking /\ pc[u] \in Admitted /\ running' = running
      BY <2>5 DEF Register, CallsOK, Taking, Admitted
    <3>3. /\ Slots(Occupying) \in Nat
          /\ Slots(Occupying)' = Slots(Occupying) + One(proc'[seq + 1], Occupying)
                                                - One(proc[seq + 1], Occupying)
      BY <3>1, JobRecount
    <3>4. \A places : /\ Calls(places) \in Nat
                      /\ Calls(places)' = Calls(places) + One(pc'[u], places) - One(pc[u], places)
      BY <2>0, CallRecount
    <3>5. Slots(Occupying)' = Slots(Occupying) + 1
      BY <3>1, <3>3 DEF One, Occupying
    <3>6. Calls(Taking)' = Calls(Taking) - 1 /\ Calls(Admitted)' = Calls(Admitted) - 1
      BY <3>2, <3>4 DEF One
    <3>7. QED BY <3>2, <3>3, <3>4, <3>5, <3>6 DEF Counted, Limited
  <2>6. QED BY <1>1, <2>1, <2>2, <2>3, <2>4, <2>5 DEF Command
<1>2. ASSUME NEW j \in Jobs, Execution(j) PROVE Counted' /\ Limited'
  <2>1. Calls(Taking)' = Calls(Taking) /\ Calls(Admitted)' = Calls(Admitted)
    BY <1>2 DEF Execution, ProcessEnds, OutputCloses, Publish, FreeSlot, Calls
  <2>2. /\ {v \in Users : pc[v] \in Taking} \in SUBSET Users
        /\ {v \in Users : pc[v] \in Admitted} \in SUBSET Users
    OBVIOUS
  <2>3. Calls(Taking) \in Nat /\ Calls(Admitted) \in Nat
    BY <2>2, FS_Subset, FS_CardinalityType DEF Calls, Population
  <2>4. \A i \in Jobs \ {j} : proc'[i] = proc[i]
    BY <1>2 DEF Execution, ProcessEnds, OutputCloses, Publish, FreeSlot, JobsOK
  <2>5. /\ Slots(Occupying) \in Nat
        /\ Slots(Occupying)' = Slots(Occupying) + One(proc'[j], Occupying)
                                              - One(proc[j], Occupying)
    BY <2>4, JobRecount
  <2>6. CASE ProcessEnds(j) \/ OutputCloses(j) \/ Publish(j)
    <3>1. /\ proc[j] \in Occupying /\ proc'[j] \in Occupying /\ running' = running
      BY <2>6 DEF ProcessEnds, OutputCloses, Publish, JobsOK, Occupying
    <3>2. Slots(Occupying)' = Slots(Occupying)
      BY <2>5, <3>1 DEF One
    <3>3. QED BY <2>1, <3>1, <3>2 DEF Counted, Limited
  <2>7. CASE FreeSlot(j)
    <3>1. /\ proc[j] \in Occupying /\ proc'[j] \notin Occupying /\ running' = running - 1
      BY <2>7 DEF FreeSlot, JobsOK, Occupying
    <3>2. Slots(Occupying)' = Slots(Occupying) - 1
      BY <2>5, <3>1 DEF One
    <3>3. QED BY <2>1, <2>3, <2>5, <3>1, <3>2 DEF Counted, Limited
  <2>8. QED BY <1>2, <2>6, <2>7 DEF Execution
<1>3. CASE \/ Unmount \/ ClearFinished \/ UNCHANGED vars
           \/ \E programs \in SUBSET Programs : SetAllowlist(programs)
  <2>1. UNCHANGED <<pc, proc, running>>
    BY <1>3 DEF Unmount, BeginShutdown, Snapshot, CancelNext, AwaitReturns, UnmountTimesOut,
      UnmountDone, ClearFinished, SetAllowlist
  <2>2. QED BY <2>1 DEF Counted, Limited, Calls, Slots
<1>4. QED BY <1>1, <1>2, <1>3 DEF Next

-----------------------------------------------------------------------------
LEMMA FoundStep ==
  closing \in BOOLEAN /\ JobsOK /\ TeardownOK /\ Found /\ [Next]_vars => Found'
<1> SUFFICES ASSUME closing \in BOOLEAN, JobsOK, TeardownOK, Found, [Next]_vars PROVE Found'
  OBVIOUS
<1> USE DEF Found, Live
<1>1. ASSUME NEW u \in Users, Command(u) PROVE Found'
  <2>1. CASE Register(u)
    BY <2>1 DEF Register, MayRegister, JobsOK, TeardownOK, Jobs
  <2>2. ASSUME ~Register(u) PROVE UNCHANGED <<closing, table, proc, unmount, todo, current>>
    BY <1>1, <2>2 DEF Command, Request, Allowed, NotAllowed, TakeSlot, GiveSlotBack,
      RegisterRejected, RunReturns, WaitReturns, KillReturns, Wait, Kill
  <2>3. QED BY <2>1, <2>2
<1>2. ASSUME NEW j \in Jobs, Execution(j) PROVE Found'
  <2>1. Live' \subseteq Live
    BY <1>2 DEF Execution, ProcessEnds, OutputCloses, Publish, FreeSlot, JobsOK
  <2>2. UNCHANGED <<closing, table, unmount, todo, current>>
    BY <1>2 DEF Execution, ProcessEnds, OutputCloses, Publish, FreeSlot
  <2>3. QED BY <2>1, <2>2
<1>3. CASE Unmount
  <2>1. CASE BeginShutdown
    BY <2>1 DEF BeginShutdown
  <2>2. CASE Snapshot
    BY <2>2 DEF Snapshot
  <2>3. ASSUME NEW j \in Jobs, CancelNext(j) PROVE Found'
    BY <2>3 DEF CancelNext
  <2>4. CASE AwaitReturns
    BY <2>4 DEF AwaitReturns, IsReleased
  <2>5. CASE UnmountTimesOut \/ UnmountDone
    BY <2>5 DEF UnmountTimesOut, UnmountDone
  <2>6. QED BY <1>3, <2>1, <2>2, <2>3, <2>4, <2>5 DEF Unmount
<1>4. CASE ClearFinished
  BY <1>4 DEF ClearFinished, Forget
<1>5. CASE (\E programs \in SUBSET Programs : SetAllowlist(programs)) \/ UNCHANGED vars
  BY <1>5 DEF SetAllowlist
<1>6. QED BY <1>1, <1>2, <1>3, <1>4, <1>5 DEF Next

(* The inductive invariant of the jobs: types, the two counts, and where      *)
(* Unmount still finds each process that lives.                              *)
THEOREM InductiveHolds == Spec => []Inductive
<1>1. Inductive /\ [Next]_vars => Inductive'
  <2> SUFFICES ASSUME Inductive, [Next]_vars PROVE Inductive'
    OBVIOUS
  <2>1. JobsOK' /\ CallsOK' /\ TeardownOK' /\ closing' \in BOOLEAN /\ allowlist' \subseteq Programs
    BY TypeStep, FlagsStep DEF Inductive, TypeOK
  <2>2. Counted' /\ Limited'
    BY BalanceStep DEF Inductive, TypeOK
  <2>3. Found'
    BY FoundStep DEF Inductive, TypeOK
  <2>4. running' \in Nat
    <3>1. /\ {u \in Users : pc'[u] \in Taking} \in SUBSET Users
          /\ {j \in Jobs : proc'[j] \in Occupying} \in SUBSET Jobs
          /\ IsFiniteSet(Jobs)
      BY FS_Interval DEF Jobs
    <3>2. Calls(Taking)' \in Nat /\ Slots(Occupying)' \in Nat
      BY <3>1, FS_Subset, FS_CardinalityType DEF Calls, Slots, Population
    <3>3. QED BY <2>2, <3>2 DEF Counted
  <2>5. QED BY <2>1, <2>2, <2>3, <2>4 DEF Inductive, TypeOK
<1>2. QED BY InductiveInit, <1>1, PTL DEF Spec

(* No slot is lost or given back twice, and at most maxConc processes execute *)
(* however far the counter overshoots.                                       *)
THEOREM SlotsBalancedHolds == Spec => []SlotsBalanced
<1>1. Inductive => SlotsBalanced
  <2> SUFFICES ASSUME Inductive PROVE SlotsBalanced
    OBVIOUS
  <2>1. running = Holders
    BY DEF Inductive, Counted, Holders, Calls, Slots, Population, Taking, Occupying
  <2>2. /\ {u \in Users : pc[u] \in Admitted} \in SUBSET Users
        /\ {j \in Jobs : proc[j] \in Occupying} \in SUBSET Jobs
        /\ Alive \in SUBSET {j \in Jobs : proc[j] \in Occupying}
        /\ IsFiniteSet(Jobs)
    BY FS_Interval DEF Jobs, Alive, Occupying
  <2>3. /\ Cardinality(Alive) \in Nat /\ Calls(Admitted) \in Nat /\ Slots(Occupying) \in Nat
        /\ Cardinality(Alive) <= Slots(Occupying)
    BY <2>2, FS_Subset, FS_CardinalityType DEF Calls, Slots, Population
  <2>4. QED BY <2>1, <2>3 DEF Inductive, Limited, SlotsBalanced
<1>2. QED BY InductiveHolds, <1>1, PTL

(* A process that has not ended is in the table, where kill and Unmount look; *)
(* none is left when Unmount has returned nil, and none is started later.    *)
THEOREM NothingEscapesHolds == Spec => []NothingEscapes
<1>1. Inductive => NothingEscapes
  BY DEF Inductive, Found, Live, NothingEscapes, Alive
<1>2. QED BY InductiveHolds, <1>1, PTL
=============================================================================
