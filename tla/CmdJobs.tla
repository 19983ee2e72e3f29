-------------------------------- MODULE CmdJobs --------------------------------
(***************************************************************************)
(* The jobs of CmdAbility (ability/cmd_ability.go): run and start take one  *)
(* of maxConc slots from an atomic counter, register a job under the lock   *)
(* and execute a process; wait and kill block on the job's done channel;    *)
(* clear_finished forgets jobs; Unmount cancels and awaits them one by one. *)
(* ShAbility and BashAbility run their commands through it.                 *)
(***************************************************************************)
EXTENDS Integers, FiniteSets

CONSTANTS
  Users,          \* goroutines that call Command
  Programs,       \* names an allowlist entry can have
  MaxConcurrent,  \* maxConc
  MaxJobs         \* bound on the ids drawn from jobSeq

ASSUME SlotAssumption ==
  MaxConcurrent \in Nat \ {0} /\ MaxJobs \in Nat /\ IsFiniteSet(Users)

VARIABLES
  closing, allowlist, table, seq, running,  \* fields of CmdAbility; table is jobs
  proc, cancelled,                          \* of each job: its execution, its context
  pc, mine,                                 \* of each user: where it is and its job
  unmount, todo, current                    \* Unmount: jobs left, the one awaited

ability  == <<closing, allowlist, table, seq, running>>
jobs     == <<proc, cancelled>>
users    == <<pc, mine>>
teardown == <<unmount, todo, current>>
vars == <<ability, jobs, users, teardown>>

Jobs     == 1 .. MaxJobs
Done     == {j \in Jobs : proc[j] \in {"published", "gone"}}     \* done is closed
Alive    == {j \in Jobs : proc[j] \in {"executing", "draining"}}
Blocking == {"run", "wait", "waitTimed", "kill"}

Init ==
  /\ closing = FALSE /\ allowlist = {} /\ table = {} /\ seq = 0 /\ running = 0
  /\ proc = [j \in Jobs |-> "none"] /\ cancelled = {}
  /\ pc = [u \in Users |-> "idle"] /\ mine = [u \in Users |-> 0]
  /\ unmount = "before" /\ todo = {} /\ current = 0

Goto(u, phase, job) ==
  pc' = [pc EXCEPT ![u] = phase] /\ mine' = [mine EXCEPT ![u] = job]

SetAllowlist(programs) ==
  /\ allowlist' = programs
  /\ UNCHANGED <<closing, table, seq, running, jobs, users, teardown>>

-----------------------------------------------------------------------------
(* run and start: closing and the allowlist are looked at, then a slot is    *)
(* taken from the counter and given back when there was none, then the job   *)
(* is registered, where closing is looked at again. (An id that a rejected   *)
(* request drew is not counted.)                                             *)

Request(u) ==
  /\ pc[u] = "idle" /\ ~closing
  /\ Goto(u, "match", 0)
  /\ UNCHANGED <<ability, jobs, teardown>>

Allowed(u, name) ==
  /\ pc[u] = "match" /\ name \in allowlist
  /\ \E phase \in {"countRun", "countStart"} : Goto(u, phase, 0)
  /\ UNCHANGED <<ability, jobs, teardown>>

\* Variant: every way out gives a slot back, also before one was taken.
RefuseWithRollback(u) == Goto(u, "giveBack", 0)

Refuse(u) == Goto(u, "idle", 0)

NotAllowed(u, name) ==
  /\ pc[u] = "match" /\ name \notin allowlist
  /\ Refuse(u)
  /\ UNCHANGED <<ability, jobs, teardown>>

TooMany(n) == n > MaxConcurrent

Registering(u) == IF pc[u] = "countRun" THEN "registerRun" ELSE "registerStart"

TakeSlot(u) ==
  /\ pc[u] \in {"countRun", "countStart"}
  /\ running' = running + 1
  /\ Goto(u, IF TooMany(running') THEN "giveBack" ELSE Registering(u), 0)
  /\ UNCHANGED <<closing, allowlist, table, seq, jobs, teardown>>

GiveSlotBack(u) ==
  /\ pc[u] = "giveBack"
  /\ running' = running - 1
  /\ Goto(u, "idle", 0)
  /\ UNCHANGED <<closing, allowlist, table, seq, jobs, teardown>>

\* Variant: closing is not looked at again.
AlwaysRegister == TRUE

MayRegister == ~closing

Register(u) ==
  /\ pc[u] \in {"registerRun", "registerStart"} /\ MayRegister
  /\ seq < MaxJobs
  /\ seq' = seq + 1
  /\ table' = table \cup {seq'}
  /\ proc' = [proc EXCEPT ![seq'] = "executing"]
  /\ IF pc[u] = "registerRun" THEN Goto(u, "run", seq') ELSE Goto(u, "idle", 0)
  /\ UNCHANGED <<closing, allowlist, running, cancelled, teardown>>

\* Variant: start returns the error without rolling the counter back.
KeepsSlot(u) == Goto(u, "idle", 0)

RollsBack(u) == Goto(u, "giveBack", 0)

RegisterRejected(u) ==
  /\ pc[u] \in {"registerRun", "registerStart"} /\ (~MayRegister \/ seq = MaxJobs)
  /\ RollsBack(u)
  /\ UNCHANGED <<ability, jobs, teardown>>

-----------------------------------------------------------------------------
(* The execution of a job, in the caller of run or in the goroutine of start. *)

(* The process exits by itself or is killed because its context was cancelled *)
(* or timed out. What it started may outlive it; as long as such a process    *)
(* has the output open cmd.Run goes on reading: no WaitDelay is set.         *)
ProcessEnds(j) ==
  /\ proc[j] = "executing"
  /\ \E phase \in {"ended", "draining"} : proc' = [proc EXCEPT ![j] = phase]
  /\ UNCHANGED <<ability, cancelled, users, teardown>>

OutputCloses(j) ==
  /\ proc[j] = "draining"
  /\ proc' = [proc EXCEPT ![j] = "ended"]
  /\ UNCHANGED <<ability, cancelled, users, teardown>>

\* Done is set and the channel closed in one critical section.
Publish(j) ==
  /\ proc[j] = "ended"
  /\ proc' = [proc EXCEPT ![j] = "published"]
  /\ UNCHANGED <<ability, cancelled, users, teardown>>

FreeSlot(j) ==
  /\ proc[j] = "published"
  /\ proc' = [proc EXCEPT ![j] = "gone"]
  /\ running' = running - 1
  /\ UNCHANGED <<closing, allowlist, table, seq, cancelled, users, teardown>>

RunReturns(u) ==
  /\ pc[u] = "run" /\ proc[mine[u]] = "gone"
  /\ Goto(u, "idle", 0)
  /\ UNCHANGED <<ability, jobs, teardown>>

-----------------------------------------------------------------------------
(* wait, kill and clear_finished. The caller keeps the job it found, also     *)
(* when clear_finished removes it.                                           *)

Wait(u, j) ==
  /\ pc[u] = "idle" /\ j \in table
  /\ \E phase \in {"wait", "waitTimed"} : Goto(u, phase, j)
  /\ UNCHANGED <<ability, jobs, teardown>>

\* Variant: nobody is released when the job was done before.
IsReleasedEarly(j) == proc[j] = "published"

IsReleased(j) == j \in Done

WaitReturns(u) ==
  /\ pc[u] \in {"wait", "waitTimed"} /\ (IsReleased(mine[u]) \/ pc[u] = "waitTimed")
  /\ Goto(u, "idle", 0)
  /\ UNCHANGED <<ability, jobs, teardown>>

Kill(u, j) ==
  /\ pc[u] = "idle" /\ j \in table \ Done
  /\ cancelled' = cancelled \cup {j}
  /\ Goto(u, "kill", j)
  /\ UNCHANGED <<ability, proc, teardown>>

KillReturns(u) ==
  /\ pc[u] = "kill" /\ IsReleased(mine[u])
  /\ Goto(u, "idle", 0)
  /\ UNCHANGED <<ability, jobs, teardown>>

Forget == table' = table \ Done

ClearFinished ==
  /\ table \cap Done # {}
  /\ Forget
  /\ UNCHANGED <<closing, allowlist, seq, running, jobs, users, teardown>>

-----------------------------------------------------------------------------
(* Unmount.                                                                  *)

BeginShutdown ==
  /\ unmount = "before"
  /\ closing' = TRUE /\ unmount' = "snapshot"
  /\ UNCHANGED <<allowlist, table, seq, running, jobs, users, todo, current>>

Snapshot ==
  /\ unmount = "snapshot"
  /\ todo' = table /\ unmount' = "cancel"
  /\ UNCHANGED <<ability, jobs, users, current>>

\* Variant: jobs are awaited but not cancelled.
AwaitOnly(j) == UNCHANGED cancelled

CancelJob(j) == cancelled' = cancelled \cup ({j} \ Done)

CancelNext(j) ==
  /\ unmount = "cancel" /\ j \in todo
  /\ CancelJob(j)
  /\ todo' = todo \ {j} /\ current' = j /\ unmount' = "await"
  /\ UNCHANGED <<ability, proc, users>>

AwaitReturns ==
  /\ unmount = "await" /\ IsReleased(current)
  /\ current' = 0 /\ unmount' = "cancel"
  /\ UNCHANGED <<ability, jobs, users, todo>>

\* The context ends; the jobs still in todo are not cancelled any more.
UnmountTimesOut ==
  /\ unmount = "await"
  /\ current' = 0 /\ todo' = {} /\ unmount' = "failed"
  /\ UNCHANGED <<ability, jobs, users>>

UnmountDone ==
  /\ unmount = "cancel" /\ todo = {}
  /\ unmount' = "done"
  /\ UNCHANGED <<ability, jobs, users, todo, current>>

-----------------------------------------------------------------------------
Command(u) ==
  \/ Request(u) \/ \E name \in Programs : Allowed(u, name) \/ NotAllowed(u, name)
  \/ TakeSlot(u) \/ GiveSlotBack(u) \/ Register(u) \/ RegisterRejected(u)
  \/ RunReturns(u) \/ WaitReturns(u) \/ KillReturns(u)
  \/ \E j \in Jobs : Wait(u, j) \/ Kill(u, j)

Execution(j) == ProcessEnds(j) \/ OutputCloses(j) \/ Publish(j) \/ FreeSlot(j)

Unmount ==
  BeginShutdown \/ Snapshot \/ (\E j \in Jobs : CancelNext(j)) \/ AwaitReturns
  \/ UnmountTimesOut \/ UnmountDone

Next ==
  \/ \E programs \in SUBSET Programs : SetAllowlist(programs)
  \/ \E u \in Users : Command(u)
  \/ \E j \in Jobs : Execution(j)
  \/ ClearFinished \/ Unmount

Spec == Init /\ [][Next]_vars

\* A cancelled context kills its process; an ended one is published; a call
\* released by the done channel returns; Unmount goes on once it began. The
\* context of Unmount need not end, nor a process nobody cancels, nor what a
\* killed process has started: OutputCloses is not fair.
Fairness ==
  /\ \A j \in Jobs : WF_vars(j \in cancelled /\ ProcessEnds(j)) /\ WF_vars(Publish(j) \/ FreeSlot(j))
  /\ \A u \in Users : WF_vars(RunReturns(u) \/ WaitReturns(u) \/ KillReturns(u))
  /\ WF_vars(Snapshot \/ (\E j \in Jobs : CancelNext(j)) \/ AwaitReturns \/ UnmountDone)
FairSpec == Spec /\ Fairness

-----------------------------------------------------------------------------
JobsOK ==
  /\ seq \in 0 .. MaxJobs /\ table \subseteq 1 .. seq
  /\ proc \in [Jobs -> {"none", "executing", "draining", "ended", "published", "gone"}]
  /\ \A j \in Jobs : proc[j] = "none" <=> j > seq
  /\ cancelled \subseteq 1 .. seq

CallsOK ==
  /\ pc \in [Users -> {"idle", "match", "countRun", "countStart", "giveBack", "registerRun",
                       "registerStart"} \cup Blocking]
  /\ mine \in [Users -> 0 .. seq] /\ \A u \in Users : pc[u] \in Blocking <=> mine[u] # 0

TeardownOK ==
  /\ unmount \in {"before", "snapshot", "cancel", "await", "done", "failed"}
  /\ todo \subseteq 1 .. seq /\ current \in 0 .. seq

TypeOK ==
  /\ closing \in BOOLEAN /\ allowlist \subseteq Programs /\ running \in Nat
  /\ JobsOK /\ CallsOK /\ TeardownOK

\* Who has a slot: calls on their way to a job or back, and jobs not yet over.
Holders ==
  Cardinality({u \in Users : pc[u] \in {"giveBack", "registerRun", "registerStart"}})
  + Cardinality({j \in Jobs : proc[j] \in {"executing", "draining", "ended", "published"}})

(* No slot is lost or given back twice, on whichever of the five paths a      *)
(* request leaves: a lost one would reject commands for good, one given back *)
(* twice would lift the limit. maxConc bounds the processes that execute,    *)
(* although the counter overshoots until rejected calls have given theirs    *)
(* back.                                                                     *)
SlotsBalanced == TypeOK /\ running = Holders /\ Cardinality(Alive) <= MaxConcurrent

(* registerJob's comment: no process escapes the shutdown. A process that has *)
(* not ended can be found, by kill and by Unmount; when Unmount has returned  *)
(* nil none is left, and none is started later.                              *)
NothingEscapes ==
  /\ Alive \subseteq table
  /\ unmount = "done" => {j \in Jobs : proc[j] \in {"executing", "draining", "ended"}} = {}

(* Unmount's comment: it "cancels every active asynchronous job and waits for *)
(* completion or context cancellation". It does not hold: each job is         *)
(* cancelled in the loop that awaits, so those behind the one that outlasts   *)
(* the context are left running with nobody to cancel them.                   *)
Asynchronous == {j \in Jobs : \A u \in Users : pc[u] = "run" => mine[u] # j}
UnmountCancelsAll == unmount = "failed" => Alive \cap Asynchronous \subseteq cancelled

\* What the killed process has started has its output open: no deadline ends that.
OutputKept(j) == j \in Jobs /\ proc[j] = "draining"

(* A kill, by a user or by Unmount, releases every call that waits for the    *)
(* job, also when the job is cleared meanwhile or finished before they       *)
(* looked: at once, or from when its output is no longer kept open.          *)
CancelReleases ==
  \A u \in Users, j \in Jobs :
    pc[u] \in Blocking /\ mine[u] = j /\ j \in cancelled /\ ~OutputKept(j)
      ~> pc[u] = "idle" \/ OutputKept(j)

(* Unmount returns even without a deadline of its own: it waits only for      *)
(* jobs it has cancelled or that are over, and goes on from one whose output *)
(* was kept open when that is closed.                                        *)
UnmountReturns ==
  unmount \in {"snapshot", "cancel", "await"} /\ ~OutputKept(current)
    ~> unmount \in {"done", "failed"} \/ OutputKept(current)
=============================================================================
