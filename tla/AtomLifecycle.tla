---------------------------- MODULE AtomLifecycle ----------------------------
(***************************************************************************)
(* The component registry and lifecycle transactions of an Atom            *)
(* (types/atom.go, types/lifecycle.go): MountAll, UnmountAll/Close, RunAll *)
(* and Reset called from several goroutines, the Unmount and Run callbacks *)
(* they start, and the budgets that let a hanging callback be abandoned.   *)
(*                                                                         *)
(* A component is its registry key (kind and name); the callbacks of a     *)
(* component are free to fail, panic, rename the component or never return.*)
(* A call that the code rejects changes nothing and is not an action.      *)
(***************************************************************************)
EXTENDS Integers, Sequences, FiniteSets, Dependencies

CONSTANTS
  Components,  \* registry keys "data:<name>" and "ability:<name>"
  Abilities,   \* the keys of kind componentAbility
  NameOf,      \* the name of a key; a Data and an Ability may share one
  Deps,        \* what Dependencies() of a component declares
  Unmounters,  \* the components that implement Unmounter
  Runners,     \* the abilities that implement Runner
  Callers,     \* goroutines that call the lifecycle operations
  MaxMounts    \* bound on the number of MountAll transactions

ASSUME ConstantsAssumption ==
  /\ IsFiniteSet(Components)
  /\ Abilities \subseteq Components
  /\ Deps \in [Components -> SUBSET Components]
  /\ Unmounters \subseteq Components
  /\ Runners \subseteq Abilities
  /\ MaxMounts \in Nat

VARIABLES
  \* fields of Atom, guarded by a.mu
  state, transitioning, registered, mounted,
  \* locals of the lifecycle call each goroutine is executing
  pc,        \* where the call is; "idle" outside a call
  op,        \* which operation it is
  items,     \* the components it walks over, in dependency order
  pos,       \* the index it has reached in items
  failed,    \* an error of Check, Mount or Unmount, or a forced shutdown
  ctxDone,   \* the context passed to RunAll or UnmountAll has ended
  \* the supervisor of RunAll
  running,   \* Run goroutines still executing
  pending,   \* runners whose result has not been received
  results,   \* the buffered channel of runnerResult
  runErr,    \* runErr # nil
  \* the Unmount goroutine a teardown is waiting for
  reply,     \* what it has put into its result channel
  budget,    \* its context: live, expired by the clock, released by its cancel
  \* history
  strays,    \* callbacks still executing after the call that started them moved on
  gen,       \* number of MountAll transactions begun
  up,        \* components whose Mount succeeded and whose teardown has not begun
  faulted    \* a runner returned a genuine error before RunAll cancelled anything

atomVars  == <<state, transitioning, registered, mounted>>
callVars  == <<pc, op, items, pos, failed, ctxDone>>
runVars   == <<running, pending, results, runErr, faulted>>
awaitVars == <<reply, budget>>
history   == <<strays, gen, up>>
vars == <<atomVars, callVars, runVars, awaitVars, history>>

States == {"created", "mounted", "running", "stopped", "failed"}
Phases == {"idle", "orderError", "check", "mount", "teardown", "await",
           "waitCtx", "supervise", "drain"}
Operations == {"none", "MountAll", "UnmountAll", "RunAll"}
RunErrors  == {"nil", "canceled", "fault"}
Result == [comp : Runners, err : RunErrors]
Stray  == [kind : {"unmount", "run"}, comp : Components, gen : 0 .. MaxMounts]

Elements(s) == {s[i] : i \in 1 .. Len(s)}
Busy(p)     == pc[p] # "idle"
Current(p)  == items[p][pos[p]]

Init ==
  /\ state = "created" /\ transitioning = FALSE
  /\ registered = {} /\ mounted = <<>>
  /\ pc = [p \in Callers |-> "idle"]
  /\ op = [p \in Callers |-> "none"]
  /\ items = [p \in Callers |-> <<>>]
  /\ pos = [p \in Callers |-> 0]
  /\ failed = [p \in Callers |-> FALSE]
  /\ ctxDone = [p \in Callers |-> FALSE]
  /\ running = [p \in Callers |-> {}]
  /\ pending = [p \in Callers |-> {}]
  /\ results = [p \in Callers |-> <<>>]
  /\ runErr = [p \in Callers |-> FALSE]
  /\ faulted = [p \in Callers |-> FALSE]
  /\ reply = [p \in Callers |-> "none"]
  /\ budget = [p \in Callers |-> "live"]
  /\ strays = {} /\ gen = 0 /\ up = {}

Goto(p, phase) == pc' = [pc EXCEPT ![p] = phase]

\* The call returns: its locals are gone, what it left running is a stray.
Return(p) ==
  /\ Goto(p, "idle")
  /\ op' = [op EXCEPT ![p] = "none"]
  /\ items' = [items EXCEPT ![p] = <<>>]
  /\ pos' = [pos EXCEPT ![p] = 0]
  /\ failed' = [failed EXCEPT ![p] = FALSE]
  /\ ctxDone' = [ctxDone EXCEPT ![p] = FALSE]
  /\ runErr' = [runErr EXCEPT ![p] = FALSE]
  /\ faulted' = [faulted EXCEPT ![p] = FALSE]
  /\ UNCHANGED <<running, pending, results, awaitVars, history>>

-----------------------------------------------------------------------------
(* The registry: each operation is one critical section. *)

\* Variant: AddData and AddAbility without their transitioning guard.
MayRegisterMidMount == state = "created"

MayRegister == state = "created" /\ ~transitioning
MayRemove   == state \in {"created", "stopped", "failed"} /\ ~transitioning
NameFree(c) == \A other \in registered : NameOf[other] # NameOf[c]

AddData(c) ==
  /\ c \in Components \ Abilities
  /\ MayRegister /\ NameFree(c)
  /\ registered' = registered \cup {c}
  /\ UNCHANGED <<state, transitioning, mounted, callVars, runVars, awaitVars, history>>

AddAbility(c) ==
  /\ c \in Abilities
  /\ MayRegister /\ NameFree(c)
  /\ registered' = registered \cup {c}
  /\ UNCHANGED <<state, transitioning, mounted, callVars, runVars, awaitVars, history>>

RemoveData(c) ==
  /\ c \in registered \ Abilities
  /\ MayRemove
  /\ registered' = registered \ {c}
  /\ UNCHANGED <<state, transitioning, mounted, callVars, runVars, awaitVars, history>>

RemoveAbility(c) ==
  /\ c \in registered \cap Abilities
  /\ MayRemove
  /\ registered' = registered \ {c}
  /\ UNCHANGED <<state, transitioning, mounted, callVars, runVars, awaitVars, history>>

MayReset == state \in {"stopped", "failed"} /\ ~transitioning

Reset ==
  /\ MayReset
  /\ state' = "created" /\ mounted' = <<>>
  /\ UNCHANGED <<transitioning, registered, callVars, runVars, awaitVars, history>>

-----------------------------------------------------------------------------
(* MountAll. The order dependencyOrder computes (DependencyOrder.tla models  *)
(* how) depends only on the snapshot taken under the lock, so it is chosen   *)
(* with it; it is an error when there is none or a Dependencies() panics.    *)

\* Variant: MountAll without its transitioning guard.
MayMountAgain == state = "created"

MayMount == state = "created" /\ ~transitioning

MountAllBegin(p) ==
  /\ pc[p] = "idle"
  /\ MayMount
  /\ gen < MaxMounts
  /\ transitioning' = TRUE
  /\ gen' = gen + 1
  /\ op' = [op EXCEPT ![p] = "MountAll"]
  /\ \/ \E ord \in DependencyOrders(registered, Deps) :
          /\ items' = [items EXCEPT ![p] = ord]
          /\ pos' = [pos EXCEPT ![p] = 1]
          /\ Goto(p, "check")
     \/ Goto(p, "orderError") /\ UNCHANGED <<items, pos>>
  /\ UNCHANGED <<state, registered, mounted, failed, ctxDone, runVars, awaitVars,
                 strays, up>>

MountAllOrderError(p) ==
  /\ pc[p] = "orderError"
  /\ transitioning' = FALSE
  /\ Return(p)
  /\ UNCHANGED <<state, registered, mounted>>

\* verifyName, Check, verifyName: errors are collected, the loop goes on.
CheckItem(p) ==
  /\ pc[p] = "check" /\ pos[p] <= Len(items[p])
  /\ pos' = [pos EXCEPT ![p] = @ + 1]
  /\ \E err \in BOOLEAN : failed' = [failed EXCEPT ![p] = @ \/ err]
  /\ UNCHANGED <<atomVars, pc, op, items, ctxDone, runVars, awaitVars, history>>

ChecksFailed(p) ==
  /\ pc[p] = "check" /\ pos[p] > Len(items[p])
  /\ failed[p]
  /\ transitioning' = FALSE /\ mounted' = <<>>
  /\ Return(p)
  /\ UNCHANGED <<state, registered>>

ChecksPassed(p) ==
  /\ pc[p] = "check" /\ pos[p] > Len(items[p])
  /\ ~failed[p]
  /\ pos' = [pos EXCEPT ![p] = 1]
  /\ Goto(p, "mount")
  /\ UNCHANGED <<atomVars, op, items, failed, ctxDone, runVars, awaitVars, history>>

MountItem(p) ==
  /\ pc[p] = "mount" /\ pos[p] <= Len(items[p])
  /\ up' = up \cup {Current(p)}
  /\ pos' = [pos EXCEPT ![p] = @ + 1]
  /\ UNCHANGED <<atomVars, pc, op, items, failed, ctxDone, runVars, awaitVars,
                 strays, gen>>

\* Variant: the rollback starts one item too early.
LastMountedEarly(p) == pos[p] - 2

\* The last item appended to the local list of mounted components.
LastMounted(p) == pos[p] - 1

\* verifyName or Mount fails: roll back the items before this one.
MountItemFails(p) ==
  /\ pc[p] = "mount" /\ pos[p] <= Len(items[p])
  /\ pos' = [pos EXCEPT ![p] = LastMounted(p)]
  /\ failed' = [failed EXCEPT ![p] = TRUE]
  /\ Goto(p, "teardown")
  /\ UNCHANGED <<atomVars, op, items, ctxDone, runVars, awaitVars, history>>

\* Mount succeeded but the name changed: roll back this item too.
MountItemRenamed(p) ==
  /\ pc[p] = "mount" /\ pos[p] <= Len(items[p])
  /\ up' = up \cup {Current(p)}
  /\ failed' = [failed EXCEPT ![p] = TRUE]
  /\ Goto(p, "teardown")
  /\ UNCHANGED <<atomVars, op, items, pos, ctxDone, runVars, awaitVars, strays, gen>>

MountAllSucceeds(p) ==
  /\ pc[p] = "mount" /\ pos[p] > Len(items[p])
  /\ state' = "mounted" /\ mounted' = items[p] /\ transitioning' = FALSE
  /\ Return(p)
  /\ UNCHANGED registered

-----------------------------------------------------------------------------
(* rollback and unmountWithTimeout: items[p] from pos[p] down to 1, one     *)
(* goroutine with a context of its own per component that has an Unmount.   *)

SkipItem(p) ==
  /\ pc[p] = "teardown" /\ pos[p] > 0
  /\ Current(p) \notin Unmounters
  /\ up' = up \ {Current(p)}
  /\ pos' = [pos EXCEPT ![p] = @ - 1]
  /\ UNCHANGED <<atomVars, pc, op, items, failed, ctxDone, runVars, awaitVars,
                 strays, gen>>

UnmountItem(p) ==
  /\ pc[p] = "teardown" /\ pos[p] > 0
  /\ Current(p) \in Unmounters
  /\ up' = up \ {Current(p)}
  /\ Goto(p, "await")
  /\ UNCHANGED <<atomVars, op, items, pos, failed, ctxDone, runVars, awaitVars,
                 strays, gen>>

\* The goroutine sends the outcome of Unmount, then its deferred compCancel runs.
UnmountReturns(p) ==
  /\ pc[p] = "await" /\ reply[p] = "none"
  /\ \E outcome \in {"ok", "error"} : reply' = [reply EXCEPT ![p] = outcome]
  /\ UNCHANGED <<atomVars, callVars, runVars, budget, history>>

ReleaseBudget(p) ==
  /\ pc[p] = "await" /\ reply[p] # "none" /\ budget[p] = "live"
  /\ budget' = [budget EXCEPT ![p] = "released"]
  /\ UNCHANGED <<atomVars, callVars, runVars, reply, history>>

\* Variant: Unmount called without a budget of its own.
NoBudget(p) == FALSE

BudgetExpires(p) ==
  /\ pc[p] = "await" /\ budget[p] = "live"
  /\ budget' = [budget EXCEPT ![p] = "expired"]
  /\ UNCHANGED <<atomVars, callVars, runVars, reply, history>>

\* The budget is also over when the context it was derived from is: that of
\* the caller for UnmountAll, context.Background() for the other two.
OutOfTime(p) == budget[p] = "expired" \/ (op[p] = "UnmountAll" /\ ctxDone[p])

NextItem(p) ==
  /\ pos' = [pos EXCEPT ![p] = @ - 1]
  /\ Goto(p, "teardown")
  /\ reply' = [reply EXCEPT ![p] = "none"]
  /\ budget' = [budget EXCEPT ![p] = "live"]
  /\ UNCHANGED <<atomVars, op, items, ctxDone, runVars, gen, up>>

\* select: either ready case may be chosen.
UnmountDone(p) ==
  /\ pc[p] = "await" /\ reply[p] # "none"
  /\ failed' = [failed EXCEPT ![p] = @ \/ reply[p] = "error"]
  /\ NextItem(p)
  /\ UNCHANGED strays

\* Variant: a timeout aborts the chain instead of going on to the next item.
UnmountTimedOutAborts(p) ==
  /\ pc[p] = "await" /\ (OutOfTime(p) \/ budget[p] = "released")
  /\ failed' = [failed EXCEPT ![p] = TRUE]
  /\ pos' = [pos EXCEPT ![p] = 0]
  /\ Goto(p, "teardown")
  /\ reply' = [reply EXCEPT ![p] = "none"]
  /\ budget' = [budget EXCEPT ![p] = "live"]
  /\ UNCHANGED <<atomVars, op, items, ctxDone, runVars, history>>

UnmountTimedOut(p) ==
  /\ pc[p] = "await" /\ (OutOfTime(p) \/ budget[p] = "released")
  /\ failed' = [failed EXCEPT ![p] = TRUE]
  /\ NextItem(p)
  /\ strays' = IF reply[p] = "none"
               THEN strays \cup {[kind |-> "unmount", comp |-> Current(p), gen |-> gen]}
               ELSE strays

RollbackDone(p) ==
  /\ pc[p] = "teardown" /\ pos[p] = 0 /\ op[p] = "MountAll"
  /\ transitioning' = FALSE /\ mounted' = <<>>
  /\ Return(p)
  /\ UNCHANGED <<state, registered>>

-----------------------------------------------------------------------------
(* UnmountAll, also called through Close, CloseAtom and UnmountAtom. *)

UnmountAllBegin(p) ==
  /\ pc[p] = "idle"
  /\ state = "mounted" /\ ~transitioning
  /\ transitioning' = TRUE
  /\ op' = [op EXCEPT ![p] = "UnmountAll"]
  /\ items' = [items EXCEPT ![p] = mounted]
  /\ pos' = [pos EXCEPT ![p] = Len(mounted)]
  /\ \E done \in BOOLEAN : ctxDone' = [ctxDone EXCEPT ![p] = done]
  /\ Goto(p, "teardown")
  /\ UNCHANGED <<state, registered, mounted, failed, runVars, awaitVars, history>>

UnmountAllDone(p) ==
  /\ pc[p] = "teardown" /\ pos[p] = 0 /\ op[p] = "UnmountAll"
  /\ transitioning' = FALSE /\ mounted' = <<>>
  /\ state' = IF failed[p] THEN "failed" ELSE "stopped"
  /\ Return(p)
  /\ UNCHANGED registered

-----------------------------------------------------------------------------
(* RunAll. *)

RunAllBegin(p) ==
  /\ pc[p] = "idle"
  /\ state = "mounted" /\ ~transitioning
  /\ state' = "running"
  /\ op' = [op EXCEPT ![p] = "RunAll"]
  /\ items' = [items EXCEPT ![p] = mounted]
  /\ pos' = [pos EXCEPT ![p] = Len(mounted)]
  /\ LET runners == Elements(mounted) \cap Runners
     IN \/ /\ ctxDone' = [ctxDone EXCEPT ![p] = TRUE]   \* ctx.Err() # nil on entry
           /\ runErr' = [runErr EXCEPT ![p] = TRUE]
           /\ Goto(p, "teardown")
           /\ UNCHANGED <<running, pending>>
        \/ /\ runners = {}
           /\ Goto(p, "waitCtx")
           /\ UNCHANGED <<ctxDone, runErr, running, pending>>
        \/ /\ runners # {}
           /\ running' = [running EXCEPT ![p] = runners]
           /\ pending' = [pending EXCEPT ![p] = runners]
           /\ Goto(p, "supervise")
           /\ UNCHANGED <<ctxDone, runErr>>
  /\ UNCHANGED <<transitioning, registered, mounted, failed, results, faulted,
                 awaitVars, history>>

CtxEnds(p) ==
  /\ op[p] \in {"RunAll", "UnmountAll"} /\ ~ctxDone[p]
  /\ ctxDone' = [ctxDone EXCEPT ![p] = TRUE]
  /\ UNCHANGED <<atomVars, pc, op, items, pos, failed, runVars, awaitVars, history>>

\* safeRun returns: nil, an error that is context.Canceled, or any other error
\* (a panic and DeadlineExceeded included).
RunnerReturns(p, c) ==
  /\ c \in running[p]
  /\ running' = [running EXCEPT ![p] = @ \ {c}]
  /\ \E e \in RunErrors :
       /\ results' = [results EXCEPT ![p] = Append(@, [comp |-> c, err |-> e])]
       /\ faulted' = [faulted EXCEPT ![p] = @ \/ (e = "fault" /\ pc[p] = "supervise"
                                                    /\ ~ctxDone[p])]
  /\ UNCHANGED <<atomVars, callVars, pending, runErr, awaitVars, history>>

WaitCtxDone(p) ==
  /\ pc[p] = "waitCtx" /\ ctxDone[p]
  /\ runErr' = [runErr EXCEPT ![p] = TRUE]
  /\ Goto(p, "teardown")
  /\ UNCHANGED <<atomVars, op, items, pos, failed, ctxDone, running, pending,
                 results, faulted, awaitVars, history>>

SuperviseCtxDone(p) ==
  /\ pc[p] = "supervise" /\ ctxDone[p]
  /\ runErr' = [runErr EXCEPT ![p] = TRUE]
  /\ Goto(p, "drain")
  /\ UNCHANGED <<atomVars, op, items, pos, failed, ctxDone, running, pending,
                 results, faulted, awaitVars, history>>

\* A result with an error cancels the rest; nil leaves the others running.
SuperviseResult(p) ==
  /\ pc[p] = "supervise" /\ results[p] # <<>>
  /\ LET res  == Head(results[p])
         left == pending[p] \ {res.comp}
     IN /\ results' = [results EXCEPT ![p] = Tail(@)]
        /\ pending' = [pending EXCEPT ![p] = left]
        /\ runErr' = [runErr EXCEPT ![p] = @ \/ res.err = "fault"]
        /\ Goto(p, IF left = {} THEN "teardown"
                   ELSE IF res.err = "nil" THEN "supervise" ELSE "drain")
  /\ UNCHANGED <<atomVars, op, items, pos, failed, ctxDone, running, faulted,
                 awaitVars, history>>

\* After the cancellation results are only counted.
DrainResult(p) ==
  /\ pc[p] = "drain" /\ results[p] # <<>>
  /\ LET left == pending[p] \ {Head(results[p]).comp}
     IN /\ results' = [results EXCEPT ![p] = Tail(@)]
        /\ pending' = [pending EXCEPT ![p] = left]
        /\ Goto(p, IF left = {} THEN "teardown" ELSE "drain")
  /\ UNCHANGED <<atomVars, op, items, pos, failed, ctxDone, running, runErr,
                 faulted, awaitVars, history>>

\* Variants: finalizeAfterRun is not told that the shutdown was forced; the
\* supervisor waits for its runners without a timer.
NotForced(p)       == UNCHANGED failed
NoShutdownTimer(p) == FALSE

ForceFailed(p) == failed' = [failed EXCEPT ![p] = TRUE]

\* timer.C: the remaining runners are abandoned and the shutdown is forced.
ShutdownTimeout(p) ==
  /\ pc[p] = "drain"
  /\ runErr' = [runErr EXCEPT ![p] = TRUE]
  /\ ForceFailed(p)
  /\ strays' = strays \cup {[kind |-> "run", comp |-> c, gen |-> gen] : c \in running[p]}
  /\ running' = [running EXCEPT ![p] = {}]
  /\ pending' = [pending EXCEPT ![p] = {}]
  /\ results' = [results EXCEPT ![p] = <<>>]
  /\ Goto(p, "teardown")
  /\ UNCHANGED <<atomVars, op, items, pos, ctxDone, faulted, awaitVars, gen, up>>

\* The end of finalizeAfterRun.
RunAllDone(p) ==
  /\ pc[p] = "teardown" /\ pos[p] = 0 /\ op[p] = "RunAll"
  /\ mounted' = <<>>
  /\ state' = IF failed[p] THEN "failed" ELSE "stopped"
  /\ Return(p)
  /\ UNCHANGED <<transitioning, registered>>

StrayReturns(s) ==
  /\ s \in strays
  /\ strays' = strays \ {s}
  /\ UNCHANGED <<atomVars, callVars, runVars, awaitVars, gen, up>>

-----------------------------------------------------------------------------
Registry ==
  \E c \in Components : AddData(c) \/ AddAbility(c) \/ RemoveData(c) \/ RemoveAbility(c)

Begin(p) == MountAllBegin(p) \/ UnmountAllBegin(p) \/ RunAllBegin(p)

Mounting(p) == CheckItem(p) \/ MountItem(p) \/ MountItemFails(p) \/ MountItemRenamed(p)

\* Steps of the framework's own goroutine, which no callback can hold up.
Supervisor(p) ==
  \/ MountAllOrderError(p) \/ ChecksFailed(p) \/ ChecksPassed(p) \/ MountAllSucceeds(p)
  \/ SkipItem(p) \/ UnmountItem(p) \/ UnmountDone(p) \/ UnmountTimedOut(p)
  \/ RollbackDone(p) \/ UnmountAllDone(p) \/ RunAllDone(p)
  \/ WaitCtxDone(p) \/ SuperviseCtxDone(p) \/ SuperviseResult(p) \/ DrainResult(p)

Timers(p) == BudgetExpires(p) \/ ShutdownTimeout(p)

Callbacks(p) ==
  \/ UnmountReturns(p) \/ ReleaseBudget(p) \/ CtxEnds(p)
  \/ \E c \in Runners : RunnerReturns(p, c)

Next ==
  \/ Registry \/ Reset
  \/ \E p \in Callers : Begin(p) \/ Mounting(p) \/ Supervisor(p) \/ Timers(p) \/ Callbacks(p)
  \/ \E s \in strays : StrayReturns(s)

Spec == Init /\ [][Next]_vars

(***************************************************************************)
(* The Go scheduler runs the supervising goroutine and timers fire. Nothing *)
(* is assumed of Check, Mount, Unmount and Run: each may hang for ever.     *)
(***************************************************************************)
Fairness == \A p \in Callers : WF_vars(Supervisor(p)) /\ WF_vars(Timers(p))
FairSpec == Spec /\ Fairness

-----------------------------------------------------------------------------
(* Properties *)

FlagsOK ==
  /\ transitioning \in BOOLEAN
  /\ failed \in [Callers -> BOOLEAN] /\ ctxDone \in [Callers -> BOOLEAN]
  /\ runErr \in [Callers -> BOOLEAN] /\ faulted \in [Callers -> BOOLEAN]

AtomOK ==
  /\ state \in States
  /\ registered \subseteq Components /\ mounted \in Seq(Components)

CallOK ==
  /\ pc \in [Callers -> Phases] /\ op \in [Callers -> Operations]
  /\ items \in [Callers -> Seq(Components)] /\ pos \in [Callers -> Nat]

RunOK ==
  /\ running \in [Callers -> SUBSET Runners] /\ pending \in [Callers -> SUBSET Runners]
  /\ results \in [Callers -> Seq(Result)]

AwaitOK ==
  /\ reply \in [Callers -> {"none", "ok", "error"}]
  /\ budget \in [Callers -> {"live", "expired", "released"}]

HistoryOK ==
  /\ strays \subseteq Stray /\ gen \in 0 .. MaxMounts /\ up \subseteq Components

TypeOK == FlagsOK /\ AtomOK /\ CallOK /\ RunOK /\ AwaitOK /\ HistoryOK

(* The state and transitioning guards of MountAll, UnmountAll and RunAll let *)
(* one lifecycle call in at a time, and a call in progress is what holds the *)
(* guard: transitioning and Running never outlive the call that set them, so *)
(* the Atom is not locked for good.                                          *)
OneTransaction ==
  /\ \A p, q \in Callers : Busy(p) /\ Busy(q) => p = q
  /\ (transitioning \/ state = "running") <=> \E p \in Callers : Busy(p)

(* A component is never part of a mounted Atom without having been checked  *)
(* and mounted (the comment of AddAbility): while mounted or running the     *)
(* registry is exactly what MountAll mounted.                                *)
RegistryFrozen ==
  state \in {"mounted", "running"} => Elements(mounted) = registered

(* A component is up only while everything it depends on is up: during the   *)
(* mount loop, in rollback, in UnmountAll and in finalizeAfterRun, whichever *)
(* callbacks fail, hang or are abandoned.                                    *)
DependenciesUp == \A c \in up : Deps[c] \subseteq up

(* "AtomStopped|AtomFailed => a.mounted == nil" (finalizeAfterRun), and no   *)
(* path leaves a mounted component without its Unmount having been started:  *)
(* one hanging component does not abort the chain (unmountWithTimeout).      *)
NothingLeftUp ==
  ~transitioning /\ state \in {"created", "stopped", "failed"} =>
    mounted = <<>> /\ up = {}

(* Stopped: all Runners have exited and every Unmount of this mount has      *)
(* returned. Callbacks that were abandoned always end in Failed.             *)
StoppedIsQuiet ==
  state = "stopped" => \A s \in strays : s.gen # gen

(* Mount is called only on what is down and a teardown reaches only what is   *)
(* up: in one transaction no component is mounted or unmounted twice, and    *)
(* rollback does not unmount the component whose own Mount failed.           *)
MountedOnceTornDownOnce ==
  \A p \in Callers :
    /\ pc[p] = "mount" /\ pos[p] <= Len(items[p]) => Current(p) \notin up
    /\ pc[p] = "teardown" /\ pos[p] > 0 => Current(p) \in up

(* The lifecycle, with all its intermediate steps, failures and abandoned    *)
(* callbacks, implements the atomic contract of AtomContract.                *)
Contract == INSTANCE AtomContract WITH registry <- registered, serving <- Elements(mounted)
ImplementsContract == Contract!Spec

(* A hanging Unmount cannot hang rollback, UnmountAll or RunAll: a teardown  *)
(* that has begun ends.                                                      *)
TeardownEnds ==
  \A p \in Callers : pc[p] \in {"teardown", "await"} ~> pc[p] = "idle"

(* RunAll returns once its context ends, whatever the runners do.            *)
RunAllEnds ==
  \A p \in Callers : op[p] = "RunAll" /\ ctxDone[p] ~> op[p] # "RunAll"

-----------------------------------------------------------------------------
(* What the documents and comments of the repository say and the code does   *)
(* not keep.                                                                 *)

(* Reset's comment: "by the time you can call Reset, mounted components have *)
(* already been torn down".                                                  *)
ResetAfterTeardown == [][state # "created" /\ state' = "created" => strays = {}]_vars

(* The core-hardening design, section 7: components are unmounted only after *)
(* all Runners exited; after a shutdown timeout they are not unmounted.      *)
UnmountAfterRunners ==
  [][\A p \in Callers : pc[p] = "teardown" /\ pc'[p] = "await" /\ op[p] = "RunAll" =>
       \A s \in strays : s.kind = "run" => s.gen # gen]_vars

(* The same section: a complete cleanup ends in Stopped, Failed is for an    *)
(* Unmount that failed or timed out. So an Unmount that returned nil in time *)
(* does not fail the teardown.                                               *)
TimeoutOnlyWhenLate ==
  [][\A p \in Callers : pc[p] = "await" /\ pc'[p] = "teardown" /\ reply[p] = "ok"
       /\ failed'[p] => failed[p] \/ OutOfTime(p)]_vars

(* The same section: an error of a Runner that is not a context error is     *)
(* recorded and RunAtom returns it.                                          *)
RunnerFaultReported ==
  \A p \in Callers : faulted[p] /\ pc[p] \in {"teardown", "await"} => runErr[p]
-----------------------------------------------------------------------------
(* The inductive strengthening used in AtomLifecycleProofs.                  *)

\* Where a call can be in the list it walks over.
Positions ==
  \A p \in Callers :
    /\ pc[p] \in {"check", "mount"} => pos[p] \in 1 .. Len(items[p]) + 1
    /\ pc[p] \in {"teardown", "waitCtx", "supervise", "drain"} => pos[p] \in 0 .. Len(items[p])
    /\ pc[p] = "await" => pos[p] \in 1 .. Len(items[p])

\* A call in progress holds the guard of the state it began in.
Guarded ==
  /\ \A p \in Callers :
       /\ Busy(p) <=> op[p] # "none"
       /\ pc[p] \in {"orderError", "check", "mount"} => op[p] = "MountAll"
       /\ pc[p] \in {"waitCtx", "supervise", "drain"} => op[p] = "RunAll"
       /\ op[p] = "MountAll"   => state = "created" /\ transitioning
       /\ op[p] = "UnmountAll" => state = "mounted" /\ transitioning
       /\ op[p] = "RunAll"     => state = "running" /\ ~transitioning
  /\ OneTransaction

First(s, n) == {s[i] : i \in 1 .. n}

\* No component twice, each after what it depends on.
InOrder(s) ==
  /\ \A i, j \in 1 .. Len(s) : s[i] = s[j] => i = j
  /\ \A i \in 1 .. Len(s) : \A d \in Deps[s[i]] : \E j \in 1 .. i - 1 : s[j] = d

\* How far each call has walked is exactly what is up.
Walk(p) ==
  /\ InOrder(items[p])
  /\ pc[p] \in Phases \ {"idle", "orderError"} => Elements(items[p]) = registered
  /\ pc[p] \in {"orderError", "check"} => up = {}
  /\ pc[p] \in {"mount", "await"} => up = First(items[p], pos[p] - 1)
  /\ pc[p] \in {"teardown", "waitCtx", "supervise", "drain"} => up = First(items[p], pos[p])

Walked ==
  /\ \A p \in Callers : Walk(p)
  /\ InOrder(mounted)
  /\ RegistryFrozen
  /\ state = "mounted" /\ ~transitioning => up = Elements(mounted)
  /\ state \notin {"mounted", "running"} => mounted = <<>>
  /\ state \in {"stopped", "failed"} \/ (state = "created" /\ ~transitioning) => up = {}

Quiet == \A s \in strays : s.gen # gen

\* A callback is abandoned only by a call that then fails.
AbandonedFails ==
  /\ \A s \in strays : s.gen <= gen
  /\ \A p \in Callers :
       /\ op[p] \in {"UnmountAll", "RunAll"} /\ ~failed[p] => Quiet
       /\ pc[p] \in {"check", "mount", "waitCtx", "supervise", "drain"} => Quiet
  /\ state = "mounted" /\ ~transitioning => Quiet
  /\ StoppedIsQuiet

Inductive == TypeOK /\ Positions /\ Guarded /\ Walked /\ AbandonedFails
=============================================================================
