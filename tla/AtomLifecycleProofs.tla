-------------------------- MODULE AtomLifecycleProofs --------------------------
(* Theorems about AtomLifecycle, for every set of components and callers,     *)
(* every dependency relation and every bound on the number of mounts.         *)
EXTENDS AtomLifecycle, TLAPS, FiniteSetTheorems, SequenceTheorems, WellFoundedInduction

USE DEF Elements, Busy, Current, Goto, MayReset, MayMount, LastMounted, ForceFailed,
        vars, atomVars, callVars, runVars, awaitVars, history

(* An order dependencyOrder may return lists the registered components.       *)
LEMMA OrderLists ==
  ASSUME NEW S, S \subseteq Components, NEW ord \in DependencyOrders(S, Deps)
  PROVE  /\ ord \in Seq(Components)
         /\ Elements(ord) = S
         /\ InOrder(ord)
<1>1. Cardinality(S) \in Nat
  BY ConstantsAssumption, FS_Subset, FS_CardinalityType
<1>2. ord \in [1 .. Cardinality(S) -> S]
  BY DEF DependencyOrders
<1>3. ord \in Seq(Components) /\ Len(ord) = Cardinality(S)
  BY <1>1, <1>2
<1>4. Elements(ord) = S
  BY <1>1, <1>2, <1>3 DEF DependencyOrders
<1>5. InOrder(ord)
  BY <1>3 DEF DependencyOrders, InOrder
<1>6. QED BY <1>3, <1>4, <1>5

-----------------------------------------------------------------------------
LEMMA TypeInit == Init => TypeOK
<1> SUFFICES ASSUME Init PROVE TypeOK
  OBVIOUS
<1>1. transitioning \in BOOLEAN
  BY DEF Init
<1>2. /\ failed \in [Callers -> BOOLEAN] /\ ctxDone \in [Callers -> BOOLEAN]
      /\ runErr \in [Callers -> BOOLEAN] /\ faulted \in [Callers -> BOOLEAN]
  BY DEF Init
<1>3. state \in States /\ registered \subseteq Components
  BY DEF Init, States
<1>4. mounted \in Seq(Components)
  BY DEF Init
<1>5. CallOK
  BY DEF Init, CallOK, Phases, Operations
<1>6. RunOK
  BY DEF Init, RunOK
<1>7. AwaitOK
  BY DEF Init, AwaitOK
<1>8. HistoryOK
  BY ConstantsAssumption DEF Init, HistoryOK
<1>9. QED BY <1>1, <1>2, <1>3, <1>4, <1>5, <1>6, <1>7, <1>8 DEF TypeOK, FlagsOK, AtomOK

LEMMA PositionsInit == Init => Positions
BY DEF Init, Positions

LEMMA FlagsStep == FlagsOK /\ [Next]_vars => FlagsOK'
<1> SUFFICES ASSUME FlagsOK, [Next]_vars PROVE FlagsOK'
  OBVIOUS
<1> USE DEF FlagsOK
<1>1. CASE Registry \/ Reset
  BY <1>1 DEF Registry, Reset, AddData, AddAbility, RemoveData, RemoveAbility
<1>2. ASSUME NEW p \in Callers, Begin(p) PROVE FlagsOK'
  BY <1>2 DEF Begin, MountAllBegin, UnmountAllBegin, RunAllBegin
<1>3. ASSUME NEW p \in Callers, Mounting(p) PROVE FlagsOK'
  BY <1>3 DEF Mounting, CheckItem, MountItem, MountItemFails, MountItemRenamed
<1>4. ASSUME NEW p \in Callers, Supervisor(p) PROVE FlagsOK'
  BY <1>4 DEF Supervisor, MountAllOrderError, ChecksFailed, ChecksPassed,
    MountAllSucceeds, SkipItem, UnmountItem, UnmountDone, UnmountTimedOut, RollbackDone,
    UnmountAllDone, RunAllDone, WaitCtxDone, SuperviseCtxDone, SuperviseResult,
    DrainResult, Return, NextItem
<1>5. ASSUME NEW p \in Callers, Timers(p) \/ Callbacks(p) PROVE FlagsOK'
  BY <1>5 DEF Timers, Callbacks, BudgetExpires, ShutdownTimeout, UnmountReturns,
    ReleaseBudget, CtxEnds, RunnerReturns
<1>6. CASE \E s \in strays : StrayReturns(s)
  BY <1>6 DEF StrayReturns
<1>7. CASE UNCHANGED vars
  BY <1>7
<1>8. QED BY <1>1, <1>2, <1>3, <1>4, <1>5, <1>6, <1>7 DEF Next

LEMMA AtomStep == AtomOK /\ CallOK /\ [Next]_vars => AtomOK'
<1> SUFFICES ASSUME AtomOK /\ CallOK, [Next]_vars PROVE AtomOK'
  OBVIOUS
<1> USE DEF AtomOK, CallOK, States
<1>1. CASE Registry \/ Reset
  <2>1. ASSUME NEW c \in Components,
               AddData(c) \/ AddAbility(c) \/ RemoveData(c) \/ RemoveAbility(c)
        PROVE  AtomOK'
    BY <2>1 DEF AddData, AddAbility, RemoveData, RemoveAbility
  <2>2. CASE Reset
    BY <2>2 DEF Reset
  <2>3. QED BY <1>1, <2>1, <2>2 DEF Registry
<1>2. ASSUME NEW p \in Callers, Begin(p) PROVE AtomOK'
  BY <1>2 DEF Begin, MountAllBegin, UnmountAllBegin, RunAllBegin
<1>3. ASSUME NEW p \in Callers, Mounting(p) PROVE AtomOK'
  BY <1>3 DEF Mounting, CheckItem, MountItem, MountItemFails, MountItemRenamed
<1>4. ASSUME NEW p \in Callers, Supervisor(p) PROVE AtomOK'
  <2>1. CASE MountAllOrderError(p)
    BY <2>1 DEF MountAllOrderError, Return
  <2>2. CASE ChecksFailed(p)
    BY <2>2 DEF ChecksFailed, Return
  <2>3. CASE MountAllSucceeds(p)
    BY <2>3 DEF MountAllSucceeds, Return
  <2>4. CASE RollbackDone(p)
    BY <2>4 DEF RollbackDone, Return
  <2>5. CASE UnmountAllDone(p)
    BY <2>5 DEF UnmountAllDone, Return
  <2>6. CASE RunAllDone(p)
    BY <2>6 DEF RunAllDone, Return
  <2>7. CASE \/ ChecksPassed(p) \/ SkipItem(p) \/ UnmountItem(p) \/ UnmountDone(p)
            \/ UnmountTimedOut(p) \/ WaitCtxDone(p) \/ SuperviseCtxDone(p)
            \/ SuperviseResult(p) \/ DrainResult(p)
    BY <2>7 DEF ChecksPassed, SkipItem, UnmountItem, UnmountDone, UnmountTimedOut,
      WaitCtxDone, SuperviseCtxDone, SuperviseResult, DrainResult, NextItem
  <2>8. QED BY <1>4, <2>1, <2>2, <2>3, <2>4, <2>5, <2>6, <2>7 DEF Supervisor
<1>5. ASSUME NEW p \in Callers, Timers(p) \/ Callbacks(p) PROVE AtomOK'
  BY <1>5 DEF Timers, Callbacks, BudgetExpires, ShutdownTimeout, UnmountReturns,
    ReleaseBudget, CtxEnds, RunnerReturns
<1>6. CASE \E s \in strays : StrayReturns(s)
  BY <1>6 DEF StrayReturns
<1>7. CASE UNCHANGED vars
  BY <1>7
<1>8. QED BY <1>1, <1>2, <1>3, <1>4, <1>5, <1>6, <1>7 DEF Next

LEMMA CallStep == AtomOK /\ CallOK /\ Positions /\ [Next]_vars => CallOK'
<1> SUFFICES ASSUME AtomOK /\ CallOK /\ Positions, [Next]_vars PROVE CallOK'
  OBVIOUS
<1> USE DEF AtomOK, CallOK, Phases, Operations
<1>0. /\ Len(mounted) \in Nat
      /\ \A p \in Callers : Len(items[p]) \in Nat
  BY LenProperties
<1>1. CASE Registry \/ Reset
  BY <1>1 DEF Registry, Reset, AddData, AddAbility, RemoveData, RemoveAbility
<1>2. ASSUME NEW p \in Callers, Begin(p) PROVE CallOK'
  <2>1. CASE MountAllBegin(p)
    <3>1. CASE pc' = [pc EXCEPT ![p] = "check"]
      <4>1. PICK ord \in DependencyOrders(registered, Deps) :
              items' = [items EXCEPT ![p] = ord] /\ pos' = [pos EXCEPT ![p] = 1]
        BY <2>1, <3>1 DEF MountAllBegin
      <4>2. ord \in Seq(Components)
        BY OrderLists
      <4>3. QED BY <2>1, <3>1, <4>1, <4>2 DEF MountAllBegin
    <3>2. CASE pc' = [pc EXCEPT ![p] = "orderError"] /\ UNCHANGED <<items, pos>>
      BY <2>1, <3>2 DEF MountAllBegin
    <3>3. QED BY <2>1, <3>1, <3>2 DEF MountAllBegin
  <2>2. CASE UnmountAllBegin(p)
    BY <2>2, <1>0 DEF UnmountAllBegin
  <2>3. CASE RunAllBegin(p)
    BY <2>3, <1>0 DEF RunAllBegin
  <2>4. QED BY <1>2, <2>1, <2>2, <2>3 DEF Begin
<1>3. ASSUME NEW p \in Callers, Mounting(p) PROVE CallOK'
  <2>1. CASE CheckItem(p)
    BY <2>1, <1>0 DEF CheckItem
  <2>2. CASE MountItem(p)
    BY <2>2 DEF MountItem
  <2>3. CASE MountItemFails(p)
    BY <1>0, <2>3 DEF MountItemFails, Positions
  <2>4. CASE MountItemRenamed(p)
    BY <2>4 DEF MountItemRenamed
  <2>5. QED BY <1>3, <2>1, <2>2, <2>3, <2>4 DEF Mounting
<1>4. ASSUME NEW p \in Callers, Supervisor(p) PROVE CallOK'
  <2>1. CASE MountAllOrderError(p)
    BY <2>1 DEF MountAllOrderError, Return
  <2>2. CASE ChecksFailed(p)
    BY <2>2 DEF ChecksFailed, Return
  <2>3. CASE MountAllSucceeds(p)
    BY <2>3 DEF MountAllSucceeds, Return
  <2>4. CASE RollbackDone(p)
    BY <2>4 DEF RollbackDone, Return
  <2>5. CASE UnmountAllDone(p)
    BY <2>5 DEF UnmountAllDone, Return
  <2>6. CASE RunAllDone(p)
    BY <2>6 DEF RunAllDone, Return
  <2>7. CASE ChecksPassed(p)
    BY <2>7 DEF ChecksPassed
  <2>8. CASE SkipItem(p)
    BY <2>8 DEF SkipItem
  <2>9. CASE UnmountItem(p)
    BY <2>9 DEF UnmountItem
  <2>10. CASE UnmountDone(p)
    BY <1>0, <2>10 DEF UnmountDone, NextItem, Positions
  <2>11. CASE UnmountTimedOut(p)
    BY <1>0, <2>11 DEF UnmountTimedOut, NextItem, Positions
  <2>12. CASE WaitCtxDone(p) \/ SuperviseCtxDone(p)
    BY <2>12 DEF WaitCtxDone, SuperviseCtxDone
  <2>13. CASE SuperviseResult(p)
    BY <2>13 DEF SuperviseResult
  <2>14. CASE DrainResult(p)
    BY <2>14 DEF DrainResult
  <2>15. QED BY <1>4, <2>1, <2>2, <2>3, <2>4, <2>5, <2>6, <2>7, <2>8, <2>9, <2>10,
      <2>11, <2>12, <2>13, <2>14 DEF Supervisor
<1>5. ASSUME NEW p \in Callers, Timers(p) \/ Callbacks(p) PROVE CallOK'
  BY <1>5 DEF Timers, Callbacks, BudgetExpires, ShutdownTimeout, UnmountReturns,
    ReleaseBudget, CtxEnds, RunnerReturns
<1>6. CASE \E s \in strays : StrayReturns(s)
  BY <1>6 DEF StrayReturns
<1>7. CASE UNCHANGED vars
  BY <1>7
<1>8. QED BY <1>1, <1>2, <1>3, <1>4, <1>5, <1>6, <1>7 DEF Next

LEMMA RunStep == RunOK /\ [Next]_vars => RunOK'
<1> SUFFICES ASSUME RunOK, [Next]_vars PROVE RunOK'
  OBVIOUS
<1> USE DEF RunOK
<1>0. /\ <<>> \in Seq(Result)
      /\ \A s \in Seq(Result) : s # <<>> => Tail(s) \in Seq(Result)
  BY EmptySeq, HeadTailProperties
<1>1. CASE Registry \/ Reset
  BY <1>1 DEF Registry, Reset, AddData, AddAbility, RemoveData, RemoveAbility
<1>2. ASSUME NEW p \in Callers, Begin(p) PROVE RunOK'
  <2>1. CASE RunAllBegin(p)
    BY <2>1 DEF RunAllBegin
  <2>2. CASE MountAllBegin(p) \/ UnmountAllBegin(p)
    BY <2>2 DEF MountAllBegin, UnmountAllBegin
  <2>3. QED BY <1>2, <2>1, <2>2 DEF Begin
<1>3. ASSUME NEW p \in Callers, Mounting(p) PROVE RunOK'
  BY <1>3 DEF Mounting, CheckItem, MountItem, MountItemFails, MountItemRenamed
<1>4. ASSUME NEW p \in Callers, Supervisor(p) PROVE RunOK'
  <2>1. CASE SuperviseResult(p)
    BY <2>1, <1>0 DEF SuperviseResult
  <2>2. CASE DrainResult(p)
    BY <2>2, <1>0 DEF DrainResult
  <2>3. CASE \/ MountAllOrderError(p) \/ ChecksFailed(p) \/ ChecksPassed(p)
            \/ MountAllSucceeds(p) \/ SkipItem(p) \/ UnmountItem(p)
            \/ UnmountDone(p) \/ UnmountTimedOut(p) \/ RollbackDone(p)
            \/ UnmountAllDone(p) \/ RunAllDone(p) \/ WaitCtxDone(p)
            \/ SuperviseCtxDone(p)
    BY <2>3 DEF MountAllOrderError, ChecksFailed, ChecksPassed, MountAllSucceeds,
      SkipItem, UnmountItem, UnmountDone, UnmountTimedOut, RollbackDone, UnmountAllDone,
      RunAllDone, WaitCtxDone, SuperviseCtxDone, Return, NextItem
  <2>4. QED BY <1>4, <2>1, <2>2, <2>3 DEF Supervisor
<1>5. ASSUME NEW p \in Callers, Timers(p) \/ Callbacks(p) PROVE RunOK'
  <2>1. CASE ShutdownTimeout(p)
    BY <1>0, <2>1 DEF ShutdownTimeout
  <2>2. CASE BudgetExpires(p) \/ UnmountReturns(p) \/ ReleaseBudget(p) \/ CtxEnds(p)
    BY <2>2 DEF BudgetExpires, UnmountReturns, ReleaseBudget, CtxEnds
  <2>3. ASSUME NEW c \in Runners, RunnerReturns(p, c) PROVE RunOK'
    <3>1. PICK e \in RunErrors :
            results' = [results EXCEPT ![p] = Append(@, [comp |-> c, err |-> e])]
      BY <2>3 DEF RunnerReturns
    <3>2. [comp |-> c, err |-> e] \in Result
      BY DEF Result
    <3>3. Append(results[p], [comp |-> c, err |-> e]) \in Seq(Result)
      BY <3>2, AppendProperties
    <3>4. results' \in [Callers -> Seq(Result)]
      BY <3>1, <3>3
    <3>5. QED BY <2>3, <3>4 DEF RunnerReturns
  <2>4. QED BY <1>5, <2>1, <2>2, <2>3 DEF Timers, Callbacks
<1>6. CASE \E s \in strays : StrayReturns(s)
  BY <1>6 DEF StrayReturns
<1>7. CASE UNCHANGED vars
  BY <1>7
<1>8. QED BY <1>1, <1>2, <1>3, <1>4, <1>5, <1>6, <1>7 DEF Next

LEMMA AwaitStep == AwaitOK /\ [Next]_vars => AwaitOK'
<1> SUFFICES ASSUME AwaitOK, [Next]_vars PROVE AwaitOK'
  OBVIOUS
<1> USE DEF AwaitOK
<1>1. CASE Registry \/ Reset
  BY <1>1 DEF Registry, Reset, AddData, AddAbility, RemoveData, RemoveAbility
<1>2. ASSUME NEW p \in Callers, Begin(p) PROVE AwaitOK'
  BY <1>2 DEF Begin, MountAllBegin, UnmountAllBegin, RunAllBegin
<1>3. ASSUME NEW p \in Callers, Mounting(p) PROVE AwaitOK'
  BY <1>3 DEF Mounting, CheckItem, MountItem, MountItemFails, MountItemRenamed
<1>4. ASSUME NEW p \in Callers, Supervisor(p) PROVE AwaitOK'
  BY <1>4 DEF Supervisor, MountAllOrderError, ChecksFailed, ChecksPassed,
    MountAllSucceeds, SkipItem, UnmountItem, UnmountDone, UnmountTimedOut, RollbackDone,
    UnmountAllDone, RunAllDone, WaitCtxDone, SuperviseCtxDone, SuperviseResult,
    DrainResult, Return, NextItem
<1>5. ASSUME NEW p \in Callers, Timers(p) \/ Callbacks(p) PROVE AwaitOK'
  BY <1>5 DEF Timers, Callbacks, BudgetExpires, ShutdownTimeout, UnmountReturns,
    ReleaseBudget, CtxEnds, RunnerReturns
<1>6. CASE \E s \in strays : StrayReturns(s)
  BY <1>6 DEF StrayReturns
<1>7. CASE UNCHANGED vars
  BY <1>7
<1>8. QED BY <1>1, <1>2, <1>3, <1>4, <1>5, <1>6, <1>7 DEF Next

LEMMA HistoryStep == HistoryOK /\ CallOK /\ RunOK /\ Positions /\ [Next]_vars => HistoryOK'
<1> SUFFICES ASSUME HistoryOK /\ CallOK /\ RunOK /\ Positions, [Next]_vars PROVE HistoryOK'
  OBVIOUS
<1> USE ConstantsAssumption DEF HistoryOK, CallOK
<1>0. \A p \in Callers : pos[p] \in 1 .. Len(items[p]) => Current(p) \in Components
  BY ElementOfSeq
<1>1. CASE Registry \/ Reset
  BY <1>1 DEF Registry, Reset, AddData, AddAbility, RemoveData, RemoveAbility
<1>2. ASSUME NEW p \in Callers, Begin(p) PROVE HistoryOK'
  BY <1>2 DEF Begin, MountAllBegin, UnmountAllBegin, RunAllBegin
<1>3. ASSUME NEW p \in Callers, Mounting(p) PROVE HistoryOK'
  <2>1. CASE MountItem(p)
    BY <2>1, <1>0 DEF MountItem, Positions
  <2>2. CASE MountItemRenamed(p)
    BY <2>2, <1>0 DEF MountItemRenamed, Positions
  <2>3. CASE CheckItem(p) \/ MountItemFails(p)
    BY <2>3 DEF CheckItem, MountItemFails
  <2>4. QED BY <1>3, <2>1, <2>2, <2>3 DEF Mounting
<1>4. ASSUME NEW p \in Callers, Supervisor(p) PROVE HistoryOK'
  <2>1. CASE SkipItem(p)
    BY <2>1 DEF SkipItem
  <2>2. CASE UnmountItem(p)
    BY <2>2 DEF UnmountItem
  <2>3. CASE UnmountTimedOut(p)
    <3>1. Current(p) \in Components
      BY <2>3, <1>0 DEF UnmountTimedOut, Positions
    <3>2. [kind |-> "unmount", comp |-> Current(p), gen |-> gen] \in Stray
      BY <3>1 DEF Stray
    <3>3. QED BY <2>3, <3>2 DEF UnmountTimedOut, NextItem
  <2>4. CASE \/ MountAllOrderError(p) \/ ChecksFailed(p) \/ ChecksPassed(p)
            \/ MountAllSucceeds(p) \/ UnmountDone(p) \/ RollbackDone(p)
            \/ UnmountAllDone(p) \/ RunAllDone(p) \/ WaitCtxDone(p)
            \/ SuperviseCtxDone(p) \/ SuperviseResult(p) \/ DrainResult(p)
    BY <2>4 DEF MountAllOrderError, ChecksFailed, ChecksPassed, MountAllSucceeds,
      UnmountDone, RollbackDone, UnmountAllDone, RunAllDone, WaitCtxDone,
      SuperviseCtxDone, SuperviseResult, DrainResult, Return, NextItem
  <2>5. QED BY <1>4, <2>1, <2>2, <2>3, <2>4 DEF Supervisor
<1>5. ASSUME NEW p \in Callers, Timers(p) \/ Callbacks(p) PROVE HistoryOK'
  <2>1. CASE ShutdownTimeout(p)
    <3>1. \A c \in running[p] : c \in Components
      BY DEF RunOK
    <3>2. {[kind |-> "run", comp |-> c, gen |-> gen] : c \in running[p]} \subseteq Stray
      BY <3>1 DEF Stray
    <3>3. QED BY <2>1, <3>2 DEF ShutdownTimeout
  <2>2. CASE BudgetExpires(p) \/ UnmountReturns(p) \/ ReleaseBudget(p) \/ CtxEnds(p)
    BY <2>2 DEF BudgetExpires, UnmountReturns, ReleaseBudget, CtxEnds
  <2>3. ASSUME NEW c \in Runners, RunnerReturns(p, c) PROVE HistoryOK'
    BY <2>3 DEF RunnerReturns
  <2>4. QED BY <1>5, <2>1, <2>2, <2>3 DEF Timers, Callbacks
<1>6. CASE \E s \in strays : StrayReturns(s)
  BY <1>6 DEF StrayReturns
<1>7. CASE UNCHANGED vars
  BY <1>7
<1>8. QED BY <1>1, <1>2, <1>3, <1>4, <1>5, <1>6, <1>7 DEF Next

LEMMA PositionsStep == AtomOK /\ CallOK /\ Positions /\ [Next]_vars => Positions'
<1> SUFFICES ASSUME AtomOK /\ CallOK /\ Positions, [Next]_vars PROVE Positions'
  OBVIOUS
<1> USE DEF AtomOK, CallOK, Phases, Operations, Positions
<1>0. /\ Len(mounted) \in Nat
      /\ \A p \in Callers : Len(items[p]) \in Nat
  BY LenProperties
<1>1. CASE Registry \/ Reset
  BY <1>1 DEF Registry, Reset, AddData, AddAbility, RemoveData, RemoveAbility
<1>2. ASSUME NEW p \in Callers, Begin(p) PROVE Positions'
  <2>1. CASE MountAllBegin(p)
    BY <2>1, <1>0, OrderLists DEF MountAllBegin
  <2>2. CASE UnmountAllBegin(p)
    BY <2>2, <1>0 DEF UnmountAllBegin
  <2>3. CASE RunAllBegin(p)
    BY <2>3, <1>0 DEF RunAllBegin
  <2>4. QED BY <1>2, <2>1, <2>2, <2>3 DEF Begin
<1>3. ASSUME NEW p \in Callers, Mounting(p) PROVE Positions'
  <2>1. CASE CheckItem(p)
    BY <2>1, <1>0 DEF CheckItem
  <2>2. CASE MountItem(p)
    BY <2>2 DEF MountItem
  <2>3. CASE MountItemFails(p)
    BY <2>3 DEF MountItemFails
  <2>4. CASE MountItemRenamed(p)
    BY <2>4 DEF MountItemRenamed
  <2>5. QED BY <1>3, <2>1, <2>2, <2>3, <2>4 DEF Mounting
<1>4. ASSUME NEW p \in Callers, Supervisor(p) PROVE Positions'
  <2>1. CASE MountAllOrderError(p)
    BY <2>1 DEF MountAllOrderError, Return
  <2>2. CASE ChecksFailed(p)
    BY <2>2 DEF ChecksFailed, Return
  <2>3. CASE MountAllSucceeds(p)
    BY <2>3 DEF MountAllSucceeds, Return
  <2>4. CASE RollbackDone(p)
    BY <2>4 DEF RollbackDone, Return
  <2>5. CASE UnmountAllDone(p)
    BY <2>5 DEF UnmountAllDone, Return
  <2>6. CASE RunAllDone(p)
    BY <2>6 DEF RunAllDone, Return
  <2>7. CASE ChecksPassed(p)
    BY <2>7, <1>0 DEF ChecksPassed
  <2>8. CASE SkipItem(p)
    BY <2>8 DEF SkipItem
  <2>9. CASE UnmountItem(p)
    BY <2>9 DEF UnmountItem
  <2>10. CASE UnmountDone(p)
    BY <2>10 DEF UnmountDone, NextItem
  <2>11. CASE UnmountTimedOut(p)
    BY <2>11 DEF UnmountTimedOut, NextItem
  <2>12. CASE WaitCtxDone(p) \/ SuperviseCtxDone(p)
    BY <2>12 DEF WaitCtxDone, SuperviseCtxDone
  <2>13. CASE SuperviseResult(p)
    BY <2>13 DEF SuperviseResult
  <2>14. CASE DrainResult(p)
    BY <2>14 DEF DrainResult
  <2>15. QED BY <1>4, <2>1, <2>2, <2>3, <2>4, <2>5, <2>6, <2>7, <2>8, <2>9, <2>10,
      <2>11, <2>12, <2>13, <2>14 DEF Supervisor
<1>5. ASSUME NEW p \in Callers, Timers(p) \/ Callbacks(p) PROVE Positions'
  <2>1. CASE ShutdownTimeout(p)
    BY <1>0, <2>1 DEF ShutdownTimeout
  <2>2. CASE BudgetExpires(p) \/ UnmountReturns(p) \/ ReleaseBudget(p) \/ CtxEnds(p)
    BY <2>2 DEF BudgetExpires, UnmountReturns, ReleaseBudget, CtxEnds
  <2>3. ASSUME NEW c \in Runners, RunnerReturns(p, c) PROVE Positions'
    BY <2>3 DEF RunnerReturns
  <2>4. QED BY <1>5, <2>1, <2>2, <2>3 DEF Timers, Callbacks
<1>6. CASE \E s \in strays : StrayReturns(s)
  BY <1>6 DEF StrayReturns
<1>7. CASE UNCHANGED vars
  BY <1>7
<1>8. QED BY <1>1, <1>2, <1>3, <1>4, <1>5, <1>6, <1>7 DEF Next

(* Every variable keeps its type in every behaviour of the lifecycle, and     *)
(* every call stays within the list it walks over.                            *)
THEOREM TypeCorrect == Spec => [](TypeOK /\ Positions)
<1>1. Init => TypeOK /\ Positions
  BY TypeInit, PositionsInit
<1>2. TypeOK /\ Positions /\ [Next]_vars => (TypeOK /\ Positions)'
  BY FlagsStep, AtomStep, CallStep, RunStep, AwaitStep, HistoryStep, PositionsStep DEF TypeOK
<1>3. QED BY <1>1, <1>2, PTL DEF Spec
-----------------------------------------------------------------------------
(* The guard is an inductive invariant by itself.                             *)
LEMMA GuardedInit == Init => Guarded
BY DEF Init, Guarded, OneTransaction

LEMMA GuardedStep == TypeOK /\ Guarded /\ [Next]_vars => Guarded'
<1> SUFFICES ASSUME TypeOK /\ Guarded, [Next]_vars PROVE Guarded'
  OBVIOUS
<1> USE DEF Guarded, OneTransaction
<1>0. /\ pc \in [Callers -> Phases] /\ op \in [Callers -> Operations]
      /\ transitioning \in BOOLEAN
  BY DEF TypeOK, CallOK, FlagsOK
<1>1. CASE Registry \/ Reset
  BY <1>1 DEF Registry, Reset, AddData, AddAbility, RemoveData, RemoveAbility
<1>2. ASSUME NEW p \in Callers, Begin(p) PROVE Guarded'
  <2>1. CASE MountAllBegin(p)
    BY <1>0, <2>1 DEF MountAllBegin
  <2>2. CASE UnmountAllBegin(p)
    BY <1>0, <2>2 DEF UnmountAllBegin
  <2>3. CASE RunAllBegin(p)
    BY <1>0, <2>3 DEF RunAllBegin
  <2>4. QED BY <1>2, <2>1, <2>2, <2>3 DEF Begin
<1>3. ASSUME NEW p \in Callers, Mounting(p) PROVE Guarded'
  <2>1. CASE MountItemFails(p)
    BY <1>0, <2>1 DEF MountItemFails
  <2>2. CASE MountItemRenamed(p)
    BY <1>0, <2>2 DEF MountItemRenamed
  <2>3. CASE CheckItem(p) \/ MountItem(p)
    BY <1>0, <2>3 DEF CheckItem, MountItem
  <2>4. QED BY <1>3, <2>1, <2>2, <2>3 DEF Mounting
<1>4. ASSUME NEW p \in Callers, Supervisor(p) PROVE Guarded'
  <2>1. CASE MountAllOrderError(p)
    BY <1>0, <2>1 DEF MountAllOrderError, Return
  <2>2. CASE ChecksFailed(p)
    BY <1>0, <2>2 DEF ChecksFailed, Return
  <2>3. CASE MountAllSucceeds(p)
    BY <1>0, <2>3 DEF MountAllSucceeds, Return
  <2>4. CASE RollbackDone(p)
    BY <1>0, <2>4 DEF RollbackDone, Return
  <2>5. CASE UnmountAllDone(p)
    BY <1>0, <2>5 DEF UnmountAllDone, Return
  <2>6. CASE RunAllDone(p)
    BY <1>0, <2>6 DEF RunAllDone, Return
  <2>7. CASE ChecksPassed(p)
    BY <1>0, <2>7 DEF ChecksPassed
  <2>8. CASE UnmountItem(p)
    BY <1>0, <2>8 DEF UnmountItem
  <2>9. CASE UnmountDone(p)
    BY <1>0, <2>9 DEF UnmountDone, NextItem
  <2>10. CASE UnmountTimedOut(p)
    BY <1>0, <2>10 DEF UnmountTimedOut, NextItem
  <2>11. CASE WaitCtxDone(p)
    BY <1>0, <2>11 DEF WaitCtxDone
  <2>12. CASE SuperviseCtxDone(p)
    BY <1>0, <2>12 DEF SuperviseCtxDone
  <2>13. CASE SuperviseResult(p)
    BY <1>0, <2>13 DEF SuperviseResult
  <2>14. CASE DrainResult(p)
    BY <1>0, <2>14 DEF DrainResult
  <2>15. CASE SkipItem(p)
    BY <1>0, <2>15 DEF SkipItem
  <2>16. QED BY <1>4, <2>1, <2>2, <2>3, <2>4, <2>5, <2>6, <2>7, <2>8, <2>9, <2>10,
      <2>11, <2>12, <2>13, <2>14, <2>15 DEF Supervisor
<1>5. ASSUME NEW p \in Callers, Timers(p) \/ Callbacks(p) PROVE Guarded'
  <2>1. CASE ShutdownTimeout(p)
    BY <1>0, <2>1 DEF ShutdownTimeout
  <2>2. CASE BudgetExpires(p) \/ UnmountReturns(p) \/ ReleaseBudget(p) \/ CtxEnds(p)
    BY <1>0, <2>2 DEF BudgetExpires, UnmountReturns, ReleaseBudget, CtxEnds
  <2>3. ASSUME NEW c \in Runners, RunnerReturns(p, c) PROVE Guarded'
    BY <1>0, <2>3 DEF RunnerReturns
  <2>4. QED BY <1>5, <2>1, <2>2, <2>3 DEF Timers, Callbacks
<1>6. CASE \E s \in strays : StrayReturns(s)
  BY <1>6 DEF StrayReturns
<1>7. CASE UNCHANGED vars
  BY <1>7
<1>8. QED BY <1>1, <1>2, <1>3, <1>4, <1>5, <1>6, <1>7 DEF Next

(* At most one lifecycle transaction is in progress, and the guards of the    *)
(* Atom are held exactly while it is.                                         *)
THEOREM OneTransactionHolds == Spec => []OneTransaction
<1>1. TypeOK /\ Guarded /\ [Next]_vars => Guarded'
  BY GuardedStep
<1>2. Guarded => OneTransaction
  BY DEF Guarded
<1>3. QED BY GuardedInit, TypeCorrect, <1>1, <1>2, PTL DEF Spec

-----------------------------------------------------------------------------
(* The prefixes of a list in order, which is what a call has up.              *)
LEMMA FirstGrows ==
  ASSUME NEW s, NEW n \in Nat
  PROVE  First(s, n) \cup {s[n + 1]} = First(s, n + 1)
BY DEF First

LEMMA FirstShrinks ==
  ASSUME NEW s \in Seq(Components), InOrder(s), NEW n \in 1 .. Len(s)
  PROVE  /\ First(s, n) \ {s[n]} = First(s, n - 1)
         /\ s[n] \in First(s, n)
         /\ s[n] \notin First(s, n - 1)
BY DEF First, InOrder

LEMMA FirstEnds ==
  ASSUME NEW s
  PROVE  First(s, 0) = {} /\ First(s, Len(s)) = Elements(s)
BY DEF First

LEMMA NothingInOrder == InOrder(<<>>) /\ Elements(<<>>) = {} /\ Len(<<>>) = 0
BY DEF InOrder

(* While a call is in progress the others are idle; without one all are.      *)
LEMMA OthersIdle ==
  ASSUME TypeOK, Guarded, NEW p \in Callers, Busy(p)
  PROVE  /\ \A q \in Callers : q # p => pc[q] = "idle"
         /\ ~(state = "mounted" /\ ~transitioning)
         /\ ~(state = "created" /\ ~transitioning)
         /\ state \notin {"stopped", "failed"}
<1>1. \A q \in Callers : q # p => pc[q] = "idle"
  BY DEF Guarded, OneTransaction
<1>2. op[p] \in Operations \ {"none"}
  BY DEF Guarded, TypeOK, CallOK
<1>3. op[p] \in {"MountAll", "UnmountAll", "RunAll"}
  BY <1>2 DEF Operations
<1>4. QED BY <1>1, <1>3 DEF Guarded

LEMMA AllIdle ==
  ASSUME Guarded, ~transitioning, state # "running"
  PROVE  \A q \in Callers : pc[q] = "idle"
BY DEF Guarded, OneTransaction

LEMMA WalkedInit == Init => Walked
BY NothingInOrder DEF Init, Walked, Walk, RegistryFrozen

(* A step of a call that leaves the fields of the Atom alone.                 *)
LEMMA WalkedWithin ==
  ASSUME TypeOK, Guarded, Walked, NEW p \in Callers, Busy(p), UNCHANGED atomVars,
         \A q \in Callers : q # p => pc'[q] = pc[q] /\ items'[q] = items[q],
         Walk(p)'
  PROVE  Walked'
<1>1. ASSUME NEW q \in Callers, q # p PROVE Walk(q)'
  BY <1>1, OthersIdle DEF Walk, Walked
<1>2. /\ ~(state = "mounted" /\ ~transitioning)
      /\ ~(state = "created" /\ ~transitioning)
      /\ state \notin {"stopped", "failed"}
  BY OthersIdle
<1>3. QED BY <1>1, <1>2 DEF Walked, RegistryFrozen

LEMMA WalkedMounting ==
  ASSUME TypeOK, Positions, Guarded, Walked, NEW p \in Callers, Mounting(p)
  PROVE  Walked'
<1> USE DEF TypeOK, CallOK, Positions
<1>0. Walk(p) /\ Len(items[p]) \in Nat
  BY LenProperties DEF Walked
<1>1. CASE CheckItem(p)
  <2>1. Walk(p)'
    BY <1>0, <1>1 DEF CheckItem, Walk
  <2>2. QED BY <1>1, <2>1, WalkedWithin DEF CheckItem
<1>2. CASE MountItem(p)
  <2>1. First(items[p], pos[p] - 1) \cup {Current(p)} = First(items[p], pos[p])
    BY <1>0, <1>2, FirstGrows DEF MountItem
  <2>2. Walk(p)'
    BY <1>0, <1>2, <2>1 DEF MountItem, Walk
  <2>3. QED BY <1>2, <2>2, WalkedWithin DEF MountItem
<1>3. CASE MountItemFails(p)
  <2>1. Walk(p)'
    BY <1>0, <1>3 DEF MountItemFails, Walk
  <2>2. QED BY <1>3, <2>1, WalkedWithin DEF MountItemFails
<1>4. CASE MountItemRenamed(p)
  <2>1. First(items[p], pos[p] - 1) \cup {Current(p)} = First(items[p], pos[p])
    BY <1>0, <1>4, FirstGrows DEF MountItemRenamed
  <2>2. Walk(p)'
    BY <1>0, <1>4, <2>1 DEF MountItemRenamed, Walk
  <2>3. QED BY <1>4, <2>2, WalkedWithin DEF MountItemRenamed
<1>5. QED BY <1>1, <1>2, <1>3, <1>4 DEF Mounting

(* The steps of a call that walks back, or waits before it does.              *)
LEMMA WalkedTeardown ==
  ASSUME TypeOK, Positions, Guarded, Walked, NEW p \in Callers,
         \/ SkipItem(p) \/ UnmountItem(p) \/ UnmountDone(p) \/ UnmountTimedOut(p)
         \/ ChecksPassed(p) \/ WaitCtxDone(p) \/ SuperviseCtxDone(p) \/ SuperviseResult(p)
         \/ DrainResult(p) \/ ShutdownTimeout(p)
  PROVE  Walked'
<1> USE DEF TypeOK, CallOK, Positions
<1>0. Walk(p) /\ Len(items[p]) \in Nat
  BY LenProperties DEF Walked
<1>1. CASE SkipItem(p)
  <2>1. First(items[p], pos[p]) \ {Current(p)} = First(items[p], pos[p] - 1)
    BY <1>0, <1>1, FirstShrinks DEF SkipItem, Walk
  <2>2. Walk(p)'
    BY <1>0, <1>1, <2>1 DEF SkipItem, Walk
  <2>3. QED BY <1>1, <2>2, WalkedWithin DEF SkipItem
<1>2. CASE UnmountItem(p)
  <2>1. First(items[p], pos[p]) \ {Current(p)} = First(items[p], pos[p] - 1)
    BY <1>0, <1>2, FirstShrinks DEF UnmountItem, Walk
  <2>2. Walk(p)'
    BY <1>0, <1>2, <2>1 DEF UnmountItem, Walk
  <2>3. QED BY <1>2, <2>2, WalkedWithin DEF UnmountItem
<1>3. CASE UnmountDone(p)
  <2>1. Walk(p)'
    BY <1>0, <1>3 DEF UnmountDone, NextItem, Walk
  <2>2. QED BY <1>3, <2>1, WalkedWithin DEF UnmountDone, NextItem
<1>4. CASE UnmountTimedOut(p)
  <2>1. Walk(p)'
    BY <1>0, <1>4 DEF UnmountTimedOut, NextItem, Walk
  <2>2. QED BY <1>4, <2>1, WalkedWithin DEF UnmountTimedOut, NextItem
<1>5. CASE ChecksPassed(p)
  <2>1. First(items[p], 1 - 1) = {}
    BY DEF First
  <2>2. pc'[p] = "mount" /\ pos'[p] = 1 /\ items'[p] = items[p] /\ up' = {}
    BY <1>0, <1>5 DEF ChecksPassed, Walk
  <2>3. Walk(p)'
    BY <1>0, <1>5, <2>1, <2>2 DEF ChecksPassed, Walk
  <2>4. QED BY <1>5, <2>3, WalkedWithin DEF ChecksPassed
<1>6. CASE WaitCtxDone(p)
  <2>1. Walk(p)'
    BY <1>0, <1>6 DEF WaitCtxDone, Walk
  <2>2. QED BY <1>6, <2>1, WalkedWithin DEF WaitCtxDone
<1>7. CASE SuperviseCtxDone(p)
  <2>1. Walk(p)'
    BY <1>0, <1>7 DEF SuperviseCtxDone, Walk
  <2>2. QED BY <1>7, <2>1, WalkedWithin DEF SuperviseCtxDone
<1>8. CASE SuperviseResult(p)
  <2>1. pc'[p] \in {"teardown", "supervise", "drain"}
    BY <1>8 DEF SuperviseResult
  <2>2. Walk(p)'
    BY <1>0, <1>8, <2>1 DEF SuperviseResult, Walk
  <2>3. QED BY <1>8, <2>2, WalkedWithin DEF SuperviseResult
<1>9. CASE DrainResult(p)
  <2>1. pc'[p] \in {"teardown", "drain"}
    BY <1>9 DEF DrainResult
  <2>2. Walk(p)'
    BY <1>0, <1>9, <2>1 DEF DrainResult, Walk
  <2>3. QED BY <1>9, <2>2, WalkedWithin DEF DrainResult
<1>10. CASE ShutdownTimeout(p)
  <2>1. Walk(p)'
    BY <1>0, <1>10 DEF ShutdownTimeout, Walk
  <2>2. QED BY <1>10, <2>1, WalkedWithin DEF ShutdownTimeout
<1>11. QED BY <1>1, <1>2, <1>3, <1>4, <1>5, <1>6, <1>7, <1>8, <1>9, <1>10

(* A step that moves no call and leaves the Atom and what is up alone.        *)
LEMMA WalkedPause ==
  Walked /\ UNCHANGED <<atomVars, pc, items, pos, up>> => Walked'
BY DEF Walked, Walk, RegistryFrozen

(* The registry and Reset: no call is in progress.                            *)
LEMMA WalkedRegistry ==
  ASSUME TypeOK, Guarded, Walked, Registry \/ Reset
  PROVE  Walked'
<1>1. /\ ~transitioning /\ state # "running" /\ state # "mounted"
      /\ state' \notin {"running", "mounted"}
      /\ mounted' \in {mounted, <<>>}
      /\ UNCHANGED <<transitioning, pc, items, pos, up>>
  BY DEF Registry, Reset, AddData, AddAbility, RemoveData, RemoveAbility, MayRegister,
    MayRemove, callVars, history
<1>2. state \in {"created", "stopped", "failed"}
  BY <1>1 DEF TypeOK, AtomOK, States
<1>3. up = {} /\ mounted = <<>>
  BY <1>1, <1>2 DEF Walked
<1>4. \A q \in Callers : Walk(q)'
  BY <1>1, AllIdle DEF Walked, Walk
<1>5. QED BY <1>1, <1>3, <1>4, NothingInOrder DEF Walked, RegistryFrozen

(* Entering a call: it starts from a settled Atom.                            *)
LEMMA WalkedBegin ==
  ASSUME TypeOK, Guarded, Walked, NEW p \in Callers, Begin(p)
  PROVE  Walked'
<1> USE DEF TypeOK, CallOK, AtomOK
<1>0. /\ ~transitioning /\ state # "running" /\ pc[p] = "idle"
      /\ \A q \in Callers : pc[q] = "idle"
  BY AllIdle DEF Begin, MountAllBegin, UnmountAllBegin, RunAllBegin
<1>1. CASE MountAllBegin(p)
  <2>1. up = {} /\ mounted = <<>>
    BY <1>0, <1>1 DEF MountAllBegin, Walked
  <2>2. Walk(p)'
    <3>1. CASE pc' = [pc EXCEPT ![p] = "check"]
      <4>1. PICK ord \in DependencyOrders(registered, Deps) :
              items' = [items EXCEPT ![p] = ord] /\ pos' = [pos EXCEPT ![p] = 1]
        BY <1>1, <3>1 DEF MountAllBegin
      <4>2. InOrder(ord) /\ Elements(ord) = registered
        BY OrderLists
      <4>3. items'[p] = ord /\ pc'[p] = "check" /\ up' = {} /\ registered' = registered
        BY <1>1, <2>1, <3>1, <4>1 DEF MountAllBegin
      <4>4. QED BY <4>2, <4>3 DEF Walk
    <3>2. CASE pc' = [pc EXCEPT ![p] = "orderError"] /\ UNCHANGED <<items, pos>>
      BY <1>1, <2>1, <3>2 DEF MountAllBegin, Walk, Walked
    <3>3. QED BY <1>1, <3>1, <3>2 DEF MountAllBegin
  <2>3. ASSUME NEW q \in Callers, q # p PROVE Walk(q)'
    BY <1>0, <1>1, <2>3 DEF MountAllBegin, Walk, Walked
  <2>4. state' = "created" /\ transitioning' /\ mounted' = <<>>
    BY <1>1, <2>1 DEF MountAllBegin
  <2>5. QED BY <2>2, <2>3, <2>4, NothingInOrder DEF Walked, RegistryFrozen
<1>2. CASE UnmountAllBegin(p) \/ RunAllBegin(p)
  <2>1. /\ state = "mounted" /\ UNCHANGED <<registered, mounted, up>>
        /\ items' = [items EXCEPT ![p] = mounted]
        /\ pos' = [pos EXCEPT ![p] = Len(mounted)]
    BY <1>2 DEF UnmountAllBegin, RunAllBegin
  <2>2. /\ pc' \in {[pc EXCEPT ![p] = "teardown"], [pc EXCEPT ![p] = "waitCtx"],
                    [pc EXCEPT ![p] = "supervise"]}
        /\ \/ state' = "mounted" /\ transitioning'
           \/ state' = "running"
    BY <1>2 DEF UnmountAllBegin, RunAllBegin
  <2>3. /\ up = Elements(mounted) /\ Elements(mounted) = registered /\ InOrder(mounted)
        /\ up = First(mounted, Len(mounted))
    BY <1>0, <2>1, FirstEnds DEF Walked, RegistryFrozen
  <2>4. Len(mounted) \in Nat
    BY LenProperties
  <2>5. Walk(p)'
    BY <2>1, <2>2, <2>3, <2>4 DEF Walk
  <2>6. ASSUME NEW q \in Callers, q # p PROVE Walk(q)'
    BY <1>0, <2>1, <2>2, <2>6 DEF Walk, Walked
  <2>7. QED BY <2>1, <2>2, <2>3, <2>5, <2>6 DEF Walked, RegistryFrozen
<1>3. QED BY <1>1, <1>2 DEF Begin

(* Leaving a call: everything it walked over is settled.                      *)
LEMMA WalkedEnd ==
  ASSUME TypeOK, Positions, Guarded, Walked, NEW p \in Callers,
         \/ MountAllOrderError(p) \/ ChecksFailed(p) \/ MountAllSucceeds(p)
         \/ RollbackDone(p) \/ UnmountAllDone(p) \/ RunAllDone(p)
  PROVE  Walked'
<1> USE DEF TypeOK, CallOK, AtomOK, Positions
<1>0. /\ Walk(p) /\ Len(items[p]) \in Nat
      /\ pc' = [pc EXCEPT ![p] = "idle"] /\ items' = [items EXCEPT ![p] = <<>>]
      /\ up' = up /\ registered' = registered
  BY LenProperties DEF Walked, MountAllOrderError, ChecksFailed, MountAllSucceeds,
    RollbackDone, UnmountAllDone, RunAllDone, Return
<1>1. /\ Busy(p)
      /\ \A q \in Callers : q # p => pc[q] = "idle"
  <2>1. Busy(p)
    BY DEF MountAllOrderError, ChecksFailed, MountAllSucceeds, RollbackDone,
      UnmountAllDone, RunAllDone
  <2>2. QED BY <2>1, OthersIdle
<1>2. \A q \in Callers : Walk(q)'
  BY <1>0, <1>1, NothingInOrder DEF Walk, Walked
<1>3. CASE MountAllSucceeds(p)
  <2>1. /\ state' = "mounted" /\ mounted' = items[p]
        /\ pos[p] = Len(items[p]) + 1 /\ pc[p] = "mount"
    BY <1>0, <1>3 DEF MountAllSucceeds
  <2>2. up = Elements(items[p]) /\ Elements(items[p]) = registered /\ InOrder(items[p])
    <3>1. up = First(items[p], Len(items[p]))
      BY <1>0, <2>1 DEF Walk
    <3>2. Elements(items[p]) = registered /\ InOrder(items[p])
      BY <1>0, <2>1 DEF Walk, Phases
    <3>3. QED BY <3>1, <3>2, FirstEnds
  <2>3. QED BY <1>0, <1>2, <2>1, <2>2 DEF Walked, RegistryFrozen
<1>4. CASE MountAllOrderError(p) \/ ChecksFailed(p) \/ RollbackDone(p)
  <2>1. up = {}
    BY <1>0, <1>4, FirstEnds DEF Walk, MountAllOrderError, ChecksFailed, RollbackDone
  <2>2. op[p] = "MountAll"
    BY <1>4 DEF Guarded, MountAllOrderError, ChecksFailed, RollbackDone
  <2>3. state = "created" /\ mounted = <<>>
    BY <2>2 DEF Guarded, Walked
  <2>4. state' = "created" /\ mounted' = <<>>
    BY <1>4, <2>3 DEF MountAllOrderError, ChecksFailed, RollbackDone
  <2>5. QED BY <1>0, <1>2, <2>1, <2>4, NothingInOrder DEF Walked, RegistryFrozen
<1>5. CASE UnmountAllDone(p) \/ RunAllDone(p)
  <2>1. up = {}
    BY <1>0, <1>5, FirstEnds DEF Walk, UnmountAllDone, RunAllDone
  <2>2. state' \in {"stopped", "failed"} /\ mounted' = <<>>
    BY <1>5 DEF UnmountAllDone, RunAllDone
  <2>3. QED BY <1>0, <1>2, <2>1, <2>2, NothingInOrder DEF Walked, RegistryFrozen
<1>6. QED BY <1>3, <1>4, <1>5

LEMMA WalkedStep == TypeOK /\ Positions /\ Guarded /\ Walked /\ [Next]_vars => Walked'
<1> SUFFICES ASSUME TypeOK, Positions, Guarded, Walked, [Next]_vars PROVE Walked'
  OBVIOUS
<1>1. CASE Registry \/ Reset
  BY <1>1, WalkedRegistry
<1>2. ASSUME NEW p \in Callers, Begin(p) PROVE Walked'
  BY <1>2, WalkedBegin
<1>3. ASSUME NEW p \in Callers, Mounting(p) PROVE Walked'
  BY <1>3, WalkedMounting
<1>4. ASSUME NEW p \in Callers, Supervisor(p) PROVE Walked'
  BY <1>4, WalkedTeardown, WalkedEnd DEF Supervisor
<1>5. ASSUME NEW p \in Callers, Timers(p) \/ Callbacks(p) PROVE Walked'
  <2>1. CASE ShutdownTimeout(p)
    BY <2>1, WalkedTeardown
  <2>2. CASE BudgetExpires(p) \/ UnmountReturns(p) \/ ReleaseBudget(p) \/ CtxEnds(p)
    BY <2>2, WalkedPause DEF BudgetExpires, UnmountReturns, ReleaseBudget, CtxEnds
  <2>3. ASSUME NEW c \in Runners, RunnerReturns(p, c) PROVE Walked'
    BY <2>3, WalkedPause DEF RunnerReturns
  <2>4. QED BY <1>5, <2>1, <2>2, <2>3 DEF Timers, Callbacks
<1>6. CASE \E s \in strays : StrayReturns(s)
  BY <1>6, WalkedPause DEF StrayReturns
<1>7. CASE UNCHANGED vars
  BY <1>7, WalkedPause
<1>8. QED BY <1>1, <1>2, <1>3, <1>4, <1>5, <1>6, <1>7 DEF Next

LEMMA WalkedHolds == Spec => [](TypeOK /\ Positions /\ Guarded /\ Walked)
<1>1. Init => Guarded /\ Walked
  BY GuardedInit, WalkedInit
<1>2. TypeOK /\ Positions /\ Guarded /\ Walked /\ [Next]_vars => (Guarded /\ Walked)'
  BY GuardedStep, WalkedStep
<1>3. QED BY <1>1, <1>2, TypeCorrect, PTL DEF Spec

(* While the Atom is mounted or running the registry is exactly what was      *)
(* mounted.                                                                   *)
THEOREM RegistryFrozenHolds == Spec => []RegistryFrozen
<1>1. Walked => RegistryFrozen
  BY DEF Walked
<1>2. QED BY <1>1, WalkedHolds, PTL

(* Nothing is mounted, or waits for an Unmount that never comes, in an Atom   *)
(* that is created, stopped or failed.                                        *)
THEOREM NothingLeftUpHolds == Spec => []NothingLeftUp
<1>1. Walked => NothingLeftUp
  BY DEF Walked, NothingLeftUp
<1>2. QED BY <1>1, WalkedHolds, PTL

(* No component is mounted or torn down twice in one transaction.             *)
THEOREM MountedOnceHolds == Spec => []MountedOnceTornDownOnce
<1>1. ASSUME TypeOK, Positions, Walked PROVE MountedOnceTornDownOnce
  <2> SUFFICES ASSUME NEW p \in Callers
               PROVE  /\ pc[p] = "mount" /\ pos[p] <= Len(items[p]) => Current(p) \notin up
                      /\ pc[p] = "teardown" /\ pos[p] > 0 => Current(p) \in up
    BY DEF MountedOnceTornDownOnce
  <2>1. /\ items[p] \in Seq(Components) /\ Len(items[p]) \in Nat /\ pos[p] \in Nat
        /\ InOrder(items[p])
    BY <1>1, LenProperties DEF TypeOK, CallOK, Walked, Walk
  <2>2. ASSUME pc[p] = "mount", pos[p] <= Len(items[p]) PROVE Current(p) \notin up
    <3>1. pos[p] \in 1 .. Len(items[p]) /\ up = First(items[p], pos[p] - 1)
      BY <1>1, <2>1, <2>2 DEF Positions, Walked, Walk
    <3>2. QED BY <2>1, <3>1, FirstShrinks
  <2>3. ASSUME pc[p] = "teardown", pos[p] > 0 PROVE Current(p) \in up
    <3>1. pos[p] \in 1 .. Len(items[p]) /\ up = First(items[p], pos[p])
      BY <1>1, <2>1, <2>3 DEF Positions, Walked, Walk
    <3>2. QED BY <2>1, <3>1, FirstShrinks
  <2>4. QED BY <2>2, <2>3
<1>2. QED BY <1>1, WalkedHolds, PTL

(* A prefix of a list in order contains what its members depend on.           *)
LEMMA FirstClosed ==
  ASSUME NEW s \in Seq(Components), InOrder(s), NEW n \in 0 .. Len(s),
         NEW c \in First(s, n)
  PROVE  Deps[c] \subseteq First(s, n)
<1>1. PICK i \in 1 .. n : s[i] = c
  BY DEF First
<1>2. Len(s) \in Nat
  BY LenProperties
<1>3. ASSUME NEW d \in Deps[c] PROVE d \in First(s, n)
  <2>1. i \in 1 .. Len(s) /\ d \in Deps[s[i]]
    BY <1>1, <1>2, <1>3
  <2>2. PICK j \in 1 .. i - 1 : s[j] = d
    BY <2>1 DEF InOrder
  <2>3. j \in 1 .. n
    BY <1>1, <1>2, <2>2
  <2>4. QED BY <2>2, <2>3 DEF First
<1>4. QED BY <1>3

(* A component is up only while everything it depends on is up, whatever      *)
(* fails, hangs or is abandoned.                                              *)
THEOREM DependenciesUpHolds == Spec => []DependenciesUp
<1>1. ASSUME TypeOK, Positions, Guarded, Walked PROVE DependenciesUp
  <2>1. CASE \E p \in Callers : Busy(p)
    <3>1. PICK p \in Callers : Busy(p)
      BY <2>1
    <3>2. /\ items[p] \in Seq(Components) /\ Len(items[p]) \in Nat /\ pos[p] \in Nat
          /\ InOrder(items[p]) /\ Walk(p) /\ pc[p] \in Phases
      BY <1>1, LenProperties DEF TypeOK, CallOK, Walked, Walk
    <3>3. up = {} \/ \E n \in 0 .. Len(items[p]) : up = First(items[p], n)
      <4>1. CASE pc[p] \in {"orderError", "check"}
        BY <3>2, <4>1 DEF Walk
      <4>2. CASE pc[p] \in {"mount", "await"}
        <5>1. pos[p] - 1 \in 0 .. Len(items[p]) /\ up = First(items[p], pos[p] - 1)
          BY <1>1, <3>2, <4>2 DEF Walk, Positions
        <5>2. QED BY <5>1
      <4>3. CASE pc[p] \in {"teardown", "waitCtx", "supervise", "drain"}
        <5>1. pos[p] \in 0 .. Len(items[p]) /\ up = First(items[p], pos[p])
          BY <1>1, <3>2, <4>3 DEF Walk, Positions
        <5>2. QED BY <5>1
      <4>4. QED BY <3>1, <3>2, <4>1, <4>2, <4>3 DEF Phases
    <3>4. QED BY <3>2, <3>3, FirstClosed DEF DependenciesUp
  <2>2. CASE ~ \E p \in Callers : Busy(p)
    <3>1. ~transitioning /\ state # "running"
      BY <1>1, <2>2 DEF Guarded, OneTransaction
    <3>2. state \in {"created", "mounted", "stopped", "failed"}
      BY <1>1, <3>1 DEF TypeOK, AtomOK, States
    <3>3. up = {} \/ up = Elements(mounted)
      BY <1>1, <3>1, <3>2 DEF Walked
    <3>4. mounted \in Seq(Components) /\ InOrder(mounted) /\ Len(mounted) \in Nat
          /\ Elements(mounted) = First(mounted, Len(mounted))
      BY <1>1, FirstEnds, LenProperties DEF TypeOK, AtomOK, Walked
    <3>5. QED BY <3>3, <3>4, FirstClosed DEF DependenciesUp
  <2>3. QED BY <2>1, <2>2
<1>2. QED BY <1>1, WalkedHolds, PTL

-----------------------------------------------------------------------------
(* Abandoned callbacks.                                                       *)
LEMMA AbandonedInit == Init => AbandonedFails
BY DEF Init, AbandonedFails, Quiet, StoppedIsQuiet

(* Nothing of this mount is abandoned after the step.                         *)
LEMMA QuietEnough ==
  ASSUME AbandonedFails, strays' \subseteq strays,
         (gen' = gen /\ Quiet) \/ gen' = gen + 1, HistoryOK
  PROVE  AbandonedFails'
<1>1. \A s \in strays' : s.gen # gen' /\ s.gen <= gen'
  BY DEF AbandonedFails, Quiet, HistoryOK, Stray
<1>2. QED BY <1>1 DEF AbandonedFails, Quiet, StoppedIsQuiet

(* A step that abandons no callback and does not settle the Atom.             *)
LEMMA AbandonedFewer ==
  ASSUME AbandonedFails, strays' \subseteq strays, gen' = gen,
         \A q \in Callers :
           /\ op'[q] \in {"UnmountAll", "RunAll"} /\ ~failed'[q] => Quiet
           /\ pc'[q] \in {"check", "mount", "waitCtx", "supervise", "drain"} => Quiet,
         state' = "mounted" /\ ~transitioning' => Quiet,
         state' = "stopped" => Quiet
  PROVE  AbandonedFails'
<1>1. Quiet => Quiet'
  BY DEF Quiet
<1>2. QED BY <1>1 DEF AbandonedFails, StoppedIsQuiet, Quiet

(* A step that abandons callbacks of this mount: the call has failed.         *)
LEMMA AbandonedMore ==
  ASSUME TypeOK, Guarded, AbandonedFails, NEW p \in Callers, Busy(p),
         NEW new, \A s \in new : s.gen = gen, strays' = strays \cup new, gen' = gen,
         UNCHANGED <<atomVars, op>>,
         pc' = [pc EXCEPT ![p] = "teardown"], failed' = [failed EXCEPT ![p] = TRUE]
  PROVE  AbandonedFails'
<1>1. \A s \in strays' : s.gen <= gen'
  BY DEF AbandonedFails, TypeOK, HistoryOK
<1>2. \A q \in Callers : q # p => pc[q] = "idle" /\ op[q] = "none"
  BY OthersIdle DEF Guarded
<1>3. /\ ~(state = "mounted" /\ ~transitioning) /\ state # "stopped"
  BY OthersIdle
<1>4. failed'[p] /\ pc'[p] = "teardown"
  BY DEF TypeOK, FlagsOK, CallOK
<1>5. \A q \in Callers : q # p => pc'[q] = "idle" /\ op'[q] = "none"
  BY <1>2 DEF TypeOK, CallOK
<1>6. QED BY <1>1, <1>3, <1>4, <1>5 DEF AbandonedFails, StoppedIsQuiet

LEMMA AbandonedSupervisor ==
  ASSUME TypeOK, Guarded, AbandonedFails, NEW p \in Callers, Supervisor(p)
  PROVE  AbandonedFails'
<1> USE DEF TypeOK, CallOK, FlagsOK
<1>1. CASE ChecksFailed(p) \/ ChecksPassed(p) \/ MountAllSucceeds(p) \/ WaitCtxDone(p)
             \/ SuperviseCtxDone(p) \/ SuperviseResult(p) \/ DrainResult(p)
  <2>1. pc[p] \in {"check", "mount", "waitCtx", "supervise", "drain"}
        /\ UNCHANGED <<strays, gen>>
    BY <1>1 DEF ChecksFailed, ChecksPassed, MountAllSucceeds, WaitCtxDone,
      SuperviseCtxDone, SuperviseResult, DrainResult, Return
  <2>2. Quiet
    BY <2>1 DEF AbandonedFails
  <2>3. QED BY <2>1, <2>2, QuietEnough
<1>2. CASE UnmountTimedOut(p)
  <2> DEFINE new == IF reply[p] = "none"
                    THEN {[kind |-> "unmount", comp |-> Current(p), gen |-> gen]} ELSE {}
  <2>1. \A s \in new : s.gen = gen
    OBVIOUS
  <2>2. strays' = strays \cup new
    BY <1>2 DEF UnmountTimedOut
  <2>3. /\ Busy(p) /\ gen' = gen /\ UNCHANGED <<atomVars, op>>
        /\ pc' = [pc EXCEPT ![p] = "teardown"] /\ failed' = [failed EXCEPT ![p] = TRUE]
    BY <1>2 DEF UnmountTimedOut, NextItem
  <2> HIDE DEF new
  <2>4. QED BY <2>1, <2>2, <2>3, AbandonedMore
<1>3. CASE SkipItem(p) \/ UnmountItem(p) \/ UnmountDone(p)
  <2>1. /\ UNCHANGED <<atomVars, op, strays, gen>>
        /\ pc' \in {[pc EXCEPT ![p] = "teardown"], [pc EXCEPT ![p] = "await"]}
    BY <1>3 DEF SkipItem, UnmountItem, UnmountDone, NextItem
  <2>2. \A q \in Callers : ~failed'[q] => ~failed[q]
    BY <1>3 DEF SkipItem, UnmountItem, UnmountDone, NextItem
  <2>3. QED BY <2>1, <2>2, AbandonedFewer DEF AbandonedFails, StoppedIsQuiet
<1>4. CASE MountAllOrderError(p) \/ RollbackDone(p)
  <2>1. /\ UNCHANGED <<state, strays, gen>>
        /\ pc' = [pc EXCEPT ![p] = "idle"] /\ op' = [op EXCEPT ![p] = "none"]
        /\ failed' = [failed EXCEPT ![p] = FALSE]
    BY <1>4 DEF MountAllOrderError, RollbackDone, Return
  <2>2. op[p] = "MountAll"
    BY <1>4 DEF MountAllOrderError, RollbackDone, Guarded
  <2>3. state = "created"
    BY <2>2 DEF Guarded
  <2>4. QED BY <2>1, <2>3, AbandonedFewer DEF AbandonedFails
<1>5. CASE UnmountAllDone(p) \/ RunAllDone(p)
  <2>1. /\ UNCHANGED <<strays, gen>>
        /\ pc' = [pc EXCEPT ![p] = "idle"] /\ op' = [op EXCEPT ![p] = "none"]
        /\ failed' = [failed EXCEPT ![p] = FALSE]
        /\ op[p] \in {"UnmountAll", "RunAll"}
        /\ state' = IF failed[p] THEN "failed" ELSE "stopped"
    BY <1>5 DEF UnmountAllDone, RunAllDone, Return
  <2>2. state' = "stopped" => Quiet
    BY <2>1 DEF AbandonedFails
  <2>3. state' # "mounted"
    BY <2>1
  <2>4. QED BY <2>1, <2>2, <2>3, AbandonedFewer DEF AbandonedFails
<1>6. QED BY <1>1, <1>2, <1>3, <1>4, <1>5 DEF Supervisor

LEMMA AbandonedStep ==
  TypeOK /\ Guarded /\ AbandonedFails /\ [Next]_vars => AbandonedFails'
<1> SUFFICES ASSUME TypeOK, Guarded, AbandonedFails, [Next]_vars PROVE AbandonedFails'
  OBVIOUS
<1>0. HistoryOK
  BY DEF TypeOK
<1>1. CASE Registry \/ Reset
  <2>1. /\ UNCHANGED <<transitioning, pc, op, failed, strays, gen>>
        /\ state' \in {state, "created"}
    BY <1>1 DEF Registry, Reset, AddData, AddAbility, RemoveData, RemoveAbility
  <2>2. QED BY <2>1, AbandonedFewer DEF AbandonedFails, StoppedIsQuiet
<1>2. ASSUME NEW p \in Callers, Begin(p) PROVE AbandonedFails'
  <2>1. CASE MountAllBegin(p)
    BY <1>0, <2>1, QuietEnough DEF MountAllBegin
  <2>2. CASE UnmountAllBegin(p) \/ RunAllBegin(p)
    <3>1. Quiet /\ UNCHANGED <<strays, gen>>
      BY <2>2 DEF UnmountAllBegin, RunAllBegin, AbandonedFails
    <3>2. QED BY <1>0, <3>1, QuietEnough
  <2>3. QED BY <1>2, <2>1, <2>2 DEF Begin
<1>3. ASSUME NEW p \in Callers, Mounting(p) PROVE AbandonedFails'
  <2>1. pc[p] \in {"check", "mount"} /\ UNCHANGED <<strays, gen>>
    BY <1>3 DEF Mounting, CheckItem, MountItem, MountItemFails, MountItemRenamed
  <2>2. Quiet
    BY <2>1 DEF AbandonedFails
  <2>3. QED BY <1>0, <2>1, <2>2, QuietEnough
<1>4. ASSUME NEW p \in Callers, Supervisor(p) PROVE AbandonedFails'
  BY <1>4, AbandonedSupervisor
<1>5. ASSUME NEW p \in Callers, Timers(p) \/ Callbacks(p) PROVE AbandonedFails'
  <2>1. CASE ShutdownTimeout(p)
    <3> DEFINE new == {[kind |-> "run", comp |-> c, gen |-> gen] : c \in running[p]}
    <3>1. (\A s \in new : s.gen = gen) /\ strays' = strays \cup new
      BY <2>1 DEF ShutdownTimeout
    <3> HIDE DEF new
    <3>2. QED BY <2>1, <3>1, AbandonedMore DEF ShutdownTimeout
  <2>2. CASE BudgetExpires(p) \/ UnmountReturns(p) \/ ReleaseBudget(p) \/ CtxEnds(p)
    <3>1. UNCHANGED <<atomVars, pc, op, failed, strays, gen>>
      BY <2>2 DEF BudgetExpires, UnmountReturns, ReleaseBudget, CtxEnds
    <3>2. QED BY <3>1, AbandonedFewer DEF AbandonedFails, StoppedIsQuiet
  <2>3. ASSUME NEW c \in Runners, RunnerReturns(p, c) PROVE AbandonedFails'
    <3>1. UNCHANGED <<atomVars, pc, op, failed, strays, gen>>
      BY <2>3 DEF RunnerReturns
    <3>2. QED BY <3>1, AbandonedFewer DEF AbandonedFails, StoppedIsQuiet
  <2>4. QED BY <1>5, <2>1, <2>2, <2>3 DEF Timers, Callbacks
<1>6. ASSUME NEW s \in strays, StrayReturns(s) PROVE AbandonedFails'
  <2>1. UNCHANGED <<atomVars, pc, op, failed, gen>> /\ strays' \subseteq strays
    BY <1>6 DEF StrayReturns
  <2>2. QED BY <2>1, AbandonedFewer DEF AbandonedFails, StoppedIsQuiet
<1>7. CASE UNCHANGED vars
  BY <1>7, AbandonedFewer DEF AbandonedFails, StoppedIsQuiet
<1>8. QED BY <1>1, <1>2, <1>3, <1>4, <1>5, <1>6, <1>7 DEF Next

(* A stopped Atom has no callback of its last mount still executing: every    *)
(* runner has exited and every Unmount has returned.                          *)
THEOREM StoppedIsQuietHolds == Spec => []StoppedIsQuiet
<1>1. TypeOK /\ Guarded /\ AbandonedFails /\ [Next]_vars => AbandonedFails'
  BY AbandonedStep
<1>2. AbandonedFails => StoppedIsQuiet
  BY DEF AbandonedFails
<1>3. QED BY AbandonedInit, <1>1, <1>2, WalkedHolds, PTL DEF Spec

-----------------------------------------------------------------------------
(* Refinement of the contract.                                                *)

(* Where an order exists the set is mountable.                                *)
LEMMA OrderMountable ==
  ASSUME NEW S, NEW s, Len(s) \in Nat, InOrder(s), Elements(s) = S
  PROVE  Mountable(S, Deps)
<1>1. Closed(S, Deps)
  <2>1. SUFFICES ASSUME NEW c \in S, NEW d \in Deps[c] PROVE d \in S
    BY DEF Closed
  <2>2. PICK i \in 1 .. Len(s) : s[i] = c
    OBVIOUS
  <2>3. d \in Deps[s[i]]
    BY <2>2
  <2>4. PICK j \in 1 .. i - 1 : s[j] = d
    BY <2>2, <2>3 DEF InOrder
  <2>5. j \in 1 .. Len(s)
    BY <2>2, <2>4
  <2>6. QED BY <2>4, <2>5
<1>2. Acyclic(S, Deps)
  <2>1. SUFFICES ASSUME NEW T \in (SUBSET S) \ {{}} PROVE \E c \in T : Deps[c] \cap T = {}
    BY DEF Acyclic
  <2> DEFINE I == {i \in 1 .. Len(s) : s[i] \in T}
  <2>2. I \subseteq Nat /\ I # {}
    <3>1. PICK c \in T : c \in S
      OBVIOUS
    <3>2. PICK i \in 1 .. Len(s) : s[i] = c
      BY <3>1
    <3>3. QED BY <3>1, <3>2
  <2> HIDE DEF I
  <2>3. PICK m \in I : \A i \in I : m <= i
    <3>1. IsWellFoundedOn(OpToRel(<, Nat), Nat)
      BY NatLessThanWellFounded
    <3>2. PICK x \in I : \A y \in I : <<y, x>> \notin OpToRel(<, Nat)
      BY <2>2, <3>1, WFMin
    <3>3. \A y \in I : ~(y < x)
      BY <2>2, <3>2 DEF OpToRel
    <3>4. QED BY <2>2, <3>3
  <2>4. s[m] \in T /\ m \in 1 .. Len(s)
    BY DEF I
  <2>5. ASSUME NEW d \in Deps[s[m]], d \in T PROVE FALSE
    <3>1. PICK j \in 1 .. m - 1 : s[j] = d
      BY <2>4 DEF InOrder
    <3>2. j \in I /\ j < m
      BY <2>4, <2>5, <3>1 DEF I
    <3>3. QED BY <2>2, <2>3, <3>2
  <2>6. QED BY <2>4, <2>5
<1>3. QED BY <1>1, <1>2 DEF Mountable

LEMMA ContractInit == Init => Contract!Init
BY NothingInOrder DEF Init, Contract!Init

LEMMA ContractStutter ==
  UNCHANGED <<state, registered, mounted>> => UNCHANGED Contract!vars
BY DEF Contract!vars

LEMMA ContractStep ==
  ASSUME TypeOK, Positions, Guarded, Walked, [Next]_vars
  PROVE  [Contract!Next]_(Contract!vars)
<1>1. CASE Registry
  <2>1. PICK c \in Components :
           AddData(c) \/ AddAbility(c) \/ RemoveData(c) \/ RemoveAbility(c)
    BY <1>1 DEF Registry
  <2>2. Contract!Register(c) \/ Contract!Unregister(c)
    BY <2>1 DEF AddData, AddAbility, RemoveData, RemoveAbility, MayRegister, MayRemove,
      Contract!Register, Contract!Unregister
  <2>3. QED BY <2>2 DEF Contract!Next
<1>2. CASE Reset
  <2>1. mounted = <<>>
    BY <1>2 DEF Reset, Walked
  <2>2. Contract!Reset
    BY <1>2, <2>1 DEF Reset, Contract!Reset
  <2>3. QED BY <2>2 DEF Contract!Next
<1>3. ASSUME NEW p \in Callers, Begin(p) PROVE [Contract!Next]_(Contract!vars)
  <2>1. CASE MountAllBegin(p) \/ UnmountAllBegin(p)
    BY <2>1, ContractStutter DEF MountAllBegin, UnmountAllBegin
  <2>2. CASE RunAllBegin(p)
    <3>1. Contract!Run
      BY <2>2 DEF RunAllBegin, Contract!Run
    <3>2. QED BY <3>1 DEF Contract!Next
  <2>3. QED BY <1>3, <2>1, <2>2 DEF Begin
<1>4. ASSUME NEW p \in Callers, Mounting(p) PROVE [Contract!Next]_(Contract!vars)
  BY <1>4, ContractStutter
    DEF Mounting, CheckItem, MountItem, MountItemFails, MountItemRenamed
<1>5. ASSUME NEW p \in Callers, MountAllSucceeds(p) PROVE [Contract!Next]_(Contract!vars)
  <2>1. /\ Len(items[p]) \in Nat /\ InOrder(items[p]) /\ Elements(items[p]) = registered
        /\ state = "created"
    <3>1. pc[p] = "mount" /\ items[p] \in Seq(Components)
      BY <1>5 DEF MountAllSucceeds, TypeOK, CallOK
    <3>2. QED BY <3>1, LenProperties DEF Walked, Walk, Phases, Guarded
  <2>2. Contract!Mountable(registered, Deps)
    <3>1. Mountable(registered, Deps)
      BY <2>1, OrderMountable
    <3>2. QED BY <3>1 DEF Mountable, Closed, Acyclic, Contract!Mountable, Contract!Closed,
      Contract!Acyclic
  <2>3. Elements(mounted') = registered
    BY <1>5, <2>1 DEF MountAllSucceeds
  <2>4. state' = "mounted" /\ registered' = registered
    BY <1>5 DEF MountAllSucceeds
  <2>5. Contract!Mount
    BY <2>1, <2>2, <2>3, <2>4 DEF Contract!Mount
  <2>6. QED BY <2>5 DEF Contract!Next
<1>6. ASSUME NEW p \in Callers, UnmountAllDone(p) \/ RunAllDone(p)
      PROVE  [Contract!Next]_(Contract!vars)
  <2>1. state \in {"mounted", "running"}
    BY <1>6 DEF Guarded, UnmountAllDone, RunAllDone
  <2>2. Contract!ComeDown
    BY <1>6, <2>1, NothingInOrder DEF UnmountAllDone, RunAllDone, Contract!ComeDown
  <2>3. QED BY <2>2 DEF Contract!Next
<1>7. ASSUME NEW p \in Callers, Supervisor(p) PROVE [Contract!Next]_(Contract!vars)
  <2>1. CASE ChecksFailed(p) \/ RollbackDone(p)
    <3>1. op[p] = "MountAll"
      BY <2>1 DEF Guarded, ChecksFailed, RollbackDone
    <3>2. mounted = <<>>
      BY <3>1 DEF Guarded, Walked
    <3>3. QED BY <2>1, <3>2, ContractStutter DEF ChecksFailed, RollbackDone
  <2>2. CASE MountAllOrderError(p) \/ ChecksPassed(p)
    BY <2>2, ContractStutter DEF MountAllOrderError, ChecksPassed
  <2>3. CASE SkipItem(p) \/ UnmountItem(p) \/ UnmountDone(p) \/ UnmountTimedOut(p)
    BY <2>3, ContractStutter DEF SkipItem, UnmountItem, UnmountDone, UnmountTimedOut, NextItem
  <2>4. CASE WaitCtxDone(p) \/ SuperviseCtxDone(p) \/ SuperviseResult(p) \/ DrainResult(p)
    BY <2>4, ContractStutter DEF WaitCtxDone, SuperviseCtxDone, SuperviseResult, DrainResult
  <2>5. QED BY <1>5, <1>6, <1>7, <2>1, <2>2, <2>3, <2>4 DEF Supervisor
<1>8. ASSUME NEW p \in Callers, Timers(p) \/ Callbacks(p)
      PROVE  [Contract!Next]_(Contract!vars)
  BY <1>8, ContractStutter DEF Timers, Callbacks, BudgetExpires, ShutdownTimeout,
    UnmountReturns, ReleaseBudget, CtxEnds, RunnerReturns
<1>9. CASE (\E s \in strays : StrayReturns(s)) \/ UNCHANGED vars
  BY <1>9, ContractStutter DEF StrayReturns
<1>10. QED BY <1>1, <1>2, <1>3, <1>4, <1>7, <1>8, <1>9 DEF Next

(* The lifecycle implements the contract: mounting is all or nothing, only of *)
(* a mountable registry, and what comes down serves nothing any more.         *)
THEOREM ContractImplemented == Spec => ImplementsContract
<1>1. TypeOK /\ Positions /\ Guarded /\ Walked /\ [Next]_vars => [Contract!Next]_(Contract!vars)
  BY ContractStep
<1>2. QED BY ContractInit, <1>1, WalkedHolds, PTL DEF Spec, ImplementsContract, Contract!Spec
=============================================================================
