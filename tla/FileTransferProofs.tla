-------------------------- MODULE FileTransferProofs --------------------------
(* Theorems about FileTransfer, for every set of users and every bound on     *)
(* the transfers, the concurrent ones included.                              *)
EXTENDS FileTransfer, TLAPS

USE TransferAssumption
    DEF Transfers, Finished, Working, Running, ability, users, teardown, vars,
        Contract!Statuses, Contract!Transfers, Contract!Finished

(* The strengthening of TransfersOwned. A transfer that has not ended is in   *)
(* the hands of its worker or of one skeleton-mode command, never of both.   *)
Owned ==
  /\ \A t \in Transfers :
       /\ worker[t] \in {"working", "ok", "error"} => status[t] \in {"running", "canceled", "cleared"}
       /\ status[t] = "running" =>
            \/ worker[t] \in {"working", "ok", "error"}
            \/ \E u \in Users : pc[u] = "skeleton" /\ mine[u] = t
  /\ \A u \in Users : pc[u] = "skeleton" =>
       /\ mine[u] # 0 /\ worker[mine[u]] = "none"
       /\ status[mine[u]] \in {"running", "canceled", "cleared"}
       /\ \A v \in Users : v # u /\ pc[v] = "skeleton" => mine[v] # mine[u]
  /\ \A t \in Transfers : t > seq => worker[t] = "none"

(* A channel is closed, or about to be, only when its transfer has left       *)
(* "running", to which it never returns: each step towards closing it starts *)
(* from a transfer that nobody else is closing.                              *)
Signals ==
  /\ \A t \in Transfers : status[t] = "running" => t \notin signalled /\ t \notin toSignal
  /\ \A t \in toSignal : t \notin signalled
  /\ \A u \in Users : pc[u] = "signal" =>
       /\ mine[u] # 0 /\ status[mine[u]] # "running"
       /\ mine[u] \notin signalled /\ mine[u] \notin toSignal
       /\ \A v \in Users : v # u /\ pc[v] = "signal" => mine[v] # mine[u]

(* CancelReachesTransport, one way of closing the channel a disjunct.         *)
Reached ==
  \A t \in Transfers : status[t] = "canceled" /\ worker[t] = "working" =>
    t \in signalled \/ t \in toSignal \/ \E u \in Users : pc[u] = "signal" /\ mine[u] = t

(* What is true from each step of Unmount on.                                 *)
Shutdown ==
  /\ unmount # "before" => closing
  /\ unmount # "signal" => toSignal = {}
  /\ unmount \in {"signal", "wait", "done", "failed"} => Running = {}
  /\ unmount = "done" => Working = {}

Inductive == TypeOK /\ Owned /\ Signals /\ Shutdown /\ Reached

-----------------------------------------------------------------------------
LEMMA InductiveInit == Init => Inductive
<1> SUFFICES ASSUME Init PROVE Inductive
  OBVIOUS
<1>1. TypeOK
  <2>1. FlagsOK
    BY DEF Init, FlagsOK
  <2>2. TransfersOK /\ CallsOK
    BY DEF Init, TransfersOK, CallsOK
  <2>3. QED BY <2>1, <2>2 DEF TypeOK
<1>2. Owned /\ Signals /\ Shutdown /\ Reached
  BY DEF Init, Owned, Signals, Shutdown, Reached
<1>3. QED BY <1>1, <1>2 DEF Inductive

(* The transfer a call of cancel or a skeleton-mode command works on.         *)
LEMMA HasTransfer ==
  ASSUME TypeOK, Owned, Signals, NEW u \in Users, pc[u] \in {"skeleton", "signal"}
  PROVE  mine[u] \in Transfers /\ mine[u] \in 1 .. seq /\ status[mine[u]] # "none"
BY DEF TypeOK, TransfersOK, CallsOK, Owned, Signals

(* The calls keep a transfer each while the table grows by one.               *)
LEMMA NumberedAgain ==
  ASSUME NEW n \in Nat, NEW held \in [Users -> 0 .. n], NEW u \in Users, NEW t \in 0 .. n + 1
  PROVE  [held EXCEPT ![u] = t] \in [Users -> 0 .. n + 1]
OBVIOUS

(* A reservation takes an id no transfer had and that nobody works on.        *)
LEMMA FreshId ==
  ASSUME TransfersOK, CallsOK, NEW u \in Users, Reserve(u)
  PROVE  /\ seq' = seq + 1 /\ seq + 1 \in Transfers
         /\ status[seq + 1] = "none" /\ status' = [status EXCEPT ![seq + 1] = "running"]
         /\ seq + 1 \notin signalled \cup toSignal \cup acked
         /\ \A v \in Users : mine[v] # seq + 1 /\ mine[v] \in 0 .. seq + 1
         /\ \A t \in 1 .. seq : t \in 1 .. seq + 1
BY DEF TransfersOK, CallsOK, Reserve, NextId

LEMMA FlagsStep == FlagsOK /\ [Next]_vars => FlagsOK'
<1> SUFFICES ASSUME FlagsOK, [Next]_vars PROVE FlagsOK'
  OBVIOUS
<1> USE DEF FlagsOK
<1>1. ASSUME NEW u \in Users, User(u) PROVE FlagsOK'
  BY <1>1 DEF User, Upload, Reserve, ReserveRejected, SkeletonCompletes, CancelReturns, Cancel,
    Finish
<1>2. ASSUME NEW t \in Transfers, Worker(t) PROVE FlagsOK'
  BY <1>2 DEF Worker, TransportReturns, Settle, WorkerLeaves
<1>3. CASE Unmount
  BY <1>3 DEF Unmount, BeginShutdown, CancelAll, UnmountSignals, UnmountDone, UnmountTimesOut
<1>4. CASE SetTransport
  BY <1>4 DEF SetTransport
<1>5. CASE ClearFinished
  BY <1>5 DEF ClearFinished
<1>6. CASE UNCHANGED vars
  BY <1>6
<1>7. QED BY <1>1, <1>2, <1>3, <1>4, <1>5, <1>6 DEF Next

LEMMA TypeStep == TypeOK /\ Owned /\ Signals /\ [Next]_vars => TypeOK'
<1> SUFFICES ASSUME TypeOK, Owned, Signals, [Next]_vars PROVE TransfersOK' /\ CallsOK'
  BY FlagsStep DEF TypeOK
<1>0. TransfersOK /\ CallsOK
  BY DEF TypeOK
<1> USE <1>0 DEF TransfersOK, CallsOK
<1>1. ASSUME NEW u \in Users, User(u) PROVE TransfersOK' /\ CallsOK'
  <2>1. CASE Upload(u)
    BY <2>1 DEF Upload
  <2>2. CASE Reserve(u)
    <3>0. /\ seq' = seq + 1 /\ seq + 1 \in Transfers
          /\ status[seq + 1] = "none" /\ status' = [status EXCEPT ![seq + 1] = "running"]
          /\ seq + 1 \notin signalled \cup toSignal
          /\ \A v \in Users : mine[v] # seq + 1
      BY <2>2, FreshId
    <3>1. TransfersOK'
      BY <2>2, <3>0 DEF Reserve
    <3>2. CallsOK'
      <4>1. \/ pc' = [pc EXCEPT ![u] = "idle"] /\ mine' = [mine EXCEPT ![u] = 0]
            \/ pc' = [pc EXCEPT ![u] = "skeleton"] /\ mine' = [mine EXCEPT ![u] = seq + 1]
        BY <2>2, <3>0 DEF Reserve, Finish
      <4>2. mine' \in [Users -> 0 .. seq + 1]
        <5>1. seq \in Nat /\ 0 \in 0 .. seq + 1 /\ seq + 1 \in 0 .. seq + 1
          OBVIOUS
        <5>2. \A t \in 0 .. seq + 1 : [mine EXCEPT ![u] = t] \in [Users -> 0 .. seq + 1]
          BY <5>1, NumberedAgain
        <5>3. QED BY <4>1, <5>1, <5>2
      <4>3. QED BY <2>2, <3>0, <4>1, <4>2 DEF Reserve
    <3>3. QED BY <3>1, <3>2
  <2>3. CASE ReserveRejected(u)
    BY <2>3 DEF ReserveRejected, Finish
  <2>4. CASE SkeletonCompletes(u)
    BY <2>4, HasTransfer DEF SkeletonCompletes, Finish
  <2>5. CASE CancelReturns(u)
    <3>1. mine[u] \in 1 .. seq
      BY <2>5, HasTransfer DEF CancelReturns
    <3>2. TransfersOK'
      BY <2>5, <3>1 DEF CancelReturns, CloseChannel
    <3>3. CallsOK'
      BY <2>5 DEF CancelReturns, Finish
    <3>4. QED BY <3>2, <3>3
  <2>6. ASSUME NEW t \in Transfers, Cancel(u, t) PROVE TransfersOK' /\ CallsOK'
    BY <2>6 DEF Cancel, MayCancel
  <2>7. QED BY <1>1, <2>1, <2>2, <2>3, <2>4, <2>5, <2>6 DEF User
<1>2. ASSUME NEW t \in Transfers, Worker(t) PROVE TransfersOK' /\ CallsOK'
  <2>1. CASE TransportReturns(t)
    BY <2>1 DEF TransportReturns
  <2>2. CASE Settle(t)
    BY <2>2 DEF Settle, Outcome, Owned
  <2>3. CASE WorkerLeaves(t)
    BY <2>3 DEF WorkerLeaves
  <2>4. QED BY <1>2, <2>1, <2>2, <2>3 DEF Worker
<1>3. CASE Unmount
  <2>1. CASE CancelAll
    BY <2>1 DEF CancelAll
  <2>2. CASE UnmountSignals
    BY <2>2 DEF UnmountSignals
  <2>3. CASE BeginShutdown \/ UnmountDone \/ UnmountTimesOut
    BY <2>3 DEF BeginShutdown, UnmountDone, UnmountTimesOut
  <2>4. QED BY <1>3, <2>1, <2>2, <2>3 DEF Unmount
<1>4. CASE SetTransport
  BY <1>4 DEF SetTransport
<1>5. CASE ClearFinished
  BY <1>5 DEF ClearFinished
<1>6. CASE UNCHANGED vars
  BY <1>6
<1>7. QED BY <1>1, <1>2, <1>3, <1>4, <1>5, <1>6 DEF Next

LEMMA OwnedStep == TypeOK /\ Owned /\ Signals /\ [Next]_vars => Owned'
<1> SUFFICES ASSUME TypeOK, Owned, Signals, [Next]_vars PROVE Owned'
  OBVIOUS
<1>0. TransfersOK /\ CallsOK
  BY DEF TypeOK
<1> USE <1>0 DEF TransfersOK, CallsOK, Owned
<1>1. ASSUME NEW u \in Users, User(u) PROVE Owned'
  <2>1. CASE Upload(u)
    BY <2>1 DEF Upload
  <2>2. CASE Reserve(u)
    <3>0. /\ seq' = seq + 1 /\ seq + 1 \in Transfers
          /\ status[seq + 1] = "none" /\ status' = [status EXCEPT ![seq + 1] = "running"]
          /\ seq + 1 \notin signalled \cup toSignal
          /\ \A v \in Users : mine[v] # seq + 1
      BY <2>2, FreshId
    <3>1. CASE found[u]
      <4>1. /\ worker' = [worker EXCEPT ![seq + 1] = "working"]
            /\ pc' = [pc EXCEPT ![u] = "idle"] /\ mine' = [mine EXCEPT ![u] = 0]
            /\ pc[u] = "reserve" /\ signalled' = signalled /\ toSignal' = toSignal
        BY <2>2, <3>0, <3>1 DEF Reserve, Finish
      <4>2. QED BY <3>0, <4>1
    <3>2. CASE ~found[u]
      <4>1. /\ worker' = worker
            /\ pc' = [pc EXCEPT ![u] = "skeleton"] /\ mine' = [mine EXCEPT ![u] = seq + 1]
            /\ pc[u] = "reserve" /\ signalled' = signalled /\ toSignal' = toSignal
        BY <2>2, <3>0, <3>2 DEF Reserve
      <4>2. QED BY <3>0, <4>1
    <3>3. QED BY <3>1, <3>2
  <2>3. CASE ReserveRejected(u)
    BY <2>3 DEF ReserveRejected, Finish
  <2>4. CASE SkeletonCompletes(u)
    BY <2>4, HasTransfer DEF SkeletonCompletes, Finish
  <2>5. CASE CancelReturns(u)
    BY <2>5 DEF CancelReturns, CloseChannel, Finish
  <2>6. ASSUME NEW t \in Transfers, Cancel(u, t) PROVE Owned'
    BY <2>6 DEF Cancel, MayCancel
  <2>7. QED BY <1>1, <2>1, <2>2, <2>3, <2>4, <2>5, <2>6 DEF User
<1>2. ASSUME NEW t \in Transfers, Worker(t) PROVE Owned'
  <2>1. CASE TransportReturns(t)
    BY <2>1 DEF TransportReturns
  <2>2. CASE Settle(t)
    BY <2>2 DEF Settle, Outcome, Signals
  <2>3. CASE WorkerLeaves(t)
    BY <2>3 DEF WorkerLeaves
  <2>4. QED BY <1>2, <2>1, <2>2, <2>3 DEF Worker
<1>3. CASE Unmount
  BY <1>3 DEF Unmount, BeginShutdown, CancelAll, UnmountSignals, UnmountDone, UnmountTimesOut
<1>4. CASE SetTransport
  BY <1>4 DEF SetTransport
<1>5. CASE ClearFinished
  BY <1>5 DEF ClearFinished
<1>6. CASE UNCHANGED vars
  BY <1>6
<1>7. QED BY <1>1, <1>2, <1>3, <1>4, <1>5, <1>6 DEF Next

LEMMA SignalsStep == TypeOK /\ Owned /\ Signals /\ Shutdown /\ [Next]_vars => Signals'
<1> SUFFICES ASSUME TypeOK, Owned, Signals, Shutdown, [Next]_vars PROVE Signals'
  OBVIOUS
<1>0. TransfersOK /\ CallsOK
  BY DEF TypeOK
<1> USE <1>0 DEF TransfersOK, CallsOK, Signals
<1>1. ASSUME NEW u \in Users, User(u) PROVE Signals'
  <2>1. CASE Upload(u)
    BY <2>1 DEF Upload
  <2>2. CASE Reserve(u)
    <3>0. /\ seq' = seq + 1 /\ seq + 1 \in Transfers
          /\ status[seq + 1] = "none" /\ status' = [status EXCEPT ![seq + 1] = "running"]
          /\ seq + 1 \notin signalled \cup toSignal
          /\ \A v \in Users : mine[v] # seq + 1
      BY <2>2, FreshId
    <3>1. CASE found[u]
      <4>1. /\ worker' = [worker EXCEPT ![seq + 1] = "working"]
            /\ pc' = [pc EXCEPT ![u] = "idle"] /\ mine' = [mine EXCEPT ![u] = 0]
            /\ pc[u] = "reserve" /\ signalled' = signalled /\ toSignal' = toSignal
        BY <2>2, <3>0, <3>1 DEF Reserve, Finish
      <4>2. QED BY <3>0, <4>1
    <3>2. CASE ~found[u]
      <4>1. /\ worker' = worker
            /\ pc' = [pc EXCEPT ![u] = "skeleton"] /\ mine' = [mine EXCEPT ![u] = seq + 1]
            /\ pc[u] = "reserve" /\ signalled' = signalled /\ toSignal' = toSignal
        BY <2>2, <3>0, <3>2 DEF Reserve
      <4>2. QED BY <3>0, <4>1
    <3>3. QED BY <3>1, <3>2
  <2>3. CASE ReserveRejected(u)
    BY <2>3 DEF ReserveRejected, Finish
  <2>4. CASE SkeletonCompletes(u)
    BY <2>4, HasTransfer DEF SkeletonCompletes, Finish
  <2>5. CASE CancelReturns(u)
    BY <2>5, HasTransfer DEF CancelReturns, CloseChannel, Finish
  <2>6. ASSUME NEW t \in Transfers, Cancel(u, t) PROVE Signals'
    BY <2>6 DEF Cancel, MayCancel
  <2>7. QED BY <1>1, <2>1, <2>2, <2>3, <2>4, <2>5, <2>6 DEF User
<1>2. ASSUME NEW t \in Transfers, Worker(t) PROVE Signals'
  <2>1. CASE TransportReturns(t)
    BY <2>1 DEF TransportReturns
  <2>2. CASE Settle(t)
    BY <2>2 DEF Settle, Outcome
  <2>3. CASE WorkerLeaves(t)
    BY <2>3 DEF WorkerLeaves
  <2>4. QED BY <1>2, <2>1, <2>2, <2>3 DEF Worker
<1>3. CASE Unmount
  <2>1. CASE CancelAll
    BY <2>1 DEF CancelAll, Shutdown
  <2>2. CASE UnmountSignals
    BY <2>2 DEF UnmountSignals
  <2>3. CASE BeginShutdown \/ UnmountDone \/ UnmountTimesOut
    BY <2>3 DEF BeginShutdown, UnmountDone, UnmountTimesOut
  <2>4. QED BY <1>3, <2>1, <2>2, <2>3 DEF Unmount
<1>4. CASE SetTransport
  BY <1>4 DEF SetTransport
<1>5. CASE ClearFinished
  BY <1>5 DEF ClearFinished
<1>6. CASE UNCHANGED vars
  BY <1>6
<1>7. QED BY <1>1, <1>2, <1>3, <1>4, <1>5, <1>6 DEF Next

LEMMA ShutdownStep == TypeOK /\ Owned /\ Signals /\ Shutdown /\ [Next]_vars => Shutdown'
<1> SUFFICES ASSUME TypeOK, Owned, Signals, Shutdown, [Next]_vars PROVE Shutdown'
  OBVIOUS
<1>0. TransfersOK /\ CallsOK
  BY DEF TypeOK
<1> USE <1>0 DEF TransfersOK, CallsOK, Shutdown
<1>1. ASSUME NEW u \in Users, User(u) PROVE Shutdown'
  <2>1. CASE Upload(u) \/ ReserveRejected(u)
    BY <2>1 DEF Upload, ReserveRejected
  <2>2. CASE Reserve(u)
    BY <2>2 DEF Reserve, MayStart, NextId
  <2>3. CASE SkeletonCompletes(u)
    BY <2>3, HasTransfer DEF SkeletonCompletes
  <2>4. CASE CancelReturns(u)
    BY <2>4 DEF CancelReturns
  <2>5. ASSUME NEW t \in Transfers, Cancel(u, t) PROVE Shutdown'
    BY <2>5 DEF Cancel, MayCancel
  <2>6. QED BY <1>1, <2>1, <2>2, <2>3, <2>4, <2>5 DEF User
<1>2. ASSUME NEW t \in Transfers, Worker(t) PROVE Shutdown'
  <2>1. CASE TransportReturns(t)
    BY <2>1 DEF TransportReturns
  <2>2. CASE Settle(t)
    BY <2>2 DEF Settle, Outcome, Owned
  <2>3. CASE WorkerLeaves(t)
    BY <2>3 DEF WorkerLeaves
  <2>4. QED BY <1>2, <2>1, <2>2, <2>3 DEF Worker
<1>3. CASE Unmount
  BY <1>3 DEF Unmount, BeginShutdown, CancelAll, UnmountSignals, UnmountDone, UnmountTimesOut
<1>4. CASE SetTransport
  BY <1>4 DEF SetTransport
<1>5. CASE ClearFinished
  BY <1>5 DEF ClearFinished
<1>6. CASE UNCHANGED vars
  BY <1>6
<1>7. QED BY <1>1, <1>2, <1>3, <1>4, <1>5, <1>6 DEF Next

LEMMA ReachedStep ==
  TypeOK /\ Owned /\ Signals /\ Shutdown /\ Reached /\ [Next]_vars => Reached'
<1> SUFFICES ASSUME TypeOK, Owned, Signals, Shutdown, Reached, [Next]_vars PROVE Reached'
  OBVIOUS
<1>0. TransfersOK /\ CallsOK
  BY DEF TypeOK
<1> USE <1>0 DEF TransfersOK, CallsOK, Reached
<1>1. ASSUME NEW u \in Users, User(u) PROVE Reached'
  <2>1. CASE Upload(u)
    BY <2>1 DEF Upload
  <2>2. CASE Reserve(u)
    <3>0. /\ seq' = seq + 1 /\ seq + 1 \in Transfers
          /\ status[seq + 1] = "none" /\ status' = [status EXCEPT ![seq + 1] = "running"]
          /\ seq + 1 \notin signalled \cup toSignal
          /\ \A v \in Users : mine[v] # seq + 1
      BY <2>2, FreshId
    <3>1. CASE found[u]
      <4>1. /\ worker' = [worker EXCEPT ![seq + 1] = "working"]
            /\ pc' = [pc EXCEPT ![u] = "idle"] /\ mine' = [mine EXCEPT ![u] = 0]
            /\ pc[u] = "reserve" /\ signalled' = signalled /\ toSignal' = toSignal
        BY <2>2, <3>0, <3>1 DEF Reserve, Finish
      <4>2. QED BY <3>0, <4>1
    <3>2. CASE ~found[u]
      <4>1. /\ worker' = worker
            /\ pc' = [pc EXCEPT ![u] = "skeleton"] /\ mine' = [mine EXCEPT ![u] = seq + 1]
            /\ pc[u] = "reserve" /\ signalled' = signalled /\ toSignal' = toSignal
        BY <2>2, <3>0, <3>2 DEF Reserve
      <4>2. QED BY <3>0, <4>1
    <3>3. QED BY <3>1, <3>2
  <2>3. CASE ReserveRejected(u)
    BY <2>3 DEF ReserveRejected, Finish
  <2>4. CASE SkeletonCompletes(u)
    BY <2>4, HasTransfer DEF SkeletonCompletes, Finish
  <2>5. CASE CancelReturns(u)
    BY <2>5, HasTransfer DEF CancelReturns, CloseChannel, Finish
  <2>6. ASSUME NEW t \in Transfers, Cancel(u, t) PROVE Reached'
    BY <2>6 DEF Cancel, MayCancel
  <2>7. QED BY <1>1, <2>1, <2>2, <2>3, <2>4, <2>5, <2>6 DEF User
<1>2. ASSUME NEW t \in Transfers, Worker(t) PROVE Reached'
  <2>1. CASE TransportReturns(t)
    BY <2>1 DEF TransportReturns
  <2>2. CASE Settle(t)
    BY <2>2 DEF Settle
  <2>3. CASE WorkerLeaves(t)
    BY <2>3 DEF WorkerLeaves
  <2>4. QED BY <1>2, <2>1, <2>2, <2>3 DEF Worker
<1>3. CASE Unmount
  <2>1. CASE CancelAll
    BY <2>1 DEF CancelAll, Shutdown
  <2>2. CASE UnmountSignals
    BY <2>2 DEF UnmountSignals
  <2>3. CASE BeginShutdown \/ UnmountDone \/ UnmountTimesOut
    BY <2>3 DEF BeginShutdown, UnmountDone, UnmountTimesOut
  <2>4. QED BY <1>3, <2>1, <2>2, <2>3 DEF Unmount
<1>4. CASE SetTransport \/ ClearFinished
  BY <1>4 DEF SetTransport, ClearFinished
<1>5. CASE UNCHANGED vars
  BY <1>5
<1>6. QED BY <1>1, <1>2, <1>3, <1>4, <1>5 DEF Next

(* The inductive invariant of the transfers: types, whose hands a transfer    *)
(* is in, which channels are about to be closed, and what Unmount has seen.  *)
THEOREM InductiveHolds == Spec => []Inductive
<1>1. Inductive /\ [Next]_vars => Inductive'
  BY TypeStep, OwnedStep, SignalsStep, ShutdownStep, ReachedStep DEF Inductive
<1>2. QED BY InductiveInit, <1>1, PTL DEF Spec

(* Every transfer that runs is in the table and in somebody's hands, its      *)
(* channel is closed once, and none is left when Unmount has returned nil.   *)
THEOREM TransfersOwnedHolds == Spec => []TransfersOwned
<1>1. Inductive => TransfersOwned
  BY DEF Inductive, Owned, Signals, Shutdown, TransfersOwned, RunningIsOwned, UnmountDrains,
    ChannelClosedOnce
<1>2. QED BY InductiveHolds, <1>1, PTL

(* The channel of a cancelled transfer is closed, or the command or Unmount   *)
(* that cancelled it is about to close it, while its transport still runs.   *)
THEOREM CancelReachesTransportHolds == Spec => []CancelReachesTransport
<1>1. Inductive => CancelReachesTransport
  BY DEF Inductive, Reached, CancelReachesTransport
<1>2. QED BY InductiveHolds, <1>1, PTL

-----------------------------------------------------------------------------
(* Each step of FileTransfer is a step of TransferContract or leaves the      *)
(* statuses alone.                                                           *)
LEMMA StepImplements == Inductive /\ [Next]_vars => [Contract!Next]_status
<1> SUFFICES ASSUME TypeOK, Owned, Signals, [Next]_vars PROVE [Contract!Next]_status
  BY DEF Inductive
<1>0. TransfersOK /\ CallsOK
  BY DEF TypeOK
<1> USE <1>0 DEF TransfersOK, CallsOK, Contract!Next, Contract!Environment
<1>1. ASSUME NEW u \in Users, User(u) PROVE [Contract!Next]_status
  <2>1. CASE Upload(u) \/ ReserveRejected(u) \/ CancelReturns(u)
    BY <2>1 DEF Upload, ReserveRejected, CancelReturns
  <2>2. CASE Reserve(u)
    <3>1. seq + 1 \in Transfers /\ Contract!Start(seq + 1)
      BY <2>2 DEF Reserve, NextId, Contract!Start
    <3>2. QED BY <3>1
  <2>3. CASE SkeletonCompletes(u)
    <3>1. mine[u] \in Transfers /\ status[mine[u]] \in {"running", "canceled", "cleared"}
      BY <2>3, HasTransfer DEF SkeletonCompletes, Owned
    <3>2. CASE status[mine[u]] = "running"
      BY <2>3, <3>1, <3>2 DEF SkeletonCompletes, Contract!Finish
    <3>3. CASE status[mine[u]] = "canceled"
      BY <2>3, <3>1, <3>3 DEF SkeletonCompletes, Contract!CompleteAnyway
    <3>4. CASE status[mine[u]] = "cleared"
      BY <2>3, <3>1, <3>4 DEF SkeletonCompletes
    <3>5. QED BY <3>1, <3>2, <3>3, <3>4
  <2>4. ASSUME NEW t \in Transfers, Cancel(u, t) PROVE [Contract!Next]_status
    BY <2>4 DEF Cancel, MayCancel, Contract!Cancel
  <2>5. QED BY <1>1, <2>1, <2>2, <2>3, <2>4 DEF User
<1>2. ASSUME NEW t \in Transfers, Worker(t) PROVE [Contract!Next]_status
  <2>1. CASE TransportReturns(t) \/ WorkerLeaves(t)
    BY <2>1 DEF TransportReturns, WorkerLeaves
  <2>2. CASE Settle(t)
    <3>1. status[t] \in {"running", "canceled", "cleared"}
      BY <2>2 DEF Settle, Owned
    <3>2. CASE status[t] = "running"
      <4>1. Outcome(t) \in {"completed", "failed"}
        BY <3>2 DEF Outcome, Signals
      <4>2. QED BY <2>2, <3>2, <4>1 DEF Settle, Contract!Finish
    <3>3. CASE status[t] = "canceled"
      <4>1. Outcome(t) \in {"completed", "canceled"}
        BY <3>3 DEF Outcome
      <4>2. QED BY <2>2, <3>3, <4>1 DEF Settle, Contract!CompleteAnyway
    <3>4. CASE status[t] = "cleared"
      BY <2>2, <3>4 DEF Settle, Outcome
    <3>5. QED BY <3>1, <3>2, <3>3, <3>4
  <2>3. QED BY <1>2, <2>1, <2>2 DEF Worker
<1>3. CASE Unmount
  <2>1. CASE CancelAll
    BY <2>1 DEF CancelAll, Contract!CancelAll
  <2>2. CASE BeginShutdown \/ UnmountSignals \/ UnmountDone \/ UnmountTimesOut
    BY <2>2 DEF BeginShutdown, UnmountSignals, UnmountDone, UnmountTimesOut
  <2>3. QED BY <1>3, <2>1, <2>2 DEF Unmount
<1>4. CASE SetTransport
  BY <1>4 DEF SetTransport
<1>5. CASE ClearFinished
  BY <1>5 DEF ClearFinished, Contract!ClearFinished
<1>6. CASE UNCHANGED vars
  BY <1>6
<1>7. QED BY <1>1, <1>2, <1>3, <1>4, <1>5, <1>6 DEF Next

(* The statuses the commands show have the life TransferContract describes.   *)
(* The algorithm distribution, which polls them, is modelled on that module. *)
THEOREM ContractImplemented == Spec => ImplementsContract
<1>1. Init => Contract!Init
  BY DEF Init, Contract!Init
<1>2. QED BY InductiveHolds, StepImplements, <1>1, PTL DEF Spec, ImplementsContract, Contract!Spec
=============================================================================
