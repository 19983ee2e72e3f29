----------------------------- MODULE FileTransfer -----------------------------
(***************************************************************************)
(* FileTransferAbility (ability/file_transfer_ability.go): upload and       *)
(* download start a worker that calls the injected transport, cancel marks  *)
(* the transfer and then closes its channel, clear_finished forgets, and    *)
(* Unmount cancels everything and waits for the workers.                    *)
(*                                                                          *)
(* The two directions differ in their arguments only. Which target and      *)
(* which path a transfer has is left out; so are the calls that are         *)
(* rejected for their arguments.                                            *)
(***************************************************************************)
EXTENDS Integers, FiniteSets

CONSTANTS
  Users,          \* goroutines that call Command
  MaxConcurrent,  \* maxConcurrentTransfers
  MaxTransfers    \* bound on the number of transfers

ASSUME TransferAssumption == MaxTransfers \in Nat /\ MaxConcurrent \in Nat

VARIABLES
  closing, transport,  \* transport: one is injected, otherwise skeleton mode
  seq, status,         \* the transfers of the table, see TransferContract
  signalled,           \* transfers whose cancel channel is closed
  worker,              \* the goroutine of each transfer
  pc, mine, found,     \* of each user: where it is, its transfer, the transport it saw
  unmount, toSignal,   \* where Unmount is, the channels it still has to close
  acked                \* history: transfers whose cancel command returned success

ability == <<closing, transport, seq, status, signalled>>
users   == <<pc, mine, found, acked>>
teardown == <<unmount, toSignal>>
vars == <<ability, worker, users, teardown>>

Contract  == INSTANCE TransferContract
Transfers == 1 .. MaxTransfers
Finished  == {"completed", "failed", "canceled"}

(* "working" is inside transport.Upload or Download, "ok" and "error" are    *)
(* back from it, "settled" has written the outcome but not left.             *)
Working == {t \in Transfers : worker[t] \in {"working", "ok", "error", "settled"}}

Init ==
  /\ closing = FALSE /\ transport \in BOOLEAN
  /\ seq = 0 /\ status = [t \in Transfers |-> "none"] /\ signalled = {}
  /\ worker = [t \in Transfers |-> "none"]
  /\ pc = [u \in Users |-> "idle"] /\ mine = [u \in Users |-> 0]
  /\ found = [u \in Users |-> FALSE]
  /\ unmount = "before" /\ toSignal = {} /\ acked = {}

SetTransport ==
  /\ transport' \in BOOLEAN
  /\ UNCHANGED <<closing, seq, status, signalled, worker, users, teardown>>

Finish(u) ==
  /\ pc' = [pc EXCEPT ![u] = "idle"]
  /\ mine' = [mine EXCEPT ![u] = 0]
  /\ found' = [found EXCEPT ![u] = FALSE]

-----------------------------------------------------------------------------
(* upload and download: look at closing and transport, validate, then take a *)
(* slot under the lock.                                                      *)

Upload(u) ==
  /\ pc[u] = "idle" /\ ~closing
  /\ found' = [found EXCEPT ![u] = transport]
  /\ pc' = [pc EXCEPT ![u] = "reserve"]
  /\ UNCHANGED <<ability, worker, mine, acked, teardown>>

\* Variant: closing is not looked at again.
MayStartLate == Cardinality(Working) < MaxConcurrent

MayStart == ~closing /\ Cardinality(Working) < MaxConcurrent

\* Variant: the id is derived from the size of the table.
NextIdBySize == Cardinality({t \in Transfers : status[t] \notin {"none", "cleared"}}) + 1

NextId == seq + 1

Reserve(u) ==
  /\ pc[u] = "reserve" /\ MayStart
  /\ seq < MaxTransfers
  /\ seq' = NextId
  /\ status' = [status EXCEPT ![seq'] = "running"]
  /\ IF found[u]
     THEN /\ worker' = [worker EXCEPT ![seq'] = "working"]
          /\ Finish(u)
     ELSE /\ mine' = [mine EXCEPT ![u] = seq']
          /\ pc' = [pc EXCEPT ![u] = "skeleton"]
          /\ UNCHANGED <<worker, found>>
  /\ UNCHANGED <<closing, transport, signalled, acked, teardown>>

ReserveRejected(u) ==
  /\ pc[u] = "reserve" /\ (~MayStart \/ seq = MaxTransfers)
  /\ Finish(u)
  /\ UNCHANGED <<ability, worker, acked, teardown>>

\* Without a transport the transfer is completed in a second critical section;
\* one that clear_finished removed meanwhile is no longer in the table.
SkeletonCompletes(u) ==
  /\ pc[u] = "skeleton"
  /\ status' = [status EXCEPT ![mine[u]] = IF @ = "cleared" THEN @ ELSE "completed"]
  /\ Finish(u)
  /\ UNCHANGED <<closing, transport, seq, signalled, worker, acked, teardown>>

-----------------------------------------------------------------------------
(* cancel: the status under the lock, the channel outside it.                *)

\* Variant: any transfer of the table can be cancelled.
InTable(t) == status[t] \notin {"none", "cleared"}

MayCancel(t) == status[t] = "running"

Cancel(u, t) ==
  /\ pc[u] = "idle" /\ MayCancel(t)
  /\ status' = [status EXCEPT ![t] = "canceled"]
  /\ mine' = [mine EXCEPT ![u] = t]
  /\ pc' = [pc EXCEPT ![u] = "signal"]
  /\ UNCHANGED <<closing, transport, seq, signalled, worker, found, acked, teardown>>

\* Variant: the command returns without closing the channel.
NoSignal(u) == UNCHANGED signalled

CloseChannel(u) == signalled' = signalled \cup {mine[u]}

CancelReturns(u) ==
  /\ pc[u] = "signal"
  /\ CloseChannel(u)
  /\ acked' = acked \cup {mine[u]}
  /\ Finish(u)
  /\ UNCHANGED <<closing, transport, seq, status, worker, teardown>>

ClearFinished ==
  /\ \E t \in Transfers : status[t] \in Finished
  /\ status' = [t \in Transfers |-> IF status[t] \in Finished THEN "cleared" ELSE status[t]]
  /\ UNCHANGED <<closing, transport, seq, signalled, worker, users, teardown>>

-----------------------------------------------------------------------------
(* run: the worker of a transfer. The transport may succeed, fail, or return *)
(* because of the channel; it may also ignore the channel and hang.          *)

TransportReturns(t) ==
  /\ worker[t] = "working"
  /\ \E outcome \in {"ok", "error"} : worker' = [worker EXCEPT ![t] = outcome]
  /\ UNCHANGED <<ability, users, teardown>>

\* Variants: an error leaves the status alone; the outcome ignores a cancellation.
OutcomeOnSuccess(t) == IF worker[t] = "ok" THEN "completed" ELSE status[t]
OutcomeOfTransport(t) ==
  IF status[t] = "cleared" THEN "cleared" ELSE IF worker[t] = "ok" THEN "completed" ELSE "failed"

Outcome(t) ==
  IF status[t] = "cleared" THEN "cleared"
  ELSE IF t \in signalled THEN "canceled"
  ELSE IF worker[t] = "ok" THEN "completed"
  ELSE IF status[t] = "canceled" THEN "canceled"
  ELSE "failed"

Settle(t) ==
  /\ worker[t] \in {"ok", "error"}
  /\ status' = [status EXCEPT ![t] = Outcome(t)]
  /\ worker' = [worker EXCEPT ![t] = "settled"]
  /\ UNCHANGED <<closing, transport, seq, signalled, users, teardown>>

\* running.Add(-1), wg.Done().
WorkerLeaves(t) ==
  /\ worker[t] = "settled"
  /\ worker' = [worker EXCEPT ![t] = "left"]
  /\ UNCHANGED <<ability, users, teardown>>

-----------------------------------------------------------------------------
(* Unmount.                                                                  *)

BeginShutdown ==
  /\ unmount = "before" /\ ~closing
  /\ closing' = TRUE /\ unmount' = "cancel"
  /\ UNCHANGED <<transport, seq, status, signalled, worker, users, toSignal>>

Running == {t \in Transfers : status[t] = "running"}

CancelAll ==
  /\ unmount = "cancel"
  /\ status' = [t \in Transfers |-> IF t \in Running THEN "canceled" ELSE status[t]]
  /\ toSignal' = Running
  /\ unmount' = "signal"
  /\ UNCHANGED <<closing, transport, seq, signalled, worker, users>>

UnmountSignals ==
  /\ unmount = "signal"
  /\ IF toSignal = {}
     THEN unmount' = "wait" /\ UNCHANGED <<toSignal, signalled>>
     ELSE \E t \in toSignal :
            /\ toSignal' = toSignal \ {t} /\ signalled' = signalled \cup {t}
            /\ UNCHANGED unmount
  /\ UNCHANGED <<closing, transport, seq, status, worker, users>>

UnmountDone ==
  /\ unmount = "wait" /\ Working = {}
  /\ unmount' = "done"
  /\ UNCHANGED <<ability, worker, users, toSignal>>

UnmountTimesOut ==
  /\ unmount = "wait"
  /\ unmount' = "failed"
  /\ UNCHANGED <<ability, worker, users, toSignal>>

-----------------------------------------------------------------------------
User(u) ==
  \/ Upload(u) \/ Reserve(u) \/ ReserveRejected(u) \/ SkeletonCompletes(u)
  \/ CancelReturns(u) \/ \E t \in Transfers : Cancel(u, t)

Worker(t) == TransportReturns(t) \/ Settle(t) \/ WorkerLeaves(t)

Unmount == BeginShutdown \/ CancelAll \/ UnmountSignals \/ UnmountDone \/ UnmountTimesOut

Next ==
  \/ SetTransport \/ ClearFinished \/ Unmount
  \/ \E u \in Users : User(u)
  \/ \E t \in Transfers : Worker(t)

Spec == Init /\ [][Next]_vars

-----------------------------------------------------------------------------
FlagsOK == closing \in BOOLEAN /\ transport \in BOOLEAN /\ found \in [Users -> BOOLEAN]

TransfersOK ==
  /\ seq \in 0 .. MaxTransfers
  /\ status \in [Transfers -> Contract!Statuses]
  /\ \A t \in Transfers : status[t] = "none" <=> t > seq
  /\ worker \in [Transfers -> {"none", "working", "ok", "error", "settled", "left"}]
  /\ signalled \subseteq 1 .. seq /\ acked \subseteq 1 .. seq /\ toSignal \subseteq 1 .. seq

CallsOK ==
  /\ pc \in [Users -> {"idle", "reserve", "skeleton", "signal"}]
  /\ mine \in [Users -> 0 .. seq]
  /\ unmount \in {"before", "cancel", "signal", "wait", "done", "failed"}

TypeOK == FlagsOK /\ TransfersOK /\ CallsOK

(* A transfer that shows "running" has somebody who will finish it: its       *)
(* worker, or the skeleton-mode command that is about to.                    *)
RunningIsOwned ==
  TypeOK /\ \A t \in Running :
    \/ worker[t] \in {"working", "ok", "error"}
    \/ \E u \in Users : pc[u] = "skeleton" /\ mine[u] = t

(* No worker is launched after Unmount has begun to wait (the comment on the *)
(* slot): once Unmount returned nil none exists, and nothing runs.           *)
UnmountDrains == unmount = "done" => Working = {} /\ Running = {}

(* The channel of a transfer is closed at most once, although cancel and     *)
(* Unmount look whether it is open and close it without a lock: closing a    *)
(* closed channel would panic.                                               *)
ChannelClosedOnce ==
  /\ \A u \in Users : pc[u] = "signal" => mine[u] \notin signalled \cup toSignal
  /\ toSignal \cap signalled = {}
  /\ \A u, v \in Users : u # v /\ pc[u] = "signal" /\ pc[v] = "signal" => mine[u] # mine[v]

(* The statuses have the life TransferContract describes: completed and      *)
(* failed are final, ids are not used twice.                                 *)
ImplementsContract == Contract!Spec

(* A cancellation reaches the worker: while its transport still runs, the      *)
(* channel of a cancelled transfer has been closed or the command or Unmount *)
(* that cancelled it is on its way to close it.                              *)
CancelReachesTransport ==
  \A t \in Transfers : status[t] = "canceled" /\ worker[t] = "working" =>
    t \in signalled \cup toSignal \cup {mine[u] : u \in {v \in Users : pc[v] = "signal"}}

-----------------------------------------------------------------------------
(* The comments of run and the alignment test: a cancellation takes           *)
(* precedence and the transfer stays canceled, also when the transport       *)
(* succeeded. The cancel command has returned success to its caller.         *)
CancelWins ==
  \A t \in acked : worker[t] \in {"none", "settled", "left"} =>
    status[t] \in {"canceled", "cleared"}

(* Every transfer that runs is in the table, ends once and before Unmount     *)
(* returns.                                                                  *)
TransfersOwned == RunningIsOwned /\ UnmountDrains /\ ChannelClosedOnce
=============================================================================
