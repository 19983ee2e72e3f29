------------------------- MODULE AlgorithmDistribution -------------------------
(***************************************************************************)
(* AlgDistAbility (ability/algorithm_distribution_ability.go) on top of the *)
(* transfers of TransferContract: distribute starts a transfer and a job,   *)
(* a watcher per job polls the transfer and aligns the job with it, cancel  *)
(* cancels the transfer and then the job, clear_finished forgets jobs, and  *)
(* Unmount waits for the watchers.                                          *)
(*                                                                          *)
(* Check has resolved the FileTransferAbility when a command runs. The      *)
(* catalogue of algorithms is the set of registered name@version keys.      *)
(***************************************************************************)
EXTENDS Integers, FiniteSets

CONSTANTS
  Users,         \* goroutines that call Command
  Algorithms,    \* name@version keys
  MaxTransfers   \* bound on the number of transfers, hence of jobs

ASSUME TransfersAssumption == MaxTransfers \in Nat

VARIABLES
  status,              \* of the transfers
  algs, seq, closing,  \* fields of AlgDistAbility
  job, tx,             \* jobs alg-<n>: the status shown and its TransferID
  watcher, seen,       \* the watcher of each job, the transfer status it read
  pc, mine,            \* of each user: where it is, the transfer or job it works on
  unmounted            \* Unmount returned

ability  == <<algs, seq, closing, job, tx>>
watchers == <<watcher, seen>>
users    == <<pc, mine>>
vars == <<status, ability, watchers, users, unmounted>>

Transfer == INSTANCE TransferContract
Jobs     == 1 .. MaxTransfers
Terminal == {"completed", "failed", "canceled"}
Live     == {"look", "lookup", "align", "missing"}  \* phases of a watcher that runs

Init ==
  /\ Transfer!Init
  /\ algs = {} /\ seq = 0 /\ closing = FALSE
  /\ job = [j \in Jobs |-> "none"] /\ tx = [j \in Jobs |-> 0]
  /\ watcher = [j \in Jobs |-> "none"] /\ seen = [j \in Jobs |-> "none"]
  /\ pc = [u \in Users |-> "idle"] /\ mine = [u \in Users |-> 0]
  /\ unmounted = FALSE

\* The transfers also move, and are cancelled and cleared, without this ability.
Transfers ==
  /\ Transfer!Environment
  /\ UNCHANGED <<ability, watchers, users, unmounted>>

Goto(u, phase, subject) ==
  pc' = [pc EXCEPT ![u] = phase] /\ mine' = [mine EXCEPT ![u] = subject]

-----------------------------------------------------------------------------
RegisterAlgorithm(a) ==
  /\ a \notin algs /\ algs' = algs \cup {a}
  /\ UNCHANGED <<status, seq, closing, job, tx, watchers, users, unmounted>>

UnregisterAlgorithm(a) ==
  /\ a \in algs /\ algs' = algs \ {a}
  /\ UNCHANGED <<status, seq, closing, job, tx, watchers, users, unmounted>>

(* distribute: the algorithm, the upload, the job, the watcher; a failed     *)
(* upload ends the command.                                                  *)
Distribute(u, a) ==
  /\ pc[u] = "idle" /\ a \in algs
  /\ Goto(u, "upload", 0)
  /\ UNCHANGED <<status, ability, watchers, unmounted>>

UploadAccepted(u) ==
  /\ pc[u] = "upload"
  /\ \E t \in Transfer!Transfers : Transfer!Start(t) /\ Goto(u, "store", t)
  /\ UNCHANGED <<ability, watchers, unmounted>>

\* Variant: the error of the upload is ignored.
GoOnWithoutTransfer(u) == Goto(u, "store", 0)

EndWithoutTransfer(u) == Goto(u, "idle", 0)

UploadRejected(u) ==
  /\ pc[u] = "upload"
  /\ EndWithoutTransfer(u)
  /\ UNCHANGED <<status, ability, watchers, unmounted>>

\* newJob and storeJob; nobody sees the id in between.
StoreJob(u) ==
  /\ pc[u] = "store"
  /\ seq' = seq + 1
  /\ job' = [job EXCEPT ![seq'] = "running"]
  /\ tx' = [tx EXCEPT ![seq'] = mine[u]]
  /\ Goto(u, "watch", seq')
  /\ UNCHANGED <<status, algs, closing, watchers, unmounted>>

\* Variant: closing is not looked at.
MayWatchAlways == TRUE

MayWatch == ~closing

StartWatcher(u) ==
  /\ pc[u] = "watch"
  /\ watcher' = IF MayWatch THEN [watcher EXCEPT ![mine[u]] = "look"] ELSE watcher
  /\ Goto(u, "idle", 0)
  /\ UNCHANGED <<status, ability, seen, unmounted>>

-----------------------------------------------------------------------------
(* watchJob: is the job still to be watched, what does the transfer show,    *)
(* and then a second critical section for the job.                           *)

Leave(j) ==
  /\ watcher' = [watcher EXCEPT ![j] = "left"]
  /\ seen' = [seen EXCEPT ![j] = "none"]

WatchLook(j) ==
  /\ watcher[j] = "look"
  /\ IF job[j] = "running"
     THEN watcher' = [watcher EXCEPT ![j] = "lookup"] /\ UNCHANGED seen
     ELSE Leave(j)
  /\ UNCHANGED <<status, ability, users, unmounted>>

IsTerminalFileTransfer(s) == s \in Terminal

WatchLookup(j) ==
  /\ watcher[j] = "lookup"
  /\ LET s == status[tx[j]]
     IN /\ seen' = [seen EXCEPT ![j] = s]
        /\ watcher' = [watcher EXCEPT ![j] = IF s = "cleared" THEN "missing"
                                             ELSE IF IsTerminalFileTransfer(s) THEN "align"
                                             ELSE "look"]
  /\ UNCHANGED <<status, ability, users, unmounted>>

\* Variants: every terminal transfer completes the job; a cancelled transfer
\* is not a case of the switch.
AlignCompleted(j) == "completed"
AlignNotCanceled(j) == IF seen[j] = "canceled" THEN job[j] ELSE seen[j]

AlignedStatus(j) == IF job[j] = "canceled" THEN "canceled" ELSE seen[j]

WatchAlign(j) ==
  /\ watcher[j] = "align"
  /\ job' = [job EXCEPT ![j] = IF @ = "cleared" THEN @ ELSE AlignedStatus(j)]
  /\ Leave(j)
  /\ UNCHANGED <<status, algs, seq, closing, tx, users, unmounted>>

WatchMissing(j) ==
  /\ watcher[j] = "missing"
  /\ job' = [job EXCEPT ![j] = IF @ = "cleared" THEN @ ELSE "failed"]
  /\ Leave(j)
  /\ UNCHANGED <<status, algs, seq, closing, tx, users, unmounted>>

\* maxTotal: after 30 s the watcher gives up at the head of its loop.
WatchExpires(j) ==
  /\ watcher[j] = "look"
  /\ watcher' = [watcher EXCEPT ![j] = "expired"]
  /\ seen' = [seen EXCEPT ![j] = "none"]
  /\ UNCHANGED <<status, ability, users, unmounted>>

-----------------------------------------------------------------------------
(* cancelJob: look, cancel the transfer (which may have finished, or be      *)
(* gone), look again.                                                        *)

CancelJob(u, j) ==
  /\ pc[u] = "idle" /\ job[j] = "running"
  /\ Goto(u, "cancelTransfer", j)
  /\ UNCHANGED <<status, ability, watchers, unmounted>>

CancelTransfer(u) ==
  /\ pc[u] = "cancelTransfer"
  /\ LET t == tx[mine[u]]
     IN Transfer!Cancel(t) \/ (status[t] # "running" /\ UNCHANGED status)
  /\ Goto(u, "cancelJob", mine[u])
  /\ UNCHANGED <<ability, watchers, unmounted>>

\* Variant: the job is not looked at again.
CanceledBlindly(u) == IF job[mine[u]] = "cleared" THEN "cleared" ELSE "canceled"

CanceledStatus(u) == IF job[mine[u]] = "running" THEN "canceled" ELSE job[mine[u]]

CancelJobReturns(u) ==
  /\ pc[u] = "cancelJob"
  /\ job' = [job EXCEPT ![mine[u]] = CanceledStatus(u)]
  /\ Goto(u, "idle", 0)
  /\ UNCHANGED <<status, algs, seq, closing, tx, watchers, unmounted>>

ClearFinishedJobs ==
  /\ \E j \in Jobs : job[j] \in Terminal
  /\ job' = [j \in Jobs |-> IF job[j] \in Terminal THEN "cleared" ELSE job[j]]
  /\ UNCHANGED <<status, algs, seq, closing, tx, watchers, users, unmounted>>

(* Unmount ignores its context: it waits as long as a watcher runs.          *)
BeginShutdown ==
  /\ ~closing /\ closing' = TRUE
  /\ UNCHANGED <<status, algs, seq, job, tx, watchers, users, unmounted>>

Watched == {j \in Jobs : watcher[j] \in Live}

UnmountDone ==
  /\ closing /\ ~unmounted /\ Watched = {}
  /\ unmounted' = TRUE
  /\ UNCHANGED <<status, ability, watchers, users>>

-----------------------------------------------------------------------------
User(u) ==
  \/ \E a \in Algorithms : Distribute(u, a)
  \/ UploadAccepted(u) \/ UploadRejected(u) \/ StoreJob(u) \/ StartWatcher(u)
  \/ \E j \in Jobs : CancelJob(u, j)
  \/ CancelTransfer(u) \/ CancelJobReturns(u)

Watch(j) == WatchLook(j) \/ WatchLookup(j) \/ WatchAlign(j) \/ WatchMissing(j)

Next ==
  \/ Transfers \/ ClearFinishedJobs \/ BeginShutdown \/ UnmountDone
  \/ \E a \in Algorithms : RegisterAlgorithm(a) \/ UnregisterAlgorithm(a)
  \/ \E u \in Users : User(u)
  \/ \E j \in Jobs : Watch(j) \/ WatchExpires(j)

Spec == Init /\ [][Next]_vars

-----------------------------------------------------------------------------
JobStatuses == Terminal \cup {"none", "running", "cleared"}

FlagsOK == closing \in BOOLEAN /\ unmounted \in BOOLEAN /\ algs \subseteq Algorithms

TransfersOK == status \in [Transfer!Transfers -> Transfer!Statuses]

JobsOK ==
  /\ seq \in 0 .. MaxTransfers
  /\ job \in [Jobs -> JobStatuses] /\ \A j \in Jobs : job[j] = "none" <=> j > seq
  /\ tx \in [Jobs -> 0 .. MaxTransfers] /\ \A j \in Jobs : tx[j] = 0 <=> j > seq

WatchersOK ==
  /\ watcher \in [Jobs -> Live \cup {"none", "left", "expired"}]
  /\ seen \in [Jobs -> Transfer!Statuses]

CallsOK ==
  /\ pc \in [Users -> {"idle", "upload", "store", "watch", "cancelTransfer", "cancelJob"}]
  /\ mine \in [Users -> 0 .. MaxTransfers]

TypeOK == FlagsOK /\ TransfersOK /\ JobsOK /\ WatchersOK /\ CallsOK

(* A job never claims more than its transfer: one that is completed has a     *)
(* transfer that completed, one that failed a transfer that failed or is     *)
(* gone from the table. Transfers are not shared between jobs.               *)
JobsHonest ==
  /\ TypeOK
  /\ \A j \in Jobs : job[j] = "completed" => status[tx[j]] \in {"completed", "cleared"}
  /\ \A j \in Jobs : job[j] = "failed" => status[tx[j]] \in {"failed", "cleared"}
  /\ \A i, j \in 1 .. seq : i # j => tx[i] # tx[j]

(* A job that completed or failed stays so until it is cleared: a cancel     *)
(* that comes too late does not touch it.                                    *)
OutcomeFinal ==
  [][\A j \in Jobs : job[j] \in {"completed", "failed"} =>
       job'[j] \in {job[j], "cleared"}]_vars

(* Unmount returns only when no watcher runs, and none is started later      *)
(* (the WaitGroup would be misused).                                         *)
WatchersDrained == unmounted => Watched = {}

(* A watcher leaves a job running only when its 30 s are over: whatever it    *)
(* read and whoever came in between, it settled the job before it left.      *)
WatcherSettles == \A j \in Jobs : watcher[j] = "left" => job[j] # "running"

-----------------------------------------------------------------------------
(* watchJob's comment: a job the user has cancelled is not overwritten.       *)
CanceledKept ==
  [][\A j \in Jobs : job[j] = "canceled" => job'[j] \in {"canceled", "cleared"}]_vars

(* Unmount's comment: it waits for the watchers so that the status of every  *)
(* job has converged.                                                        *)
UnmountConverges ==
  unmounted /\ (\A u \in Users : pc[u] = "idle") => \A j \in Jobs : job[j] # "running"

(* A watcher settles its job or gives way, and none outlives Unmount.         *)
WatchersEnd == WatcherSettles /\ WatchersDrained
=============================================================================
