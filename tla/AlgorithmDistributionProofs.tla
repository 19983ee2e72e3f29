---------------------- MODULE AlgorithmDistributionProofs ----------------------
(* Theorems about AlgorithmDistribution, for every set of users and of        *)
(* algorithms and every bound on the transfers.                              *)
EXTENDS AlgorithmDistribution, TLAPS, FiniteSetTheorems

(* What JobsHonest needs: a transfer belongs to one job or to one distribute  *)
(* that is about to store it.                                                *)
Owned ==
  /\ \A j \in 1 .. seq : status[tx[j]] # "none"
  /\ \A i, j \in 1 .. seq : tx[i] = tx[j] => i = j
  /\ \A u \in Users : pc[u] = "store" =>
       /\ mine[u] \in Jobs /\ status[mine[u]] # "none"
       /\ \A j \in 1 .. seq : tx[j] # mine[u]
  /\ \A u, v \in Users : pc[u] = "store" /\ pc[v] = "store" /\ mine[u] = mine[v] => u = v

(* A job has one watcher, which one distribute starts.                       *)
OnJob == {"watch", "cancelTransfer", "cancelJob"}

Watchful ==
  /\ \A u \in Users : pc[u] \in OnJob => mine[u] \in 1 .. seq
  /\ \A u \in Users : pc[u] = "watch" => watcher[mine[u]] = "none"
  /\ \A u, v \in Users : pc[u] = "watch" /\ pc[v] = "watch" /\ mine[u] = mine[v] => u = v
  /\ \A j \in Jobs : watcher[j] # "none" => j \in 1 .. seq

(* What a watcher read is still true of the transfer when the job shows it,   *)
(* only the watcher shows an outcome, and it does not leave without one.      *)
Justifies(s, now) ==
  /\ s = "completed" => now \in {"completed", "cleared"}
  /\ s = "failed" => now \in {"failed", "cleared"}

SettledAt(j) ==
  /\ job[j] \in {"completed", "failed"} =>
       watcher[j] = "left" /\ Justifies(job[j], status[tx[j]])
  /\ watcher[j] = "align" => seen[j] \in Terminal /\ Justifies(seen[j], status[tx[j]])
  /\ watcher[j] = "missing" => status[tx[j]] = "cleared"
  /\ watcher[j] = "left" => job[j] # "running"

Settled == \A j \in Jobs : SettledAt(j)

(* What WatchersDrained needs.                                               *)
Drained == unmounted => closing /\ Watched = {}

Inductive == TypeOK /\ Owned /\ Watchful /\ Settled /\ Drained

-----------------------------------------------------------------------------
(* How a transfer goes on: an outcome stays until it is cleared.             *)
Follows(before, after) ==
  /\ before # "none" => after # "none"
  /\ before \in {"completed", "failed"} => after \in {before, "cleared"}
  /\ before = "cleared" => after = "cleared"

Onward == \A t \in Jobs : Follows(status[t], status'[t])

LEMMA EnvironmentGoesOn ==
  ASSUME TransfersOK, Transfer!Environment
  PROVE  TransfersOK' /\ Onward
<1> USE DEF TransfersOK, Transfer!Transfers, Jobs, Onward, Follows, Transfer!Statuses,
            Transfer!Finished
<1>1. CASE \E t \in Transfer!Transfers : Transfer!Finish(t)
  BY <1>1 DEF Transfer!Finish
<1>2. CASE \E t \in Transfer!Transfers : Transfer!Cancel(t) \/ Transfer!CompleteAnyway(t)
  BY <1>2 DEF Transfer!Cancel, Transfer!CompleteAnyway
<1>3. CASE Transfer!CancelAll
  BY <1>3 DEF Transfer!CancelAll
<1>4. CASE Transfer!ClearFinished
  BY <1>4 DEF Transfer!ClearFinished
<1>5. QED BY <1>1, <1>2, <1>3, <1>4 DEF Transfer!Environment

LEMMA StatusStep ==
  ASSUME TransfersOK, [Next]_vars
  PROVE  TransfersOK' /\ Onward
<1> USE DEF TransfersOK, Transfer!Transfers, Jobs, Onward, Follows, Transfer!Statuses,
            Transfer!Finished
<1>1. CASE status' = status
  BY <1>1
<1>2. CASE Transfers
  BY <1>2, EnvironmentGoesOn DEF Transfers
<1>3. ASSUME NEW u \in Users, UploadAccepted(u)
      PROVE  TransfersOK' /\ Onward
  BY <1>3 DEF UploadAccepted, Transfer!Start
<1>4. ASSUME NEW u \in Users, CancelTransfer(u)
      PROVE  TransfersOK' /\ Onward
  BY <1>4 DEF CancelTransfer, Transfer!Cancel
<1>5. CASE Transfers \/ (\E u \in Users : UploadAccepted(u) \/ CancelTransfer(u))
  BY <1>2, <1>3, <1>4, <1>5
<1>6. \/ Transfers \/ (\E u \in Users : UploadAccepted(u) \/ CancelTransfer(u))
      \/ status' = status
  BY DEF Next, ClearFinishedJobs, BeginShutdown, UnmountDone, RegisterAlgorithm,
         UnregisterAlgorithm, User, Distribute, UploadRejected, StoreJob, StartWatcher,
         CancelJob, CancelJobReturns, Watch, WatchLook, WatchLookup, WatchAlign, WatchMissing,
         WatchExpires, vars
<1>7. QED BY <1>1, <1>5, <1>6

-----------------------------------------------------------------------------
(* Types.                                                                    *)

LEMMA FlagsStep == FlagsOK /\ [Next]_vars => FlagsOK'
<1> SUFFICES ASSUME FlagsOK, [Next]_vars PROVE FlagsOK'
  OBVIOUS
<1>1. CASE UNCHANGED <<closing, unmounted, algs>>
  BY <1>1 DEF FlagsOK
<1>2. CASE BeginShutdown \/ UnmountDone
  BY <1>2 DEF FlagsOK, BeginShutdown, UnmountDone, ability
<1>3. ASSUME NEW a \in Algorithms, RegisterAlgorithm(a) \/ UnregisterAlgorithm(a)
      PROVE  FlagsOK'
  BY <1>3 DEF FlagsOK, RegisterAlgorithm, UnregisterAlgorithm
<1>4. \/ UNCHANGED <<closing, unmounted, algs>> \/ BeginShutdown \/ UnmountDone
      \/ \E a \in Algorithms : RegisterAlgorithm(a) \/ UnregisterAlgorithm(a)
  BY DEF Next, Transfers, ClearFinishedJobs, User, Distribute, UploadAccepted, UploadRejected,
         StoreJob, StartWatcher, CancelJob, CancelTransfer, CancelJobReturns, Watch, WatchLook,
         WatchLookup, WatchAlign, WatchMissing, WatchExpires, vars, ability
<1>5. QED BY <1>1, <1>2, <1>3, <1>4

(* The transfers of the stored jobs and the one about to be stored differ, so *)
(* the number of jobs is bounded by theirs.                                  *)
LEMMA RoomForJob ==
  ASSUME JobsOK, Owned, NEW u \in Users, pc[u] = "store"
  PROVE  seq + 1 \in Jobs
<1>1. /\ seq \in 0 .. MaxTransfers /\ MaxTransfers \in Nat /\ mine[u] \in Jobs
      /\ \A j \in 1 .. seq : tx[j] \in Jobs /\ tx[j] # mine[u]
      /\ \A i, j \in 1 .. seq : tx[i] = tx[j] => i = j
  BY TransfersAssumption DEF JobsOK, Owned, Jobs, TransfersAssumption
<1> DEFINE f == [i \in 1 .. seq + 1 |-> IF i <= seq THEN tx[i] ELSE mine[u]]
<1>2. f \in [1 .. seq + 1 -> Jobs]
  BY <1>1
<1>3. \A i, j \in 1 .. seq + 1 : f[i] = f[j] => i = j
  BY <1>1
<1>4. /\ IsFiniteSet(Jobs) /\ Cardinality(Jobs) = MaxTransfers
      /\ IsFiniteSet(1 .. seq + 1) /\ Cardinality(1 .. seq + 1) = seq + 1
  <2>1. ASSUME NEW n \in Nat
        PROVE  IsFiniteSet(1 .. n) /\ Cardinality(1 .. n) = n
    <3>1. /\ IsFiniteSet(1 .. n)
          /\ Cardinality(1 .. n) = IF 1 > n THEN 0 ELSE n - 1 + 1
      BY FS_Interval
    <3>2. QED BY <3>1
  <2>2. seq + 1 \in Nat
    BY <1>1
  <2>3. QED BY <1>1, <2>1, <2>2 DEF Jobs
<1>5. ~(MaxTransfers < seq + 1)
  <2> HIDE DEF f
  <2>1. SUFFICES ASSUME MaxTransfers < seq + 1 PROVE FALSE
    OBVIOUS
  <2>2. \E x, y \in 1 .. seq + 1 : x # y /\ f[x] = f[y]
    BY <1>2, <1>4, <2>1, FS_PigeonHole
  <2>3. QED BY <1>3, <2>2
<1>6. QED BY <1>1, <1>5 DEF Jobs

LEMMA JobsStay ==
  ASSUME JobsOK, seq' = seq, tx' = tx, job' \in [Jobs -> JobStatuses],
         \A j \in Jobs : job'[j] = "none" <=> job[j] = "none"
  PROVE  JobsOK'
BY DEF JobsOK

LEMMA JobsStep ==
  ASSUME JobsOK, WatchersOK, CallsOK, Owned, Watchful, Settled, [Next]_vars
  PROVE  JobsOK'
<1> USE DEF JobStatuses, Terminal
<1>1. /\ job \in [Jobs -> JobStatuses] /\ tx \in [Jobs -> 0 .. MaxTransfers]
      /\ seq \in 0 .. MaxTransfers /\ MaxTransfers \in Nat
      /\ \A j \in Jobs : job[j] = "none" <=> j > seq
      /\ \A j \in Jobs : tx[j] = 0 <=> j > seq
  BY TransfersAssumption DEF JobsOK, TransfersAssumption
<1>2. CASE UNCHANGED <<seq, tx, job>>
  BY <1>2 DEF JobsOK
<1>3. ASSUME NEW u \in Users, StoreJob(u)
      PROVE  JobsOK'
  <2>1. seq + 1 \in Jobs /\ mine[u] \in Jobs
    BY <1>3, RoomForJob DEF StoreJob, Owned
  <2>2. /\ seq' = seq + 1 /\ job' = [job EXCEPT ![seq + 1] = "running"]
        /\ tx' = [tx EXCEPT ![seq + 1] = mine[u]]
    BY <1>3 DEF StoreJob
  <2>3. /\ job' \in [Jobs -> JobStatuses] /\ tx' \in [Jobs -> 0 .. MaxTransfers]
        /\ job'[seq + 1] = "running" /\ tx'[seq + 1] # 0
        /\ \A j \in Jobs \ {seq + 1} : job'[j] = job[j] /\ tx'[j] = tx[j]
    BY <1>1, <2>1, <2>2 DEF Jobs
  <2>4. \A j \in Jobs : (job'[j] = "none" <=> j > seq + 1) /\ (tx'[j] = 0 <=> j > seq + 1)
    <3>1. TAKE j \in Jobs
    <3>2. CASE j = seq + 1
      BY <1>1, <2>3, <3>2
    <3>3. CASE j # seq + 1
      <4>1. j > seq <=> j > seq + 1
        BY <1>1, <3>3 DEF Jobs
      <4>2. QED BY <1>1, <2>3, <3>3, <4>1
    <3>4. QED BY <3>2, <3>3
  <2>5. seq + 1 \in 0 .. MaxTransfers
    BY <1>1, <2>1 DEF Jobs
  <2>6. QED BY <2>2, <2>3, <2>4, <2>5 DEF JobsOK
<1>4. ASSUME NEW u \in Users, CancelJobReturns(u)
      PROVE  JobsOK'
  <2>1. /\ job' \in [Jobs -> JobStatuses] /\ seq' = seq /\ tx' = tx
        /\ \A j \in Jobs : job'[j] = "none" <=> job[j] = "none"
    BY <1>1, <1>4 DEF CancelJobReturns, CanceledStatus
  <2>2. QED BY <2>1, JobsStay
<1>5. CASE ClearFinishedJobs
  <2>1. /\ job' \in [Jobs -> JobStatuses] /\ seq' = seq /\ tx' = tx
        /\ \A j \in Jobs : job'[j] = "none" <=> job[j] = "none"
    BY <1>1, <1>5 DEF ClearFinishedJobs
  <2>2. QED BY <2>1, JobsStay
<1>6. ASSUME NEW j \in Jobs, WatchAlign(j) \/ WatchMissing(j)
      PROVE  JobsOK'
  <2>1. job[j] # "none"
    BY <1>1, <1>6 DEF WatchAlign, WatchMissing, Watchful
  <2>2. watcher[j] = "align" => AlignedStatus(j) \in Terminal
    BY DEF Settled, SettledAt, AlignedStatus
  <2>3. /\ job' \in [Jobs -> JobStatuses] /\ seq' = seq /\ tx' = tx
        /\ \A i \in Jobs : job'[i] = "none" <=> job[i] = "none"
    BY <1>1, <1>6, <2>1, <2>2 DEF WatchAlign, WatchMissing
  <2>4. QED BY <2>3, JobsStay
<1>7. \/ UNCHANGED <<seq, tx, job>> \/ ClearFinishedJobs
      \/ \E u \in Users : StoreJob(u) \/ CancelJobReturns(u)
      \/ \E j \in Jobs : WatchAlign(j) \/ WatchMissing(j)
  BY DEF Next, Transfers, BeginShutdown, UnmountDone, RegisterAlgorithm,
         UnregisterAlgorithm, User, Distribute, UploadAccepted, UploadRejected, StartWatcher,
         CancelJob, CancelTransfer, Watch, WatchLook, WatchLookup, WatchExpires, vars, ability
<1>8. QED BY <1>2, <1>3, <1>4, <1>5, <1>6, <1>7

LEMMA WatchersStep ==
  ASSUME TransfersOK, JobsOK, WatchersOK, CallsOK, Watchful, [Next]_vars
  PROVE  WatchersOK'
<1> USE DEF WatchersOK, Live, Transfer!Statuses, Transfer!Finished
<1>1. CASE UNCHANGED <<watcher, seen>>
  BY <1>1
<1>2. ASSUME NEW u \in Users, StartWatcher(u)
      PROVE  WatchersOK'
  BY <1>2 DEF StartWatcher
<1>3. ASSUME NEW j \in Jobs, WatchLook(j) \/ WatchAlign(j) \/ WatchMissing(j) \/ WatchExpires(j)
      PROVE  WatchersOK'
  BY <1>3 DEF WatchLook, WatchAlign, WatchMissing, WatchExpires, Leave
<1>4. ASSUME NEW j \in Jobs, WatchLookup(j)
      PROVE  WatchersOK'
  <2>1. tx[j] \in Transfer!Transfers
    <3>1. j \in 1 .. seq
      BY <1>4 DEF WatchLookup, Watchful
    <3>2. tx[j] \in 0 .. MaxTransfers /\ tx[j] # 0
      BY <3>1 DEF JobsOK
    <3>3. QED BY <3>2, TransfersAssumption DEF Transfer!Transfers, TransfersAssumption
  <2>2. status[tx[j]] \in Transfer!Statuses
    BY <2>1 DEF TransfersOK
  <2>3. QED BY <1>4, <2>2 DEF WatchLookup
<1>5. \/ UNCHANGED <<watcher, seen>> \/ \E u \in Users : StartWatcher(u)
      \/ \E j \in Jobs : Watch(j) \/ WatchExpires(j)
  BY DEF Next, Transfers, ClearFinishedJobs, BeginShutdown, UnmountDone, RegisterAlgorithm,
         UnregisterAlgorithm, User, Distribute, UploadAccepted, UploadRejected, StoreJob,
         CancelJob, CancelTransfer, CancelJobReturns, vars, watchers
<1>6. QED BY <1>1, <1>2, <1>3, <1>4, <1>5 DEF Watch

(* The calls: where each goes on its next step.                              *)
LEMMA CallsStep ==
  ASSUME JobsOK, CallsOK, Owned, [Next]_vars
  PROVE  CallsOK'
<1> USE DEF CallsOK, Goto
<1>1. CASE UNCHANGED <<pc, mine>>
  BY <1>1
<1>2. ASSUME NEW u \in Users, StoreJob(u)
      PROVE  CallsOK'
  <2>1. seq + 1 \in 0 .. MaxTransfers
    <3>1. seq + 1 \in Jobs
      BY <1>2, RoomForJob DEF StoreJob
    <3>2. QED BY <3>1, TransfersAssumption DEF Jobs, TransfersAssumption
  <2>2. pc' = [pc EXCEPT ![u] = "watch"] /\ mine' = [mine EXCEPT ![u] = seq + 1]
    BY <1>2 DEF StoreJob
  <2>3. QED BY <2>1, <2>2
<1>3. ASSUME NEW u \in Users,
             (\E a \in Algorithms : Distribute(u, a)) \/ UploadRejected(u) \/ StartWatcher(u)
               \/ CancelTransfer(u) \/ CancelJobReturns(u)
      PROVE  CallsOK'
  <2>1. 0 \in 0 .. MaxTransfers
    BY TransfersAssumption DEF TransfersAssumption
  <2>2. QED
    BY <1>3, <2>1
       DEF Distribute, UploadRejected, EndWithoutTransfer, StartWatcher, CancelTransfer,
           CancelJobReturns
<1>4. ASSUME NEW u \in Users, UploadAccepted(u) \/ \E j \in Jobs : CancelJob(u, j)
      PROVE  CallsOK'
  <2>1. Jobs \subseteq 0 .. MaxTransfers /\ Transfer!Transfers = Jobs
    BY TransfersAssumption DEF Jobs, Transfer!Transfers, TransfersAssumption
  <2>2. QED BY <1>4, <2>1 DEF UploadAccepted, CancelJob
<1>5. UNCHANGED <<pc, mine>> \/ \E u \in Users : User(u)
  BY DEF Next, Transfers, ClearFinishedJobs, BeginShutdown, UnmountDone, RegisterAlgorithm,
         UnregisterAlgorithm, Watch, WatchLook, WatchLookup, WatchAlign, WatchMissing,
         WatchExpires, vars, users
<1>6. QED BY <1>1, <1>2, <1>3, <1>4, <1>5 DEF User

-----------------------------------------------------------------------------
(* Who owns a transfer.                                                      *)

LEMMA OwnedStays ==
  ASSUME JobsOK, Owned, Onward, seq' = seq, tx' = tx,
         \A u \in Users : pc'[u] = "store" => pc[u] = "store" /\ mine'[u] = mine[u]
  PROVE  Owned'
<1>1. \A j \in 1 .. seq : tx[j] \in Jobs
  BY TransfersAssumption DEF JobsOK, Jobs, TransfersAssumption
<1>2. \A j \in 1 .. seq : status'[tx[j]] # "none"
  BY <1>1 DEF Owned, Onward, Follows
<1>3. \A u \in Users : pc'[u] = "store" =>
        mine'[u] \in Jobs /\ status'[mine'[u]] # "none" /\ \A j \in 1 .. seq : tx[j] # mine'[u]
  BY DEF Owned, Onward, Follows
<1>4. QED BY <1>2, <1>3 DEF Owned

LEMMA OwnedStep ==
  ASSUME TransfersOK, JobsOK, CallsOK, Owned, [Next]_vars
  PROVE  Owned'
<1> USE DEF Goto
<1>1. /\ Onward /\ \A j \in 1 .. seq : tx[j] \in Jobs
      /\ pc \in [Users -> {"idle", "upload", "store", "watch", "cancelTransfer", "cancelJob"}]
      /\ mine \in [Users -> 0 .. MaxTransfers]
  BY StatusStep, TransfersAssumption DEF JobsOK, CallsOK, Jobs, TransfersAssumption
<1>2. ASSUME NEW u \in Users, UploadAccepted(u)
      PROVE  Owned'
  <2>1. PICK t \in Jobs : Transfer!Start(t) /\ Goto(u, "store", t)
    BY <1>2 DEF UploadAccepted, Transfer!Transfers, Jobs
  <2>2. /\ seq' = seq /\ tx' = tx /\ status[t] = "none" /\ status'[t] # "none"
        /\ pc'[u] = "store" /\ mine'[u] = t
        /\ \A v \in Users \ {u} : pc'[v] = pc[v] /\ mine'[v] = mine[v]
    BY <1>1, <1>2, <2>1
       DEF UploadAccepted, ability, Transfer!Start, TransfersOK, Transfer!Transfers, Jobs
  <2>3. \A j \in 1 .. seq : tx[j] # t /\ status'[tx[j]] # "none"
    BY <1>1, <2>2 DEF Owned, Onward, Follows
  <2>4. \A v \in Users \ {u} : pc[v] = "store" => mine[v] # t /\ status'[mine[v]] # "none"
    BY <1>1, <2>2 DEF Owned, Onward, Follows
  <2>5. \A v \in Users : pc'[v] = "store" =>
          mine'[v] \in Jobs /\ status'[mine'[v]] # "none" /\ \A j \in 1 .. seq : tx[j] # mine'[v]
    BY <2>1, <2>2, <2>3, <2>4 DEF Owned
  <2>6. \A v, w \in Users : pc'[v] = "store" /\ pc'[w] = "store" /\ mine'[v] = mine'[w] => v = w
    BY <2>2, <2>4 DEF Owned
  <2>7. QED BY <2>2, <2>3, <2>5, <2>6 DEF Owned
<1>3. ASSUME NEW u \in Users, StoreJob(u)
      PROVE  Owned'
  <2>1. /\ seq + 1 \in Jobs /\ seq \in Nat /\ mine[u] \in Jobs /\ status[mine[u]] # "none"
        /\ \A j \in 1 .. seq : tx[j] # mine[u]
    BY <1>3, RoomForJob DEF StoreJob, Owned, JobsOK
  <2>2. /\ seq' = seq + 1 /\ tx' = [tx EXCEPT ![seq + 1] = mine[u]] /\ status' = status
        /\ pc' = [pc EXCEPT ![u] = "watch"] /\ mine' = [mine EXCEPT ![u] = seq + 1]
    BY <1>3 DEF StoreJob
  <2>3. /\ tx'[seq + 1] = mine[u] /\ \A j \in 1 .. seq : tx'[j] = tx[j]
        /\ pc'[u] = "watch" /\ \A v \in Users \ {u} : pc'[v] = pc[v] /\ mine'[v] = mine[v]
        /\ 1 .. seq' = 1 .. seq \cup {seq + 1}
    BY <1>1, <2>1, <2>2 DEF JobsOK, Jobs
  <2>4. \A j \in 1 .. seq' : status'[tx'[j]] # "none"
    BY <2>1, <2>2, <2>3 DEF Owned
  <2>5. \A i, j \in 1 .. seq' : tx'[i] = tx'[j] => i = j
    BY <2>1, <2>3 DEF Owned
  <2>6. \A v \in Users : pc'[v] = "store" =>
          mine'[v] \in Jobs /\ status'[mine'[v]] # "none" /\ \A j \in 1 .. seq' : tx'[j] # mine'[v]
    <3>1. SUFFICES ASSUME NEW v \in Users, pc'[v] = "store"
                   PROVE  /\ mine'[v] \in Jobs /\ status'[mine'[v]] # "none"
                          /\ \A j \in 1 .. seq' : tx'[j] # mine'[v]
      OBVIOUS
    <3>2. v # u /\ pc[v] = "store" /\ mine'[v] = mine[v] /\ mine[v] # mine[u]
      BY <1>3, <2>3, <3>1 DEF Owned, StoreJob
    <3>3. QED BY <2>2, <2>3, <3>2 DEF Owned
  <2>7. \A v, w \in Users : pc'[v] = "store" /\ pc'[w] = "store" /\ mine'[v] = mine'[w] => v = w
    BY <2>3 DEF Owned
  <2>8. QED BY <2>4, <2>5, <2>6, <2>7 DEF Owned
<1>4. ASSUME NEW u \in Users,
             (\E a \in Algorithms : Distribute(u, a)) \/ UploadRejected(u) \/ StartWatcher(u)
               \/ (\E j \in Jobs : CancelJob(u, j)) \/ CancelTransfer(u) \/ CancelJobReturns(u)
      PROVE  Owned'
  <2>1. /\ seq' = seq /\ tx' = tx
        /\ \A v \in Users : pc'[v] = "store" => pc[v] = "store" /\ mine'[v] = mine[v]
    BY <1>1, <1>4
       DEF Distribute, UploadRejected, EndWithoutTransfer, StartWatcher, CancelJob,
           CancelTransfer, CancelJobReturns, ability
  <2>2. QED BY <1>1, <2>1, OwnedStays
<1>5. CASE UNCHANGED <<seq, tx, pc, mine>>
  BY <1>1, <1>5, OwnedStays
<1>6. UNCHANGED <<seq, tx, pc, mine>> \/ \E u \in Users : User(u)
  BY DEF Next, Transfers, ClearFinishedJobs, BeginShutdown, UnmountDone, RegisterAlgorithm,
         UnregisterAlgorithm, Watch, WatchLook, WatchLookup, WatchAlign, WatchMissing,
         WatchExpires, vars, users, ability
<1>7. QED BY <1>2, <1>3, <1>4, <1>5, <1>6 DEF User

-----------------------------------------------------------------------------
(* Who watches a job.                                                        *)

LEMMA WatchfulStays ==
  ASSUME Watchful, seq' = seq,
         \A j \in Jobs : watcher[j] = "none" <=> watcher'[j] = "none",
         \A u \in Users : pc'[u] \in OnJob => mine'[u] \in 1 .. seq,
         \A u \in Users : pc'[u] = "watch" => pc[u] = "watch" /\ mine'[u] = mine[u],
         seq \in 0 .. MaxTransfers
  PROVE  Watchful'
<1>1. 1 .. seq \subseteq Jobs
  BY TransfersAssumption DEF Jobs, TransfersAssumption
<1>2. \A u \in Users : pc'[u] = "watch" => mine[u] \in Jobs /\ watcher'[mine'[u]] = "none"
  BY <1>1 DEF Watchful, OnJob
<1>3. \A u, v \in Users : pc'[u] = "watch" /\ pc'[v] = "watch" /\ mine'[u] = mine'[v] => u = v
  BY DEF Watchful
<1>4. \A j \in Jobs : watcher'[j] # "none" => j \in 1 .. seq
  BY DEF Watchful
<1>5. QED BY <1>2, <1>3, <1>4 DEF Watchful

LEMMA WatchfulStep ==
  ASSUME JobsOK, WatchersOK, CallsOK, Owned, Watchful, [Next]_vars
  PROVE  Watchful'
<1> USE DEF Goto, OnJob
<1>1. /\ pc \in [Users -> {"idle", "upload", "store", "watch", "cancelTransfer", "cancelJob"}]
      /\ mine \in [Users -> 0 .. MaxTransfers] /\ seq \in 0 .. MaxTransfers
      /\ watcher \in [Jobs -> Live \cup {"none", "left", "expired"}]
      /\ 1 .. seq \subseteq Jobs
  BY TransfersAssumption DEF JobsOK, WatchersOK, CallsOK, Jobs, TransfersAssumption
<1>2. ASSUME NEW u \in Users, StoreJob(u)
      PROVE  Watchful'
  <2>1. seq + 1 \in Jobs /\ seq \in Nat
    BY <1>1, <1>2, RoomForJob DEF StoreJob
  <2>2. /\ seq' = seq + 1 /\ watcher' = watcher /\ pc'[u] = "watch" /\ mine'[u] = seq + 1
        /\ \A v \in Users \ {u} : pc'[v] = pc[v] /\ mine'[v] = mine[v]
    BY <1>1, <1>2 DEF StoreJob, watchers
  <2>3. 1 .. seq' = 1 .. seq \cup {seq + 1} /\ seq + 1 \notin 1 .. seq
    BY <2>1, <2>2
  <2>4. watcher[seq + 1] = "none"
    BY <2>1, <2>3 DEF Watchful
  <2>5. \A v \in Users \ {u} : pc'[v] \in OnJob => mine'[v] \in 1 .. seq
    BY <2>2 DEF Watchful
  <2>6. \A v \in Users : pc'[v] \in OnJob => mine'[v] \in 1 .. seq'
    BY <2>2, <2>3, <2>5
  <2>7. \A v \in Users : pc'[v] = "watch" => watcher'[mine'[v]] = "none"
    BY <2>2, <2>4 DEF Watchful
  <2>8. \A v, w \in Users : pc'[v] = "watch" /\ pc'[w] = "watch" /\ mine'[v] = mine'[w] => v = w
    BY <2>2, <2>3, <2>5 DEF Watchful
  <2>9. \A j \in Jobs : watcher'[j] # "none" => j \in 1 .. seq'
    BY <2>2, <2>3 DEF Watchful
  <2>10. QED BY <2>6, <2>7, <2>8, <2>9 DEF Watchful
<1>3. ASSUME NEW u \in Users, StartWatcher(u)
      PROVE  Watchful'
  <2>1. pc[u] = "watch" /\ mine[u] \in 1 .. seq /\ mine[u] \in Jobs
    BY <1>1, <1>3 DEF StartWatcher, Watchful
  <2>2. /\ seq' = seq /\ pc'[u] = "idle"
        /\ \A v \in Users \ {u} : pc'[v] = pc[v] /\ mine'[v] = mine[v]
        /\ \A j \in Jobs \ {mine[u]} : watcher'[j] = watcher[j]
    BY <1>1, <1>3 DEF StartWatcher, ability
  <2>3. \A v \in Users : pc'[v] = "watch" =>
          v # u /\ pc[v] = "watch" /\ mine'[v] = mine[v] /\ mine[v] # mine[u] /\ mine[v] \in Jobs
    BY <1>1, <2>1, <2>2 DEF Watchful
  <2>4. \A v \in Users : pc'[v] = "watch" => watcher'[mine'[v]] = "none"
    BY <2>2, <2>3 DEF Watchful
  <2>5. \A v \in Users : pc'[v] \in OnJob => mine'[v] \in 1 .. seq'
    BY <2>2 DEF Watchful
  <2>6. \A v, w \in Users : pc'[v] = "watch" /\ pc'[w] = "watch" /\ mine'[v] = mine'[w] => v = w
    BY <2>3 DEF Watchful
  <2>7. \A j \in Jobs : watcher'[j] # "none" => j \in 1 .. seq'
    BY <2>1, <2>2 DEF Watchful
  <2>8. QED BY <2>4, <2>5, <2>6, <2>7 DEF Watchful
<1>4. ASSUME NEW u \in Users, NEW k \in Jobs, CancelJob(u, k)
      PROVE  Watchful'
  <2>1. k \in 1 .. seq
    <3>1. job[k] # "none"
      BY <1>4 DEF CancelJob
    <3>2. ~(k > seq)
      BY <3>1 DEF JobsOK
    <3>3. QED BY <1>1, <3>2 DEF Jobs
  <2>2. /\ seq' = seq /\ watcher' = watcher /\ pc'[u] = "cancelTransfer" /\ mine'[u] = k
        /\ \A v \in Users \ {u} : pc'[v] = pc[v] /\ mine'[v] = mine[v]
    BY <1>1, <1>4 DEF CancelJob, ability, watchers, Jobs
  <2>3. \A v \in Users : pc'[v] \in OnJob => mine'[v] \in 1 .. seq
    BY <2>1, <2>2 DEF Watchful
  <2>4. \A v \in Users : pc'[v] = "watch" => pc[v] = "watch" /\ mine'[v] = mine[v]
    BY <2>2
  <2>5. QED BY <1>1, <2>2, <2>3, <2>4, WatchfulStays
<1>5. ASSUME NEW u \in Users,
             (\E a \in Algorithms : Distribute(u, a)) \/ UploadAccepted(u) \/ UploadRejected(u)
               \/ CancelTransfer(u) \/ CancelJobReturns(u)
      PROVE  Watchful'
  <2>1. /\ seq' = seq /\ watcher' = watcher
        /\ \A v \in Users : pc'[v] \in OnJob => pc[v] \in OnJob /\ mine'[v] = mine[v]
        /\ \A v \in Users : pc'[v] = "watch" => pc[v] = "watch" /\ mine'[v] = mine[v]
    BY <1>1, <1>5
       DEF Distribute, UploadAccepted, UploadRejected, EndWithoutTransfer, CancelTransfer,
           CancelJobReturns, ability, watchers
  <2>2. \A v \in Users : pc'[v] \in OnJob => mine'[v] \in 1 .. seq
    BY <2>1 DEF Watchful
  <2>3. QED BY <1>1, <2>1, <2>2, WatchfulStays
<1>6. ASSUME UNCHANGED <<seq, pc, mine>>,
             \A j \in Jobs : watcher[j] = "none" <=> watcher'[j] = "none"
      PROVE  Watchful'
  <2>1. \A v \in Users : pc'[v] \in OnJob => mine'[v] \in 1 .. seq
    BY <1>6 DEF Watchful
  <2>2. QED BY <1>1, <1>6, <2>1, WatchfulStays
<1>7. ASSUME NEW k \in Jobs, Watch(k) \/ WatchExpires(k)
      PROVE  Watchful'
  <2>1. /\ UNCHANGED <<seq, pc, mine>>
        /\ \A j \in Jobs : watcher[j] = "none" <=> watcher'[j] = "none"
    BY <1>1, <1>7
       DEF Watch, WatchLook, WatchLookup, WatchAlign, WatchMissing, WatchExpires, Leave, users,
           ability
  <2>2. QED BY <1>6, <2>1
<1>8. CASE UNCHANGED <<seq, pc, mine, watcher>>
  BY <1>6, <1>8
<1>9. \/ UNCHANGED <<seq, pc, mine, watcher>> \/ \E u \in Users : User(u)
      \/ \E k \in Jobs : Watch(k) \/ WatchExpires(k)
  BY DEF Next, Transfers, ClearFinishedJobs, BeginShutdown, UnmountDone, RegisterAlgorithm,
         UnregisterAlgorithm, vars, users, ability, watchers
<1>10. QED BY <1>2, <1>3, <1>4, <1>5, <1>7, <1>8, <1>9 DEF User

-----------------------------------------------------------------------------
(* What the jobs show.                                                       *)

LEMMA JobTransfer ==
  ASSUME JobsOK, Watchful, NEW j \in Jobs, job[j] # "none" \/ watcher[j] # "none"
  PROVE  tx[j] \in Jobs /\ job[j] # "none"
<1>1. ~(j > seq)
  BY TransfersAssumption DEF JobsOK, Watchful, Jobs, TransfersAssumption
<1>2. tx[j] \in 0 .. MaxTransfers /\ tx[j] # 0 /\ job[j] # "none"
  BY <1>1 DEF JobsOK
<1>3. QED BY <1>2, TransfersAssumption DEF Jobs, TransfersAssumption

(* Neither the watcher of j moves nor does anybody settle j.                 *)
LEMMA SettledStays ==
  ASSUME JobsOK, Watchful, Onward, NEW j \in Jobs, SettledAt(j),
         tx'[j] = tx[j], watcher'[j] = watcher[j], seen'[j] = seen[j],
         job'[j] \in {job[j], "canceled", "cleared"}
  PROVE  SettledAt(j)'
<1>1. CASE job[j] = "none" /\ watcher[j] = "none"
  BY <1>1 DEF SettledAt
<1>2. CASE job[j] # "none" \/ watcher[j] # "none"
  <2>1. tx[j] \in Jobs
    BY <1>2, JobTransfer
  <2>2. Follows(status[tx[j]], status'[tx[j]])
    BY <2>1 DEF Onward
  <2>3. \A s : Justifies(s, status[tx[j]]) => Justifies(s, status'[tx[j]])
    BY <2>2 DEF Follows, Justifies
  <2>4. watcher[j] = "missing" => status'[tx[j]] = "cleared"
    BY <2>2 DEF Follows, SettledAt
  <2>5. QED BY <2>3, <2>4 DEF SettledAt
<1>3. QED BY <1>1, <1>2

LEMMA SettledStep ==
  ASSUME TransfersOK, JobsOK, WatchersOK, CallsOK, Owned, Watchful, Settled, [Next]_vars
  PROVE  Settled'
<1> USE DEF Goto
<1>1. /\ Onward /\ job \in [Jobs -> JobStatuses]
      /\ watcher \in [Jobs -> Live \cup {"none", "left", "expired"}]
      /\ seen \in [Jobs -> Transfer!Statuses] /\ tx \in [Jobs -> 0 .. MaxTransfers]
  BY StatusStep DEF JobsOK, WatchersOK
<1>2. ASSUME UNCHANGED <<tx, watcher, seen>>,
             \A j \in Jobs : job'[j] \in {job[j], "canceled", "cleared"}
      PROVE  Settled'
  BY <1>1, <1>2, SettledStays DEF Settled
<1>3. ASSUME NEW u \in Users, StoreJob(u)
      PROVE  Settled'
  <2>1. seq + 1 \in Jobs /\ seq \in Nat
    BY <1>3, RoomForJob DEF StoreJob, JobsOK
  <2>2. /\ job' = [job EXCEPT ![seq + 1] = "running"] /\ tx' = [tx EXCEPT ![seq + 1] = mine[u]]
        /\ UNCHANGED <<watcher, seen>>
    BY <1>3 DEF StoreJob, watchers
  <2> PICK k \in Jobs : k = seq + 1
    BY <2>1
  <2>3. job'[k] = "running" /\ watcher'[k] = "none"
    BY <1>1, <2>1, <2>2 DEF Watchful
  <2>4. SettledAt(k)'
    BY <2>3 DEF SettledAt
  <2>5. ASSUME NEW j \in Jobs, j # k
        PROVE  SettledAt(j)'
    <3>1. job'[j] = job[j] /\ tx'[j] = tx[j] /\ watcher'[j] = watcher[j] /\ seen'[j] = seen[j]
      BY <1>1, <2>2, <2>5
    <3>2. QED BY <1>1, <3>1, SettledStays DEF Settled
  <2>6. QED BY <2>4, <2>5 DEF Settled
<1>4. ASSUME NEW u \in Users, StartWatcher(u)
      PROVE  Settled'
  <2>1. mine[u] \in Jobs /\ watcher[mine[u]] = "none" /\ UNCHANGED <<job, tx, seen, status>>
    <3>1. mine[u] \in 1 .. seq /\ watcher[mine[u]] = "none"
      BY <1>4 DEF StartWatcher, Watchful, OnJob
    <3>2. QED BY <1>4, <3>1, TransfersAssumption
                 DEF StartWatcher, ability, JobsOK, Jobs, TransfersAssumption
  <2> PICK k \in Jobs : k = mine[u]
    BY <2>1
  <2>2. /\ watcher'[k] \in {"none", "look"}
        /\ \A j \in Jobs \ {k} : watcher'[j] = watcher[j]
    BY <1>1, <1>4, <2>1 DEF StartWatcher
  <2>3. SettledAt(k)'
    BY <2>1, <2>2 DEF Settled, SettledAt
  <2>4. ASSUME NEW j \in Jobs, j # k
        PROVE  SettledAt(j)'
    BY <1>1, <2>1, <2>2, <2>4, SettledStays DEF Settled
  <2>5. QED BY <2>3, <2>4 DEF Settled
<1>5. ASSUME NEW k \in Jobs, Watch(k) \/ WatchExpires(k)
      PROVE  Settled'
  <2>1. /\ UNCHANGED <<tx, status>>
        /\ \A j \in Jobs \ {k} :
             watcher'[j] = watcher[j] /\ seen'[j] = seen[j] /\ job'[j] = job[j]
    BY <1>1, <1>5
       DEF Watch, WatchLook, WatchLookup, WatchAlign, WatchMissing, WatchExpires, Leave, ability
  <2>2. ASSUME NEW j \in Jobs, j # k
        PROVE  SettledAt(j)'
    BY <1>1, <2>1, <2>2, SettledStays DEF Settled
  <2>3. SettledAt(k)
    BY DEF Settled
  <2>4. CASE WatchLook(k)
    <3>1. job'[k] = job[k] /\ tx'[k] = tx[k]
      BY <2>4 DEF WatchLook, ability
    <3>2. watcher[k] = "look" /\ watcher'[k] \in {"lookup", "left"}
            /\ (watcher'[k] = "left" => job[k] # "running")
      BY <1>1, <2>4 DEF WatchLook, Leave
    <3>3. SettledAt(k)'
      BY <2>3, <3>1, <3>2 DEF SettledAt
    <3>4. QED BY <2>2, <3>3 DEF Settled
  <2>5. CASE WatchLookup(k)
    <3>1. job'[k] = job[k] /\ watcher[k] = "lookup"
      BY <2>5 DEF WatchLookup, ability
    <3>2. /\ seen'[k] = status[tx[k]]
          /\ watcher'[k] \in {"missing", "align", "look"}
          /\ watcher'[k] = "missing" => status[tx[k]] = "cleared"
          /\ watcher'[k] = "align" => status[tx[k]] \in Terminal
      BY <1>1, <2>5 DEF WatchLookup, IsTerminalFileTransfer
    <3>3. SettledAt(k)'
      BY <2>1, <2>3, <3>1, <3>2 DEF SettledAt, Justifies
    <3>4. QED BY <2>2, <3>3 DEF Settled
  <2>6. CASE WatchAlign(k)
    <3>1. watcher[k] = "align" /\ watcher'[k] = "left"
      BY <1>1, <2>6 DEF WatchAlign, Leave
    <3>2. job'[k] \in {"cleared", "canceled"} \/ job'[k] = seen[k]
      BY <1>1, <2>6 DEF WatchAlign, AlignedStatus
    <3>3. seen[k] \in Terminal /\ Justifies(seen[k], status[tx[k]])
      BY <2>3, <3>1 DEF SettledAt
    <3>4. SettledAt(k)'
      BY <2>1, <3>1, <3>2, <3>3 DEF SettledAt, Justifies, Terminal
    <3>5. QED BY <2>2, <3>4 DEF Settled
  <2>7. CASE WatchMissing(k)
    <3>1. watcher[k] = "missing" /\ watcher'[k] = "left" /\ job'[k] \in {"cleared", "failed"}
      BY <1>1, <2>7 DEF WatchMissing, Leave
    <3>2. SettledAt(k)'
      BY <2>1, <2>3, <3>1 DEF SettledAt, Justifies
    <3>3. QED BY <2>2, <3>2 DEF Settled
  <2>8. CASE WatchExpires(k)
    <3>1. watcher[k] = "look" /\ watcher'[k] = "expired" /\ job'[k] = job[k]
      BY <1>1, <2>8 DEF WatchExpires, ability
    <3>2. SettledAt(k)'
      BY <2>3, <3>1 DEF SettledAt
    <3>3. QED BY <2>2, <3>2 DEF Settled
  <2>9. QED BY <1>5, <2>4, <2>5, <2>6, <2>7, <2>8 DEF Watch
<1>6. ASSUME NEW u \in Users, CancelJobReturns(u)
      PROVE  Settled'
  <2>1. UNCHANGED <<tx, watcher, seen>> /\ \A j \in Jobs : job'[j] \in {job[j], "canceled"}
    BY <1>1, <1>6 DEF CancelJobReturns, CanceledStatus, watchers
  <2>2. QED BY <1>2, <2>1
<1>7. CASE ClearFinishedJobs
  <2>1. UNCHANGED <<tx, watcher, seen>> /\ \A j \in Jobs : job'[j] \in {job[j], "cleared"}
    BY <1>1, <1>7 DEF ClearFinishedJobs, watchers
  <2>2. QED BY <1>2, <2>1
<1>8. CASE UNCHANGED <<tx, watcher, seen, job>>
  BY <1>2, <1>8
<1>9. \/ UNCHANGED <<tx, watcher, seen, job>> \/ ClearFinishedJobs
      \/ \E u \in Users : StoreJob(u) \/ StartWatcher(u) \/ CancelJobReturns(u)
      \/ \E k \in Jobs : Watch(k) \/ WatchExpires(k)
  BY DEF Next, Transfers, BeginShutdown, UnmountDone, RegisterAlgorithm, UnregisterAlgorithm,
         User, Distribute, UploadAccepted, UploadRejected, CancelJob, CancelTransfer, vars,
         ability, watchers
<1>10. QED BY <1>3, <1>4, <1>5, <1>6, <1>7, <1>8, <1>9

LEMMA DrainedStep ==
  ASSUME CallsOK, Watchful, WatchersOK, JobsOK, Drained, [Next]_vars
  PROVE  Drained'
<1>1. watcher \in [Jobs -> Live \cup {"none", "left", "expired"}]
  BY DEF WatchersOK
<1>2. ASSUME UNCHANGED <<closing, unmounted>>,
             \A j \in Jobs : watcher'[j] \in Live => watcher[j] \in Live
      PROVE  Drained'
  BY <1>2 DEF Drained, Watched
<1>3. CASE BeginShutdown \/ UnmountDone
  BY <1>3 DEF Drained, Watched, BeginShutdown, UnmountDone, watchers, ability
<1>4. ASSUME NEW u \in Users, StartWatcher(u)
      PROVE  Drained'
  <2>1. UNCHANGED <<closing, unmounted>> /\ (closing => watcher' = watcher)
    BY <1>4 DEF StartWatcher, MayWatch, ability
  <2>2. QED BY <2>1 DEF Drained, Watched
<1>5. ASSUME NEW k \in Jobs, Watch(k) \/ WatchExpires(k)
      PROVE  Drained'
  <2>1. /\ UNCHANGED <<closing, unmounted>>
        /\ \A j \in Jobs : watcher'[j] \in Live => watcher[j] \in Live
    BY <1>1, <1>5
       DEF Watch, WatchLook, WatchLookup, WatchAlign, WatchMissing, WatchExpires, Leave, ability,
           Live
  <2>2. QED BY <1>2, <2>1
<1>6. CASE UNCHANGED <<closing, unmounted, watcher>>
  BY <1>2, <1>6
<1>7. \/ UNCHANGED <<closing, unmounted, watcher>> \/ BeginShutdown \/ UnmountDone
      \/ \E u \in Users : StartWatcher(u)
      \/ \E k \in Jobs : Watch(k) \/ WatchExpires(k)
  BY DEF Next, Transfers, ClearFinishedJobs, RegisterAlgorithm, UnregisterAlgorithm, User,
         Distribute, UploadAccepted, UploadRejected, StoreJob, CancelJob, CancelTransfer,
         CancelJobReturns, vars, ability, watchers
<1>8. QED BY <1>3, <1>4, <1>5, <1>6, <1>7

-----------------------------------------------------------------------------
LEMMA InductiveInit == Init => Inductive
<1> SUFFICES ASSUME Init PROVE Inductive
  OBVIOUS
<1> USE TransfersAssumption DEF Init, TransfersAssumption, Jobs
<1>1. FlagsOK /\ TransfersOK
  BY DEF FlagsOK, TransfersOK, Transfer!Init, Transfer!Transfers, Transfer!Statuses
<1>2. JobsOK
  BY DEF JobsOK, JobStatuses
<1>3. WatchersOK /\ CallsOK
  BY DEF WatchersOK, CallsOK, Transfer!Statuses
<1>4. Owned /\ Watchful
  BY DEF Owned, Watchful, OnJob
<1>5. Settled /\ Drained
  BY DEF Settled, SettledAt, Drained
<1>6. QED BY <1>1, <1>2, <1>3, <1>4, <1>5 DEF Inductive, TypeOK

LEMMA InductiveStep == Inductive /\ [Next]_vars => Inductive'
BY FlagsStep, StatusStep, JobsStep, WatchersStep, CallsStep, OwnedStep, WatchfulStep, SettledStep,
   DrainedStep DEF Inductive, TypeOK

(* The strengthening of JobsHonest and of WatchersEnd that the commands, the   *)
(* watchers and the transfers preserve.                                      *)
THEOREM InductiveHolds == Spec => []Inductive
BY InductiveInit, InductiveStep, PTL DEF Spec

(* watchJob and cancelJob: a job is completed or failed only when its transfer *)
(* was, whatever the other commands and the transfers do between the looks,   *)
(* and no two jobs share a transfer.                                         *)
THEOREM JobsHonestHolds == Spec => []JobsHonest
<1>1. ASSUME Inductive PROVE JobsHonest
  <2>1. \A j \in Jobs : job[j] = "completed" => status[tx[j]] \in {"completed", "cleared"}
    BY <1>1 DEF Inductive, Settled, SettledAt, Justifies
  <2>2. \A j \in Jobs : job[j] = "failed" => status[tx[j]] \in {"failed", "cleared"}
    BY <1>1 DEF Inductive, Settled, SettledAt, Justifies
  <2>3. QED BY <1>1, <2>1, <2>2 DEF JobsHonest, Inductive, Owned
<1>2. QED BY <1>1, InductiveHolds, PTL

(* watchJob and Unmount: a watcher that is not out of time leaves a settled    *)
(* job, and none runs once Unmount has returned.                             *)
THEOREM WatchersEndHolds == Spec => []WatchersEnd
<1>1. Inductive => WatchersEnd
  BY DEF Inductive, Settled, SettledAt, Drained, WatchersEnd, WatcherSettles, WatchersDrained
<1>2. QED BY <1>1, InductiveHolds, PTL

(* cancelJob and watchJob: an outcome that a job shows is never replaced by     *)
(* another one, because only the job's one watcher sets it, as it leaves.     *)
THEOREM OutcomeFinalHolds == Spec => OutcomeFinal
<1> DEFINE Final == \A j \in Jobs : job[j] \in {"completed", "failed"} =>
                      job'[j] \in {job[j], "cleared"}
<1>1. ASSUME Inductive, [Next]_vars PROVE [Final]_vars
  <2>1. SUFFICES ASSUME NEW j \in Jobs, job[j] \in {"completed", "failed"}
                 PROVE  job'[j] \in {job[j], "cleared"}
    OBVIOUS
  <2>2. /\ job \in [Jobs -> JobStatuses] /\ seq \in Nat /\ watcher[j] = "left"
        /\ job[j] # "none" /\ job[j] # "running"
    BY <1>1, <2>1 DEF Inductive, TypeOK, JobsOK, Settled, SettledAt
  <2>3. CASE job' = job
    BY <2>3
  <2>4. ASSUME NEW u \in Users, StoreJob(u)
        PROVE  job'[j] = job[j]
    <3>1. j # seq + 1
      BY <1>1, <2>2 DEF Inductive, TypeOK, JobsOK, Jobs
    <3>2. job' = [job EXCEPT ![seq + 1] = "running"]
      BY <2>4 DEF StoreJob
    <3>3. QED BY <2>2, <3>1, <3>2
  <2>5. ASSUME NEW u \in Users, CancelJobReturns(u)
        PROVE  job'[j] = job[j]
    BY <2>2, <2>5 DEF CancelJobReturns, CanceledStatus
  <2>6. CASE ClearFinishedJobs
    BY <2>2, <2>6 DEF ClearFinishedJobs
  <2>7. ASSUME NEW k \in Jobs, WatchAlign(k) \/ WatchMissing(k)
        PROVE  job'[j] = job[j]
    <3>1. k # j
      BY <2>2, <2>7 DEF WatchAlign, WatchMissing
    <3>2. QED BY <2>2, <2>7, <3>1 DEF WatchAlign, WatchMissing
  <2>8. \/ job' = job \/ ClearFinishedJobs
        \/ \E u \in Users : StoreJob(u) \/ CancelJobReturns(u)
        \/ \E k \in Jobs : WatchAlign(k) \/ WatchMissing(k)
    BY <1>1 DEF Next, Transfers, BeginShutdown, UnmountDone, RegisterAlgorithm,
         UnregisterAlgorithm, User, Distribute, UploadAccepted, UploadRejected, StartWatcher,
         CancelJob, CancelTransfer, Watch, WatchLook, WatchLookup, WatchExpires, vars, ability
  <2>9. QED BY <2>3, <2>4, <2>5, <2>6, <2>7, <2>8
<1>2. QED BY <1>1, InductiveHolds, PTL DEF Spec, OutcomeFinal
=============================================================================
