--------------------------- MODULE TransferContract ---------------------------
(***************************************************************************)
(* What FileTransferAbility promises the abilities that use it: the life    *)
(* of the status each transfer shows. FileTransfer is shown to implement    *)
(* it, AlgorithmDistribution is built on it.                                *)
(***************************************************************************)
EXTENDS Integers

CONSTANT MaxTransfers  \* bound on the number of transfers
VARIABLE status        \* of transfer tx-<n>; "none" before it, "cleared" after it

Transfers == 1 .. MaxTransfers
Finished  == {"completed", "failed", "canceled"}
Statuses  == Finished \cup {"none", "running", "cleared"}

Init == status = [t \in Transfers |-> "none"]

Start(t) ==
  /\ status[t] = "none" /\ \A earlier \in 1 .. t - 1 : status[earlier] # "none"
  /\ status' = [status EXCEPT ![t] = "running"]

Finish(t) ==
  /\ status[t] = "running"
  /\ \E outcome \in {"completed", "failed"} : status' = [status EXCEPT ![t] = outcome]

Cancel(t) == status[t] = "running" /\ status' = [status EXCEPT ![t] = "canceled"]

\* The transport succeeded before the cancellation reached it.
CompleteAnyway(t) == status[t] = "canceled" /\ status' = [status EXCEPT ![t] = "completed"]

CancelAll ==
  status' = [t \in Transfers |-> IF status[t] = "running" THEN "canceled" ELSE status[t]]

ClearFinished ==
  status' = [t \in Transfers |-> IF status[t] \in Finished THEN "cleared" ELSE status[t]]

\* What may happen to the transfers without the ability that uses them.
Environment ==
  \/ \E t \in Transfers : Finish(t) \/ Cancel(t) \/ CompleteAnyway(t)
  \/ CancelAll \/ ClearFinished

Next == Environment \/ \E t \in Transfers : Start(t)
Spec == Init /\ [][Next]_status
=============================================================================
