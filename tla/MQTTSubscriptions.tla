-------------------------- MODULE MQTTSubscriptions --------------------------
(***************************************************************************)
(* The subscription table of MQTTAbility (ability/mqtt_ability.go) against *)
(* the broker it mirrors: subscribe, unsubscribe, connect and disconnect   *)
(* commands from several goroutines, and Unmount. The commands change the  *)
(* table under m.mu and talk to the broker outside it. The messages of a   *)
(* queue are the subject of MQTTQueue.                                     *)
(*                                                                         *)
(* A call that fails its guard changes nothing and is not an action.       *)
(***************************************************************************)
EXTENDS Integers, FiniteSets

CONSTANTS
  Clients,    \* goroutines that call Command
  Topics,
  MaxQueues   \* bound on the number of queues created

TableAssumption == MaxQueues \in Nat

VARIABLES
  \* fields of MQTTAbility, guarded by m.mu
  closing, queues,  \* queues[t] is the queue of topic t, 0 when there is none
  created,          \* number of queues made
  open,             \* queues whose close() has not been called
  \* the calls in progress
  pc, topic,        \* where each client is and the topic it works on
  todo,             \* connect: the topics left to restore
  held,             \* unsubscribe, disconnect: the queues left to close
  unmount,          \* where Unmount is
  taken,            \* the queues Unmount took from the table
  \* the broker
  connected, wire,  \* the session and its subscriptions
  ghosts,           \* history: topics that a call which failed left subscribed
  trouble           \* history: commands overlapped, a restored topic was refused

table == <<closing, queues, created, open>>
calls == <<pc, topic, todo, held>>
teardown == <<unmount, taken>>
broker == <<connected, wire, ghosts>>
vars == <<table, calls, teardown, broker, trouble>>

Queues == 1 .. MaxQueues
ClientPhases == {"idle", "wireSubscribe", "undo", "recheck", "withdraw", "wireUnsubscribe",
                 "connect", "snapshot", "restore", "wireRestore", "swap", "disconnect",
                 "closeQueues"}
NoTopic == "none"
NoQueues == [t \in Topics |-> 0]
InTable == {queues[t] : t \in Topics} \ {0}

Init ==
  /\ closing = FALSE /\ queues = NoQueues /\ created = 0 /\ open = {}
  /\ pc = [c \in Clients |-> "idle"] /\ topic = [c \in Clients |-> NoTopic]
  /\ todo = [c \in Clients |-> {}] /\ held = [c \in Clients |-> {}]
  /\ unmount = "before" /\ taken = {}
  /\ connected = FALSE /\ wire = {} /\ ghosts = {} /\ trouble = {}

Goto(c, phase) == pc' = [pc EXCEPT ![c] = phase]
Finish(c) ==
  /\ Goto(c, "idle")
  /\ topic' = [topic EXCEPT ![c] = NoTopic]
  /\ todo' = [todo EXCEPT ![c] = {}]
  /\ held' = [held EXCEPT ![c] = {}]

-----------------------------------------------------------------------------
(* The broker, as the ability uses it: a clean session per connection. A call *)
(* that returns an error may have been done all the same (its acknowledgement *)
(* came too late) and may have done nothing (there is no session, the broker  *)
(* refuses). The ability ignores the errors of Unsubscribe and, but for       *)
(* Unmount's, of Disconnect.                                                  *)
NewSession(up) == connected' = up /\ wire' = {} /\ ghosts' = {}

WireSubscribed(t) ==
  /\ connected
  /\ wire' = wire \cup {t} /\ UNCHANGED <<connected, ghosts>>
WireRefused == UNCHANGED broker
WireUnanswered(t) ==
  /\ connected
  /\ wire' = wire \cup {t} /\ ghosts' = ghosts \cup {t} /\ UNCHANGED connected

WireUnsubscribed(t) == wire' = wire \ {t} /\ ghosts' = ghosts \ {t} /\ UNCHANGED connected
WireKept(S)         == ghosts' = ghosts \cup S /\ UNCHANGED <<connected, wire>>

ConnectionLost ==
  /\ connected
  /\ NewSession(FALSE)
  /\ UNCHANGED <<table, calls, teardown>>

-----------------------------------------------------------------------------
(* subscribe: place the queue under the lock, subscribe outside it, look     *)
(* again under the lock. After an error the broker is told nothing.          *)

\* Variant: closing is looked at before the lock is taken, and not again.
MayPlaceUnchecked(t) == queues[t] = 0

MayPlace(t) == ~closing /\ queues[t] = 0

Subscribe(c, t) ==
  /\ pc[c] = "idle" /\ MayPlace(t)
  /\ created < MaxQueues
  /\ created' = created + 1
  /\ queues' = [queues EXCEPT ![t] = created']
  /\ open' = open \cup {created'}
  /\ topic' = [topic EXCEPT ![c] = t]
  /\ Goto(c, "wireSubscribe")
  /\ UNCHANGED <<closing, todo, held, teardown, broker>>

SubscribeOnWire(c) ==
  /\ pc[c] = "wireSubscribe"
  /\ \/ WireSubscribed(topic[c]) /\ Goto(c, "recheck")
     \/ (WireRefused \/ WireUnanswered(topic[c])) /\ Goto(c, "undo")
  /\ UNCHANGED <<table, topic, todo, held, teardown>>

\* Variant: the queue is deleted without being closed.
DeleteOnly(t) == UNCHANGED open

CloseQueue(t) == open' = open \ {queues[t]}

\* Whatever queue is there now is closed and deleted.
SubscribeFails(c) ==
  /\ pc[c] = "undo"
  /\ queues' = [queues EXCEPT ![topic[c]] = 0]
  /\ CloseQueue(topic[c])
  /\ Finish(c)
  /\ UNCHANGED <<closing, created, teardown, broker>>

SubscribeSucceeds(c) ==
  /\ pc[c] = "recheck" /\ queues[topic[c]] # 0
  /\ Finish(c)
  /\ UNCHANGED <<table, teardown, broker>>

SubscribeCancelled(c) ==
  /\ pc[c] = "recheck" /\ queues[topic[c]] = 0
  /\ Goto(c, "withdraw")
  /\ UNCHANGED <<table, topic, todo, held, teardown, broker>>

Withdraw(c) ==
  /\ pc[c] = "withdraw"
  /\ WireUnsubscribed(topic[c]) \/ WireKept({topic[c]} \cap wire)
  /\ Finish(c)
  /\ UNCHANGED <<table, teardown>>

-----------------------------------------------------------------------------
(* unsubscribe: delete the queue under the lock, then close it and           *)
(* unsubscribe outside.                                                      *)

Unsubscribe(c, t) ==
  /\ pc[c] = "idle" /\ queues[t] # 0
  /\ queues' = [queues EXCEPT ![t] = 0]
  /\ topic' = [topic EXCEPT ![c] = t]
  /\ held' = [held EXCEPT ![c] = {queues[t]}]
  /\ Goto(c, "wireUnsubscribe")
  /\ UNCHANGED <<closing, created, open, todo, teardown, broker>>

\* Variant: the broker is not told.
UnsubscribeLocally(c) ==
  /\ pc[c] = "wireUnsubscribe"
  /\ open' = open \ held[c]
  /\ Finish(c)
  /\ UNCHANGED <<closing, queues, created, teardown, broker>>

UnsubscribeOnWire(c) ==
  /\ pc[c] = "wireUnsubscribe"
  /\ open' = open \ held[c]
  /\ WireUnsubscribed(topic[c]) \/ WireKept({topic[c]} \cap wire)
  /\ Finish(c)
  /\ UNCHANGED <<closing, queues, created, teardown>>

-----------------------------------------------------------------------------
(* connect: a new session, then the subscriptions of the table are restored, *)
(* each after another look at the table; errors of the wire are ignored.     *)

Connect(c) ==
  /\ pc[c] = "idle" /\ ~closing
  /\ Goto(c, "connect")
  /\ UNCHANGED <<table, topic, todo, held, teardown, broker>>

ConnectOnWire(c) ==
  /\ pc[c] = "connect"
  /\ \/ NewSession(TRUE) /\ Goto(c, "snapshot")
        /\ UNCHANGED <<topic, todo, held>>
     \/ Finish(c) /\ UNCHANGED broker
  /\ UNCHANGED <<table, teardown>>

SnapshotTopics(c) ==
  /\ pc[c] = "snapshot"
  /\ todo' = [todo EXCEPT ![c] = {t \in Topics : queues[t] # 0}]
  /\ Goto(c, "restore")
  /\ UNCHANGED <<table, topic, held, teardown, broker>>

StillThere(c, t) == queues[t] # 0

RestoreTopic(c, t) ==
  /\ pc[c] = "restore" /\ t \in todo[c]
  /\ todo' = [todo EXCEPT ![c] = @ \ {t}]
  /\ IF StillThere(c, t)
     THEN topic' = [topic EXCEPT ![c] = t] /\ Goto(c, "wireRestore")
     ELSE UNCHANGED <<topic, pc>>
  /\ UNCHANGED <<table, held, teardown, broker>>

RestoreOnWire(c) ==
  /\ pc[c] = "wireRestore"
  /\ WireSubscribed(topic[c]) \/ WireRefused
  /\ Goto(c, "restore")
  /\ UNCHANGED <<table, topic, todo, held, teardown>>

ConnectReturns(c) ==
  /\ pc[c] = "restore" /\ todo[c] = {}
  /\ Finish(c)
  /\ UNCHANGED <<table, teardown, broker>>

-----------------------------------------------------------------------------
(* disconnect: take the whole table, drop the session, close the queues.     *)

Disconnect(c) ==
  /\ pc[c] = "idle" /\ ~closing
  /\ Goto(c, "swap")
  /\ UNCHANGED <<table, topic, todo, held, teardown, broker>>

DisconnectSwap(c) ==
  /\ pc[c] = "swap"
  /\ held' = [held EXCEPT ![c] = InTable]
  /\ queues' = NoQueues
  /\ Goto(c, "disconnect")
  /\ UNCHANGED <<closing, created, open, topic, todo, teardown, broker>>

DisconnectOnWire(c) ==
  /\ pc[c] = "disconnect"
  /\ NewSession(FALSE) \/ WireKept(wire)
  /\ Goto(c, "closeQueues")
  /\ UNCHANGED <<table, topic, todo, held, teardown>>

DisconnectCloses(c) ==
  /\ pc[c] = "closeQueues"
  /\ open' = open \ held[c]
  /\ Finish(c)
  /\ UNCHANGED <<closing, queues, created, teardown, broker>>

-----------------------------------------------------------------------------
(* Unmount: closing, take the table, close the queues, drop the session; the *)
(* error of Disconnect is Unmount's. A Disconnect that outlasts the context  *)
(* and a grace of 2 s is left behind and may still end. In a session that it *)
(* could not end every topic may stay, or be restored by a connect under way.*)

BeginShutdown ==
  /\ unmount = "before" /\ ~closing
  /\ closing' = TRUE /\ unmount' = "swap"
  /\ UNCHANGED <<queues, created, open, calls, taken, broker>>

\* Variant: the keys of the table are taken for its queues.
TakeKeys == taken' = {t \in Topics : queues[t] # 0} /\ queues' = NoQueues

TakeTable == taken' = InTable /\ queues' = NoQueues

UnmountSwap ==
  /\ unmount = "swap"
  /\ TakeTable
  /\ unmount' = "close"
  /\ UNCHANGED <<closing, created, open, calls, broker>>

UnmountCloses ==
  /\ unmount = "close"
  /\ open' = open \ taken
  /\ taken' = {} /\ unmount' = "disconnect"
  /\ UNCHANGED <<closing, queues, created, calls, broker>>

UnmountOnWire ==
  /\ unmount = "disconnect"
  /\ \/ NewSession(FALSE) /\ unmount' = "done"
     \/ WireKept(Topics) /\ unmount' = "failed"
  /\ UNCHANGED <<table, calls, taken>>

UnmountTimesOut ==
  /\ unmount = "disconnect"
  /\ unmount' = "late"
  /\ UNCHANGED <<table, calls, taken, broker>>

LateDisconnect ==
  /\ unmount = "late"
  /\ NewSession(FALSE) \/ WireKept(Topics)
  /\ unmount' = "failed"
  /\ UNCHANGED <<table, calls, taken>>

-----------------------------------------------------------------------------
Client(c) ==
  \/ \E t \in Topics : Subscribe(c, t) \/ Unsubscribe(c, t) \/ RestoreTopic(c, t)
  \/ SubscribeOnWire(c) \/ SubscribeFails(c) \/ SubscribeSucceeds(c)
  \/ SubscribeCancelled(c) \/ Withdraw(c) \/ UnsubscribeOnWire(c)
  \/ Connect(c) \/ ConnectOnWire(c) \/ SnapshotTopics(c) \/ RestoreOnWire(c)
  \/ ConnectReturns(c)
  \/ Disconnect(c) \/ DisconnectSwap(c) \/ DisconnectOnWire(c) \/ DisconnectCloses(c)

Unmount ==
  BeginShutdown \/ UnmountSwap \/ UnmountCloses \/ UnmountOnWire \/ UnmountTimesOut
  \/ LateDisconnect

AtRest == unmount \in {"before", "done", "failed"} /\ \A c \in Clients : pc[c] = "idle"

\* Nothing is left to do: the ability has been unmounted and rejects commands.
Closed == AtRest /\ closing /\ UNCHANGED vars

\* Clients whose command begins beside another one, or was refused a topic.
Overlapping ==
  {c \in Clients : pc[c] = "idle" /\ pc'[c] # "idle" /\ \E d \in Clients \ {c} : pc[d] # "idle"}
Refused ==
  {c \in Clients : pc[c] = "wireRestore" /\ pc'[c] # pc[c] /\ connected /\ topic[c] \notin wire'}

History ==
  trouble' = trouble \cup {"overlap" : c \in Overlapping} \cup {"refused" : c \in Refused}

Next ==
  /\ Unmount \/ ConnectionLost \/ Closed \/ \E c \in Clients : Client(c)
  /\ History

Spec == Init /\ [][Next]_vars
-----------------------------------------------------------------------------
FlagsOK ==
  /\ {closing, connected} \subseteq BOOLEAN /\ wire \subseteq Topics /\ (wire # {} => connected)
  /\ ghosts \subseteq Topics /\ trouble \subseteq {"overlap", "refused"}

TablesOK ==
  /\ queues \in [Topics -> 0 .. created] /\ created \in 0 .. MaxQueues
  /\ open \subseteq 1 .. created /\ taken \subseteq Queues
  /\ unmount \in {"before", "swap", "close", "disconnect", "late", "done", "failed"}

CallsOK ==
  /\ pc \in [Clients -> ClientPhases] /\ topic \in [Clients -> Topics \cup {NoTopic}]
  /\ todo \in [Clients -> SUBSET Topics] /\ held \in [Clients -> SUBSET Queues]

TypeOK == FlagsOK /\ TablesOK /\ CallsOK

(* Every queue that has left the table is closed, whichever call took it out *)
(* (its drains would wait on it for ever), and none that is in it. And as     *)
(* Unmount's comment says, no command recreates a queue after Unmount has     *)
(* run; in fact once it has taken the table.                                 *)
QueuesClosed ==
  /\ TypeOK
  /\ AtRest => open = InTable
  /\ unmount \notin {"before", "swap"} => InTable = {}

(* No ghost subscription: the broker has none the ability does not know of,  *)
(* but for topics of this session that a call whose error was ignored left.  *)
(* It holds of commands one after another, through refused subscribes, lost  *)
(* connections, reconnections and an Unmount at any moment. The comments of  *)
(* connect and subscribe claim it of commands that overlap, and of errors,   *)
(* as well.                                                                  *)
NoGhost ==
  AtRest /\ "overlap" \notin trouble => \A t \in wire \ ghosts : queues[t] # 0

(* The same comments: no silent loss of messages. Unless the broker refused   *)
(* to restore it, a topic with a queue is subscribed while the session lasts.*)
NoSilentLoss ==
  AtRest /\ connected /\ trouble = {} => \A t \in Topics : queues[t] # 0 => t \in wire

(* Both: at rest the broker and the table agree.                             *)
BrokerAgrees == NoGhost /\ NoSilentLoss

(* Unmount tears down all subscriptions and disconnects the transport.       *)
UnmountDisconnects == AtRest /\ unmount = "done" => ~connected
=============================================================================
