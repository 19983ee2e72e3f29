----------------------------- MODULE SerialPorts -----------------------------
(***************************************************************************)
(* SerialAbility (ability/serial_ability.go): the table of open ports and  *)
(* the devices behind it. open, close and set_config look at the table     *)
(* under s.mu, call the transport outside it and come back to the table;   *)
(* Unmount takes the ports in the table and closes them one by one. The    *)
(* transport knows a port by its name and is set before the first command. *)
(*                                                                         *)
(* A call that fails its guard changes nothing and is not an action;       *)
(* neither are is_open, read, write and get_config, which only read.       *)
(***************************************************************************)
CONSTANTS
  Clients,   \* goroutines that call Command
  Ports,
  Configs,   \* baud rate, bits and parity as one value
  NoConfig   \* of a port that is not open

ConfigAssumption == NoConfig \notin Configs

VARIABLES
  closing, openPorts,  \* fields of SerialAbility, guarded by s.mu
  device,              \* the configuration each device is open with
  call,                \* where each client is, with its port and configuration
  unmount,             \* where Unmount is, with the ports it has left
  trouble              \* history: ports whose Close failed, clients overlapped

vars == <<closing, openPorts, device, call, unmount, trouble>>

Idle == [at |-> "idle"]
IsOpen(table) == {p \in Ports : table[p] # NoConfig}

Init ==
  /\ closing = FALSE
  /\ openPorts = [p \in Ports |-> NoConfig] /\ device = [p \in Ports |-> NoConfig]
  /\ call = [c \in Clients |-> Idle]
  /\ unmount = [at |-> "before", ports |-> {}]
  /\ trouble = [unclosed |-> {}, overlap |-> FALSE]

Begin(c, phase, p, g) ==
  /\ call[c] = Idle
  /\ call' = [call EXCEPT ![c] = [at |-> phase, port |-> p, config |-> g]]
  /\ trouble' = [trouble EXCEPT !.overlap = @ \/ \E d \in Clients : call[d] # Idle]
Continue(c, phase) == call' = [call EXCEPT ![c].at = phase]
Return(c) == call' = [call EXCEPT ![c] = Idle]

-----------------------------------------------------------------------------
(* The transport. Close by name closes the device, whoever opened it, or     *)
(* fails and leaves it as it is.                                             *)
TransportOpen(p, g) == device' = [device EXCEPT ![p] = g]

TransportApply(p, g) == device[p] # NoConfig /\ device' = [device EXCEPT ![p] = g]

TransportClose(p) ==
  \/ device' = [device EXCEPT ![p] = NoConfig] /\ UNCHANGED trouble
  \/ /\ UNCHANGED device
     /\ trouble' = [trouble EXCEPT !.unclosed = @ \cup {p}]

-----------------------------------------------------------------------------
(* open: the port is recorded if, after the device has been opened, it has   *)
(* not been recorded meanwhile and Unmount has not begun.                    *)

Open(c, p, g) ==
  /\ ~closing /\ openPorts[p] = NoConfig
  /\ Begin(c, "open", p, g)
  /\ UNCHANGED <<closing, openPorts, device, unmount>>

OpenDevice(c) ==
  /\ call[c].at = "open"
  /\ \/ TransportOpen(call[c].port, call[c].config) /\ Continue(c, "record")
     \/ UNCHANGED device /\ Return(c)
  /\ UNCHANGED <<closing, openPorts, unmount, trouble>>

\* Variant: only a duplicate is looked for, as before closing was introduced.
MayRecordWhileClosing(p) == openPorts[p] = NoConfig

MayRecord(p) == openPorts[p] = NoConfig /\ ~closing

Record(c) ==
  /\ call[c].at = "record" /\ MayRecord(call[c].port)
  /\ openPorts' = [openPorts EXCEPT ![call[c].port] = call[c].config]
  /\ Return(c)
  /\ UNCHANGED <<closing, device, unmount, trouble>>

RollBack(c) ==
  /\ call[c].at = "record" /\ ~MayRecord(call[c].port)
  /\ Continue(c, "close")
  /\ UNCHANGED <<closing, openPorts, device, unmount, trouble>>

-----------------------------------------------------------------------------
(* close: the record goes first, so that Unmount does not see the port.      *)

Close(c, p) ==
  /\ ~closing /\ openPorts[p] # NoConfig
  /\ openPorts' = [openPorts EXCEPT ![p] = NoConfig]
  /\ Begin(c, "close", p, NoConfig)
  /\ UNCHANGED <<closing, device, unmount>>

\* Also the end of an open that is rolled back.
CloseDevice(c) ==
  /\ call[c].at = "close"
  /\ TransportClose(call[c].port)
  /\ Return(c)
  /\ UNCHANGED <<closing, openPorts, unmount>>

-----------------------------------------------------------------------------
(* set_config: applied to the device, then recorded if the port is still open.*)

SetConfig(c, p, g) ==
  /\ ~closing /\ openPorts[p] # NoConfig
  /\ Begin(c, "apply", p, g)
  /\ UNCHANGED <<closing, openPorts, device, unmount>>

\* Variant: only the record changes.
RecordOnly(c) ==
  /\ call[c].at = "apply"
  /\ Continue(c, "update")
  /\ UNCHANGED <<closing, openPorts, device, unmount, trouble>>

ApplyConfig(c) ==
  /\ call[c].at = "apply"
  /\ \/ TransportApply(call[c].port, call[c].config) /\ Continue(c, "update")
     \/ UNCHANGED device /\ Return(c)
  /\ UNCHANGED <<closing, openPorts, unmount, trouble>>

StillOpen(p) == openPorts[p] # NoConfig /\ ~closing

Update(c) ==
  /\ call[c].at = "update"
  /\ IF StillOpen(call[c].port)
     THEN openPorts' = [openPorts EXCEPT ![call[c].port] = call[c].config]
     ELSE UNCHANGED openPorts
  /\ Return(c)
  /\ UNCHANGED <<closing, device, unmount, trouble>>

-----------------------------------------------------------------------------
(* Unmount: closing and the snapshot of the ports in one critical section,   *)
(* then Close and removal of each.                                           *)

UnmountBegins ==
  /\ unmount.at = "before"
  /\ closing' = TRUE
  /\ unmount' = [at |-> "close", ports |-> IsOpen(openPorts)]
  /\ UNCHANGED <<openPorts, device, call, trouble>>

UnmountCloses(p) ==
  /\ unmount.at = "close" /\ p \in unmount.ports
  /\ TransportClose(p)
  /\ unmount' = [at |-> "remove", ports |-> unmount.ports, port |-> p]
  /\ UNCHANGED <<closing, openPorts, call>>

UnmountRemoves ==
  /\ unmount.at = "remove"
  /\ openPorts' = [openPorts EXCEPT ![unmount.port] = NoConfig]
  /\ unmount' = [at |-> "close", ports |-> unmount.ports \ {unmount.port}]
  /\ UNCHANGED <<closing, device, call, trouble>>

UnmountReturns ==
  /\ unmount.at = "close" /\ unmount.ports = {}
  /\ unmount' = [at |-> "done", ports |-> {}]
  /\ UNCHANGED <<closing, openPorts, device, call, trouble>>

-----------------------------------------------------------------------------
AtRest == unmount.at \in {"before", "done"} /\ \A c \in Clients : call[c] = Idle

\* Unmounted, the ability rejects every command.
Closed == AtRest /\ closing /\ UNCHANGED vars

Next ==
  \/ \E c \in Clients :
       \/ \E p \in Ports, g \in Configs : Open(c, p, g) \/ SetConfig(c, p, g)
       \/ \E p \in Ports : Close(c, p)
       \/ OpenDevice(c) \/ Record(c) \/ RollBack(c) \/ CloseDevice(c)
       \/ ApplyConfig(c) \/ Update(c)
  \/ \E p \in Ports : UnmountCloses(p)
  \/ UnmountBegins \/ UnmountRemoves \/ UnmountReturns \/ Closed

Spec == Init /\ [][Next]_vars
-----------------------------------------------------------------------------
Calls ==
  [at : {"open", "record", "close", "apply", "update"}, port : Ports, config : Configs \cup {NoConfig}]

TablesOK == {openPorts, device} \subseteq [Ports -> Configs \cup {NoConfig}]

CallsOK == call \in [Clients -> {Idle} \cup Calls]

TeardownOK ==
  /\ unmount.at \in {"before", "close", "remove", "done"} /\ unmount.ports \subseteq Ports
  /\ trouble \in [unclosed : SUBSET Ports, overlap : BOOLEAN]

TypeOK == closing \in BOOLEAN /\ TablesOK /\ CallsOK /\ TeardownOK

(* No descriptor leaks, however open, close, set_config and Unmount overlap:  *)
(* once the calls have returned, a device that is open is in the table or its *)
(* Close failed; and Unmount, once it has returned, leaves an empty table, to *)
(* which no late open or set_config adds.                                    *)
PortsReleased ==
  /\ AtRest => IsOpen(device) \subseteq IsOpen(openPorts) \cup trouble.unclosed
  /\ unmount.at = "done" => IsOpen(openPorts) = {}

(* While commands come one after another (Unmount may come at any moment) and *)
(* Close does not fail, the table says which devices are open and with which *)
(* configuration. Two commands that overlap can make it wrong both ways.     *)
ConfigInForce ==
  AtRest /\ ~trouble.overlap /\ trouble.unclosed = {} => openPorts = device
=============================================================================
