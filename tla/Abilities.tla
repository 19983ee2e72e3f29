------------------------------ MODULE Abilities ------------------------------
(***************************************************************************)
(* Parts of an Atom that share no state, no lock and no goroutine:         *)
(* SerialPorts, TimeSync, ConfigFile, Observers, Orchestrators and         *)
(* ModbusMaster. Each behaviour follows one of them, the others rest in    *)
(* their initial states: what is true of each alone is true of any         *)
(* interleaving of them.                                                   *)
(***************************************************************************)
EXTENDS Integers

CONSTANTS
  Clients,                                             \* the goroutines of each part
  Ports, Configs, NoConfig,                            \* SerialPorts
  Runner, MaxConcurrency, MaxTime,                     \* TimeSync
  Keys, maxConfigKeys, maxConfigValueBytes, configFileMaxBytes, MaxSaved, NoFile, Torn,  \* ConfigFile
  Sinks, Collector, ringCapacity, Durations, MaxEvents, \* Observers
  maxStopTimeout, maxLogTail, maxPayload, maxOutput,   \* Orchestrators
  maxConcurrency, ContainerActions, ResourceActions, Namespaces, DirtyNamespaces, Default, Unnamed,
  Units, Registers, CoilCount, Requests, maxQuantity, maxValues, MaxSends  \* ModbusMaster

VARIABLES
  part,                                                \* the part that is followed
  closing, openPorts, device, call, unmount, trouble,  \* SerialPorts
  mono, base, sem, runMode, running, task, history,    \* TimeSync
  values, file, durable, access, saved, lastSaved,     \* ConfigFile
  sinks, emission, ring, told, recorded, ended,        \* Observers
  clients, context, slots, order,                      \* Orchestrators
  unitID, link, memory, answered, request              \* ModbusMaster

Serial == INSTANCE SerialPorts
Time   == INSTANCE TimeSync
File   == INSTANCE ConfigFile WITH call <- access
Events == INSTANCE Observers WITH Operations <- Clients
Gates  == INSTANCE Orchestrators WITH transport <- clients, running <- slots, call <- order
Modbus == INSTANCE ModbusMaster WITH transport <- link, call <- request

ASSUME PortsAssumption == Serial!ConfigAssumption

ASSUME TimeAssumption == Time!ClockAssumption

ASSUME GatesAssumption == Gates!OrdersAssumption

ASSUME ConfigAssumption == File!FileAssumption

ASSUME RequestsAssumption == Modbus!CommandsAssumption

ASSUME RingAssumption == Events!EventsAssumption

serialVars == <<closing, openPorts, device, call, unmount, trouble>>
timeVars   == <<mono, base, sem, runMode, running, task, history>>
fileVars   == <<values, file, durable, access, saved, lastSaved>>
eventVars  == <<sinks, emission, ring, told, recorded, ended>>
gateVars   == <<clients, context, slots, order>>
modbusVars == <<unitID, link, memory, answered, request>>
vars       == <<part, serialVars, timeVars, fileVars, eventVars, gateVars, modbusVars>>

Init ==
  /\ part \in {"serial", "time", "file", "events", "gates", "modbus"}
  /\ Serial!Init /\ Time!Init /\ File!Init /\ Events!Init /\ Gates!Init /\ Modbus!Init

Next ==
  /\ UNCHANGED part
  /\ \/ part = "serial" /\ Serial!Next
           /\ UNCHANGED <<timeVars, fileVars, eventVars, gateVars, modbusVars>>
     \/ part = "time" /\ Time!Next
           /\ UNCHANGED <<serialVars, fileVars, eventVars, gateVars, modbusVars>>
     \/ part = "file" /\ File!Next
           /\ UNCHANGED <<serialVars, timeVars, eventVars, gateVars, modbusVars>>
     \/ part = "events" /\ Events!Next
           /\ UNCHANGED <<serialVars, timeVars, fileVars, gateVars, modbusVars>>
     \/ part = "gates" /\ Gates!Next
           /\ UNCHANGED <<serialVars, timeVars, fileVars, eventVars, modbusVars>>
     \/ part = "modbus" /\ Modbus!Next
           /\ UNCHANGED <<serialVars, timeVars, fileVars, eventVars, gateVars>>

Spec == Init /\ [][Next]_vars
-----------------------------------------------------------------------------
(* SerialAbility: no descriptor leaks, however open, close, set_config and    *)
(* Unmount overlap, no late call adds to the table Unmount has emptied, and   *)
(* while commands do not overlap the table says which devices are open, and   *)
(* with which configuration.                                                 *)
PortsHonest == Serial!TypeOK /\ Serial!PortsReleased /\ Serial!ConfigInForce

(* TimeAbility: get_time always answers with a time, beside any sync; the base *)
(* does not count time from before its source was read, but for half of what  *)
(* an NTP query took, a default never replaces a sync, and the slots of       *)
(* failed syncs return.                                                       *)
BaseHonest == Time!TypeOK /\ Time!BaseHonest

(* ConfigFileAbility: a load no save disturbs restores what was saved, whole, *)
(* or leaves the memory alone, also after a crash in the middle of a save.    *)
LoadRestores == File!LoadRestores /\ []File!TypeOK

(* MultiEventSink and MetricsCollector: an emission tells every sink that was *)
(* there, and only those, though sinks panic and are added meanwhile; and a   *)
(* snapshot holds the latest durations, before and after the ring wraps.      *)
EventsComplete == Events!TypeOK /\ Events!EverySinkTold /\ Events!LatestSamples

(* DockerAbility and K8sAbility: no interleaving exceeds the limit on calls or *)
(* loses a slot; the names and kinds that reach a transport, but create's      *)
(* image, were checked, stop timeouts and log lines limited from above; and a  *)
(* Kubernetes command that names no namespace acts in one that was in force.   *)
GatesHold == Gates!TypeOK /\ Gates!GatesHold

(* ModbusAbility: with responses lost, late or damaged, a read that succeeds   *)
(* has what was asked for, and a write that succeeds was done.                *)
MasterHonest == Modbus!TypeOK /\ Modbus!MasterHonest
=============================================================================
