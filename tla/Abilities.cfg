SPECIFICATION Spec
CONSTANTS
  Clients = {c1, c2}
  Ports = {p1}  Configs = {g1, g2}  NoConfig = NoConfig
  Runner = Runner  MaxConcurrency = 1  MaxTime = 2
  Keys = {k1, k2}  maxConfigKeys = 1  maxConfigValueBytes = 2  configFileMaxBytes = 2
  MaxSaved = 2  NoFile = NoFile  Torn = Torn
  Sinks = {sink, Collector}  Collector = Collector
  ringCapacity = 2  Durations = {1, 2}  MaxEvents = 5
  maxConcurrency = 1  maxStopTimeout = 1  maxLogTail = 1  maxPayload = 1  maxOutput = 1
  ContainerActions = {start}  ResourceActions = {delete}
  Namespaces = {Default, n1}  DirtyNamespaces = {n1}  Default = Default  Unnamed = Unnamed
  Units = {1, 2}  Registers = 2  CoilCount = 10  Requests <- ModbusRequests
  maxQuantity = 9  maxValues = 2  MaxSends = 2
SYMMETRY ClientSymmetry
INVARIANTS PortsHonest BaseHonest EventsComplete GatesHold MasterHonest
PROPERTIES LoadRestores
