SPECIFICATION Spec
CONSTANTS
  Clients = {c1, c2}
  Topics = {temp, hum}  MaxQueues = 3
  Kinds = {"publish", "subscribe"}  Lengths = {128, 1048577}  maxLength = 1048576
  respCap = 1  MaxConns = 2  MaxPackets = 2  MaxCalls = 2
  Streams = {"s"}  Rules = {"r"}  Queries = {"q1", "q2"}
  Names = {"sh", "zsh"}  Words = {"bash", "ls"}  MaxText = 3
  Interfaces = {"eth0", "eth1"}  Addresses = {"a"}
  Peers = {"p", "q"}  Hosts = {"h1", "h2"}  Roles = {"r1"}
  InterfaceNames = {"eth0", "eth1"}  StreamIDs = {"s"}  Gates = {"g1"}
  DatabaseAddresses = {"a", "b", "bad"}  Unusable = {"bad"}  Buffers = {b1, b2, b3}  MaxChanges = 2
  Values = {"v1"}  Tokens = {"k1"}  Measurements = {"m1", "m2"}  influxMaxSeries = 1
  MaxRevision = 2  MaxTransports = 2  Zeroed = Zeroed
  Components <- MCComponents  Needs <- MCNeeds  HealthCheckers <- MCCheckers  MaxMoments = 4
  observer = observer  Observers <- MCObservers
  Keys <- MCKeys  Declarations <- MCDeclarations  Panics = Panics  Rank <- MCRank
SYMMETRY ClientSymmetry
INVARIANTS QueuesClosed BrokerAgrees ClientHonest EngineAgrees ShellsHold TablesHold CredentialsHold
  AnswerSound Deterministic ReportsHonest
