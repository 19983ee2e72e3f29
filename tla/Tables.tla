-------------------------------- MODULE Tables --------------------------------
(***************************************************************************)
(* Components that keep a table in memory and share no state, no lock and  *)
(* no goroutine with each other: MQTTSubscriptions, MQTTClient,            *)
(* StreamEngine, Shells, NetworkMap, TimeSensitive, Databases, Credentials *)
(* and StatusReports. Each behaviour follows one, the others rest in their *)
(* initial states: what is true of each alone is true of any interleaving  *)
(* of them. The part "order" is a call of dependencyOrder (DependencyOrder) *)
(* and, in step with it, one on the same registry listed in another order. *)
(***************************************************************************)
EXTENDS Integers, Sequences

CONSTANTS
  Clients,                                             \* the goroutines of each part
  Topics, MaxQueues,                                   \* MQTTSubscriptions
  Kinds, Lengths, maxLength, respCap, MaxConns, MaxPackets, MaxCalls,  \* MQTTClient
  Streams, Rules, Queries,                             \* StreamEngine
  Names, Words, MaxText,                               \* Shells
  Interfaces, Addresses, Peers, Hosts, Roles,          \* NetworkMap
  InterfaceNames, StreamIDs, Gates,                    \* TimeSensitive
  DatabaseAddresses, Unusable, Buffers, MaxChanges,    \* Databases
  Values, Tokens, Measurements, influxMaxSeries, MaxRevision, MaxTransports, Zeroed,  \* Credentials
  Components, Needs, HealthCheckers, MaxMoments,       \* StatusReports
  Observers,                                           \* the goroutines of NetworkMap and StatusReports
  Keys, Declarations, Panics, Rank                     \* DependencyOrder

VARIABLES
  part,                                                \* the part that is followed
  closing, queues, created, open, pc, topic, todo, held, unmount, taken, connected, wire,
  ghosts, trouble,  \* MQTTSubscriptions
  conn, online, respCh, mqttCall, loop, link, calls, late, early, honest, whole,  \* MQTTClient
  table, transport, engineCall, engine, disturbed,  \* StreamEngine
  shell, allowlist, userlist, listed, text, shellCall, crossed,  \* Shells
  system, interfaces, defaultIface, peers, mapCall, scanned, declared,  \* NetworkMap
  iface, streams, prioMap, timeAware, memory, tsnCall, stirred, granted, gates,  \* TimeSensitive
  kind, buffers, handed, config, status, configuring, accepted,  \* Databases
  store, mu, influxTransport, lastRevision, series, influxCall, expected, served, written,
  overlap,  \* Credentials
  state, registry, serving, statusCall, moments,  \* StatusReports
  items, dependencies, left, rest, mark, stack, ordered, result,  \* DependencyOrder
  twinItems, twinDependencies, twinLeft, twinRest, twinMark, twinStack, twinOrdered,
  twinResult  \* DependencyOrder, of the other listing

Reports == INSTANCE StatusReports WITH call <- statusCall, Deps <- Needs
Subs == INSTANCE MQTTSubscriptions
Client == INSTANCE MQTTClient WITH connected <- online, call <- mqttCall
Engine == INSTANCE StreamEngine WITH call <- engineCall
Sh == INSTANCE Shells WITH call <- shellCall
Map == INSTANCE NetworkMap WITH call <- mapCall, Clients <- Observers
TSN == INSTANCE TimeSensitive WITH call <- tsnCall
DB == INSTANCE Databases WITH memory <- buffers, held <- handed, Addresses <- DatabaseAddresses
Influx == INSTANCE Credentials WITH transport <- influxTransport, call <- influxCall
Order == INSTANCE DependencyOrder WITH declared <- dependencies
Twin == INSTANCE DependencyOrder WITH items <- twinItems, declared <- twinDependencies,
          left <- twinLeft, rest <- twinRest, mark <- twinMark, stack <- twinStack,
          ordered <- twinOrdered, result <- twinResult

ASSUME PartsAssumption ==
  /\ Subs!TableAssumption /\ Client!ClientAssumption /\ Sh!ShellAssumption
  /\ Map!MapAssumption /\ TSN!StreamsAssumption /\ DB!DatabaseAssumption /\ Influx!CredentialsAssumption
  /\ Order!OrderAssumption
  /\ Clients # {} /\ MaxMoments \in Nat \ {0}

subscriptionsVars == <<closing, queues, created, open, pc, topic, todo, held, unmount, taken, connected, wire, ghosts, trouble>>
clientVars == <<conn, online, respCh, mqttCall, loop, link, calls, late, early, honest, whole>>
engineVars == <<table, transport, engineCall, engine, disturbed>>
shellsVars == <<shell, allowlist, userlist, listed, text, shellCall, crossed>>
mapVars == <<system, interfaces, defaultIface, peers, mapCall, scanned, declared>>
streamsVars == <<iface, streams, prioMap, timeAware, memory, tsnCall, stirred, granted, gates>>
databasesVars == <<kind, buffers, handed, config, status, configuring, accepted>>
influxVars == <<store, mu, influxTransport, lastRevision, series, influxCall, expected, served, written, overlap>>
statusVars == <<state, registry, serving, statusCall, moments>>
orderVars == <<items, dependencies, left, rest, mark, stack, ordered, result,
               twinItems, twinDependencies, twinLeft, twinRest, twinMark, twinStack, twinOrdered, twinResult>>
vars == <<part, subscriptionsVars, clientVars, engineVars, shellsVars, mapVars, streamsVars, databasesVars, influxVars, statusVars,
          orderVars>>

\* The same registry in one certain order, whose components list the same
\* dependencies backwards.
Backwards(list) == [i \in DOMAIN list |-> list[Len(list) + 1 - i]]
Relisted ==
  /\ twinItems = CHOOSE list \in Order!Listings(Order!Listed(items)) : TRUE
  /\ twinDependencies = [c \in Order!Listed(items) |->
       IF dependencies[c] = Panics THEN Panics ELSE Backwards(dependencies[c])]

\* The parts at rest, each in one of its initial states.
Rest ==
  /\ part # "databases" => kind = "sqlite"
  /\ part # "shells" => text = <<>>
  /\ part # "order" => items = <<>>
  /\ Subs!Init /\ Client!Init /\ Engine!Init /\ Sh!Init /\ Map!Init /\ TSN!Init /\ DB!Init /\ Influx!Init
  /\ Reports!Init /\ Order!Init /\ Relisted /\ Twin!Start

Parts == {"subscriptions", "client", "engine", "shells", "map", "streams", "databases", "influx", "status", "order"}

Init == part \in Parts /\ Rest

Next ==
  /\ UNCHANGED part
  /\ \/ part = "subscriptions" /\ Subs!Next
           /\ UNCHANGED <<clientVars, engineVars, shellsVars, mapVars, streamsVars, databasesVars, influxVars, statusVars, orderVars>>
     \/ part = "client" /\ Client!Next
           /\ UNCHANGED <<subscriptionsVars, engineVars, shellsVars, mapVars, streamsVars, databasesVars, influxVars, statusVars, orderVars>>
     \/ part = "engine" /\ Engine!Next
           /\ UNCHANGED <<subscriptionsVars, clientVars, shellsVars, mapVars, streamsVars, databasesVars, influxVars, statusVars, orderVars>>
     \/ part = "shells" /\ Sh!Next
           /\ UNCHANGED <<subscriptionsVars, clientVars, engineVars, mapVars, streamsVars, databasesVars, influxVars, statusVars, orderVars>>
     \/ part = "map" /\ Map!Next
           /\ UNCHANGED <<subscriptionsVars, clientVars, engineVars, shellsVars, streamsVars, databasesVars, influxVars, statusVars, orderVars>>
     \/ part = "streams" /\ TSN!Next
           /\ UNCHANGED <<subscriptionsVars, clientVars, engineVars, shellsVars, mapVars, databasesVars, influxVars, statusVars, orderVars>>
     \/ part = "databases" /\ DB!Next
           /\ UNCHANGED <<subscriptionsVars, clientVars, engineVars, shellsVars, mapVars, streamsVars, influxVars, statusVars, orderVars>>
     \/ part = "influx" /\ Influx!Next
           /\ UNCHANGED <<subscriptionsVars, clientVars, engineVars, shellsVars, mapVars, streamsVars, databasesVars, statusVars, orderVars>>
     \/ part = "status" /\ Reports!Next
           /\ UNCHANGED <<subscriptionsVars, clientVars, engineVars, shellsVars, mapVars, streamsVars, databasesVars, influxVars, orderVars>>
     \/ part = "order" /\ Order!Next /\ Twin!Next
           /\ UNCHANGED <<subscriptionsVars, clientVars, engineVars, shellsVars, mapVars, streamsVars, databasesVars, influxVars, statusVars>>
     \/ part = "order" /\ Order!Finished /\ UNCHANGED vars

Spec == Init /\ [][Next]_vars
-----------------------------------------------------------------------------
(* Each is evaluated in the behaviours of its part; elsewhere that part rests. *)

(* MQTTAbility: no queue is left open, or made, after Unmount.                *)
QueuesClosed == part = "subscriptions" => Subs!TypeOK /\ Subs!QueuesClosed

(* MQTTAbility: at rest the table of subscriptions agrees with the broker,    *)
(* but for what a call that failed left there.                                *)
BrokerAgrees == part = "subscriptions" => Subs!BrokerAgrees

(* The client of the example: what succeeded was done by the broker, one loop *)
(* reads each connection, and messages arrive with the length they had.       *)
ClientHonest == part = "client" => Client!TypeOK /\ Client!ClientHonest

(* EKuiperAbility: at rest the tables agree with the engine's.                *)
EngineAgrees == part = "engine" => Engine!TypeOK /\ Engine!EngineAgrees

(* ShAbility and BashAbility: the shell in force is the one CmdAbility starts, *)
(* what Bash admits is started, and bash reads the text it was given.         *)
ShellsHold == part = "shells" => Sh!TypeOK /\ Sh!ShellsHold

(* NetMapAbility, TSNAbility and the databases: tables that callers reach only *)
(* through copies and that no registration, update or scan leaves at odds;    *)
(* what a caller changes in its argument during the call is the exception.    *)
TablesHold ==
  /\ part = "map" => Map!TypeOK /\ Map!MapHolds
  /\ part = "streams" => TSN!TypeOK /\ TSN!StreamsHold
  /\ part = "databases" => DB!TypeOK /\ DB!StoreOwned

(* InfluxDBData and InfluxAbility: no field that was set is lost, tokens stay *)
(* what they were while they are used, one set of credentials per transport.  *)
CredentialsHold == part = "influx" => Influx!TypeOK /\ Influx!CredentialsHold

(* dependencyOrder answers truly, with an order or with a cycle.              *)
AnswerSound == part = "order" => Order!AnswerSound

(* "deterministically" (PreRun): neither the iteration order of the registry  *)
(* maps nor the order in which Dependencies() lists them shows in the result. *)
Deterministic == part = "order" => result = twinResult

(* Status, Health and WaitState tell of moments the Atom has been through.     *)
ReportsHonest == part = "status" => Reports!TypeOK /\ Reports!ReportsHonest
=============================================================================
