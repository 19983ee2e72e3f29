----------------------------- MODULE Credentials -----------------------------
(***************************************************************************)
(* The credentials of a time series database: InfluxDBData                 *)
(* (data/influxdb_data.go) over its databaseStore (data/database_data.go), *)
(* and the operations of InfluxAbility (ability/influxdb_ability.go) that  *)
(* take them. Setters, commands, operations and the replacement of the     *)
(* transport run in any order; d.mu serialises setters with commands, the  *)
(* lock of the store covers one access, and i.mu one look at the ability.  *)
(*                                                                         *)
(* A call refused for its arguments changes nothing and is not an action.  *)
(***************************************************************************)
EXTENDS Integers, FiniteSets

CONSTANTS
  Clients,                       \* goroutines
  Values,                        \* values of a field of the configuration
  Tokens,
  Measurements, influxMaxSeries,
  MaxRevision, MaxTransports,    \* bounds on revisions and transports
  Zeroed                         \* what zeroBytes leaves of a token

VARIABLES
  store,     \* databaseStore: config, secret, revision
  mu,        \* the setter that holds d.mu, or Free
  transport, \* number of the transport in place, 0 when there is none
  lastRevision, series,
  call,      \* where each client is
  expected,  \* history: the fields as the last of each to be set left them
  served,    \* history: revisions of the operations each transport performed
  written,   \* history: measurements some transport has accepted
  overlap    \* history: an operation met another one or a new transport

vars == <<store, mu, transport, lastRevision, series, call, expected, served, written, overlap>>
ability == <<transport, lastRevision, series>>
history == <<expected, served, written, overlap>>

Fields == {"endpoint", "bucket"}    \* the others are set the same way
Unset == "unset"
NoToken == "none"
Free == "free"

CredentialsAssumption ==
  /\ influxMaxSeries \in Nat /\ MaxRevision \in Nat /\ MaxTransports \in Nat
  /\ IsFiniteSet(Measurements) /\ Free \notin Clients

Configs == [Fields -> Values \cup {Unset}]
Idle == [phase |-> "idle"]
Operating == {d \in Clients : call[d].phase \in {"admit", "transport", "operate", "note"}}

Init ==
  /\ store = [config |-> [f \in Fields |-> Unset], secret |-> NoToken, revision |-> 0]
  /\ mu = Free /\ transport = 0 /\ lastRevision = 0 /\ series = {}
  /\ call = [c \in Clients |-> Idle]
  /\ expected = store.config
  /\ served = [t \in 1 .. MaxTransports |-> {}]
  /\ written = {} /\ overlap = FALSE

Goto(c, state) == call' = [call EXCEPT ![c] = state]

-----------------------------------------------------------------------------
(* databaseStore. Every change counts a revision.                             *)
Revised(s) == [s EXCEPT !.revision = @ + 1]

Configured(cfg) == Revised([store EXCEPT !.config = cfg])

\* Variant: an operation is handed the bytes of the store themselves.
Shared(token) == [value |-> token, owned |-> FALSE]

Copied(token) == [value |-> token, owned |-> TRUE]

\* zeroBytes(s.secret) reaches every slice that shares the bytes.
Zeroes(c) ==
  call' = [d \in Clients |->
             IF d = c \/ d \notin Operating \/ call[d].token.owned THEN call[d]
             ELSE [call[d] EXCEPT !.token.value = Zeroed]]

SetSecret(c, token) ==
  /\ store.revision < MaxRevision
  /\ store' = Revised([store EXCEPT !.secret = token])
  /\ Zeroes(c)
  /\ UNCHANGED <<mu, ability, history>>

-----------------------------------------------------------------------------
(* InfluxDBData: a setter reads the configuration and writes it back with one *)
(* field changed, under d.mu; so does a command, except that SetToken takes   *)
(* the lock of the store alone.                                               *)
LockForSetter(c) == mu = Free /\ mu' = c

SetterReads(c, f, v) ==
  /\ call[c] = Idle /\ store.revision < MaxRevision
  /\ LockForSetter(c)
  /\ Goto(c, [phase |-> "set", field |-> f, config |-> [store.config EXCEPT ![f] = v]])
  /\ UNCHANGED <<store, ability, history>>

SetterWrites(c) ==
  /\ call[c].phase = "set"
  /\ store.revision < MaxRevision
  /\ store' = Configured(call[c].config)
  /\ expected' = [expected EXCEPT ![call[c].field] = call[c].config[call[c].field]]
  /\ mu' = Free
  /\ Goto(c, Idle)
  /\ UNCHANGED <<ability, served, written, overlap>>

\* Variant: only the setters take d.mu.
UnlockedCommand(c) == TRUE

LockForCommand(c) == mu = Free

ConfigureCommand(c, cfg) ==
  /\ call[c] = Idle /\ LockForCommand(c)
  /\ store.revision < MaxRevision
  /\ store' = Configured(cfg)
  /\ expected' = cfg
  /\ UNCHANGED <<mu, ability, call, served, written, overlap>>

SetToken(c, token)      == call[c] = Idle /\ SetSecret(c, token)
SetSecretCommand(c, token) == call[c] = Idle /\ LockForCommand(c) /\ SetSecret(c, token)
ClearSecret(c)          == call[c] = Idle /\ LockForCommand(c) /\ SetSecret(c, NoToken)

-----------------------------------------------------------------------------
(* InfluxAbility: ping, write and query.                                      *)
SetTransport ==
  /\ transport < MaxTransports
  /\ transport' = transport + 1 /\ lastRevision' = 0
  /\ overlap' = (overlap \/ Operating # {})
  /\ UNCHANGED <<store, mu, series, call, expected, served, written>>

\* A ping or query carries no points.
Points == (SUBSET Measurements)

ConnectionMaterial(c, points) ==
  /\ call[c] = Idle
  /\ store.config["endpoint"] # Unset
  /\ points # {} => store.config["bucket"] # Unset
  /\ Goto(c, [phase |-> "admit", revision |-> store.revision, token |-> Copied(store.secret),
              wanted |-> store.secret, points |-> points, transport |-> 0])
  /\ overlap' = (overlap \/ Operating # {})
  /\ UNCHANGED <<store, mu, ability, expected, served, written>>

\* Variant: whatever the transport has served, the operation goes on.
AdmitsAll(revision) == FALSE

staleCredentials(revision) == lastRevision # 0 /\ revision # lastRevision

Admit(c) ==
  /\ call[c].phase = "admit"
  /\ IF staleCredentials(call[c].revision) THEN Goto(c, Idle)
     ELSE Goto(c, [call[c] EXCEPT !.phase = "transport"])
  /\ UNCHANGED <<store, mu, ability, history>>

GetTransport(c) ==
  /\ call[c].phase = "transport"
  /\ IF transport = 0 THEN Goto(c, Idle)
     ELSE Goto(c, [call[c] EXCEPT !.phase = "operate", !.transport = transport])
  /\ UNCHANGED <<store, mu, ability, history>>

Operate(c) ==
  /\ call[c].phase = "operate"
  /\ \/ /\ Goto(c, [call[c] EXCEPT !.phase = "note"])
        /\ served' = [served EXCEPT ![call[c].transport] = @ \cup {call[c].revision}]
        /\ written' = written \cup call[c].points
     \/ Goto(c, Idle) /\ UNCHANGED <<served, written>>
  /\ UNCHANGED <<store, mu, ability, expected, overlap>>

(* The points are looked at one after another, in the order of the request.   *)
Recorded(points) ==
  {s \in SUBSET points : /\ points \cap series \subseteq s
                         /\ Cardinality(series \cup s) <= influxMaxSeries
                         /\ s = points \/ Cardinality(series \cup s) = influxMaxSeries}

NoteRevision(c) ==
  /\ call[c].phase = "note"
  /\ lastRevision' = call[c].revision
  /\ \E s \in Recorded(call[c].points) : series' = series \cup s
  /\ Goto(c, Idle)
  /\ UNCHANGED <<store, mu, transport, history>>

DeleteSeries(m) ==
  /\ m \in series
  /\ series' = series \ {m}
  /\ UNCHANGED <<store, mu, transport, lastRevision, call, history>>

-----------------------------------------------------------------------------
Client(c) ==
  \/ \E f \in Fields, v \in Values : SetterReads(c, f, v)
  \/ \E cfg \in [Fields -> Values] : ConfigureCommand(c, cfg)
  \/ \E t \in Tokens : SetToken(c, t) \/ SetSecretCommand(c, t)
  \/ \E points \in Points : ConnectionMaterial(c, points)
  \/ SetterWrites(c) \/ ClearSecret(c)
  \/ Admit(c) \/ GetTransport(c) \/ Operate(c) \/ NoteRevision(c)

\* The bound on revisions is reached.
Bounded == store.revision = MaxRevision /\ UNCHANGED vars

Next ==
  \/ \E c \in Clients : Client(c)
  \/ SetTransport \/ Bounded
  \/ \E m \in Measurements : DeleteSeries(m)

Spec == Init /\ [][Next]_vars
-----------------------------------------------------------------------------
TypeOK ==
  /\ store.config \in Configs /\ store.secret \in Tokens \cup {NoToken}
  /\ store.revision \in 0 .. MaxRevision /\ lastRevision \in 0 .. MaxRevision
  /\ mu \in Clients \cup {Free} /\ transport \in 0 .. MaxTransports
  /\ overlap \in BOOLEAN

(* No field that was set is lost to a setter that read the configuration      *)
(* before ("the configuration is lost whole", InfluxDBData.Command).          *)
FieldsKept == store.config = expected

(* A token handed to an operation stays what it was while the store rotates   *)
(* or clears its secret, which it overwrites with zeros.                      *)
TokensOwned == \A c \in Operating : call[c].token.value = call[c].wanted

(* One set of credentials per transport: once it has performed an operation   *)
(* it performs none under another revision, however the credentials rotate;   *)
(* and what refuses an operation is never the memory of an earlier transport. *)
(* This holds of operations that neither overlap nor meet a new transport.    *)
OneRevision ==
  ~overlap =>
    /\ \A t \in 1 .. MaxTransports : Cardinality(served[t]) <= 1
    /\ Operating = {} /\ lastRevision # 0 => served[transport] = {lastRevision}

(* The directory names what was written, and keeps to its limit.              *)
SeriesWritten == series \subseteq written /\ Cardinality(series) <= influxMaxSeries

CredentialsHold == FieldsKept /\ TokensOwned /\ OneRevision /\ SeriesWritten
=============================================================================
