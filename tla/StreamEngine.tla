---------------------------- MODULE StreamEngine ----------------------------
(***************************************************************************)
(* EKuiperAbility (ability/ekuiper_ability.go): its tables of streams and  *)
(* rules against those of the engine behind the injected transport. Every  *)
(* command looks at the table under e.mu, calls the engine without it and  *)
(* takes e.mu again to record what was done.                               *)
(*                                                                         *)
(* A call that fails its guard changes nothing and is not an action; nor   *)
(* are the commands that only read. Identifiers and SQL are acceptable.    *)
(***************************************************************************)
EXTENDS Integers

CONSTANTS
  Clients,   \* goroutines that call Command
  Streams,   \* names of streams
  Rules,     \* identifiers of rules
  Queries    \* what distinguishes two definitions of one name

VARIABLES
  table,     \* e.streams and e.rules
  transport, \* an engine is attached
  call,      \* where each client is
  engine,    \* the tables of the engine
  disturbed  \* history: items whose agreement was at risk

vars == <<table, transport, call, engine, disturbed>>

Items == Streams \cup Rules
Absent == [def |-> "none", status |-> "none"]
Idle == [act |-> "none", item |-> "none", def |-> "none", phase |-> "idle", live |-> FALSE]
Defined(i, q) == [def |-> q, status |-> IF i \in Rules THEN "stopped" ELSE "none"]

Init ==
  /\ table = [i \in Items |-> Absent]
  /\ transport = FALSE
  /\ call = [c \in Clients |-> Idle]
  /\ engine = [i \in Items |-> Absent]
  /\ disturbed = {}

\* Two commands on one item that do not commute.
Conflict(a, b) == "create" \in {a, b} \/ {a, b} = {"start", "stop"}

Exists(i) == table[i] # Absent

SetTransport ==
  /\ transport' \in BOOLEAN
  /\ UNCHANGED <<table, call, engine, disturbed>>

(* The first section. A start or stop keeps the pointer to the rule it found. *)
Begin(c, act, i, q) ==
  /\ call[c] = Idle /\ transport
  /\ call' = [call EXCEPT ![c] = [act |-> act, item |-> i, def |-> q, phase |-> "engine",
                                  live |-> TRUE]]
  /\ disturbed' = IF \E d \in Clients : call[d].item = i /\ Conflict(call[d].act, act)
                  THEN disturbed \cup {i} ELSE disturbed
  /\ UNCHANGED <<table, transport, engine>>

Create(c, i, q)  == ~Exists(i) /\ Begin(c, "create", i, q)
Drop(c, i)       == Exists(i) /\ Begin(c, "drop", i, "none")
StartRule(c, i)  == i \in Rules /\ Exists(i) /\ Begin(c, "start", i, "none")
StopRule(c, i)   == i \in Rules /\ Exists(i) /\ Begin(c, "stop", i, "none")

-----------------------------------------------------------------------------
(* The engine performs the call, refuses it, or performs it and the answer    *)
(* is lost on the way. One that has no such rule cannot start it, and one     *)
(* that has it may replace it or refuse to create it again.                   *)
Performed(x) ==
  CASE x.act = "create" -> engine' = [engine EXCEPT ![x.item] = Defined(x.item, x.def)]
    [] x.act = "drop"   -> engine' = [engine EXCEPT ![x.item] = Absent]
    [] x.act = "start"  -> /\ engine[x.item] # Absent
                           /\ engine' = [engine EXCEPT ![x.item].status = "running"]
    [] x.act = "stop"   -> /\ engine[x.item] # Absent
                           /\ engine' = [engine EXCEPT ![x.item].status = "stopped"]

\* Variant: the error of the engine is not looked at.
FailureIgnored(c) == call' = [call EXCEPT ![c].phase = "record"]

Fails(c) == call' = [call EXCEPT ![c] = Idle]

CallEngine(c) ==
  /\ call[c].phase = "engine"
  /\ \/ /\ Performed(call[c])
        /\ call' = [call EXCEPT ![c].phase = "record"]
        /\ UNCHANGED disturbed
     \/ Fails(c) /\ UNCHANGED <<engine, disturbed>>
     \/ /\ Performed(call[c])
        /\ Fails(c)
        /\ disturbed' = disturbed \cup {call[c].item}
  /\ UNCHANGED <<table, transport>>

(* The last section. Whoever replaces or deletes an entry leaves the pointers *)
(* others hold to it with an object that is no longer in the table.           *)
Orphaned(c) ==
  call' = [d \in Clients |->
             IF d = c THEN Idle
             ELSE [call[d] EXCEPT !.live = @ /\ call[d].item # call[c].item]]

Insert(c) ==
  /\ call[c].act = "create"
  /\ table' = [table EXCEPT ![call[c].item] = Defined(call[c].item, call[c].def)]
  /\ Orphaned(c)

Delete(c) ==
  /\ call[c].act = "drop"
  /\ table' = [table EXCEPT ![call[c].item] = Absent]
  /\ Orphaned(c)

\* Variant: the status is written to whatever entry the name has by now.
WriteByName(c, status) == table' = [table EXCEPT ![call[c].item].status = status]

WriteStatus(c, status) ==
  IF call[c].live THEN table' = [table EXCEPT ![call[c].item].status = status]
  ELSE UNCHANGED table

SetStatus(c) ==
  /\ call[c].act \in {"start", "stop"}
  /\ WriteStatus(c, IF call[c].act = "start" THEN "running" ELSE "stopped")
  /\ call' = [call EXCEPT ![c] = Idle]

Record(c) ==
  /\ call[c].phase = "record"
  /\ Insert(c) \/ Delete(c) \/ SetStatus(c)
  /\ UNCHANGED <<transport, engine, disturbed>>

-----------------------------------------------------------------------------
Command(c) ==
  \/ \E i \in Items : Drop(c, i) \/ StartRule(c, i) \/ StopRule(c, i)
  \/ \E i \in Items, q \in Queries : Create(c, i, q)
  \/ CallEngine(c) \/ Record(c)

Next == SetTransport \/ \E c \in Clients : Command(c)

Spec == Init /\ [][Next]_vars
-----------------------------------------------------------------------------
Tables == [Items -> [def : Queries \cup {"none"}, status : {"none", "running", "stopped"}]]

TypeOK ==
  /\ table \in Tables /\ engine \in Tables /\ transport \in BOOLEAN
  /\ \A c \in Clients : /\ call[c].phase \in {"idle", "engine", "record"}
                        /\ call[c].item \in Items \cup {"none"}
  /\ disturbed \subseteq Items

(* The table says of every stream and rule what the engine has, definition    *)
(* and status, once the commands on it have returned: through refusals, a     *)
(* transport that comes and goes, commands on other items and those on the    *)
(* same one that commute. A create that overlaps another command on its name, *)
(* a start that overlaps a stop, and an answer that is lost, are what the     *)
(* code has no remedy for.                                                   *)
EngineAgrees ==
  \A i \in Items \ disturbed :
    (\A c \in Clients : call[c].item # i) => table[i] = engine[i]
=============================================================================
