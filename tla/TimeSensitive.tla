---------------------------- MODULE TimeSensitive ----------------------------
(***************************************************************************)
(* TSNAbility (ability/tsn_ability.go): the interface, the streams of      *)
(* talkers and listeners under one table of identifiers, the priority map  *)
(* and the gate states. Each command changes them in one section under     *)
(* t.mu; but set_interface reads its answer after it, set_priority_map     *)
(* checks the map of its caller before it and reads that map again in it,  *)
(* and gate states are a slice, shared until it is copied.                 *)
(*                                                                         *)
(* Names and addresses are valid here; of a number only the values about   *)
(* its limit are used.                                                     *)
(***************************************************************************)
EXTENDS Integers, FiniteSets

CONSTANTS
  Clients,
  InterfaceNames, StreamIDs,
  Gates                         \* what a slice of gate states may hold

VARIABLES
  iface, streams, prioMap,
  timeAware,                    \* the slice of TSNAbility.timeAware
  memory,                       \* what each slice holds
  call,                         \* where each client is
  stirred,                      \* history: the caller changed the priority map in force
                                \* while it was being set
  granted,                      \* history: the clients told that they have a stream
  gates                         \* history: the gate states last set

vars == <<iface, streams, prioMap, timeAware, memory, call, stirred, granted, gates>>

None == "none"
Torn == "torn"                  \* the pointer of one string with the length of another
Own == "own"                    \* the slice the ability allocates
Idle == [phase |-> "idle"]
NoStream == [by |-> None, direction |-> None]
Priorities == {7, 8}
maxPriority == 7
Mappings == UNION {[ps -> Priorities] : ps \in {{}, {7}, {8}}}  \* each entry is checked alone
GateCounts == {0, 1, 16, 17}

StreamsAssumption == Own \notin Clients

Init ==
  /\ iface = None
  /\ streams = [s \in StreamIDs |-> NoStream]
  /\ prioMap = [p \in {maxPriority} |-> p] /\ stirred = FALSE
  /\ timeAware = Own
  /\ memory = [b \in Clients \cup {Own} |-> None]
  /\ call = [c \in Clients |-> Idle]
  /\ granted = [s \in StreamIDs |-> {}]
  /\ gates = None

-----------------------------------------------------------------------------
(* set_interface. The answer is read after the lock is given back, in two     *)
(* words: a write between them tears it.                                      *)
SetInterface(c, name) ==
  /\ call[c] = Idle
  /\ iface' = name
  /\ call' = [d \in Clients |->
                IF d = c THEN [phase |-> "pointer", wrote |-> name, first |-> None, alone |-> TRUE]
                ELSE IF call[d].phase \in {"idle", "map"} THEN call[d]
                ELSE [call[d] EXCEPT !.alone = FALSE]]
  /\ UNCHANGED <<streams, prioMap, timeAware, memory, stirred, granted, gates>>

ReadPointer(c) ==
  /\ call[c].phase = "pointer"
  /\ call' = [call EXCEPT ![c].phase = "length", ![c].first = iface]
  /\ UNCHANGED <<iface, streams, prioMap, timeAware, memory, stirred, granted, gates>>

Answer(c) ==
  /\ call[c].phase = "length"
  /\ call' = [call EXCEPT ![c].phase = "answered",
                          ![c].first = IF iface = @ THEN @ ELSE Torn]
  /\ UNCHANGED <<iface, streams, prioMap, timeAware, memory, stirred, granted, gates>>

Return(c) ==
  /\ call[c].phase = "answered"
  /\ call' = [call EXCEPT ![c] = Idle]
  /\ UNCHANGED <<iface, streams, prioMap, timeAware, memory, stirred, granted, gates>>

-----------------------------------------------------------------------------
\* Variant: talkers and listeners are told apart by their direction alone.
FreeInDirection(s, direction) == streams[s].direction # direction

Free(s, direction) == streams[s] = NoStream

RegisterStream(c, s, direction, priority, interval) ==
  /\ direction = "talker" => interval > 0
  /\ priority <= maxPriority
  /\ Free(s, direction)
  /\ streams' = [streams EXCEPT ![s] = [by |-> c, direction |-> direction]]
  /\ granted' = [granted EXCEPT ![s] = @ \cup {<<c, direction>>}]
  /\ UNCHANGED <<iface, prioMap, timeAware, memory, call, stirred, gates>>

Unregister(s) ==
  /\ streams[s] # NoStream
  /\ streams' = [streams EXCEPT ![s] = NoStream]
  /\ granted' = [granted EXCEPT ![s] = {}]
  /\ UNCHANGED <<iface, prioMap, timeAware, memory, call, stirred, gates>>

-----------------------------------------------------------------------------
\* Variant: queues are not looked at.
PrioritiesFit(mappings) == DOMAIN mappings \subseteq 0 .. maxPriority

MappingsFit(mappings) ==
  DOMAIN mappings \subseteq 0 .. maxPriority
  /\ \A p \in DOMAIN mappings : mappings[p] <= maxPriority

SetPriority(c, mappings) ==
  /\ call[c] = Idle
  /\ MappingsFit(mappings)
  /\ call' = [call EXCEPT ![c] = [phase |-> "map", mappings |-> mappings, changed |-> FALSE]]
  /\ UNCHANGED <<iface, streams, prioMap, timeAware, memory, stirred, granted, gates>>

\* The map is the caller's, who may write to it from elsewhere.
Stir(c, mappings) ==
  /\ call[c].phase = "map" /\ mappings # call[c].mappings
  /\ call' = [call EXCEPT ![c].mappings = mappings, ![c].changed = TRUE]
  /\ UNCHANGED <<iface, streams, prioMap, timeAware, memory, stirred, granted, gates>>

StorePriority(c) ==
  /\ call[c].phase = "map"
  /\ prioMap' = call[c].mappings /\ stirred' = call[c].changed
  /\ call' = [call EXCEPT ![c] = Idle]
  /\ UNCHANGED <<iface, streams, timeAware, memory, granted, gates>>

-----------------------------------------------------------------------------
(* Gate states. A caller writes to its slice whenever it likes.               *)
Scribble(c) ==
  /\ \E g \in Gates : memory' = [memory EXCEPT ![c] = g]
  /\ UNCHANGED <<iface, streams, prioMap, timeAware, call, stirred, granted, gates>>

\* Variant: the slice of the caller is kept.
SliceKept(c) == timeAware' = c /\ UNCHANGED memory

SliceCopied(c) == timeAware' = Own /\ memory' = [memory EXCEPT ![Own] = memory[c]]

SetTimeAware(c, cycle, count) ==
  /\ cycle >= 0 /\ count > 0 /\ count <= 16
  /\ SliceCopied(c)
  /\ gates' = memory[c]
  /\ UNCHANGED <<iface, streams, prioMap, call, stirred, granted>>

\* The caller is handed a slice of its own.
GetTimeAware(c) ==
  /\ memory' = [memory EXCEPT ![c] = memory[timeAware]]
  /\ UNCHANGED <<iface, streams, prioMap, timeAware, call, stirred, granted, gates>>

Client(c) ==
  \/ \E name \in InterfaceNames : SetInterface(c, name)
  \/ ReadPointer(c) \/ Answer(c) \/ Return(c)
  \/ \E s \in StreamIDs, direction \in {"talker", "listener"}, p \in Priorities, i \in {0, 1} :
       RegisterStream(c, s, direction, p, i)
  \/ Scribble(c) \/ GetTimeAware(c)
  \/ \E mappings \in Mappings : SetPriority(c, mappings) \/ Stir(c, mappings)
  \/ StorePriority(c)
  \/ \E cycle \in {-1, 0}, count \in GateCounts : SetTimeAware(c, cycle, count)

Next ==
  \/ \E c \in Clients : Client(c)
  \/ \E s \in StreamIDs : Unregister(s)

Spec == Init /\ [][Next]_vars
-----------------------------------------------------------------------------
TypeOK ==
  /\ iface \in InterfaceNames \cup {None} /\ prioMap \in Mappings /\ stirred \in BOOLEAN
  /\ timeAware \in DOMAIN memory /\ \A b \in DOMAIN memory : memory[b] \in Gates \cup {None}

(* A set_interface no other overlaps answers with the name it was given.      *)
OwnAnswer ==
  \A c \in Clients : call[c].phase = "answered" /\ call[c].alone => call[c].first = call[c].wrote

(* A stream has one registration, whichever of two callers came first and in  *)
(* whichever direction, and it is the one in the table.                       *)
OneRegistration ==
  \A s \in StreamIDs :
    granted[s] = IF streams[s] = NoStream THEN {} ELSE {<<streams[s].by, streams[s].direction>>}

(* Every priority that is mapped goes to one of the eight queues, whichever   *)
(* of two maps came first, unless its caller wrote to the map it passed       *)
(* between the check of it and the section that copies it.                    *)
QueuesExist ==
  ~stirred => \A p \in DOMAIN prioMap : p <= maxPriority /\ prioMap[p] <= maxPriority

(* The gate states are those last set, whatever callers do to their slices.   *)
GatesOwned == memory[timeAware] = gates

StreamsHold == OwnAnswer /\ OneRegistration /\ QueuesExist /\ GatesOwned
=============================================================================
