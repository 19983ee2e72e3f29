------------------------------ MODULE Databases ------------------------------
(***************************************************************************)
(* MySQLData, PostgreSQLData, SQLiteData, RedisData and MongoDBData        *)
(* (data/database_components.go) over their databaseStore                  *)
(* (data/database_data.go). A command is one access under the lock of the  *)
(* store, but for configure, which validates its argument, copies it and   *)
(* only then enters the store. So what could go wrong is in the memory: a  *)
(* configuration of Redis and of MongoDB has a slice of addresses, and a   *)
(* slice handed in or out shares its bytes until it is copied.             *)
(***************************************************************************)
EXTENDS Integers, FiniteSets

CONSTANTS
  Addresses,   \* what a slice of addresses may hold
  Unusable,    \* those among them that do not validate
  Buffers,     \* slices in memory
  MaxChanges   \* bound on the revisions, and on the changes begun

VARIABLES
  kind,        \* the component that is followed
  memory,      \* what each slice holds
  held,        \* slices the callers can write to
  config,      \* the slice of the configuration, or NoBuffer
  status,      \* DatabaseStatus
  configuring, \* configuring[b] is the configure under way with slice b, or NoCall
  accepted     \* history: the last configure: what it validated, or what its
               \* caller made of it meanwhile

vars == <<kind, memory, held, config, status, configuring, accepted>>

DatabaseKinds == {"redis", "mongodb", "mysql", "postgresql", "sqlite"}
NoBuffer == "none"
Nothing == "nothing"
NoCall == [validated |-> Nothing, changed |-> FALSE]
Sliced == {"redis", "mongodb"}  \* the others take their configuration by value

DatabaseAssumption ==
  Unusable \subseteq Addresses /\ MaxChanges \in Nat /\ NoBuffer \notin Buffers

Init ==
  /\ kind \in DatabaseKinds
  /\ memory = [b \in Buffers |-> Nothing]
  /\ held = {} /\ config = NoBuffer
  /\ status = [configured |-> FALSE, revision |-> 0]
  /\ configuring = [b \in Buffers |-> NoCall]
  /\ accepted = NoCall

Unused == Buffers \ (held \cup {config})
Passed(b) == configuring[b] # NoCall
RevisionsLeft == status.revision + Cardinality({b \in Buffers : Passed(b)}) < MaxChanges

(* The callers: they make slices, write to those they hold, even to one that  *)
(* a configure under way can still see, and forget them.                      *)
Make ==
  \E b \in Unused, a \in Addresses :
    /\ memory' = [memory EXCEPT ![b] = a] /\ held' = held \cup {b}
    /\ UNCHANGED <<kind, config, status, configuring, accepted>>

Mutate ==
  \E b \in held, a \in Addresses :
    /\ Passed(b) => kind \in Sliced
    /\ memory' = [memory EXCEPT ![b] = a]
    /\ configuring' = IF Passed(b) THEN [configuring EXCEPT ![b].changed = TRUE] ELSE configuring
    /\ UNCHANGED <<kind, held, config, status, accepted>>

Forget ==
  \E b \in held :
    /\ ~Passed(b)
    /\ held' = held \ {b}
    /\ UNCHANGED <<kind, memory, config, status, configuring, accepted>>

-----------------------------------------------------------------------------
(* cloneRedisConfig, cloneMongoDBConfig: fresh holds what b held. The other   *)
(* configurations are passed by value, which copies them just so.             *)

\* Variant: the slice goes into the store, or out of it, as it is.
SameSlice(b, fresh) == fresh = b /\ UNCHANGED memory

Clone(b, fresh) ==
  /\ fresh \in Unused
  /\ memory' = [memory EXCEPT ![fresh] = memory[b]]

\* Variant: a configuration is stored before it is validated.
AnyConfig(a) == TRUE

ValidConfig(a) == a \notin Unusable

Validate ==
  \E b \in held :
    /\ ~Passed(b) /\ RevisionsLeft
    /\ ValidConfig(memory[b])
    /\ configuring' = [configuring EXCEPT ![b] = [validated |-> memory[b], changed |-> FALSE]]
    /\ UNCHANGED <<kind, memory, held, config, status, accepted>>

\* The copy is seen by nobody else before it is in the store: one step.
Configure ==
  \E b \in held, fresh \in Buffers :
    /\ Passed(b)
    /\ Clone(b, fresh)
    /\ config' = fresh
    /\ status' = [configured |-> TRUE, revision |-> status.revision + 1]
    /\ accepted' = IF configuring[b].changed THEN [validated |-> memory[b], changed |-> TRUE]
                   ELSE configuring[b]
    /\ configuring' = [configuring EXCEPT ![b] = NoCall]
    /\ UNCHANGED <<kind, held>>

(* get_config and snapshot hand a copy out.                                   *)
GetConfig ==
  \E fresh \in Buffers :
    /\ config # NoBuffer
    /\ Clone(config, fresh)
    /\ held' = held \cup {fresh}
    /\ UNCHANGED <<kind, config, status, configuring, accepted>>

\* set_secret and clear_secret of the kinds that have one.
ChangeSecret ==
  /\ kind # "sqlite" /\ RevisionsLeft
  /\ status' = [status EXCEPT !.revision = @ + 1]
  /\ UNCHANGED <<kind, memory, held, config, configuring, accepted>>

Next == Make \/ Mutate \/ Forget \/ Validate \/ Configure \/ GetConfig \/ ChangeSecret

Spec == Init /\ [][Next]_vars
-----------------------------------------------------------------------------
TypeOK ==
  /\ memory \in [Buffers -> Addresses \cup {Nothing}] /\ held \subseteq Buffers
  /\ configuring \in [Buffers -> [validated : Addresses \cup {Nothing}, changed : BOOLEAN]]
  /\ config \in Buffers \cup {NoBuffer} /\ status.revision \in Nat

(* The configuration is what the last configure validated, whatever its       *)
(* callers do afterwards to the slices they passed or were given, and before  *)
(* it to any other; nothing else changes it without a revision. A caller that *)
(* writes to the slice of its own configure while it runs may store what was  *)
(* never validated, but that is the store's own from then on too.             *)
StoreOwned ==
  /\ status.configured <=> config # NoBuffer
  /\ config # NoBuffer =>
       /\ memory[config] = accepted.validated
       /\ IF accepted.changed THEN kind \in Sliced ELSE accepted.validated \notin Unusable
=============================================================================
