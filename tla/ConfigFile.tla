------------------------------ MODULE ConfigFile ------------------------------
(***************************************************************************)
(* ConfigData (data/config_data.go) and the file ConfigFileAbility saves   *)
(* it to and loads it from (ability/config_file_ability.go). The memory    *)
(* has a lock; the file has none: os.WriteFile truncates it, then writes   *)
(* it in place, and nothing is synced.                                     *)
(*                                                                         *)
(* Of a value its length is kept, 0 is that of a key that is not set.      *)
(* One path; the path an ability remembers only stands in for an argument. *)
(* Strict says what a load answers, never what it does to the memory.      *)
(***************************************************************************)
EXTENDS FiniteSets, Integers, Functions

CONSTANTS
  Clients,   \* goroutines that call Command
  Keys,
  maxConfigKeys, maxConfigValueBytes,  \* what ConfigData accepts
  configFileMaxBytes,                  \* what load accepts
  MaxSaved,  \* bound on the different configurations saved
  NoFile,    \* there is no file
  Torn       \* a file that is not the JSON of a configuration

VARIABLES
  values,    \* ConfigData
  file,      \* what the file holds
  durable,   \* what a crash may leave of it
  call,      \* where each client is
  saved,     \* history: every configuration a save has written
  lastSaved  \* history: the one the last save wrote, if no other save overlapped it

vars == <<values, file, durable, call, saved, lastSaved>>

Idle == [at |-> "idle"]
Empty == [k \in Keys |-> 0]
Configurations == [Keys -> 0 .. maxConfigValueBytes]

FileAssumption ==
  /\ IsFiniteSet(Keys) /\ maxConfigKeys \in Nat /\ maxConfigValueBytes \in Nat
  /\ NoFile # Torn /\ NoFile \notin Configurations /\ Torn \notin Configurations

SetKeys(f) == {k \in Keys : f[k] # 0}

\* The length of its JSON: the values, and one for all the rest.
Size(f) == FoldFunction(+, 1, f)

Init ==
  /\ values = Empty
  /\ file = NoFile /\ durable = {NoFile}
  /\ call = [c \in Clients |-> Idle]
  /\ saved = {} /\ lastSaved = NoFile

Goto(c, phase) == call' = [call EXCEPT ![c].at = phase]
Return(c) == call' = [call EXCEPT ![c] = Idle]
Writing == {c \in Clients : call[c].at = "write"}

-----------------------------------------------------------------------------
(* The memory.                                                               *)

Set(k, v) ==
  /\ v <= maxConfigValueBytes
  /\ k \in SetKeys(values) \/ Cardinality(SetKeys(values)) < maxConfigKeys
  /\ values' = [values EXCEPT ![k] = v]
  /\ UNCHANGED <<file, durable, call, saved, lastSaved>>

Delete(k) ==
  /\ values[k] # 0
  /\ values' = [values EXCEPT ![k] = 0]
  /\ UNCHANGED <<file, durable, call, saved, lastSaved>>

\* Variant: the keys of the file are set one by one, the others survive.
Merge(f) == [k \in Keys |-> IF f[k] # 0 THEN f[k] ELSE values[k]]

Replacement(f) == f

\* ReplaceAll validates everything before it replaces anything.
ReplaceAll(f) ==
  values' = IF Cardinality(SetKeys(f)) <= maxConfigKeys THEN Replacement(f) ELSE values

-----------------------------------------------------------------------------
(* save: look whether the file exists, copy the memory, truncate, write.     *)

Save(c, overwrite) ==
  /\ call[c] = Idle
  /\ overwrite \/ file = NoFile
  /\ call' = [call EXCEPT ![c] = [at |-> "marshal"]]
  /\ UNCHANGED <<values, file, durable, saved, lastSaved>>

Marshal(c) ==
  /\ call[c].at = "marshal"
  /\ Cardinality(saved \cup {values}) <= MaxSaved
  /\ call' = [call EXCEPT ![c] = [at |-> "truncate", payload |-> values]]
  /\ UNCHANGED <<values, file, durable, saved, lastSaved>>

\* The other calls no longer have the file for themselves.
Disturbed(f, c) ==
  [d \in Clients |-> IF d # c /\ f[d].at \in {"write", "read", "apply"}
                     THEN [f[d] EXCEPT !.clean = FALSE] ELSE f[d]]

Truncate(c) ==
  /\ call[c].at = "truncate"
  /\ file' = Torn /\ durable' = durable \cup {Torn}
  /\ call' = Disturbed([call EXCEPT ![c] = [at |-> "write", payload |-> call[c].payload,
                                            clean |-> Writing = {}]], c)
  /\ lastSaved' = NoFile
  /\ UNCHANGED <<values, saved>>

\* A longer text, written to the same place by an overlapping save, leaves its tail.
Write(c) ==
  /\ call[c].at = "write"
  /\ file' \in {call[c].payload} \cup IF call[c].clean THEN {} ELSE {Torn}
  /\ durable' = durable \cup {file'}
  /\ saved' = saved \cup {call[c].payload}
  /\ lastSaved' = IF call[c].clean THEN call[c].payload ELSE NoFile
  /\ call' = Disturbed([call EXCEPT ![c] = Idle], c)
  /\ UNCHANGED values

WriteFails(c) ==
  /\ call[c].at = "write"
  /\ file' \in {file, Torn} /\ durable' = durable \cup {file'}
  /\ lastSaved' = NoFile
  /\ call' = Disturbed([call EXCEPT ![c] = Idle], c)
  /\ UNCHANGED <<values, saved>>

-----------------------------------------------------------------------------
(* load: read the file, parse it, replace the memory.                        *)

Load(c) ==
  /\ call[c] = Idle /\ file # NoFile
  /\ call' = [call EXCEPT ![c] = [at |-> "read", clean |-> Writing = {}, content |-> file]]
  /\ UNCHANGED <<values, file, durable, saved, lastSaved>>

\* What a read that began with a and ended with b may return.
Read(a, b) ==
  IF a = b THEN {a}
  ELSE {Torn} \cup {f \in Configurations :
                      \A k \in Keys : \E part \in {a, b} \ {Torn} : f[k] = part[k]}

ReadAll(c) ==
  /\ call[c].at = "read"
  /\ \E f \in Read(call[c].content, file) :
       call' = [call EXCEPT ![c].at = "apply", ![c].content = f]
  /\ UNCHANGED <<values, file, durable, saved, lastSaved>>

Loadable(f) == f # Torn /\ Size(f) <= configFileMaxBytes

Apply(c) ==
  /\ call[c].at = "apply"
  /\ IF Loadable(call[c].content) THEN ReplaceAll(call[c].content) ELSE UNCHANGED values
  /\ Return(c)
  /\ UNCHANGED <<file, durable, saved, lastSaved>>

\* The power fails and the node is started again, with an empty memory.
Crash ==
  /\ values' = Empty
  /\ file' \in durable /\ durable' = {file'}
  /\ call' = [c \in Clients |-> Idle]
  /\ lastSaved' = NoFile
  /\ UNCHANGED saved

-----------------------------------------------------------------------------
Next ==
  \/ \E k \in Keys : Delete(k) \/ \E v \in 1 .. maxConfigValueBytes : Set(k, v)
  \/ \E c \in Clients :
       \/ \E overwrite \in BOOLEAN : Save(c, overwrite)
       \/ Marshal(c) \/ Truncate(c) \/ Write(c) \/ WriteFails(c)
       \/ Load(c) \/ ReadAll(c) \/ Apply(c)
  \/ Crash

Spec == Init /\ [][Next]_vars
-----------------------------------------------------------------------------
TypeOK ==
  /\ values \in Configurations
  /\ file \in Configurations \cup {NoFile, Torn} /\ file \in durable
  /\ durable \subseteq Configurations \cup {NoFile, Torn}
  /\ \A c \in Clients : call[c].at \in {"idle", "marshal", "truncate", "write", "read", "apply"}
  /\ saved \subseteq Configurations /\ lastSaved \in Configurations \cup {NoFile}

(* A load that no save disturbs makes the memory exactly what the last save   *)
(* wrote; after a crash, or saves that overlapped, it makes it what some save *)
(* wrote, whole, or leaves it as it is; so it does with a file too large.     *)
LoadRestores ==
  [][\A c \in Clients : Apply(c) /\ call[c].clean =>
       /\ values' \in saved \cup {values}
       /\ lastSaved # NoFile /\ Loadable(lastSaved) => values' = lastSaved]_vars

(* The same of a load that a save overlaps. It does not hold: the reader gets *)
(* the beginning of one version and the end of another, which may parse.     *)
LoadsWhole ==
  [][\A c \in Clients : Apply(c) => values' \in saved \cup {values}]_vars

(* config_data.go: the limit on a value agrees with the limit load has; so    *)
(* what one save wrote, of values within the limit, can be loaded. It does    *)
(* not hold: one value may be as long as the whole file may be.              *)
SavedLoads == lastSaved # NoFile => Loadable(lastSaved)
=============================================================================
