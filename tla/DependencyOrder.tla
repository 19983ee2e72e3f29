--------------------------- MODULE DependencyOrder ---------------------------
(***************************************************************************)
(* dependencyOrder of types/lifecycle.go: sort the items, validate what    *)
(* they declare, then append them in depth-first post-order with a         *)
(* three-colour mark. A step is one turn of a loop, of the outer one or of *)
(* that in the closure visit; the stack is that of the calls of visit.     *)
(***************************************************************************)
EXTENDS Dependencies, Sequences

CONSTANTS
  Keys,          \* registry keys, [kind |-> "data" | "ability", name |-> n]
  Declarations,  \* lists that a Dependencies() returns; not all they name is registered
  Panics,        \* what stands for a Dependencies() that panics
  Rank           \* the position of a key in the order of (kind, name)

Listed(list) == {list[i] : i \in DOMAIN list}

\* A position is that of one key, and what stands for a panic is no list.
OrderAssumption ==
  /\ IsFiniteSet(Keys) /\ \A k \in Keys : Rank[k] \in Nat
  /\ \A k, l \in Keys : Rank[k] = Rank[l] => k = l
  /\ \A d \in Declarations : d \in Seq(Listed(d)) /\ Panics \notin Seq(Listed(d))

VARIABLES
  items,     \* the snapshot, in the order the map iteration produced it
  declared,  \* Dependencies() of each item
  left,      \* items the outer loop has still to visit
  rest,      \* dependencies the loop of each visit has still to visit
  mark,      \* state: 0 unseen, 1 on the stack, 2 ordered
  stack, ordered,
  result     \* how far the call is, and what it returned

input == <<items, declared>>
visits == <<left, rest, mark, stack, ordered>>
vars == <<input, visits, result>>

Listings(S) == {s \in [1 .. Cardinality(S) -> S] : \A c \in S : \E i \in DOMAIN s : s[i] = c}

NotRun == [kind |-> "none"]
Finished == result.kind \notin {"none", "valid"}

Start ==
  /\ left = Listed(items) /\ rest = <<>> /\ mark = [k \in Listed(items) |-> 0]
  /\ stack = <<>> /\ ordered = <<>> /\ result = NotRun

Init ==
  /\ \E S \in SUBSET Keys : items \in Listings(S)
  /\ declared \in [Listed(items) -> Declarations \cup {Panics}]
  /\ Start

-----------------------------------------------------------------------------
\* Variant: a loop runs through the list as it came.
Earliest(list, S) ==
  CHOOSE k \in S : \E i \in DOMAIN list : list[i] = k /\ \A j \in 1 .. i - 1 : list[j] \notin S

(* Every loop runs through a sorted list, in whatever order that came: next   *)
(* is the least of what is left.                                              *)
FirstOf(list, S) == CHOOSE k \in S : \A j \in S : Rank[k] <= Rank[j]

Deps == [c \in Listed(items) |-> Listed(declared[c])]

Missing(dep)   == dep \notin Listed(items)
WrongType(dep) == Missing(dep) /\ \E c \in Listed(items) : c.name = dep.name

ErrorsOf(c) ==
  {[comp |-> c, dep |-> d, err |-> IF WrongType(d) THEN "ErrWrongDependencyType"
                                   ELSE "ErrMissingDependency"] : d \in {d \in Deps[c] : Missing(d)}}
ValidationErrors == UNION {ErrorsOf(c) : c \in Listed(items)}

Panicking == {c \in Listed(items) : declared[c] = Panics}

Panicked ==
  /\ result = NotRun /\ Panicking # {}
  /\ result' = [kind |-> "panicked", component |-> FirstOf(items, Panicking)]
  /\ UNCHANGED <<input, visits>>

Rejected ==
  /\ result = NotRun /\ Panicking = {} /\ ValidationErrors # {}
  /\ result' = [kind |-> "invalid", errors |-> ValidationErrors]
  /\ UNCHANGED <<input, visits>>

Validated ==
  /\ result = NotRun /\ Panicking = {} /\ ValidationErrors = {}
  /\ result' = [kind |-> "valid"]
  /\ rest' = Deps
  /\ UNCHANGED <<input, left, mark, stack, ordered>>

-----------------------------------------------------------------------------
Visiting == result.kind = "valid"
Top == stack[Len(stack)]

\* Variant: the cycle reported is the whole stack.
StackStart(key) == 1

CycleStart(key) == CHOOSE i \in 1 .. Len(stack) : stack[i] = key /\ \A j \in 1 .. i - 1 : stack[j] # key

Visit(key) ==
  \/ /\ mark[key] = 0
     /\ mark' = [mark EXCEPT ![key] = 1] /\ stack' = Append(stack, key)
     /\ UNCHANGED <<ordered, result>>
  \/ /\ mark[key] = 1
     /\ result' = [kind |-> "cycle",
                   path |-> Append(SubSeq(stack, CycleStart(key), Len(stack)), key)]
     /\ UNCHANGED <<mark, stack, ordered>>
  \/ /\ mark[key] = 2
     /\ UNCHANGED <<mark, stack, ordered, result>>

VisitItem ==
  /\ Visiting /\ stack = <<>> /\ left # {}
  /\ left' = left \ {FirstOf(items, left)}
  /\ Visit(FirstOf(items, left))
  /\ UNCHANGED <<input, rest>>

VisitDependency ==
  /\ Visiting /\ stack # <<>> /\ rest[Top] # {}
  /\ LET dep == FirstOf(declared[Top], rest[Top])
     IN rest' = [rest EXCEPT ![Top] = @ \ {dep}] /\ Visit(dep)
  /\ UNCHANGED <<input, left>>

\* Variant: a finished component is put in front of those it depends on.
InFront(key) == <<key>> \o ordered

Behind(key) == Append(ordered, key)

Leave ==
  /\ Visiting /\ stack # <<>> /\ rest[Top] = {}
  /\ mark' = [mark EXCEPT ![Top] = 2] /\ ordered' = Behind(Top)
  /\ stack' = SubSeq(stack, 1, Len(stack) - 1)
  /\ UNCHANGED <<input, left, rest, result>>

Return ==
  /\ Visiting /\ stack = <<>> /\ left = {}
  /\ result' = [kind |-> "order", order |-> ordered]
  /\ UNCHANGED <<input, visits>>

Next == Panicked \/ Rejected \/ Validated \/ VisitItem \/ VisitDependency \/ Leave \/ Return

Spec == Init /\ [][Next]_vars
-----------------------------------------------------------------------------
(* Where no component panics dependencyOrder succeeds exactly on the mountable *)
(* snapshots, and what it returns is one of the orders AtomLifecycle lets     *)
(* MountAll take.                                                             *)
OrdersMountable ==
  /\ result.kind = "order" => /\ Mountable(Listed(items), Deps)
                              /\ result.order \in DependencyOrders(Listed(items), Deps)
  /\ result.kind \in {"invalid", "cycle"} => ~Mountable(Listed(items), Deps)

(* The cycle reported is one: a path of declared dependencies back to its    *)
(* first component that visits no component twice.                           *)
CycleIsReal ==
  result.kind = "cycle" =>
    LET path == result.path
    IN /\ Len(path) > 1 /\ path[1] = path[Len(path)]
       /\ \A i \in 1 .. Len(path) - 1 : path[i + 1] \in Deps[path[i]]
       /\ \A i, j \in 1 .. Len(path) - 1 : path[i] = path[j] => i = j

(* dependencyOrder answers truly, with an order or with a cycle.              *)
AnswerSound == OrdersMountable /\ CycleIsReal
=============================================================================
