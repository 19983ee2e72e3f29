----------------------------- MODULE AtomContract -----------------------------
(***************************************************************************)
(* What an Atom promises whoever embeds it, with every lifecycle operation *)
(* atomic: mounting is all or nothing and only of a mountable registry,    *)
(* the registry is frozen while components serve, and whatever way a       *)
(* mounted atom comes down, nothing serves afterwards. AtomLifecycle is    *)
(* shown to implement it.                                                  *)
(***************************************************************************)
EXTENDS Dependencies

CONSTANTS Components, Deps

VARIABLES
  state,     \* AtomState
  registry,  \* the registered components
  serving    \* the components a mounted or running atom serves

vars == <<state, registry, serving>>

Init == state = "created" /\ registry = {} /\ serving = {}

Register(c) ==
  /\ state = "created"
  /\ registry' = registry \cup {c}
  /\ UNCHANGED <<state, serving>>

Unregister(c) ==
  /\ state \in {"created", "stopped", "failed"}
  /\ registry' = registry \ {c}
  /\ UNCHANGED <<state, serving>>

Mount ==
  /\ state = "created" /\ Mountable(registry, Deps)
  /\ state' = "mounted" /\ serving' = registry
  /\ UNCHANGED registry

Run ==
  /\ state = "mounted" /\ state' = "running"
  /\ UNCHANGED <<registry, serving>>

ComeDown ==
  /\ state \in {"mounted", "running"}
  /\ state' \in {"stopped", "failed"} /\ serving' = {}
  /\ UNCHANGED registry

Reset ==
  /\ state \in {"stopped", "failed"} /\ state' = "created"
  /\ UNCHANGED <<registry, serving>>

Next ==
  \/ \E c \in Components : Register(c) \/ Unregister(c)
  \/ Mount \/ Run \/ ComeDown \/ Reset

Spec == Init /\ [][Next]_vars
=============================================================================
