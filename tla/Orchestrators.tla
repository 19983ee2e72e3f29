----------------------------- MODULE Orchestrators -----------------------------
(***************************************************************************)
(* DockerAbility and K8sAbility: commands that are checked and handed to a *)
(* transport, behind a counter that bounds how many are under way. The     *)
(* limit is kept without a lock: a call adds itself, and takes itself off  *)
(* again when that was one too many. A Kubernetes command that names no    *)
(* namespace takes the one in force, in a lock section of its own.         *)
(*                                                                         *)
(* A name or reference is clean, padded with spaces, or dirty: it has a    *)
(* character outside the whitelist. A namespace is what TrimSpace leaves   *)
(* of the argument: none (Unnamed), a clean one or a dirty one, for no     *)
(* whitelist is applied to it. Sizes are in units of the limits; a stop    *)
(* timeout may be negative.                                                *)
(* A command whose arguments are refused changes nothing.                  *)
(***************************************************************************)
EXTENDS Integers, FiniteSets

CONSTANTS
  Clients,         \* goroutines that call Command
  maxConcurrency,  \* maxDockerConcurrency and maxK8sConcurrency
  maxStopTimeout,  \* dockerMaxStopTimeout
  maxLogTail,      \* k8sMaxLogTail
  maxPayload,      \* k8sMaxPayloadBytes
  maxOutput,       \* k8sMaxOutputBytes
  ContainerActions,  \* start, remove, inspect and get_logs of DockerAbility
  ResourceActions,   \* delete and get of K8sAbility
  Namespaces, DirtyNamespaces, Default, Unnamed

OrdersAssumption ==
  /\ IsFiniteSet(Clients) /\ maxConcurrency \in Nat
  /\ maxStopTimeout \in Nat /\ maxLogTail \in Nat \ {0}
  /\ DirtyNamespaces \subseteq Namespaces
  /\ Default \in Namespaces \ DirtyNamespaces /\ "get_logs" \notin ResourceActions

VARIABLES
  transport,  \* per ability, whether SetTransport has given it one
  context,    \* the namespace of K8sAbility's context
  running,    \* per ability, the counter
  call        \* per goroutine, the command it is in

vars == <<transport, context, running, call>>

Abilities == {"docker", "kubernetes"}
Idle == [at |-> "idle"]
Texts == {"clean", "padded", "dirty"}
Smaller(m, n) == IF m < n THEN m ELSE n

TrimSpace(text) == IF text = "padded" THEN "clean" ELSE text
Valid(text) == text = "clean"

\* An unset namespace is read as "default", and stored as it.
Init ==
  /\ transport = [a \in Abilities |-> FALSE]
  /\ context = Default
  /\ running = [a \in Abilities |-> 0]
  /\ call = [g \in Clients |-> Idle]

SetTransport(a) ==
  /\ transport' = [transport EXCEPT ![a] = ~@]
  /\ UNCHANGED <<context, running, call>>

\* The namespace is trimmed and stored unchecked.
\* History: every namespace in force during a command that names none.
SetContext(namespace, kubeconfig) ==
  /\ kubeconfig <= maxPayload
  /\ context' = IF namespace = Unnamed THEN Default ELSE namespace
  /\ call' = [g \in Clients |->
                IF call[g] = Idle \/ call[g].inForce = {} THEN call[g]
                ELSE [call[g] EXCEPT !.inForce = @ \cup {context'}]]
  /\ UNCHANGED <<transport, running>>

Return(g) == call' = [call EXCEPT ![g] = Idle]

\* The command has passed its checks: what it will give the transport.
Ask(g, ability, op, text, number, namespace) ==
  /\ call[g] = Idle
  /\ call' = [call EXCEPT ![g] =
       [at |-> IF namespace = Unnamed THEN "namespace" ELSE "transport",
        to |-> ability, op |-> op, text |-> text, number |-> number, size |-> 0,
        namespace |-> namespace, loaded |-> 0,
        inForce |-> IF namespace = Unnamed THEN {context} ELSE {}]]
  /\ UNCHANGED <<transport, context, running>>

-----------------------------------------------------------------------------
(* The commands of DockerAbility. Its transport knows no namespaces.         *)

AskDocker(g, op, text, number) == Ask(g, "docker", op, text, number, Default)

ListContainers(g) == AskDocker(g, "list_containers", "clean", 0)

ContainerAction(g, op, text) ==
  /\ Valid(TrimSpace(text))
  /\ AskDocker(g, op, TrimSpace(text), 0)

\* From above only: a negative timeout goes through as it came.
StopTimeout(timeout) == Smaller(timeout, maxStopTimeout)

StopOrRestart(g, op, text, timeout) ==
  /\ Valid(TrimSpace(text))
  /\ AskDocker(g, op, TrimSpace(text), StopTimeout(timeout))

PullImage(g, text) ==
  /\ Valid(TrimSpace(text))
  /\ AskDocker(g, "pull_image", TrimSpace(text), 0)

\* The image is checked trimmed, and handed on as it came.
CreateContainer(g, text) ==
  /\ Valid(TrimSpace(text))
  /\ AskDocker(g, "create_container", text, 0)

-----------------------------------------------------------------------------
(* The commands of K8sAbility.                                               *)

AskKubernetes(g, op, text, number, namespace) == Ask(g, "kubernetes", op, text, number, namespace)

\* A manifest names its own namespace.
Apply(g, size) ==
  /\ size \in 1 .. maxPayload
  /\ AskKubernetes(g, "apply", "clean", size, Default)

ResourceAction(g, op, kind, name, namespace) ==
  /\ Valid(kind) /\ Valid(TrimSpace(name))
  /\ AskKubernetes(g, op, TrimSpace(name), 0, namespace)

List(g, kind, namespace) ==
  /\ Valid(kind)
  /\ AskKubernetes(g, "list", TrimSpace(kind), 0, namespace)

Scale(g, deployment, replicas, namespace) ==
  /\ Valid(TrimSpace(deployment)) /\ replicas >= 0
  /\ AskKubernetes(g, "scale", TrimSpace(deployment), replicas, namespace)

\* 0 stands for the default number of lines, 100.
Lines(tail) == IF tail = 0 THEN 1 ELSE Smaller(tail, maxLogTail)

GetLogs(g, pod, tail, namespace) ==
  /\ Valid(TrimSpace(pod)) /\ tail >= 0
  /\ AskKubernetes(g, "get_logs", TrimSpace(pod), Lines(tail), namespace)

\* Variant: the namespace a cluster has before it is configured.
DefaultNamespace == Default

currentNamespace == context

ReadNamespace(g) ==
  /\ call[g].at = "namespace"
  /\ call' = [call EXCEPT ![g].at = "transport", ![g].namespace = currentNamespace]
  /\ UNCHANGED <<transport, context, running>>

-----------------------------------------------------------------------------
(* Every command: the transport is read, then the counter raised.            *)

ReadTransport(g) ==
  /\ call[g].at = "transport"
  /\ IF transport[call[g].to]
     THEN call' = [call EXCEPT ![g].at = "begin", ![g].loaded = running[call[g].to]]
     ELSE Return(g)
  /\ UNCHANGED <<transport, context, running>>

\* Variant: compared with what was loaded before the addition, as it once was.
LoadedCount(g) == call[g].loaded + 1

Counted(g) == running[call[g].to] + 1

BeginCall(g) ==
  /\ call[g].at = "begin"
  /\ running' = [running EXCEPT ![call[g].to] = @ + 1]
  /\ call' = [call EXCEPT ![g].at = IF Counted(g) > maxConcurrency THEN "tooMany" ELSE "inside",
                         ![g].loaded = 0]
  /\ UNCHANGED <<transport, context>>

\* Variant: a refused call leaves the counter as it raised it.
KeepCount(g) == running

TakenBack(g) == [running EXCEPT ![call[g].to] = @ - 1]

Refuse(g) ==
  /\ call[g].at = "tooMany"
  /\ running' = TakenBack(g)
  /\ Return(g)
  /\ UNCHANGED <<transport, context>>

\* The transport fails, times out or answers; Kubernetes logs are cut to the limit.
Answer(g, size) ==
  /\ call[g].at = "inside"
  /\ call' = [call EXCEPT ![g].at = "end", ![g].number = 0, ![g].inForce = {},
       ![g].size = IF call[g].to = "kubernetes" /\ call[g].op = "get_logs" THEN Smaller(size, maxOutput) ELSE size]
  /\ UNCHANGED <<transport, context, running>>

EndCall(g) ==
  /\ call[g].at = "end"
  /\ running' = [running EXCEPT ![call[g].to] = @ - 1]
  /\ Return(g)
  /\ UNCHANGED <<transport, context>>

-----------------------------------------------------------------------------
Docker(g) ==
  \/ ListContainers(g)
  \/ \E text \in Texts :
       \/ \E op \in ContainerActions : ContainerAction(g, op, text)
       \/ \E op \in {"stop", "restart"}, timeout \in -1 .. maxStopTimeout + 1 :
            StopOrRestart(g, op, text, timeout)
       \/ PullImage(g, text) \/ CreateContainer(g, text)

Kubernetes(g) ==
  \/ \E size \in 0 .. maxPayload + 1 : Apply(g, size)
  \/ \E namespace \in Namespaces \cup {Unnamed}, text \in Texts :
       \/ \E kind \in Texts, op \in ResourceActions : ResourceAction(g, op, kind, text, namespace)
       \/ List(g, text, namespace)
       \/ \E replicas \in -1 .. 1 : Scale(g, text, replicas, namespace)
       \/ \E tail \in -1 .. maxLogTail + 1 : GetLogs(g, text, tail, namespace)

Next ==
  \/ \E a \in Abilities : SetTransport(a)
  \/ \E namespace \in Namespaces \cup {Unnamed}, size \in 0 .. maxPayload + 1 : SetContext(namespace, size)
  \/ \E g \in Clients :
       \/ call[g] = Idle /\ (Docker(g) \/ Kubernetes(g))
       \/ ReadNamespace(g) \/ ReadTransport(g) \/ BeginCall(g) \/ Refuse(g) \/ EndCall(g)
       \/ \E size \in 0 .. maxOutput + 1 : Answer(g, size)

Spec == Init /\ [][Next]_vars
-----------------------------------------------------------------------------
To(a, phases) == {g \in Clients : call[g] # Idle /\ call[g].to = a /\ call[g].at \in phases}

TypeOK ==
  /\ transport \in [Abilities -> BOOLEAN]
  /\ context \in Namespaces
  /\ \A a \in Abilities : running[a] \in 0 .. Cardinality(Clients)
  /\ \A g \in Clients : call[g] = Idle \/
       call[g].at \in {"namespace", "transport", "begin", "tooMany", "inside", "end"}

(* dockerBegin and k8sBegin: the transport never has more calls than the      *)
(* limit, and no interleaving of raising, refusing and ending loses a slot:   *)
(* the counter is the number of the calls that still have to lower it.        *)
SlotsHeld ==
  \A a \in Abilities :
    /\ Cardinality(To(a, {"inside"})) <= maxConcurrency
    /\ running[a] = Cardinality(To(a, {"tooMany", "inside", "end"}))

(* Kubernetes commands that name no namespace act in one that was in force    *)
(* during the command, whatever set_context does meanwhile.                   *)
NamespaceInForce ==
  \A g \in To("kubernetes", {"inside"}) : call[g].inForce # {} => call[g].namespace \in call[g].inForce

(* The comments on the whitelists and the clamps: the container names, image  *)
(* references, kinds and resource names that reach a transport were checked   *)
(* as they are sent, a stop timeout does not exceed its limit, and logs are   *)
(* asked for by 1 to k8sMaxLogTail lines. Three things are not claimed, for   *)
(* the code does not check them: create's image as it is sent                 *)
(* (WhatWasChecked), the namespace (NamespaceChecked), and that a stop        *)
(* timeout is not negative (TimeoutNatural).                                  *)
Clamped ==
  /\ \A g \in To("docker", {"inside"}) :
       /\ call[g].op # "create_container" => Valid(call[g].text)
       /\ call[g].op \in {"stop", "restart"} => call[g].number <= maxStopTimeout
  /\ \A g \in To("kubernetes", {"inside"}) :
       /\ Valid(call[g].text)
       /\ call[g].op = "get_logs" => call[g].number \in 1 .. maxLogTail

GatesHold == SlotsHeld /\ NamespaceInForce /\ Clamped

(* docker_ability.go:217 has create's image checked as pull's is. It is       *)
(* checked trimmed and sent untrimmed: this does not hold.                    *)
WhatWasChecked == \A g \in To("docker", {"inside"}) : Valid(call[g].text)

(* kubernetes_ability.go:413-416 has the whitelist guard the paths            *)
(* /api/v1/namespaces/{ns}/pods/{name}. It checks {name} alone; {ns} is only  *)
(* trimmed, in a command and in set_context: this does not hold.              *)
NamespaceChecked == \A g \in To("kubernetes", {"inside"}) : call[g].namespace \notin DirtyNamespaces

(* docker_ability.go:33-35 gives the timeout of stop and restart an upper     *)
(* limit; the code gives it no lower one: this does not hold.                 *)
TimeoutNatural ==
  \A g \in To("docker", {"inside"}) : call[g].op \in {"stop", "restart"} => call[g].number >= 0

(* kubernetes_ability.go:34 bounds what get_logs, list and get return; only   *)
(* get_logs is cut: this does not hold.                                       *)
OutputBounded == \A g \in To("kubernetes", {"end"}) : call[g].size <= maxOutput
=============================================================================
