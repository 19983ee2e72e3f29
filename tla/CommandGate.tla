----------------------------- MODULE CommandGate -----------------------------
(***************************************************************************)
(* The way of a command into a component (types/command.go): a remote call *)
(* is authenticated by OneKeyAbility.AuthenticateCommand, then dispatched; *)
(* an in-process call is dispatched at once. EdgeRoleAbility and           *)
(* CloudRoleAbility then ask RoleAbility for the role before they do what  *)
(* the command says. Each of these steps takes another lock, so tokens are *)
(* revoked and roles set between any two of them.                          *)
(*                                                                         *)
(* The keyring is the set of the tokens it accepts; Keyring has the rest.  *)
(***************************************************************************)
EXTENDS Integers, FiniteSets

CONSTANTS
  Clients,
  Tokens, Local,               \* credentials; Local is an in-process call
  Names,                       \* capabilities of the edge, services of the cloud
  edgeMaxCapCount, cloudMaxServiceCount

LimitAssumption == edgeMaxCapCount \in Nat /\ cloudMaxServiceCount \in Nat

VARIABLES
  valid,             \* tokens verify_token accepts
  role,              \* RoleAbility.role
  capabilities,      \* EdgeRoleAbility.capabilities
  services,          \* CloudRoleAbility.services
  call,              \* where each client is
  seen,              \* history: what was so at some moment of the call
  administered       \* history: who last changed keyring, role or an allowlist

vars == <<valid, role, capabilities, services, call, seen, administered>>
tables == <<capabilities, services>>

Roles == {"cloud", "edge"}
NoRole == "none"
Idle == [phase |-> "idle"]
Cmd(component, command, arg) == [component |-> component, command |-> command, arg |-> arg]

Administration ==
  {Cmd("RoleAbility", "set_role", r) : r \in Roles}
  \cup {Cmd("OneKeyAbility", "issue_token", t) : t \in Tokens}
  \cup {Cmd("OneKeyAbility", "revoke_token", t) : t \in Tokens}
  \cup {Cmd("OneKeyAbility", "revoke_all", {}), Cmd("KeyringData", "rotate", {}),
        Cmd("CmdAbility", "set_allowlist", {})}

EdgeCommands ==
  {Cmd("EdgeRoleAbility", a, n) : a \in {"add_capability", "remove_capability"}, n \in Names}
  \cup {Cmd("EdgeRoleAbility", "set_capabilities", s) :
          s \in {t \in SUBSET Names : IsFiniteSet(t) /\ Cardinality(t) <= edgeMaxCapCount}}

CloudCommands ==
  {Cmd("CloudRoleAbility", a, n) : a \in {"register_service", "unregister_service"}, n \in Names}

Commands == Administration \cup EdgeCommands \cup CloudCommands
            \cup {Cmd("Unregistered", "any", {})}

Init ==
  /\ valid = {} /\ role = NoRole /\ capabilities = {} /\ services = {}
  /\ call = [c \in Clients |-> Idle]
  /\ seen = [c \in Clients |-> [valid |-> FALSE, roles |-> {}]]
  /\ administered = Local

Goto(c, phase) == call' = [call EXCEPT ![c].phase = phase]
Answer(c, what) ==
  call' = [call EXCEPT ![c] = [phase |-> "answered", credential |-> call[c].credential,
                               answer |-> what]]

-----------------------------------------------------------------------------
(* AuthenticatedCommandContext, CommandContext.                               *)

\* Variant: a command is looked up first.
DispatchFirst(credential) == "dispatch"

Entry(credential) == IF credential = Local THEN "dispatch" ELSE "authenticate"

Begin(c, command, credential) ==
  /\ call[c] = Idle
  /\ call' = [call EXCEPT ![c] = [phase |-> Entry(credential), command |-> command,
                                  credential |-> credential]]
  /\ UNCHANGED <<valid, role, tables, administered>>

\* Variant: of the administration, only what OneKeyAbility offers is restricted.
OneKeyOnly(command) == command.component = "OneKeyAbility" /\ command \in Administration

Restricted(command) == command \in Administration

(* AuthenticateCommand: verify_token, then the list of commands that only     *)
(* in-process calls may give. The authenticator may panic.                    *)
Authenticate(c) ==
  /\ call[c].phase = "authenticate"
  /\ \/ IF call[c].credential \in valid /\ ~Restricted(call[c].command)
        THEN Goto(c, "dispatch") ELSE Answer(c, "authentication failed")
     \/ Answer(c, "authentication failed")
  /\ UNCHANGED <<valid, role, tables, administered>>

(* dispatchContext. The abilities with a role go on to their Check.           *)
Dispatch(c) ==
  LET component == call[c].command.component
  IN /\ call[c].phase = "dispatch"
     /\ CASE component = "Unregistered" -> Answer(c, "missing")
          [] component \in {"EdgeRoleAbility", "CloudRoleAbility"} -> Goto(c, "check")
          [] OTHER -> Goto(c, "body")
     /\ UNCHANGED <<valid, role, tables, administered>>

\* Variant: an ability of the cloud serves the edge.
AnyRole(component) == role # NoRole

RoleFor(component) == role = IF component = "EdgeRoleAbility" THEN "edge" ELSE "cloud"

(* Check asks RoleAbility, then its lock is free again.                       *)
CheckRole(c) ==
  /\ call[c].phase = "check"
  /\ IF RoleFor(call[c].command.component) THEN Goto(c, "body") ELSE Answer(c, "wrong role")
  /\ UNCHANGED <<valid, role, tables, administered>>

-----------------------------------------------------------------------------
(* What the commands do, each in one critical section.                        *)
Administer(x) ==
  /\ x.command \in Administration
  /\ valid' = CASE x.command.command = "issue_token" -> valid \cup {x.command.arg}
                [] x.command.command = "revoke_token" -> valid \ {x.command.arg}
                [] x.command.command \in {"revoke_all", "rotate"} -> {}
                [] OTHER -> valid
  /\ role' = IF x.command.command = "set_role" THEN x.command.arg ELSE role
  /\ administered' = x.credential
  /\ UNCHANGED tables

\* Variant: the limit is looked at after the entry is made.
RoomBelow(name, table, limit) == name \in table \/ Cardinality(table) <= limit

Room(name, table, limit) == name \in table \/ Cardinality(table) < limit

AddCapability(cmd) ==
  /\ cmd.command = "add_capability"
  /\ IF Room(cmd.arg, capabilities, edgeMaxCapCount)
     THEN capabilities' = capabilities \cup {cmd.arg} ELSE UNCHANGED capabilities
  /\ UNCHANGED services

RemoveCapability(cmd) ==
  /\ cmd.command = "remove_capability"
  /\ capabilities' = capabilities \ {cmd.arg} /\ UNCHANGED services

SetCapabilities(cmd) ==
  /\ cmd.command = "set_capabilities"
  /\ capabilities' = cmd.arg /\ UNCHANGED services

RegisterService(cmd) ==
  /\ cmd.command = "register_service"
  /\ IF Room(cmd.arg, services, cloudMaxServiceCount)
     THEN services' = services \cup {cmd.arg} ELSE UNCHANGED services
  /\ UNCHANGED capabilities

UnregisterService(cmd) ==
  /\ cmd.command = "unregister_service"
  /\ services' = services \ {cmd.arg} /\ UNCHANGED capabilities

Execute(c) ==
  LET cmd == call[c].command
  IN /\ call[c].phase = "body"
     /\ \/ Administer(call[c])
        \/ /\ AddCapability(cmd) \/ RemoveCapability(cmd) \/ SetCapabilities(cmd)
              \/ RegisterService(cmd) \/ UnregisterService(cmd)
           /\ UNCHANGED <<valid, role, administered>>
     /\ Answer(c, "done")

Return(c) ==
  /\ call[c].phase = "answered"
  /\ call' = [call EXCEPT ![c] = Idle]
  /\ UNCHANGED <<valid, role, tables, administered>>

-----------------------------------------------------------------------------
\* What a call has seen so far, this state included; of roles until it is answered.
History ==
  seen' = [c \in Clients |->
             IF call'[c] = Idle THEN [valid |-> FALSE, roles |-> {}]
             ELSE [valid |-> seen[c].valid \/ call'[c].credential \in valid',
                   roles |-> IF call'[c].phase = "answered" THEN {}
                             ELSE seen[c].roles \cup {role'}]]

Client(c) ==
  \/ \E command \in Commands, credential \in Tokens \cup {Local} : Begin(c, command, credential)
  \/ Authenticate(c) \/ Dispatch(c) \/ CheckRole(c) \/ Execute(c) \/ Return(c)

Next == (\E c \in Clients : Client(c)) /\ History

Spec == Init /\ [][Next]_vars
-----------------------------------------------------------------------------
TypeOK ==
  /\ valid \subseteq Tokens /\ role \in Roles \cup {NoRole}
  /\ administered \in Tokens \cup {Local}
  /\ \A c \in Clients : call[c].phase \in {"idle", "authenticate", "dispatch", "check", "body",
                                           "answered"}

Remote(c) == call[c] # Idle /\ call[c].credential # Local

(* "Failed callers cannot use it to enumerate registered components": a       *)
(* remote call learns nothing, and reaches nothing, unless its token was      *)
(* accepted while it ran; not one that was revoked before it began.           *)
OnlyTheAccepted ==
  \A c \in Clients :
    Remote(c) /\ ~seen[c].valid =>
      call[c].phase = "authenticate"
      \/ (call[c].phase = "answered" /\ call[c].answer = "authentication failed")

(* Whoever holds a token, the keyring, the role and the allowlists are        *)
(* changed by in-process calls alone. This is what AuthenticateCommand does   *)
(* (one_key_ability.go:134-139), which refuses a remote set_role; the comment *)
(* at role_ability.go:65-67 says the opposite, that a peer with a valid token *)
(* may set any legal role.                                                    *)
AdministrationIsLocal == administered = Local

(* An ability of the edge or the cloud does nothing in a call during which    *)
(* the Atom never had its role. That it still has it is more than the code    *)
(* can say, which asks for the role before it takes its own lock.             *)
RoleHeld ==
  \A c \in Clients :
    call[c].phase = "body" =>
      CASE call[c].command \in EdgeCommands -> "edge" \in seen[c].roles
        [] call[c].command \in CloudCommands -> "cloud" \in seen[c].roles
        [] OTHER -> TRUE

(* The tables keep to their limits, whichever commands fill them.             *)
TablesBounded ==
  Cardinality(capabilities) <= edgeMaxCapCount /\ Cardinality(services) <= cloudMaxServiceCount

CommandsGated == OnlyTheAccepted /\ AdministrationIsLocal /\ RoleHeld /\ TablesBounded
=============================================================================
