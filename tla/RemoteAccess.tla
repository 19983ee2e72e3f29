----------------------------- MODULE RemoteAccess -----------------------------
(***************************************************************************)
(* The keyring, and beside it the way of a remote command (CommandGate),   *)
(* where the set of tokens the keyring accepts is all that matters. A      *)
(* behaviour follows the one or the other, and the other rests.            *)
(***************************************************************************)
EXTENDS Keyring

CONSTANTS
  Clients, Local, Credentials, Names, edgeMaxCapCount, cloudMaxServiceCount  \* CommandGate

VARIABLES
  part,                                                           \* the part that is followed
  valid, role, capabilities, services, call, seen, administered   \* CommandGate

Gate == INSTANCE CommandGate WITH Tokens <- Credentials

ASSUME GateAssumption == Gate!LimitAssumption

keyringVars == vars
gateVars    == <<valid, role, capabilities, services, call, seen, administered>>
accessVars  == <<part, keyringVars, gateVars>>

AccessInit == part \in {"keyring", "gate"} /\ Init /\ Gate!Init

AccessNext ==
  /\ UNCHANGED part
  /\ \/ part = "keyring" /\ Next /\ UNCHANGED gateVars
     \/ part = "gate" /\ Gate!Next /\ UNCHANGED keyringVars

AccessSpec == AccessInit /\ [][AccessNext]_accessVars
-----------------------------------------------------------------------------
(* A remote call needs a token that is accepted, administration is local, an  *)
(* ability asks for its role, and the tables it fills keep to their limits.   *)
CommandsGated == part = "gate" => Gate!TypeOK /\ Gate!CommandsGated
=============================================================================
