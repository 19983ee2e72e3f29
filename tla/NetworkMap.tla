------------------------------ MODULE NetworkMap ------------------------------
(***************************************************************************)
(* NetMapData (data/net_map_data.go): the interfaces of this node as the   *)
(* last scan found them and the default one among them; and NetMapAbility  *)
(* (ability/net_map_ability.go): the table of peers. Each command is one   *)
(* section under the lock of its component, but get_topology, which takes  *)
(* a snapshot of the one and then of the other.                            *)
(*                                                                         *)
(* The operating system brings interfaces up and down and changes their    *)
(* addresses at any time, and a scan of them may fail. Of an address only  *)
(* its name is kept: those used here are valid.                            *)
(***************************************************************************)
EXTENDS Integers, FiniteSets

CONSTANTS
  Clients,
  Interfaces, Addresses,     \* of this node
  Peers, Hosts,              \* names and addresses of the others
  Roles

VARIABLES
  system,                    \* the addresses each interface that is up has
  interfaces, defaultIface,  \* NetMapData
  peers,                     \* NetMapAbility.peers
  call,                      \* where each client is
  scanned,                   \* history: the last scan succeeded
  declared                   \* history: what each peer was last said to be

vars == <<system, interfaces, defaultIface, peers, call, scanned, declared>>
local == <<interfaces, defaultIface, scanned>>
remote == <<peers, declared>>

None == "none"
Kept == "kept"                                  \* a field update_peer leaves alone
NoPeer == [address |-> None, role |-> None]
Idle == [phase |-> "idle"]
Tables == [Interfaces -> SUBSET Addresses]

MapAssumption == None \notin Interfaces \cup Peers \cup Hosts

Init ==
  /\ system = [i \in Interfaces |-> {}]
  /\ interfaces = system /\ defaultIface = None /\ scanned = FALSE
  /\ peers = [p \in Peers |-> NoPeer] /\ declared = peers
  /\ call = [c \in Clients |-> Idle]

LinkChanges ==
  /\ \E i \in Interfaces, addresses \in SUBSET Addresses :
       system' = [system EXCEPT ![i] = addresses]
  /\ UNCHANGED <<local, remote, call>>

-----------------------------------------------------------------------------
(* NetMapData. An interface is in the table when it is up with an address.    *)
Present(table) == {i \in Interfaces : table[i] # {}}

\* Variant: the default interface is left as it was.
DefaultKept(table) == UNCHANGED defaultIface

DefaultIn(table) ==
  defaultIface' = IF defaultIface \in Present(table) THEN defaultIface ELSE None

(* refreshInterfacesLocked. When the scan fails the table is emptied and the  *)
(* default interface stays.                                                   *)
Scan ==
  \/ interfaces' = system /\ DefaultIn(system) /\ scanned' = TRUE
  \/ /\ interfaces' = [i \in Interfaces |-> {}] /\ scanned' = FALSE
     /\ UNCHANGED defaultIface

\* Mount, and the command that lists the interfaces.
ListInterfaces == Scan /\ UNCHANGED <<system, remote, call>>

SetDefaultIface(i) ==
  /\ i \in Present(interfaces)
  /\ defaultIface' = i
  /\ UNCHANGED <<system, interfaces, scanned, remote, call>>

HostAddresses == IF defaultIface \in Interfaces THEN interfaces[defaultIface] ELSE {}

Snapshot == [defaultIface |-> defaultIface, present |-> Present(interfaces),
             hosts |-> HostAddresses, whole |-> scanned]

-----------------------------------------------------------------------------
(* NetMapAbility.                                                             *)
Exists(p) == peers[p] # NoPeer

RegisterPeer(p, address, role) ==
  /\ ~Exists(p)
  /\ peers' = [peers EXCEPT ![p] = [address |-> address, role |-> role]]
  /\ declared' = [declared EXCEPT ![p] = [address |-> address, role |-> role]]
  /\ UNCHANGED <<system, local, call>>

UnregisterPeer(p) ==
  /\ Exists(p)
  /\ peers' = [peers EXCEPT ![p] = NoPeer]
  /\ declared' = [declared EXCEPT ![p] = NoPeer]
  /\ call' = [c \in Clients |->
                IF call[c] = Idle THEN Idle ELSE [call[c] EXCEPT !.stayed = @ \ {p}]]
  /\ UNCHANGED <<system, local>>

\* Variant: zero fields are applied like the others.
EveryField(entry, address, role) == [address |-> address, role |-> role]

GivenFields(entry, address, role) ==
  [address |-> IF address = Kept THEN entry.address ELSE address,
   role    |-> IF role = Kept THEN entry.role ELSE role]

UpdatePeer(p, address, role) ==
  /\ Exists(p)
  /\ peers' = [peers EXCEPT ![p] = GivenFields(@, address, role)]
  /\ declared' = [declared EXCEPT ![p] =
                    [address |-> IF address # Kept THEN address ELSE @.address,
                     role |-> IF role # Kept THEN role ELSE @.role]]
  /\ UNCHANGED <<system, local, call>>

(* lookup: the name first; when it is not there, any peer with the address.   *)
\* Variant: an address is looked up only when no name is given.
NameOnly(name, address) ==
  IF name # None THEN {p \in Peers : p = name /\ Exists(p)}
  ELSE {p \in Peers : Exists(p) /\ peers[p].address = address}

Found(name, address) ==
  IF name # None /\ Exists(name) THEN {name}
  ELSE {p \in Peers : address # None /\ Exists(p) /\ peers[p].address = address}

Lookup(c, name, address) ==
  /\ call[c] = Idle
  /\ \E p \in Found(name, address) \cup {None} :
       /\ p = None <=> Found(name, address) = {}
       /\ call' = [call EXCEPT ![c] =
            [phase |-> "found", peer |-> p, stayed |-> {},
             answering |-> {q \in Peers : Exists(q) /\ (q = name \/ peers[q].address = address)}]]
  /\ UNCHANGED <<system, local, remote>>

(* get_topology. What stayed are the peers there were all the while.          *)
TopologySelf(c) ==
  /\ call[c] = Idle
  /\ call' = [call EXCEPT ![c] = [phase |-> "peers", self |-> Snapshot,
                                  stayed |-> {p \in Peers : Exists(p)}]]
  /\ UNCHANGED <<system, local, remote>>

SnapshotPeers(c) ==
  /\ call[c].phase = "peers"
  /\ call' = [call EXCEPT ![c] = [phase |-> "topology", self |-> call[c].self,
                stayed |-> call[c].stayed, peers |-> {p \in Peers : Exists(p)}]]
  /\ UNCHANGED <<system, local, remote>>

Return(c) ==
  /\ call[c].phase \in {"found", "topology"}
  /\ call' = [call EXCEPT ![c] = Idle]
  /\ UNCHANGED <<system, local, remote>>

Next ==
  \/ LinkChanges \/ ListInterfaces
  \/ \E i \in Interfaces : SetDefaultIface(i)
  \/ \E p \in Peers : UnregisterPeer(p)
  \/ \E p \in Peers, h \in Hosts, r \in Roles : RegisterPeer(p, h, r)
  \/ \E p \in Peers, h \in Hosts \cup {Kept}, r \in Roles \cup {Kept} : UpdatePeer(p, h, r)
  \/ \E c \in Clients : TopologySelf(c) \/ SnapshotPeers(c) \/ Return(c)
  \/ \E c \in Clients, p \in Peers \cup {None}, h \in Hosts \cup {None} :
       <<p, h>> # <<None, None>> /\ Lookup(c, p, h)

Spec == Init /\ [][Next]_vars
-----------------------------------------------------------------------------
TypeOK ==
  /\ system \in Tables /\ interfaces \in Tables
  /\ defaultIface \in Interfaces \cup {None}
  /\ \A p \in Peers : peers[p] = NoPeer \/ peers[p] \in [address : Hosts, role : Roles]

(* A topology names a default interface only among its interfaces, with the   *)
(* addresses that one has, whatever came up or went down since, unless the    *)
(* last scan had failed; and it has every peer that was there all the while.  *)
TopologyWhole ==
  \A c \in Clients :
    /\ call[c].phase \in {"peers", "topology"} /\ call[c].self.whole =>
         \/ call[c].self.defaultIface = None /\ call[c].self.hosts = {}
         \/ call[c].self.defaultIface \in call[c].self.present /\ call[c].self.hosts # {}
    /\ call[c].phase = "topology" => call[c].stayed \subseteq call[c].peers

(* No update of one field of a peer is lost to an update of the other, and    *)
(* none survives the peer ("zero fields are not applied").                    *)
UpdatesKept == peers = declared

(* A lookup finds a peer if one answers to the name or the address it was     *)
(* given, the address also when the name is not there, and only such a one.   *)
LookupFinds ==
  \A c \in Clients : call[c].phase = "found" =>
    IF call[c].answering = {} THEN call[c].peer = None
    ELSE call[c].peer \in call[c].answering

MapHolds == TopologyWhole /\ UpdatesKept /\ LookupFinds
=============================================================================
