---------------------------- MODULE AbilitiesProofs ----------------------------
(***************************************************************************)
(* Theorems about parts of Abilities, for every value of the constants.    *)
(* Each is about the behaviours that follow the part.                      *)
(***************************************************************************)
EXTENDS Abilities, Sequences, FiniteSetTheorems, FunctionTheorems, TLAPS

-----------------------------------------------------------------------------
(* The ports of SerialAbility. A device that is open is in the table, in the  *)
(* hands of a call that will record or close it, or its Close has failed; what *)
(* is in the table once Unmount has begun is on Unmount's list.               *)
InHand(p) == \E c \in Clients : call[c].at \in {"record", "close"} /\ call[c].port = p

Covered(p) == p \in trouble.unclosed \/ InHand(p)

NoneLeaks ==
  /\ \A p \in Ports : device[p] # NoConfig => openPorts[p] # NoConfig \/ Covered(p)
  /\ unmount.at = "remove" /\ device[unmount.port] # NoConfig =>
       Covered(unmount.port)

Emptying ==
  /\ unmount.at = "before" => ~closing
  /\ unmount.at # "before" => closing
  /\ unmount.at \in {"before", "done"} => unmount.ports = {}
  /\ unmount.at = "remove" => unmount.port \in unmount.ports
  /\ unmount.at # "before" => \A p \in Ports : openPorts[p] # NoConfig => p \in unmount.ports

Configured ==
  \A c \in Clients : call[c].at \in {"open", "record", "apply", "update"} => call[c].config \in Configs

PortsBooked ==
  /\ Serial!TablesOK /\ Serial!CallsOK /\ Serial!TeardownOK
  /\ NoneLeaks /\ Emptying /\ Configured

LEMMA SerialBegins ==
  ASSUME Serial!CallsOK, Serial!TeardownOK, NEW c \in Clients,
         NEW phase \in {"open", "close", "apply"}, NEW p \in Ports,
         NEW g \in Configs \cup {NoConfig}, Serial!Begin(c, phase, p, g)
  PROVE  /\ Serial!CallsOK' /\ call[c] = Serial!Idle
         /\ call'[c] = [at |-> phase, port |-> p, config |-> g]
         /\ \A d \in Clients \ {c} : call'[d] = call[d]
         /\ trouble' \in [unclosed : SUBSET Ports, overlap : BOOLEAN]
         /\ trouble'.unclosed = trouble.unclosed
<1>1. /\ call[c] = Serial!Idle
      /\ call' = [call EXCEPT ![c] = [at |-> phase, port |-> p, config |-> g]]
  BY DEF Serial!Begin
<1>2. [at |-> phase, port |-> p, config |-> g] \in Serial!Calls
  BY DEF Serial!Calls
<1>3. Serial!CallsOK' /\ call'[c] = [at |-> phase, port |-> p, config |-> g]
        /\ \A d \in Clients \ {c} : call'[d] = call[d]
  BY <1>1, <1>2 DEF Serial!CallsOK
<1>4. /\ trouble' \in [unclosed : SUBSET Ports, overlap : BOOLEAN]
      /\ trouble'.unclosed = trouble.unclosed
  BY DEF Serial!Begin, Serial!TeardownOK
<1>5. QED BY <1>1, <1>3, <1>4

LEMMA SerialContinues ==
  ASSUME Serial!CallsOK, NEW c \in Clients, call[c].at # "idle",
         NEW phase \in {"record", "close", "update"}, Serial!Continue(c, phase)
  PROVE  /\ Serial!CallsOK' /\ call'[c].at = phase
         /\ call'[c].port = call[c].port /\ call'[c].config = call[c].config
         /\ \A d \in Clients \ {c} : call'[d] = call[d]
<1>1. call[c] \in Serial!Calls
  BY DEF Serial!CallsOK, Serial!Idle
<1>2. call' = [call EXCEPT ![c] = [call[c] EXCEPT !.at = phase]]
  BY DEF Serial!Continue
<1>3. PICK k : k = [call[c] EXCEPT !.at = phase]
  OBVIOUS
<1>4. k \in Serial!Calls /\ k.at = phase /\ k.port = call[c].port /\ k.config = call[c].config
  BY <1>1, <1>3 DEF Serial!Calls
<1>5. QED BY <1>2, <1>3, <1>4 DEF Serial!CallsOK

LEMMA SerialReturns ==
  ASSUME Serial!CallsOK, NEW c \in Clients, Serial!Return(c)
  PROVE  /\ Serial!CallsOK' /\ call'[c] = Serial!Idle
         /\ \A d \in Clients \ {c} : call'[d] = call[d]
BY DEF Serial!CallsOK, Serial!Return

(* A call that is under way has a port, and one that is not is idle.          *)
LEMMA UnderWay ==
  ASSUME Serial!CallsOK, NEW c \in Clients
  PROVE  /\ call[c] = Serial!Idle \/ call[c] \in Serial!Calls
         /\ call[c] = Serial!Idle <=> call[c].at = "idle"
         /\ call[c].at # "idle" => call[c].port \in Ports
BY DEF Serial!CallsOK, Serial!Idle, Serial!Calls

LEMMA TransportCloses ==
  ASSUME Serial!TablesOK, Serial!TeardownOK, NEW p \in Ports, Serial!TransportClose(p)
  PROVE  /\ device' \in [Ports -> Configs \cup {NoConfig}]
         /\ \A q \in Ports \ {p} : device'[q] = device[q]
         /\ device'[p] = NoConfig \/ p \in trouble'.unclosed
         /\ trouble.unclosed \subseteq trouble'.unclosed
         /\ trouble' \in [unclosed : SUBSET Ports, overlap : BOOLEAN]
         /\ device' = device \/ device'[p] = NoConfig
<1>1. CASE device' = [device EXCEPT ![p] = NoConfig] /\ UNCHANGED trouble
  BY <1>1 DEF Serial!TablesOK, Serial!TeardownOK
<1>2. CASE /\ UNCHANGED device
           /\ trouble' = [trouble EXCEPT !.unclosed = @ \cup {p}]
  BY <1>2 DEF Serial!TablesOK, Serial!TeardownOK
<1>3. QED BY <1>1, <1>2 DEF Serial!TransportClose

LEMMA OpenSteps ==
  ASSUME Serial!ConfigAssumption, PortsBooked, NEW c \in Clients
  PROVE  /\ \A p \in Ports, g \in Configs : Serial!Open(c, p, g) => PortsBooked'
         /\ Serial!OpenDevice(c) => PortsBooked'
         /\ Serial!Record(c) => PortsBooked'
         /\ Serial!RollBack(c) => PortsBooked'
<1>0. /\ Serial!TablesOK /\ Serial!CallsOK /\ Serial!TeardownOK
      /\ NoneLeaks /\ Emptying /\ Configured /\ NoConfig \notin Configs
  BY DEF PortsBooked, Serial!ConfigAssumption
<1>1. ASSUME NEW p \in Ports, NEW g \in Configs, Serial!Open(c, p, g) PROVE PortsBooked'
  <2>1. Serial!Begin(c, "open", p, g) /\ UNCHANGED <<closing, openPorts, device, unmount>>
    BY <1>1 DEF Serial!Open
  <2>2. /\ Serial!CallsOK' /\ call[c] = Serial!Idle
        /\ call'[c] = [at |-> "open", port |-> p, config |-> g]
        /\ \A d \in Clients \ {c} : call'[d] = call[d]
        /\ trouble' \in [unclosed : SUBSET Ports, overlap : BOOLEAN]
        /\ trouble'.unclosed = trouble.unclosed
    BY <1>0, <2>1, SerialBegins
  <2>3. Serial!TablesOK' /\ Serial!TeardownOK' /\ Emptying'
    BY <1>0, <2>1, <2>2 DEF Serial!TablesOK, Serial!TeardownOK, Emptying
  <2>4. \A q : InHand(q) => InHand(q)'
    BY <2>2 DEF InHand, Serial!Idle
  <2>5. NoneLeaks'
    BY <1>0, <2>1, <2>2, <2>4 DEF NoneLeaks, Covered
  <2>6. Configured'
    BY <1>0, <2>2 DEF Configured
  <2>7. QED BY <2>2, <2>3, <2>5, <2>6 DEF PortsBooked
<1>2. ASSUME Serial!OpenDevice(c) PROVE PortsBooked'
  <2> DEFINE p == call[c].port
  <2>1. call[c].at = "open" /\ UNCHANGED <<closing, openPorts, unmount, trouble>>
    BY <1>2 DEF Serial!OpenDevice
  <2>2. Serial!TeardownOK' /\ Emptying'
    BY <1>0, <2>1 DEF Serial!TeardownOK, Emptying
  <2>3. CASE device' = [device EXCEPT ![p] = call[c].config] /\ Serial!Continue(c, "record")
    <3>1. /\ Serial!CallsOK' /\ call'[c].at = "record" /\ call'[c].port = p
          /\ call'[c].config = call[c].config /\ \A d \in Clients \ {c} : call'[d] = call[d]
      BY <1>0, <2>1, <2>3, SerialContinues
    <3>2. call[c].config \in Configs
      BY <1>0, <2>1 DEF Configured
    <3>3. Serial!TablesOK' /\ \A q \in Ports \ {p} : device'[q] = device[q]
      BY <1>0, <2>1, <2>3, <3>2 DEF Serial!TablesOK
    <3>4. \A q : q = p \/ InHand(q) => InHand(q)'
      BY <2>1, <3>1 DEF InHand
    <3>5. unmount.at = "remove" => unmount.port \in Ports
      BY <1>0 DEF Emptying, Serial!TeardownOK
    <3>6. NoneLeaks'
      BY <1>0, <2>1, <3>3, <3>4, <3>5 DEF NoneLeaks, Covered
    <3>7. Configured'
      BY <1>0, <3>1, <3>2 DEF Configured
    <3>8. QED BY <2>2, <3>1, <3>3, <3>6, <3>7 DEF PortsBooked
  <2>4. CASE UNCHANGED device /\ Serial!Return(c)
    <3>1. Serial!CallsOK' /\ call'[c] = Serial!Idle /\ \A d \in Clients \ {c} : call'[d] = call[d]
      BY <1>0, <2>4, SerialReturns
    <3>2. \A q : InHand(q) => InHand(q)'
      BY <2>1, <3>1 DEF InHand
    <3>3. Serial!TablesOK' /\ NoneLeaks'
      BY <1>0, <2>1, <2>4, <3>2 DEF Serial!TablesOK, NoneLeaks, Covered
    <3>4. Configured'
      BY <1>0, <3>1 DEF Configured, Serial!Idle
    <3>5. QED BY <2>2, <3>1, <3>3, <3>4 DEF PortsBooked
  <2>5. QED BY <1>2, <2>3, <2>4 DEF Serial!OpenDevice, Serial!TransportOpen
<1>3. ASSUME Serial!Record(c) PROVE PortsBooked'
  <2> DEFINE p == call[c].port
  <2>1. /\ call[c].at = "record" /\ ~closing /\ openPorts[p] = NoConfig
        /\ openPorts' = [openPorts EXCEPT ![p] = call[c].config]
        /\ UNCHANGED <<closing, device, unmount, trouble>>
    BY <1>3 DEF Serial!Record, Serial!MayRecord
  <2>2. Serial!CallsOK' /\ call'[c] = Serial!Idle /\ \A d \in Clients \ {c} : call'[d] = call[d]
    BY <1>0, <1>3, SerialReturns DEF Serial!Record
  <2>3. call[c].config \in Configs /\ p \in Ports
    BY <1>0, <2>1, UnderWay DEF Configured
  <2>4. Serial!TablesOK' /\ openPorts'[p] # NoConfig /\ \A q \in Ports \ {p} : openPorts'[q] = openPorts[q]
    BY <1>0, <2>1, <2>3 DEF Serial!TablesOK
  <2>5. unmount.at = "before"
    BY <1>0, <2>1 DEF Emptying
  <2>6. Serial!TeardownOK' /\ Emptying'
    BY <1>0, <2>1, <2>5 DEF Serial!TeardownOK, Emptying
  <2>7. \A q \in Ports \ {p} : InHand(q) => InHand(q)'
    BY <2>1, <2>2 DEF InHand
  <2>8. NoneLeaks'
    BY <1>0, <2>1, <2>4, <2>5, <2>7 DEF NoneLeaks, Covered
  <2>9. Configured'
    BY <1>0, <2>2 DEF Configured, Serial!Idle
  <2>10. QED BY <2>2, <2>4, <2>6, <2>8, <2>9 DEF PortsBooked
<1>4. ASSUME Serial!RollBack(c) PROVE PortsBooked'
  <2>1. /\ call[c].at = "record" /\ Serial!Continue(c, "close")
        /\ UNCHANGED <<closing, openPorts, device, unmount, trouble>>
    BY <1>4 DEF Serial!RollBack
  <2>2. /\ Serial!CallsOK' /\ call'[c].at = "close" /\ call'[c].port = call[c].port
        /\ \A d \in Clients \ {c} : call'[d] = call[d]
    BY <1>0, <2>1, SerialContinues
  <2>3. \A q : InHand(q) => InHand(q)'
    BY <2>1, <2>2 DEF InHand
  <2>4. Serial!TablesOK' /\ Serial!TeardownOK' /\ Emptying' /\ NoneLeaks'
    BY <1>0, <2>1, <2>3 DEF Serial!TablesOK, Serial!TeardownOK, Emptying, NoneLeaks, Covered
  <2>5. Configured'
    BY <1>0, <2>2 DEF Configured
  <2>6. QED BY <2>2, <2>4, <2>5 DEF PortsBooked
<1>5. QED BY <1>1, <1>2, <1>3, <1>4

LEMMA CloseSteps ==
  ASSUME PortsBooked, NEW c \in Clients
  PROVE  /\ \A p \in Ports : Serial!Close(c, p) => PortsBooked'
         /\ Serial!CloseDevice(c) => PortsBooked'
<1>0. /\ Serial!TablesOK /\ Serial!CallsOK /\ Serial!TeardownOK
      /\ NoneLeaks /\ Emptying /\ Configured
  BY DEF PortsBooked
<1>1. ASSUME NEW p \in Ports, Serial!Close(c, p) PROVE PortsBooked'
  <2>1. /\ ~closing /\ openPorts' = [openPorts EXCEPT ![p] = NoConfig]
        /\ Serial!Begin(c, "close", p, NoConfig)
        /\ UNCHANGED <<closing, device, unmount>>
    BY <1>1 DEF Serial!Close
  <2>2. /\ Serial!CallsOK' /\ call[c] = Serial!Idle
        /\ call'[c] = [at |-> "close", port |-> p, config |-> NoConfig]
        /\ \A d \in Clients \ {c} : call'[d] = call[d]
        /\ trouble' \in [unclosed : SUBSET Ports, overlap : BOOLEAN]
        /\ trouble'.unclosed = trouble.unclosed
    BY <1>0, <2>1, SerialBegins
  <2>3. unmount.at = "before"
    BY <1>0, <2>1 DEF Emptying
  <2>4. Serial!TablesOK' /\ \A q \in Ports \ {p} : openPorts'[q] = openPorts[q]
    BY <1>0, <2>1 DEF Serial!TablesOK
  <2>5. Serial!TeardownOK' /\ Emptying'
    BY <1>0, <2>1, <2>2, <2>3 DEF Serial!TeardownOK, Emptying
  <2>6. InHand(p)' /\ \A q : InHand(q) => InHand(q)'
    BY <2>2 DEF InHand, Serial!Idle
  <2>7. NoneLeaks'
    BY <1>0, <2>1, <2>2, <2>3, <2>4, <2>6 DEF NoneLeaks, Covered
  <2>8. Configured'
    BY <1>0, <2>2 DEF Configured
  <2>9. QED BY <2>2, <2>4, <2>5, <2>7, <2>8 DEF PortsBooked
<1>2. ASSUME Serial!CloseDevice(c) PROVE PortsBooked'
  <2> DEFINE p == call[c].port
  <2>1. /\ call[c].at = "close" /\ Serial!TransportClose(p)
        /\ UNCHANGED <<closing, openPorts, unmount>>
    BY <1>2 DEF Serial!CloseDevice
  <2>2. Serial!CallsOK' /\ call'[c] = Serial!Idle /\ \A d \in Clients \ {c} : call'[d] = call[d]
    BY <1>0, <1>2, SerialReturns DEF Serial!CloseDevice
  <2>3. p \in Ports
    BY <1>0, <2>1, UnderWay
  <2>4. /\ device' \in [Ports -> Configs \cup {NoConfig}]
        /\ \A q \in Ports \ {p} : device'[q] = device[q]
        /\ device'[p] = NoConfig \/ p \in trouble'.unclosed
        /\ trouble.unclosed \subseteq trouble'.unclosed
        /\ trouble' \in [unclosed : SUBSET Ports, overlap : BOOLEAN]
    BY <1>0, <2>1, <2>3, TransportCloses
  <2>5. Serial!TablesOK' /\ Serial!TeardownOK' /\ Emptying'
    BY <1>0, <2>1, <2>4 DEF Serial!TablesOK, Serial!TeardownOK, Emptying
  <2>6. \A q \in Ports \ {p} : InHand(q) => InHand(q)'
    BY <2>2 DEF InHand
  <2>7. unmount.at = "remove" => unmount.port \in Ports
    BY <1>0 DEF Emptying, Serial!TeardownOK
  <2>8. NoneLeaks'
    BY <1>0, <2>1, <2>4, <2>6, <2>7 DEF NoneLeaks, Covered
  <2>9. Configured'
    BY <1>0, <2>2 DEF Configured, Serial!Idle
  <2>10. QED BY <2>2, <2>5, <2>8, <2>9 DEF PortsBooked
<1>3. QED BY <1>1, <1>2

LEMMA ConfigSteps ==
  ASSUME Serial!ConfigAssumption, PortsBooked, NEW c \in Clients
  PROVE  /\ \A p \in Ports, g \in Configs : Serial!SetConfig(c, p, g) => PortsBooked'
         /\ Serial!ApplyConfig(c) => PortsBooked'
         /\ Serial!Update(c) => PortsBooked'
<1>0. /\ Serial!TablesOK /\ Serial!CallsOK /\ Serial!TeardownOK
      /\ NoneLeaks /\ Emptying /\ Configured /\ NoConfig \notin Configs
  BY DEF PortsBooked, Serial!ConfigAssumption
<1>1. ASSUME NEW p \in Ports, NEW g \in Configs, Serial!SetConfig(c, p, g) PROVE PortsBooked'
  <2>1. Serial!Begin(c, "apply", p, g) /\ UNCHANGED <<closing, openPorts, device, unmount>>
    BY <1>1 DEF Serial!SetConfig
  <2>2. /\ Serial!CallsOK' /\ call[c] = Serial!Idle
        /\ call'[c] = [at |-> "apply", port |-> p, config |-> g]
        /\ \A d \in Clients \ {c} : call'[d] = call[d]
        /\ trouble' \in [unclosed : SUBSET Ports, overlap : BOOLEAN]
        /\ trouble'.unclosed = trouble.unclosed
    BY <1>0, <2>1, SerialBegins
  <2>3. Serial!TablesOK' /\ Serial!TeardownOK' /\ Emptying'
    BY <1>0, <2>1, <2>2 DEF Serial!TablesOK, Serial!TeardownOK, Emptying
  <2>4. \A q : InHand(q) => InHand(q)'
    BY <2>2 DEF InHand, Serial!Idle
  <2>5. NoneLeaks'
    BY <1>0, <2>1, <2>2, <2>4 DEF NoneLeaks, Covered
  <2>6. Configured'
    BY <1>0, <2>2 DEF Configured
  <2>7. QED BY <2>2, <2>3, <2>5, <2>6 DEF PortsBooked
<1>2. ASSUME call[c].at \in {"apply", "update"},
             Serial!CallsOK', call'[c].at \in {"idle", "update"},
             call'[c].at = "update" => call'[c].config = call[c].config,
             \A d \in Clients \ {c} : call'[d] = call[d],
             UNCHANGED <<closing, unmount, trouble>>,
             Serial!TablesOK',
             \A q \in Ports : device'[q] # NoConfig => device[q] # NoConfig,
             \A q \in Ports : openPorts'[q] # NoConfig <=> openPorts[q] # NoConfig
      PROVE  PortsBooked'
  <2>1. \A q : InHand(q) => InHand(q)'
    BY <1>2 DEF InHand, Serial!Idle
  <2>2. unmount.at = "remove" => unmount.port \in Ports
    BY <1>0 DEF Emptying, Serial!TeardownOK
  <2>3. NoneLeaks'
    BY <1>0, <1>2, <2>1, <2>2 DEF NoneLeaks, Covered
  <2>4. Serial!TeardownOK'
    BY <1>0, <1>2 DEF Serial!TeardownOK
  <2>5. Emptying'
    BY <1>0, <1>2 DEF Emptying
  <2>6. Configured'
    BY <1>0, <1>2 DEF Configured, Serial!Idle
  <2>7. QED BY <1>2, <2>3, <2>4, <2>5, <2>6 DEF PortsBooked
<1>3. ASSUME Serial!ApplyConfig(c) PROVE PortsBooked'
  <2>1. call[c].at = "apply" /\ UNCHANGED <<closing, openPorts, unmount, trouble>>
    BY <1>3 DEF Serial!ApplyConfig
  <2>2. call[c].config \in Configs /\ call[c].port \in Ports
    BY <1>0, <2>1, UnderWay DEF Configured
  <2>3. CASE Serial!TransportApply(call[c].port, call[c].config) /\ Serial!Continue(c, "update")
    <3>1. Serial!TablesOK' /\ \A q \in Ports : device'[q] # NoConfig => device[q] # NoConfig
      BY <1>0, <2>1, <2>2, <2>3 DEF Serial!TransportApply, Serial!TablesOK
    <3>2. /\ Serial!CallsOK' /\ call'[c].at = "update" /\ call'[c].config = call[c].config
          /\ \A d \in Clients \ {c} : call'[d] = call[d]
      BY <1>0, <2>1, <2>3, SerialContinues
    <3>3. QED BY <1>2, <2>1, <3>1, <3>2
  <2>4. CASE UNCHANGED device /\ Serial!Return(c)
    <3>1. Serial!TablesOK'
      BY <1>0, <2>1, <2>4 DEF Serial!TablesOK
    <3>2. Serial!CallsOK' /\ call'[c].at = "idle" /\ \A d \in Clients \ {c} : call'[d] = call[d]
      BY <1>0, <2>4, SerialReturns DEF Serial!Idle
    <3>3. QED BY <1>2, <2>1, <2>4, <3>1, <3>2
  <2>5. QED BY <1>3, <2>3, <2>4 DEF Serial!ApplyConfig
<1>4. ASSUME Serial!Update(c) PROVE PortsBooked'
  <2>1. /\ call[c].at = "update" /\ Serial!Return(c)
        /\ UNCHANGED <<closing, device, unmount, trouble>>
    BY <1>4 DEF Serial!Update
  <2>2. call[c].config \in Configs /\ call[c].port \in Ports
    BY <1>0, <2>1, UnderWay DEF Configured
  <2>3. Serial!TablesOK' /\ \A q \in Ports : openPorts'[q] # NoConfig <=> openPorts[q] # NoConfig
    BY <1>0, <1>4, <2>1, <2>2 DEF Serial!Update, Serial!StillOpen, Serial!TablesOK
  <2>4. Serial!CallsOK' /\ call'[c].at = "idle" /\ \A d \in Clients \ {c} : call'[d] = call[d]
    BY <1>0, <2>1, SerialReturns DEF Serial!Idle
  <2>5. QED BY <1>2, <2>1, <2>3, <2>4
<1>5. QED BY <1>1, <1>3, <1>4

LEMMA TeardownSteps ==
  ASSUME PortsBooked
  PROVE  /\ Serial!UnmountBegins => PortsBooked'
         /\ \A p \in Ports : Serial!UnmountCloses(p) => PortsBooked'
         /\ Serial!UnmountRemoves => PortsBooked'
         /\ Serial!UnmountReturns => PortsBooked'
<1>0. /\ Serial!TablesOK /\ Serial!CallsOK /\ Serial!TeardownOK
      /\ NoneLeaks /\ Emptying /\ Configured
  BY DEF PortsBooked
<1>1. ASSUME call' = call PROVE Serial!CallsOK' /\ Configured' /\ \A q : InHand(q) => InHand(q)'
  BY <1>0, <1>1 DEF Serial!CallsOK, Configured, InHand
<1>2. ASSUME Serial!UnmountBegins PROVE PortsBooked'
  <2>1. /\ unmount.at = "before" /\ closing'
        /\ unmount' = [at |-> "close", ports |-> Serial!IsOpen(openPorts)]
        /\ UNCHANGED <<openPorts, device, call, trouble>>
    BY <1>2 DEF Serial!UnmountBegins
  <2>2. Serial!TablesOK' /\ Serial!TeardownOK'
    BY <1>0, <2>1 DEF Serial!TablesOK, Serial!TeardownOK, Serial!IsOpen
  <2>3. Emptying'
    BY <2>1 DEF Emptying, Serial!IsOpen
  <2>4. NoneLeaks'
    BY <1>0, <1>1, <2>1 DEF NoneLeaks, Covered
  <2>5. QED BY <1>1, <2>1, <2>2, <2>3, <2>4 DEF PortsBooked
<1>3. ASSUME NEW p \in Ports, Serial!UnmountCloses(p) PROVE PortsBooked'
  <2>1. /\ unmount.at = "close" /\ p \in unmount.ports /\ Serial!TransportClose(p)
        /\ unmount' = [at |-> "remove", ports |-> unmount.ports, port |-> p]
        /\ UNCHANGED <<closing, openPorts, call>>
    BY <1>3 DEF Serial!UnmountCloses
  <2>2. /\ device' \in [Ports -> Configs \cup {NoConfig}]
        /\ \A q \in Ports \ {p} : device'[q] = device[q]
        /\ device'[p] = NoConfig \/ p \in trouble'.unclosed
        /\ trouble.unclosed \subseteq trouble'.unclosed
        /\ trouble' \in [unclosed : SUBSET Ports, overlap : BOOLEAN]
    BY <1>0, <2>1, TransportCloses
  <2>3. Serial!TablesOK' /\ Serial!TeardownOK'
    BY <1>0, <2>1, <2>2 DEF Serial!TablesOK, Serial!TeardownOK
  <2>4. Emptying'
    BY <1>0, <2>1 DEF Emptying
  <2>5. NoneLeaks'
    BY <1>0, <1>1, <2>1, <2>2 DEF NoneLeaks, Covered
  <2>6. QED BY <1>1, <2>1, <2>3, <2>4, <2>5 DEF PortsBooked
<1>4. ASSUME Serial!UnmountRemoves PROVE PortsBooked'
  <2> DEFINE p == unmount.port
  <2>1. /\ unmount.at = "remove" /\ openPorts' = [openPorts EXCEPT ![p] = NoConfig]
        /\ unmount' = [at |-> "close", ports |-> unmount.ports \ {p}]
        /\ UNCHANGED <<closing, device, call, trouble>>
    BY <1>4 DEF Serial!UnmountRemoves
  <2>2. p \in Ports
    BY <1>0, <2>1 DEF Emptying, Serial!TeardownOK
  <2>3. /\ Serial!TablesOK' /\ openPorts'[p] = NoConfig
        /\ \A q \in Ports \ {p} : openPorts'[q] = openPorts[q]
    BY <1>0, <2>1, <2>2 DEF Serial!TablesOK
  <2>4. Serial!TeardownOK'
    BY <1>0, <2>1 DEF Serial!TeardownOK
  <2>5. Emptying'
    BY <1>0, <2>1, <2>3 DEF Emptying
  <2>6. NoneLeaks'
    BY <1>0, <1>1, <2>1, <2>2, <2>3 DEF NoneLeaks, Covered
  <2>7. QED BY <1>1, <2>1, <2>3, <2>4, <2>5, <2>6 DEF PortsBooked
<1>5. ASSUME Serial!UnmountReturns PROVE PortsBooked'
  <2>1. /\ unmount.at = "close" /\ unmount.ports = {}
        /\ unmount' = [at |-> "done", ports |-> {}]
        /\ UNCHANGED <<closing, openPorts, device, call, trouble>>
    BY <1>5 DEF Serial!UnmountReturns
  <2>2. Serial!TablesOK' /\ Serial!TeardownOK' /\ Emptying'
    BY <1>0, <2>1 DEF Serial!TablesOK, Serial!TeardownOK, Emptying
  <2>3. NoneLeaks'
    BY <1>0, <1>1, <2>1 DEF NoneLeaks, Covered
  <2>4. QED BY <1>1, <2>1, <2>2, <2>3 DEF PortsBooked
<1>6. QED BY <1>2, <1>3, <1>4, <1>5

LEMMA PortsUnchanged ==
  ASSUME PortsBooked, UNCHANGED Serial!vars
  PROVE  PortsBooked'
<1>1. UNCHANGED <<closing, openPorts, device, call, unmount, trouble>>
  BY DEF Serial!vars
<1>2. Serial!TablesOK' /\ Serial!CallsOK' /\ Serial!TeardownOK' /\ Emptying' /\ Configured'
  BY <1>1 DEF PortsBooked, Serial!TablesOK, Serial!CallsOK, Serial!TeardownOK, Emptying, Configured
<1>3. NoneLeaks'
  BY <1>1 DEF PortsBooked, NoneLeaks, Covered, InHand
<1>4. QED BY <1>2, <1>3 DEF PortsBooked

LEMMA PortsStep ==
  ASSUME Serial!ConfigAssumption, PortsBooked, [Serial!Next]_(Serial!vars)
  PROVE  PortsBooked'
<1>1. CASE UNCHANGED Serial!vars
  BY <1>1, PortsUnchanged
<1>2. CASE Serial!Next
  BY <1>1, <1>2, OpenSteps, CloseSteps, ConfigSteps, TeardownSteps DEF Serial!Next, Serial!Closed
<1>3. QED BY <1>1, <1>2

(* What the table says while commands come one by one and Close succeeds: it  *)
(* differs from the devices only on the port of the one call under way, as    *)
(* far as that call has come, and on those that Unmount is about to remove.   *)
Calm == ~trouble.overlap /\ trouble.unclosed = {}

Unmounting(p) == unmount.at \in {"close", "remove"} /\ p \in unmount.ports
Settled(p) == openPorts[p] = device[p] \/ Unmounting(p)
Busy(p) == \E c \in Clients : call[c].at # "idle" /\ call[c].port = p
Alone(c) == \A d \in Clients \ {c} : call[d].at = "idle"

CallOn(c, p) ==
  /\ call[c].at \in {"open", "record", "close"} => openPorts[p] = NoConfig /\ ~Unmounting(p)
  /\ call[c].at = "open" => device[p] = NoConfig
  /\ call[c].at = "record" => device[p] = call[c].config
  /\ call[c].at \in {"apply", "update"} /\ unmount.at = "before" => openPorts[p] # NoConfig
  /\ call[c].at = "apply" => Settled(p)
  /\ call[c].at = "update" =>
       IF unmount.at = "before" THEN device[p] = call[c].config ELSE Settled(p)

TableInForce ==
  /\ \A c \in Clients : call[c].at # "idle" => Alone(c) /\ CallOn(c, call[c].port)
  /\ \A p \in Ports : ~Busy(p) => Settled(p)
  /\ unmount.at = "remove" => device[unmount.port] = NoConfig

LEMMA CalmBegins ==
  ASSUME Serial!TeardownOK, Serial!CallsOK, NEW c \in Clients, NEW phase, NEW p, NEW g,
         Serial!Begin(c, phase, p, g), Calm'
  PROVE  Calm /\ \A d \in Clients : call[d].at = "idle"
<1>1. trouble' = [trouble EXCEPT !.overlap = @ \/ \E d \in Clients : call[d] # Serial!Idle]
  BY DEF Serial!Begin
<1>2. trouble'.unclosed = trouble.unclosed
  BY <1>1 DEF Serial!TeardownOK
<1>3. trouble'.overlap = (trouble.overlap \/ \E d \in Clients : call[d] # Serial!Idle)
  BY <1>1 DEF Serial!TeardownOK
<1>4. ~trouble.overlap /\ \A d \in Clients : call[d] = Serial!Idle
  BY <1>3 DEF Calm
<1>5. Calm
  BY <1>2, <1>4 DEF Calm
<1>6. QED BY <1>4, <1>5 DEF Serial!Idle

LEMMA CalmCloses ==
  ASSUME Serial!TablesOK, Serial!TeardownOK, NEW p \in Ports, Serial!TransportClose(p), Calm'
  PROVE  Calm /\ device'[p] = NoConfig
<1>1. CASE device' = [device EXCEPT ![p] = NoConfig] /\ UNCHANGED trouble
  BY <1>1 DEF Serial!TablesOK, Calm
<1>2. CASE UNCHANGED device /\ trouble' = [trouble EXCEPT !.unclosed = @ \cup {p}]
  <2>1. trouble'.unclosed = trouble.unclosed \cup {p}
    BY <1>2 DEF Serial!TeardownOK
  <2>2. QED BY <2>1 DEF Calm
<1>3. QED BY <1>1, <1>2 DEF Serial!TransportClose

(* What a step of the one call under way, on port p, leaves to show.          *)
LEMMA OneCall ==
  ASSUME NEW c \in Clients, NEW p \in Ports, Alone(c),
         \A q \in Ports : ~Busy(q) => Settled(q),
         call[c].at # "idle" => call[c].port = p,
         \A d \in Clients \ {c} : call'[d] = call[d],
         \A q \in Ports \ {p} : openPorts'[q] = openPorts[q] /\ device'[q] = device[q],
         unmount' = unmount,
         call'[c].at # "idle" => call'[c].port = p /\ CallOn(c, p)',
         call'[c].at = "idle" => Settled(p)',
         unmount.at = "remove" => device'[unmount.port] = NoConfig
  PROVE  TableInForce'
<1>1. ASSUME NEW d \in Clients, call'[d].at # "idle"
      PROVE  Alone(d)' /\ call'[d].port = p /\ CallOn(d, p)'
  BY <1>1 DEF Alone
<1>2. ASSUME NEW q \in Ports, ~Busy(q)' PROVE Settled(q)'
  <2>1. CASE q = p
    <3>1. call'[c].at = "idle"
      BY <1>2, <2>1 DEF Busy
    <3>2. QED BY <2>1, <3>1
  <2>2. CASE q # p
    <3>1. ~Busy(q)
      BY <1>2, <2>2 DEF Busy, Alone
    <3>2. Settled(q)
      BY <3>1
    <3>3. QED BY <2>2, <3>2 DEF Settled, Unmounting
  <2>3. QED BY <2>1, <2>2
<1>3. \A d \in Clients : call'[d].at # "idle" => (CallOn(d, call[d].port))'
  BY <1>1 DEF CallOn, Settled, Unmounting
<1>4. QED BY <1>1, <1>2, <1>3 DEF TableInForce

(* A command that begins while calm finds its port settled, and Unmount not   *)
(* begun.                                                                    *)
LEMMA BeginsSettled ==
  ASSUME PortsBooked, Calm => TableInForce, Calm', NEW c \in Clients,
         NEW phase \in {"open", "close", "apply"}, NEW p \in Ports,
         NEW g \in Configs \cup {NoConfig}, Serial!Begin(c, phase, p, g), ~closing
  PROVE  /\ Alone(c) /\ call[c].at = "idle" /\ unmount.at = "before"
         /\ \A q \in Ports : ~Busy(q) => Settled(q)
         /\ openPorts[p] = device[p]
         /\ call'[c] = [at |-> phase, port |-> p, config |-> g]
         /\ \A d \in Clients \ {c} : call'[d] = call[d]
<1>1. Calm /\ \A d \in Clients : call[d].at = "idle"
  BY CalmBegins DEF PortsBooked
<1>2. unmount.at = "before"
  BY DEF PortsBooked, Emptying
<1>3. (\A q \in Ports : ~Busy(q) => Settled(q)) /\ ~Busy(p)
  BY <1>1 DEF TableInForce, Busy
<1>4. openPorts[p] = device[p]
  BY <1>2, <1>3 DEF Settled, Unmounting
<1>5. /\ call'[c] = [at |-> phase, port |-> p, config |-> g]
      /\ \A d \in Clients \ {c} : call'[d] = call[d]
  BY SerialBegins DEF PortsBooked
<1>6. QED BY <1>1, <1>2, <1>3, <1>4, <1>5 DEF Alone

LEMMA BeginningInForce ==
  ASSUME PortsBooked, Calm => TableInForce, NEW c \in Clients, NEW p \in Ports
  PROVE  /\ \A g \in Configs : Serial!Open(c, p, g) /\ Calm' => TableInForce'
         /\ \A g \in Configs : Serial!SetConfig(c, p, g) /\ Calm' => TableInForce'
         /\ Serial!Close(c, p) /\ Calm' => TableInForce'
<1>1. ASSUME NEW g \in Configs, Serial!Open(c, p, g), Calm' PROVE TableInForce'
  <2>1. /\ ~closing /\ openPorts[p] = NoConfig /\ Serial!Begin(c, "open", p, g)
        /\ UNCHANGED <<openPorts, device, unmount>>
    BY <1>1 DEF Serial!Open
  <2>2. /\ Alone(c) /\ call[c].at = "idle" /\ unmount.at = "before"
        /\ \A q \in Ports : ~Busy(q) => Settled(q)
        /\ openPorts[p] = device[p] /\ call'[c] = [at |-> "open", port |-> p, config |-> g]
        /\ \A d \in Clients \ {c} : call'[d] = call[d]
    BY <1>1, <2>1, BeginsSettled
  <2>3. CallOn(c, p)'
    BY <2>1, <2>2 DEF CallOn, Unmounting
  <2>4. QED BY <2>1, <2>2, <2>3, OneCall
<1>2. ASSUME NEW g \in Configs, Serial!SetConfig(c, p, g), Calm' PROVE TableInForce'
  <2>1. /\ ~closing /\ openPorts[p] # NoConfig /\ Serial!Begin(c, "apply", p, g)
        /\ UNCHANGED <<openPorts, device, unmount>>
    BY <1>2 DEF Serial!SetConfig
  <2>2. /\ Alone(c) /\ call[c].at = "idle" /\ unmount.at = "before"
        /\ \A q \in Ports : ~Busy(q) => Settled(q)
        /\ openPorts[p] = device[p] /\ call'[c] = [at |-> "apply", port |-> p, config |-> g]
        /\ \A d \in Clients \ {c} : call'[d] = call[d]
    BY <1>2, <2>1, BeginsSettled
  <2>3. CallOn(c, p)'
    BY <2>1, <2>2 DEF CallOn, Settled
  <2>4. QED BY <2>1, <2>2, <2>3, OneCall
<1>3. ASSUME Serial!Close(c, p), Calm' PROVE TableInForce'
  <2>1. /\ ~closing /\ openPorts' = [openPorts EXCEPT ![p] = NoConfig]
        /\ Serial!Begin(c, "close", p, NoConfig) /\ UNCHANGED <<device, unmount>>
    BY <1>3 DEF Serial!Close
  <2>2. /\ Alone(c) /\ call[c].at = "idle" /\ unmount.at = "before"
        /\ \A q \in Ports : ~Busy(q) => Settled(q)
        /\ call'[c] = [at |-> "close", port |-> p, config |-> NoConfig]
        /\ \A d \in Clients \ {c} : call'[d] = call[d]
    BY <1>3, <2>1, BeginsSettled
  <2>3. openPorts'[p] = NoConfig /\ \A q \in Ports \ {p} : openPorts'[q] = openPorts[q] /\ device'[q] = device[q]
    BY <2>1 DEF PortsBooked, Serial!TablesOK
  <2>4. CallOn(c, p)'
    BY <2>1, <2>2, <2>3 DEF CallOn, Unmounting
  <2>5. QED BY <2>1, <2>2, <2>3, <2>4, OneCall
<1>4. QED BY <1>1, <1>2, <1>3

(* What is known of the one call under way.                                   *)
LEMMA UnderWayInForce ==
  ASSUME PortsBooked, TableInForce, NEW c \in Clients, call[c].at # "idle"
  PROVE  /\ call[c].port \in Ports /\ Alone(c) /\ CallOn(c, call[c].port)
         /\ \A q \in Ports : ~Busy(q) => Settled(q)
         /\ unmount.at = "remove" =>
              device[unmount.port] = NoConfig /\ Unmounting(unmount.port)
BY UnderWay DEF PortsBooked, TableInForce, Emptying, Unmounting

LEMMA ContinuingInForce ==
  ASSUME Serial!ConfigAssumption, PortsBooked, Calm => TableInForce, NEW c \in Clients, Calm'
  PROVE  /\ Serial!OpenDevice(c) => TableInForce'
         /\ Serial!Record(c) => TableInForce'
         /\ Serial!RollBack(c) => TableInForce'
         /\ Serial!CloseDevice(c) => TableInForce'
         /\ Serial!ApplyConfig(c) => TableInForce'
         /\ Serial!Update(c) => TableInForce'
<1>0. /\ Serial!TablesOK /\ Serial!CallsOK /\ Serial!TeardownOK
      /\ Emptying /\ Configured /\ NoConfig \notin Configs
  BY DEF PortsBooked, Serial!ConfigAssumption
<1>1. PICK p : p = call[c].port
  OBVIOUS
<1>2. ASSUME trouble' = trouble PROVE TableInForce
  BY <1>2 DEF Calm
<1>3. ASSUME call[c].at # "idle", TableInForce
      PROVE  /\ p \in Ports /\ Alone(c) /\ CallOn(c, p)
             /\ \A q \in Ports : ~Busy(q) => Settled(q)
             /\ unmount.at = "remove" =>
                  device[unmount.port] = NoConfig /\ Unmounting(unmount.port)
  BY <1>1, <1>3, UnderWayInForce
<1>4. ASSUME Serial!OpenDevice(c) PROVE TableInForce'
  <2>1. call[c].at = "open" /\ UNCHANGED <<openPorts, unmount, trouble>>
    BY <1>4 DEF Serial!OpenDevice
  <2>2. /\ p \in Ports /\ Alone(c) /\ CallOn(c, p)
        /\ \A q \in Ports : ~Busy(q) => Settled(q)
        /\ unmount.at = "remove" =>
             device[unmount.port] = NoConfig /\ Unmounting(unmount.port)
    BY <1>2, <1>3, <2>1
  <2>3. openPorts[p] = NoConfig /\ ~Unmounting(p) /\ device[p] = NoConfig
    BY <2>1, <2>2 DEF CallOn
  <2>4. CASE device' = [device EXCEPT ![p] = call[c].config] /\ Serial!Continue(c, "record")
    <3>1. /\ call'[c].at = "record" /\ call'[c].port = p /\ call'[c].config = call[c].config
          /\ \A d \in Clients \ {c} : call'[d] = call[d]
      BY <1>0, <1>1, <2>1, <2>4, SerialContinues
    <3>2. device'[p] = call[c].config /\ \A q \in Ports \ {p} : device'[q] = device[q]
      BY <1>0, <2>2, <2>4 DEF Serial!TablesOK
    <3>3. CallOn(c, p)'
      BY <2>1, <2>3, <3>1, <3>2 DEF CallOn, Unmounting
    <3>4. unmount.at = "remove" => device'[unmount.port] = NoConfig
      <4>1. ASSUME unmount.at = "remove"
            PROVE  unmount.port \in Ports \ {p}
        BY <1>0, <2>2, <2>3, <4>1 DEF Emptying, Serial!TeardownOK
      <4>2. QED BY <2>2, <3>2, <4>1
    <3>5. QED BY <1>1, <2>1, <2>2, <3>1, <3>2, <3>3, <3>4, OneCall
  <2>5. CASE UNCHANGED device /\ Serial!Return(c)
    <3>1. call'[c].at = "idle" /\ \A d \in Clients \ {c} : call'[d] = call[d]
      BY <1>0, <2>5, SerialReturns DEF Serial!Idle
    <3>2. Settled(p)'
      BY <2>1, <2>3, <2>5 DEF Settled
    <3>3. QED BY <1>1, <2>1, <2>2, <2>5, <3>1, <3>2, OneCall
  <2>6. QED BY <1>1, <1>4, <2>4, <2>5 DEF Serial!OpenDevice, Serial!TransportOpen
<1>5. ASSUME Serial!Record(c) PROVE TableInForce'
  <2>1. /\ call[c].at = "record" /\ ~closing
        /\ openPorts' = [openPorts EXCEPT ![p] = call[c].config]
        /\ UNCHANGED <<device, unmount, trouble>>
    BY <1>1, <1>5 DEF Serial!Record, Serial!MayRecord
  <2>2. /\ p \in Ports /\ Alone(c) /\ CallOn(c, p)
        /\ \A q \in Ports : ~Busy(q) => Settled(q)
        /\ unmount.at = "before"
    BY <1>0, <1>2, <1>3, <2>1 DEF Emptying
  <2>3. openPorts'[p] = call[c].config /\ \A q \in Ports \ {p} : openPorts'[q] = openPorts[q]
    BY <1>0, <2>1, <2>2 DEF Serial!TablesOK
  <2>4. call'[c].at = "idle" /\ \A d \in Clients \ {c} : call'[d] = call[d]
    BY <1>0, <1>5, SerialReturns DEF Serial!Record, Serial!Idle
  <2>5. Settled(p)'
    BY <2>1, <2>2, <2>3 DEF Settled, CallOn
  <2>6. QED BY <1>1, <2>1, <2>2, <2>3, <2>4, <2>5, OneCall
<1>6. ASSUME Serial!RollBack(c) PROVE TableInForce'
  <2>1. /\ call[c].at = "record" /\ Serial!Continue(c, "close")
        /\ UNCHANGED <<openPorts, device, unmount, trouble>>
    BY <1>6 DEF Serial!RollBack
  <2>2. /\ p \in Ports /\ Alone(c) /\ CallOn(c, p)
        /\ \A q \in Ports : ~Busy(q) => Settled(q)
        /\ unmount.at = "remove" => device[unmount.port] = NoConfig
    BY <1>2, <1>3, <2>1
  <2>3. /\ call'[c].at = "close" /\ call'[c].port = p
        /\ \A d \in Clients \ {c} : call'[d] = call[d]
    BY <1>0, <1>1, <2>1, SerialContinues
  <2>4. CallOn(c, p)'
    BY <2>1, <2>2, <2>3 DEF CallOn, Unmounting
  <2>5. QED BY <1>1, <2>1, <2>2, <2>3, <2>4, OneCall
<1>7. ASSUME Serial!CloseDevice(c) PROVE TableInForce'
  <2>1. /\ call[c].at = "close" /\ Serial!TransportClose(p) /\ UNCHANGED <<openPorts, unmount>>
    BY <1>1, <1>7 DEF Serial!CloseDevice
  <2>2. p \in Ports
    BY <1>0, <1>1, <2>1, UnderWay
  <2>3. Calm /\ device'[p] = NoConfig /\ \A q \in Ports \ {p} : device'[q] = device[q]
    BY <1>0, <2>1, <2>2, CalmCloses, TransportCloses
  <2>4. /\ Alone(c) /\ CallOn(c, p) /\ \A q \in Ports : ~Busy(q) => Settled(q)
        /\ unmount.at = "remove" => device[unmount.port] = NoConfig
    BY <1>3, <2>1, <2>3
  <2>5. call'[c].at = "idle" /\ \A d \in Clients \ {c} : call'[d] = call[d]
    BY <1>0, <1>7, SerialReturns DEF Serial!CloseDevice, Serial!Idle
  <2>6. Settled(p)'
    BY <2>1, <2>3, <2>4 DEF Settled, CallOn
  <2>7. unmount.at = "remove" => device'[unmount.port] = NoConfig
    <3>1. unmount.at = "remove" => unmount.port \in Ports
      BY <1>0 DEF Emptying, Serial!TeardownOK
    <3>2. QED BY <2>3, <2>4, <3>1
  <2>8. QED BY <1>1, <2>1, <2>2, <2>3, <2>4, <2>5, <2>6, <2>7, OneCall
<1>8. ASSUME Serial!ApplyConfig(c) PROVE TableInForce'
  <2>1. call[c].at = "apply" /\ UNCHANGED <<openPorts, unmount, trouble>>
    BY <1>8 DEF Serial!ApplyConfig
  <2>2. /\ p \in Ports /\ Alone(c) /\ CallOn(c, p)
        /\ \A q \in Ports : ~Busy(q) => Settled(q)
        /\ unmount.at = "remove" =>
             device[unmount.port] = NoConfig /\ Unmounting(unmount.port)
    BY <1>2, <1>3, <2>1
  <2>3. Settled(p) /\ (unmount.at = "before" => openPorts[p] # NoConfig)
    BY <2>1, <2>2 DEF CallOn
  <2>4. CASE Serial!TransportApply(p, call[c].config) /\ Serial!Continue(c, "update")
    <3>1. /\ call'[c].at = "update" /\ call'[c].port = p /\ call'[c].config = call[c].config
          /\ \A d \in Clients \ {c} : call'[d] = call[d]
      BY <1>0, <1>1, <2>1, <2>4, SerialContinues
    <3>2. /\ device[p] # NoConfig /\ device'[p] = call[c].config
          /\ \A q \in Ports \ {p} : device'[q] = device[q]
      BY <1>0, <2>2, <2>4 DEF Serial!TransportApply, Serial!TablesOK
    <3>3. unmount.at # "before" => Unmounting(p)
      <4>1. openPorts[p] # NoConfig \/ Unmounting(p)
        BY <2>3, <3>2 DEF Settled
      <4>2. ASSUME unmount.at # "before", openPorts[p] # NoConfig PROVE Unmounting(p)
        BY <1>0, <2>2, <4>2 DEF Emptying, Unmounting, Serial!TeardownOK
      <4>3. QED BY <4>1, <4>2
    <3>4. CallOn(c, p)'
      BY <2>1, <2>3, <3>1, <3>2, <3>3 DEF CallOn, Settled, Unmounting
    <3>5. unmount.at = "remove" => device'[unmount.port] = NoConfig
      <4>1. unmount.at = "remove" => unmount.port \in Ports
        BY <1>0 DEF Emptying, Serial!TeardownOK
      <4>2. QED BY <2>2, <3>2, <4>1
    <3>6. QED BY <1>1, <2>1, <2>2, <3>1, <3>2, <3>4, <3>5, OneCall
  <2>5. CASE UNCHANGED device /\ Serial!Return(c)
    <3>1. call'[c].at = "idle" /\ \A d \in Clients \ {c} : call'[d] = call[d]
      BY <1>0, <2>5, SerialReturns DEF Serial!Idle
    <3>2. Settled(p)'
      BY <2>1, <2>3, <2>5 DEF Settled, Unmounting
    <3>3. QED BY <1>1, <2>1, <2>2, <2>5, <3>1, <3>2, OneCall
  <2>6. QED BY <1>1, <1>8, <2>4, <2>5 DEF Serial!ApplyConfig
<1>9. ASSUME Serial!Update(c) PROVE TableInForce'
  <2>1. call[c].at = "update" /\ Serial!Return(c) /\ UNCHANGED <<device, unmount, trouble>>
    BY <1>9 DEF Serial!Update
  <2>2. /\ p \in Ports /\ Alone(c) /\ CallOn(c, p)
        /\ \A q \in Ports : ~Busy(q) => Settled(q)
        /\ unmount.at = "remove" => device[unmount.port] = NoConfig
    BY <1>2, <1>3, <2>1
  <2>3. call'[c].at = "idle" /\ \A d \in Clients \ {c} : call'[d] = call[d]
    BY <1>0, <2>1, SerialReturns DEF Serial!Idle
  <2>4. CASE openPorts[p] # NoConfig /\ ~closing
    <3>1. openPorts' = [openPorts EXCEPT ![p] = call[c].config]
      BY <1>1, <1>9, <2>4 DEF Serial!Update, Serial!StillOpen
    <3>2. openPorts'[p] = call[c].config /\ \A q \in Ports \ {p} : openPorts'[q] = openPorts[q]
      BY <1>0, <2>2, <3>1 DEF Serial!TablesOK
    <3>3. device[p] = call[c].config
      BY <1>0, <2>1, <2>2, <2>4 DEF Emptying, CallOn
    <3>4. Settled(p)'
      BY <2>1, <3>2, <3>3 DEF Settled
    <3>5. QED BY <1>1, <2>1, <2>2, <2>3, <3>2, <3>4, OneCall
  <2>5. CASE ~(openPorts[p] # NoConfig /\ ~closing)
    <3>1. openPorts' = openPorts
      BY <1>1, <1>9, <2>5 DEF Serial!Update, Serial!StillOpen
    <3>2. unmount.at # "before"
      BY <1>0, <2>1, <2>2, <2>5 DEF Emptying, CallOn
    <3>3. Settled(p)'
      BY <2>1, <2>2, <3>1, <3>2 DEF CallOn, Settled, Unmounting
    <3>4. QED BY <1>1, <2>1, <2>2, <2>3, <3>1, <3>3, OneCall
  <2>6. QED BY <2>4, <2>5
<1>10. QED BY <1>4, <1>5, <1>6, <1>7, <1>8, <1>9

(* What a step of Unmount, which touches no call, leaves to show.             *)
LEMMA UnmountInForce ==
  ASSUME TableInForce, Serial!CallsOK, call' = call,
         \A p \in Ports : Settled(p) => Settled(p)',
         \A c \in Clients, p \in Ports : call[c].at # "idle" /\ CallOn(c, p) => CallOn(c, p)',
         unmount'.at = "remove" => device'[unmount'.port] = NoConfig
  PROVE  TableInForce'
<1>1. ASSUME NEW c \in Clients, call'[c].at # "idle"
      PROVE  Alone(c)' /\ (CallOn(c, call[c].port))'
  <2>1. PICK p \in Ports : p = call[c].port
    BY <1>1, UnderWay
  <2>2. CallOn(c, p)'
    BY <1>1, <2>1 DEF TableInForce
  <2>3. Alone(c)'
    BY <1>1 DEF TableInForce, Alone
  <2>4. (CallOn(c, call[c].port))'
    BY <2>1, <2>2 DEF CallOn, Settled, Unmounting
  <2>5. QED BY <2>3, <2>4
<1>2. ASSUME NEW q \in Ports, ~Busy(q)' PROVE Settled(q)'
  BY <1>2 DEF TableInForce, Busy
<1>3. QED BY <1>1, <1>2 DEF TableInForce

LEMMA UnmountingInForce ==
  ASSUME PortsBooked, Calm => TableInForce, Calm'
  PROVE  /\ Serial!UnmountBegins => TableInForce'
         /\ \A p \in Ports : Serial!UnmountCloses(p) => TableInForce'
         /\ Serial!UnmountRemoves => TableInForce'
         /\ Serial!UnmountReturns => TableInForce'
<1>0. Serial!TablesOK /\ Serial!CallsOK /\ Serial!TeardownOK /\ Emptying
  BY DEF PortsBooked
<1>1. ASSUME trouble' = trouble PROVE TableInForce
  BY <1>1 DEF Calm
<1>2. ASSUME Serial!UnmountBegins PROVE TableInForce'
  <2>1. /\ unmount.at = "before"
        /\ unmount' = [at |-> "close", ports |-> Serial!IsOpen(openPorts)]
        /\ UNCHANGED <<openPorts, device, call, trouble>>
    BY <1>2 DEF Serial!UnmountBegins
  <2>2. TableInForce
    BY <1>1, <2>1
  <2>3. \A p \in Ports : Unmounting(p)' <=> openPorts[p] # NoConfig
    BY <2>1 DEF Unmounting, Serial!IsOpen
  <2>4. \A p \in Ports : Settled(p) => openPorts[p] = device[p]
    BY <2>1 DEF Settled, Unmounting
  <2>5. \A p \in Ports : Settled(p) => Settled(p)'
    BY <2>1, <2>4 DEF Settled
  <2>6. \A c \in Clients, p \in Ports : CallOn(c, p) => CallOn(c, p)'
    BY <2>1, <2>3, <2>5 DEF CallOn, Settled
  <2>7. QED BY <1>0, <2>1, <2>2, <2>5, <2>6, UnmountInForce
<1>3. ASSUME NEW p \in Ports, Serial!UnmountCloses(p) PROVE TableInForce'
  <2>1. /\ unmount.at = "close" /\ p \in unmount.ports /\ Serial!TransportClose(p)
        /\ unmount' = [at |-> "remove", ports |-> unmount.ports, port |-> p]
        /\ UNCHANGED <<openPorts, call>>
    BY <1>3 DEF Serial!UnmountCloses
  <2>2. Calm /\ device'[p] = NoConfig /\ \A q \in Ports \ {p} : device'[q] = device[q]
    BY <1>0, <2>1, CalmCloses, TransportCloses
  <2>3. (\A q : Unmounting(q)' <=> Unmounting(q)) /\ Unmounting(p)
    BY <2>1 DEF Unmounting
  <2>4. \A q \in Ports : Settled(q) => Settled(q)'
    BY <2>1, <2>2, <2>3 DEF Settled
  <2>5. \A c \in Clients, q \in Ports : call[c].at # "idle" /\ CallOn(c, q) => CallOn(c, q)'
    BY <2>1, <2>2, <2>3, <2>4 DEF CallOn
  <2>6. unmount'.at = "remove" => device'[unmount'.port] = NoConfig
    BY <2>1, <2>2
  <2>7. QED BY <1>0, <2>1, <2>2, <2>4, <2>5, <2>6, UnmountInForce
<1>4. ASSUME Serial!UnmountRemoves PROVE TableInForce'
  <2>1. PICK p : p = unmount.port
    OBVIOUS
  <2>2. /\ unmount.at = "remove" /\ openPorts' = [openPorts EXCEPT ![p] = NoConfig]
        /\ unmount' = [at |-> "close", ports |-> unmount.ports \ {p}]
        /\ UNCHANGED <<device, call, trouble>>
    BY <1>4, <2>1 DEF Serial!UnmountRemoves
  <2>3. p \in Ports /\ Unmounting(p) /\ TableInForce
    BY <1>0, <1>1, <2>1, <2>2 DEF Emptying, Serial!TeardownOK, Unmounting
  <2>4. /\ device[p] = NoConfig /\ openPorts'[p] = NoConfig
        /\ \A q \in Ports \ {p} : openPorts'[q] = openPorts[q]
    BY <1>0, <2>1, <2>2, <2>3 DEF TableInForce, Serial!TablesOK
  <2>5. \A q \in Ports \ {p} : Unmounting(q)' <=> Unmounting(q)
    BY <2>2 DEF Unmounting
  <2>6. \A q \in Ports : Settled(q) => Settled(q)'
    BY <2>2, <2>4, <2>5 DEF Settled
  <2>7. \A c \in Clients, q \in Ports : CallOn(c, q) => CallOn(c, q)'
    BY <2>2, <2>3, <2>4, <2>5, <2>6 DEF CallOn
  <2>8. QED BY <1>0, <2>2, <2>3, <2>6, <2>7, UnmountInForce
<1>5. ASSUME Serial!UnmountReturns PROVE TableInForce'
  <2>1. /\ unmount.at = "close" /\ unmount.ports = {}
        /\ unmount' = [at |-> "done", ports |-> {}]
        /\ UNCHANGED <<openPorts, device, call, trouble>>
    BY <1>5 DEF Serial!UnmountReturns
  <2>2. \A q : ~Unmounting(q)' /\ ~Unmounting(q)
    BY <2>1 DEF Unmounting
  <2>3. \A q \in Ports : Settled(q) => Settled(q)'
    BY <2>1, <2>2 DEF Settled
  <2>4. \A c \in Clients, q \in Ports : CallOn(c, q) => CallOn(c, q)'
    BY <2>1, <2>2, <2>3 DEF CallOn
  <2>5. QED BY <1>0, <1>1, <2>1, <2>3, <2>4, UnmountInForce
<1>6. QED BY <1>2, <1>3, <1>4, <1>5

PortsInductive == closing \in BOOLEAN /\ PortsBooked /\ (Calm => TableInForce)

LEMMA InForceStep ==
  ASSUME Serial!ConfigAssumption, PortsBooked, Calm => TableInForce, [Serial!Next]_(Serial!vars), Calm'
  PROVE  TableInForce'
<1>1. CASE UNCHANGED Serial!vars
  <2>1. UNCHANGED <<closing, openPorts, device, call, unmount, trouble>>
    BY <1>1 DEF Serial!vars
  <2>2. TableInForce
    BY <2>1 DEF Calm
  <2>3. QED BY <2>1, <2>2 DEF TableInForce, Busy, Alone, CallOn, Settled, Unmounting
<1>2. CASE Serial!Next
  BY <1>1, <1>2, BeginningInForce, ContinuingInForce, UnmountingInForce
     DEF Serial!Next, Serial!Closed
<1>3. QED BY <1>1, <1>2

LEMMA ClosingStep ==
  ASSUME closing \in BOOLEAN, [Serial!Next]_(Serial!vars)
  PROVE  closing' \in BOOLEAN
BY DEF Serial!Next, Serial!vars, Serial!Closed, Serial!Open, Serial!SetConfig, Serial!Close,
   Serial!OpenDevice, Serial!Record, Serial!RollBack, Serial!CloseDevice, Serial!ApplyConfig,
   Serial!Update, Serial!UnmountCloses, Serial!UnmountBegins, Serial!UnmountRemoves,
   Serial!UnmountReturns

LEMMA PortsInit == Serial!Init => PortsInductive
<1> SUFFICES ASSUME Serial!Init PROVE PortsInductive
  OBVIOUS
<1>1. /\ ~closing /\ closing \in BOOLEAN
      /\ openPorts = [p \in Ports |-> NoConfig] /\ device = [p \in Ports |-> NoConfig]
      /\ call = [c \in Clients |-> Serial!Idle]
      /\ unmount = [at |-> "before", ports |-> {}]
      /\ trouble = [unclosed |-> {}, overlap |-> FALSE]
  BY DEF Serial!Init
<1>2. Serial!TablesOK /\ Serial!CallsOK /\ Serial!TeardownOK
  BY <1>1 DEF Serial!TablesOK, Serial!CallsOK, Serial!TeardownOK
<1>3. NoneLeaks /\ Emptying /\ Configured
  BY <1>1 DEF NoneLeaks, Emptying, Configured, Serial!Idle
<1>4. TableInForce
  BY <1>1 DEF TableInForce, Settled, Serial!Idle
<1>5. QED BY <1>1, <1>2, <1>3, <1>4 DEF PortsInductive, PortsBooked

LEMMA PortsSound == PortsInductive => PortsHonest
<1> SUFFICES ASSUME PortsInductive PROVE PortsHonest
  OBVIOUS
<1>1. Serial!TypeOK
  BY DEF PortsInductive, PortsBooked, Serial!TypeOK
<1>2. Serial!CallsOK /\ NoneLeaks /\ Emptying
  BY DEF PortsInductive, PortsBooked
<1>3. ASSUME Serial!AtRest
      PROVE  Serial!IsOpen(device) \subseteq Serial!IsOpen(openPorts) \cup trouble.unclosed
  <2>1. \A p : ~InHand(p)
    BY <1>3 DEF Serial!AtRest, InHand, Serial!Idle
  <2>2. QED BY <1>2, <2>1 DEF NoneLeaks, Covered, Serial!IsOpen
<1>4. unmount.at = "done" => Serial!IsOpen(openPorts) = {}
  BY <1>2 DEF Emptying, Serial!IsOpen
<1>5. Serial!PortsReleased
  BY <1>3, <1>4 DEF Serial!PortsReleased
<1>6. ASSUME Serial!AtRest, Calm
      PROVE  openPorts = device
  <2>1. \A p \in Ports : ~Busy(p) /\ ~Unmounting(p)
    BY <1>6 DEF Serial!AtRest, Busy, Unmounting, Serial!Idle
  <2>2. \A p \in Ports : openPorts[p] = device[p]
    BY <1>6, <2>1 DEF PortsInductive, TableInForce, Settled
  <2>3. QED BY <2>2 DEF PortsInductive, PortsBooked, Serial!TablesOK
<1>7. Serial!ConfigInForce
  BY <1>6 DEF Serial!ConfigInForce, Calm
<1>8. QED BY <1>1, <1>5, <1>7 DEF PortsHonest

(* However open, close, set_config and Unmount of any number of clients and   *)
(* ports overlap, an open device is in the table once the calls have          *)
(* returned, or its Close failed, and Unmount leaves the table empty; and as  *)
(* long as commands come one by one and Close succeeds, the table says which  *)
(* devices are open and with which configuration.                            *)
THEOREM PortsHonestHolds == Spec => []PortsHonest
<1>1. Init => PortsInductive
  BY PortsInit DEF Init
<1>2. PortsInductive /\ [Next]_vars => PortsInductive'
  <2>1. [Next]_vars => [Serial!Next]_(Serial!vars)
    BY DEF Next, vars, serialVars, Serial!vars
  <2>2. QED BY <2>1, PortsAssumption, PortsStep, InForceStep, ClosingStep DEF PortsInductive
<1>3. QED BY <1>1, <1>2, PortsSound, PTL DEF Spec

-----------------------------------------------------------------------------
(* The base of TimeAbility. Whoever goes on to read the base has seen that    *)
(* there is one, or put one there; so has the runner that begins its ticks.   *)
Bases == [by : {"sync", "default"}, read : Int, mono : 0 .. mono, trip : 0 .. mono]

\* What an NTP query knows of its legs, and how far ahead its estimate may be.
Estimated(place) ==
  /\ place.at = "response" => place.entered + place.leg <= mono
  /\ place.at = "estimate" => place.offset <= place.trip
  /\ place.at = "set" => place.read <= 2 * mono + place.trip

Timed ==
  /\ mono \in 0 .. MaxTime /\ task \in [Time!Goroutines -> Time!Places]
  /\ \A g \in Time!Goroutines : Estimated(task[g])
  /\ base = Time!NotSynced \/ base \in Bases
  /\ sem \subseteq Clients /\ runMode \in Time!Modes /\ running \in Time!Modes \cup {"no"}

Based ==
  /\ \A g \in Time!Goroutines : task[g].at = "read" => Time!Synced
  /\ running # "no" /\ task[Runner].at \notin {"ensure", "default"} => Time!Synced

TimeBooked == Timed /\ Based /\ Time!NoHeadStart /\ Time!SlotsReturned

Answered == history = [answers |-> history.answers, sync |-> history.sync] /\ history.answers \subseteq {"time"}

SyncNoted == history.sync = TRUE => base.by = "sync"

SyncFlag == history.sync \in BOOLEAN

LEMMA TimeInit == Time!ClockAssumption /\ Time!Init => TimeBooked /\ Answered /\ SyncNoted /\ SyncFlag
<1> SUFFICES ASSUME Time!ClockAssumption, Time!Init PROVE TimeBooked /\ Answered /\ SyncNoted /\ SyncFlag
  OBVIOUS
<1>1. Runner \in Time!Goroutines /\ \A g \in Time!Goroutines : task[g] = Time!Idle /\ task[g].at = "idle"
  BY DEF Time!Init, Time!Idle, Time!Goroutines
<1>2. Timed
  BY <1>1 DEF Time!Init, Time!ClockAssumption, Timed, Time!Places, Time!Idle, Estimated, Time!Modes
<1>3. Based /\ Time!NoHeadStart /\ Time!SlotsReturned
  BY <1>1 DEF Time!Init, Based, Time!NoHeadStart, Time!SlotsReturned, Time!Synced
<1>4. Answered /\ SyncNoted /\ SyncFlag
  BY DEF Time!Init, Answered, SyncNoted, SyncFlag
<1>5. QED BY <1>2, <1>3, <1>4 DEF TimeBooked

(* What each step of one goroutine has to keep to.                            *)
LEMMA TimeMoves ==
  ASSUME TimeBooked, NEW g \in Time!Goroutines, NEW next \in Time!Places,
         task' = [task EXCEPT ![g] = next], mono' = mono, runMode' = runMode,
         Estimated(next),
         base' = base \/ (base' \in Bases /\ base'.read <= 2 * base'.mono + base'.trip),
         sem' \subseteq Clients, sem' \ {g} \subseteq sem,
         g \in sem' => next.at \in {"fetch", "request", "response", "estimate", "set"},
         next.at = "read" => base' # Time!NotSynced,
         running' \in Time!Modes \cup {"no"}, running' # running => g = Runner,
         g = Runner /\ running' # "no" /\ next.at \notin {"ensure", "default"} => base' # Time!NotSynced
  PROVE  TimeBooked'
<1> USE DEF TimeBooked, Timed, Time!Synced
<1>1. task'[g] = next /\ \A h \in Time!Goroutines \ {g} : task'[h] = task[h]
  OBVIOUS
<1>2. Bases' = Bases /\ Time!Places' = Time!Places
  BY DEF Bases, Time!Places
<1>3. \A h \in Time!Goroutines : Estimated(task[h])'
  BY <1>1 DEF Estimated
<1>4. Timed'
  <2>1. task' \in [Time!Goroutines -> Time!Places']
    BY <1>2
  <2>2. base' = Time!NotSynced \/ base' \in Bases'
    BY <1>2
  <2>3. QED BY <1>3, <2>1, <2>2
<1>5. base # Time!NotSynced => base' # Time!NotSynced
  BY DEF Bases, Time!NotSynced
<1>6. Based'
  <2>1. Runner \in Time!Goroutines
    BY DEF Time!Goroutines
  <2>2. QED BY <1>1, <1>5, <2>1 DEF Based
<1>7. Time!NoHeadStart' /\ Time!SlotsReturned'
  <2>1. Clients \subseteq Time!Goroutines
    BY DEF Time!Goroutines
  <2>2. QED BY <1>1, <2>1 DEF Time!NoHeadStart, Time!SlotsReturned
<1>8. QED BY <1>4, <1>6, <1>7

(* The places a step leads to that say no more than where the goroutine is.   *)
Bare == {"fetch", "request", "ensure", "default", "read"}

PlaceOf(phase) ==
  IF phase \in {"request", "read"} THEN [at |-> phase, entered |-> mono] ELSE [at |-> phase]

LEMMA BarePlaces ==
  ASSUME TimeBooked, NEW phase \in Bare
  PROVE  PlaceOf(phase) \in Time!Places /\ PlaceOf(phase).at = phase /\ Estimated(PlaceOf(phase))
<1>1. mono \in 0 .. mono
  BY DEF TimeBooked, Timed
<1>2. PlaceOf(phase) \in Time!Places
  BY <1>1 DEF Time!Places, Bare, PlaceOf
<1>3. PlaceOf(phase).at = phase
  BY DEF PlaceOf
<1>4. QED BY <1>2, <1>3 DEF Estimated, Bare

LEMMA SettlingPlace ==
  ASSUME TimeBooked, NEW read \in Int, NEW trip \in 0 .. mono, read <= 2 * mono + trip
  PROVE  /\ Time!Settling(read, trip) \in Time!Places /\ Time!Settling(read, trip).at = "set"
         /\ Estimated(Time!Settling(read, trip))
<1>1. mono \in 0 .. mono
  BY DEF TimeBooked, Timed
<1>2. QED BY <1>1 DEF Time!Settling, Time!Places, Estimated

LEMMA TimeBegins ==
  ASSUME TimeBooked, NEW g \in Time!Goroutines, NEW place, Time!Begin(g, place)
  PROVE  /\ task' = [task EXCEPT ![g] = place]
         /\ task[g] = Time!Idle /\ task[g].at = "idle" /\ g \notin sem
<1>1. task[g].at = "idle"
  BY DEF Time!Begin, Time!Idle
<1>2. QED BY <1>1 DEF Time!Begin, Time!Go, TimeBooked, Time!SlotsReturned

LEMMA TimeReturns ==
  ASSUME TimeBooked, NEW g \in Time!Goroutines, Time!Return(g)
  PROVE  /\ Time!Idle \in Time!Places /\ Time!Idle.at = "idle" /\ Estimated(Time!Idle)
         /\ task' = [task EXCEPT ![g] = Time!Idle]
BY DEF Time!Return, Time!Go, Time!Idle, Time!Places, Estimated

(* The legs of a query, seen where the query is.                              *)
LEMMA QueryPlaces ==
  ASSUME TimeBooked, NEW g \in Time!Goroutines
  PROVE  /\ task[g].at = "request" => task[g].entered \in 0 .. mono
         /\ task[g].at = "response" =>
              task[g].entered \in 0 .. mono /\ task[g].leg \in 0 .. mono /\ task[g].entered + task[g].leg <= mono
         /\ task[g].at = "estimate" =>
              task[g].offset \in Int /\ task[g].trip \in 0 .. mono /\ task[g].offset <= task[g].trip
         /\ task[g].at = "set" =>
              task[g].read \in Int /\ task[g].trip \in 0 .. mono /\ task[g].read <= 2 * mono + task[g].trip
<1>1. task[g] \in Time!Places /\ Estimated(task[g])
  BY DEF TimeBooked, Timed
<1>2. QED BY <1>1 DEF Time!Places, Estimated

LEMMA SyncSteps ==
  ASSUME TimeBooked, NEW g \in Time!Goroutines
  PROVE  /\ Time!Sync(g) => TimeBooked'
         /\ Time!AcquireSlot(g) => TimeBooked'
         /\ Time!Fetch(g) => TimeBooked'
         /\ Time!ServerAnswers(g) => TimeBooked'
         /\ Time!QueryReturns(g) => TimeBooked'
         /\ Time!Estimate(g) => TimeBooked'
         /\ Time!FetchFails(g) => TimeBooked'
         /\ Time!CheckOffset(g) => TimeBooked'
         /\ Time!SetSync(g) => TimeBooked'
<1>0. /\ sem \subseteq Clients /\ running \in Time!Modes \cup {"no"} /\ mono \in 0 .. MaxTime
      /\ 0 \in 0 .. mono /\ 2 * mono \in Int /\ 2 * mono <= 2 * mono + 0
      /\ g \in sem => task[g].at \in {"fetch", "request", "response", "estimate", "set"}
      /\ g = Runner /\ running # "no" /\ task[g].at \notin {"ensure", "default"} => base # Time!NotSynced
  BY DEF TimeBooked, Timed, Time!SlotsReturned, Based, Time!Synced
<1>a. ASSUME NEW place \in Time!Places, task' = [task EXCEPT ![g] = place], Estimated(place),
             task[g].at \notin {"ensure", "default"},
             place.at \in {"fetch", "request", "response", "estimate", "set"},
             sem' = sem \/ (g \in Clients /\ sem' = sem \cup {g}),
             UNCHANGED <<mono, base, runMode, running>>
      PROVE  TimeBooked'
  BY <1>0, <1>a, TimeMoves
<1>1. ASSUME Time!Sync(g) PROVE TimeBooked'
  <2>1. Time!Begin(g, Time!Settling(2 * mono, 0)) /\ UNCHANGED <<mono, base, sem, runMode, running>>
    BY <1>1 DEF Time!Sync
  <2>2. QED BY <1>0, <1>a, <2>1, TimeBegins, SettlingPlace
<1>2. ASSUME Time!AcquireSlot(g) PROVE TimeBooked'
  <2>1. PICK phase \in {"fetch", "request"} : Time!Begin(g, PlaceOf(phase))
    BY <1>2 DEF Time!AcquireSlot, PlaceOf
  <2>2. UNCHANGED <<mono, base, runMode, running>> /\ g \in Clients /\ sem' = sem \cup {g}
    BY <1>2 DEF Time!AcquireSlot
  <2>3. PlaceOf(phase) \in Time!Places /\ PlaceOf(phase).at = phase /\ Estimated(PlaceOf(phase))
    BY <2>1, BarePlaces DEF Bare
  <2>4. QED BY <1>a, <2>1, <2>2, <2>3, TimeBegins
<1>3. ASSUME Time!Fetch(g) PROVE TimeBooked'
  <2>1. /\ task[g].at = "fetch" /\ task' = [task EXCEPT ![g] = Time!Settling(2 * mono, 0)]
        /\ UNCHANGED <<mono, base, sem, runMode, running>>
    BY <1>3 DEF Time!Fetch, Time!Go
  <2>2. QED BY <1>0, <1>a, <2>1, SettlingPlace
<1>4. ASSUME Time!ServerAnswers(g) PROVE TimeBooked'
  <2> DEFINE place == [at |-> "response", entered |-> task[g].entered, leg |-> mono - task[g].entered]
  <2>1. /\ task[g].at = "request" /\ task' = [task EXCEPT ![g] = place]
        /\ UNCHANGED <<mono, base, sem, runMode, running>>
    BY <1>4 DEF Time!ServerAnswers, Time!Go
  <2>2. task[g].entered \in 0 .. mono
    BY <2>1, QueryPlaces
  <2>3. mono - task[g].entered \in 0 .. mono /\ task[g].entered + (mono - task[g].entered) <= mono
    BY <1>0, <2>2
  <2>4. place \in Time!Places /\ place.at = "response" /\ Estimated(place)
    BY <2>2, <2>3 DEF Time!Places, Estimated
  <2> HIDE DEF place
  <2>5. QED BY <1>a, <2>1, <2>4
<1>5. ASSUME Time!QueryReturns(g) PROVE TimeBooked'
  <2> DEFINE offset == 2 * task[g].leg - Time!RoundTrip(g)
             place == [at |-> "estimate", offset |-> offset, trip |-> Time!RoundTrip(g)]
  <2>1. /\ task[g].at = "response" /\ task' = [task EXCEPT ![g] = place]
        /\ UNCHANGED <<mono, base, sem, runMode, running>>
    BY <1>5 DEF Time!QueryReturns, Time!Go
  <2>2. task[g].entered \in 0 .. mono /\ task[g].leg \in 0 .. mono /\ task[g].entered + task[g].leg <= mono
    BY <2>1, QueryPlaces
  <2>3. offset \in Int /\ Time!RoundTrip(g) \in 0 .. mono /\ offset <= Time!RoundTrip(g)
    BY <1>0, <2>2 DEF Time!RoundTrip
  <2> HIDE DEF offset
  <2>4. place \in Time!Places /\ place.at = "estimate" /\ Estimated(place)
    BY <2>3 DEF Time!Places, Estimated
  <2> HIDE DEF place
  <2>5. QED BY <1>a, <2>1, <2>4
<1>6. ASSUME Time!Estimate(g) PROVE TimeBooked'
  <2>1. /\ task[g].at = "estimate" /\ UNCHANGED <<mono, base, sem, runMode, running>>
        /\ task' = [task EXCEPT ![g] = Time!Settling(Time!Corrected(g), task[g].trip)]
    BY <1>6 DEF Time!Estimate, Time!Go
  <2>2. task[g].offset \in Int /\ task[g].trip \in 0 .. mono /\ task[g].offset <= task[g].trip
    BY <2>1, QueryPlaces
  <2>3. Time!Corrected(g) \in Int /\ Time!Corrected(g) <= 2 * mono + task[g].trip
    BY <1>0, <2>2 DEF Time!Corrected
  <2>4. QED BY <1>a, <2>1, <2>2, <2>3, SettlingPlace
<1>7. ASSUME Time!Return(g), sem' = sem \ {g}, UNCHANGED <<mono, base, runMode, running>>,
             task[g].at \notin {"ensure", "default"}
      PROVE  TimeBooked'
  BY <1>0, <1>7, TimeReturns, TimeMoves
<1>8. Time!FetchFails(g) => TimeBooked'
  BY <1>7 DEF Time!FetchFails, Time!ReleaseSlot
<1>9. Time!CheckOffset(g) => TimeBooked'
  BY <1>7 DEF Time!CheckOffset, Time!ReleaseSlot
<1>10. ASSUME Time!SetSync(g) PROVE TimeBooked'
  <2>1. /\ base' = [by |-> "sync", read |-> task[g].read, mono |-> mono, trip |-> task[g].trip]
        /\ task[g].at = "set" /\ sem' = sem \ {g} /\ UNCHANGED <<mono, runMode, running>>
    BY <1>10 DEF Time!SetSync, Time!ReadClock, Time!ReleaseSlot
  <2>2. task[g].read \in Int /\ task[g].trip \in 0 .. mono /\ task[g].read <= 2 * mono + task[g].trip
    BY <2>1, QueryPlaces
  <2>3. base' \in Bases /\ base'.read <= 2 * base'.mono + base'.trip /\ base' # Time!NotSynced
    BY <1>0, <2>1, <2>2 DEF Bases, Time!NotSynced
  <2>4. Time!Return(g)
    BY <1>10 DEF Time!SetSync
  <2>5. QED BY <1>0, <2>1, <2>3, <2>4, TimeReturns, TimeMoves
<1>11. QED BY <1>1, <1>2, <1>3, <1>4, <1>5, <1>6, <1>8, <1>9, <1>10

LEMMA TimeSteps ==
  ASSUME TimeBooked, NEW g \in Time!Goroutines
  PROVE  /\ Time!GetTime(g) => TimeBooked'
         /\ Time!EnsureSynced(g) => TimeBooked'
         /\ Time!SetDefault(g) => TimeBooked'
         /\ Time!CurrentTime(g) => TimeBooked'
<1>0. /\ sem \subseteq Clients /\ running \in Time!Modes \cup {"no"} /\ mono \in 0 .. MaxTime
      /\ g \in sem => task[g].at \in {"fetch", "request", "response", "estimate", "set"}
      /\ g = Runner /\ running # "no" /\ task[g].at \notin {"ensure", "default"} => base # Time!NotSynced
      /\ task[g].at = "read" => base # Time!NotSynced
  BY DEF TimeBooked, Timed, Time!SlotsReturned, Based, Time!Synced
<1>1. ASSUME Time!GetTime(g) PROVE TimeBooked'
  <2>1. Time!Begin(g, PlaceOf("ensure")) /\ UNCHANGED <<mono, base, sem, runMode, running>>
    BY <1>1 DEF Time!GetTime, PlaceOf
  <2>2. QED BY <1>0, <2>1, TimeBegins, BarePlaces, TimeMoves DEF Bare
<1>2. ASSUME g \notin sem, task[g].at # "idle", Time!Ensured(g), UNCHANGED <<mono, sem, runMode, running>>,
             base' = base \/ (base' \in Bases /\ base'.read <= 2 * base'.mono + base'.trip),
             base' # Time!NotSynced
      PROVE  TimeBooked'
  <2>1. CASE g = Runner
    <3>1. Time!Return(g)
      BY <1>2, <2>1 DEF Time!Ensured
    <3>2. QED BY <1>0, <1>2, <2>1, <3>1, TimeReturns, TimeMoves
  <2>2. CASE g # Runner
    <3>1. task' = [task EXCEPT ![g] = PlaceOf("read")]
      BY <1>2, <2>2 DEF Time!Ensured, Time!Go, Time!Reading, PlaceOf
    <3>2. QED BY <1>0, <1>2, <2>2, <3>1, BarePlaces, TimeMoves DEF Bare
  <2>3. QED BY <2>1, <2>2
<1>3. ASSUME Time!EnsureSynced(g) PROVE TimeBooked'
  <2>1. task[g].at = "ensure" /\ g \notin sem /\ UNCHANGED <<mono, base, sem, runMode, running>>
    BY <1>0, <1>3 DEF Time!EnsureSynced
  <2>2. CASE Time!Synced
    BY <1>2, <1>3, <2>1, <2>2 DEF Time!EnsureSynced, Time!Synced
  <2>3. CASE ~Time!Synced
    <3>1. task' = [task EXCEPT ![g] = PlaceOf("default")]
      BY <1>3, <2>3 DEF Time!EnsureSynced, Time!Go, PlaceOf
    <3>2. QED BY <1>0, <2>1, <3>1, BarePlaces, TimeMoves DEF Bare
  <2>4. QED BY <2>2, <2>3
<1>4. ASSUME Time!SetDefault(g) PROVE TimeBooked'
  <2>1. /\ task[g].at = "default" /\ g \notin sem /\ UNCHANGED <<mono, sem, runMode, running>>
        /\ Time!Ensured(g)
    BY <1>0, <1>4 DEF Time!SetDefault
  <2>2. CASE Time!Synced
    BY <1>2, <1>4, <2>1, <2>2 DEF Time!SetDefault, Time!MayDefault, Time!Synced
  <2>3. CASE ~Time!Synced
    <3>1. base' = [by |-> "default", read |-> 2 * mono, mono |-> mono, trip |-> 0]
      BY <1>4, <2>3 DEF Time!SetDefault, Time!MayDefault
    <3>2. base' \in Bases /\ base'.read <= 2 * base'.mono + base'.trip /\ base' # Time!NotSynced
      BY <1>0, <3>1 DEF Bases, Time!NotSynced
    <3>3. QED BY <1>2, <2>1, <3>2
  <2>4. QED BY <2>2, <2>3
<1>5. ASSUME Time!CurrentTime(g) PROVE TimeBooked'
  <2>1. task[g].at = "read" /\ g \notin sem /\ UNCHANGED <<mono, base, sem, runMode, running>>
    BY <1>0, <1>5 DEF Time!CurrentTime
  <2>2. Time!Return(g)
    BY <1>5 DEF Time!CurrentTime
  <2>3. QED BY <1>0, <2>1, <2>2, TimeReturns, TimeMoves
<1>6. QED BY <1>1, <1>3, <1>4, <1>5

LEMMA RunnerSteps ==
  ASSUME TimeBooked
  PROVE  /\ Time!Run => TimeBooked'
         /\ Time!RunTicker => TimeBooked'
         /\ Time!RunMonotonic => TimeBooked'
         /\ Time!RunReturns => TimeBooked'
<1>0. /\ Runner \in Time!Goroutines
      /\ sem \subseteq Clients /\ runMode \in Time!Modes /\ running \in Time!Modes \cup {"no"}
      /\ task[Runner] = Time!Idle /\ running # "no" => base # Time!NotSynced
  BY DEF TimeBooked, Timed, Based, Time!Synced, Time!Goroutines, Time!Idle
<1>1. ASSUME NEW place \in Time!Places, Time!Begin(Runner, place), Estimated(place),
             UNCHANGED <<mono, base, sem, runMode>>, place.at \in {"ensure", "set", "read"},
             running' \in Time!Modes \cup {"no"},
             place.at = "ensure" \/ (running' = running /\ running # "no")
      PROVE  TimeBooked'
  BY <1>0, <1>1, TimeBegins, TimeMoves
<1>2. ASSUME Time!Run PROVE TimeBooked'
  <2>1. Time!Begin(Runner, PlaceOf("ensure")) /\ running' = runMode /\ UNCHANGED <<mono, base, sem, runMode>>
    BY <1>2 DEF Time!Run, PlaceOf
  <2>2. QED BY <1>0, <1>1, <2>1, BarePlaces DEF Bare
<1>3. ASSUME Time!RunTicker PROVE TimeBooked'
  <2>1. /\ Time!Begin(Runner, Time!Settling(2 * mono, 0)) /\ running = "ticker"
        /\ UNCHANGED <<mono, base, sem, runMode, running>>
    BY <1>3 DEF Time!RunTicker
  <2>2. 2 * mono \in Int /\ 0 \in 0 .. mono /\ 2 * mono <= 2 * mono + 0
    BY DEF TimeBooked, Timed
  <2>3. QED BY <1>0, <1>1, <2>1, <2>2, SettlingPlace
<1>4. ASSUME Time!RunMonotonic PROVE TimeBooked'
  <2>1. /\ Time!Begin(Runner, PlaceOf("read")) /\ running = "monotonic"
        /\ UNCHANGED <<mono, base, sem, runMode, running>>
    BY <1>4 DEF Time!RunMonotonic, Time!Reading, PlaceOf
  <2>2. QED BY <1>0, <1>1, <2>1, BarePlaces DEF Bare
<1>5. ASSUME Time!RunReturns PROVE TimeBooked'
  <2>1. running' = "no" /\ UNCHANGED <<mono, base, sem, runMode, task>>
    BY <1>5 DEF Time!RunReturns
  <2>2. Timed' /\ Based'
    BY <2>1 DEF TimeBooked, Timed, Based, Time!Places, Bases, Estimated, Time!Synced
  <2>3. Time!NoHeadStart' /\ Time!SlotsReturned'
    BY <2>1 DEF TimeBooked, Time!NoHeadStart, Time!Synced, Time!SlotsReturned
  <2>4. QED BY <2>2, <2>3 DEF TimeBooked
<1>6. QED BY <1>2, <1>3, <1>4, <1>5

LEMMA TimeStep ==
  ASSUME TimeBooked, Time!ClockAssumption, [Time!Next]_(Time!vars)
  PROVE  TimeBooked'
<1>1. CASE Time!Tick
  <2>1. mono' = mono + 1 /\ mono < MaxTime /\ UNCHANGED <<base, sem, runMode, running, task>>
    BY <1>1 DEF Time!Tick
  <2>2. mono' \in 0 .. MaxTime /\ 0 .. mono \subseteq 0 .. mono'
    BY <2>1 DEF Time!ClockAssumption, TimeBooked, Timed
  <2>3. Bases \subseteq Bases' /\ Time!Places \subseteq Time!Places'
    BY <2>2 DEF Bases, Time!Places
  <2>4. \A g \in Time!Goroutines : Estimated(task[g])'
    <3> SUFFICES ASSUME NEW g \in Time!Goroutines PROVE Estimated(task[g])'
      OBVIOUS
    <3>1. Estimated(task[g]) /\ mono \in Nat
      BY DEF TimeBooked, Timed
    <3>2. QED BY <2>1, <3>1, QueryPlaces DEF Estimated
  <2>a. Timed'
    BY <2>1, <2>2, <2>3, <2>4 DEF TimeBooked, Timed
  <2>5. Based' /\ Time!NoHeadStart' /\ Time!SlotsReturned'
    BY <2>1 DEF TimeBooked, Based, Time!NoHeadStart, Time!Synced, Time!SlotsReturned
  <2>6. QED BY <2>a, <2>5 DEF TimeBooked
<1>2. ASSUME NEW mode \in Time!Modes, Time!ConfigureRun(mode) PROVE TimeBooked'
  BY <1>2 DEF Time!ConfigureRun, TimeBooked, Timed, Time!Places, Bases, Estimated, Based, Time!NoHeadStart,
     Time!Synced, Time!SlotsReturned
<1>3. CASE UNCHANGED Time!vars
  BY <1>3 DEF Time!vars, TimeBooked, Timed, Time!Places, Bases, Estimated, Based, Time!NoHeadStart,
     Time!Synced, Time!SlotsReturned
<1>4. QED BY <1>1, <1>2, <1>3, SyncSteps, TimeSteps, RunnerSteps DEF Time!Next

LEMMA AnswersStep ==
  ASSUME TimeBooked, Answered, SyncNoted, SyncFlag, [Time!Next]_(Time!vars)
  PROVE  Answered' /\ SyncNoted' /\ SyncFlag'
<1>1. CASE UNCHANGED <<base, history>>
  BY <1>1 DEF Answered, SyncNoted, SyncFlag
<1>2. ASSUME NEW g \in Time!Goroutines, Time!SetSync(g) PROVE Answered' /\ SyncNoted' /\ SyncFlag'
  <2>1. base'.by = "sync" /\ history' = [answers |-> history.answers, sync |-> TRUE]
    BY <1>2 DEF Time!SetSync, Answered
  <2>2. QED BY <2>1 DEF Answered, SyncNoted, SyncFlag
<1>3. ASSUME NEW g \in Time!Goroutines, Time!SetDefault(g) PROVE Answered' /\ SyncNoted' /\ SyncFlag'
  <2>1. history' = history /\ (base.by = "sync" => base' = base)
    BY <1>3 DEF Time!SetDefault, Time!MayDefault, Time!Synced, Time!NotSynced
  <2>2. QED BY <2>1 DEF Answered, SyncNoted, SyncFlag
<1>4. ASSUME NEW g \in Time!Goroutines, Time!CurrentTime(g) PROVE Answered' /\ SyncNoted' /\ SyncFlag'
  <2>1. Time!Synced /\ base \in Bases /\ mono \in Nat
    <3>1. task[g].at = "read"
      BY <1>4 DEF Time!CurrentTime
    <3>2. Time!Synced
      BY <3>1 DEF TimeBooked, Based
    <3>3. QED BY <3>2 DEF TimeBooked, Timed, Time!Synced
  <2>2. ~(Time!Elapsed(g) < 0)
    BY <2>1 DEF Bases, Time!Elapsed, Time!ReadClock
  <2>3. history' = [history EXCEPT !.answers = @ \cup {"time"}] /\ base' = base
    BY <1>4, <2>1, <2>2 DEF Time!CurrentTime
  <2>4. history' = [answers |-> history.answers \cup {"time"}, sync |-> history.sync]
    BY <2>3 DEF Answered
  <2>5. QED BY <2>3, <2>4 DEF Answered, SyncNoted, SyncFlag
<1>5. QED BY <1>1, <1>2, <1>3, <1>4 DEF Time!Next, Time!vars, Time!Tick, Time!Sync, Time!AcquireSlot,
          Time!Fetch, Time!ServerAnswers, Time!QueryReturns, Time!Estimate, Time!FetchFails,
          Time!CheckOffset, Time!GetTime, Time!EnsureSynced,
          Time!ConfigureRun, Time!Run, Time!RunTicker, Time!RunMonotonic, Time!RunReturns

LEMMA TimeSound == TimeBooked /\ Answered /\ SyncNoted /\ SyncFlag => BaseHonest
<1> SUFFICES ASSUME TimeBooked, Answered, SyncNoted, SyncFlag PROVE BaseHonest
  OBVIOUS
<1>1. history \in [answers : SUBSET {"not synced", "backwards", "time"}, sync : BOOLEAN]
  <2>1. PICK answers : answers = history.answers /\ answers \in SUBSET {"not synced", "backwards", "time"}
    BY DEF Answered
  <2>2. PICK noted \in BOOLEAN : noted = history.sync
    BY DEF SyncFlag
  <2>3. history = [answers |-> answers, sync |-> noted]
    BY <2>1, <2>2 DEF Answered
  <2>4. QED BY <2>1, <2>2, <2>3
<1>2. Time!TypeOK
  BY <1>1 DEF TimeBooked, Timed, Bases, Time!TypeOK
<1>3. Time!TimeAnswers /\ Time!SyncSticks
  BY DEF Answered, SyncNoted, SyncFlag, Time!TimeAnswers, Time!SyncSticks
<1>4. QED BY <1>2, <1>3 DEF BaseHonest, Time!BaseHonest, TimeBooked

(* However syncs, get_time and the runner overlap, get_time answers with a    *)
(* time; the base counts none from before its source was read, but for half   *)
(* of what the query of sync_ntp took; a default never replaces a sync; and   *)
(* the slots are those of syncs under way.                                    *)
THEOREM BaseHonestHolds == Spec => []BaseHonest
<1> DEFINE Inv == TimeBooked /\ Answered /\ SyncNoted /\ SyncFlag
<1>1. Init => Inv
  BY TimeAssumption, TimeInit DEF Init
<1>2. Inv /\ [Next]_vars => Inv'
  <2>1. [Next]_vars => [Time!Next]_(Time!vars)
    BY DEF Next, vars, timeVars, Time!vars
  <2>2. QED BY <2>1, TimeAssumption, TimeStep, AnswersStep
<1>3. Inv => BaseHonest
  BY TimeSound
<1>4. QED BY <1>1, <1>2, <1>3, PTL DEF Spec

-----------------------------------------------------------------------------
(* The gates of DockerAbility and K8sAbility. An order carries what it was    *)
(* checked for until the transport has it, and the counter of an ability is   *)
(* the number of the orders that have raised it and not yet lowered it.       *)
LEMMA GatesCardinality ==
  /\ \A S : Gates!Cardinality(S) = Cardinality(S)
  /\ \A S : Gates!IsFiniteSet(S) <=> IsFiniteSet(S)
<1>1. \A S : Gates!Cardinality(S) = Cardinality(S)
  BY Zenon DEF Gates!Cardinality, Cardinality
<1>2. \A S : Gates!IsFiniteSet(S) <=> IsFiniteSet(S)
  BY Zenon DEF Gates!IsFiniteSet, IsFiniteSet
<1>3. QED BY <1>1, <1>2

Whole(x) ==
  x = [at |-> x.at, to |-> x.to, op |-> x.op, text |-> x.text, number |-> x.number, size |-> x.size,
       namespace |-> x.namespace, loaded |-> x.loaded, inForce |-> x.inForce]

Stages == {"namespace", "transport", "begin", "tooMany", "inside", "end"}
Holding == {"tooMany", "inside", "end"}

CheckedOrder(to, op, text, number) ==
  /\ to = "docker" => /\ op # "create_container" => Gates!Valid(text)
                      /\ op \in {"stop", "restart"} => number <= maxStopTimeout
  /\ to = "kubernetes" => Gates!Valid(text) /\ (op = "get_logs" => number \in 1 .. maxLogTail)

(* An order x while n is the namespace in force.                              *)
Ordered(x, n) ==
  /\ Whole(x) /\ x.at \in Stages /\ x.to \in Gates!Abilities
  /\ x.at # "end" => CheckedOrder(x.to, x.op, x.text, x.number)
  /\ x.at = "namespace" => n \in x.inForce
  /\ x.at \in {"transport", "begin", "inside"} => x.inForce = {} \/ x.namespace \in x.inForce

OrderOK(x, n) == x = Gates!Idle \/ Ordered(x, n)

IsAt(x, a, stages) == x # Gates!Idle /\ x.to = a /\ x.at \in stages

GatesBooked ==
  /\ context \in Namespaces
  /\ order = [g \in Clients |-> order[g]] /\ \A g \in Clients : OrderOK(order[g], context)
  /\ slots \in [Gates!Abilities -> Nat]
  /\ \A a \in Gates!Abilities :
       /\ slots[a] = Cardinality(Gates!To(a, Holding))
       /\ Cardinality(Gates!To(a, {"inside"})) <= maxConcurrency

LEMMA GatesInit == Gates!OrdersAssumption /\ Gates!Init => GatesBooked
<1> SUFFICES ASSUME Gates!OrdersAssumption, Gates!Init PROVE GatesBooked
  OBVIOUS
<1>1. \A a, stages : Gates!To(a, stages) = {}
  BY DEF Gates!Init, Gates!To
<1>2. Cardinality({}) = 0
  BY FS_EmptySet
<1>3. \A a \in Gates!Abilities : slots[a] = 0
  BY DEF Gates!Init
<1>4. slots \in [Gates!Abilities -> Nat]
  BY DEF Gates!Init
<1>5. order = [g \in Clients |-> order[g]] /\ \A g \in Clients : OrderOK(order[g], context)
  BY DEF Gates!Init, OrderOK
<1>6. context \in Namespaces
  BY DEF Gates!Init, Gates!OrdersAssumption
<1>7. QED BY <1>1, <1>2, <1>3, <1>4, <1>5, <1>6 DEF GatesBooked, Gates!OrdersAssumption

(* One client's order moves: how many are at some stages of an ability.       *)
LEMMA OrdersCounted ==
  ASSUME Gates!OrdersAssumption, NEW g \in Clients, NEW a, NEW stages,
         \A h \in Clients \ {g} : order'[h] = order[h]
  PROVE  /\ Cardinality(Gates!To(a, stages)) \in Nat
         /\ (IsAt(order[g], a, stages) <=> IsAt(order'[g], a, stages)) =>
              Cardinality(Gates!To(a, stages)') = Cardinality(Gates!To(a, stages))
         /\ ~IsAt(order[g], a, stages) /\ IsAt(order'[g], a, stages) =>
              Cardinality(Gates!To(a, stages)') = Cardinality(Gates!To(a, stages)) + 1
         /\ IsAt(order[g], a, stages) /\ ~IsAt(order'[g], a, stages) =>
              Cardinality(Gates!To(a, stages)') = Cardinality(Gates!To(a, stages)) - 1
<1> DEFINE before == {h \in Clients : IsAt(order[h], a, stages)}
           after  == {h \in Clients : IsAt(order'[h], a, stages)}
<1>1. before = Gates!To(a, stages) /\ after = Gates!To(a, stages)'
  BY DEF Gates!To, IsAt
<1>2. IsFiniteSet(before) /\ Cardinality(before) \in Nat
  <2>1. IsFiniteSet(Clients)
    BY GatesCardinality DEF Gates!OrdersAssumption
  <2>2. QED BY <2>1, FS_Subset, FS_CardinalityType
<1>3. ASSUME IsAt(order[g], a, stages) <=> IsAt(order'[g], a, stages) PROVE after = before
  BY <1>3
<1>4. ASSUME ~IsAt(order[g], a, stages), IsAt(order'[g], a, stages)
      PROVE  Cardinality(after) = Cardinality(before) + 1
  <2>1. after = before \cup {g} /\ g \notin before
    BY <1>4
  <2>2. QED BY <1>2, <2>1, FS_AddElement
<1>5. ASSUME IsAt(order[g], a, stages), ~IsAt(order'[g], a, stages)
      PROVE  Cardinality(after) = Cardinality(before) - 1
  <2>1. after = before \ {g} /\ g \in before
    BY <1>5
  <2>2. QED BY <1>2, <2>1, FS_RemoveElement
<1> HIDE DEF before, after
<1>6. QED BY <1>1, <1>2, <1>3, <1>4, <1>5

LEMMA InsideHolds ==
  ASSUME Gates!OrdersAssumption, NEW a
  PROVE  /\ Cardinality(Gates!To(a, {"inside"})) <= Cardinality(Gates!To(a, Holding))
         /\ Cardinality(Gates!To(a, {"inside"})) \in Nat
<1>1. IsFiniteSet(Clients)
  BY GatesCardinality DEF Gates!OrdersAssumption
<1>2. Gates!To(a, {"inside"}) \subseteq Gates!To(a, Holding) /\ Gates!To(a, Holding) \subseteq Clients
  BY DEF Gates!To, Holding
<1>3. QED BY <1>1, <1>2, FS_Subset, FS_CardinalityType

(* What a step of one client has to keep to.                                  *)
LEMMA GatesMove ==
  ASSUME Gates!OrdersAssumption, GatesBooked, NEW g \in Clients, NEW next,
         order' = [order EXCEPT ![g] = next], OrderOK(next, context), context' = context,
         slots' \in [Gates!Abilities -> Int],
         \A a \in Gates!Abilities :
           /\ (IsAt(order[g], a, Holding) <=> IsAt(next, a, Holding)) => slots'[a] = slots[a]
           /\ ~IsAt(order[g], a, Holding) /\ IsAt(next, a, Holding) => slots'[a] = slots[a] + 1
           /\ IsAt(order[g], a, Holding) /\ ~IsAt(next, a, Holding) => slots'[a] = slots[a] - 1
           /\ IsAt(next, a, {"inside"}) =>
                IsAt(order[g], a, {"inside"}) \/ slots[a] + 1 <= maxConcurrency
  PROVE  GatesBooked'
<1>1. /\ order' = [h \in Clients |-> order'[h]] /\ order'[g] = next
      /\ \A h \in Clients \ {g} : order'[h] = order[h]
  BY DEF GatesBooked
<1>2. \A h \in Clients : OrderOK(order'[h], context)
  BY <1>1 DEF GatesBooked
<1>3. ASSUME NEW a \in Gates!Abilities
      PROVE  /\ slots'[a] = Cardinality(Gates!To(a, Holding)')
             /\ Cardinality(Gates!To(a, {"inside"})') <= maxConcurrency
             /\ slots'[a] \in Nat
  <2>1. slots[a] = Cardinality(Gates!To(a, Holding)) /\ slots[a] \in Nat /\ slots'[a] \in Int
          /\ Cardinality(Gates!To(a, {"inside"})) <= maxConcurrency /\ maxConcurrency \in Nat
    BY DEF GatesBooked, Gates!OrdersAssumption
  <2>2. slots'[a] = Cardinality(Gates!To(a, Holding)')
    <3>1. /\ (IsAt(order[g], a, Holding) <=> IsAt(next, a, Holding)) =>
               Cardinality(Gates!To(a, Holding)') = Cardinality(Gates!To(a, Holding))
          /\ ~IsAt(order[g], a, Holding) /\ IsAt(next, a, Holding) =>
               Cardinality(Gates!To(a, Holding)') = Cardinality(Gates!To(a, Holding)) + 1
          /\ IsAt(order[g], a, Holding) /\ ~IsAt(next, a, Holding) =>
               Cardinality(Gates!To(a, Holding)') = Cardinality(Gates!To(a, Holding)) - 1
      BY <1>1, OrdersCounted
    <3>2. QED BY <2>1, <3>1
  <2>3. Cardinality(Gates!To(a, {"inside"})') <= maxConcurrency
    <3>1. /\ Cardinality(Gates!To(a, {"inside"})) \in Nat
          /\ (IsAt(order[g], a, {"inside"}) <=> IsAt(next, a, {"inside"})) =>
               Cardinality(Gates!To(a, {"inside"})') = Cardinality(Gates!To(a, {"inside"}))
          /\ ~IsAt(order[g], a, {"inside"}) /\ IsAt(next, a, {"inside"}) =>
               Cardinality(Gates!To(a, {"inside"})') = Cardinality(Gates!To(a, {"inside"})) + 1
          /\ IsAt(order[g], a, {"inside"}) /\ ~IsAt(next, a, {"inside"}) =>
               Cardinality(Gates!To(a, {"inside"})') = Cardinality(Gates!To(a, {"inside"})) - 1
      BY <1>1, OrdersCounted
    <3>2. Cardinality(Gates!To(a, {"inside"})) <= slots[a]
      BY <2>1, InsideHolds
    <3>3. QED BY <2>1, <3>1, <3>2
  <2>4. slots'[a] \in Nat
    <3>1. IsFiniteSet(Gates!To(a, Holding)')
      <4>1. IsFiniteSet(Clients)
        BY GatesCardinality DEF Gates!OrdersAssumption
      <4>2. Gates!To(a, Holding)' \subseteq Clients
        BY DEF Gates!To
      <4>3. QED BY <4>1, <4>2, FS_Subset
    <3>2. QED BY <2>2, <3>1, FS_CardinalityType
  <2>5. QED BY <2>2, <2>3, <2>4
<1>4. slots' \in [Gates!Abilities -> Nat]
  BY <1>3
<1>5. QED BY <1>1, <1>2, <1>3, <1>4 DEF GatesBooked

(* What the steps make of an order.                                           *)
SameOrder(x, y) == y.to = x.to /\ y.op = x.op /\ y.text = x.text

Placed(x, stage, namespace) == [x EXCEPT !.at = stage, !.namespace = namespace]
Moved(x, stage, count) == [x EXCEPT !.at = stage, !.loaded = count]
Widened(x, inForce) == [x EXCEPT !.inForce = inForce]
Over(x, cut) == [x EXCEPT !.at = "end", !.number = 0, !.inForce = {}, !.size = cut]

LEMMA OrderRead ==
  ASSUME NEW x, Whole(x), NEW p, NEW v
  PROVE  /\ /\ Whole(Placed(x, p, v)) /\ SameOrder(x, Placed(x, p, v))
            /\ Placed(x, p, v).number = x.number /\ Placed(x, p, v).inForce = x.inForce
            /\ Placed(x, p, v).at = p /\ Placed(x, p, v).namespace = v
         /\ /\ Whole(Moved(x, p, v)) /\ SameOrder(x, Moved(x, p, v))
            /\ Moved(x, p, v).number = x.number /\ Moved(x, p, v).inForce = x.inForce
            /\ Moved(x, p, v).at = p /\ Moved(x, p, v).namespace = x.namespace
         /\ /\ Whole(Widened(x, v)) /\ SameOrder(x, Widened(x, v))
            /\ Widened(x, v).number = x.number /\ Widened(x, v).inForce = v
            /\ Widened(x, v).at = x.at /\ Widened(x, v).namespace = x.namespace
         /\ Whole(Over(x, v)) /\ SameOrder(x, Over(x, v)) /\ Over(x, v).at = "end"
<1> PICK at, to, op, words, number : at = x.at /\ to = x.to /\ op = x.op /\ words = x.text /\ number = x.number
  OBVIOUS
<1> PICK size, namespace, loaded, inForce :
      size = x.size /\ namespace = x.namespace /\ loaded = x.loaded /\ inForce = x.inForce
  OBVIOUS
<1>1. x = [at |-> at, to |-> to, op |-> op, text |-> words, number |-> number, size |-> size,
           namespace |-> namespace, loaded |-> loaded, inForce |-> inForce]
  BY DEF Whole
<1>2. Placed(x, p, v) = [at |-> p, to |-> to, op |-> op, text |-> words, number |-> number,
                         size |-> size, namespace |-> v, loaded |-> loaded, inForce |-> inForce]
  <2>1. PICK y : y = Placed(x, p, v)
    OBVIOUS
  <2>2. y = [at |-> p, to |-> to, op |-> op, text |-> words, number |-> number,
           size |-> size, namespace |-> v, loaded |-> loaded, inForce |-> inForce]
    BY <1>1, <2>1 DEF Placed
  <2>3. QED BY <2>1, <2>2
<1>3. Moved(x, p, v) = [at |-> p, to |-> to, op |-> op, text |-> words, number |-> number,
                        size |-> size, namespace |-> namespace, loaded |-> v, inForce |-> inForce]
  <2>1. PICK y : y = Moved(x, p, v)
    OBVIOUS
  <2>2. y = [at |-> p, to |-> to, op |-> op, text |-> words, number |-> number,
           size |-> size, namespace |-> namespace, loaded |-> v, inForce |-> inForce]
    BY <1>1, <2>1 DEF Moved
  <2>3. QED BY <2>1, <2>2
<1>4. Widened(x, v) = [at |-> at, to |-> to, op |-> op, text |-> words, number |-> number, size |-> size,
                       namespace |-> namespace, loaded |-> loaded, inForce |-> v]
  BY <1>1 DEF Widened
<1>5. Over(x, v) = [at |-> "end", to |-> to, op |-> op, text |-> words, number |-> 0,
                    size |-> v, namespace |-> namespace, loaded |-> loaded, inForce |-> {}]
  <2>1. PICK y : y = Over(x, v)
    OBVIOUS
  <2>2. y = [at |-> "end", to |-> to, op |-> op, text |-> words, number |-> 0,
           size |-> v, namespace |-> namespace, loaded |-> loaded, inForce |-> {}]
    BY <1>1, <2>1 DEF Over
  <2>3. QED BY <2>1, <2>2
<1>6. QED BY <1>2, <1>3, <1>4, <1>5 DEF Whole, SameOrder

LEMMA GatesAsk ==
  ASSUME Gates!OrdersAssumption, GatesBooked, NEW g \in Clients, NEW to \in Gates!Abilities,
         NEW op, NEW words, NEW number, NEW namespace,
         Gates!Ask(g, to, op, words, number, namespace), CheckedOrder(to, op, words, number)
  PROVE  GatesBooked'
<1> DEFINE next == [at |-> IF namespace = Unnamed THEN "namespace" ELSE "transport",
                    to |-> to, op |-> op, text |-> words, number |-> number, size |-> 0,
                    namespace |-> namespace, loaded |-> 0,
                    inForce |-> IF namespace = Unnamed THEN {context} ELSE {}]
<1>1. order' = [order EXCEPT ![g] = next] /\ order[g] = Gates!Idle /\ UNCHANGED <<context, slots>>
  BY DEF Gates!Ask
<1>2. Ordered(next, context)
  <2>1. Whole(next)
    BY DEF Whole
  <2>2. QED BY <2>1 DEF Ordered, Stages
<1>3. \A a : ~IsAt(order[g], a, Holding) /\ ~IsAt(next, a, Holding) /\ ~IsAt(next, a, {"inside"})
  BY <1>1 DEF IsAt, Holding
<1>4. slots' \in [Gates!Abilities -> Int]
  BY <1>1 DEF GatesBooked
<1> HIDE DEF next
<1>5. QED BY <1>1, <1>2, <1>3, <1>4, GatesMove DEF OrderOK

LEMMA DockerSteps ==
  ASSUME Gates!OrdersAssumption, GatesBooked, NEW g \in Clients, Gates!Docker(g)
  PROVE  GatesBooked'
<1> USE DEF Gates!AskDocker, CheckedOrder, Gates!Valid, Gates!Abilities
<1>1. CASE Gates!ListContainers(g)
  BY <1>1, GatesAsk DEF Gates!ListContainers
<1>2. ASSUME NEW words \in Gates!Texts, NEW op \in ContainerActions, Gates!ContainerAction(g, op, words)
      PROVE  GatesBooked'
  <2>1. op \in {"stop", "restart"} => 0 <= maxStopTimeout
    BY DEF Gates!OrdersAssumption
  <2>2. QED BY <1>2, <2>1, GatesAsk DEF Gates!ContainerAction
<1>3. ASSUME NEW words \in Gates!Texts, NEW op \in {"stop", "restart"},
             NEW timeout \in -1 .. maxStopTimeout + 1, Gates!StopOrRestart(g, op, words, timeout)
      PROVE  GatesBooked'
  <2>1. Gates!StopTimeout(timeout) <= maxStopTimeout
    BY DEF Gates!StopTimeout, Gates!Smaller, Gates!OrdersAssumption
  <2>2. QED BY <1>3, <2>1, GatesAsk DEF Gates!StopOrRestart
<1>4. ASSUME NEW words \in Gates!Texts, Gates!PullImage(g, words)
      PROVE  GatesBooked'
  BY <1>4, GatesAsk DEF Gates!PullImage
<1>5. ASSUME NEW words \in Gates!Texts, Gates!CreateContainer(g, words)
      PROVE  GatesBooked'
  BY <1>5, GatesAsk DEF Gates!CreateContainer
<1>6. QED BY <1>1, <1>2, <1>3, <1>4, <1>5 DEF Gates!Docker

LEMMA KubernetesSteps ==
  ASSUME Gates!OrdersAssumption, GatesBooked, NEW g \in Clients, Gates!Kubernetes(g)
  PROVE  GatesBooked'
<1> USE DEF Gates!AskKubernetes, CheckedOrder, Gates!Valid, Gates!Abilities
<1>1. ASSUME NEW size, Gates!Apply(g, size)
      PROVE  GatesBooked'
  BY <1>1, GatesAsk DEF Gates!Apply
<1>2. ASSUME NEW op \in ResourceActions, NEW resource, NEW name, NEW namespace,
             Gates!ResourceAction(g, op, resource, name, namespace)
      PROVE  GatesBooked'
  <2>1. op # "get_logs"
    BY DEF Gates!OrdersAssumption
  <2>2. QED BY <1>2, <2>1, GatesAsk DEF Gates!ResourceAction
<1>3. ASSUME NEW resource, NEW namespace, Gates!List(g, resource, namespace)
      PROVE  GatesBooked'
  <2>1. Gates!TrimSpace(resource) = "clean"
    BY <1>3 DEF Gates!List, Gates!TrimSpace
  <2>2. QED BY <1>3, <2>1, GatesAsk DEF Gates!List
<1>4. ASSUME NEW deployment, NEW replicas, NEW namespace, Gates!Scale(g, deployment, replicas, namespace)
      PROVE  GatesBooked'
  BY <1>4, GatesAsk DEF Gates!Scale
<1>5. ASSUME NEW pod, NEW tail \in -1 .. maxLogTail + 1, NEW namespace,
             Gates!GetLogs(g, pod, tail, namespace)
      PROVE  GatesBooked'
  <2>1. Gates!Lines(tail) \in 1 .. maxLogTail
    BY <1>5 DEF Gates!GetLogs, Gates!Lines, Gates!Smaller, Gates!OrdersAssumption
  <2>2. QED BY <1>5, <2>1, GatesAsk DEF Gates!GetLogs
<1>6. QED BY <1>1, <1>2, <1>3, <1>4, <1>5 DEF Gates!Kubernetes

(* An order on its way through the gate.                                      *)
LEMMA OrderAt ==
  ASSUME GatesBooked, NEW g \in Clients, order[g].at \in Stages
  PROVE  Ordered(order[g], context) /\ order[g] # Gates!Idle
BY DEF GatesBooked, OrderOK, Gates!Idle, Stages

LEMMA IdleIsNowhere == \A a, stages : ~IsAt(Gates!Idle, a, stages)
BY DEF IsAt

LEMMA ReadsSteps ==
  ASSUME Gates!OrdersAssumption, GatesBooked, NEW g \in Clients
  PROVE  /\ Gates!ReadNamespace(g) => GatesBooked'
         /\ Gates!ReadTransport(g) => GatesBooked'
<1>0. slots \in [Gates!Abilities -> Int] /\ order = [h \in Clients |-> order[h]]
  BY DEF GatesBooked
<1>1. ASSUME Gates!ReadNamespace(g) PROVE GatesBooked'
  <2>1. order[g].at = "namespace" /\ UNCHANGED <<context, slots>>
    BY <1>1 DEF Gates!ReadNamespace
  <2>2. Ordered(order[g], context)
    BY <2>1, OrderAt DEF Stages
  <2>3. PICK next : next = Placed(order[g], "transport", context)
    OBVIOUS
  <2>4. order' = [order EXCEPT ![g] = next]
    BY <1>0, <1>1, <2>3 DEF Gates!ReadNamespace, Gates!currentNamespace, Placed
  <2>5. /\ Whole(next) /\ SameOrder(order[g], next) /\ next.number = order[g].number
        /\ next.inForce = order[g].inForce /\ next.at = "transport" /\ next.namespace = context
    BY <2>2, <2>3, OrderRead DEF Ordered
  <2>6. Ordered(next, context)
    BY <2>1, <2>2, <2>5 DEF Ordered, SameOrder, Stages
  <2>7. \A a : /\ ~IsAt(order[g], a, Holding) /\ ~IsAt(next, a, Holding)
               /\ ~IsAt(next, a, {"inside"})
    BY <2>1, <2>5 DEF IsAt, Holding
  <2>8. QED BY <1>0, <2>1, <2>4, <2>6, <2>7, GatesMove DEF OrderOK
<1>2. ASSUME Gates!ReadTransport(g) PROVE GatesBooked'
  <2>1. order[g].at = "transport" /\ UNCHANGED <<context, slots>>
    BY <1>2 DEF Gates!ReadTransport
  <2>2. Ordered(order[g], context)
    BY <2>1, OrderAt DEF Stages
  <2>3. CASE clients[order[g].to]
    <3>1. PICK next : next = Moved(order[g], "begin", slots[order[g].to])
      OBVIOUS
    <3>2. order' = [order EXCEPT ![g] = next]
      <4>1. order' = [order EXCEPT ![g].at = "begin", ![g].loaded = slots[order[g].to]]
        BY <1>2, <2>3 DEF Gates!ReadTransport
      <4>2. QED BY <1>0, <3>1, <4>1 DEF Moved
    <3>3. /\ Whole(next) /\ SameOrder(order[g], next) /\ next.number = order[g].number
          /\ next.inForce = order[g].inForce /\ next.at = "begin"
          /\ next.namespace = order[g].namespace
      BY <2>2, <3>1, OrderRead DEF Ordered
    <3>4. Ordered(next, context)
      BY <2>1, <2>2, <3>3 DEF Ordered, SameOrder, Stages
    <3>5. \A a : /\ ~IsAt(order[g], a, Holding) /\ ~IsAt(next, a, Holding)
                 /\ ~IsAt(next, a, {"inside"})
      BY <2>1, <3>3 DEF IsAt, Holding
    <3>6. QED BY <1>0, <2>1, <3>2, <3>4, <3>5, GatesMove DEF OrderOK
  <2>4. CASE ~clients[order[g].to]
    <3>1. order' = [order EXCEPT ![g] = Gates!Idle]
      BY <1>2, <2>4 DEF Gates!ReadTransport, Gates!Return
    <3>2. \A a : ~IsAt(order[g], a, Holding)
      BY <2>1 DEF IsAt, Holding
    <3>3. QED BY <1>0, <2>1, <3>1, <3>2, IdleIsNowhere, GatesMove DEF OrderOK
  <2>5. QED BY <2>3, <2>4
<1>3. QED BY <1>1, <1>2

LEMMA GateSteps ==
  ASSUME Gates!OrdersAssumption, GatesBooked, NEW g \in Clients
  PROVE  /\ Gates!BeginCall(g) => GatesBooked'
         /\ Gates!Refuse(g) => GatesBooked'
         /\ Gates!EndCall(g) => GatesBooked'
         /\ \A size : Gates!Answer(g, size) => GatesBooked'
<1>0. slots \in [Gates!Abilities -> Nat] /\ order = [h \in Clients |-> order[h]]
  BY DEF GatesBooked
<1>1. ASSUME Gates!BeginCall(g) PROVE GatesBooked'
  <2>1. /\ order[g].at = "begin" /\ context' = context
        /\ slots' = [slots EXCEPT ![order[g].to] = @ + 1]
    BY <1>1 DEF Gates!BeginCall
  <2>2. Ordered(order[g], context)
    BY <2>1, OrderAt DEF Stages
  <2>3. PICK stage : stage = IF slots[order[g].to] + 1 > maxConcurrency THEN "tooMany" ELSE "inside"
    OBVIOUS
  <2>4. PICK next : next = Moved(order[g], stage, 0)
    OBVIOUS
  <2>5. order' = [order EXCEPT ![g] = next]
    <3>1. order' = [order EXCEPT ![g].at = stage, ![g].loaded = 0]
      BY <1>1, <2>3 DEF Gates!BeginCall, Gates!Counted
    <3>2. QED BY <1>0, <2>4, <3>1 DEF Moved
  <2>6. /\ Whole(next) /\ SameOrder(order[g], next) /\ next.number = order[g].number
        /\ next.inForce = order[g].inForce /\ next.at = stage
        /\ next.namespace = order[g].namespace
    BY <2>2, <2>4, OrderRead DEF Ordered
  <2>7. Ordered(next, context)
    BY <2>1, <2>2, <2>3, <2>6 DEF Ordered, SameOrder, Stages
  <2>8. next # Gates!Idle /\ next.to = order[g].to /\ order[g].to \in Gates!Abilities
          /\ next.at \in Holding
    BY <2>2, <2>3, <2>6 DEF Gates!Idle, SameOrder, Holding, Ordered
  <2>9. ASSUME NEW a \in Gates!Abilities
        PROVE  /\ ~IsAt(order[g], a, Holding)
               /\ IsAt(next, a, Holding) => slots'[a] = slots[a] + 1
               /\ ~IsAt(next, a, Holding) => slots'[a] = slots[a]
               /\ IsAt(next, a, {"inside"}) => slots[a] + 1 <= maxConcurrency
    <3>1. ~IsAt(order[g], a, Holding)
      BY <2>1 DEF IsAt, Holding
    <3>2. IsAt(next, a, Holding) <=> a = order[g].to
      BY <2>8 DEF IsAt
    <3>3. a = order[g].to => slots'[a] = slots[a] + 1
      BY <1>0, <2>1
    <3>4. a # order[g].to => slots'[a] = slots[a]
      BY <1>0, <2>1
    <3>5. IsAt(next, a, {"inside"}) => slots[a] + 1 <= maxConcurrency
      BY <1>0, <2>3, <2>6, <2>8 DEF IsAt, Gates!OrdersAssumption
    <3>6. QED BY <3>1, <3>2, <3>3, <3>4, <3>5
  <2>10. slots' \in [Gates!Abilities -> Int]
    BY <1>0, <2>1, <2>8
  <2>11. context' = context /\ OrderOK(next, context)
    BY <2>1, <2>7 DEF OrderOK
  <2>12. QED BY <2>5, <2>9, <2>10, <2>11, GatesMove
<1>2. ASSUME order[g].at \in {"tooMany", "end"}, slots' = [slots EXCEPT ![order[g].to] = @ - 1],
             Gates!Return(g), context' = context
      PROVE  GatesBooked'
  <2>1. Ordered(order[g], context) /\ order[g] # Gates!Idle
    BY <1>2, OrderAt DEF Stages
  <2>2. ASSUME NEW a \in Gates!Abilities
        PROVE  /\ IsAt(order[g], a, Holding) => slots'[a] = slots[a] - 1
               /\ ~IsAt(order[g], a, Holding) => slots'[a] = slots[a]
    <3>1. IsAt(order[g], a, Holding) <=> a = order[g].to
      BY <1>2, <2>1 DEF IsAt, Holding
    <3>2. a = order[g].to => slots'[a] = slots[a] - 1
      BY <1>0, <1>2
    <3>3. a # order[g].to => slots'[a] = slots[a]
      BY <1>0, <1>2
    <3>4. QED BY <3>1, <3>2, <3>3
  <2>3. slots' \in [Gates!Abilities -> Int]
    BY <1>0, <1>2, <2>1 DEF Ordered
  <2>4. order' = [order EXCEPT ![g] = Gates!Idle]
    BY <1>2 DEF Gates!Return
  <2>5. context' = context /\ OrderOK(Gates!Idle, context)
    BY <1>2 DEF OrderOK
  <2>6. QED BY <2>2, <2>3, <2>4, <2>5, IdleIsNowhere, GatesMove
<1>3. Gates!Refuse(g) => GatesBooked'
  BY <1>2 DEF Gates!Refuse, Gates!TakenBack
<1>4. Gates!EndCall(g) => GatesBooked'
  BY <1>2 DEF Gates!EndCall
<1>5. ASSUME NEW size, Gates!Answer(g, size) PROVE GatesBooked'
  <2>1. order[g].at = "inside" /\ UNCHANGED <<context, slots>>
    BY <1>5 DEF Gates!Answer
  <2>2. Ordered(order[g], context) /\ order[g] # Gates!Idle
    BY <2>1, OrderAt DEF Stages
  <2>3. PICK cut : cut = IF order[g].to = "kubernetes" /\ order[g].op = "get_logs"
                         THEN Gates!Smaller(size, maxOutput) ELSE size
    OBVIOUS
  <2>4. PICK next : next = Over(order[g], cut)
    OBVIOUS
  <2>5. order' = [order EXCEPT ![g] = next]
    <3>1. order' = [order EXCEPT ![g].at = "end", ![g].number = 0, ![g].inForce = {}, ![g].size = cut]
      BY <1>5, <2>3 DEF Gates!Answer
    <3>2. QED BY <1>0, <2>4, <3>1 DEF Over
  <2>6. Whole(next) /\ SameOrder(order[g], next) /\ next.at = "end"
    BY <2>2, <2>4, OrderRead DEF Ordered
  <2>7. Ordered(next, context)
    BY <2>2, <2>6 DEF Ordered, SameOrder, Stages
  <2>8. next # Gates!Idle
    BY <2>6 DEF Gates!Idle
  <2>9. \A a : /\ IsAt(order[g], a, Holding) <=> IsAt(next, a, Holding)
               /\ ~IsAt(next, a, {"inside"})
    BY <2>1, <2>2, <2>6, <2>8 DEF IsAt, Holding, SameOrder
  <2>10. slots' \in [Gates!Abilities -> Int]
    BY <1>0, <2>1
  <2>11. QED BY <2>1, <2>5, <2>7, <2>9, <2>10, GatesMove DEF OrderOK
<1>6. QED BY <1>1, <1>3, <1>4, <1>5

(* A new context is one more that an order on its way may take.               *)
LEMMA ContextStep ==
  ASSUME Gates!OrdersAssumption, GatesBooked, NEW namespace \in Namespaces \cup {Unnamed}, NEW size,
         Gates!SetContext(namespace, size)
  PROVE  GatesBooked'
<1>1. slots' = slots /\ context' \in Namespaces
  BY DEF Gates!SetContext, Gates!OrdersAssumption
<1>2. order' = [h \in Clients |->
                  IF order[h] = Gates!Idle \/ order[h].inForce = {} THEN order[h]
                  ELSE [order[h] EXCEPT !.inForce = @ \cup {context'}]]
  BY DEF Gates!SetContext
<1>3. ASSUME NEW h \in Clients
      PROVE  /\ OrderOK(order'[h], context')
             /\ \A a, stages : IsAt(order'[h], a, stages) <=> IsAt(order[h], a, stages)
  <2>1. OrderOK(order[h], context)
    BY DEF GatesBooked
  <2>2. CASE order[h] = Gates!Idle \/ order[h].inForce = {}
    <3>1. order'[h] = order[h]
      BY <1>2, <2>2
    <3>2. order[h] # Gates!Idle => order[h].at # "namespace"
      BY <2>1, <2>2 DEF OrderOK, Ordered
    <3>3. QED BY <2>1, <3>1, <3>2 DEF OrderOK, Ordered
  <2>3. CASE order[h] # Gates!Idle /\ order[h].inForce # {}
    <3>1. Ordered(order[h], context)
      BY <2>1, <2>3 DEF OrderOK
    <3>2. PICK taken : taken = order[h].inForce \cup {context'}
      OBVIOUS
    <3>3. order'[h] = Widened(order[h], taken)
      BY <1>2, <2>3, <3>2 DEF Widened
    <3>4. PICK next : next = order'[h]
      OBVIOUS
    <3>5. /\ Whole(next) /\ SameOrder(order[h], next) /\ next.number = order[h].number
          /\ next.inForce = taken /\ next.at = order[h].at
          /\ next.namespace = order[h].namespace
      BY <3>1, <3>3, <3>4, OrderRead DEF Ordered
    <3>6. Ordered(next, context')
      BY <2>3, <3>1, <3>2, <3>5 DEF Ordered, SameOrder
    <3>7. next # Gates!Idle
      BY <3>6 DEF Ordered, Gates!Idle, Stages
    <3>8. QED BY <2>3, <3>4, <3>5, <3>6, <3>7 DEF OrderOK, IsAt, SameOrder
  <2>4. QED BY <2>2, <2>3
<1>4. \A a, stages : Gates!To(a, stages)' = Gates!To(a, stages)
  <2>1. SUFFICES ASSUME NEW a, NEW stages PROVE Gates!To(a, stages)' = Gates!To(a, stages)
    OBVIOUS
  <2>2. /\ Gates!To(a, stages) = {h \in Clients : IsAt(order[h], a, stages)}
        /\ Gates!To(a, stages)' = {h \in Clients : IsAt(order'[h], a, stages)}
    BY DEF Gates!To, IsAt
  <2>3. QED BY <1>3, <2>2
<1>5. order' = [h \in Clients |-> order'[h]]
  BY <1>2
<1>6. QED BY <1>1, <1>3, <1>4, <1>5 DEF GatesBooked

LEMMA GatesUnchanged ==
  ASSUME GatesBooked, UNCHANGED <<context, slots, order>>
  PROVE  GatesBooked'
<1>1. \A a, stages : Gates!To(a, stages)' = Gates!To(a, stages)
  BY DEF Gates!To
<1>2. QED BY <1>1 DEF GatesBooked

LEMMA GatesStep ==
  ASSUME Gates!OrdersAssumption, GatesBooked, [Gates!Next]_(Gates!vars)
  PROVE  GatesBooked'
<1>1. CASE (\E a \in Gates!Abilities : Gates!SetTransport(a)) \/ UNCHANGED Gates!vars
  BY <1>1, GatesUnchanged DEF Gates!SetTransport, Gates!vars
<1>2. QED
  BY <1>1, ContextStep, DockerSteps, KubernetesSteps, ReadsSteps, GateSteps DEF Gates!Next

Attached == clients \in [Gates!Abilities -> BOOLEAN]

LEMMA AttachedStep ==
  ASSUME Attached, [Gates!Next]_(Gates!vars)
  PROVE  Attached'
<1>1. ASSUME NEW a \in Gates!Abilities, Gates!SetTransport(a) PROVE Attached'
  BY <1>1 DEF Attached, Gates!SetTransport
<1>2. CASE UNCHANGED clients
  BY <1>2 DEF Attached
<1>3. ASSUME NEW namespace, NEW size, Gates!SetContext(namespace, size) PROVE clients' = clients
  BY <1>3 DEF Gates!SetContext
<1>4. ASSUME NEW g \in Clients, Gates!Docker(g) PROVE clients' = clients
  BY <1>4 DEF Gates!Docker, Gates!ListContainers, Gates!ContainerAction, Gates!StopOrRestart,
     Gates!PullImage, Gates!CreateContainer, Gates!AskDocker, Gates!Ask
<1>5. ASSUME NEW g \in Clients, Gates!Kubernetes(g) PROVE clients' = clients
  BY <1>5 DEF Gates!Kubernetes, Gates!Apply, Gates!ResourceAction, Gates!List, Gates!Scale,
     Gates!GetLogs, Gates!AskKubernetes, Gates!Ask
<1>6. ASSUME NEW g \in Clients,
             \/ Gates!ReadNamespace(g) \/ Gates!ReadTransport(g) \/ Gates!BeginCall(g)
             \/ Gates!Refuse(g) \/ Gates!EndCall(g) \/ \E size \in 0 .. maxOutput + 1 : Gates!Answer(g, size)
      PROVE  clients' = clients
  BY <1>6 DEF Gates!ReadNamespace, Gates!ReadTransport, Gates!BeginCall, Gates!Refuse, Gates!EndCall,
     Gates!Answer
<1>7. CASE UNCHANGED Gates!vars
  BY <1>7, <1>2 DEF Gates!vars
<1>8. QED BY <1>1, <1>2, <1>3, <1>4, <1>5, <1>6, <1>7 DEF Gates!Next

LEMMA GatesSound ==
  ASSUME Gates!OrdersAssumption, GatesBooked, Attached
  PROVE  GatesHold
<1>1. \A g \in Clients : order[g] = Gates!Idle \/ Ordered(order[g], context)
  BY DEF GatesBooked, OrderOK
<1>2. \A a \in Gates!Abilities : slots[a] = Cardinality(Gates!To(a, Holding)) /\ slots[a] \in Nat
  BY DEF GatesBooked
<1>3. Gates!TypeOK
  <2>1. ASSUME NEW a \in Gates!Abilities PROVE slots[a] \in 0 .. Gates!Cardinality(Clients)
    <3>1. IsFiniteSet(Clients) /\ Gates!Cardinality(Clients) = Cardinality(Clients)
      BY GatesCardinality DEF Gates!OrdersAssumption
    <3>2. Cardinality(Gates!To(a, Holding)) <= Cardinality(Clients) /\ Cardinality(Clients) \in Nat
      <4>1. Gates!To(a, Holding) \subseteq Clients
        BY DEF Gates!To
      <4>2. QED BY <3>1, <4>1, FS_Subset, FS_CardinalityType
    <3>3. QED BY <1>2, <3>1, <3>2
  <2>2. \A g \in Clients : order[g] = Gates!Idle \/
          order[g].at \in {"namespace", "transport", "begin", "tooMany", "inside", "end"}
    BY <1>1 DEF Ordered, Stages
  <2>3. context \in Namespaces
    BY DEF GatesBooked
  <2>4. QED BY <2>1, <2>2, <2>3 DEF Gates!TypeOK, Attached
<1>4. Gates!SlotsHeld
  BY GatesCardinality DEF Gates!SlotsHeld, GatesBooked, Holding
<1>5. Gates!NamespaceInForce
  BY <1>1 DEF Gates!NamespaceInForce, Gates!To, Ordered
<1>6. Gates!Clamped
  BY <1>1 DEF Gates!Clamped, Gates!To, Ordered, CheckedOrder
<1>7. QED BY <1>3, <1>4, <1>5, <1>6 DEF GatesHold, Gates!GatesHold

(* For any number of clients and any limit: the transports never have more    *)
(* calls than the limit and no interleaving loses a slot; the names and kinds *)
(* that reach them, but create's image, were checked, stop timeouts and log   *)
(* lines limited from above; and a command that names no namespace acts in    *)
(* one that was in force during it.                                           *)
THEOREM GatesAlwaysHold == Spec => []GatesHold
<1>1. Init => GatesBooked /\ Attached
  BY GatesAssumption, GatesInit DEF Init, Gates!Init, Attached
<1>2. GatesBooked /\ Attached /\ [Next]_vars => (GatesBooked /\ Attached)'
  <2>1. [Next]_vars => [Gates!Next]_(Gates!vars)
    BY DEF Next, vars, gateVars, Gates!vars
  <2>2. QED BY <2>1, GatesAssumption, GatesStep, AttachedStep
<1>3. GatesBooked /\ Attached => GatesHold
  BY GatesAssumption, GatesSound
<1>4. QED BY <1>1, <1>2, <1>3, PTL DEF Spec

-----------------------------------------------------------------------------
(* The file of ConfigFileAbility. What is in it between two saves is what the *)
(* last one wrote; a load that is clean has read it, whole.                   *)
Saveable == {f \in File!Configurations : Cardinality(File!SetKeys(f)) <= maxConfigKeys}
Contents == File!Configurations \cup {NoFile, Torn}

Marshalling == [at : {"marshal"}]
Truncating == [at : {"truncate"}, payload : Saveable]
Writers == [at : {"write"}, payload : Saveable, clean : BOOLEAN]
Loaders == [at : {"read", "apply"}, clean : BOOLEAN, content : File!Configurations \cup {Torn}]
Accesses == {File!Idle} \cup Marshalling \cup Truncating \cup Writers \cup Loaders

FileTyped ==
  /\ values \in Saveable /\ saved \subseteq Saveable /\ lastSaved \in saved \cup {NoFile}
  /\ file \in durable /\ durable \subseteq saved \cup {NoFile, Torn}
  /\ access \in [Clients -> Accesses]

Clean(c) == access[c].clean = TRUE

(* A clean writer has the file for itself, and so had a clean reader.         *)
OneWriter ==
  \A c, d \in Clients : access[c].at = "write" /\ access[d].at = "write" /\ Clean(c) => c = d

AsRead ==
  \A c \in Clients : access[c].at \in {"read", "apply"} /\ Clean(c) =>
    /\ access[c].content = file /\ file # NoFile
    /\ \A d \in Clients : access[d].at # "write"

AsSaved == lastSaved # NoFile => file = lastSaved /\ \A d \in Clients : access[d].at # "write"

FileInductive == FileTyped /\ OneWriter /\ AsRead /\ AsSaved

LEMMA FileOperators ==
  /\ \A S : File!Cardinality(S) = Cardinality(S)
  /\ \A S : File!IsFiniteSet(S) <=> IsFiniteSet(S)
<1>1. \A S : File!Cardinality(S) = Cardinality(S)
  BY Zenon DEF File!Cardinality, Cardinality
<1>2. \A S : File!IsFiniteSet(S) <=> IsFiniteSet(S)
  BY Zenon DEF File!IsFiniteSet, IsFiniteSet
<1>3. QED BY <1>1, <1>2

LEMMA FileInit == File!FileAssumption /\ File!Init => FileInductive
<1> SUFFICES ASSUME File!FileAssumption, File!Init PROVE FileInductive
  OBVIOUS
<1>1. values \in Saveable
  <2>1. values \in File!Configurations /\ File!SetKeys(values) = {}
    BY DEF File!Init, File!Empty, File!Configurations, File!SetKeys, File!FileAssumption
  <2>2. QED BY <2>1, FS_EmptySet DEF Saveable, File!FileAssumption
<1>2. FileTyped
  BY <1>1 DEF File!Init, FileTyped, Accesses
<1>3. \A c \in Clients : access[c].at = "idle"
  BY DEF File!Init, File!Idle
<1>4. QED BY <1>2, <1>3 DEF File!Init, FileInductive, OneWriter, AsRead, AsSaved

(* Of what kind an access is.                                                 *)
LEMMA AccessKinds ==
  ASSUME FileTyped, NEW c \in Clients
  PROVE  /\ access[c].at = "truncate" => access[c] \in Truncating
         /\ access[c].at = "write" => access[c] \in Writers
         /\ access[c].at \in {"read", "apply"} => access[c] \in Loaders
         /\ access[c] \in Accesses /\ File!Idle.at = "idle" /\ File!Idle \in Accesses
<1>1. access[c] \in Accesses /\ File!Idle \in Accesses
  BY DEF FileTyped, Accesses
<1>2. File!Idle.at = "idle" /\ \A x \in Marshalling : x.at = "marshal"
  BY DEF File!Idle, Marshalling
<1>3. /\ \A x \in Truncating : x.at = "truncate"
      /\ \A x \in Writers : x.at = "write"
      /\ \A x \in Loaders : x.at \in {"read", "apply"}
  BY DEF Truncating, Writers, Loaders
<1>4. QED BY <1>1, <1>2, <1>3 DEF Accesses

Marked(x, mark) == [x EXCEPT !.clean = mark]

LEMMA MarkedRead ==
  ASSUME NEW x \in Writers \cup Loaders, NEW mark \in BOOLEAN
  PROVE  Marked(x, mark) \in Accesses /\ Marked(x, mark).at = x.at /\ Marked(x, mark).clean = mark
<1>1. CASE x \in Writers
  <2> PICK b : b = x.clean
    OBVIOUS
  <2>1. PICK p \in Saveable : x = [at |-> "write", payload |-> p, clean |-> b]
    BY <1>1 DEF Writers
  <2>2. Marked(x, mark) = [at |-> "write", payload |-> p, clean |-> mark]
    BY <2>1 DEF Marked
  <2>3. Marked(x, mark) \in Writers
    BY <2>2 DEF Writers
  <2>4. QED BY <2>1, <2>2, <2>3 DEF Accesses
<1>2. CASE x \in Loaders
  <2> PICK b : b = x.clean
    OBVIOUS
  <2>1. PICK a \in {"read", "apply"}, f \in File!Configurations \cup {Torn} :
          x = [at |-> a, clean |-> b, content |-> f]
    BY <1>2 DEF Loaders
  <2>2. Marked(x, mark) = [at |-> a, clean |-> mark, content |-> f]
    BY <2>1 DEF Marked
  <2>3. Marked(x, mark) \in Loaders
    BY <2>2 DEF Loaders
  <2>4. QED BY <2>1, <2>2, <2>3 DEF Accesses
<1>3. QED BY <1>1, <1>2

(* A step of one access that disturbs nobody, and one that disturbs all.      *)
LEMMA AccessMoves ==
  ASSUME FileTyped, NEW c \in Clients, NEW next \in Accesses, access' = [access EXCEPT ![c] = next]
  PROVE  /\ access' \in [Clients -> Accesses] /\ access'[c] = next
         /\ \A d \in Clients \ {c} : access'[d] = access[d]
BY DEF FileTyped

LEMMA AccessDisturbs ==
  ASSUME FileTyped, NEW c \in Clients, NEW next \in Accesses,
         access' = File!Disturbed([access EXCEPT ![c] = next], c)
  PROVE  /\ access' \in [Clients -> Accesses] /\ access'[c] = next
         /\ \A d \in Clients \ {c} : access'[d].at = access[d].at
         /\ \A d \in Clients \ {c} : access'[d].at \in {"write", "read", "apply"} => access'[d].clean = FALSE
<1>1. PICK moved : moved = [access EXCEPT ![c] = next]
  OBVIOUS
<1>2. moved \in [Clients -> Accesses] /\ moved[c] = next /\ \A d \in Clients \ {c} : moved[d] = access[d]
  BY <1>1 DEF FileTyped
<1>3. access' = [d \in Clients |-> IF d # c /\ moved[d].at \in {"write", "read", "apply"}
                                   THEN Marked(moved[d], FALSE) ELSE moved[d]]
  BY <1>1 DEF File!Disturbed, Marked
<1>4. access'[c] = next
  BY <1>2, <1>3
<1>5. ASSUME NEW d \in Clients \ {c}
      PROVE  /\ access'[d] \in Accesses /\ access'[d].at = access[d].at
             /\ access'[d].at \in {"write", "read", "apply"} => access'[d].clean = FALSE
  <2>1. CASE access[d].at \in {"write", "read", "apply"}
    <3>1. access'[d] = Marked(access[d], FALSE)
      BY <1>2, <1>3, <2>1
    <3>2. access[d] \in Writers \cup Loaders
      BY <2>1, AccessKinds
    <3>3. QED BY <3>1, <3>2, MarkedRead
  <2>2. CASE access[d].at \notin {"write", "read", "apply"}
    <3>1. access'[d] = access[d]
      BY <1>2, <1>3, <2>2
    <3>2. QED BY <2>2, <3>1, AccessKinds
  <2>3. QED BY <2>1, <2>2
<1>6. access' \in [Clients -> Accesses]
  BY <1>2, <1>3, <1>4, <1>5
<1>7. QED BY <1>4, <1>5, <1>6

LEMMA KeysChange ==
  ASSUME File!FileAssumption, NEW f \in Saveable, NEW g \in File!Configurations, NEW k,
         File!SetKeys(g) \subseteq File!SetKeys(f) \cup {k},
         k \in File!SetKeys(f) \/ k \notin File!SetKeys(g) \/ Cardinality(File!SetKeys(f)) < maxConfigKeys
  PROVE  g \in Saveable
<1>1. IsFiniteSet(Keys)
  BY FileOperators DEF File!FileAssumption
<1>2. File!SetKeys(f) \subseteq Keys /\ File!SetKeys(g) \subseteq Keys
  BY DEF File!SetKeys
<1>3. IsFiniteSet(File!SetKeys(f)) /\ Cardinality(File!SetKeys(f)) \in Nat
  BY <1>1, <1>2, FS_Subset, FS_CardinalityType
<1>4. IsFiniteSet(File!SetKeys(g)) /\ Cardinality(File!SetKeys(g)) \in Nat
  BY <1>1, <1>2, FS_Subset, FS_CardinalityType
<1>5. Cardinality(File!SetKeys(f)) <= maxConfigKeys /\ maxConfigKeys \in Nat
  BY DEF Saveable, File!FileAssumption
<1>6. CASE File!SetKeys(g) \subseteq File!SetKeys(f)
  <2>1. Cardinality(File!SetKeys(g)) <= Cardinality(File!SetKeys(f))
    BY <1>3, <1>6, FS_Subset
  <2>2. QED BY <1>3, <1>4, <1>5, <2>1 DEF Saveable
<1>7. CASE k \notin File!SetKeys(f) /\ Cardinality(File!SetKeys(f)) < maxConfigKeys
  <2>1. /\ IsFiniteSet(File!SetKeys(f) \cup {k})
        /\ Cardinality(File!SetKeys(f) \cup {k}) = Cardinality(File!SetKeys(f)) + 1
    BY <1>3, <1>7, FS_AddElement
  <2>2. Cardinality(File!SetKeys(g)) <= Cardinality(File!SetKeys(f)) + 1
    BY <2>1, FS_Subset
  <2>3. QED BY <1>3, <1>4, <1>5, <1>7, <2>2 DEF Saveable
<1>8. QED BY <1>6, <1>7

LEMMA MemorySteps ==
  ASSUME File!FileAssumption, FileInductive,
         \/ \E k \in Keys : File!Delete(k)
         \/ \E k \in Keys, v \in 1 .. maxConfigValueBytes : File!Set(k, v)
  PROVE  FileInductive'
<1>1. file' = file /\ durable' = durable /\ access' = access /\ saved' = saved /\ lastSaved' = lastSaved
  BY DEF File!Delete, File!Set
<1>2. values' \in Saveable
  <2>1. values \in Saveable /\ values \in [Keys -> 0 .. maxConfigValueBytes] /\ maxConfigValueBytes \in Nat
    BY DEF FileInductive, FileTyped, Saveable, File!Configurations, File!FileAssumption
  <2>2. ASSUME NEW k \in Keys, File!Delete(k) PROVE values' \in Saveable
    <3>1. values' \in File!Configurations /\ File!SetKeys(values') \subseteq File!SetKeys(values) \cup {k}
          /\ k \notin File!SetKeys(values')
      BY <2>1, <2>2 DEF File!Delete, File!Configurations, File!SetKeys
    <3>2. QED BY <2>1, <3>1, KeysChange
  <2>3. ASSUME NEW k \in Keys, NEW v \in 1 .. maxConfigValueBytes, File!Set(k, v) PROVE values' \in Saveable
    <3>1. values' \in File!Configurations /\ File!SetKeys(values') \subseteq File!SetKeys(values) \cup {k}
      BY <2>1, <2>3 DEF File!Set, File!Configurations, File!SetKeys
    <3>2. k \in File!SetKeys(values) \/ Cardinality(File!SetKeys(values)) < maxConfigKeys
      BY <2>3, FileOperators DEF File!Set
    <3>3. QED BY <2>1, <3>1, <3>2, KeysChange
  <2>4. QED BY <2>2, <2>3
<1>3. FileTyped'
  BY <1>1, <1>2 DEF FileInductive, FileTyped, Saveable, Accesses, Writers, Loaders, Truncating, Marshalling
<1>4. QED BY <1>1, <1>3 DEF FileInductive, OneWriter, AsRead, AsSaved, Clean

(* A step that touches no file.                                               *)
LEMMA AccessQuiet ==
  ASSUME FileInductive, NEW c \in Clients, NEW next \in Accesses,
         next.at \notin {"write", "read", "apply"}, access' = [access EXCEPT ![c] = next],
         file' = file, durable' = durable, saved' = saved, lastSaved' = lastSaved, values' \in Saveable
  PROVE  FileInductive'
<1>1. /\ access' \in [Clients -> Accesses] /\ access'[c] = next
      /\ \A d \in Clients \ {c} : access'[d] = access[d]
  BY AccessMoves DEF FileInductive
<1>2. FileTyped'
  BY <1>1 DEF FileInductive, FileTyped
<1>3. QED BY <1>1, <1>2 DEF FileInductive, OneWriter, AsRead, AsSaved, Clean

LEMMA SaveSteps ==
  ASSUME File!FileAssumption, FileInductive, NEW c \in Clients
  PROVE  /\ (\E overwrite \in BOOLEAN : File!Save(c, overwrite)) => FileInductive'
         /\ File!Marshal(c) => FileInductive'
<1>1. ASSUME NEW overwrite \in BOOLEAN, File!Save(c, overwrite) PROVE FileInductive'
  <2>1. PICK next : next = [at |-> "marshal"]
    OBVIOUS
  <2>2. next \in Accesses /\ next.at = "marshal"
    BY <2>1 DEF Accesses, Marshalling
  <2>3. /\ access' = [access EXCEPT ![c] = next] /\ values' = values
        /\ file' = file /\ durable' = durable /\ saved' = saved /\ lastSaved' = lastSaved
    BY <1>1, <2>1 DEF File!Save
  <2>4. values' \in Saveable
    BY <2>3 DEF FileInductive, FileTyped
  <2>5. QED BY <2>2, <2>3, <2>4, AccessQuiet
<1>2. ASSUME File!Marshal(c) PROVE FileInductive'
  <2>1. PICK next : next = [at |-> "truncate", payload |-> values]
    OBVIOUS
  <2>2. next \in Accesses /\ next.at = "truncate"
    BY <2>1 DEF Accesses, Truncating, FileInductive, FileTyped
  <2>3. /\ access' = [access EXCEPT ![c] = next] /\ values' = values
        /\ file' = file /\ durable' = durable /\ saved' = saved /\ lastSaved' = lastSaved
    BY <1>2, <2>1 DEF File!Marshal
  <2>4. values' \in Saveable
    BY <2>3 DEF FileInductive, FileTyped
  <2>5. QED BY <2>2, <2>3, <2>4, AccessQuiet
<1>3. QED BY <1>1, <1>2

LEMMA TruncateStep ==
  ASSUME File!FileAssumption, FileInductive, NEW c \in Clients, File!Truncate(c)
  PROVE  FileInductive'
<1>1. access[c] \in Truncating
  BY AccessKinds DEF File!Truncate, FileInductive
<1>2. PICK mark \in BOOLEAN : mark = (File!Writing = {})
  OBVIOUS
<1>3. PICK next : next = [at |-> "write", payload |-> access[c].payload, clean |-> mark]
  OBVIOUS
<1>4. next \in Writers /\ next \in Accesses /\ next.at = "write" /\ next.clean = mark
  BY <1>1, <1>3 DEF Truncating, Writers, Accesses
<1>5. access' = File!Disturbed([access EXCEPT ![c] = next], c)
  BY <1>2, <1>3 DEF File!Truncate
<1>6. /\ access' \in [Clients -> Accesses] /\ access'[c] = next
      /\ \A d \in Clients \ {c} : access'[d].at = access[d].at
      /\ \A d \in Clients \ {c} : access'[d].at \in {"write", "read", "apply"} => access'[d].clean = FALSE
  BY <1>4, <1>5, AccessDisturbs DEF FileInductive
<1>7. values' = values /\ file' = Torn /\ durable' = durable \cup {Torn} /\ saved' = saved /\ lastSaved' = NoFile
  BY DEF File!Truncate
<1>8. FileTyped'
  BY <1>6, <1>7 DEF FileInductive, FileTyped
<1>9. mark = TRUE => \A d \in Clients : access[d].at # "write"
  BY <1>2 DEF File!Writing
<1>10. OneWriter'
  BY <1>4, <1>6, <1>9 DEF OneWriter, Clean
<1>11. AsRead' /\ AsSaved'
  BY <1>4, <1>6, <1>7 DEF AsRead, AsSaved, Clean
<1>12. QED BY <1>8, <1>10, <1>11 DEF FileInductive

(* The end of a save, whatever it leaves in the file.                         *)
LEMMA WriteEnds ==
  ASSUME FileInductive, NEW c \in Clients,
         access' = File!Disturbed([access EXCEPT ![c] = File!Idle], c), values' = values,
         saved' \subseteq Saveable, saved \subseteq saved', lastSaved' \in saved' \cup {NoFile},
         file' \in saved' \cup {NoFile, Torn}, durable' = durable \cup {file'},
         lastSaved' # NoFile => access[c].at = "write" /\ Clean(c) /\ file' = lastSaved'
  PROVE  FileInductive'
<1>1. File!Idle.at = "idle" /\ File!Idle \in Accesses
  BY AccessKinds DEF FileInductive
<1>2. /\ access' \in [Clients -> Accesses] /\ access'[c] = File!Idle
      /\ \A d \in Clients \ {c} : access'[d].at = access[d].at
      /\ \A d \in Clients \ {c} : access'[d].at \in {"write", "read", "apply"} => access'[d].clean = FALSE
  BY <1>1, AccessDisturbs DEF FileInductive
<1>3. FileTyped'
  BY <1>2 DEF FileInductive, FileTyped
<1>4. OneWriter' /\ AsRead'
  BY <1>1, <1>2 DEF OneWriter, AsRead, Clean
<1>5. AsSaved'
  BY <1>1, <1>2 DEF FileInductive, OneWriter, AsSaved
<1>6. QED BY <1>3, <1>4, <1>5 DEF FileInductive

LEMMA WriteSteps ==
  ASSUME File!FileAssumption, FileInductive, NEW c \in Clients, File!Write(c) \/ File!WriteFails(c)
  PROVE  FileInductive'
<1>1. access[c].at = "write" /\ access[c].payload \in Saveable /\ access[c].clean \in BOOLEAN
  <2>1. access[c] \in Writers
    BY AccessKinds DEF File!Write, File!WriteFails, FileInductive
  <2>2. QED BY <2>1 DEF Writers
<1>2. /\ access' = File!Disturbed([access EXCEPT ![c] = File!Idle], c) /\ values' = values
      /\ durable' = durable \cup {file'}
  BY DEF File!Write, File!WriteFails
<1>3. CASE File!Write(c)
  <2>1. saved' = saved \cup {access[c].payload}
    BY <1>3 DEF File!Write
  <2>2. CASE access[c].clean = TRUE
    <3>1. file' = access[c].payload /\ lastSaved' = access[c].payload
      BY <1>3, <2>2 DEF File!Write
    <3>2. QED BY <1>1, <1>2, <2>1, <2>2, <3>1, WriteEnds DEF FileInductive, FileTyped, Clean
  <2>3. CASE access[c].clean = FALSE
    <3>1. file' \in {access[c].payload, Torn} /\ lastSaved' = NoFile
      BY <1>3, <2>3 DEF File!Write
    <3>2. QED BY <1>1, <1>2, <2>1, <3>1, WriteEnds DEF FileInductive, FileTyped
  <2>4. QED BY <1>1, <2>2, <2>3
<1>4. CASE File!WriteFails(c)
  <2>1. file' \in {file, Torn} /\ lastSaved' = NoFile /\ saved' = saved
    BY <1>4 DEF File!WriteFails
  <2>2. QED BY <1>2, <2>1, WriteEnds DEF FileInductive, FileTyped
<1>5. QED BY <1>3, <1>4

LEMMA LoadStep ==
  ASSUME File!FileAssumption, FileInductive, NEW c \in Clients, File!Load(c)
  PROVE  FileInductive'
<1>1. PICK mark \in BOOLEAN : mark = (File!Writing = {})
  OBVIOUS
<1>2. PICK next : next = [at |-> "read", clean |-> mark, content |-> file]
  OBVIOUS
<1>3. file # NoFile /\ file \in File!Configurations \cup {Torn}
  BY DEF File!Load, FileInductive, FileTyped, Saveable
<1>4. next \in Loaders /\ next \in Accesses /\ next.at = "read" /\ next.clean = mark /\ next.content = file
  BY <1>2, <1>3 DEF Loaders, Accesses
<1>5. /\ access' = [access EXCEPT ![c] = next] /\ values' = values
      /\ file' = file /\ durable' = durable /\ saved' = saved /\ lastSaved' = lastSaved
  BY <1>1, <1>2 DEF File!Load
<1>6. /\ access' \in [Clients -> Accesses] /\ access'[c] = next
      /\ \A d \in Clients \ {c} : access'[d] = access[d]
  BY <1>4, <1>5, AccessMoves DEF FileInductive
<1>7. FileTyped'
  BY <1>5, <1>6 DEF FileInductive, FileTyped
<1>8. mark = TRUE => \A d \in Clients : access[d].at # "write"
  BY <1>1 DEF File!Writing
<1>9. OneWriter' /\ AsSaved'
  BY <1>4, <1>5, <1>6 DEF FileInductive, OneWriter, AsSaved, Clean
<1>10. AsRead'
  BY <1>3, <1>4, <1>5, <1>6, <1>8 DEF FileInductive, AsRead, Clean
<1>11. QED BY <1>7, <1>9, <1>10 DEF FileInductive

Loaded(x, f) == [x EXCEPT !.at = "apply", !.content = f]

LEMMA LoadedRead ==
  ASSUME NEW x \in Loaders, NEW f \in File!Configurations \cup {Torn}
  PROVE  /\ Loaded(x, f) \in Loaders /\ Loaded(x, f).at = "apply"
         /\ Loaded(x, f).content = f /\ Loaded(x, f).clean = x.clean
<1> PICK b : b = x.clean
  OBVIOUS
<1>1. PICK a \in {"read", "apply"}, g \in File!Configurations \cup {Torn} :
        x = [at |-> a, clean |-> b, content |-> g]
  BY DEF Loaders
<1>2. PICK y : y = Loaded(x, f)
  OBVIOUS
<1>3. y = [at |-> "apply", clean |-> b, content |-> f]
  BY <1>1, <1>2 DEF Loaded
<1>4. x.clean \in BOOLEAN
  BY DEF Loaders
<1>5. y \in Loaders
  BY <1>3, <1>4 DEF Loaders
<1>6. QED BY <1>2, <1>3, <1>5

LEMMA ReadStep ==
  ASSUME File!FileAssumption, FileInductive, NEW c \in Clients, File!ReadAll(c)
  PROVE  FileInductive'
<1>1. access[c] \in Loaders /\ access[c].at = "read"
  BY AccessKinds DEF File!ReadAll, FileInductive
<1>2. PICK f \in File!Read(access[c].content, file) :
        access' = [access EXCEPT ![c].at = "apply", ![c].content = f]
  BY DEF File!ReadAll
<1>3. f \in File!Configurations \cup {Torn}
  <2>1. access[c].content \in File!Configurations \cup {Torn}
    BY <1>1 DEF Loaders
  <2>2. QED BY <1>2, <2>1 DEF File!Read
<1>4. access[c].content = file => f = file
  BY <1>2 DEF File!Read
<1>5. PICK x : x = access[c]
  OBVIOUS
<1>6. PICK next : next = Loaded(x, f)
  OBVIOUS
<1>7. next \in Loaders /\ next \in Accesses /\ next.at = "apply" /\ next.content = f /\ next.clean = x.clean
  BY <1>1, <1>3, <1>5, <1>6, LoadedRead DEF Accesses
<1>8. access' = [access EXCEPT ![c] = next]
  BY <1>2, <1>5, <1>6 DEF Loaded, FileInductive, FileTyped
<1>9. /\ access' \in [Clients -> Accesses] /\ access'[c] = next
      /\ \A d \in Clients \ {c} : access'[d] = access[d]
  BY <1>7, <1>8, AccessMoves DEF FileInductive
<1>10. /\ values' = values /\ file' = file /\ durable' = durable
       /\ saved' = saved /\ lastSaved' = lastSaved
  BY DEF File!ReadAll
<1>11. FileTyped'
  BY <1>9, <1>10 DEF FileInductive, FileTyped
<1>12. OneWriter' /\ AsSaved'
  BY <1>1, <1>5, <1>7, <1>9, <1>10 DEF FileInductive, OneWriter, AsSaved, Clean
<1>13. AsRead'
  BY <1>1, <1>4, <1>5, <1>7, <1>9, <1>10 DEF FileInductive, AsRead, Clean
<1>14. QED BY <1>11, <1>12, <1>13 DEF FileInductive

(* What a load does to the memory, clean or not.                              *)
LEMMA ApplyReplaces ==
  ASSUME FileInductive, NEW c \in Clients, File!Apply(c)
  PROVE  /\ values' \in {values, access[c].content} /\ values' \in Saveable
         /\ access[c].content = Torn => values' = values
         /\ File!Loadable(access[c].content) /\ access[c].content \in Saveable => values' = access[c].content
<1>1. values \in Saveable /\ access[c] \in Loaders
  BY AccessKinds DEF File!Apply, FileInductive, FileTyped
<1>2. CASE File!Loadable(access[c].content)
  <2>1. values' = IF File!Cardinality(File!SetKeys(access[c].content)) <= maxConfigKeys
                  THEN access[c].content ELSE values
    BY <1>2 DEF File!Apply, File!ReplaceAll, File!Replacement
  <2>2. access[c].content # Torn /\ access[c].content \in File!Configurations
    BY <1>1, <1>2 DEF File!Loadable, Loaders
  <2>3. QED BY <1>1, <2>1, <2>2, FileOperators DEF Saveable
<1>3. CASE ~File!Loadable(access[c].content)
  BY <1>1, <1>3 DEF File!Apply
<1>4. QED BY <1>2, <1>3

LEMMA ApplyStep ==
  ASSUME FileInductive, NEW c \in Clients, File!Apply(c)
  PROVE  FileInductive'
<1>1. File!Idle.at = "idle" /\ File!Idle \in Accesses
  BY AccessKinds DEF FileInductive
<1>2. /\ access' = [access EXCEPT ![c] = File!Idle]
      /\ file' = file /\ durable' = durable /\ saved' = saved /\ lastSaved' = lastSaved
  BY DEF File!Apply, File!Return
<1>3. QED BY <1>1, <1>2, ApplyReplaces, AccessQuiet

LEMMA CrashStep ==
  ASSUME File!FileAssumption, FileInductive, File!Crash
  PROVE  FileInductive'
<1>1. values' \in Saveable
  <2>1. values' \in File!Configurations /\ File!SetKeys(values') = {}
    BY DEF File!Crash, File!Empty, File!Configurations, File!SetKeys, File!FileAssumption
  <2>2. QED BY <2>1, FS_EmptySet DEF Saveable, File!FileAssumption
<1>2. /\ access' \in [Clients -> Accesses] /\ \A c \in Clients : access'[c].at = "idle"
  BY DEF File!Crash, File!Idle, Accesses
<1>3. /\ file' \in durable /\ durable' = {file'} /\ lastSaved' = NoFile /\ saved' = saved
  BY DEF File!Crash
<1>4. FileTyped'
  BY <1>1, <1>2, <1>3 DEF FileInductive, FileTyped
<1>5. QED BY <1>2, <1>3, <1>4 DEF FileInductive, OneWriter, AsRead, AsSaved

LEMMA FileStep ==
  ASSUME File!FileAssumption, FileInductive, [File!Next]_(File!vars)
  PROVE  FileInductive'
<1>1. CASE UNCHANGED File!vars
  <2>1. /\ values' = values /\ file' = file /\ durable' = durable /\ access' = access
        /\ saved' = saved /\ lastSaved' = lastSaved
    BY <1>1 DEF File!vars
  <2>2. QED BY <2>1 DEF FileInductive, FileTyped, OneWriter, AsRead, AsSaved, Clean
<1>2. CASE File!Next
  BY <1>2, MemorySteps, SaveSteps, TruncateStep, WriteSteps, LoadStep, ReadStep, ApplyStep, CrashStep
  DEF File!Next
<1>3. QED BY <1>1, <1>2

LEMMA FileTypes == FileInductive => File!TypeOK
<1> SUFFICES ASSUME FileInductive PROVE File!TypeOK
  OBVIOUS
<1>1. \A c \in Clients : access[c].at \in {"idle", "marshal", "truncate", "write", "read", "apply"}
  BY DEF FileInductive, FileTyped, Accesses, File!Idle, Marshalling, Truncating, Writers, Loaders
<1>2. QED BY <1>1 DEF FileInductive, FileTyped, Saveable, File!TypeOK

(* A load that found no save at work has read the file as it is.              *)
LEMMA LoadsSaved ==
  ASSUME FileInductive, NEW c \in Clients, File!Apply(c), access[c].clean
  PROVE  /\ values' \in saved \cup {values}
         /\ lastSaved # NoFile /\ File!Loadable(lastSaved) => values' = lastSaved
<1>1. access[c].at = "apply" /\ access[c].content = file /\ file # NoFile
  <2>1. access[c] \in Loaders /\ access[c].at = "apply"
    BY AccessKinds DEF File!Apply, FileInductive
  <2>2. Clean(c)
    BY <2>1 DEF Clean, Loaders
  <2>3. QED BY <2>1, <2>2 DEF FileInductive, AsRead
<1>2. file \in saved \cup {Torn} /\ saved \subseteq Saveable
  BY <1>1 DEF FileInductive, FileTyped
<1>3. values' \in saved \cup {values}
  BY <1>1, <1>2, ApplyReplaces
<1>4. ASSUME lastSaved # NoFile, File!Loadable(lastSaved) PROVE values' = lastSaved
  <2>1. file = lastSaved /\ lastSaved \in Saveable
    BY <1>4 DEF FileInductive, FileTyped, AsSaved
  <2>2. QED BY <1>1, <1>4, <2>1, ApplyReplaces
<1>5. QED BY <1>3, <1>4

(* However saves, loads and changes of the memory overlap and whatever a      *)
(* crash leaves: a load that no save disturbs makes the memory what some save *)
(* wrote, whole, and what the last one wrote if it was alone, or leaves it.   *)
THEOREM LoadRestoresHolds == Spec => LoadRestores
<1> DEFINE Restores ==
      \A c \in Clients : File!Apply(c) /\ access[c].clean =>
        /\ values' \in saved \cup {values}
        /\ lastSaved # NoFile /\ File!Loadable(lastSaved) => values' = lastSaved
<1>1. Init => FileInductive
  BY ConfigAssumption, FileInit DEF Init
<1>2. FileInductive /\ [Next]_vars => FileInductive'
  <2>1. [Next]_vars => [File!Next]_(File!vars)
    BY DEF Next, vars, fileVars, File!vars
  <2>2. QED BY <2>1, ConfigAssumption, FileStep
<1>3. FileInductive => File!TypeOK
  BY FileTypes
<1>4. FileInductive => [Restores]_(File!vars)
  BY LoadsSaved
<1>5. File!LoadRestores <=> [][Restores]_(File!vars)
  BY DEF File!LoadRestores
<1>6. QED BY <1>1, <1>2, <1>3, <1>4, <1>5, PTL DEF Spec, LoadRestores

-----------------------------------------------------------------------------
(* The ring of MetricsCollector. What was recorded, s, and the ring of r      *)
(* slots that holds the last of it: b, of which p slots were written since it *)
(* last wrapped.                                                              *)
Holds(b, p, r, s) ==
  /\ b \in [0 .. r - 1 -> Durations \cup {0}] /\ p \in 0 .. r
  /\ Len(s) <= r => p = Len(s) /\ \A i \in 1 .. p : b[i - 1] = s[i]
  /\ Len(s) > r =>
       /\ p >= 1 /\ \A i \in 1 .. p : b[i - 1] = s[Len(s) - p + i]
       /\ \A i \in p + 1 .. r : b[i - 1] = s[Len(s) - p - r + i]

LEMMA RingTurns ==
  ASSUME NEW r \in Nat \ {0}, NEW b, NEW p, NEW s \in Seq(Durations), Holds(b, p, r, s),
         NEW d \in Durations, NEW slot, slot = IF p >= r THEN 0 ELSE p
  PROVE  Holds([b EXCEPT ![slot] = d], slot + 1, r, Append(s, d))
<1>1. PICK n \in Nat : n = Len(s)
  OBVIOUS
<1>2. PICK b2 : b2 = [b EXCEPT ![slot] = d]
  OBVIOUS
<1>3. PICK s2 : s2 = Append(s, d)
  OBVIOUS
<1>4. p \in 0 .. r /\ slot \in 0 .. r - 1 /\ b \in [0 .. r - 1 -> Durations \cup {0}]
  BY DEF Holds
<1>5. /\ b2 \in [0 .. r - 1 -> Durations \cup {0}] /\ b2[slot] = d
      /\ \A k \in 0 .. r - 1 : k # slot => b2[k] = b[k]
  BY <1>2, <1>4
<1>6. Len(s2) = n + 1 /\ s2[n + 1] = d /\ \A k \in 1 .. n : s2[k] = s[k]
  BY <1>1, <1>3
<1>7. CASE n < r
  <2>1. p = n /\ slot = n /\ \A i \in 1 .. n : b[i - 1] = s[i]
    BY <1>1, <1>4, <1>7 DEF Holds
  <2>2. \A i \in 1 .. n + 1 : b2[i - 1] = s2[i]
    BY <1>4, <1>5, <1>6, <1>7, <2>1
  <2>3. Holds(b2, slot + 1, r, s2)
    BY <1>5, <1>6, <1>7, <2>1, <2>2 DEF Holds
  <2>4. QED BY <1>2, <1>3, <2>3
<1>8. CASE n = r
  <2>1. p = r /\ slot = 0 /\ \A i \in 1 .. r : b[i - 1] = s[i]
    BY <1>1, <1>4, <1>8 DEF Holds
  <2>2. \A i \in 2 .. r : b2[i - 1] = s2[i]
    BY <1>4, <1>5, <1>6, <1>8, <2>1
  <2>3. Holds(b2, slot + 1, r, s2)
    BY <1>5, <1>6, <1>8, <2>1, <2>2 DEF Holds
  <2>4. QED BY <1>2, <1>3, <2>3
<1>9. CASE n > r /\ p < r
  <2>1. /\ p >= 1 /\ slot = p
        /\ \A i \in 1 .. p : b[i - 1] = s[n - p + i]
        /\ \A i \in p + 1 .. r : b[i - 1] = s[n - p - r + i]
    BY <1>1, <1>4, <1>9 DEF Holds
  <2>2. \A i \in 1 .. p + 1 : b2[i - 1] = s2[(n + 1) - (p + 1) + i]
    <3>1. \A i \in 1 .. p : b2[i - 1] = s2[n - p + i]
      BY <1>4, <1>5, <1>6, <1>9, <2>1
    <3>2. b2[(p + 1) - 1] = s2[n + 1]
      BY <1>4, <1>5, <1>6, <2>1
    <3>3. SUFFICES ASSUME NEW i \in 1 .. p + 1 PROVE b2[i - 1] = s2[(n + 1) - (p + 1) + i]
      OBVIOUS
    <3>4. i \in Int /\ n - p + i = (n + 1) - (p + 1) + i
      BY <1>4
    <3>5. CASE i = p + 1
      <4>1. i - 1 = (p + 1) - 1 /\ (n + 1) - (p + 1) + i = n + 1
        BY <1>4, <3>5
      <4>2. QED BY <3>2, <4>1
    <3>6. CASE i # p + 1
      <4>1. i \in 1 .. p
        BY <1>4, <3>6
      <4>2. QED BY <3>1, <3>4, <4>1
    <3>7. QED BY <3>5, <3>6
  <2>3. \A i \in p + 2 .. r : b2[i - 1] = s2[(n + 1) - (p + 1) - r + i]
    BY <1>4, <1>5, <1>6, <1>9, <2>1
  <2>4. Holds(b2, slot + 1, r, s2)
    BY <1>4, <1>5, <1>6, <1>9, <2>1, <2>2, <2>3 DEF Holds
  <2>5. QED BY <1>2, <1>3, <2>4
<1>10. CASE n > r /\ p = r
  <2>1. slot = 0 /\ \A i \in 1 .. r : b[i - 1] = s[n - r + i]
    BY <1>1, <1>4, <1>10 DEF Holds
  <2>2. \A i \in 2 .. r : b2[i - 1] = s2[n - r + i]
    BY <1>4, <1>5, <1>6, <1>10, <2>1
  <2>3. Holds(b2, slot + 1, r, s2)
    BY <1>5, <1>6, <1>10, <2>1, <2>2 DEF Holds
  <2>4. QED BY <1>2, <1>3, <2>3
<1>11. QED BY <1>1, <1>4, <1>7, <1>8, <1>9, <1>10

LEMMA EventsCardinality == \A S : Events!Cardinality(S) = Cardinality(S)
BY Zenon DEF Events!Cardinality, Cardinality

(* Two sequences of the same values in another order.                         *)
Turned(r, u, w, f, g) ==
  /\ r \in Nat /\ DOMAIN u = 1 .. r /\ DOMAIN w = 1 .. r
  /\ f \in [1 .. r -> 1 .. r] /\ g \in [1 .. r -> 1 .. r]
  /\ \A i \in 1 .. r : w[f[i]] = u[i] /\ g[f[i]] = i /\ f[g[i]] = i

LEMMA SameTimes ==
  ASSUME NEW r, NEW u, NEW w, NEW f, NEW g, Turned(r, u, w, f, g), NEW d
  PROVE  Events!HowOften(u, d) = Events!HowOften(w, d)
<1>. USE DEF Turned
<1>1. PICK U : U = {i \in 1 .. r : u[i] = d}
  OBVIOUS
<1>2. PICK W : W = {j \in 1 .. r : w[j] = d}
  OBVIOUS
<1>3. IsFiniteSet(U)
  BY <1>1, FS_Interval, FS_Subset
<1>4. ExistsBijection(U, W)
  <2>1. PICK h : h = [i \in U |-> f[i]]
    OBVIOUS
  <2>2. h \in [U -> W] /\ \A i \in U : h[i] = f[i]
    BY <1>1, <1>2, <2>1
  <2>3. \A i, j \in U : h[i] = h[j] => i = j
    BY <1>1, <2>2
  <2>4. \A j \in W : \E i \in U : h[i] = j
    <3>1. SUFFICES ASSUME NEW j \in W PROVE g[j] \in U /\ h[g[j]] = j
      OBVIOUS
    <3>2. j \in 1 .. r /\ w[j] = d
      BY <1>2
    <3>3. g[j] \in 1 .. r /\ f[g[j]] = j /\ u[g[j]] = w[j]
      BY <3>2
    <3>4. QED BY <1>1, <2>2, <3>2, <3>3
  <2>5. h \in Bijection(U, W)
    BY <2>2, <2>3, <2>4, Fun_IsBij
  <2>6. QED BY <2>5 DEF ExistsBijection
<1>5. Cardinality(U) = Cardinality(W)
  BY <1>3, <1>4, FS_Bijection
<1>6. U = {i \in DOMAIN u : u[i] = d} /\ W = {j \in DOMAIN w : w[j] = d}
  BY <1>1, <1>2
<1>7. QED BY <1>5, <1>6, EventsCardinality DEF Events!HowOften

(* What Snapshot returns of a ring, and the latest of what was recorded.      *)
ReadOff(r, b, p, s, n, u, w) ==
  /\ r \in Nat \ {0} /\ s \in Seq(Durations) /\ n = Len(s) /\ n > r
  /\ Holds(b, p, r, s)
  /\ DOMAIN u = 1 .. r /\ \A i \in 1 .. r : u[i] = b[i - 1]
  /\ DOMAIN w = 1 .. r /\ \A j \in 1 .. r : w[j] = s[n - r + j]

LEMMA RingReadLatest ==
  ASSUME NEW r, NEW b, NEW p, NEW s, NEW n, NEW u, NEW w, ReadOff(r, b, p, s, n, u, w), NEW d
  PROVE  Events!HowOften(u, d) = Events!HowOften(w, d)
<1>0. /\ r \in Nat \ {0} /\ n \in Nat /\ n > r /\ n = Len(s) /\ Holds(b, p, r, s)
      /\ DOMAIN u = 1 .. r /\ \A i \in 1 .. r : u[i] = b[i - 1]
      /\ DOMAIN w = 1 .. r /\ \A j \in 1 .. r : w[j] = s[n - r + j]
  BY DEF ReadOff
<1>1. /\ p \in 1 .. r
      /\ \A i \in 1 .. p : b[i - 1] = s[n - p + i]
      /\ \A i \in p + 1 .. r : b[i - 1] = s[n - p - r + i]
  BY <1>0 DEF Holds
<1>2. PICK f : f = [i \in 1 .. r |-> IF i <= p THEN r - p + i ELSE i - p]
  BY <1>0
<1>3. PICK g : g = [j \in 1 .. r |-> IF j > r - p THEN j - (r - p) ELSE j + p]
  BY <1>0
<1>6. f \in [1 .. r -> 1 .. r] /\ g \in [1 .. r -> 1 .. r]
  BY <1>0, <1>1, <1>2, <1>3
<1>7. \A i \in 1 .. r : g[f[i]] = i /\ f[g[i]] = i
  BY <1>0, <1>1, <1>2, <1>3, <1>6
<1>8. ASSUME NEW i \in 1 .. r PROVE w[f[i]] = u[i]
  <2>1. f[i] \in 1 .. r /\ w[f[i]] = s[n - r + f[i]] /\ u[i] = b[i - 1]
    BY <1>0, <1>6
  <2>2. CASE i <= p
    <3>1. f[i] = r - p + i
      BY <1>0, <1>2, <2>2
    <3>2. n - r + f[i] = n - p + i
      BY <1>0, <1>1, <3>1
    <3>3. i \in 1 .. p /\ b[i - 1] = s[n - p + i]
      BY <1>0, <1>1, <2>2
    <3>4. QED BY <2>1, <3>2, <3>3
  <2>3. CASE i > p
    <3>1. f[i] = i - p
      BY <1>0, <1>1, <1>2, <2>3
    <3>2. n - r + f[i] = n - p - r + i
      BY <1>0, <1>1, <3>1
    <3>3. i \in p + 1 .. r
      BY <1>1, <2>3
    <3>4. b[i - 1] = s[n - p - r + i]
      BY <1>1, <3>3
    <3>5. QED BY <2>1, <3>2, <3>4
  <2>4. QED BY <1>0, <1>1, <2>2, <2>3
<1>9. \A i \in 1 .. r : w[f[i]] = u[i] /\ g[f[i]] = i /\ f[g[i]] = i
  BY <1>7, <1>8
<1>10. Turned(r, u, w, f, g)
  BY <1>0, <1>6, <1>9 DEF Turned
<1>11. QED BY <1>10, SameTimes

Rings == [buf : [Events!Positions -> Durations \cup {0}], pos : 0 .. ringCapacity, full : BOOLEAN]

RingKept ==
  /\ recorded \in Seq(Durations) /\ ring \in Rings
  /\ Holds(ring.buf, ring.pos, ringCapacity, recorded)
  /\ (ring.full = TRUE => Len(recorded) > ringCapacity) /\ (Len(recorded) > ringCapacity => ring.full = TRUE)

LEMMA RingRecords ==
  ASSUME Events!EventsAssumption, RingKept, NEW d \in Durations, Events!Record(d)
  PROVE  RingKept' /\ recorded' = Append(recorded, d)
<1>1. PICK mark \in BOOLEAN : mark = (ring.full \/ Events!Wraps(ring.pos))
  OBVIOUS
<1>2. PICK slot : slot = Events!Slot
  OBVIOUS
<1>3. ringCapacity \in Nat \ {0} /\ ring.pos \in 0 .. ringCapacity
  BY DEF Events!EventsAssumption, RingKept, Rings
<1>4. slot = IF ring.pos >= ringCapacity THEN 0 ELSE ring.pos
  BY <1>2 DEF Events!Slot, Events!Wraps
<1>5. ring' = [buf |-> [ring.buf EXCEPT ![slot] = d], pos |-> slot + 1, full |-> mark]
  BY <1>1, <1>2 DEF Events!Record
<1>6. recorded' = Append(recorded, d) /\ recorded \in Seq(Durations)
  BY DEF Events!Record, RingKept
<1>7. Holds([ring.buf EXCEPT ![slot] = d], slot + 1, ringCapacity, Append(recorded, d))
  BY <1>3, <1>4, <1>6, RingTurns DEF RingKept
<1>8. ring' \in Rings
  <2>1. /\ [ring.buf EXCEPT ![slot] = d] \in [Events!Positions -> Durations \cup {0}]
        /\ slot + 1 \in 0 .. ringCapacity
    BY <1>7 DEF Holds, Events!Positions
  <2>2. QED BY <1>5, <2>1 DEF Rings
<1>9. Len(recorded') = Len(recorded) + 1 /\ Len(recorded) \in Nat
  BY <1>6
<1>10. ring.pos >= ringCapacity => Len(recorded) >= ringCapacity
  BY <1>3, <1>6 DEF RingKept, Holds
<1>11. Len(recorded) = ringCapacity => ring.pos >= ringCapacity
  BY <1>3, <1>6 DEF RingKept, Holds
<1>12. mark = TRUE => Len(recorded) + 1 > ringCapacity
  <2>1. SUFFICES ASSUME mark = TRUE PROVE Len(recorded) + 1 > ringCapacity
    OBVIOUS
  <2>2. ring.full = TRUE \/ ring.pos >= ringCapacity
    <3>1. ring.full \in BOOLEAN
      BY DEF RingKept, Rings
    <3>2. ring.full \/ Events!Wraps(ring.pos)
      BY <1>1, <2>1
    <3>3. QED BY <3>1, <3>2 DEF Events!Wraps
  <2>3. ring.full = TRUE => Len(recorded) > ringCapacity
    BY DEF RingKept
  <2>4. QED BY <1>3, <1>9, <1>10, <2>2, <2>3
<1>13. Len(recorded) + 1 > ringCapacity => mark = TRUE
  <2>1. SUFFICES ASSUME Len(recorded) + 1 > ringCapacity PROVE mark = TRUE
    OBVIOUS
  <2>2. CASE Len(recorded) > ringCapacity
    <3>1. ring.full = TRUE
      BY <2>2 DEF RingKept
    <3>2. QED BY <1>1, <3>1
  <2>3. CASE Len(recorded) = ringCapacity
    <3>1. Events!Wraps(ring.pos)
      BY <1>11, <2>3 DEF Events!Wraps
    <3>2. QED BY <1>1, <3>1
  <2>4. Len(recorded) = ringCapacity \/ Len(recorded) > ringCapacity
    BY <1>3, <1>9, <2>1
  <2>5. QED BY <2>2, <2>3, <2>4
<1>14. ring'.buf = [ring.buf EXCEPT ![slot] = d] /\ ring'.pos = slot + 1 /\ ring'.full = mark
  BY <1>5
<1>15. QED BY <1>6, <1>7, <1>8, <1>9, <1>12, <1>13, <1>14 DEF RingKept

LEMMA RingSound ==
  ASSUME Events!EventsAssumption, RingKept
  PROVE  Events!LatestSamples
<1>1. PICK n \in Nat : n = Len(recorded)
  BY DEF RingKept
<1>2. ringCapacity \in Nat \ {0} /\ recorded \in Seq(Durations) /\ Holds(ring.buf, ring.pos, ringCapacity, recorded)
  BY DEF RingKept, Events!EventsAssumption
<1>3. PICK samples : samples = Events!Samples
  OBVIOUS
<1>4. PICK first : first = IF n > ringCapacity THEN n - ringCapacity + 1 ELSE 1
  OBVIOUS
<1>5. PICK latest : latest = SubSeq(recorded, first, n)
  OBVIOUS
<1>6. ASSUME NEW d \in Durations \cup {0} PROVE Events!HowOften(samples, d) = Events!HowOften(latest, d)
  <2>1. CASE n > ringCapacity
    <3>1. samples = [i \in 1 .. ringCapacity |-> ring.buf[i - 1]]
      BY <1>1, <1>3, <2>1 DEF Events!Samples, RingKept
    <3>2. /\ DOMAIN latest = 1 .. ringCapacity
          /\ \A j \in 1 .. ringCapacity : latest[j] = recorded[n - ringCapacity + j]
      BY <1>1, <1>2, <1>4, <1>5, <2>1
    <3>3. DOMAIN samples = 1 .. ringCapacity /\ \A i \in 1 .. ringCapacity : samples[i] = ring.buf[i - 1]
      BY <3>1
    <3>4. ReadOff(ringCapacity, ring.buf, ring.pos, recorded, n, samples, latest)
      BY <1>1, <1>2, <2>1, <3>2, <3>3 DEF ReadOff
    <3>5. QED BY <3>4, RingReadLatest
  <2>2. CASE n <= ringCapacity
    <3>1. samples = [i \in 1 .. ring.pos |-> ring.buf[i - 1]]
      <4>1. ~ring.full
        BY <1>1, <1>2, <2>2 DEF RingKept, Rings
      <4>2. QED BY <1>3, <4>1 DEF Events!Samples
    <3>2. ring.pos = n /\ \A i \in 1 .. n : ring.buf[i - 1] = recorded[i]
      BY <1>1, <1>2, <2>2 DEF Holds
    <3>3. latest = recorded
      <4>1. first = 1
        BY <1>2, <1>4, <2>2
      <4>2. latest = SubSeq(recorded, 1, Len(recorded))
        BY <1>1, <1>5, <4>1
      <4>3. QED BY <1>2, <4>2
    <3>4. recorded = [i \in 1 .. n |-> recorded[i]]
      BY <1>1, <1>2
    <3>5. samples = latest
      BY <3>1, <3>2, <3>3, <3>4
    <3>6. QED BY <3>5
  <2>3. QED BY <1>2, <2>1, <2>2
<1>7. QED BY <1>1, <1>3, <1>4, <1>5, <1>6 DEF Events!LatestSamples

-----------------------------------------------------------------------------
(* Lists of sinks, each once.                                                 *)
Listed(q) == {q[i] : i \in DOMAIN q}
Lists == {q \in Seq(Sinks) : \A i, j \in DOMAIN q : q[i] = q[j] => i = j}

LEMMA EmptyList == <<>> \in Lists /\ Listed(<<>>) = {}
BY DEF Lists, Listed

LEMMA ListCounted ==
  ASSUME NEW q \in Lists
  PROVE  Listed(q) \subseteq Sinks /\ Len(q) = Events!Cardinality(Listed(q))
<1>1. q \in Seq(Sinks) /\ DOMAIN q = 1 .. Len(q) /\ Len(q) \in Nat
  BY DEF Lists
<1>2. Listed(q) \subseteq Sinks
  BY <1>1 DEF Listed
<1>3. PICK T : T = Listed(q)
  OBVIOUS
<1>4. PICK D : D = 1 .. Len(q)
  OBVIOUS
<1>5. ExistsBijection(D, T)
  <2>1. q \in [D -> T]
    BY <1>1, <1>3, <1>4 DEF Listed
  <2>2. \A i, j \in D : q[i] = q[j] => i = j
    BY <1>1, <1>4 DEF Lists
  <2>3. \A t \in T : \E i \in D : q[i] = t
    BY <1>1, <1>3, <1>4 DEF Listed
  <2>4. q \in Bijection(D, T)
    BY <2>1, <2>2, <2>3, Fun_IsBij
  <2>5. QED BY <2>4 DEF ExistsBijection
<1>6. IsFiniteSet(D) /\ Cardinality(D) = Len(q)
  BY <1>1, <1>4, FS_Interval
<1>7. Cardinality(T) = Cardinality(D)
  BY <1>5, <1>6, FS_Bijection
<1>8. Events!Cardinality(T) = Cardinality(T)
  BY EventsCardinality
<1>9. QED BY <1>2, <1>3, <1>6, <1>7, <1>8

LEMMA ListGrows ==
  ASSUME NEW q \in Lists, NEW s \in Sinks, s \notin Listed(q)
  PROVE  Append(q, s) \in Lists
<1>1. PICK n \in Nat : n = Len(q)
  BY DEF Lists
<1>2. q \in Seq(Sinks) /\ DOMAIN q = 1 .. n
  BY <1>1 DEF Lists
<1>3. PICK q2 : q2 = Append(q, s)
  OBVIOUS
<1>4. /\ q2 \in Seq(Sinks) /\ DOMAIN q2 = 1 .. n + 1 /\ q2[n + 1] = s
      /\ \A i \in 1 .. n : q2[i] = q[i]
  BY <1>1, <1>2, <1>3
<1>5. \A i \in 1 .. n : q[i] # s
  BY <1>2 DEF Listed
<1>6. ASSUME NEW i \in 1 .. n + 1, NEW j \in 1 .. n + 1, q2[i] = q2[j] PROVE i = j
  <2>1. CASE i = n + 1 \/ j = n + 1
    BY <1>4, <1>5, <1>6, <2>1
  <2>2. CASE i \in 1 .. n /\ j \in 1 .. n
    <3>1. q[i] = q[j]
      BY <1>4, <1>6, <2>2
    <3>2. QED BY <1>2, <2>2, <3>1 DEF Lists
  <2>3. QED BY <2>1, <2>2
<1>7. QED BY <1>3, <1>4, <1>6 DEF Lists

LEMMA ListShrinks ==
  ASSUME NEW q \in Lists, q # <<>>
  PROVE  /\ Head(q) \in Sinks /\ Tail(q) \in Lists
         /\ Listed(q) = {Head(q)} \cup Listed(Tail(q)) /\ Head(q) \notin Listed(Tail(q))
<1>1. PICK n \in Nat : n = Len(q)
  BY DEF Lists
<1>2. q \in Seq(Sinks) /\ DOMAIN q = 1 .. n /\ n >= 1
  BY <1>1 DEF Lists
<1>3. PICK t : t = Tail(q)
  OBVIOUS
<1>4. /\ t \in Seq(Sinks) /\ DOMAIN t = 1 .. n - 1 /\ \A i \in 1 .. n - 1 : t[i] = q[i + 1]
      /\ Head(q) = q[1] /\ q[1] \in Sinks
  BY <1>1, <1>2, <1>3
<1>5. \A i, j \in 1 .. n : q[i] = q[j] => i = j
  BY <1>2 DEF Lists
<1>6. ASSUME NEW i \in 1 .. n - 1, NEW j \in 1 .. n - 1, t[i] = t[j] PROVE i = j
  <2>1. i + 1 \in 1 .. n /\ j + 1 \in 1 .. n /\ q[i + 1] = q[j + 1]
    BY <1>2, <1>4, <1>6
  <2>2. i + 1 = j + 1
    BY <1>5, <2>1
  <2>3. QED BY <2>2
<1>7. t \in Lists
  BY <1>4, <1>6 DEF Lists
<1>8. \A x : x \in Listed(q) <=> \E i \in 1 .. n : q[i] = x
  BY <1>2 DEF Listed
<1>9. \A x : x \in Listed(t) <=> \E i \in 1 .. n - 1 : q[i + 1] = x
  BY <1>4 DEF Listed
<1>10. ASSUME NEW x PROVE x \in Listed(q) <=> x = q[1] \/ x \in Listed(t)
  <2>1. ASSUME x \in Listed(q), x # q[1] PROVE x \in Listed(t)
    <3>1. PICK i \in 1 .. n : q[i] = x
      BY <1>8, <2>1
    <3>2. i - 1 \in 1 .. n - 1 /\ q[(i - 1) + 1] = x
      BY <1>2, <2>1, <3>1
    <3>3. QED BY <1>9, <3>2
  <2>2. ASSUME x \in Listed(t) PROVE x \in Listed(q)
    <3>1. PICK i \in 1 .. n - 1 : q[i + 1] = x
      BY <1>9, <2>2
    <3>2. i + 1 \in 1 .. n
      BY <1>2, <3>1
    <3>3. QED BY <1>8, <3>1, <3>2
  <2>3. q[1] \in Listed(q)
    BY <1>2, <1>8
  <2>4. QED BY <2>1, <2>2, <2>3
<1>11. q[1] \notin Listed(t)
  <2>1. SUFFICES ASSUME NEW i \in 1 .. n - 1, q[i + 1] = q[1] PROVE FALSE
    BY <1>9
  <2>2. i + 1 \in 1 .. n /\ 1 \in 1 .. n
    BY <1>2
  <2>3. i + 1 = 1
    BY <1>5, <2>1, <2>2
  <2>4. QED BY <2>3
<1>12. Listed(q) = {q[1]} \cup Listed(t)
  BY <1>10
<1>13. QED BY <1>3, <1>4, <1>7, <1>11, <1>12

-----------------------------------------------------------------------------
(* Emissions and the sinks they tell.                                         *)
Emissions ==
  [at : {"outside", "inside"}, left : {<<>>}]
    \cup [at : {"start"}, left : Lists]
    \cup [at : {"terminal"}, left : Lists, duration : Durations]
Tellings == [called : SUBSET Sinks, there : SUBSET Sinks]

EventsTyped == sinks \in Lists /\ emission \in [Clients -> Emissions] /\ told \in [Clients -> Tellings]

(* Who an emission has not told yet is still on its list.                     *)
Told == \A o \in Clients : told[o].called \cup Listed(emission[o].left) = told[o].there

(* The emissions of a terminal event that the collector has yet to be told.   *)
Pending == {o \in Clients : emission[o].at = "terminal" /\ Collector \in Listed(emission[o].left)}

Counted == ended \in 0 .. MaxEvents /\ Len(recorded) + Cardinality(Pending) <= ended

EventsInductive == EventsTyped /\ Told /\ Counted /\ RingKept

LEMMA EventsFinite == Events!EventsAssumption => IsFiniteSet(Clients)
BY Zenon DEF Events!EventsAssumption, Events!IsFiniteSet, IsFiniteSet

LEMMA EmissionRead ==
  ASSUME EventsTyped, NEW o \in Clients
  PROVE  /\ emission[o].at \in {"outside", "start", "inside", "terminal"} /\ emission[o].left \in Lists
         /\ emission[o].at \in {"inside", "outside"} => emission[o].left = <<>>
         /\ emission[o].at = "terminal" => emission[o].duration \in Durations
         /\ told[o].called \subseteq Sinks /\ told[o].there \subseteq Sinks
<1>1. emission[o] \in Emissions /\ told[o] \in Tellings
  BY DEF EventsTyped
<1>2. <<>> \in Lists
  BY EmptyList
<1>3. QED BY <1>1, <1>2 DEF Emissions, Tellings

LEMMA EventsInit == Events!EventsAssumption /\ Events!Init => EventsInductive
<1> SUFFICES ASSUME Events!EventsAssumption, Events!Init PROVE EventsInductive
  OBVIOUS
<1>1. EventsTyped
  BY EmptyList DEF Events!Init, EventsTyped, Emissions, Tellings
<1>2. Told
  BY EmptyList DEF Events!Init, Told
<1>3. Counted
  <2>1. Pending = {}
    BY DEF Events!Init, Pending
  <2>2. Cardinality(Pending) = 0
    BY <2>1, FS_EmptySet
  <2>3. recorded = <<>> /\ ended = 0
    BY DEF Events!Init
  <2>4. QED BY <2>2, <2>3 DEF Counted, Events!EventsAssumption
<1>4. RingKept
  <2>1. PICK r \in Nat \ {0} : r = ringCapacity
    BY DEF Events!EventsAssumption
  <2>2. /\ ring.buf = [i \in 0 .. r - 1 |-> 0] /\ ring.pos = 0 /\ ring.full = FALSE
        /\ recorded = <<>> /\ Len(recorded) = 0 /\ recorded \in Seq(Durations)
    BY <2>1 DEF Events!Init, Events!Positions
  <2>3. ring \in Rings
    BY <2>1 DEF Events!Init, Rings, Events!Positions
  <2>4. Holds(ring.buf, ring.pos, r, recorded)
    BY <2>1, <2>2 DEF Holds
  <2>5. QED BY <2>1, <2>2, <2>3, <2>4 DEF RingKept
<1>5. QED BY <1>1, <1>2, <1>3, <1>4 DEF EventsInductive

LEMMA EmissionMoves ==
  ASSUME EventsTyped, Told, NEW o \in Clients, NEW e \in Emissions, NEW t \in Tellings,
         t.called \cup Listed(e.left) = t.there, sinks' \in Lists,
         emission' = [emission EXCEPT ![o] = e], told' = [told EXCEPT ![o] = t]
  PROVE  EventsTyped' /\ Told'
<1>1. EventsTyped'
  BY DEF EventsTyped
<1>2. \A p \in Clients : /\ emission'[p] = IF p = o THEN e ELSE emission[p]
                         /\ told'[p] = IF p = o THEN t ELSE told[p]
  BY DEF EventsTyped
<1>3. Told'
  BY <1>2 DEF Told
<1>4. QED BY <1>1, <1>3

LEMMA AddStep ==
  ASSUME EventsInductive, NEW s \in Sinks, Events!Add(s)
  PROVE  EventsInductive'
<1>1. sinks' = Append(sinks, s) /\ s \notin Listed(sinks) /\ sinks \in Lists
  BY DEF EventsInductive, EventsTyped, Events!Add, Events!Registered, Listed
<1>2. sinks' \in Lists
  BY <1>1, ListGrows
<1>3. /\ emission' = emission /\ told' = told /\ ended' = ended /\ recorded' = recorded
      /\ ring' = ring
  BY DEF Events!Add
<1>4. EventsTyped' /\ Told' /\ Counted' /\ RingKept'
  BY <1>2, <1>3 DEF EventsInductive, EventsTyped, Told, Counted, Pending, RingKept
<1>5. QED BY <1>4 DEF EventsInductive

(* What the terminal events still owe the collector is a finite number.       *)
LEMMA PendingChanges ==
  ASSUME Events!EventsAssumption, EventsTyped, NEW o \in Clients, NEW e \in Emissions,
         emission' = [emission EXCEPT ![o] = e]
  PROVE  /\ IsFiniteSet(Pending) /\ Cardinality(Pending) \in Nat /\ Cardinality(Pending') \in Nat
         /\ ~(e.at = "terminal" /\ Collector \in Listed(e.left)) => Pending' = Pending \ {o}
         /\ Cardinality(Pending') <= Cardinality(Pending) + 1
         /\ o \notin Pending' => Cardinality(Pending') <= Cardinality(Pending)
         /\ o \in Pending /\ o \notin Pending' => Cardinality(Pending') = Cardinality(Pending) - 1
<1>1. \A p \in Clients : emission'[p] = IF p = o THEN e ELSE emission[p]
  BY DEF EventsTyped
<1>2. IsFiniteSet(Pending)
  <2>1. Pending \subseteq Clients
    BY DEF Pending
  <2>2. QED BY <2>1, EventsFinite, FS_Subset
<1>3. \A p : p # o => (p \in Pending' <=> p \in Pending)
  BY <1>1 DEF Pending
<1>4. o \in Pending' <=> (e.at = "terminal" /\ Collector \in Listed(e.left))
  BY <1>1 DEF Pending
<1>5. PICK P : P = Pending
  OBVIOUS
<1>6. PICK Q : Q = Pending'
  OBVIOUS
<1>7. Q = P \/ Q = P \cup {o} \/ Q = P \ {o}
  BY <1>3, <1>5, <1>6
<1>8. o \notin Q => Q = P \ {o}
  BY <1>3, <1>5, <1>6
<1>9. IsFiniteSet(P)
  BY <1>2, <1>5
<1>10. Cardinality(P) \in Nat /\ Cardinality(P \cup {o}) = IF o \in P THEN Cardinality(P) ELSE Cardinality(P) + 1
  BY <1>9, FS_CardinalityType, FS_AddElement
<1>11. Cardinality(P \ {o}) = IF o \in P THEN Cardinality(P) - 1 ELSE Cardinality(P)
  BY <1>9, FS_RemoveElement
<1>12. IsFiniteSet(P \ {o}) /\ IsFiniteSet(P \cup {o})
  BY <1>9, FS_AddElement, FS_RemoveElement
<1>13. Cardinality(P \ {o}) \in Nat /\ Cardinality(P \cup {o}) \in Nat
  BY <1>12, FS_CardinalityType
<1>14. Cardinality(Q) \in Nat /\ Cardinality(Q) <= Cardinality(P) + 1
  <2>1. CASE Q = P
    BY <1>10, <2>1
  <2>2. CASE Q = P \cup {o}
    <3>1. Cardinality(Q) = Cardinality(P) \/ Cardinality(Q) = Cardinality(P) + 1
      BY <1>10, <2>2
    <3>2. QED BY <1>10, <3>1
  <2>3. CASE Q = P \ {o}
    <3>1. Cardinality(Q) = Cardinality(P) \/ Cardinality(Q) = Cardinality(P) - 1
      BY <1>11, <2>3
    <3>2. Cardinality(Q) \in Nat
      BY <1>13, <2>3
    <3>3. QED BY <1>10, <3>1, <3>2
  <2>4. QED BY <1>7, <2>1, <2>2, <2>3
<1>15. o \notin Q => Cardinality(Q) <= Cardinality(P)
  BY <1>8, <1>10, <1>11
<1>16. o \in P /\ o \notin Q => Cardinality(Q) = Cardinality(P) - 1
  BY <1>8, <1>11
<1>17. QED BY <1>2, <1>4, <1>5, <1>6, <1>8, <1>10, <1>14, <1>15, <1>16

LEMMA EmitSteps ==
  ASSUME Events!EventsAssumption, EventsInductive, NEW o \in Clients,
         Events!EmitStart(o) \/ \E d \in Durations : Events!EmitTerminal(o, d)
  PROVE  EventsInductive'
<1>1. EventsTyped /\ Told /\ Counted /\ RingKept /\ sinks \in Lists
  BY DEF EventsInductive, EventsTyped
<1>2. sinks' = sinks /\ ring' = ring /\ recorded' = recorded
  BY DEF Events!EmitStart, Events!EmitTerminal
<1>3. PICK t : t = [called |-> {}, there |-> Listed(sinks)]
  OBVIOUS
<1>4. t \in Tellings /\ \A e : e.left = sinks => t.called \cup Listed(e.left) = t.there
  BY <1>1, <1>3, ListCounted DEF Tellings
<1>5. Listed(sinks) = Events!Registered
  BY DEF Listed, Events!Registered
<1>6. RingKept'
  BY <1>1, <1>2 DEF RingKept
<1>7. Len(recorded) \in Nat
  BY <1>1 DEF RingKept
<1>8. CASE Events!EmitStart(o)
  <2>1. PICK e : e = [at |-> "start", left |-> sinks]
    OBVIOUS
  <2>2. e \in Emissions /\ e.left = sinks /\ e.at # "terminal"
    BY <1>1, <2>1 DEF Emissions
  <2>3. emission' = [emission EXCEPT ![o] = e] /\ told' = [told EXCEPT ![o] = t] /\ ended' = ended
    BY <1>3, <1>5, <1>8, <2>1 DEF Events!EmitStart, Events!Emit
  <2>4. EventsTyped' /\ Told'
    BY <1>1, <1>2, <1>4, <2>2, <2>3, EmissionMoves
  <2>5. Pending' = Pending \ {o} /\ Cardinality(Pending) \in Nat /\ Cardinality(Pending') \in Nat
    BY <1>1, <2>2, <2>3, PendingChanges
  <2>6. Cardinality(Pending') <= Cardinality(Pending)
    <3>1. o \notin Pending'
      BY <2>5
    <3>2. QED BY <1>1, <2>2, <2>3, <3>1, PendingChanges
  <2>7. Counted'
    BY <1>1, <1>2, <1>7, <2>3, <2>5, <2>6 DEF Counted, Events!EventsAssumption
  <2>8. QED BY <1>6, <2>4, <2>7 DEF EventsInductive
<1>9. ASSUME NEW d \in Durations, Events!EmitTerminal(o, d) PROVE EventsInductive'
  <2>1. PICK e : e = [at |-> "terminal", left |-> sinks, duration |-> d]
    OBVIOUS
  <2>2. e \in Emissions /\ e.left = sinks
    BY <1>1, <2>1 DEF Emissions
  <2>3. /\ emission' = [emission EXCEPT ![o] = e] /\ told' = [told EXCEPT ![o] = t]
        /\ ended' = ended + 1 /\ ended < MaxEvents
    BY <1>3, <1>5, <1>9, <2>1 DEF Events!EmitTerminal, Events!Emit
  <2>4. EventsTyped' /\ Told'
    BY <1>1, <1>2, <1>4, <2>2, <2>3, EmissionMoves
  <2>5. /\ Cardinality(Pending) \in Nat /\ Cardinality(Pending') \in Nat
        /\ Cardinality(Pending') <= Cardinality(Pending) + 1
    BY <1>1, <2>2, <2>3, PendingChanges
  <2>6. Counted'
    BY <1>1, <1>2, <1>7, <2>3, <2>5 DEF Counted, Events!EventsAssumption
  <2>7. QED BY <1>6, <2>4, <2>6 DEF EventsInductive
<1>10. QED BY <1>8, <1>9

LEMMA MarkSteps ==
  ASSUME Events!EventsAssumption, EventsInductive, NEW o \in Clients,
         Events!OperationBegins(o) \/ Events!ObserveReturns(o)
  PROVE  EventsInductive'
<1>1. EventsTyped /\ Told /\ Counted /\ RingKept /\ sinks \in Lists
  BY DEF EventsInductive, EventsTyped
<1>2. /\ sinks' = sinks /\ ring' = ring /\ recorded' = recorded /\ told' = told /\ ended' = ended
      /\ emission[o].left = <<>>
  BY DEF Events!OperationBegins, Events!ObserveReturns
<1>3. emission[o] \in Emissions /\ told[o] \in Tellings /\ told[o].called \cup Listed(<<>>) = told[o].there
  BY <1>1, <1>2 DEF EventsTyped, Told
<1>4. PICK e \in Emissions : /\ e.left = <<>> /\ e.at # "terminal"
                             /\ emission' = [emission EXCEPT ![o] = e]
  <2>1. CASE Events!OperationBegins(o)
    <3>1. emission[o].at = "start" /\ emission' = [emission EXCEPT ![o].at = "inside"]
      BY <2>1 DEF Events!OperationBegins
    <3>2. emission[o] = [at |-> "start", left |-> <<>>]
      BY <1>2, <1>3, <3>1 DEF Emissions
    <3>3. PICK e : e = [at |-> "inside", left |-> <<>>]
      OBVIOUS
    <3>4. emission' = [emission EXCEPT ![o] = e]
      <4>1. [emission[o] EXCEPT !.at = "inside"] = e
        BY <3>2, <3>3
      <4>2. QED BY <3>1, <4>1
    <3>5. e \in Emissions /\ e.left = <<>> /\ e.at # "terminal"
      BY <3>3 DEF Emissions
    <3>6. QED BY <3>4, <3>5
  <2>2. CASE Events!ObserveReturns(o)
    <3>1. PICK e : e = [at |-> "outside", left |-> <<>>]
      OBVIOUS
    <3>2. emission' = [emission EXCEPT ![o] = e]
      BY <2>2, <3>1 DEF Events!ObserveReturns
    <3>3. e \in Emissions /\ e.left = <<>> /\ e.at # "terminal"
      BY <3>1 DEF Emissions
    <3>4. QED BY <3>2, <3>3
  <2>3. QED BY <2>1, <2>2
<1>5. told' = [told EXCEPT ![o] = told[o]]
  BY <1>1, <1>2 DEF EventsTyped
<1>6. EventsTyped' /\ Told'
  BY <1>1, <1>2, <1>3, <1>4, <1>5, EmissionMoves
<1>7. Cardinality(Pending) \in Nat /\ Cardinality(Pending') \in Nat /\ Cardinality(Pending') <= Cardinality(Pending)
  <2>1. Pending' = Pending \ {o}
    BY <1>1, <1>4, PendingChanges
  <2>2. QED BY <1>1, <1>4, <2>1, PendingChanges
<1>8. Counted'
  <2>1. Len(recorded) \in Nat
    BY <1>1 DEF RingKept
  <2>2. QED BY <1>1, <1>2, <1>7, <2>1 DEF Counted, Events!EventsAssumption
<1>9. RingKept'
  BY <1>1, <1>2 DEF RingKept
<1>10. QED BY <1>6, <1>8, <1>9 DEF EventsInductive

(* A sink that is told; the panic of one is recovered around it alone.        *)
CalledRecord(e, rest) == [e EXCEPT !.left = rest]
ToldRecord(t, s) == [t EXCEPT !.called = @ \cup {s}]

LEMMA CalledRead ==
  ASSUME NEW e \in Emissions, e.at \in {"start", "terminal"}, NEW rest \in Lists
  PROVE  CalledRecord(e, rest) \in Emissions /\ CalledRecord(e, rest).left = rest
           /\ CalledRecord(e, rest).at = e.at
<1>1. CASE e.at = "start"
  <2>1. e \in [at : {"start"}, left : Lists]
    BY <1>1 DEF Emissions
  <2>2. QED BY <1>1, <2>1 DEF Emissions, CalledRecord
<1>2. CASE e.at = "terminal"
  <2>1. e \in [at : {"terminal"}, left : Lists, duration : Durations]
    BY <1>2 DEF Emissions
  <2>2. QED BY <1>2, <2>1 DEF Emissions, CalledRecord
<1>3. QED BY <1>1, <1>2

LEMMA ToldRead ==
  ASSUME NEW t \in Tellings, NEW s \in Sinks
  PROVE  /\ ToldRecord(t, s) \in Tellings /\ ToldRecord(t, s).called = t.called \cup {s}
         /\ ToldRecord(t, s).there = t.there
BY DEF Tellings, ToldRecord

LEMMA CallStep ==
  ASSUME Events!EventsAssumption, EventsInductive, NEW o \in Clients, NEW panics \in BOOLEAN,
         Events!Call(o, panics)
  PROVE  EventsInductive'
<1>1. EventsTyped /\ Told /\ Counted /\ RingKept /\ sinks \in Lists
  BY DEF EventsInductive, EventsTyped
<1>2. sinks' = sinks /\ ended' = ended /\ emission[o].left # <<>>
  BY DEF Events!Call
<1>3. /\ emission[o] \in Emissions /\ told[o] \in Tellings /\ emission[o].left \in Lists
      /\ emission[o].at \in {"start", "terminal"}
      /\ told[o].called \cup Listed(emission[o].left) = told[o].there
  BY <1>1, <1>2, EmissionRead DEF EventsTyped, Told
<1>4. PICK s : s = Head(emission[o].left)
  OBVIOUS
<1>5. PICK rest : rest = Tail(emission[o].left)
  OBVIOUS
<1>6. /\ s \in Sinks /\ rest \in Lists /\ Listed(emission[o].left) = {s} \cup Listed(rest)
      /\ s \notin Listed(rest)
  BY <1>2, <1>3, <1>4, <1>5, ListShrinks
<1>7. PICK e : e = CalledRecord(emission[o], rest)
  OBVIOUS
<1>8. e \in Emissions /\ e.left = rest /\ e.at = emission[o].at
  BY <1>3, <1>6, <1>7, CalledRead
<1>9. PICK t : t = ToldRecord(told[o], s)
  OBVIOUS
<1>10. t \in Tellings /\ t.called = told[o].called \cup {s} /\ t.there = told[o].there
  BY <1>3, <1>6, <1>9, ToldRead
<1>11. emission' = [emission EXCEPT ![o] = e] /\ told' = [told EXCEPT ![o] = t]
  <2>1. /\ emission' = [emission EXCEPT ![o].left = rest]
        /\ told' = [told EXCEPT ![o].called = @ \cup {s}]
    BY <1>4, <1>5 DEF Events!Call, Events!Recovered
  <2>2. QED BY <1>7, <1>9, <2>1 DEF CalledRecord, ToldRecord
<1>12. EventsTyped' /\ Told'
  <2>1. t.called \cup Listed(e.left) = t.there
    BY <1>3, <1>6, <1>8, <1>10
  <2>2. QED BY <1>1, <1>2, <1>8, <1>10, <1>11, <2>1, EmissionMoves
<1>13. Len(recorded) \in Nat /\ Cardinality(Pending) \in Nat /\ Cardinality(Pending') \in Nat
  <2>1. recorded \in Seq(Durations)
    BY <1>1 DEF RingKept
  <2>2. Cardinality(Pending) \in Nat /\ Cardinality(Pending') \in Nat
    BY <1>1, <1>8, <1>11, PendingChanges
  <2>3. QED BY <2>1, <2>2
<1>14. CASE s = Collector /\ emission[o].at = "terminal"
  <2>1. PICK d : d = emission[o].duration
    OBVIOUS
  <2>2. d \in Durations /\ Events!Record(d)
    BY <1>1, <1>4, <1>14, <2>1, EmissionRead DEF Events!Call
  <2>3. RingKept' /\ Len(recorded') = Len(recorded) + 1
    <3>1. RingKept' /\ recorded' = Append(recorded, d)
      BY <1>1, <2>2, RingRecords
    <3>2. recorded \in Seq(Durations)
      BY <1>1 DEF RingKept
    <3>3. QED BY <3>1, <3>2
  <2>4. o \in Pending
    BY <1>6, <1>14 DEF Pending
  <2>5. o \notin Pending'
    BY <1>1, <1>6, <1>8, <1>11, <1>14, PendingChanges
  <2>6. Cardinality(Pending') = Cardinality(Pending) - 1
    BY <1>1, <1>8, <1>11, <2>4, <2>5, PendingChanges
  <2>7. Counted'
    BY <1>1, <1>2, <1>13, <2>3, <2>6 DEF Counted, Events!EventsAssumption
  <2>8. QED BY <1>12, <2>3, <2>7 DEF EventsInductive
<1>15. CASE ~(s = Collector /\ emission[o].at = "terminal")
  <2>1. ring' = ring /\ recorded' = recorded
    BY <1>4, <1>15 DEF Events!Call
  <2>2. Pending' \subseteq Pending
    <3>1. \A p \in Clients : emission'[p] = IF p = o THEN e ELSE emission[p]
      BY <1>1, <1>11 DEF EventsTyped
    <3>2. QED BY <1>6, <1>8, <3>1 DEF Pending
  <2>3. Cardinality(Pending') <= Cardinality(Pending)
    <3>1. IsFiniteSet(Pending)
      BY <1>1, <1>8, <1>11, PendingChanges
    <3>2. QED BY <2>2, <3>1, FS_Subset
  <2>4. Counted'
    BY <1>1, <1>2, <1>13, <2>1, <2>3 DEF Counted, Events!EventsAssumption
  <2>5. RingKept'
    BY <1>1, <2>1 DEF RingKept
  <2>6. QED BY <1>12, <2>4, <2>5 DEF EventsInductive
<1>16. QED BY <1>14, <1>15

LEMMA EventsStep ==
  ASSUME Events!EventsAssumption, EventsInductive, [Events!Next]_(Events!vars)
  PROVE  EventsInductive'
<1>1. CASE UNCHANGED Events!vars
  <2>1. /\ sinks' = sinks /\ emission' = emission /\ ring' = ring /\ told' = told
        /\ recorded' = recorded /\ ended' = ended
    BY <1>1 DEF Events!vars
  <2>2. QED BY <2>1 DEF EventsInductive, EventsTyped, Told, Counted, Pending, RingKept
<1>2. CASE Events!Next
  <2>1. CASE Events!Done
    BY <1>1, <2>1 DEF Events!Done
  <2>2. QED BY <1>2, <2>1, AddStep, EmitSteps, MarkSteps, CallStep DEF Events!Next
<1>3. QED BY <1>1, <1>2

LEMMA EventsSound ==
  ASSUME Events!EventsAssumption, EventsInductive
  PROVE  EventsComplete
<1>1. EventsTyped /\ Told /\ Counted /\ RingKept /\ sinks \in Lists
  BY DEF EventsInductive, EventsTyped
<1>2. Events!LatestSamples
  BY <1>1, RingSound
<1>3. Events!EverySinkTold
  <2>1. SUFFICES ASSUME NEW o \in Clients, emission[o].at \in {"inside", "outside"}
                 PROVE  told[o].called = told[o].there
    BY DEF Events!EverySinkTold
  <2>2. emission[o].left = <<>>
    BY <1>1, <2>1, EmissionRead
  <2>3. QED BY <1>1, <2>2, EmptyList DEF Told
<1>4. Events!TypeOK
  <2>1. Events!Registered \subseteq Sinks /\ Len(sinks) = Events!Cardinality(Events!Registered)
    <3>1. Events!Registered = Listed(sinks)
      BY DEF Events!Registered, Listed
    <3>2. QED BY <1>1, <3>1, ListCounted
  <2>2. \A o \in Clients : /\ emission[o].at \in {"outside", "start", "inside", "terminal"}
                           /\ told[o].called \cup told[o].there \subseteq Sinks
    BY <1>1, EmissionRead
  <2>3. DOMAIN ring.buf = Events!Positions /\ ring.pos \in 0 .. ringCapacity /\ ring.full \in BOOLEAN
    BY <1>1 DEF RingKept, Rings
  <2>4. Len(recorded) <= ended /\ ended \in 0 .. MaxEvents
    <3>1. Cardinality(Pending) \in Nat
      <4>1. IsFiniteSet(Clients) /\ Pending \subseteq Clients
        BY EventsFinite DEF Pending
      <4>2. QED BY <4>1, FS_Subset, FS_CardinalityType
    <3>2. Len(recorded) \in Nat /\ ended \in 0 .. MaxEvents /\ Len(recorded) + Cardinality(Pending) <= ended
      BY <1>1 DEF RingKept, Counted
    <3>3. QED BY <3>1, <3>2 DEF Events!EventsAssumption
  <2>5. QED BY <2>1, <2>2, <2>3, <2>4 DEF Events!TypeOK
<1>5. QED BY <1>2, <1>3, <1>4 DEF EventsComplete

(* However sinks are added, panic and are called side by side: an emission    *)
(* that is over has told all that were there and only those, and a snapshot   *)
(* has the latest durations, each as often as it was recorded, whatever the   *)
(* capacity of the ring.                                                      *)
THEOREM EventsCompleteHolds == Spec => []EventsComplete
<1>1. Init => EventsInductive
  BY RingAssumption, EventsInit DEF Init
<1>2. EventsInductive /\ [Next]_vars => EventsInductive'
  <2>1. [Next]_vars => [Events!Next]_(Events!vars)
    BY DEF Next, vars, eventVars, Events!vars
  <2>2. QED BY <2>1, RingAssumption, EventsStep
<1>3. EventsInductive => EventsComplete
  BY RingAssumption, EventsSound
<1>4. QED BY <1>1, <1>2, <1>3, PTL DEF Spec

-----------------------------------------------------------------------------
(* The encoding of Modbus: what is decoded is what was encoded.               *)
LEMMA WordsRead ==
  ASSUME NEW d \in Seq(Nat)
  PROVE  /\ Modbus!Words(d) \in Seq(Nat) /\ Len(Modbus!Words(d)) = 2 * Len(d)
         /\ \A i \in 1 .. Len(d) : /\ Modbus!Words(d)[2 * i - 1] = d[i] \div 256
                                   /\ Modbus!Words(d)[2 * i] = d[i] % 256
<1>1. PICK n \in Nat : n = Len(d)
  OBVIOUS
<1>2. PICK w : w = Modbus!Words(d)
  OBVIOUS
<1>3. w = [i \in 1 .. 2 * n |-> Modbus!Word(d[(i + 1) \div 2])[IF i % 2 = 1 THEN 1 ELSE 2]]
  BY <1>1, <1>2 DEF Modbus!Words
<1>4. \A v : Modbus!Word(v)[1] = v \div 256 /\ Modbus!Word(v)[2] = v % 256
  BY DEF Modbus!Word
<1>5. ASSUME NEW i \in 1 .. 2 * n PROVE w[i] \in Nat
  <2>1. (i + 1) \div 2 \in 1 .. n
    OBVIOUS
  <2>2. d[(i + 1) \div 2] \in Nat
    BY <1>1, <2>1
  <2>3. d[(i + 1) \div 2] \div 256 \in Nat /\ d[(i + 1) \div 2] % 256 \in Nat
    BY <2>2
  <2>4. CASE i % 2 = 1
    BY <1>3, <1>4, <2>3, <2>4
  <2>5. CASE i % 2 # 1
    BY <1>3, <1>4, <2>3, <2>5
  <2>6. QED BY <2>4, <2>5
<1>6. w \in [1 .. 2 * n -> Nat]
  BY <1>3, <1>5
<1>7. w \in Seq(Nat) /\ Len(w) = 2 * n
  BY <1>1, <1>6
<1>8. ASSUME NEW i \in 1 .. n PROVE w[2 * i - 1] = d[i] \div 256 /\ w[2 * i] = d[i] % 256
  <2>1. /\ 2 * i - 1 \in 1 .. 2 * n /\ (2 * i - 1 + 1) \div 2 = i /\ (2 * i - 1) % 2 = 1
        /\ 2 * i \in 1 .. 2 * n /\ (2 * i + 1) \div 2 = i /\ (2 * i) % 2 # 1
    OBVIOUS
  <2>2. QED BY <1>3, <1>4, <2>1
<1>9. QED BY <1>1, <1>2, <1>7, <1>8

LEMMA RegistersDecoded ==
  ASSUME NEW d \in Seq(Nat)
  PROVE  Modbus!decodeRegs(Modbus!Words(d)) = d
<1>1. PICK n \in Nat : n = Len(d)
  OBVIOUS
<1>2. PICK w : w = Modbus!Words(d)
  OBVIOUS
<1>3. Len(w) \div 2 = n
  <2>1. Len(w) = 2 * n
    BY <1>1, <1>2, WordsRead
  <2>2. QED BY <2>1
<1>4. ASSUME NEW i \in 1 .. n PROVE 256 * w[2 * i - 1] + w[2 * i] = d[i]
  <2>1. w[2 * i - 1] = d[i] \div 256 /\ w[2 * i] = d[i] % 256
    <3>1. \A j \in 1 .. Len(d) : /\ Modbus!Words(d)[2 * j - 1] = d[j] \div 256
                                  /\ Modbus!Words(d)[2 * j] = d[j] % 256
      BY ONLY d \in Seq(Nat), WordsRead, Zenon
    <3>2. /\ Modbus!Words(d)[2 * i - 1] = d[i] \div 256
          /\ Modbus!Words(d)[2 * i] = d[i] % 256
      BY ONLY i \in 1 .. n, <1>1, <3>1, Zenon
    <3>3. QED BY ONLY <1>2, <3>2, Zenon
  <2>2. PICK v \in Nat : v = d[i]
    BY <1>1
  <2>3. 256 * (v \div 256) + (v % 256) = v
    OBVIOUS
  <2>4. QED BY <2>1, <2>2, <2>3
<1>5. Modbus!decodeRegs(w) = [i \in 1 .. n |-> d[i]]
  BY <1>3, <1>4 DEF Modbus!decodeRegs
<1>6. QED BY <1>1, <1>2, <1>5

LEMMA LeastOf ==
  ASSUME NEW a \in Int, NEW b \in Int, a <= b
  PROVE  Modbus!Min({a, b}) = a
BY DEF Modbus!Min

LEMMA CoilsDecoded ==
  ASSUME NEW d \in Seq({0, 1})
  PROVE  /\ Modbus!CoilBytes(d) \in Seq(Nat) /\ Len(Modbus!CoilBytes(d)) = (Len(d) + 7) \div 8
         /\ Modbus!decodeCoils(Modbus!CoilBytes(d), Len(d)) = d
<1>1. PICK n \in Nat : n = Len(d)
  OBVIOUS
<1>2. PICK m \in Nat : m = (n + 7) \div 8
  OBVIOUS
<1>3. PICK bytes : bytes = Modbus!CoilBytes(d)
  OBVIOUS
<1>4. PICK bit : bit = [k \in 1 .. 8 * m |-> Modbus!Bit(d, k)]
  OBVIOUS
<1>5. \A k \in 1 .. 8 * m : bit[k] \in {0, 1} /\ (k <= n => bit[k] = d[k])
  BY <1>1, <1>4 DEF Modbus!Bit
<1>6. ASSUME NEW j \in 1 .. m
      PROVE  bytes[j] = bit[8 * (j - 1) + 1] + 2 * bit[8 * (j - 1) + 2] + 4 * bit[8 * (j - 1) + 3]
                          + 8 * bit[8 * (j - 1) + 4] + 16 * bit[8 * (j - 1) + 5] + 32 * bit[8 * (j - 1) + 6]
                          + 64 * bit[8 * (j - 1) + 7] + 128 * bit[8 * (j - 1) + 8]
  <2>1. \A i \in 1 .. 8 : 8 * (j - 1) + i \in 1 .. 8 * m
    OBVIOUS
  <2>2. \A i \in 1 .. 8 : Modbus!Bit(d, 8 * (j - 1) + i) = bit[8 * (j - 1) + i]
    BY <1>4, <2>1
  <2>3. QED BY <1>1, <1>2, <1>3, <2>2, SMTT(30) DEF Modbus!CoilBytes
<1>7. ASSUME NEW j \in 1 .. m
      PROVE  /\ bytes[j] \in Nat
             /\ (bytes[j] \div 2 ^ 0) % 2 = bit[8 * (j - 1) + 1] /\ (bytes[j] \div 2 ^ 1) % 2 = bit[8 * (j - 1) + 2]
             /\ (bytes[j] \div 2 ^ 2) % 2 = bit[8 * (j - 1) + 3] /\ (bytes[j] \div 2 ^ 3) % 2 = bit[8 * (j - 1) + 4]
             /\ (bytes[j] \div 2 ^ 4) % 2 = bit[8 * (j - 1) + 5] /\ (bytes[j] \div 2 ^ 5) % 2 = bit[8 * (j - 1) + 6]
             /\ (bytes[j] \div 2 ^ 6) % 2 = bit[8 * (j - 1) + 7] /\ (bytes[j] \div 2 ^ 7) % 2 = bit[8 * (j - 1) + 8]
  <2>1. \A i \in 1 .. 8 : 8 * (j - 1) + i \in 1 .. 8 * m
    OBVIOUS
  <2>2. PICK a \in {0, 1} : a = bit[8 * (j - 1) + 1]
    BY <1>5, <2>1
  <2>3. PICK b \in {0, 1} : b = bit[8 * (j - 1) + 2]
    BY <1>5, <2>1
  <2>4. PICK c \in {0, 1} : c = bit[8 * (j - 1) + 3]
    BY <1>5, <2>1
  <2>5. PICK d1 \in {0, 1} : d1 = bit[8 * (j - 1) + 4]
    BY <1>5, <2>1
  <2>6. PICK e \in {0, 1} : e = bit[8 * (j - 1) + 5]
    BY <1>5, <2>1
  <2>7. PICK f \in {0, 1} : f = bit[8 * (j - 1) + 6]
    BY <1>5, <2>1
  <2>8. PICK g \in {0, 1} : g = bit[8 * (j - 1) + 7]
    BY <1>5, <2>1
  <2>9. PICK h \in {0, 1} : h = bit[8 * (j - 1) + 8]
    BY <1>5, <2>1
  <2>10. bytes[j] = a + 2 * b + 4 * c + 8 * d1 + 16 * e + 32 * f + 64 * g + 128 * h
    BY <1>6, <2>2, <2>3, <2>4, <2>5, <2>6, <2>7, <2>8, <2>9
  <2>11. bytes[j] \in Nat
    BY <2>10
  <2>12. PICK x : x = bytes[j]
    OBVIOUS
  <2>13. x = a + 2 * b + 4 * c + 8 * d1 + 16 * e + 32 * f + 64 * g + 128 * h
    BY <2>10, <2>12
  <2>14. /\ a \in {0, 1} /\ b \in {0, 1} /\ c \in {0, 1} /\ d1 \in {0, 1}
         /\ e \in {0, 1} /\ f \in {0, 1} /\ g \in {0, 1} /\ h \in {0, 1}
    BY <2>2, <2>3, <2>4, <2>5, <2>6, <2>7, <2>8, <2>9
  <2>15. /\ (x \div 1) % 2 = a /\ (x \div 2) % 2 = b
         /\ (x \div 4) % 2 = c /\ (x \div 8) % 2 = d1
         /\ (x \div 16) % 2 = e /\ (x \div 32) % 2 = f
         /\ (x \div 64) % 2 = g /\ (x \div 128) % 2 = h
    BY <2>13, <2>14
  <2>16. /\ 2 ^ 0 = 1 /\ 2 ^ 1 = 2 /\ 2 ^ 2 = 4 /\ 2 ^ 3 = 8
         /\ 2 ^ 4 = 16 /\ 2 ^ 5 = 32 /\ 2 ^ 6 = 64 /\ 2 ^ 7 = 128
    OBVIOUS
  <2>17. QED BY <2>2, <2>3, <2>4, <2>5, <2>6, <2>7, <2>8, <2>9, <2>11, <2>12, <2>15, <2>16
<1>8. DOMAIN bytes = 1 .. m
  BY <1>1, <1>2, <1>3 DEF Modbus!CoilBytes
<1>9. bytes \in Seq(Nat) /\ Len(bytes) = m
  <2>1. bytes = [j \in 1 .. m |-> bytes[j]]
    BY <1>1, <1>2, <1>3 DEF Modbus!CoilBytes
  <2>2. bytes \in [1 .. m -> Nat]
    BY <1>7, <2>1
  <2>3. QED BY <2>2
<1>10. ASSUME NEW k \in 1 .. n PROVE Modbus!Coil(bytes, k) = d[k]
  <2>1. PICK j \in 1 .. m : j = (k - 1) \div 8 + 1
    BY <1>2
  <2>2. PICK i \in 0 .. 7 : i = (k - 1) % 8
    OBVIOUS
  <2>3. k = 8 * (j - 1) + (i + 1) /\ k \in 1 .. 8 * m
    BY <1>2, <2>1, <2>2
  <2>4. (bytes[j] \div 2 ^ i) % 2 = bit[8 * (j - 1) + (i + 1)]
    <3>1. /\ (bytes[j] \div 2 ^ 0) % 2 = bit[8 * (j - 1) + 1] /\ (bytes[j] \div 2 ^ 1) % 2 = bit[8 * (j - 1) + 2]
          /\ (bytes[j] \div 2 ^ 2) % 2 = bit[8 * (j - 1) + 3] /\ (bytes[j] \div 2 ^ 3) % 2 = bit[8 * (j - 1) + 4]
          /\ (bytes[j] \div 2 ^ 4) % 2 = bit[8 * (j - 1) + 5] /\ (bytes[j] \div 2 ^ 5) % 2 = bit[8 * (j - 1) + 6]
          /\ (bytes[j] \div 2 ^ 6) % 2 = bit[8 * (j - 1) + 7] /\ (bytes[j] \div 2 ^ 7) % 2 = bit[8 * (j - 1) + 8]
      BY <1>7
    <3>2. CASE i = 0
      BY <3>1, <3>2
    <3>3. CASE i = 1
      BY <3>1, <3>3
    <3>4. CASE i = 2
      BY <3>1, <3>4
    <3>5. CASE i = 3
      BY <3>1, <3>5
    <3>6. CASE i = 4
      BY <3>1, <3>6
    <3>7. CASE i = 5
      BY <3>1, <3>7
    <3>8. CASE i = 6
      BY <3>1, <3>8
    <3>9. CASE i = 7
      BY <3>1, <3>9
    <3>10. QED BY <3>2, <3>3, <3>4, <3>5, <3>6, <3>7, <3>8, <3>9
  <2>5. Modbus!Coil(bytes, k) = (bytes[j] \div 2 ^ i) % 2
    BY <2>1, <2>2 DEF Modbus!Coil
  <2>6. bit[k] = d[k]
    BY <1>5, <2>3
  <2>7. QED BY <2>3, <2>4, <2>5, <2>6
<1>11. Modbus!decodeCoils(bytes, n) = [i \in 1 .. n |-> d[i]]
  <2>1. n <= 8 * m
    BY <1>2
  <2>2. Modbus!Min({n, 8 * Len(bytes)}) = n
    BY <1>9, <2>1, LeastOf
  <2>3. QED BY <1>10, <2>2 DEF Modbus!decodeCoils
<1>12. QED BY <1>1, <1>2, <1>3, <1>9, <1>11
LEMMA Framed ==
  ASSUME NEW a \in Nat, NEW b \in Nat, NEW p \in Seq(Nat)
  PROVE  /\ <<a, b>> \o p \in Seq(Nat) /\ Len(<<a, b>> \o p) = 2 + Len(p)
         /\ (<<a, b>> \o p)[1] = a /\ (<<a, b>> \o p)[2] = b
         /\ SubSeq(<<a, b>> \o p, 3, 2 + Len(p)) = p
<1>1. PICK s : s = <<a, b>> \o p
  OBVIOUS
<1>2. PICK n \in Nat : n = Len(p)
  OBVIOUS
<1>3. <<a, b>> \in Seq(Nat) /\ Len(<<a, b>>) = 2
  OBVIOUS
<1>4. s \in Seq(Nat) /\ Len(s) = 2 + n /\ s[1] = a /\ s[2] = b
  BY <1>1, <1>2, <1>3
<1>5. \A i \in 1 .. n : s[2 + i] = p[i]
  BY <1>1, <1>2, <1>3
<1>6. SubSeq(s, 3, 2 + n) = [i \in 1 .. n |-> s[2 + i]]
  <2>1. SubSeq(s, 3, 2 + n) \in Seq(Nat) /\ Len(SubSeq(s, 3, 2 + n)) = n
    BY <1>4
  <2>2. \A i \in 1 .. n : SubSeq(s, 3, 2 + n)[i] = s[2 + i]
    BY <1>4
  <2>3. PICK w : w = SubSeq(s, 3, 2 + n)
    OBVIOUS
  <2>4. w = [i \in 1 .. n |-> w[i]]
    BY <2>1, <2>3
  <2>5. QED BY <2>2, <2>3, <2>4
<1>7. p = [i \in 1 .. n |-> p[i]]
  BY <1>2
<1>8. SubSeq(s, 3, 2 + n) = p
  BY <1>5, <1>6, <1>7
<1>9. QED BY <1>1, <1>2, <1>4, <1>8

LEMMA WordsDiffer ==
  ASSUME NEW v \in Nat, NEW w \in Nat, v \div 256 = w \div 256, v % 256 = w % 256
  PROVE  v = w
<1>1. v = 256 * (v \div 256) + (v % 256)
  OBVIOUS
<1>2. w = 256 * (w \div 256) + (w % 256)
  OBVIOUS
<1>3. QED BY <1>1, <1>2

(* What a unit may have read for a request: as many values as were asked for. *)
ReadFor(r, data) ==
  /\ data \in Seq(Nat) /\ Len(data) = r.quantity
  /\ ~ Modbus!IsRegister(r) => data \in Seq({0, 1})

LEMMA Kinds ==
  /\ Modbus!Reads = {1, 2, 3, 4} /\ Modbus!Writes = {5, 6, 16}
  /\ \A r : r.fc \in Modbus!Reads => (Modbus!IsRegister(r) <=> Modbus!isRegisterFunc(r.fc))
BY DEF Modbus!Reads, Modbus!Writes, Modbus!IsRegister, Modbus!isRegisterFunc, Modbus!ReadCoils,
       Modbus!ReadDiscreteInputs, Modbus!ReadHolding, Modbus!ReadInput, Modbus!WriteCoil,
       Modbus!WriteHolding, Modbus!WriteMultiReg

LEMMA ReadAnswered ==
  ASSUME NEW r, r.fc \in Modbus!Reads, r.quantity \in Nat, Modbus!Exists(r), NEW d, ReadFor(r, d)
  PROVE  /\ Modbus!Response(r, d) \in Seq(Nat) /\ Len(Modbus!Response(r, d)) >= 2
         /\ Modbus!Response(r, d)[1] = r.fc
         /\ Modbus!Decoded(Modbus!Response(r, d), r) = d
<1>1. PICK p : p = Modbus!Payload(r, d)
  OBVIOUS
<1>2. PICK q \in Nat : q = r.quantity
  OBVIOUS
<1>3. d \in Seq(Nat) /\ Len(d) = q
  BY <1>2 DEF ReadFor
<1>4. /\ p \in Seq(Nat)
      /\ Modbus!isRegisterFunc(r.fc) => Modbus!decodeRegs(p) = d
      /\ ~ Modbus!isRegisterFunc(r.fc) => Modbus!decodeCoils(p, q) = d
  <2>1. CASE Modbus!IsRegister(r)
    <3>1. p = Modbus!Words(d) /\ Modbus!isRegisterFunc(r.fc)
      BY <1>1, <2>1, Kinds DEF Modbus!Payload
    <3>2. QED BY <1>3, <3>1, WordsRead, RegistersDecoded
  <2>2. CASE ~ Modbus!IsRegister(r)
    <3>1. p = Modbus!CoilBytes(d) /\ ~ Modbus!isRegisterFunc(r.fc)
      BY <1>1, <2>2, Kinds DEF Modbus!Payload
    <3>2. d \in Seq({0, 1})
      BY <2>2 DEF ReadFor
    <3>3. QED BY <1>3, <3>1, <3>2, CoilsDecoded
  <2>3. QED BY <2>1, <2>2
<1>5. PICK n \in Nat : n = Len(p)
  BY <1>4
<1>6. PICK f \in Nat : f = r.fc
  BY Kinds
<1>7. PICK w : w = Modbus!Response(r, d)
  OBVIOUS
<1>8. w = <<f, n>> \o p
  BY <1>1, <1>5, <1>6, <1>7 DEF Modbus!Response
<1>9. w \in Seq(Nat) /\ Len(w) = 2 + n /\ w[1] = f /\ w[2] = n /\ SubSeq(w, 3, 2 + n) = p
  BY <1>4, <1>5, <1>8, Framed
<1>10. Modbus!Decoded(w, r) = d
  BY <1>2, <1>4, <1>9 DEF Modbus!Decoded
<1>11. Len(w) >= 2
  BY <1>9
<1>12. QED BY <1>6, <1>7, <1>9, <1>10, <1>11

LEMMA Headed ==
  ASSUME NEW f \in Nat, NEW high \in Nat, NEW low \in Nat
  PROVE  /\ <<f>> \o <<high, low>> \in Seq(Nat) /\ Len(<<f>> \o <<high, low>>) = 3
         /\ (<<f>> \o <<high, low>>)[1] = f /\ (<<f>> \o <<high, low>>)[2] = high
         /\ (<<f>> \o <<high, low>>)[3] = low
<1>1. <<f>> \in Seq(Nat) /\ Len(<<f>>) = 1 /\ <<high, low>> \in Seq(Nat) /\ Len(<<high, low>>) = 2
  OBVIOUS
<1>2. QED BY <1>1

LEMMA Continued ==
  ASSUME NEW s \in Seq(Nat), NEW t \in Seq(Nat)
  PROVE  /\ s \o t \in Seq(Nat) /\ Len(s \o t) = Len(s) + Len(t)
         /\ \A i \in 1 .. Len(s) : (s \o t)[i] = s[i]
         /\ \A i \in 1 .. Len(t) : (s \o t)[Len(s) + i] = t[i]
OBVIOUS

LEMMA Lengthened ==
  ASSUME NEW s \in Seq(Nat), Len(s) = 3, NEW h \in Nat, NEW l \in Nat
  PROVE  /\ s \o <<h, l>> \in Seq(Nat) /\ Len(s \o <<h, l>>) = 5
         /\ (s \o <<h, l>>)[1] = s[1] /\ (s \o <<h, l>>)[2] = s[2] /\ (s \o <<h, l>>)[3] = s[3]
         /\ (s \o <<h, l>>)[4] = h /\ (s \o <<h, l>>)[5] = l
<1>1. PICK t : t = <<h, l>>
  OBVIOUS
<1>2. t \in Seq(Nat) /\ Len(t) = 2 /\ t[1] = h /\ t[2] = l
  BY <1>1
<1>3. PICK x : x = s \o t
  OBVIOUS
<1>4. /\ x \in Seq(Nat) /\ Len(x) = Len(s) + Len(t) /\ \A i \in 1 .. Len(s) : x[i] = s[i]
      /\ \A i \in 1 .. Len(t) : x[Len(s) + i] = t[i]
  BY <1>2, <1>3, Continued
<1>5. Len(x) = 5 /\ x[1] = s[1] /\ x[2] = s[2] /\ x[3] = s[3] /\ x[3 + 1] = h /\ x[3 + 2] = l
  BY <1>2, <1>4
<1>6. QED BY <1>1, <1>3, <1>4, <1>5

(* The five bytes that a write and its echo begin with. *)
Begins(p, r) ==
  /\ p[1] = r.fc /\ p[2] = r.address \div 256 /\ p[3] = r.address % 256
  /\ r.fc = 6 => p[4] = r.values[1] \div 256 /\ p[5] = r.values[1] % 256
  /\ r.fc = 5 => p[4] = IF r.values[1] = 1 THEN 255 ELSE 0
  /\ r.fc = 16 => p[4] = Len(r.values) \div 256 /\ p[5] = Len(r.values) % 256

LEMMA WriteBegins ==
  ASSUME NEW r \in Requests, r.fc \in Modbus!Writes, Modbus!CommandsAssumption
  PROVE  /\ Modbus!PDU(r) \in Seq(Nat) /\ Len(Modbus!PDU(r)) >= 5
         /\ Begins(Modbus!PDU(r), r)
<1>1. PICK a \in Nat : a = r.address
  BY DEF Modbus!CommandsAssumption
<1>2. r.values \in Seq(Nat) /\ (r.fc # 16 => Len(r.values) = 1)
  BY Kinds DEF Modbus!CommandsAssumption, Modbus!WriteMultiReg
<1>3. PICK high, low : high = a \div 256 /\ low = a % 256
  OBVIOUS
<1>4. high \in Nat /\ low \in Nat /\ Modbus!Word(a) = <<high, low>>
  BY <1>3 DEF Modbus!Word
<1>5. PICK p : p = Modbus!PDU(r)
  OBVIOUS
<1>6. r.fc \notin Modbus!Reads /\ r.fc \in Nat
  BY Kinds
<1>7. PICK f \in Nat : f = r.fc
  BY <1>6
<1>8. PICK head : head = <<f>> \o <<high, low>>
  OBVIOUS
<1>9. head \in Seq(Nat) /\ Len(head) = 3 /\ head[1] = f /\ head[2] = high /\ head[3] = low
  BY <1>4, <1>8, Headed
<1>10. CASE f = 6
  <2>1. PICK v \in Nat : v = r.values[1]
    BY <1>2, <1>7, <1>10
  <2>2. PICK h, l : h = v \div 256 /\ l = v % 256
    OBVIOUS
  <2>3. h \in Nat /\ l \in Nat /\ Modbus!Word(v) = <<h, l>>
    BY <2>2 DEF Modbus!Word
  <2>4. p = Modbus!encodeWriteHoldingPDU(r)
    BY <1>5, <1>6, <1>7, <1>10 DEF Modbus!PDU, Modbus!WriteHolding, Modbus!WriteCoil, Modbus!WriteMultiReg
  <2>5. p = head \o <<h, l>>
    BY <1>1, <1>4, <1>7, <1>8, <2>1, <2>3, <2>4 DEF Modbus!encodeWriteHoldingPDU
  <2>6. p \in Seq(Nat) /\ Len(p) = 5 /\ p[1] = f /\ p[2] = high /\ p[3] = low /\ p[4] = h /\ p[5] = l
    BY <1>9, <2>3, <2>5, Lengthened, SMTT(30)
  <2>7. QED BY <1>1, <1>3, <1>5, <1>7, <1>10, <2>1, <2>2, <2>6 DEF Begins
<1>11. CASE f = 5
  <2>1. PICK h \in Nat : h = IF r.values[1] = 1 THEN 255 ELSE 0
    OBVIOUS
  <2>2. p = Modbus!encodeWriteCoilPDU(r)
    BY <1>5, <1>6, <1>7, <1>11 DEF Modbus!PDU, Modbus!WriteHolding, Modbus!WriteCoil, Modbus!WriteMultiReg
  <2>3. p = head \o <<h, 0>>
    BY <1>1, <1>4, <1>7, <1>8, <2>1, <2>2, ZenonT(40) DEF Modbus!encodeWriteCoilPDU
  <2>4. p \in Seq(Nat) /\ Len(p) = 5 /\ p[1] = f /\ p[2] = high /\ p[3] = low /\ p[4] = h
    BY <1>9, <2>1, <2>3, Lengthened, SMTT(30)
  <2>5. QED BY <1>1, <1>3, <1>5, <1>7, <1>11, <2>1, <2>4 DEF Begins
<1>12. CASE f = 16
  <2>1. PICK v \in Nat : v = Len(r.values)
    BY <1>2
  <2>2. PICK h, l : h = v \div 256 /\ l = v % 256
    OBVIOUS
  <2>3. h \in Nat /\ l \in Nat /\ Modbus!Word(v) = <<h, l>>
    BY <2>2 DEF Modbus!Word
  <2>4. PICK w \in Seq(Nat) : w = Modbus!Words(r.values)
    BY <1>2, WordsRead
  <2>5. p = Modbus!encodeWriteMultiPDU(r)
    BY <1>5, <1>6, <1>7, <1>12 DEF Modbus!PDU, Modbus!WriteHolding, Modbus!WriteCoil, Modbus!WriteMultiReg
  <2>6. PICK five : five = head \o <<h, l>>
    OBVIOUS
  <2>7. /\ five \in Seq(Nat) /\ Len(five) = 5 /\ five[1] = f /\ five[2] = high /\ five[3] = low
        /\ five[4] = h /\ five[5] = l
    BY <1>9, <2>3, <2>6, Lengthened, SMTT(30)
  <2>8. PICK six : six = five \o <<2 * v>>
    OBVIOUS
  <2>9. p = six \o w
    BY <1>1, <1>4, <1>7, <1>8, <2>1, <2>3, <2>4, <2>5, <2>8, <2>6 DEF Modbus!encodeWriteMultiPDU
  <2>10. PICK last : last = <<2 * v>>
    OBVIOUS
  <2>11. last \in Seq(Nat) /\ Len(last) = 1
    BY <2>10
  <2>12. /\ six \in Seq(Nat) /\ Len(six) = Len(five) + Len(last)
         /\ \A i \in 1 .. Len(five) : six[i] = five[i]
    <3>1. six = five \o last
      BY ONLY <2>8, <2>10
    <3>2. QED BY ONLY <2>7, <2>11, <3>1, Continued
  <2>13. Len(six) = 6 /\ \A i \in 1 .. 5 : six[i] = five[i]
    BY <2>7, <2>11, <2>12
  <2>14. p \in Seq(Nat) /\ Len(p) = Len(six) + Len(w) /\ \A i \in 1 .. Len(six) : p[i] = six[i]
    BY ONLY <2>9, <2>12, w \in Seq(Nat), Continued
  <2>15. p \in Seq(Nat) /\ Len(p) = 6 + Len(w) /\ \A i \in 1 .. 6 : p[i] = six[i]
    BY <2>13, <2>14
  <2>16. p[1] = f /\ p[2] = high /\ p[3] = low /\ p[4] = h /\ p[5] = l
    BY <2>7, <2>13, <2>15
  <2>17. Len(p) >= 5
    BY <2>4, <2>15
  <2>18. QED BY <1>1, <1>3, <1>5, <1>7, <1>12, <2>1, <2>2, <2>15, <2>16, <2>17 DEF Begins
<1>13. QED BY <1>7, <1>10, <1>11, <1>12, Kinds

(* What SubSeq cuts out.                                                      *)
LEMMA FirstFive ==
  ASSUME NEW p \in Seq(Nat), Len(p) >= 5, NEW w, w = SubSeq(p, 1, 5)
  PROVE  w \in Seq(Nat) /\ Len(w) = 5 /\ \A i \in 1 .. 5 : w[i] = p[i]
BY SMTT(60)

LEMMA BehindTwo ==
  ASSUME NEW w \in Seq(Nat), NEW n \in Nat, 2 + n <= Len(w), NEW p, p = SubSeq(w, 3, 2 + n)
  PROVE  p \in Seq(Nat) /\ Len(p) = n
BY SMTT(60)

LEMMA Responded ==
  ASSUME NEW r \in Requests, NEW d, Modbus!CommandsAssumption,
         r.fc \in Modbus!Reads /\ Modbus!Exists(r) => ReadFor(r, d)
  PROVE  LET w == Modbus!Response(r, d) IN
         /\ w \in Seq(Nat) /\ Len(w) >= 2
         /\ ~ Modbus!Exists(r) => Len(w) = 2 /\ w[1] = 128 + r.fc
         /\ r.fc \in Modbus!Reads /\ Modbus!Exists(r) => w[1] = r.fc /\ Modbus!Decoded(w, r) = d
         /\ r.fc \in Modbus!Writes /\ Modbus!Exists(r) => Len(w) = 5 /\ \A i \in 1 .. 5 : w[i] = Modbus!PDU(r)[i]
<1>1. PICK w : w = Modbus!Response(r, d)
  OBVIOUS
<1>2. r.fc \in Modbus!Reads \/ r.fc \in Modbus!Writes
  BY DEF Modbus!CommandsAssumption
<1>3. PICK f \in Nat : f = r.fc
  BY <1>2, Kinds
<1>4. CASE ~ Modbus!Exists(r)
  <2>1. w = <<128 + f, 2>>
    BY <1>1, <1>3, <1>4 DEF Modbus!Response
  <2>2. w \in Seq(Nat) /\ Len(w) = 2 /\ w[1] = 128 + f
    BY <2>1
  <2>3. Len(w) >= 2
    BY <2>2
  <2>4. QED BY <1>1, <1>3, <1>4, <2>2, <2>3
<1>5. CASE Modbus!Exists(r) /\ r.fc \in Modbus!Reads
  <2>1. r.quantity \in Nat /\ r.fc \notin Modbus!Writes
    BY <1>5, Kinds DEF Modbus!CommandsAssumption
  <2>2. QED BY <1>1, <1>5, <2>1, ReadAnswered
<1>6. CASE Modbus!Exists(r) /\ r.fc \in Modbus!Writes
  <2>1. PICK p : p = Modbus!PDU(r)
    OBVIOUS
  <2>2. p \in Seq(Nat) /\ Len(p) >= 5
    BY <1>6, <2>1, WriteBegins
  <2>3. r.fc \notin Modbus!Reads
    BY <1>6, Kinds
  <2>4. w = SubSeq(p, 1, 5)
    BY <1>1, <1>6, <2>1, <2>3 DEF Modbus!Response
  <2>5. w \in Seq(Nat) /\ Len(w) = 5 /\ \A i \in 1 .. 5 : w[i] = p[i]
    BY ONLY <2>2, <2>4, FirstFive
  <2>6. Len(w) >= 2
    BY <2>5
  <2>7. QED BY <1>1, <1>6, <2>1, <2>3, <2>5, <2>6
<1>7. QED BY <1>2, <1>4, <1>5, <1>6

LEMMA DamageSeen ==
  ASSUME NEW w \in Seq(Nat), Len(w) >= 2, NEW x \in Modbus!Damaged(w)
  PROVE  /\ x \in Seq(Nat)
         /\ \/ Len(x) = 1
            \/ Len(x) < Len(w) /\ Len(x) >= 1 /\ x[1] = w[1]
            \/ w[1] \in Modbus!Reads /\ x[1] = w[1]
<1>1. CASE \E n \in {1, Len(w) - 1} : x = SubSeq(w, 1, n)
  <2>1. PICK n \in {1, Len(w) - 1} : x = SubSeq(w, 1, n)
    BY <1>1
  <2>2. n \in Nat /\ n >= 1 /\ n < Len(w)
    BY <2>1
  <2>3. x \in Seq(Nat) /\ Len(x) = n /\ x[1] = w[1]
    BY <2>1, <2>2
  <2>4. QED BY <2>2, <2>3
<1>2. CASE w[1] \in Modbus!Reads /\ w[2] > 0 /\ x = [w EXCEPT ![2] = @ - 1]
  <2>1. x[1] = w[1]
    BY <1>2
  <2>2. x \in Seq(Nat)
    BY <1>2
  <2>3. QED BY <1>2, <2>1, <2>2
<1>3. QED BY <1>1, <1>2 DEF Modbus!Damaged

(* What happened to a request: nothing that was seen, or what a unit answered. *)
Exchanges == {Modbus!Lost} \cup
  [unit : Units, request : Requests, response : Seq(Nat), data : Seq(Nat)]

AnsweredAs(x) ==
  /\ x \in Exchanges /\ x # Modbus!Lost
  /\ x.response = Modbus!Response(x.request, x.data)
  /\ x.request.fc \in Modbus!Reads /\ Modbus!Exists(x.request) => ReadFor(x.request, x.data)

LogSound(log) ==
  /\ log \in Seq(Exchanges)
  /\ \A n \in 1 .. Len(log) : log[n] # Modbus!Lost => AnsweredAs(log[n])

CameFrom(w, x) == x # Modbus!Lost /\ (w = x.response \/ w \in Modbus!Damaged(x.response))

LEMMA LostIsBare ==
  ASSUME NEW x \in [unit : Units, request : Requests, response : Seq(Nat), data : Seq(Nat)]
  PROVE  x # Modbus!Lost
<1>1. "unit" \in DOMAIN x
  OBVIOUS
<1>2. DOMAIN Modbus!Lost = {"response"}
  BY DEF Modbus!Lost
<1>3. SUFFICES ASSUME x = Modbus!Lost PROVE FALSE
  OBVIOUS
<1>4. "unit" \in {"response"}
  BY <1>1, <1>2, <1>3
<1>5. QED BY <1>4

(* What a read makes of a response that passes its checks.                    *)
LEMMA ReadHonestly ==
  ASSUME NEW w \in Seq(Nat), NEW r \in Requests, r.fc \in Modbus!Reads, Modbus!CommandsAssumption,
         Modbus!Answers(w, r.fc), Modbus!Complete(w, r)
  PROVE  /\ Len(Modbus!Decoded(w, r)) = r.quantity
         /\ \A x : AnsweredAs(x) /\ x.request = r /\ w = x.response => Modbus!Decoded(w, r) = x.data
<1>1. PICK q \in Nat : q = r.quantity
  <2>1. r.quantity \in Nat
    BY r \in Requests, Kinds DEF Modbus!CommandsAssumption
  <2>2. QED BY ONLY <2>1
<1>2. PICK n \in Nat : n = w[2] /\ Len(w) >= 2
  <2>1. Len(w) >= 2
    BY DEF Modbus!Answers
  <2>2. w[2] \in Nat
    BY ONLY w \in Seq(Nat), <2>1
  <2>3. QED BY ONLY <2>1, <2>2
<1>3. 2 + n <= Len(w) /\ n = IF Modbus!isRegisterFunc(r.fc) THEN 2 * q ELSE (q + 7) \div 8
  BY <1>1, <1>2 DEF Modbus!Complete
<1>4. PICK p : p = SubSeq(w, 3, 2 + n)
  OBVIOUS
<1>5. p \in Seq(Nat) /\ Len(p) = n
  <2>1. 2 + n <= Len(w)
    BY <1>3
  <2>2. QED BY ONLY w \in Seq(Nat), n \in Nat, <2>1, <1>4, BehindTwo
<1>6. Len(Modbus!Decoded(w, r)) = q
  <2>1. CASE Modbus!isRegisterFunc(r.fc)
    <3>1. Len(p) \div 2 = q
      BY <1>3, <1>5, <2>1
    <3>2. Modbus!Decoded(w, r) = Modbus!decodeRegs(p)
      BY <1>2, <1>4, <2>1 DEF Modbus!Decoded
    <3>3. PICK f : f = [i \in 1 .. q |-> 256 * p[2 * i - 1] + p[2 * i]]
      OBVIOUS
    <3>4. Modbus!Decoded(w, r) = f
      BY <3>1, <3>2, <3>3 DEF Modbus!decodeRegs
    <3>5. QED BY <3>3, <3>4
  <2>2. CASE ~ Modbus!isRegisterFunc(r.fc)
    <3>1. q <= 8 * Len(p)
      BY <1>3, <1>5, <2>2
    <3>2. Modbus!Min({q, 8 * Len(p)}) = q
      BY <1>5, <3>1, LeastOf
    <3>3. Modbus!Decoded(w, r) = Modbus!decodeCoils(p, q)
      BY <1>1, <1>2, <1>4, <2>2 DEF Modbus!Decoded
    <3>4. PICK f : f = [i \in 1 .. q |-> Modbus!Coil(p, i)]
      OBVIOUS
    <3>5. Modbus!Decoded(w, r) = f
      BY <3>2, <3>3, <3>4 DEF Modbus!decodeCoils
    <3>6. QED BY <3>4, <3>5
  <2>3. QED BY <2>1, <2>2
<1>7. ASSUME NEW x, AnsweredAs(x), x.request = r, w = x.response PROVE Modbus!Decoded(w, r) = x.data
  <2>1. w = Modbus!Response(r, x.data) /\ (Modbus!Exists(r) => ReadFor(r, x.data))
    BY <1>7 DEF AnsweredAs
  <2>2. Modbus!Exists(r)
    <3>1. SUFFICES ASSUME ~ Modbus!Exists(r) PROVE FALSE
      OBVIOUS
    <3>2. w[1] = 128 + r.fc
      BY <2>1, <3>1, Responded
    <3>3. w[1] = r.fc
      BY DEF Modbus!Answers
    <3>4. QED BY <3>2, <3>3, Kinds
  <2>3. QED BY <2>1, <2>2, Responded
<1>8. QED BY <1>1, <1>6, <1>7

(* A response that passes the checks of a write is the echo of a write like it. *)
SameWrite(done, r) ==
  /\ done.fc = r.fc /\ done.address = r.address /\ Modbus!Exists(done)
  /\ IF r.fc = Modbus!WriteMultiReg THEN Len(done.values) = Len(r.values) ELSE done.values = r.values

LEMMA WrittenHonestly ==
  ASSUME NEW w, NEW r \in Requests, r.fc \notin Modbus!Reads, Modbus!CommandsAssumption,
         Modbus!Answers(w, r.fc), Modbus!Echoes(w, Modbus!PDU(r)),
         NEW x, AnsweredAs(x), CameFrom(w, x)
  PROVE  SameWrite(x.request, r)
<1>1. PICK o : o = x.request
  OBVIOUS
<1>2. PICK v : v = x.response
  OBVIOUS
<1>3. o \in Requests /\ r.fc \in Modbus!Writes /\ v = Modbus!Response(o, x.data)
  BY <1>1, <1>2 DEF AnsweredAs, Exchanges, Modbus!CommandsAssumption
<1>4. o.fc \in Modbus!Reads /\ Modbus!Exists(o) => ReadFor(o, x.data)
  BY <1>1 DEF AnsweredAs
<1>5. /\ v \in Seq(Nat) /\ Len(v) >= 2
      /\ ~ Modbus!Exists(o) => Len(v) = 2 /\ v[1] = 128 + o.fc
      /\ o.fc \in Modbus!Reads /\ Modbus!Exists(o) => v[1] = o.fc
      /\ o.fc \in Modbus!Writes /\ Modbus!Exists(o) => Len(v) = 5 /\ \A i \in 1 .. 5 : v[i] = Modbus!PDU(o)[i]
  BY <1>3, <1>4, Responded
<1>6. Len(w) >= 5 /\ w[1] = r.fc /\ \A i \in 2 .. 5 : w[i] = Modbus!PDU(r)[i]
  BY DEF Modbus!Answers, Modbus!Echoes
<1>7. o.fc \in Modbus!Reads \/ o.fc \in Modbus!Writes
  BY <1>3 DEF Modbus!CommandsAssumption
<1>8. w = v /\ Modbus!Exists(o) /\ o.fc \in Modbus!Writes
  <2>1. CASE w = v
    <3>1. Modbus!Exists(o)
      BY <1>5, <1>6, <2>1
    <3>2. QED BY <1>3, <1>5, <1>6, <1>7, <2>1, <3>1, Kinds
  <2>2. CASE w \in Modbus!Damaged(v)
    <3>1. w \in Seq(Nat)
      BY <1>5, <2>2, DamageSeen
    <3>2. \/ Len(w) = 1
          \/ Len(w) < Len(v) /\ w[1] = v[1]
          \/ v[1] \in Modbus!Reads /\ w[1] = v[1]
      BY <1>5, <2>2, DamageSeen
    <3>3. ~ (v[1] \in Modbus!Reads /\ w[1] = v[1])
      BY <1>6
    <3>4. Len(w) < Len(v) /\ w[1] = v[1]
      BY <1>6, <3>2, <3>3
    <3>5. Len(v) > 5
      <4>1. PICK a \in Nat : a = Len(w)
        BY <3>1
      <4>2. PICK b \in Nat : b = Len(v)
        BY <1>5
      <4>3. a >= 5 /\ a < b
        BY <1>6, <3>4, <4>1, <4>2
      <4>4. b > 5
        BY <4>1, <4>2, <4>3
      <4>5. QED BY <4>2, <4>4
    <3>6. o.fc \in Modbus!Reads /\ Modbus!Exists(o)
      <4>1. Modbus!Exists(o)
        <5>1. SUFFICES ASSUME ~ Modbus!Exists(o) PROVE FALSE
          OBVIOUS
        <5>2. Len(v) = 2
          BY <1>5, <5>1
        <5>3. QED BY <3>5, <5>2
      <4>2. o.fc \notin Modbus!Writes
        <5>1. SUFFICES ASSUME o.fc \in Modbus!Writes PROVE FALSE
          OBVIOUS
        <5>2. Len(v) = 5
          BY <1>5, <4>1, <5>1
        <5>3. QED BY <3>5, <5>2
      <4>3. QED BY <1>7, <4>1, <4>2
    <3>7. QED BY <1>5, <1>6, <3>4, <3>6
  <2>3. QED BY <1>2, <2>1, <2>2 DEF CameFrom
<1>9. \A i \in 1 .. 5 : Modbus!PDU(o)[i] = w[i]
  BY <1>5, <1>8
<1>10. PICK p : p = Modbus!PDU(o)
  OBVIOUS
<1>11. PICK s : s = Modbus!PDU(r)
  OBVIOUS
<1>12. p[1] = w[1] /\ p[2] = s[2] /\ p[3] = s[3] /\ p[4] = s[4] /\ p[5] = s[5]
  BY <1>6, <1>9, <1>10, <1>11
<1>13. /\ p[1] = o.fc
       /\ p[2] = o.address \div 256 /\ p[3] = o.address % 256
       /\ o.fc = 6 => p[4] = o.values[1] \div 256 /\ p[5] = o.values[1] % 256
       /\ o.fc = 5 => p[4] = IF o.values[1] = 1 THEN 255 ELSE 0
       /\ o.fc = 16 => p[4] = Len(o.values) \div 256 /\ p[5] = Len(o.values) % 256
  <2>1. o \in Requests /\ o.fc \in Modbus!Writes
    BY <1>3, <1>8
  <2>2. Begins(p, o)
    BY <1>10, <2>1, WriteBegins
  <2>3. QED BY <2>2 DEF Begins
<1>14. /\ s[2] = r.address \div 256 /\ s[3] = r.address % 256
       /\ r.fc = 6 => s[4] = r.values[1] \div 256 /\ s[5] = r.values[1] % 256
       /\ r.fc = 5 => s[4] = IF r.values[1] = 1 THEN 255 ELSE 0
       /\ r.fc = 16 => s[4] = Len(r.values) \div 256 /\ s[5] = Len(r.values) % 256
  <2>1. r \in Requests /\ r.fc \in Modbus!Writes
    BY <1>3
  <2>2. Begins(s, r)
    BY <1>11, <2>1, WriteBegins
  <2>3. QED BY <2>2 DEF Begins
<1>15. o.fc = r.fc
  BY <1>6, <1>12, <1>13
<1>16. o.address = r.address
  <2>1. PICK a \in Nat : a = o.address
    BY <1>3 DEF Modbus!CommandsAssumption
  <2>2. PICK b \in Nat : b = r.address
    BY <1>3 DEF Modbus!CommandsAssumption
  <2>3. a \div 256 = b \div 256 /\ a % 256 = b % 256
    <3>1. p[2] = s[2] /\ p[3] = s[3]
      BY <1>12
    <3>2. p[2] = a \div 256 /\ p[3] = a % 256
      BY <1>13, <2>1
    <3>3. s[2] = b \div 256 /\ s[3] = b % 256
      BY <1>14, <2>2
    <3>4. QED BY <3>1, <3>2, <3>3
  <2>4. a = b
    BY <2>1, <2>2, <2>3, WordsDiffer
  <2>5. QED BY <2>1, <2>2, <2>4
<1>17. /\ o.values \in Seq(Nat) /\ r.values \in Seq(Nat)
       /\ r.fc # 16 => Len(o.values) = 1 /\ Len(r.values) = 1
       /\ r.fc = 5 => o.values[1] \in {0, 1} /\ r.values[1] \in {0, 1}
  BY <1>3, <1>8, <1>15, Kinds DEF Modbus!CommandsAssumption, Modbus!WriteCoil, Modbus!WriteMultiReg
<1>18. IF r.fc = 16 THEN Len(o.values) = Len(r.values) ELSE o.values = r.values
  <2>1. CASE r.fc = 16
    <3>1. PICK a \in Nat : a = Len(o.values)
      BY <1>17
    <3>2. PICK b \in Nat : b = Len(r.values)
      BY <1>17
    <3>3. a \div 256 = b \div 256 /\ a % 256 = b % 256
      <4>1. p[4] = s[4] /\ p[5] = s[5]
        BY <1>12
      <4>2. p[4] = a \div 256 /\ p[5] = a % 256
        BY <1>13, <1>15, <2>1, <3>1
      <4>3. s[4] = b \div 256 /\ s[5] = b % 256
        BY <1>14, <2>1, <3>2
      <4>4. QED BY <4>1, <4>2, <4>3
    <3>4. a = b
      BY <3>1, <3>2, <3>3, WordsDiffer
    <3>5. QED BY <2>1, <3>1, <3>2, <3>4
  <2>2. CASE r.fc # 16
    <3>1. Len(o.values) = 1 /\ Len(r.values) = 1 /\ o.values[1] \in Nat /\ r.values[1] \in Nat
      BY <1>17, <2>2
    <3>2. o.values[1] = r.values[1]
      <4>1. CASE r.fc = 6
        BY <1>12, <1>13, <1>14, <1>15, <3>1, <4>1, WordsDiffer
      <4>2. CASE r.fc = 5
        BY <1>12, <1>13, <1>14, <1>15, <1>17, <4>2
      <4>3. QED BY <1>3, <2>2, <4>1, <4>2, Kinds
    <3>3. o.values = r.values
      BY <1>17, <3>1, <3>2
    <3>4. QED BY <2>2, <3>3
  <2>3. QED BY <2>1, <2>2
<1>19. QED BY <1>1, <1>8, <1>15, <1>16, <1>18 DEF SameWrite, Modbus!WriteMultiReg

-----------------------------------------------------------------------------
(* Modbus: the units, the requests sent, and the calls.                       *)
UnitMemory == [regs : [1 .. Registers -> Nat], coils : [1 .. CoilCount -> {0, 1}]]

UnitsTyped ==
  unitID \in Units /\ link \in {"none", "open", "closed"} /\ memory \in [Units -> UnitMemory]

Succeeded(x, log) ==
  /\ x.request.fc \in Modbus!Reads =>
       /\ Len(x.values) = x.request.quantity
       /\ x.own # 0 => x.values = log[x.own].data
  /\ x.request.fc \notin Modbus!Reads =>
       \E n \in 1 .. Len(log) : log[n] # Modbus!Lost /\ SameWrite(log[n].request, x.request)

(* A call knows the exchange that was its own until another response comes.   *)
OwnExchange(x, log) ==
  /\ x.own \in 0 .. Len(log)
  /\ x.own # 0 => /\ log[x.own] # Modbus!Lost
                  /\ log[x.own].unit = x.unit /\ log[x.own].request = x.request

Arrived(x, log) ==
  /\ x.response \in Seq(Nat)
  /\ \E n \in 1 .. Len(log) : CameFrom(x.response, log[n])
  /\ x.own # 0 => x.response = log[x.own].response

RequestShaped(x) ==
  /\ x = [at |-> x.at, request |-> x.request, unit |-> x.unit,
          response |-> x.response, own |-> x.own, values |-> x.values]
  /\ x.at \in {"sent", "waiting", "received", "success"}
  /\ x.request \in Requests /\ x.unit \in Units

RequestCall(x, log) ==
  /\ RequestShaped(x) /\ OwnExchange(x, log)
  /\ x.at = "received" => Arrived(x, log)
  /\ x.at = "success" => Succeeded(x, log)

Requested ==
  /\ DOMAIN request = Clients
  /\ \A g \in Clients : request[g] = Modbus!Idle \/ RequestCall(request[g], answered)

Logged == LogSound(answered) /\ Len(answered) <= MaxSends

MasterInductive == UnitsTyped /\ Logged /\ Requested

LEMMA MasterInit == ASSUME Modbus!CommandsAssumption PROVE Modbus!Init => MasterInductive
<1>1. SUFFICES ASSUME Modbus!Init PROVE MasterInductive
  OBVIOUS
<1>2. UnitsTyped
  BY <1>1 DEF Modbus!Init, UnitsTyped, UnitMemory, Modbus!CommandsAssumption
<1>3. Logged
  <2>1. answered = <<>>
    BY <1>1 DEF Modbus!Init
  <2>2. answered \in Seq(Exchanges) /\ Len(answered) = 0
    BY <2>1
  <2>3. QED BY <2>2 DEF Logged, LogSound, Modbus!CommandsAssumption
<1>4. Requested
  BY <1>1 DEF Modbus!Init, Requested
<1>5. QED BY <1>2, <1>3, <1>4 DEF MasterInductive

Extended(log, longer, e) ==
  /\ Len(longer) = Len(log) + 1 /\ longer[Len(longer)] = e
  /\ \A n \in 1 .. Len(log) : longer[n] = log[n]

LEMMA LogGrows ==
  ASSUME NEW log, LogSound(log), NEW e \in Exchanges, e # Modbus!Lost => AnsweredAs(e),
         NEW longer, longer = Append(log, e)
  PROVE  LogSound(longer) /\ Extended(log, longer, e)
<1>1. log \in Seq(Exchanges)
  BY DEF LogSound
<1>2. /\ longer \in Seq(Exchanges) /\ Len(longer) = Len(log) + 1 /\ Len(log) \in Nat
      /\ longer[Len(longer)] = e /\ \A n \in 1 .. Len(log) : longer[n] = log[n]
  BY <1>1
<1>3. ASSUME NEW n \in 1 .. Len(longer), longer[n] # Modbus!Lost PROVE AnsweredAs(longer[n])
  <2>1. CASE n = Len(longer)
    BY <1>2, <1>3, <2>1
  <2>2. CASE n \in 1 .. Len(log)
    BY <1>2, <1>3, <2>2 DEF LogSound
  <2>3. QED BY <1>2, <2>1, <2>2
<1>4. QED BY <1>2, <1>3 DEF LogSound, Extended

LEMMA CallsKeptAsLogGrows ==
  ASSUME NEW log, NEW longer, Len(log) \in Nat, Len(longer) = Len(log) + 1,
         \A n \in 1 .. Len(log) : longer[n] = log[n],
         NEW x, RequestCall(x, log)
  PROVE  RequestCall(x, longer)
<1>1. RequestShaped(x) /\ OwnExchange(x, log)
  BY DEF RequestCall
<1>2. 1 .. Len(log) \subseteq 1 .. Len(longer) /\ 0 .. Len(log) \subseteq 0 .. Len(longer)
  OBVIOUS
<1>3. x.own # 0 => longer[x.own] = log[x.own]
  BY <1>1 DEF OwnExchange
<1>4. OwnExchange(x, longer)
  BY <1>1, <1>2, <1>3 DEF OwnExchange
<1>5. x.at = "received" => Arrived(x, longer)
  <2>1. SUFFICES ASSUME Arrived(x, log) PROVE Arrived(x, longer)
    BY DEF RequestCall
  <2>2. PICK n \in 1 .. Len(log) : CameFrom(x.response, log[n])
    BY <2>1 DEF Arrived
  <2>3. n \in 1 .. Len(longer) /\ CameFrom(x.response, longer[n])
    BY <1>2, <2>2
  <2>4. QED BY <1>3, <2>1, <2>3 DEF Arrived
<1>6. x.at = "success" => Succeeded(x, longer)
  <2>1. SUFFICES ASSUME Succeeded(x, log) PROVE Succeeded(x, longer)
    BY DEF RequestCall
  <2>2. CASE x.request.fc \in Modbus!Reads
    BY <1>3, <2>1, <2>2 DEF Succeeded
  <2>3. CASE x.request.fc \notin Modbus!Reads
    <3>1. PICK n \in 1 .. Len(log) : log[n] # Modbus!Lost /\ SameWrite(log[n].request, x.request)
      BY <2>1, <2>3 DEF Succeeded
    <3>2. /\ n \in 1 .. Len(longer) /\ longer[n] # Modbus!Lost
          /\ SameWrite(longer[n].request, x.request)
      BY <1>2, <3>1
    <3>3. QED BY <2>3, <3>2 DEF Succeeded
  <2>4. QED BY <2>2, <2>3
<1>7. QED BY <1>1, <1>4, <1>5, <1>6 DEF RequestCall

(* What a unit makes of a request.                                            *)
LEMMA UnitReads ==
  ASSUME UnitsTyped, Modbus!CommandsAssumption, NEW u \in Units, NEW r \in Requests,
         r.fc \in Modbus!Reads, Modbus!Exists(r)
  PROVE  ReadFor(r, Modbus!Data(u, r))
<1>1. memory[u].regs \in [1 .. Registers -> Nat] /\ memory[u].coils \in [1 .. CoilCount -> {0, 1}]
  BY DEF UnitsTyped, UnitMemory
<1>2. PICK s \in Nat, q \in Nat : s = r.address /\ q = r.quantity
  BY Kinds DEF Modbus!CommandsAssumption
<1>3. Registers \in Nat /\ CoilCount \in Nat
  BY DEF Modbus!CommandsAssumption
<1>4. CASE Modbus!IsRegister(r)
  <2>1. PICK a : a = memory[u].regs
    OBVIOUS
  <2>2. a \in Seq(Nat) /\ Len(a) = Registers /\ s + q <= Registers
    BY <1>1, <1>2, <1>3, <1>4, <2>1 DEF Modbus!Exists, Modbus!Size
  <2>3. SubSeq(a, s + 1, s + q) \in Seq(Nat) /\ Len(SubSeq(a, s + 1, s + q)) = q
    BY <1>3, <2>2
  <2>4. Modbus!Data(u, r) = SubSeq(a, s + 1, s + q)
    BY <1>2, <1>4, <2>1 DEF Modbus!Data, Modbus!Area
  <2>5. QED BY <1>2, <1>4, <2>3, <2>4 DEF ReadFor
<1>5. CASE ~ Modbus!IsRegister(r)
  <2>1. PICK a : a = memory[u].coils
    OBVIOUS
  <2>2. a \in Seq({0, 1}) /\ Len(a) = CoilCount /\ s + q <= CoilCount
    BY <1>1, <1>2, <1>3, <1>5, <2>1 DEF Modbus!Exists, Modbus!Size
  <2>3. SubSeq(a, s + 1, s + q) \in Seq({0, 1}) /\ Len(SubSeq(a, s + 1, s + q)) = q
    BY <1>3, <2>2
  <2>4. Modbus!Data(u, r) = SubSeq(a, s + 1, s + q)
    BY <1>2, <1>5, <2>1 DEF Modbus!Data, Modbus!Area
  <2>5. Seq({0, 1}) \subseteq Seq(Nat)
    OBVIOUS
  <2>6. QED BY <1>2, <2>3, <2>4, <2>5 DEF ReadFor
<1>6. QED BY <1>4, <1>5

LEMMA UnitAnswers ==
  ASSUME UnitsTyped, Modbus!CommandsAssumption, NEW u \in Units, NEW r \in Requests,
         NEW d, d = IF r.fc \in Modbus!Reads /\ Modbus!Exists(r) THEN Modbus!Data(u, r) ELSE <<>>,
         NEW e, e = [unit |-> u, request |-> r, response |-> Modbus!Response(r, Modbus!Data(u, r)), data |-> d]
  PROVE  e \in Exchanges /\ AnsweredAs(e)
<1>1. r.fc \in Modbus!Reads /\ Modbus!Exists(r) => ReadFor(r, d)
  BY UnitReads
<1>2. Modbus!Response(r, Modbus!Data(u, r)) = Modbus!Response(r, d)
  BY DEF Modbus!Response
<1>3. d \in Seq(Nat)
  <2>1. <<>> \in Seq(Nat)
    OBVIOUS
  <2>2. QED BY <1>1, <2>1 DEF ReadFor
<1>4. Modbus!Response(r, d) \in Seq(Nat)
  BY <1>1, Responded
<1>5. PICK a : a = Modbus!Response(r, d)
  OBVIOUS
<1>6. e = [unit |-> u, request |-> r, response |-> a, data |-> d]
  BY <1>2, <1>5
<1>7. e \in [unit : Units, request : Requests, response : Seq(Nat), data : Seq(Nat)]
  BY <1>3, <1>4, <1>5, <1>6
<1>8. e.request = r /\ e.response = a /\ e.data = d
  BY <1>6
<1>9. e \in Exchanges /\ e # Modbus!Lost
  BY <1>7, LostIsBare DEF Exchanges
<1>10. QED BY <1>1, <1>5, <1>8, <1>9 DEF AnsweredAs

LEMMA UnitWrites ==
  ASSUME UnitsTyped, Modbus!CommandsAssumption, NEW u \in Units, NEW r \in Requests, r.fc \notin Modbus!Reads
  PROVE  /\ Modbus!IsRegister(r) => Modbus!Written(u, r) \in [1 .. Registers -> Nat]
         /\ ~ Modbus!IsRegister(r) => Modbus!Written(u, r) \in [1 .. CoilCount -> {0, 1}]
<1>1. memory[u].regs \in [1 .. Registers -> Nat] /\ memory[u].coils \in [1 .. CoilCount -> {0, 1}]
  BY DEF UnitsTyped, UnitMemory
<1>2. /\ r.address \in Nat /\ r.values \in Seq(Nat)
      /\ r.fc = 5 => Len(r.values) = 1 /\ r.values[1] \in {0, 1}
  BY Kinds DEF Modbus!CommandsAssumption, Modbus!WriteCoil, Modbus!WriteMultiReg
<1>3. Registers \in Nat /\ CoilCount \in Nat
  BY DEF Modbus!CommandsAssumption
<1>4. CASE Modbus!IsRegister(r)
  <2>1. PICK a \in [1 .. Registers -> Nat] : a = memory[u].regs
    BY <1>1
  <2>2. Modbus!Area(u, r) = a
    BY <1>4, <2>1 DEF Modbus!Area
  <2>3. \A i \in 1 .. Registers : i - r.address \in 1 .. Len(r.values) => r.values[i - r.address] \in Nat
    BY <1>2
  <2>4. QED BY <1>4, <2>1, <2>2, <2>3 DEF Modbus!Written
<1>5. CASE ~ Modbus!IsRegister(r)
  <2>1. PICK a \in [1 .. CoilCount -> {0, 1}] : a = memory[u].coils
    BY <1>1
  <2>2. Modbus!Area(u, r) = a
    BY <1>5, <2>1 DEF Modbus!Area
  <2>3. r.fc = 5
    BY <1>5, Kinds DEF Modbus!CommandsAssumption, Modbus!IsRegister, Modbus!WriteHolding, Modbus!WriteMultiReg
  <2>4. \A i \in 1 .. CoilCount : i - r.address \in 1 .. Len(r.values) => r.values[i - r.address] \in {0, 1}
    BY <1>2, <2>3
  <2>5. QED BY <1>5, <2>1, <2>2, <2>4 DEF Modbus!Written
<1>6. QED BY <1>4, <1>5

(* One call turns, the others stay what they were of a log that only grows.   *)
LEMMA OneCallTurns ==
  ASSUME Requested, NEW g \in Clients, DOMAIN request' = Clients,
         \A h \in Clients \ {g} : request'[h] = request[h],
         request'[g] = Modbus!Idle \/ RequestCall(request'[g], answered'),
         \A x : RequestCall(x, answered) => RequestCall(x, answered')
  PROVE  Requested'
<1>1. ASSUME NEW h \in Clients PROVE request'[h] = Modbus!Idle \/ RequestCall(request'[h], answered')
  <2>1. CASE h = g
    BY <2>1
  <2>2. CASE h # g
    <3>1. request[h] = Modbus!Idle \/ RequestCall(request[h], answered)
      BY DEF Requested
    <3>2. QED BY <2>2, <3>1
  <2>3. QED BY <2>1, <2>2
<1>2. QED BY <1>1 DEF Requested

LEMMA PhasesApart ==
  ASSUME NEW x, x = Modbus!Idle \/ RequestShaped(x), x.at # "idle"
  PROVE  RequestShaped(x)
BY DEF Modbus!Idle

LEMMA CallUnder ==
  ASSUME Requested, NEW g \in Clients, request[g].at # "idle"
  PROVE  RequestCall(request[g], answered)
<1>1. request[g] = Modbus!Idle \/ RequestCall(request[g], answered)
  BY DEF Requested
<1>2. request[g] # Modbus!Idle
  BY DEF Modbus!Idle
<1>3. QED BY <1>1, <1>2

(* Command begins a call.                                                     *)
LEMMA CommandStep ==
  ASSUME MasterInductive, NEW g \in Clients, NEW r \in Requests, Modbus!Command(g, r)
  PROVE  MasterInductive'
<1>1. unitID' = unitID /\ link' = link /\ memory' = memory /\ answered' = answered
  BY DEF Modbus!Command
<1>2. PICK y : y = [at |-> "sent", request |-> r, unit |-> unitID,
                    response |-> Modbus!NoResponse, own |-> 0, values |-> <<>>]
  OBVIOUS
<1>3. request' = [request EXCEPT ![g] = y]
  BY <1>2 DEF Modbus!Command
<1>4. /\ DOMAIN request' = Clients /\ request'[g] = y
      /\ \A h \in Clients \ {g} : request'[h] = request[h]
  BY <1>3 DEF MasterInductive, Requested
<1>5. RequestCall(y, answered)
  <2>1. unitID \in Units /\ Len(answered) \in Nat
    BY DEF MasterInductive, UnitsTyped, Logged, LogSound
  <2>2. RequestShaped(y)
    BY <1>2, <2>1 DEF RequestShaped
  <2>3. OwnExchange(y, answered)
    BY <1>2, <2>1 DEF OwnExchange
  <2>4. y.at = "sent"
    BY <1>2
  <2>5. QED BY <2>2, <2>3, <2>4 DEF RequestCall
<1>6. Requested'
  BY <1>1, <1>4, <1>5, OneCallTurns DEF MasterInductive
<1>7. QED BY <1>1, <1>6 DEF MasterInductive, UnitsTyped, Logged

LEMMA ReturnStep ==
  ASSUME MasterInductive, NEW g \in Clients, Modbus!Return(g)
  PROVE  MasterInductive'
<1>1. unitID' = unitID /\ link' = link /\ memory' = memory /\ answered' = answered
  BY DEF Modbus!Return
<1>2. /\ DOMAIN request' = Clients /\ request'[g] = Modbus!Idle
      /\ \A h \in Clients \ {g} : request'[h] = request[h]
  BY DEF Modbus!Return, MasterInductive, Requested
<1>3. Requested'
  BY <1>1, <1>2, OneCallTurns DEF MasterInductive
<1>4. QED BY <1>1, <1>3 DEF MasterInductive, UnitsTyped, Logged

Awaiting(x, o) ==
  [at |-> "waiting", request |-> x.request, unit |-> x.unit,
   response |-> x.response, own |-> o, values |-> x.values]

(* Transport.Send: the unit acts, or the request is lost; the log grows.      *)
LEMMA SentLogged ==
  ASSUME MasterInductive, Modbus!CommandsAssumption, NEW g \in Clients, request[g].at = "sent",
         Len(answered) < MaxSends,
         NEW e \in Exchanges, e # Modbus!Lost => AnsweredAs(e), answered' = Append(answered, e),
         DOMAIN request' = Clients, \A h \in Clients \ {g} : request'[h] = request[h],
         NEW x, x = request[g], NEW o, request'[g] = Awaiting(x, o),
         \/ o = x.own
         \/ o = Len(answered') /\ e # Modbus!Lost /\ e.unit = x.unit /\ e.request = x.request
  PROVE  Logged' /\ Requested'
<1>1. LogSound(answered) /\ Len(answered) \in Nat /\ MaxSends \in Nat
  BY DEF MasterInductive, Logged, LogSound, Modbus!CommandsAssumption
<1>2. /\ LogSound(answered') /\ Len(answered') = Len(answered) + 1
      /\ answered'[Len(answered')] = e /\ \A n \in 1 .. Len(answered) : answered'[n] = answered[n]
  <2>1. PICK log : log = answered
    OBVIOUS
  <2>2. PICK longer : longer = answered'
    OBVIOUS
  <2>3. LogSound(log) /\ longer = Append(log, e)
    BY <1>1, <2>1, <2>2
  <2>4. LogSound(longer) /\ Extended(log, longer, e)
    BY <2>3, LogGrows
  <2>5. QED BY <2>1, <2>2, <2>4 DEF Extended
<1>3. Logged'
  <2>1. PICK n \in Nat : n = Len(answered)
    BY <1>1
  <2>2. PICK m : m = Len(answered')
    OBVIOUS
  <2>3. m = n + 1 /\ n < MaxSends
    BY <1>2, <2>1, <2>2
  <2>4. m <= MaxSends
    BY <1>1, <2>3
  <2>5. QED BY <1>2, <2>2, <2>4 DEF Logged
<1>4. \A z : RequestCall(z, answered) => RequestCall(z, answered')
  BY <1>1, <1>2, CallsKeptAsLogGrows
<1>5. RequestCall(x, answered)
  BY CallUnder DEF MasterInductive
<1>6. RequestCall(x, answered')
  BY <1>4, <1>5
<1>7. PICK y : y = request'[g]
  OBVIOUS
<1>8. RequestShaped(x) /\ OwnExchange(x, answered')
  BY <1>6 DEF RequestCall
<1>9. /\ y.at = "waiting" /\ y.request = x.request /\ y.unit = x.unit /\ y.response = x.response
      /\ y.own = o /\ y.values = x.values
  BY <1>7 DEF Awaiting
<1>10. y = [at |-> y.at, request |-> y.request, unit |-> y.unit,
            response |-> y.response, own |-> y.own, values |-> y.values]
  BY <1>7 DEF Awaiting
<1>11. RequestShaped(y)
  BY <1>8, <1>9, <1>10 DEF RequestShaped
<1>12. OwnExchange(y, answered')
  <2>1. CASE o = x.own
    BY <1>8, <1>9, <2>1 DEF OwnExchange
  <2>2. CASE o = Len(answered') /\ e # Modbus!Lost /\ e.unit = x.unit /\ e.request = x.request
    <3>1. o \in 0 .. Len(answered') /\ answered'[o] = e
      BY <1>1, <1>2, <2>2
    <3>2. QED BY <1>9, <2>2, <3>1 DEF OwnExchange
  <2>3. QED BY <2>1, <2>2
<1>13. RequestCall(y, answered')
  BY <1>9, <1>11, <1>12 DEF RequestCall
<1>14. Requested'
  BY <1>4, <1>7, <1>13, OneCallTurns DEF MasterInductive
<1>15. QED BY <1>3, <1>14

LEMMA Waiting ==
  ASSUME NEW x, RequestShaped(x), NEW o, NEW y, y = [[x EXCEPT !.at = "waiting"] EXCEPT !.own = o]
  PROVE  y = Awaiting(x, o)
BY DEF RequestShaped, Awaiting

LEMMA WaitingAsBefore ==
  ASSUME NEW x, RequestShaped(x), NEW y, y = [x EXCEPT !.at = "waiting"]
  PROVE  y = Awaiting(x, x.own)
BY DEF RequestShaped, Awaiting

LEMMA RequestLostStep ==
  ASSUME MasterInductive, Modbus!CommandsAssumption, NEW g \in Clients, Modbus!RequestLost(g)
  PROVE  MasterInductive'
<1>1. unitID' = unitID /\ link' = link /\ memory' = memory
  BY DEF Modbus!RequestLost
<1>2. PICK x : x = request[g]
  OBVIOUS
<1>3. x.at = "sent" /\ Len(answered) < MaxSends
  BY <1>2 DEF Modbus!RequestLost
<1>4. RequestShaped(x)
  BY <1>2, <1>3, CallUnder DEF MasterInductive, RequestCall
<1>5. /\ DOMAIN request' = Clients /\ request'[g] = [x EXCEPT !.at = "waiting"]
      /\ \A h \in Clients \ {g} : request'[h] = request[h]
  BY <1>2 DEF Modbus!RequestLost, MasterInductive, Requested
<1>6. request'[g] = Awaiting(x, x.own)
  BY <1>4, <1>5, WaitingAsBefore
<1>7. answered' = Append(answered, Modbus!Lost) /\ Modbus!Lost \in Exchanges
  BY DEF Modbus!RequestLost, Exchanges
<1>8. Logged' /\ Requested'
  BY <1>2, <1>3, <1>5, <1>6, <1>7, SentLogged
<1>9. QED BY <1>1, <1>8 DEF MasterInductive, UnitsTyped

LEMMA UnitActsStep ==
  ASSUME MasterInductive, Modbus!CommandsAssumption, NEW g \in Clients, Modbus!UnitActs(g)
  PROVE  MasterInductive'
<1>1. unitID' = unitID /\ link' = link
  BY DEF Modbus!UnitActs
<1>2. PICK x : x = request[g]
  OBVIOUS
<1>3. x.at = "sent" /\ Len(answered) < MaxSends
  BY <1>2 DEF Modbus!UnitActs
<1>4. RequestShaped(x)
  BY <1>2, <1>3, CallUnder DEF MasterInductive, RequestCall
<1>5. PICK u \in Units : u = x.unit
  BY <1>4 DEF RequestShaped
<1>6. PICK r \in Requests : r = x.request
  BY <1>4 DEF RequestShaped
<1>7. PICK n : n = Len(answered')
  OBVIOUS
<1>8. /\ DOMAIN request' = Clients /\ request'[g] = [[x EXCEPT !.at = "waiting"] EXCEPT !.own = n]
      /\ \A h \in Clients \ {g} : request'[h] = request[h]
  BY <1>2, <1>7 DEF Modbus!UnitActs, MasterInductive, Requested
<1>9. request'[g] = Awaiting(x, n)
  BY <1>4, <1>8, Waiting
<1>10. PICK d : d = IF r.fc \in Modbus!Reads /\ Modbus!Exists(r) THEN Modbus!Data(u, r) ELSE <<>>
  OBVIOUS
<1>11. PICK e : e = [unit |-> u, request |-> r, response |-> Modbus!Response(r, Modbus!Data(u, r)), data |-> d]
  OBVIOUS
<1>12. answered' = Append(answered, e)
  BY <1>2, <1>5, <1>6, <1>10, <1>11 DEF Modbus!UnitActs
<1>13. e \in Exchanges /\ AnsweredAs(e) /\ e # Modbus!Lost
  <2>1. e \in Exchanges /\ AnsweredAs(e)
    BY <1>10, <1>11, UnitAnswers DEF MasterInductive
  <2>2. QED BY <2>1 DEF AnsweredAs
<1>14. e.unit = x.unit /\ e.request = x.request
  BY <1>5, <1>6, <1>11
<1>15. Logged' /\ Requested'
  <2>1. n = Len(answered') /\ e # Modbus!Lost /\ e.unit = x.unit /\ e.request = x.request
    BY <1>7, <1>13, <1>14
  <2>2. request[g].at = "sent" /\ x = request[g]
    BY <1>2, <1>3
  <2>3. e \in Exchanges /\ (e # Modbus!Lost => AnsweredAs(e))
    BY <1>13
  <2>4. QED BY <1>3, <1>8, <1>9, <1>12, <2>1, <2>2, <2>3, SentLogged
<1>16. UnitsTyped'
  <2>1. memory \in [Units -> UnitMemory]
    BY DEF MasterInductive, UnitsTyped
  <2>2. CASE r.fc \in Modbus!Reads \/ ~ Modbus!Exists(r)
    <3>1. memory' = memory
      BY <1>2, <1>6, <2>2 DEF Modbus!UnitActs
    <3>2. QED BY <1>1, <3>1 DEF MasterInductive, UnitsTyped
  <2>3. CASE ~ (r.fc \in Modbus!Reads \/ ~ Modbus!Exists(r)) /\ Modbus!IsRegister(r)
    <3>1. PICK a \in [1 .. Registers -> Nat] : a = Modbus!Written(u, r)
      BY <2>3, UnitWrites DEF MasterInductive
    <3>2. memory' = [memory EXCEPT ![u].regs = a]
      BY <1>2, <1>5, <1>6, <2>3, <3>1 DEF Modbus!UnitActs
    <3>3. memory' \in [Units -> UnitMemory]
      BY <2>1, <3>2 DEF UnitMemory
    <3>4. QED BY <1>1, <3>3 DEF MasterInductive, UnitsTyped
  <2>4. CASE ~ (r.fc \in Modbus!Reads \/ ~ Modbus!Exists(r)) /\ ~ Modbus!IsRegister(r)
    <3>1. PICK a \in [1 .. CoilCount -> {0, 1}] : a = Modbus!Written(u, r)
      BY <2>4, UnitWrites DEF MasterInductive
    <3>2. memory' = [memory EXCEPT ![u].coils = a]
      BY <1>2, <1>5, <1>6, <2>4, <3>1 DEF Modbus!UnitActs
    <3>3. memory' \in [Units -> UnitMemory]
      BY <2>1, <3>2 DEF UnitMemory
    <3>4. QED BY <1>1, <3>3 DEF MasterInductive, UnitsTyped
  <2>5. QED BY <2>2, <2>3, <2>4
<1>17. QED BY <1>15, <1>16 DEF MasterInductive

Receiving(x, w, o) == [[[x EXCEPT !.at = "received"] EXCEPT !.response = w] EXCEPT !.own = o]
Succeeding(x, d) == [[[x EXCEPT !.at = "success"] EXCEPT !.values = d] EXCEPT !.response = Modbus!NoResponse]

LEMMA ReceivedAs ==
  ASSUME NEW x, RequestShaped(x), NEW w, NEW o, NEW y, y = Receiving(x, w, o)
  PROVE  /\ y = [at |-> y.at, request |-> y.request, unit |-> y.unit,
                 response |-> y.response, own |-> y.own, values |-> y.values]
         /\ y.at = "received" /\ y.response = w /\ y.own = o
         /\ y.request = x.request /\ y.unit = x.unit /\ y.values = x.values
BY DEF RequestShaped, Receiving

LEMMA SuccessfulAs ==
  ASSUME NEW x, RequestShaped(x), NEW d, NEW y, y = Succeeding(x, d)
  PROVE  /\ RequestShaped(y) /\ y.at = "success" /\ y.values = d /\ y.own = x.own
         /\ y.request = x.request /\ y.unit = x.unit
BY DEF RequestShaped, Succeeding

LEMMA SuccessfulPlain ==
  ASSUME NEW x, RequestShaped(x), NEW y,
         y = [[x EXCEPT !.at = "success"] EXCEPT !.response = Modbus!NoResponse]
  PROVE  /\ RequestShaped(y) /\ y.at = "success" /\ y.own = x.own
         /\ y.request = x.request /\ y.unit = x.unit
BY DEF RequestShaped

(* Some response comes back, perhaps to another request, perhaps damaged.      *)
LEMMA ReceiveStep ==
  ASSUME MasterInductive, Modbus!CommandsAssumption, NEW g \in Clients, Modbus!Receive(g)
  PROVE  MasterInductive'
<1>1. unitID' = unitID /\ link' = link /\ memory' = memory /\ answered' = answered
  BY DEF Modbus!Receive
<1>2. PICK x : x = request[g]
  OBVIOUS
<1>3. x.at = "waiting"
  BY <1>2 DEF Modbus!Receive
<1>4. RequestCall(x, answered)
  BY <1>2, <1>3, CallUnder DEF MasterInductive
<1>5. RequestShaped(x) /\ OwnExchange(x, answered)
  BY <1>4 DEF RequestCall
<1>6. LogSound(answered) /\ answered \in Seq(Exchanges)
  BY DEF MasterInductive, Logged, LogSound
<1>7. PICK n \in DOMAIN answered :
        /\ answered[n] # Modbus!Lost
        /\ \E w \in {answered[n].response} \cup Modbus!Damaged(answered[n].response) :
             request' = [request EXCEPT ![g].at = "received", ![g].response = w,
                                        ![g].own = IF n = @ /\ w = answered[n].response THEN n ELSE 0]
  BY DEF Modbus!Receive
<1>8. PICK w : /\ w = answered[n].response \/ w \in Modbus!Damaged(answered[n].response)
               /\ request' = [request EXCEPT ![g].at = "received", ![g].response = w,
                                             ![g].own = IF n = @ /\ w = answered[n].response THEN n ELSE 0]
  BY <1>7
<1>9. PICK o : o = IF n = x.own /\ w = answered[n].response THEN n ELSE 0
  OBVIOUS
<1>10. PICK y : y = request'[g]
  OBVIOUS
<1>11. /\ DOMAIN request' = Clients /\ \A h \in Clients \ {g} : request'[h] = request[h]
       /\ y = Receiving(x, w, o)
  <2>1. DOMAIN request = Clients
    BY DEF MasterInductive, Requested
  <2>2. x.own = request[g].own
    BY <1>2
  <2>3. request' = [request EXCEPT ![g] = [[[x EXCEPT !.at = "received"] EXCEPT !.response = w] EXCEPT !.own = o]]
    BY <1>2, <1>8, <1>9, <1>5 DEF RequestShaped
  <2>4. QED BY <1>10, <2>1, <2>3 DEF Receiving
<1>12. /\ y = [at |-> y.at, request |-> y.request, unit |-> y.unit,
               response |-> y.response, own |-> y.own, values |-> y.values]
       /\ y.at = "received" /\ y.response = w /\ y.own = o
       /\ y.request = x.request /\ y.unit = x.unit
  BY <1>5, <1>11, ReceivedAs
<1>13. RequestShaped(y)
  BY <1>5, <1>12 DEF RequestShaped
<1>14. n \in 1 .. Len(answered) /\ AnsweredAs(answered[n])
  BY <1>6, <1>7 DEF LogSound
<1>15. OwnExchange(y, answered)
  <2>1. CASE o = x.own
    BY <1>5, <1>12, <2>1 DEF OwnExchange
  <2>2. CASE o = 0
    BY <1>6, <1>12, <2>2 DEF OwnExchange
  <2>3. QED BY <1>9, <2>1, <2>2
<1>16. Arrived(y, answered)
  <2>1. CameFrom(w, answered[n])
    BY <1>7, <1>8 DEF CameFrom
  <2>2. w \in Seq(Nat)
    <3>1. PICK e \in Exchanges : e = answered[n] /\ AnsweredAs(e)
      BY <1>14 DEF AnsweredAs
    <3>2. e.request \in Requests /\ e.response \in Seq(Nat)
      BY <3>1 DEF AnsweredAs, Exchanges
    <3>3. Len(e.response) >= 2
      BY <3>1, <3>2, Responded DEF AnsweredAs
    <3>4. QED BY <1>8, <3>1, <3>2, <3>3, DamageSeen
  <2>3. o # 0 => w = answered[o].response
    BY <1>9
  <2>4. QED BY <1>12, <1>14, <2>1, <2>2, <2>3 DEF Arrived
<1>17. RequestCall(y, answered)
  BY <1>12, <1>13, <1>15, <1>16 DEF RequestCall
<1>18. Requested'
  BY <1>1, <1>10, <1>11, <1>17, OneCallTurns DEF MasterInductive
<1>19. QED BY <1>1, <1>18 DEF MasterInductive, UnitsTyped, Logged

LEMMA ExecuteReadStep ==
  ASSUME MasterInductive, Modbus!CommandsAssumption, NEW g \in Clients, Modbus!executeRead(g)
  PROVE  MasterInductive'
<1>1. unitID' = unitID /\ link' = link /\ memory' = memory /\ answered' = answered
  BY DEF Modbus!executeRead
<1>2. PICK x : x = request[g]
  OBVIOUS
<1>3. PICK r : r = x.request
  OBVIOUS
<1>4. PICK w : w = x.response
  OBVIOUS
<1>5. /\ x.at = "received" /\ r.fc \in Modbus!Reads /\ Modbus!Answers(w, r.fc) /\ Modbus!Complete(w, r)
  BY <1>2, <1>3, <1>4 DEF Modbus!executeRead
<1>6. PICK d : d = Modbus!Decoded(w, r)
  OBVIOUS
<1>7. RequestCall(x, answered)
  BY <1>2, <1>5, CallUnder DEF MasterInductive
<1>8. RequestShaped(x) /\ OwnExchange(x, answered) /\ Arrived(x, answered)
  BY <1>5, <1>7 DEF RequestCall
<1>9. PICK y : y = request'[g]
  OBVIOUS
<1>10. /\ DOMAIN request' = Clients /\ \A h \in Clients \ {g} : request'[h] = request[h]
       /\ y = Succeeding(x, d)
  BY <1>2, <1>3, <1>4, <1>6, <1>9 DEF Modbus!executeRead, MasterInductive, Requested, Succeeding
<1>11. /\ RequestShaped(y) /\ y.at = "success" /\ y.values = d /\ y.own = x.own
       /\ y.request = r /\ y.unit = x.unit
  BY <1>3, <1>8, <1>10, SuccessfulAs
<1>12. w \in Seq(Nat) /\ r \in Requests
  BY <1>3, <1>4, <1>8 DEF Arrived, RequestShaped
<1>13. Len(d) = r.quantity /\ \A e : AnsweredAs(e) /\ e.request = r /\ w = e.response => d = e.data
  BY <1>5, <1>6, <1>12, ReadHonestly
<1>14. x.own # 0 => d = answered[x.own].data
  <2>1. SUFFICES ASSUME x.own # 0 PROVE d = answered[x.own].data
    OBVIOUS
  <2>2. /\ x.own \in 1 .. Len(answered) /\ answered[x.own] # Modbus!Lost /\ answered[x.own].request = r
        /\ w = answered[x.own].response
    <3>1. Len(answered) \in Nat
      BY DEF MasterInductive, Logged, LogSound
    <3>2. QED BY <1>3, <1>4, <1>8, <2>1, <3>1 DEF OwnExchange, Arrived
  <2>3. AnsweredAs(answered[x.own])
    BY <2>2 DEF MasterInductive, Logged, LogSound
  <2>4. QED BY <1>13, <2>2, <2>3
<1>15. Succeeded(y, answered)
  BY <1>5, <1>11, <1>13, <1>14 DEF Succeeded
<1>16. OwnExchange(y, answered)
  BY <1>3, <1>8, <1>11 DEF OwnExchange
<1>17. RequestCall(y, answered)
  BY <1>11, <1>15, <1>16 DEF RequestCall
<1>18. Requested'
  BY <1>1, <1>9, <1>10, <1>17, OneCallTurns DEF MasterInductive
<1>19. QED BY <1>1, <1>18 DEF MasterInductive, UnitsTyped, Logged

LEMMA ExecuteWriteStep ==
  ASSUME MasterInductive, Modbus!CommandsAssumption, NEW g \in Clients, Modbus!executeWrite(g)
  PROVE  MasterInductive'
<1>1. unitID' = unitID /\ link' = link /\ memory' = memory /\ answered' = answered
  BY DEF Modbus!executeWrite
<1>2. PICK x : x = request[g]
  OBVIOUS
<1>3. PICK r : r = x.request
  OBVIOUS
<1>4. PICK w : w = x.response
  OBVIOUS
<1>5. /\ x.at = "received" /\ r.fc \notin Modbus!Reads
      /\ Modbus!Answers(w, r.fc) /\ Modbus!Echoes(w, Modbus!PDU(r))
  BY <1>2, <1>3, <1>4 DEF Modbus!executeWrite
<1>6. RequestCall(x, answered)
  BY <1>2, <1>5, CallUnder DEF MasterInductive
<1>7. RequestShaped(x) /\ OwnExchange(x, answered) /\ Arrived(x, answered)
  BY <1>5, <1>6 DEF RequestCall
<1>8. PICK y : y = request'[g]
  OBVIOUS
<1>9. /\ DOMAIN request' = Clients /\ \A h \in Clients \ {g} : request'[h] = request[h]
      /\ y = [[x EXCEPT !.at = "success"] EXCEPT !.response = Modbus!NoResponse]
  BY <1>2, <1>8 DEF Modbus!executeWrite, MasterInductive, Requested
<1>10. /\ RequestShaped(y) /\ y.at = "success" /\ y.own = x.own
       /\ y.request = r /\ y.unit = x.unit
  BY <1>3, <1>7, <1>9, SuccessfulPlain
<1>11. r \in Requests
  BY <1>3, <1>7 DEF RequestShaped
<1>12. PICK n \in 1 .. Len(answered) : CameFrom(w, answered[n])
  BY <1>4, <1>7 DEF Arrived
<1>13. answered[n] # Modbus!Lost /\ AnsweredAs(answered[n])
  BY <1>12 DEF CameFrom, MasterInductive, Logged, LogSound
<1>14. SameWrite(answered[n].request, r)
  BY <1>5, <1>11, <1>12, <1>13, WrittenHonestly
<1>15. Succeeded(y, answered)
  BY <1>5, <1>10, <1>13, <1>14 DEF Succeeded
<1>16. OwnExchange(y, answered)
  BY <1>3, <1>7, <1>10 DEF OwnExchange
<1>17. RequestCall(y, answered)
  BY <1>10, <1>15, <1>16 DEF RequestCall
<1>18. Requested'
  BY <1>1, <1>8, <1>9, <1>17, OneCallTurns DEF MasterInductive
<1>19. QED BY <1>1, <1>18 DEF MasterInductive, UnitsTyped, Logged

LEMMA MasterStep ==
  ASSUME Modbus!CommandsAssumption, MasterInductive, [Modbus!Next]_(Modbus!vars)
  PROVE  MasterInductive'
<1>1. CASE UNCHANGED Modbus!vars
  <2>1. /\ unitID' = unitID /\ link' = link /\ memory' = memory /\ answered' = answered
        /\ request' = request
    BY <1>1 DEF Modbus!vars
  <2>2. QED BY <2>1 DEF MasterInductive, UnitsTyped, Logged, Requested
<1>2. CASE Modbus!SetTransport \/ Modbus!Unmount \/ \E u \in Units : Modbus!SetUnitID(u)
  <2>1. UnitsTyped'
    BY <1>2 DEF Modbus!SetTransport, Modbus!Unmount, Modbus!SetUnitID, MasterInductive, UnitsTyped
  <2>2. answered' = answered /\ request' = request
    BY <1>2 DEF Modbus!SetTransport, Modbus!Unmount, Modbus!SetUnitID
  <2>3. QED BY <2>1, <2>2 DEF MasterInductive, Logged, Requested
<1>3. ASSUME NEW g \in Clients, Modbus!SendFails(g) \/ Modbus!Refused(g) \/ Modbus!Succeeds(g)
      PROVE  MasterInductive'
  <2>1. Modbus!Return(g)
    BY <1>3 DEF Modbus!SendFails, Modbus!Refused, Modbus!Succeeds
  <2>2. QED BY <2>1, ReturnStep
<1>4. CASE Modbus!Next
  BY <1>2, <1>3, <1>4, CommandStep, UnitActsStep, RequestLostStep, ReceiveStep,
     ExecuteReadStep, ExecuteWriteStep DEF Modbus!Next
<1>5. QED BY <1>1, <1>4

LEMMA MasterSound ==
  ASSUME MasterInductive
  PROVE  MasterHonest
<1>1. /\ UnitsTyped /\ LogSound(answered) /\ Len(answered) <= MaxSends
      /\ \A g \in Clients : request[g] = Modbus!Idle \/ RequestCall(request[g], answered)
  BY DEF MasterInductive, Logged, Requested
<1>2. answered \in Seq(Exchanges)
  BY <1>1 DEF LogSound
<1>3. ASSUME NEW g \in Clients, request[g] # Modbus!Idle
      PROVE  RequestShaped(request[g]) /\ RequestCall(request[g], answered)
  BY <1>1, <1>3 DEF RequestCall
<1>4. Modbus!TypeOK
  BY <1>1, <1>3 DEF Modbus!TypeOK, UnitsTyped, RequestShaped
<1>5. ASSUME NEW g \in Modbus!Successful
      PROVE  /\ g \in Clients /\ OwnExchange(request[g], answered) /\ Succeeded(request[g], answered)
  BY <1>3 DEF Modbus!Successful, RequestCall
<1>6. Modbus!ReadHonest
  BY <1>5 DEF Modbus!ReadHonest, Modbus!Own, OwnExchange, Succeeded
<1>7. Modbus!WriteHonest
  <2>1. SUFFICES ASSUME NEW g \in Modbus!Successful, request[g].request.fc \notin Modbus!Reads
                 PROVE  \E n \in {m \in DOMAIN answered : answered[m] # Modbus!Lost} :
                          SameWrite(answered[n].request, request[g].request)
    BY DEF Modbus!WriteHonest, SameWrite
  <2>2. PICK n \in 1 .. Len(answered) :
          answered[n] # Modbus!Lost /\ SameWrite(answered[n].request, request[g].request)
    BY <1>5, <2>1 DEF Succeeded
  <2>3. n \in DOMAIN answered
    BY <1>2
  <2>4. QED BY <2>2, <2>3
<1>8. QED BY <1>4, <1>6, <1>7 DEF MasterHonest, Modbus!MasterHonest

(* Whatever responses are lost, late, meant for others or damaged: a read that *)
(* succeeds has as many values as it asked for, those of the unit if the       *)
(* response is its own; a write that succeeds was done by some unit.           *)
THEOREM MasterHonestHolds == Spec => []MasterHonest
<1>1. Init => MasterInductive
  BY RequestsAssumption, MasterInit DEF Init
<1>2. MasterInductive /\ [Next]_vars => MasterInductive'
  <2>1. [Next]_vars => [Modbus!Next]_(Modbus!vars)
    BY DEF Next, vars, modbusVars, Modbus!vars
  <2>2. QED BY <2>1, RequestsAssumption, MasterStep
<1>3. MasterInductive => MasterHonest
  BY MasterSound
<1>4. QED BY <1>1, <1>2, <1>3, PTL DEF Spec
=============================================================================
