----------------------------- MODULE ModbusMaster -----------------------------
(***************************************************************************)
(* ModbusAbility: read and write commands become request PDUs, which a     *)
(* transport carries to the unit that set_unit_id has chosen, and a        *)
(* response PDU becomes the answer of the command. PDUs are sequences of   *)
(* bytes, a coil is 0 or 1. A PDU has no transaction number, so what comes *)
(* back may be the response to an earlier request; it may also be damaged, *)
(* or not come, whether or not the device has acted.                       *)
(*                                                                         *)
(* The units, the transport and the link are outside the repository. The   *)
(* endpoint that set_endpoint stores is read by get_endpoint only.         *)
(***************************************************************************)
EXTENDS Integers, Sequences, FiniteSetsExt

CONSTANTS
  Clients,       \* goroutines that call Command
  Units,         \* unit identifiers
  Registers,     \* number of registers of a unit
  CoilCount,     \* number of coils of a unit
  Requests,      \* commands that are called, records with fc, address and
                 \*   quantity (read), or values (write)
  maxQuantity,   \* 125, of one read
  maxValues,     \* 123, of one write_holding_multi
  MaxSends       \* bound on the requests sent

ReadCoils == 1
ReadDiscreteInputs == 2
ReadHolding == 3
ReadInput == 4
WriteCoil == 5
WriteHolding == 6
WriteMultiReg == 16
NoResponse == <<>>
Lost == [response |-> NoResponse]

VARIABLES
  unitID, transport,  \* ModbusAbility; the transport is "none", "open" or "closed"
  memory,             \* the registers and the coils of each unit
  answered,           \* history: every request sent, in order, and what a unit made of it
  call                \* where each goroutine is

vars == <<unitID, transport, memory, answered, call>>

Idle == [at |-> "idle"]
Reads == {ReadCoils, ReadDiscreteInputs, ReadHolding, ReadInput}
Writes == {WriteCoil, WriteHolding, WriteMultiReg}
isRegisterFunc(fc) == fc \in {ReadHolding, ReadInput}

CommandsAssumption ==
  /\ 1 \in Units /\ {Registers, CoilCount, maxQuantity, maxValues, MaxSends} \subseteq Nat
  /\ \A r \in Requests :
       /\ r.address \in Nat
       /\ \/ r.fc \in Reads /\ r.quantity \in Nat
          \/ /\ r.fc \in Writes /\ r.values \in Seq(Nat)
             /\ r.fc # WriteMultiReg => Len(r.values) = 1
             /\ r.fc = WriteCoil => r.values[1] \in {0, 1}

Init ==
  /\ unitID = 1 /\ transport = "none"
  /\ memory = [u \in Units |-> [regs |-> [i \in 1 .. Registers |-> 0],
                                coils |-> [i \in 1 .. CoilCount |-> 0]]]
  /\ answered = <<>>
  /\ call = [g \in Clients |-> Idle]

-----------------------------------------------------------------------------
(* The encoding. Words have 16 bits and are big-endian.                      *)

Word(w) == <<w \div 256, w % 256>>
Words(values) == [i \in 1 .. 2 * Len(values) |-> Word(values[(i + 1) \div 2])[IF i % 2 = 1 THEN 1 ELSE 2]]

encodeReadPDU(r) == <<r.fc>> \o Word(r.address) \o Word(r.quantity)
encodeWriteHoldingPDU(r) == <<r.fc>> \o Word(r.address) \o Word(r.values[1])
encodeWriteCoilPDU(r) == <<r.fc>> \o Word(r.address) \o <<IF r.values[1] = 1 THEN 255 ELSE 0, 0>>
encodeWriteMultiPDU(r) ==
  <<r.fc>> \o Word(r.address) \o Word(Len(r.values)) \o <<2 * Len(r.values)>> \o Words(r.values)

PDU(r) == CASE r.fc \in Reads         -> encodeReadPDU(r)
            [] r.fc = WriteHolding  -> encodeWriteHoldingPDU(r)
            [] r.fc = WriteCoil     -> encodeWriteCoilPDU(r)
            [] r.fc = WriteMultiReg -> encodeWriteMultiPDU(r)

decodeRegs(payload) == [i \in 1 .. Len(payload) \div 2 |-> 256 * payload[2 * i - 1] + payload[2 * i]]

\* Variant: the first coil in the highest bit.
CoilReversed(payload, i) == (payload[(i - 1) \div 8 + 1] \div 2 ^ (7 - ((i - 1) % 8))) % 2

Coil(payload, i) == (payload[(i - 1) \div 8 + 1] \div 2 ^ ((i - 1) % 8)) % 2

decodeCoils(payload, quantity) == [i \in 1 .. Min({quantity, 8 * Len(payload)}) |-> Coil(payload, i)]

-----------------------------------------------------------------------------
(* A unit: reads answer with its memory, writes change it and are echoed, an  *)
(* address that does not exist gets an exception.                            *)

Bit(coils, k) == IF k \in DOMAIN coils THEN coils[k] ELSE 0

CoilBytes(coils) ==
  LET bit(j, i) == Bit(coils, 8 * (j - 1) + i)
  IN  [j \in 1 .. (Len(coils) + 7) \div 8 |->
         bit(j, 1) + 2 * bit(j, 2) + 4 * bit(j, 3) + 8 * bit(j, 4)
           + 16 * bit(j, 5) + 32 * bit(j, 6) + 64 * bit(j, 7) + 128 * bit(j, 8)]

Size(r) == IF r.fc \in Reads THEN r.quantity ELSE Len(r.values)
IsRegister(r) == r.fc \in {ReadHolding, ReadInput, WriteHolding, WriteMultiReg}
Exists(r) == r.address + Size(r) <= IF IsRegister(r) THEN Registers ELSE CoilCount

Area(u, r) == IF IsRegister(r) THEN memory[u].regs ELSE memory[u].coils
Data(u, r) == SubSeq(Area(u, r), r.address + 1, r.address + r.quantity)

Payload(r, data) == IF IsRegister(r) THEN Words(data) ELSE CoilBytes(data)

Response(r, data) ==
  IF ~Exists(r) THEN <<128 + r.fc, 2>>
  ELSE IF r.fc \in Reads THEN <<r.fc, Len(Payload(r, data))>> \o Payload(r, data)
  ELSE SubSeq(PDU(r), 1, 5)

Written(u, r) ==
  [i \in DOMAIN Area(u, r) |->
     IF i - r.address \in 1 .. Len(r.values) THEN r.values[i - r.address] ELSE Area(u, r)[i]]

\* Transport.Send, up to the unit and, it may be, not back; or not there.
UnitActs(g) ==
  LET u == call[g].unit  r == call[g].request  IN
  /\ call[g].at = "sent" /\ transport = "open"
  /\ Len(answered) < MaxSends
  /\ answered' = Append(answered, [unit |-> u, request |-> r, response |-> Response(r, Data(u, r)),
                                   data |-> IF r.fc \in Reads /\ Exists(r) THEN Data(u, r) ELSE <<>>])
  /\ memory' = IF r.fc \in Reads \/ ~Exists(r) THEN memory
               ELSE IF IsRegister(r) THEN [memory EXCEPT ![u].regs = Written(u, r)]
               ELSE [memory EXCEPT ![u].coils = Written(u, r)]
  /\ call' = [call EXCEPT ![g].at = "waiting", ![g].own = Len(answered')]
  /\ UNCHANGED <<unitID, transport>>

RequestLost(g) ==
  /\ call[g].at = "sent" /\ transport = "open"
  /\ Len(answered) < MaxSends
  /\ answered' = Append(answered, Lost)
  /\ call' = [call EXCEPT ![g].at = "waiting"]
  /\ UNCHANGED <<unitID, transport, memory>>

\* Cut short, or a read response with another byte in place of its count. Nothing
\* in a PDU would tell of other bytes that changed.
Damaged(response) ==
  {SubSeq(response, 1, n) : n \in {1, Len(response) - 1}} \cup
  (IF response[1] \in Reads /\ response[2] > 0 THEN {[response EXCEPT ![2] = @ - 1]} ELSE {})

Receive(g) ==
  /\ call[g].at = "waiting"
  /\ \E n \in {m \in DOMAIN answered : answered[m] # Lost} :
       \E response \in {answered[n].response} \cup Damaged(answered[n].response) :
         call' = [call EXCEPT ![g].at = "received", ![g].response = response,
                              ![g].own = IF n = @ /\ response = answered[n].response THEN n ELSE 0]
  /\ UNCHANGED <<unitID, transport, memory, answered>>

-----------------------------------------------------------------------------
(* The commands. The unit and the transport are read under one lock.         *)

SetTransport ==
  /\ transport' = "open"
  /\ UNCHANGED <<unitID, memory, answered, call>>

\* Unmount closes the transport and keeps it.
Unmount ==
  /\ transport # "none" /\ transport' = "closed"
  /\ UNCHANGED <<unitID, memory, answered, call>>

SetUnitID(u) ==
  /\ unitID' = u
  /\ UNCHANGED <<transport, memory, answered, call>>

InRange(r) == IF r.fc \in Reads THEN r.quantity \in 1 .. maxQuantity
              ELSE Len(r.values) \in 1 .. maxValues

Command(g, r) ==
  /\ call[g] = Idle /\ transport # "none"
  /\ InRange(r)
  /\ call' = [call EXCEPT ![g] = [at |-> "sent", request |-> r, unit |-> unitID,
                                  response |-> NoResponse, own |-> 0, values |-> <<>>]]
  /\ UNCHANGED <<unitID, transport, memory, answered>>

Return(g) ==
  /\ call' = [call EXCEPT ![g] = Idle]
  /\ UNCHANGED <<unitID, transport, memory, answered>>

SendFails(g) == call[g].at \in {"sent", "waiting"} /\ Return(g)

\* What both kinds of command demand of a response first.
Answers(response, fc) == Len(response) >= 2 /\ response[1] = fc

\* Variant: only that the bytes the count announces are there.
CountFits(response, r) == 2 + response[2] <= Len(response)

Complete(response, r) ==
  /\ 2 + response[2] <= Len(response)
  /\ response[2] = IF isRegisterFunc(r.fc) THEN 2 * r.quantity ELSE (r.quantity + 7) \div 8

Decoded(response, r) ==
  LET payload == SubSeq(response, 3, 2 + response[2])
  IN  IF isRegisterFunc(r.fc) THEN decodeRegs(payload) ELSE decodeCoils(payload, r.quantity)

executeRead(g) ==
  LET r == call[g].request  response == call[g].response  IN
  /\ call[g].at = "received" /\ r.fc \in Reads
  /\ Answers(response, r.fc) /\ Complete(response, r)
  /\ call' = [call EXCEPT ![g].at = "success", ![g].values = Decoded(response, r),
                          ![g].response = NoResponse]
  /\ UNCHANGED <<unitID, transport, memory, answered>>

\* Variant: any response with the function code, as it once was.
AnyEcho(response, pdu) == TRUE

Echoes(response, pdu) == Len(response) >= 5 /\ \A i \in 2 .. 5 : response[i] = pdu[i]

executeWrite(g) ==
  LET r == call[g].request  response == call[g].response  IN
  /\ call[g].at = "received" /\ r.fc \notin Reads
  /\ Answers(response, r.fc) /\ Echoes(response, PDU(r))
  /\ call' = [call EXCEPT ![g].at = "success", ![g].response = NoResponse]
  /\ UNCHANGED <<unitID, transport, memory, answered>>

Refused(g) ==
  LET r == call[g].request  response == call[g].response  IN
  /\ call[g].at = "received"
  /\ ~ /\ Answers(response, r.fc)
       /\ IF r.fc \in Reads THEN Complete(response, r) ELSE Echoes(response, PDU(r))
  /\ Return(g)

Succeeds(g) == call[g].at = "success" /\ Return(g)

-----------------------------------------------------------------------------
Next ==
  \/ SetTransport \/ Unmount
  \/ \E u \in Units : SetUnitID(u)
  \/ \E g \in Clients :
       \/ \E r \in Requests : Command(g, r)
       \/ UnitActs(g) \/ RequestLost(g) \/ Receive(g)
       \/ SendFails(g) \/ executeRead(g) \/ executeWrite(g) \/ Refused(g) \/ Succeeds(g)

Spec == Init /\ [][Next]_vars
-----------------------------------------------------------------------------
TypeOK ==
  /\ unitID \in Units /\ transport \in {"none", "open", "closed"}
  /\ Len(answered) <= MaxSends
  /\ \A g \in Clients : call[g] = Idle \/
       /\ call[g].at \in {"sent", "waiting", "received", "success"}
       /\ call[g].request \in Requests /\ call[g].unit \in Units

Successful == {g \in Clients : call[g] # Idle /\ call[g].at = "success"}
Own(g) == answered[call[g].own]

(* executeRead: a read that succeeds has as many values as it asked for,      *)
(* whatever came back; with the undamaged response to its own request, they   *)
(* are what that unit held, in order, when it answered.                       *)
ReadHonest ==
  \A g \in Successful :
    call[g].request.fc \in Reads =>
      /\ Len(call[g].values) = call[g].request.quantity
      /\ call[g].own # 0 => /\ Own(g).unit = call[g].unit
                            /\ call[g].values = Own(g).data

(* executeWrite: a write that succeeds was done by some unit: that value at   *)
(* that address, or as many registers from that address, at some time. The    *)
(* response to another write is never its success.                            *)
WriteHonest ==
  \A g \in Successful :
    LET r == call[g].request IN
    r.fc \notin Reads =>
      \E n \in {m \in DOMAIN answered : answered[m] # Lost} :
        LET done == answered[n].request IN
        /\ done.fc = r.fc /\ done.address = r.address /\ Exists(done)
        /\ IF r.fc = WriteMultiReg THEN Len(done.values) = Len(r.values) ELSE done.values = r.values

MasterHonest == ReadHonest /\ WriteHonest
=============================================================================
