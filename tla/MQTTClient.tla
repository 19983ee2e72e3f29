----------------------------- MODULE MQTTClient -----------------------------
(***************************************************************************)
(* mqttClientTransport (examples/verify/mqtt_transport.go): the MQTT 3.1.1 *)
(* client the verification program gives to MQTTAbility as its transport.  *)
(* A call holds t.mu from its check of t.connected to the answer or the    *)
(* timeout, so one is in progress at a time; beside it run the read loops, *)
(* one per connection, which read whatever connection t.conn names when    *)
(* they come to read, and the broker.                                      *)
(*                                                                         *)
(* A behaviour is followed until somebody connects while an earlier loop   *)
(* still runs: two loops may then read one connection, and what they make  *)
(* of its bytes is anyone's guess.                                         *)
(***************************************************************************)
EXTENDS Integers, Sequences

CONSTANTS
  Kinds,      \* requests: publish with QoS 1, subscribe, unsubscribe
  Lengths,    \* remaining lengths of the messages the broker sends
  maxLength,  \* the limit on them, 1 << 20
  respCap,    \* capacity of respCh
  MaxConns,   \* bounds: on connections, on the packets in flight on one,
  MaxPackets, MaxCalls  \* and on requests

ClientAssumption ==
  /\ Kinds \cap {"none", "message"} = {}
  /\ Lengths \subseteq Nat /\ maxLength \in Nat
  /\ \A n \in Lengths : ((n \div 128) \div 128) \div 128 < 128   \* four bytes can say it
  /\ respCap \in Nat /\ MaxConns \in Nat /\ MaxPackets \in Nat /\ MaxCalls \in Nat

VARIABLES
  conn, connected, respCh,  \* fields of mqttClientTransport
  call,      \* the call that holds t.mu
  loop,      \* the read loop started with each connection
  link,      \* each connection: state, packets to the broker and from it
  calls,     \* number of requests made
  late,      \* history: kinds of request that have timed out
  early,     \* history: a connection was made while an earlier loop ran
  honest,    \* history: the last request to succeed was done by the broker
  whole      \* history: the last message had the length it was sent with

client == <<conn, connected, respCh>>
history == <<calls, late, early, honest, whole>>
vars == <<client, call, loop, link, history>>

Conns == 1 .. MaxConns
NoCall == [op |-> "none", phase |-> "none", done |-> FALSE]
NoLoop == [phase |-> "none", at |-> 0, packet |-> [kind |-> "none"]]
Running(k) == loop[k].phase \notin {"none", "ended"}

Init ==
  /\ conn = 0 /\ connected = FALSE /\ respCh = <<>>
  /\ call = NoCall
  /\ loop = [k \in Conns |-> NoLoop]
  /\ link = [k \in Conns |-> [state |-> "none", out |-> <<>>, in |-> <<>>]]
  /\ calls = 0 /\ late = {} /\ early = FALSE
  /\ honest = TRUE /\ whole = TRUE

-----------------------------------------------------------------------------
(* The remaining length: seven bits a byte, the eighth says that more follow. *)

\* Variant: a length is one byte.
OneByte(n) == <<n % 256>>

\* What the loop has left to write at each of its turns.
Rest(n) == <<n, n \div 128, (n \div 128) \div 128, ((n \div 128) \div 128) \div 128>>

encodeRemainingLength(n) ==
  LET last == CHOOSE i \in 1 .. 4 : Rest(n)[i] < 128 /\ \A j \in 1 .. i - 1 : Rest(n)[j] >= 128
  IN [i \in 1 .. last |-> (Rest(n)[i] % 128) + (IF i < last THEN 128 ELSE 0)]

(* What the i-th turn of the loop adds: it reads a byte if all before it said *)
(* that more follow.                                                          *)
Digit(bytes, i) ==
  IF i \in DOMAIN bytes /\ \A j \in 1 .. i - 1 : bytes[j] >= 128 THEN bytes[i] % 128 ELSE 0

decodeRemainingLength(bytes) ==
  Digit(bytes, 1) + 128 * Digit(bytes, 2) + 128 * 128 * Digit(bytes, 3)
  + 128 * 128 * 128 * Digit(bytes, 4)

-----------------------------------------------------------------------------
(* The broker and the network.                                                *)
Answered(request) == [kind |-> request.op]
Message(n) == [kind |-> "message", sent |-> n, bytes |-> encodeRemainingLength(n)]

BrokerAnswers(k) ==
  /\ link[k].state = "open" /\ link[k].out # <<>> /\ Len(link[k].in) < MaxPackets
  /\ link' = [link EXCEPT ![k].out = Tail(@), ![k].in = Append(@, Answered(Head(link[k].out)))]
  /\ call' = IF Head(link[k].out).current THEN [call EXCEPT !.done = TRUE] ELSE call
  /\ UNCHANGED <<client, loop, history>>

BrokerSends(k, n) ==
  /\ link[k].state = "open" /\ Len(link[k].in) < MaxPackets
  /\ link' = [link EXCEPT ![k].in = Append(@, Message(n))]
  /\ UNCHANGED <<client, call, loop, history>>

ConnectionLost(k) ==
  /\ link[k].state = "open"
  /\ link' = [link EXCEPT ![k].state = "lost", ![k].out = <<>>]
  /\ UNCHANGED <<client, call, loop, history>>

Closed(k) == link' = [link EXCEPT ![k] = [state |-> "closed", out |-> <<>>, in |-> <<>>]]

-----------------------------------------------------------------------------
(* Connect dials, waits for CONNACK at most 5 s and starts a loop; whatever   *)
(* fails on the way closes the new connection.                                *)
Connect ==
  /\ call = NoCall /\ ~connected /\ conn < MaxConns
  /\ conn' = conn + 1
  /\ \/ /\ connected' = TRUE
        /\ link' = [link EXCEPT ![conn'].state = "open"]
        /\ loop' = [loop EXCEPT ![conn'].phase = "next"]
        /\ early' = \E k \in Conns : Running(k)
     \/ /\ link' = [link EXCEPT ![conn'].state = "closed"]
        /\ early' = \E k \in Conns : Running(k)
        /\ UNCHANGED <<connected, loop>>
  /\ UNCHANGED <<respCh, call, calls, late, honest, whole>>

Disconnect ==
  /\ call = NoCall /\ connected
  /\ connected' = FALSE
  /\ Closed(conn)
  /\ UNCHANGED <<conn, respCh, call, loop, history>>

(* Subscribe, Unsubscribe and Publish with QoS 1: write, then wait for the    *)
(* acknowledgement at most 3 s. A Publish with QoS 0 does not wait.           *)
Request(op) ==
  /\ call = NoCall /\ connected /\ calls < MaxCalls
  /\ calls' = calls + 1
  /\ \/ /\ link[conn].state = "open" /\ Len(link[conn].out) < MaxPackets
        /\ link' = [link EXCEPT ![conn].out = Append(@, [op |-> op, current |-> TRUE])]
        /\ call' = [op |-> op, phase |-> "wait", done |-> FALSE]
     \/ link[conn].state # "open" /\ UNCHANGED <<link, call>>   \* the write fails
  /\ UNCHANGED <<client, loop, late, early, honest, whole>>

\* Variant: any acknowledgement will do.
AnyKind(kind) == TRUE

Wanted(kind) == kind = call.op

\* What was written on a connection is no longer the request in progress.
Past(requests) == [i \in DOMAIN requests |-> [requests[i] EXCEPT !.current = FALSE]]

Return ==
  /\ call' = NoCall
  /\ link' = [k \in Conns |-> [link[k] EXCEPT !.out = Past(@)]]

AckArrives ==
  /\ call.phase = "wait" /\ respCh # <<>>
  /\ respCh' = Tail(respCh)
  /\ IF Wanted(Head(respCh))
     THEN Return /\ honest' = (call.done \/ call.op \in late)
     ELSE UNCHANGED <<call, link, honest>>
  /\ UNCHANGED <<conn, connected, loop, calls, late, early, whole>>

AckTimesOut ==
  /\ call.phase = "wait"
  /\ Return
  /\ late' = late \cup {call.op}
  /\ UNCHANGED <<client, loop, calls, early, honest, whole>>

-----------------------------------------------------------------------------
(* readLoop.                                                                  *)
LoopGoto(k, phase) == loop' = [loop EXCEPT ![k].phase = phase]

ReadHeader(k) ==
  /\ loop[k].phase = "next"
  /\ loop' = [loop EXCEPT ![k].phase = "header", ![k].at = conn]
  /\ UNCHANGED <<client, call, link, history>>

HeaderArrives(k) ==
  LET at == loop[k].at
  IN /\ loop[k].phase = "header" /\ link[at].in # <<>>
     /\ loop' = [loop EXCEPT ![k].phase = "body", ![k].packet = Head(link[at].in)]
     /\ link' = [link EXCEPT ![at].in = Tail(@)]
     /\ UNCHANGED <<client, call, history>>

\* The connection ends, before a packet or within one.
ReadFails(k) ==
  /\ loop[k].phase = "body" \/ (loop[k].phase = "header" /\ link[loop[k].at].in = <<>>)
  /\ link[loop[k].at].state \in {"lost", "closed"}
  /\ LoopGoto(k, "failed")
  /\ UNCHANGED <<client, call, link, history>>

\* SetReadDeadline fails on a connection that was closed: the loop just ends.
DeadlineFails(k) ==
  /\ loop[k].phase = "body" /\ link[conn].state = "closed"
  /\ LoopGoto(k, "ended")
  /\ UNCHANGED <<client, call, link, history>>

\* Variant: the end of the connection is not noted.
EndsQuietly == UNCHANGED connected

NotesTheEnd == connected' = FALSE

LoopFails(k) ==
  /\ loop[k].phase = "failed" /\ call = NoCall
  /\ NotesTheEnd
  /\ LoopGoto(k, "ended")
  /\ UNCHANGED <<conn, respCh, call, link, history>>

TooLong(k) ==
  LET p == loop[k].packet
  IN p.kind = "message" /\ decodeRemainingLength(p.bytes) > maxLength

MessageTooLong(k) ==
  /\ loop[k].phase = "body" /\ TooLong(k) /\ call = NoCall
  /\ connected' = FALSE
  /\ Closed(conn)
  /\ LoopGoto(k, "ended")
  /\ UNCHANGED <<conn, respCh, call, history>>

Deliver(k) ==
  /\ loop[k].phase = "body" /\ loop[k].packet.kind = "message" /\ ~TooLong(k)
  /\ link[conn].state # "closed"
  /\ whole' = (decodeRemainingLength(loop[k].packet.bytes) = loop[k].packet.sent)
  /\ LoopGoto(k, "next")
  /\ UNCHANGED <<client, call, link, calls, late, early, honest>>

PassAck(k) ==
  /\ loop[k].phase = "body" /\ loop[k].packet.kind \in Kinds
  /\ link[conn].state # "closed"
  /\ respCh' = IF Len(respCh) < respCap THEN Append(respCh, loop[k].packet.kind) ELSE respCh
  /\ LoopGoto(k, "next")
  /\ UNCHANGED <<conn, connected, call, link, history>>

-----------------------------------------------------------------------------
Loop(k) ==
  ReadHeader(k) \/ HeaderArrives(k) \/ ReadFails(k) \/ DeadlineFails(k) \/ LoopFails(k)
  \/ MessageTooLong(k) \/ Deliver(k) \/ PassAck(k)

Broker(k) == BrokerAnswers(k) \/ ConnectionLost(k) \/ \E n \in Lengths : BrokerSends(k, n)

\* The bound on connections is reached, or two loops run.
Ended == early \/ (conn = MaxConns /\ ~connected)

Next ==
  \/ Ended /\ UNCHANGED vars
  \/ /\ ~early
     /\ \/ Connect \/ Disconnect \/ AckArrives \/ AckTimesOut
        \/ \E op \in Kinds : Request(op)
        \/ \E k \in Conns : Loop(k) \/ Broker(k)

Spec == Init /\ [][Next]_vars
-----------------------------------------------------------------------------
TypeOK ==
  /\ conn \in 0 .. MaxConns /\ connected \in BOOLEAN
  /\ respCh \in Seq(Kinds) /\ Len(respCh) <= respCap
  /\ call.op \in Kinds \cup {"none"} /\ late \subseteq Kinds
  /\ \A k \in Conns : loop[k].phase \in {"none", "next", "header", "body", "failed", "ended"}

(* A request that succeeds was done by the broker. An acknowledgement that    *)
(* comes after its request timed out stays in the channel, even over a        *)
(* reconnection, and all requests have the same packet identifiers: a kind    *)
(* that has once timed out is not to be trusted.                              *)
AnswersHonest == honest

(* "The only reader": each connection is read by one loop, and a client that  *)
(* says it is connected has a loop that reads that connection and will notice *)
(* its end. So it is as long as nobody connects while an earlier loop runs.   *)
OneReader ==
  ~early =>
    /\ \A j, k \in Conns : j # k => ~(Running(j) /\ Running(k))
    /\ connected => Running(conn) /\ link[conn].state # "closed"

(* A message is delivered with the length it was sent with.                   *)
MessagesWhole == whole

ClientHonest == AnswersHonest /\ OneReader /\ MessagesWhole
=============================================================================
