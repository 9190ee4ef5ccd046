---------------------------- MODULE BrokerStream ----------------------------
(***************************************************************************)
(* How BrokerRecvTask cuts the byte stream from the broker into messages.  *)
(* recv() returns a part of the stream that need not begin or end where a  *)
(* message does.  The loop of recvAndFireEvent() parses each part from its *)
(* first byte as if it did, and keeps nothing for the next call: a message *)
(* that does not fit is posted with zeros for the bytes that are missing,  *)
(* and the rest of it is taken for a message of its own.                   *)
(*                                                                         *)
(* The lengths in the bytes are not checked: what is parsed as a PUBLISH   *)
(* may name a topic of 65535 bytes, which is read beyond buffer and        *)
(* written beyond sbuff and _printBuf, and a remaining length may have     *)
(* more digits than RemainingLength can hold.  Then memory is overrun, of  *)
(* the gateway nothing more is said, and it takes no more steps here.      *)
(*                                                                         *)
(* A message is what its length depends on: its type, the length of its    *)
(* topic and of its payload, and its QoS.  Positions count the bytes of    *)
(* the stream.                                                             *)
(***************************************************************************)
EXTENDS Integers, Sequences

CONSTANTS Messages,                  \* what the broker sends
          SOCKET_MAXBUFFER_LENGTH,
          MaxMessages,               \* bound on their number
          MaxCut                     \* bound on where in a message a recv() ends

VARIABLES sent,        \* by the broker, in order
          start,       \* where each message starts
          written,     \* where the stream ends
          taken,       \* the bytes received
          begin,       \* where buffer begins: the last recv() did
          packet,      \* where the loop is
          recvLength,  \* what is left of the last recv()
          posted,      \* by setBrokerRecvMessage() and the event after it
          clean,       \* those received whole, by a recv() that began with a message
          memory       \* "overrun" once the parser has left its buffers

stream == <<sent, start, written>>
received == <<taken, begin, clean>>
vars == <<stream, received, packet, recvLength, posted, memory>>

Init ==
  /\ sent = <<>> /\ start = <<>> /\ written = 0
  /\ taken = 0 /\ begin = 0 /\ packet = 0 /\ recvLength = 0
  /\ posted = <<>> /\ clean = {} /\ memory = "intact"
-----------------------------------------------------------------------------
(* RemainingLength: up to three digits of seven bits, the lowest first,    *)
(* each but the last with its top bit set, in the arithmetic of 16 bits.   *)

Multiplier == <<1, 128, 16384>>

Size(len) == IF len < 128 THEN 1 ELSE IF len < 16384 THEN 2 ELSE 3

Encode(len) ==
  [k \in 1 .. Size(len) |->
     ((len \div Multiplier[k]) % 128) + (IF k < Size(len) THEN 128 ELSE 0)]

Decode(digits) ==
  LET Value(k) == IF k <= Len(digits) THEN (digits[k] % 128) * Multiplier[k] ELSE 0
  IN  (Value(1) + Value(2) + Value(3)) % 65536
-----------------------------------------------------------------------------
(* Messages on the wire, as MQTT has them.                                 *)

IdLength(m) == IF m.qos = 0 THEN 0 ELSE 2

Remaining(m) ==
  CASE m.type = "PUBLISH" -> 2 + m.topic + IdLength(m) + m.payload
    [] m.type = "PUBACK" -> 2
    [] m.type = "SUBACK" -> 3
    [] m.type = "PINGRESP" -> 0

WireLength(m) ==
  LET len == Remaining(m)
  IN  1 + (IF len < 128 THEN 1 ELSE IF len < 16384 THEN 2 ELSE 3) + len

ASSUME StreamAssumption ==
  /\ Messages \subseteq [type : {"PUBLISH", "PUBACK", "SUBACK", "PINGRESP"},
                         topic : Nat, qos : {0, 1}, payload : Nat]
  /\ \A m \in Messages : WireLength(m) < 65536
  /\ SOCKET_MAXBUFFER_LENGTH \in Nat \ {0} /\ MaxMessages \in Nat /\ MaxCut \in Nat

\* Where the payload is, from the start of the message, and its length.
PayloadOf(m) == <<WireLength(m) - m.payload, m.payload>>

BrokerSends ==
  /\ Len(sent) < MaxMessages
  /\ \E m \in Messages :
       /\ sent' = Append(sent, m)
       /\ start' = Append(start, written)
       /\ written' = written + WireLength(m)
  /\ UNCHANGED <<received, packet, recvLength, posted, memory>>

Index == 1 .. Len(sent)
End(i) == start[i] + WireLength(sent[i])
MessagesAt(p) == {i \in Index : start[i] = p}
-----------------------------------------------------------------------------
(* What the gateway makes of them.                                         *)

\* Mutation: the message id is not skipped.
PayloadReadWithId(m) ==
  LET digits == Encode(Remaining(m)) IN
  <<1 + Len(digits) + 2 + m.topic, (Decode(digits) - m.topic - 4) % 256>>

\* MQTTPublish::deserialize(): always a message id, and 8 bits for _len.
PayloadRead(m) ==
  LET digits == Encode(Remaining(m)) IN
  <<1 + Len(digits) + 2 + m.topic + 2, (Decode(digits) - m.topic - 4) % 256>>

Garbled == [of |-> 0, whole |-> FALSE, payload |-> <<0, 0>>]

Parsed(i) ==
  [of |-> i, whole |-> WireLength(sent[i]) <= recvLength,
   payload |-> IF sent[i].type = "PUBLISH" THEN PayloadRead(sent[i]) ELSE <<0, 0>>]

\* Mutation: one byte of length is taken for granted.
PacketLengthShort(m) == (2 + Decode(Encode(Remaining(m)))) % 65536

PacketLength(m) ==
  LET digits == Encode(Remaining(m)) IN (1 + Len(digits) + Decode(digits)) % 65536

\* Mutation: the loop counts the packet off and stays where it is.
AdvanceNot(length) == recvLength' = recvLength - length /\ packet' = packet

Advance(length) == recvLength' = recvLength - length /\ packet' = packet + length

\* A recv() ends with a message, within its first bytes, or with the buffer.
Ends == {p + c : p \in {start[i] : i \in Index} \cup {written}, c \in 0 .. MaxCut}
        \cup {taken + SOCKET_MAXBUFFER_LENGTH}

Recv ==
  /\ memory = "intact" /\ recvLength <= 0
  /\ \E end \in Ends :
       /\ end - taken \in 1 .. SOCKET_MAXBUFFER_LENGTH /\ end <= written
       /\ taken' = end /\ begin' = taken
       /\ packet' = taken /\ recvLength' = end - taken
       /\ clean' = clean \cup
            {i \in Index : MessagesAt(taken) # {} /\ start[i] >= taken /\ End(i) <= end}
  /\ UNCHANGED <<stream, posted, memory>>

Overrun == memory' = "overrun" /\ UNCHANGED <<packet, recvLength, posted>>

\* How far deserialize() reads a message, from its start.
Reach(m) ==
  IF m.type = "PUBLISH" THEN PayloadRead(m)[1] + PayloadRead(m)[2] ELSE WireLength(m)

\* The most it reads where bytes are missing: three digits, _len of 8 bits.
ReachAtMost(m) == 5 + (IF m.type = "PUBLISH" THEN 1 + m.topic + 255 ELSE 0)

Fits(i) ==
  LET length == IF Parsed(i).whole THEN Reach(sent[i]) ELSE ReachAtMost(sent[i])
  IN  packet + length <= begin + SOCKET_MAXBUFFER_LENGTH

\* One turn of the loop, where a message starts.
ParseMessage ==
  /\ memory = "intact" /\ recvLength > 0
  /\ \E i \in MessagesAt(packet) :
       \/ /\ posted' = Append(posted, Parsed(i))
          /\ Advance(PacketLength(sent[i])) /\ UNCHANGED memory
       \/ ~Fits(i) /\ Overrun
  /\ UNCHANGED <<stream, received>>

(* Turns where none starts: the bytes are of no known type and the loop    *)
(* returns, or make up messages, of which one stands for all, that end     *)
(* where a message starts or beyond what was received, or they have        *)
(* lengths that take the parser out of its buffers.                        *)
ParseGarbled ==
  /\ memory = "intact" /\ recvLength > 0 /\ MessagesAt(packet) = {}
  /\ \/ recvLength' = 0 /\ UNCHANGED <<packet, posted, memory>>
     \/ /\ posted' = Append(posted, Garbled)
        /\ \E length \in {start[i] - packet : i \in Index} \cup {recvLength + 1} :
             length >= 2 /\ Advance(length)
        /\ UNCHANGED memory
     \/ Overrun
  /\ UNCHANGED <<stream, received>>

recvAndFireEvent == Recv \/ ParseMessage \/ ParseGarbled

Next == recvAndFireEvent \/ BrokerSends

Spec == Init /\ [][Next]_vars
-----------------------------------------------------------------------------
PostsOf(i) == {k \in 1 .. Len(posted) : posted[k].of = i}

\* A PUBLISH whose length less topic and message id is below zero.
WrapsLength(m) == m.type = "PUBLISH" /\ m.qos = 0 /\ m.payload < 2

(* The damage of a recv() that splits a message, if it leaves the memory   *)
(* intact, ends with the next recv() that does not: each message that is   *)
(* received whole, by a recv() that began with a message, is posted, whole *)
(* and once, by the end of the loop, whatever was lost before it and on    *)
(* either side of the lengths that take a second digit.                    *)
(* And the memory is overrun only after a recv() that began or ended       *)
(* within a message, or by a PUBLISH of QoS 0 whose payload is shorter     *)
(* than the message id that is taken from it: the buffers hold all else.   *)
Resynchronises ==
  /\ memory = "intact" /\ recvLength <= 0 =>
       \A i \in clean : \E k \in PostsOf(i) : PostsOf(i) = {k} /\ posted[k].whole
  /\ memory = "overrun" =>
       \E i \in Index : start[i] < taken /\ (i \notin clean \/ WrapsLength(sent[i]))

(* Whatever is lost or garbled, what is posted of the messages, as long as *)
(* the memory is intact, is in their order, none of them twice: no PUBACK  *)
(* overtakes another, no PUBLISH is made of bytes that have been used      *)
(* before.                                                                 *)
InOrder ==
  \A k, l \in 1 .. Len(posted) :
    k < l /\ posted[k].of # 0 /\ posted[l].of # 0 => posted[k].of < posted[l].of

(* A PUBLISH of QoS 1 that is posted whole has the payload it was sent     *)
(* with: the length less topic and message id, cut to 8 bits, is right for *)
(* what an MQTT-SN message can hold.                                       *)
PayloadKept ==
  \A k \in 1 .. Len(posted) : posted[k].of # 0 =>
    LET m == sent[posted[k].of] IN
    posted[k].whole /\ m.type = "PUBLISH" /\ m.qos = 1 /\ m.payload <= 255
      => posted[k].payload = PayloadOf(m)

(* The README's "QOS Level 0 and 1": a PUBLISH of QoS 0 keeps its payload  *)
(* too.                                                                    *)
Qos0PayloadKept ==
  \A k \in 1 .. Len(posted) : posted[k].of # 0 =>
    LET m == sent[posted[k].of] IN
    posted[k].whole /\ m.type = "PUBLISH" /\ m.qos = 0 /\ m.payload <= 255
      => posted[k].payload = PayloadOf(m)
=============================================================================
