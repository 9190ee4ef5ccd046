------------------------ MODULE BrokerStream_proofs -------------------------
(***************************************************************************)
(* What recvAndFireEvent() posts, for streams of any messages cut by any   *)
(* recv()s.  The codec gives back every length of 16 bits, so that the     *)
(* loop goes from message to message once it is at the start of one; what  *)
(* it has posted lies before where it stands; and it stands in no message  *)
(* that was received whole, so that only bytes of others are garbled and   *)
(* can take it out of its buffers.                                         *)
(***************************************************************************)
EXTENDS BrokerStream, TLAPS

------------------------------------------------------------------------------
(* The codec, and where things are in a message.                           *)

LEMMA Digits ==
  ASSUME NEW len \in Nat
  PROVE  /\ Len(Encode(len)) = Size(len) /\ Size(len) \in 1 .. 3
         /\ \A k \in 1 .. Size(len) : Encode(len)[k] % 128 = (len \div Multiplier[k]) % 128
<1>1. Size(len) \in 1 .. 3
  BY SMT DEF Size
<1>2. Len(Encode(len)) = Size(len)
  BY <1>1, SMT DEF Encode
<1>3. ASSUME NEW d \in 0 .. 127, NEW x \in {0, 128}
      PROVE  (d + x) % 128 = d
  BY SMT
<1>4. ASSUME NEW k \in 1 .. Size(len)
      PROVE  Encode(len)[k] % 128 = (len \div Multiplier[k]) % 128
  <2>1. Encode(len)[k] = ((len \div Multiplier[k]) % 128) + (IF k < Size(len) THEN 128 ELSE 0)
    BY SMT DEF Encode
  <2>2. Multiplier[k] \in Nat \ {0}
    BY <1>1, SMT DEF Multiplier
  <2>3. (len \div Multiplier[k]) % 128 \in 0 .. 127
    BY <2>2, SMT
  <2> QED BY <1>3, <2>1, <2>3
<1> QED BY <1>1, <1>2, <1>4

(* RemainingLength: decode() gives back what encode() was given, for every *)
(* length of 16 bits.                                                      *)
THEOREM CodecExact == \A len \in Nat : len < 65536 => Decode(Encode(len)) = len
<1> SUFFICES ASSUME NEW len \in Nat, len < 65536
             PROVE  Decode(Encode(len)) = len
  BY SMT
<1> DEFINE e == Encode(len)
           Value(k) == IF k <= Len(e) THEN (e[k] % 128) * Multiplier[k] ELSE 0
<1>1. Decode(e) = (Value(1) + Value(2) + Value(3)) % 65536
  BY SMT DEF Decode
<1>2. Multiplier[1] = 1 /\ Multiplier[2] = 128 /\ Multiplier[3] = 16384
  BY SMT DEF Multiplier
<1>3. /\ Len(e) = Size(len) /\ Size(len) \in 1 .. 3
      /\ \A k \in 1 .. Size(len) : e[k] % 128 = (len \div Multiplier[k]) % 128
  BY Digits
<1> HIDE DEF e
<1>4. Value(1) = len % 128
  BY <1>2, <1>3, SMT
<1>5. Value(2) = IF Size(len) >= 2 THEN ((len \div 128) % 128) * 128 ELSE 0
  BY <1>2, <1>3, SMT
<1>6. Value(3) = IF Size(len) >= 3 THEN ((len \div 16384) % 128) * 16384 ELSE 0
  BY <1>2, <1>3, SMT
<1> HIDE DEF Value
<1>7. CASE len < 128
  BY <1>1, <1>4, <1>5, <1>6, <1>7, SMT DEF Size, e
<1>8. CASE len >= 128 /\ len < 16384
  <2>1. Size(len) = 2
    BY <1>8, SMT DEF Size
  <2>2. (len \div 128) % 128 = len \div 128 /\ len = (len % 128) + (len \div 128) * 128
    BY <1>8, SMT
  <2> QED BY <1>1, <1>4, <1>5, <1>6, <2>1, <2>2, SMT DEF e
<1>9. CASE len >= 16384
  <2>1. Size(len) = 3
    BY <1>9, SMT DEF Size
  <2>2. (len \div 16384) % 128 = len \div 16384
    BY <1>9, SMT
  <2>3. len = (len % 128) + ((len \div 128) % 128) * 128 + (len \div 16384) * 16384
    BY <1>9, SMT
  <2> QED BY <1>1, <1>4, <1>5, <1>6, <2>1, <2>2, <2>3, SMT DEF e
<1> QED BY <1>7, <1>8, <1>9, SMT

LEMMA MessageTypes ==
  ASSUME NEW m \in Messages
  PROVE  /\ m.type \in {"PUBLISH", "PUBACK", "SUBACK", "PINGRESP"} /\ m.qos \in {0, 1}
         /\ m.topic \in Nat /\ m.payload \in Nat /\ WireLength(m) < 65536
BY StreamAssumption

LEMMA Lengths ==
  ASSUME NEW m \in Messages
  PROVE  /\ Remaining(m) \in Nat /\ Remaining(m) < 65536
         /\ WireLength(m) \in Nat /\ WireLength(m) >= 2 /\ WireLength(m) < 65536
         /\ WireLength(m) = 1 + Size(Remaining(m)) + Remaining(m)
         /\ m.type = "PUBLISH" => Remaining(m) = 2 + m.topic + IdLength(m) + m.payload
<1>1. /\ m.type \in {"PUBLISH", "PUBACK", "SUBACK", "PINGRESP"} /\ m.qos \in {0, 1}
      /\ m.topic \in Nat /\ m.payload \in Nat /\ WireLength(m) < 65536
  BY MessageTypes
<1>2. IdLength(m) \in {0, 2}
  BY SMT DEF IdLength
<1>3. /\ Remaining(m) \in Nat
      /\ m.type = "PUBLISH" => Remaining(m) = 2 + m.topic + IdLength(m) + m.payload
  BY <1>1, <1>2, SMT DEF Remaining
<1> QED BY <1>1, <1>3, SMT DEF WireLength, Size

LEMMA PacketIsMessage ==
  ASSUME NEW m \in Messages
  PROVE  PacketLength(m) = WireLength(m)
<1>1. /\ Remaining(m) \in Nat /\ Remaining(m) < 65536
      /\ WireLength(m) \in Nat /\ WireLength(m) < 65536
      /\ WireLength(m) = 1 + Size(Remaining(m)) + Remaining(m)
  BY Lengths
<1>2. Decode(Encode(Remaining(m))) = Remaining(m)
  BY <1>1, CodecExact
<1>3. Len(Encode(Remaining(m))) = Size(Remaining(m))
  BY <1>1, Digits
<1>4. PacketLength(m) = WireLength(m) % 65536
  BY <1>1, <1>2, <1>3 DEF PacketLength
<1> QED BY <1>1, <1>4, SMT

LEMMA PayloadPlace ==
  ASSUME NEW m \in Messages
  PROVE  m.type = "PUBLISH" /\ m.qos = 1 /\ m.payload <= 255 => PayloadRead(m) = PayloadOf(m)
<1> SUFFICES ASSUME m.type = "PUBLISH", m.qos = 1, m.payload <= 255
             PROVE  PayloadRead(m) = PayloadOf(m)
  OBVIOUS
<1> DEFINE r == Remaining(m)
<1>1. /\ r \in Nat /\ r < 65536
      /\ WireLength(m) = 1 + Size(r) + r
      /\ r = 2 + m.topic + 2 + m.payload
  BY Lengths DEF IdLength
<1>2. Decode(Encode(r)) = r
  BY <1>1, CodecExact
<1>3. Len(Encode(r)) = Size(r) /\ Size(r) \in 1 .. 3
  BY <1>1, Digits
<1>4. PayloadRead(m) = <<1 + Size(r) + 2 + m.topic + 2, (r - m.topic - 4) % 256>>
  BY <1>2, <1>3 DEF PayloadRead
<1>5. m.topic \in Nat /\ m.payload \in Nat
  BY MessageTypes
<1> HIDE DEF r
<1>6. (r - m.topic - 4) % 256 = m.payload
  <2>1. r - m.topic - 4 = m.payload
    BY <1>1, <1>5, SMT
  <2> QED BY <1>5, <2>1, SMT
<1>7. WireLength(m) - m.payload = 1 + Size(r) + 2 + m.topic + 2
  <2>1. PICK n \in Nat : Size(r) = n
    BY <1>3
  <2>2. WireLength(m) = 1 + n + r /\ r = 2 + m.topic + 2 + m.payload
    BY <1>1, <2>1
  <2> QED BY <1>5, <2>1, <2>2, SMT
<1> QED BY <1>4, <1>6, <1>7 DEF PayloadOf

\* A message is not read beyond its end, but for a _len that is too long.
LEMMA ReadWithin ==
  ASSUME NEW m \in Messages, ~WrapsLength(m)
  PROVE  Reach(m) \in Int /\ Reach(m) <= WireLength(m)
<1> DEFINE r == Remaining(m)
<1>1. /\ r \in Nat /\ r < 65536 /\ WireLength(m) \in Nat
      /\ WireLength(m) = 1 + Size(r) + r
      /\ m.type = "PUBLISH" => r = 2 + m.topic + IdLength(m) + m.payload
  BY Lengths
<1>2. m.topic \in Nat /\ m.payload \in Nat /\ m.qos \in {0, 1}
  BY MessageTypes
<1>3. CASE m.type # "PUBLISH"
  BY <1>1, <1>3 DEF Reach
<1>4. CASE m.type = "PUBLISH"
  <2>1. Decode(Encode(r)) = r /\ Len(Encode(r)) = Size(r) /\ Size(r) \in 1 .. 3
    BY <1>1, CodecExact, Digits
  <2>2. Reach(m) = 1 + Size(r) + 2 + m.topic + 2 + ((r - m.topic - 4) % 256)
    BY <1>4, <2>1 DEF Reach, PayloadRead
  <2> HIDE DEF r
  <2>3. r - m.topic - 4 \in Nat
    BY <1>1, <1>2, <1>4, SMT DEF WrapsLength, IdLength
  <2>4. \A n \in Nat : n % 256 \in Nat /\ n % 256 <= n
    BY SMT
  <2>5. PICK n \in Nat, l \in Nat : n = Size(r) /\ l = (r - m.topic - 4) % 256
    BY <2>1, <2>3, <2>4
  <2>6. l <= r - m.topic - 4
    BY <2>3, <2>4, <2>5
  <2> QED BY <1>1, <1>2, <2>2, <2>5, <2>6, SMT
<1> QED BY <1>3, <1>4
------------------------------------------------------------------------------
(* The invariant.                                                          *)

Posts == [of : Nat, whole : BOOLEAN, payload : {PayloadRead(m) : m \in Messages} \cup {<<0, 0>>}]

\* The messages follow each other without a gap.
StreamInv ==
  /\ sent \in Seq(Messages) /\ start \in Seq(Nat) /\ Len(start) = Len(sent)
  /\ written \in Nat
  /\ \A i \in Index : End(i) = IF i < Len(sent) THEN start[i + 1] ELSE written
  /\ \A i, j \in Index : i < j => End(i) <= start[j]
  /\ \A i \in Index : End(i) <= written
  /\ \A b \in Nat : b < written => \E i \in Index : start[i] <= b /\ b < End(i)

\* packet and recvLength count the same bytes.
ReaderInv ==
  /\ taken \in Nat /\ packet \in Nat /\ recvLength \in Int
  /\ recvLength > 0 => packet + recvLength = taken
  /\ taken <= written
  /\ taken <= begin + SOCKET_MAXBUFFER_LENGTH /\ begin \in Nat

\* What the next message to be posted cannot start before.
Reached == IF recvLength > 0 THEN packet ELSE taken

PostedInv ==
  /\ posted \in Seq(Posts)
  /\ \A k \in 1 .. Len(posted) : posted[k].of # 0 =>
       /\ posted[k].of \in Index /\ start[posted[k].of] < Reached
       /\ sent[posted[k].of].type = "PUBLISH"
            => posted[k].payload = PayloadRead(sent[posted[k].of])

\* The loop is at the start of a message and has i before it.
Pending(i) ==
  /\ recvLength > 0 /\ MessagesAt(packet) # {}
  /\ start[i] >= packet /\ End(i) <= taken

Done(i) == \E k \in PostsOf(i) : PostsOf(i) = {k} /\ posted[k].whole

CleanInv == clean \subseteq Index /\ \A i \in clean : Done(i) \/ Pending(i)

\* The loop does not stand within a message that was received whole.
OutsideInv ==
  \A i \in clean :
    End(i) <= taken /\ (recvLength > 0 => packet <= start[i] \/ End(i) <= packet)

\* What overran the memory.
OverrunInv ==
  memory # "intact" =>
    \E i \in Index : start[i] < taken /\ (i \notin clean \/ WrapsLength(sent[i]))

IInv ==
  /\ StreamInv /\ ReaderInv /\ PostedInv /\ InOrder /\ CleanInv
  /\ OutsideInv /\ OverrunInv
------------------------------------------------------------------------------
USE DEF Index

LEMMA IndexTypes ==
  ASSUME StreamInv
  PROVE  /\ Len(sent) \in Nat
         /\ \A i \in Index : /\ sent[i] \in Messages /\ start[i] \in Nat
                             /\ WireLength(sent[i]) \in Nat /\ WireLength(sent[i]) >= 2
                             /\ End(i) \in Nat /\ End(i) > start[i]
<1>1. /\ Len(sent) \in Nat
      /\ \A i \in Index : sent[i] \in Messages /\ start[i] \in Nat
  BY DEF StreamInv
<1>2. \A i \in Index : WireLength(sent[i]) \in Nat /\ WireLength(sent[i]) >= 2
  BY <1>1, Lengths
<1> QED BY <1>1, <1>2 DEF End

(* The broker's messages only add to the stream.                           *)
LEMMA SendKeeps ==
  ASSUME IInv, BrokerSends
  PROVE  IInv'
<1>1. PICK m \in Messages : /\ sent' = Append(sent, m)
                            /\ start' = Append(start, written)
                            /\ written' = written + WireLength(m)
  BY DEF BrokerSends
<1>2. UNCHANGED <<taken, begin, packet, recvLength, posted, clean, memory>>
  BY DEF BrokerSends, received
<1>3. /\ sent \in Seq(Messages) /\ start \in Seq(Nat) /\ Len(start) = Len(sent)
      /\ written \in Nat /\ Len(sent) \in Nat
  BY DEF IInv, StreamInv
<1>4. WireLength(m) \in Nat /\ WireLength(m) >= 2
  BY Lengths
<1>0. PICK n \in Nat : n = Len(sent)
  BY <1>3
<1>5. /\ sent' \in Seq(Messages) /\ start' \in Seq(Nat) /\ written' \in Nat
      /\ Len(sent') = n + 1 /\ Len(start') = n + 1
      /\ sent'[n + 1] = m /\ start'[n + 1] = written
      /\ \A i \in 1 .. n : sent'[i] = sent[i] /\ start'[i] = start[i]
  BY <1>0, <1>1, <1>3, <1>4
<1>6. \A i \in 1 .. n : End(i)' = End(i) /\ End(i) \in Nat /\ start[i] \in Nat
  <2>1. \A i \in 1 .. n : End(i) \in Nat /\ start[i] \in Nat
    BY <1>0, IndexTypes DEF IInv
  <2> QED BY <1>5, <2>1 DEF End
<1>7. End(n + 1)' = written'
  BY <1>1, <1>5 DEF End
<1>8. StreamInv'
  <2>1. \A i \in Index' : End(i)' = IF i < Len(sent') THEN start'[i + 1] ELSE written'
    <3> SUFFICES ASSUME NEW i \in 1 .. n
                 PROVE  End(i)' = start'[i + 1]
      BY <1>5, <1>7
    <3>1. End(i) = IF i < n THEN start[i + 1] ELSE written
      BY <1>0 DEF IInv, StreamInv
    <3> QED BY <1>3, <1>5, <1>6, <3>1
  <2>2. \A i, j \in Index' : i < j => End(i)' <= start'[j]
    <3> SUFFICES ASSUME NEW i \in 1 .. n + 1, NEW j \in 1 .. n + 1, i < j
                 PROVE  End(i)' <= start'[j]
      BY <1>5
    <3>1. i \in 1 .. n
      BY <1>3
    <3>2. End(i) <= written /\ (j \in 1 .. n => End(i) <= start[j])
      BY <1>0, <3>1 DEF IInv, StreamInv
    <3>3. CASE j \in 1 .. n
      BY <1>5, <1>6, <3>1, <3>2, <3>3
    <3>4. CASE j = n + 1
      BY <1>5, <1>6, <3>1, <3>2, <3>4
    <3> QED BY <3>3, <3>4
  <2>3. \A i \in Index' : End(i)' <= written'
    <3>1. \A i \in 1 .. n : End(i) <= written
      BY <1>0 DEF IInv, StreamInv
    <3> QED BY <1>1, <1>3, <1>4, <1>5, <1>6, <1>7, <3>1
  <2>4. \A b \in Nat : b < written' => \E i \in Index' : start'[i] <= b /\ b < End(i)'
    <3> SUFFICES ASSUME NEW b \in Nat, b < written'
                 PROVE  \E i \in Index' : start'[i] <= b /\ b < End(i)'
      OBVIOUS
    <3>1. CASE b < written
      <4>1. PICK i \in 1 .. n : start[i] <= b /\ b < End(i)
        BY <1>0, <3>1 DEF IInv, StreamInv
      <4>2. i \in Index' /\ start'[i] <= b /\ b < End(i)'
        BY <1>5, <1>6, <4>1
      <4> QED BY <4>2
    <3>2. CASE ~(b < written)
      <4>1. n + 1 \in Index' /\ start'[n + 1] <= b
        BY <1>3, <1>5, <3>2
      <4> QED BY <1>7, <4>1
    <3> QED BY <3>1, <3>2
  <2> QED BY <1>5, <2>1, <2>2, <2>3, <2>4 DEF StreamInv
<1>9. ReaderInv'
  BY <1>1, <1>2, <1>3, <1>4 DEF IInv, ReaderInv
<1>10. PostedInv'
  <2>1. Reached' = Reached
    BY <1>2 DEF Reached
  <2>2. \A k \in 1 .. Len(posted) : posted[k].of # 0 => posted[k].of \in 1 .. n
    BY <1>0 DEF IInv, PostedInv
  <2>3. ASSUME NEW k \in 1 .. Len(posted), posted[k].of # 0
        PROVE  /\ posted[k].of \in Index' /\ start'[posted[k].of] < Reached'
               /\ sent'[posted[k].of].type = "PUBLISH"
                    => posted[k].payload = PayloadRead(sent'[posted[k].of])
    <3>1. /\ start[posted[k].of] < Reached
          /\ sent[posted[k].of].type = "PUBLISH"
               => posted[k].payload = PayloadRead(sent[posted[k].of])
      BY <2>3 DEF IInv, PostedInv
    <3>2. posted[k].of \in 1 .. n
      BY <2>2, <2>3
    <3>3. posted[k].of \in Index'
      BY <1>5, <3>2
    <3> QED BY <1>5, <2>1, <3>1, <3>2, <3>3
  <2>4. posted' = posted /\ posted \in Seq(Posts)
    BY <1>2 DEF IInv, PostedInv
  <2> QED BY <2>3, <2>4 DEF PostedInv
<1>11. InOrder'
  BY <1>2 DEF IInv, InOrder
<1>12. CleanInv'
  <2> SUFFICES ASSUME NEW i \in clean
               PROVE  i \in Index' /\ (Done(i)' \/ Pending(i)')
    BY <1>2 DEF CleanInv
  <2>1. i \in 1 .. n /\ (Done(i) \/ Pending(i))
    BY <1>0 DEF IInv, CleanInv
  <2>2. Done(i) => Done(i)'
    BY <1>2 DEF Done, PostsOf
  <2>3. ASSUME Pending(i)
        PROVE  Pending(i)'
    <3>1. MessagesAt(packet)' # {}
      <4>1. PICK j \in 1 .. n : start[j] = packet
        BY <1>0, <2>3 DEF Pending, MessagesAt
      <4>2. j \in Index' /\ start'[j] = packet'
        BY <1>2, <1>5, <4>1
      <4> QED BY <4>2 DEF MessagesAt
    <3> QED BY <1>2, <1>5, <1>6, <2>1, <2>3, <3>1 DEF Pending
  <2> QED BY <1>3, <1>5, <2>1, <2>2, <2>3
<1>13. OutsideInv'
  <2> SUFFICES ASSUME NEW i \in clean
               PROVE  /\ End(i)' <= taken
                      /\ recvLength > 0 => packet <= start'[i] \/ End(i)' <= packet
    BY <1>2 DEF OutsideInv
  <2>1. i \in 1 .. n
    BY <1>0 DEF IInv, CleanInv
  <2> QED BY <1>5, <1>6, <2>1 DEF IInv, OutsideInv
<1>14. OverrunInv'
  <2> SUFFICES ASSUME memory # "intact"
               PROVE  \E i \in Index' : /\ start'[i] < taken
                                        /\ i \notin clean \/ WrapsLength(sent'[i])
    BY <1>2 DEF OverrunInv
  <2>1. PICK i \in 1 .. n : start[i] < taken /\ (i \notin clean \/ WrapsLength(sent[i]))
    BY <1>0 DEF IInv, OverrunInv
  <2>2. i \in Index' /\ sent'[i] = sent[i] /\ start'[i] = start[i]
    BY <1>5, <2>1
  <2> QED BY <2>1, <2>2
<1> QED BY <1>8, <1>9, <1>10, <1>11, <1>12, <1>13, <1>14 DEF IInv

LEMMA RecvKeeps ==
  ASSUME IInv, Recv
  PROVE  IInv'
<1>1. /\ recvLength <= 0 /\ UNCHANGED <<sent, start, written, posted, memory>>
      /\ memory = "intact" /\ recvLength \in Int /\ taken \in Nat /\ written \in Nat
  BY DEF Recv, stream, IInv, ReaderInv, StreamInv
<1>2. PICK end \in Ends :
        /\ end - taken \in 1 .. SOCKET_MAXBUFFER_LENGTH /\ end <= written
        /\ taken' = end /\ begin' = taken
        /\ packet' = taken /\ recvLength' = end - taken
        /\ clean' = clean \cup
             {i \in Index : MessagesAt(taken) # {} /\ start[i] >= taken /\ End(i) <= end}
  BY DEF Recv
<1>3. end \in Nat /\ end > taken
  <2>1. end \in Int
    <3>1. \A p \in {start[i] : i \in Index} \cup {written} : p \in Nat
      BY IndexTypes, <1>1 DEF IInv
    <3>2. SOCKET_MAXBUFFER_LENGTH \in Nat /\ MaxCut \in Nat
      BY StreamAssumption
    <3>3. CASE end = taken + SOCKET_MAXBUFFER_LENGTH
      BY <1>1, <3>2, <3>3
    <3>4. CASE end # taken + SOCKET_MAXBUFFER_LENGTH
      <4>1. PICK p \in {start[i] : i \in Index} \cup {written}, c \in 0 .. MaxCut : end = p + c
        BY <3>4 DEF Ends
      <4> QED BY <3>1, <3>2, <4>1
    <3> QED BY <3>3, <3>4
  <2>2. SOCKET_MAXBUFFER_LENGTH \in Nat
    BY StreamAssumption
  <2> QED BY <1>1, <1>2, <2>1, <2>2
<1>4. StreamInv'
  BY <1>1 DEF IInv, StreamInv, End
<1>5. ReaderInv'
  BY <1>1, <1>2, <1>3, StreamAssumption DEF ReaderInv
<1>6. Reached' = Reached
  BY <1>1, <1>2, <1>3 DEF Reached
<1>7. PostedInv' /\ InOrder'
  BY <1>1, <1>6 DEF IInv, PostedInv, InOrder
<1>8. CleanInv'
  <2>1. ASSUME NEW i \in clean
        PROVE  i \in Index /\ Done(i)'
    <3>1. i \in Index /\ Done(i)
      BY <1>1 DEF IInv, CleanInv, Pending
    <3> QED BY <1>1, <3>1 DEF Done, PostsOf
  <2>2. ASSUME NEW i \in Index, MessagesAt(taken) # {}, start[i] >= taken, End(i) <= end
        PROVE  Pending(i)'
    <3>1. MessagesAt(packet)' # {}
      BY <1>1, <1>2, <2>2 DEF MessagesAt
    <3>2. End(i)' = End(i)
      BY <1>1 DEF End
    <3> QED BY <1>1, <1>2, <1>3, <2>2, <3>1, <3>2 DEF Pending
  <2>3. Index' = Index
    BY <1>1
  <2> QED BY <1>2, <2>1, <2>2, <2>3 DEF CleanInv
<1>9. OutsideInv'
  <2>1. ASSUME NEW i \in clean
        PROVE  End(i)' <= taken
    BY <1>1, <2>1 DEF IInv, OutsideInv, End
  <2>2. ASSUME NEW i \in Index, start[i] >= taken, End(i) <= end
        PROVE  End(i)' <= taken' /\ packet' <= start'[i]
    BY <1>1, <1>2, <2>2 DEF End
  <2>3. \A i \in clean : i \in Index
    BY DEF IInv, CleanInv
  <2>4. \A i \in Index : End(i)' \in Nat
    BY <1>1, IndexTypes DEF IInv, End
  <2> QED BY <1>1, <1>2, <1>3, <2>1, <2>2, <2>3, <2>4 DEF OutsideInv
<1>10. OverrunInv'
  BY <1>1 DEF OverrunInv
<1> QED BY <1>4, <1>5, <1>7, <1>8, <1>9, <1>10 DEF IInv

(* A post keeps the order when it starts where nothing has been reached.   *)
LEMMA PostKeeps ==
  ASSUME IInv, UNCHANGED <<sent, start, written>>,
         NEW p \in Posts, posted' = Append(posted, p), Reached' >= Reached,
         Reached \in Int, Reached' \in Int,
         p.of # 0 => /\ p.of \in Index /\ start[p.of] >= Reached /\ start[p.of] < Reached'
                     /\ sent[p.of].type = "PUBLISH" => p.payload = PayloadRead(sent[p.of])
  PROVE  /\ PostedInv' /\ InOrder'
         /\ \A i \in Index :
              /\ start[i] >= Reached => PostsOf(i) = {}
              /\ PostsOf(i)' = IF p.of = i THEN PostsOf(i) \cup {Len(posted) + 1} ELSE PostsOf(i)
         /\ \A k \in 1 .. Len(posted) : posted'[k] = posted[k]
         /\ posted'[Len(posted) + 1] = p
<1>1. /\ posted \in Seq(Posts) /\ StreamInv /\ PostedInv
      /\ \A i \in Index : start[i] \in Nat
  BY IndexTypes DEF IInv, PostedInv
<1>2. PICK n \in Nat : n = Len(posted)
  BY <1>1
<1>3. /\ posted' \in Seq(Posts) /\ Len(posted') = n + 1 /\ posted'[n + 1] = p
      /\ \A k \in 1 .. n : posted'[k] = posted[k]
  BY <1>1, <1>2
<1>4. ASSUME NEW k \in 1 .. n, posted[k].of # 0
      PROVE  /\ posted[k].of \in Index /\ start[posted[k].of] < Reached
             /\ sent[posted[k].of].type = "PUBLISH"
                  => posted[k].payload = PayloadRead(sent[posted[k].of])
  BY <1>1, <1>2, <1>4 DEF PostedInv
<1>5. PostedInv'
  <2> SUFFICES ASSUME NEW k \in 1 .. n + 1, posted'[k].of # 0
               PROVE  /\ posted'[k].of \in Index' /\ start'[posted'[k].of] < Reached'
                      /\ sent'[posted'[k].of].type = "PUBLISH"
                           => posted'[k].payload = PayloadRead(sent'[posted'[k].of])
    BY <1>3 DEF PostedInv
  <2>1. CASE k \in 1 .. n
    BY <1>1, <1>3, <1>4, <2>1
  <2>2. CASE k = n + 1
    BY <1>3, <2>2
  <2>3. k \in 1 .. n \/ k = n + 1
    BY <1>2
  <2> QED BY <2>1, <2>2, <2>3
<1>6. InOrder'
  <2> SUFFICES ASSUME NEW k \in 1 .. n + 1, NEW l \in 1 .. n + 1, k < l,
                      posted'[k].of # 0, posted'[l].of # 0
               PROVE  posted'[k].of < posted'[l].of
    BY <1>3 DEF InOrder
  <2>0. k \in 1 .. n
    BY <1>2
  <2>1. CASE l \in 1 .. n
    BY <1>2, <1>3, <2>0, <2>1 DEF IInv, InOrder
  <2>2. CASE l = n + 1
    <3> DEFINE a == posted[k].of
    <3>1. a \in Index /\ start[a] < start[p.of] /\ p.of \in Index
      <4>1. posted[k].of # 0 /\ p.of # 0
        BY <1>3, <2>0, <2>2
      <4>2. a \in Index /\ start[a] < Reached
        BY <1>4, <2>0, <4>1
      <4>3. p.of \in Index /\ start[p.of] >= Reached
        BY <4>1
      <4>4. start[a] \in Nat /\ start[p.of] \in Nat
        BY <1>1, <4>2, <4>3
      <4>5. PICK x \in Nat, y \in Nat, z \in Int : x = start[a] /\ y = start[p.of] /\ z = Reached
        BY <4>4
      <4>6. x < z /\ y >= z
        BY <4>2, <4>3, <4>5
      <4>7. x < y
        BY <4>6
      <4> QED BY <4>2, <4>3, <4>5, <4>7
    <3>2. End(p.of) > start[p.of] /\ (p.of < a => End(p.of) <= start[a])
      BY <1>1, <3>1, IndexTypes DEF StreamInv
    <3>3. End(p.of) \in Nat /\ start[a] \in Nat /\ start[p.of] \in Nat /\ Len(sent) \in Nat
      BY <1>1, <3>1, IndexTypes
    <3>4. ~(p.of < a) /\ p.of # a
      BY <3>1, <3>2, <3>3
    <3> QED BY <1>3, <2>0, <2>2, <3>1, <3>3, <3>4
  <2>3. l \in 1 .. n \/ l = n + 1
    BY <1>2
  <2> QED BY <2>1, <2>2, <2>3
<1>7. ASSUME NEW i \in Index, start[i] >= Reached
      PROVE  PostsOf(i) = {}
  <2>1. \A k \in 1 .. n : posted[k].of # i
    <3> SUFFICES ASSUME NEW k \in 1 .. n, posted[k].of = i
                 PROVE  FALSE
      OBVIOUS
    <3>1. i # 0 /\ start[i] \in Nat
      BY <1>1
    <3> QED BY <1>4, <1>7, <3>1
  <2> QED BY <1>2, <2>1 DEF PostsOf
<1>8. ASSUME NEW i \in Index
      PROVE  PostsOf(i)' = IF p.of = i THEN PostsOf(i) \cup {n + 1} ELSE PostsOf(i)
  <2>1. PostsOf(i)' = {k \in 1 .. n + 1 : posted'[k].of = i}
    BY <1>3 DEF PostsOf
  <2>2. PostsOf(i) = {k \in 1 .. n : posted[k].of = i}
    BY <1>2 DEF PostsOf
  <2>3. \A k \in 1 .. n + 1 : k \in 1 .. n \/ k = n + 1
    OBVIOUS
  <2>4. \A k \in 1 .. n : k \in 1 .. n + 1
    OBVIOUS
  <2> QED BY <1>3, <2>1, <2>2, <2>3, <2>4
<1> QED BY <1>2, <1>3, <1>5, <1>6, <1>7, <1>8

(* One turn at the start of a message.                                     *)
LEMMA ParseMessageKeeps ==
  ASSUME IInv, ParseMessage, memory' = "intact"
  PROVE  IInv'
<1>1. /\ recvLength > 0 /\ UNCHANGED <<sent, start, written, taken, begin, clean>>
      /\ recvLength \in Int /\ taken \in Nat /\ packet \in Nat /\ written \in Nat
      /\ packet + recvLength = taken /\ taken <= written /\ Len(sent) \in Nat
  BY IndexTypes DEF ParseMessage, stream, received, IInv, ReaderInv, StreamInv
<1>2. PICK j \in MessagesAt(packet) :
        /\ posted' = Append(posted, Parsed(j))
        /\ Advance(PacketLength(sent[j]))
  BY DEF ParseMessage, Overrun
<1>3. j \in Index /\ start[j] = packet
  BY <1>2 DEF MessagesAt
<1> DEFINE w == WireLength(sent[j])
<1>4. /\ sent[j] \in Messages /\ w \in Nat /\ w >= 2
      /\ End(j) = packet + w
  BY <1>3, IndexTypes DEF IInv, End
<1>5. recvLength' = recvLength - w /\ packet' = packet + w
  BY <1>2, <1>4, PacketIsMessage DEF Advance
<1> HIDE DEF w
<1>6. StreamInv'
  BY <1>1 DEF IInv, StreamInv, End
<1>7. ReaderInv'
  BY <1>1, <1>4, <1>5 DEF IInv, ReaderInv
<1>8. /\ Reached = packet /\ Reached \in Int /\ Reached' \in Int
      /\ Reached' > packet
  BY <1>1, <1>4, <1>5 DEF Reached
<1> DEFINE p == Parsed(j)
<1>9. /\ p \in Posts /\ p.of = j /\ p.whole = (w <= recvLength)
      /\ sent[j].type = "PUBLISH" => p.payload = PayloadRead(sent[j])
  BY <1>1, <1>3, <1>4 DEF Parsed, Posts, w
<1> HIDE DEF p
<1>10. /\ PostedInv' /\ InOrder'
       /\ \A i \in Index :
            /\ start[i] >= Reached => PostsOf(i) = {}
            /\ PostsOf(i)' = IF p.of = i THEN PostsOf(i) \cup {Len(posted) + 1} ELSE PostsOf(i)
       /\ \A k \in 1 .. Len(posted) : posted'[k] = posted[k]
       /\ posted'[Len(posted) + 1] = p
  <2>1. p.of # 0 => /\ p.of \in Index /\ start[p.of] >= Reached /\ start[p.of] < Reached'
                    /\ sent[p.of].type = "PUBLISH" => p.payload = PayloadRead(sent[p.of])
    BY <1>1, <1>3, <1>8, <1>9
  <2>2. Reached' >= Reached /\ posted' = Append(posted, p)
    BY <1>2, <1>8 DEF p
  <2> QED BY <1>1, <1>8, <1>9, <2>1, <2>2, PostKeeps
<1>11. CleanInv'
  <2> SUFFICES ASSUME NEW i \in clean
               PROVE  i \in Index /\ (Done(i)' \/ Pending(i)')
    BY <1>1 DEF CleanInv
  <2>1. i \in Index /\ (Done(i) \/ Pending(i))
    BY DEF IInv, CleanInv
  <2>2. CASE i = j
    <3>1. PostsOf(i)' = {Len(posted) + 1} /\ posted'[Len(posted) + 1] = p
      BY <1>3, <1>8, <1>9, <1>10, <2>2
    <3>2. Pending(i)
      <4>1. PostsOf(i) = {}
        BY <1>3, <1>8, <1>10, <2>2
      <4> QED BY <2>1, <4>1 DEF Done
    <3>3. p.whole
      <4>1. End(j) <= taken /\ packet + recvLength = taken
        BY <1>1, <2>2, <3>2 DEF Pending, IInv, ReaderInv
      <4>2. w <= recvLength
        BY <1>1, <1>4, <4>1
      <4> QED BY <1>9, <4>2
    <3> QED BY <2>1, <3>1, <3>3 DEF Done
  <2>3. CASE i # j
    <3>1. PostsOf(i)' = PostsOf(i)
      BY <1>9, <1>10, <2>1, <2>3
    <3>2. ASSUME Done(i)
          PROVE  Done(i)'
      <4>1. PICK k \in PostsOf(i) : PostsOf(i) = {k} /\ posted[k].whole
        BY <3>2 DEF Done
      <4>2. posted'[k] = posted[k]
        BY <1>10, <4>1 DEF PostsOf
      <4> QED BY <3>1, <4>1, <4>2 DEF Done
    <3>3. ASSUME Pending(i)
          PROVE  Pending(i)'
      <4>1. /\ start[i] >= packet /\ End(i) <= taken
            /\ start[i] \in Nat /\ End(i) \in Nat /\ End(i) > start[i]
        BY <2>1, <3>3, IndexTypes DEF Pending, IInv
      <4>2. j < i
        <5>1. i < j => End(i) <= start[j]
          BY <1>3, <2>1 DEF IInv, StreamInv
        <5> QED BY <1>1, <1>3, <2>1, <2>3, <4>1, <5>1
      <4>3. End(j) = start[j + 1] /\ j + 1 \in Index
        BY <1>1, <1>3, <2>1, <4>2 DEF IInv, StreamInv
      <4>4. End(j) <= start[i]
        BY <1>3, <2>1, <4>2 DEF IInv, StreamInv
      <4>5. packet' = start[j + 1] /\ recvLength' > 0 /\ start[i] >= packet'
        BY <1>1, <1>4, <1>5, <4>1, <4>3, <4>4
      <4>6. j + 1 \in MessagesAt(packet)'
        BY <1>1, <4>3, <4>5 DEF MessagesAt
      <4>7. End(i)' = End(i)
        BY <1>1 DEF End
      <4> QED BY <1>1, <4>1, <4>5, <4>6, <4>7 DEF Pending
    <3> QED BY <2>1, <3>2, <3>3
  <2> QED BY <2>2, <2>3
<1>12. OutsideInv'
  <2> SUFFICES ASSUME NEW i \in clean
               PROVE  End(i) <= taken /\ (packet' <= start[i] \/ End(i) <= packet')
    BY <1>1 DEF OutsideInv, End
  <2>1. i \in Index /\ End(i) <= taken
    BY DEF IInv, CleanInv, OutsideInv
  <2>2. packet' = End(j)
    BY <1>4, <1>5
  <2>3. CASE i < j
    <3>1. End(i) <= start[j] /\ End(i) \in Nat
      BY <1>3, <2>1, <2>3, IndexTypes DEF IInv, StreamInv
    <3> QED BY <1>1, <1>3, <1>4, <2>1, <2>2, <3>1
  <2>4. CASE j < i
    BY <1>3, <2>1, <2>2, <2>4 DEF IInv, StreamInv
  <2>5. CASE i = j
    <3>1. End(i) \in Nat
      BY <2>1, IndexTypes DEF IInv
    <3> QED BY <2>1, <2>2, <2>5, <3>1
  <2>6. i \in Int /\ j \in Int
    BY <1>1, <1>3, <2>1
  <2> QED BY <2>3, <2>4, <2>5, <2>6
<1>13. OverrunInv'
  BY DEF OverrunInv
<1> QED BY <1>6, <1>7, <1>10, <1>11, <1>12, <1>13 DEF IInv

(* A turn in the middle of a message is behind all that is pending.        *)
LEMMA ParseGarbledKeeps ==
  ASSUME IInv, ParseGarbled, memory' = "intact"
  PROVE  IInv'
<1>1. /\ recvLength > 0 /\ UNCHANGED <<sent, start, written, taken, begin, clean>>
      /\ recvLength \in Int /\ taken \in Nat /\ packet \in Nat /\ written \in Nat
      /\ packet + recvLength = taken /\ taken <= written /\ MessagesAt(packet) = {}
  BY DEF ParseGarbled, stream, received, IInv, ReaderInv, StreamInv
<1>2. StreamInv'
  BY <1>1 DEF IInv, StreamInv, End
<1>3. \A i \in clean : i \in Index /\ Done(i) /\ End(i) <= taken
  BY <1>1 DEF IInv, CleanInv, Pending, OutsideInv
<1>0. OverrunInv'
  BY DEF OverrunInv
<1>4. CASE recvLength' = 0 /\ UNCHANGED <<packet, posted>>
  <2>1. ReaderInv'
    BY <1>1, <1>4 DEF IInv, ReaderInv
  <2>2. Reached' = taken /\ Reached = packet /\ packet < taken
    BY <1>1, <1>4 DEF Reached
  <2>3. PostedInv'
    <3>1. \A i \in Index : start[i] \in Nat /\ (start[i] < packet => start[i] < taken)
      BY <1>1, IndexTypes DEF IInv
    <3> QED BY <1>1, <1>4, <2>2, <3>1 DEF IInv, PostedInv
  <2>4. InOrder' /\ CleanInv'
    BY <1>1, <1>3, <1>4 DEF IInv, InOrder, CleanInv, Done, PostsOf
  <2>5. OutsideInv'
    BY <1>1, <1>3, <1>4 DEF OutsideInv, End
  <2> QED BY <1>0, <1>2, <2>1, <2>3, <2>4, <2>5 DEF IInv
<1>5. CASE /\ posted' = Append(posted, Garbled)
           /\ \E length \in {start[i] - packet : i \in Index} \cup {recvLength + 1} :
                length >= 2 /\ Advance(length)
  <2>1. PICK length \in {start[i] - packet : i \in Index} \cup {recvLength + 1} :
          length >= 2 /\ recvLength' = recvLength - length /\ packet' = packet + length
    BY <1>5 DEF Advance
  <2>2. length \in Int
    BY <1>1, <2>1, IndexTypes DEF IInv
  <2>3. ReaderInv'
    BY <1>1, <2>1, <2>2 DEF IInv, ReaderInv
  <2>4. /\ Reached = packet /\ Reached \in Int /\ Reached' \in Int /\ Reached' >= packet
    BY <1>1, <2>1, <2>2 DEF Reached
  <2>5. Garbled \in Posts /\ Garbled.of = 0
    BY DEF Garbled, Posts
  <2>6. /\ PostedInv' /\ InOrder'
        /\ \A i \in Index :
             PostsOf(i)' = IF Garbled.of = i THEN PostsOf(i) \cup {Len(posted) + 1} ELSE PostsOf(i)
        /\ \A k \in 1 .. Len(posted) : posted'[k] = posted[k]
    BY <1>1, <1>5, <2>4, <2>5, PostKeeps
  <2>7. CleanInv'
    <3> SUFFICES ASSUME NEW i \in clean
                 PROVE  i \in Index /\ Done(i)'
      BY <1>1 DEF CleanInv
    <3>1. i \in Index /\ i # 0 /\ Done(i)
      BY <1>3
    <3>2. PostsOf(i)' = PostsOf(i)
      BY <2>5, <2>6, <3>1
    <3>3. PICK k \in PostsOf(i) : PostsOf(i) = {k} /\ posted[k].whole
      BY <3>1 DEF Done
    <3>4. posted'[k] = posted[k]
      BY <2>6, <3>3 DEF PostsOf
    <3> QED BY <3>1, <3>2, <3>3, <3>4 DEF Done
  <2>8. OutsideInv'
    <3> SUFFICES ASSUME NEW i \in clean, recvLength' > 0
                 PROVE  packet' <= start[i] \/ End(i) <= packet'
      BY <1>1, <1>3 DEF OutsideInv, End
    <3>1. PICK j \in Index : length = start[j] - packet
      BY <1>1, <2>1
    <3>2. /\ i \in Index /\ start[i] \in Nat /\ start[j] \in Nat
          /\ i \in Int /\ j \in Int
      BY <1>3, IndexTypes DEF IInv
    <3>3. packet' = start[j]
      BY <1>1, <2>1, <3>1, <3>2
    <3>4. i < j => End(i) <= start[j]
      BY <3>2 DEF IInv, StreamInv
    <3>5. j < i => start[j] <= start[i]
      <4>1. j < i => End(j) <= start[i] /\ End(j) > start[j] /\ End(j) \in Nat
        BY <3>2, IndexTypes DEF IInv, StreamInv
      <4> QED BY <3>2, <4>1
    <3> QED BY <3>2, <3>3, <3>4, <3>5
  <2> QED BY <1>0, <1>2, <2>3, <2>6, <2>7, <2>8 DEF IInv
<1> QED BY <1>4, <1>5 DEF ParseGarbled, Overrun

(* What takes the parser out of its buffers is not a message that was      *)
(* received whole, unless its length wraps.                                *)
LEMMA OverrunKeeps ==
  ASSUME IInv, ParseMessage \/ ParseGarbled, memory' # "intact"
  PROVE  IInv'
<1>1. /\ UNCHANGED <<sent, start, written, taken, begin, clean, packet, recvLength, posted>>
      /\ recvLength > 0 /\ memory = "intact"
  BY DEF ParseMessage, ParseGarbled, Overrun, stream, received
<1>2. /\ recvLength \in Int /\ taken \in Nat /\ packet \in Nat /\ begin \in Nat
      /\ packet + recvLength = taken /\ taken <= written /\ written \in Nat
      /\ taken <= begin + SOCKET_MAXBUFFER_LENGTH /\ SOCKET_MAXBUFFER_LENGTH \in Nat
  BY <1>1, StreamAssumption DEF IInv, ReaderInv, StreamInv
<1>3. \E i \in Index : start[i] < taken /\ (i \notin clean \/ WrapsLength(sent[i]))
  <2>1. CASE ParseMessage
    <3>1. PICK i \in MessagesAt(packet) : ~Fits(i)
      BY <1>1, <2>1 DEF ParseMessage, Overrun
    <3>2. /\ i \in Index /\ start[i] = packet /\ sent[i] \in Messages
          /\ WireLength(sent[i]) \in Nat /\ End(i) = packet + WireLength(sent[i])
      BY <3>1, IndexTypes DEF MessagesAt, IInv, End
    <3>3. start[i] < taken
      BY <1>1, <1>2, <3>2
    <3>4. CASE WireLength(sent[i]) <= recvLength /\ ~WrapsLength(sent[i])
      <4>1. Reach(sent[i]) \in Int /\ Reach(sent[i]) <= WireLength(sent[i])
        BY <3>2, <3>4, ReadWithin
      <4>2. packet + Reach(sent[i]) <= begin + SOCKET_MAXBUFFER_LENGTH
        BY <1>2, <3>2, <3>4, <4>1
      <4> QED BY <3>1, <3>4, <4>2 DEF Fits, Parsed
    <3>5. CASE ~(WireLength(sent[i]) <= recvLength)
      <4>1. End(i) > taken /\ End(i) \in Int
        BY <1>2, <3>2, <3>5
      <4>2. i \notin clean
        BY <1>2, <4>1 DEF IInv, OutsideInv
      <4> QED BY <3>2, <3>3, <4>2
    <3> QED BY <3>2, <3>3, <3>4, <3>5
  <2>2. CASE ParseGarbled
    <3>1. packet < written
      BY <1>1, <1>2
    <3>2. PICK i \in Index : start[i] <= packet /\ packet < End(i)
      BY <1>2, <3>1 DEF IInv, StreamInv
    <3>3. start[i] # packet /\ start[i] \in Nat /\ End(i) \in Nat
      BY <2>2, <3>2, IndexTypes DEF ParseGarbled, MessagesAt, IInv
    <3>4. i \notin clean
      BY <1>1, <1>2, <3>2, <3>3 DEF IInv, OutsideInv
    <3> QED BY <1>1, <1>2, <3>2, <3>3, <3>4
  <2> QED BY <2>1, <2>2
<1>4. OverrunInv'
  BY <1>1, <1>3 DEF OverrunInv
<1>5. (StreamInv /\ ReaderInv /\ PostedInv /\ InOrder /\ CleanInv /\ OutsideInv)'
  BY <1>1 DEF IInv, StreamInv, End, ReaderInv, PostedInv, Reached, InOrder, CleanInv, Done,
              Pending, PostsOf, MessagesAt, OutsideInv
<1> QED BY <1>4, <1>5 DEF IInv

LEMMA Start == Init => IInv
BY StreamAssumption
   DEF Init, IInv, StreamInv, ReaderInv, PostedInv, InOrder, CleanInv, OutsideInv, OverrunInv

LEMMA Step == IInv /\ [Next]_vars => IInv'
<1> SUFFICES ASSUME IInv, [Next]_vars
             PROVE  IInv'
  OBVIOUS
<1>1. CASE UNCHANGED vars
  BY <1>1 DEF vars, stream, received, IInv, StreamInv, End, ReaderInv, PostedInv, Reached,
              InOrder, CleanInv, Done, Pending, PostsOf, MessagesAt, OutsideInv, OverrunInv
<1> QED BY <1>1, SendKeeps, RecvKeeps, ParseMessageKeeps, ParseGarbledKeeps, OverrunKeeps
        DEF Next, recvAndFireEvent

(* recvAndFireEvent(): what is received whole, by a recv() that began with *)
(* a message, is posted whole and once when the loop ends, as long as the  *)
(* memory is intact; and only what a recv() has split, or the length of a  *)
(* short PUBLISH of QoS 0, takes the parser out of its buffers.            *)
THEOREM ResynchronisesHolds == Spec => []Resynchronises
<1>1. IInv => Resynchronises
  <2> SUFFICES ASSUME IInv, recvLength <= 0, NEW i \in clean
               PROVE  Done(i)
    BY DEF Resynchronises, Done, IInv, OverrunInv
  <2>1. ~(recvLength > 0)
    BY DEF IInv, ReaderInv
  <2> QED BY <2>1 DEF IInv, CleanInv, Pending
<1> QED BY Start, Step, <1>1, PTL DEF Spec

(* recvAndFireEvent(): no message is posted twice or overtakes another,    *)
(* whatever the recv()s split.                                             *)
THEOREM InOrderHolds == Spec => []InOrder
<1>1. IInv => InOrder
  BY DEF IInv
<1> QED BY Start, Step, <1>1, PTL DEF Spec

(* MQTTPublish::deserialize(): a PUBLISH of QoS 1 keeps its payload, as    *)
(* far as 8 bits can hold its length.                                      *)
THEOREM PayloadAlwaysKept == Spec => []PayloadKept
<1>1. IInv => PayloadKept
  <2> SUFFICES ASSUME IInv, NEW k \in 1 .. Len(posted), posted[k].of # 0,
                      NEW m, m = sent[posted[k].of],
                      m.type = "PUBLISH", m.qos = 1, m.payload <= 255
               PROVE  posted[k].payload = PayloadOf(m)
    BY DEF PayloadKept
  <2>1. posted[k].of \in Index /\ posted[k].payload = PayloadRead(m)
    BY DEF IInv, PostedInv
  <2>2. m \in Messages
    BY <2>1, IndexTypes DEF IInv
  <2> QED BY <2>1, <2>2, PayloadPlace
<1> QED BY Start, Step, <1>1, PTL DEF Spec
=============================================================================
