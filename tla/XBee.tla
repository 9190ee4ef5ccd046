-------------------------------- MODULE XBee --------------------------------
(* The serial line between the gateway and its XBee modem                  *)
(* (libmq/ZBStack.cpp).  Both ends frame their data the same way: a start   *)
(* byte, the length in two bytes, the API identifier, the data and a        *)
(* checksum, where bytes that mean something to the line are escaped.       *)
(* XBee::sendRequest() writes a frame, XBee::readPacket() takes it apart,   *)
(* XBee::receiveResponse() hands it on.                                     *)
(*                                                                          *)
(* A byte may be lost on the line, MaxLost of them at most.  A frame is put *)
(* on the line when the one before has been read up to its last byte: the   *)
(* reader is a function of the bytes it gets, so that frames that wait show *)
(* it nothing new.                                                          *)
EXTENDS Integers, Sequences, SequencesExt

CONSTANTS
  Frames,     \* what a frame may carry: sequences of bytes
  ApiId,      \* the API identifier of the frames
  MaxFrame,   \* MAX_FRAME_DATA_SIZE
  MaxFrames,  \* bound: frames sent
  MaxLost     \* bound: bytes lost

Bytes == 0 .. 255

ASSUME FramesFit ==
  /\ MaxFrame \in Nat /\ MaxFrame >= 4
  /\ MaxFrame - 3 \in Bytes  \* MAX_FRAME_DATA_SIZE is 128
  /\ \A f \in Frames : f \in Seq(Bytes) /\ Len(f) <= MaxFrame - 4
ASSUME ApiIdAssumption == ApiId \in Bytes
ASSUME BoundsAssumption == MaxFrames \in Nat /\ MaxLost \in Nat

START  == 126  \* 0x7e
ESCAPE == 125  \* 0x7d
XON    == 17   \* 0x11
XOFF   == 19   \* 0x13

VARIABLES
  line,       \* the bytes on their way to the reader
  sent,       \* the data of the frames sent
  hit,        \* the last frame that lost a byte, or 0
  lost,       \* number of bytes lost
  pos,        \* XBee::_pos
  sum,        \* XBee::_checksumTotal
  length,     \* XBResponse::_lsbLength
  buf,        \* the frame data of XBee::_response
  size,       \* its _frameLength
  available,  \* its _complete
  owned,      \* whether _frameDataPtr is still allocated
  down,       \* the process has aborted on a second free()
  delivered   \* the responses handed on by receiveResponse()

source == <<sent, hit, lost>>
vars == <<line, sent, hit, lost, pos, sum, length, buf, size, available, owned, down, delivered>>

-----------------------------------------------------------------------------
\* The writer.

\* The mutation: the bit is set whatever it was.
FlipSet(b) == b + 32
Flip(b) == IF (b \div 32) % 2 = 0 THEN b + 32 ELSE b - 32   \* b ^ 0x20

MarksSpecialNotEscape(b) == b \in {START, XON, XOFF}
MarksSpecial(b) == b \in {START, ESCAPE, XON, XOFF}

SendByte(b) == IF MarksSpecial(b) THEN <<ESCAPE, Flip(b)>> ELSE <<b>>

\* The checksum after k bytes of the data.
Sums(data) ==
  LET t[k \in 0 .. Len(data)] == IF k = 0 THEN ApiId ELSE (t[k - 1] + data[k]) % 256
  IN  t

\* A frame behind its start byte: length, API identifier, data and checksum.
Body(data) == <<0, Len(data) + 1, ApiId>> \o data \o <<255 - Sums(data)[Len(data)]>>

\* What is written for the bytes of body from the k-th on.
SendFrom(body) ==
  LET rest[k \in 1 .. Len(body) + 1] ==
        IF k = Len(body) + 1 THEN <<>> ELSE SendByte(body[k]) \o rest[k + 1]
  IN  rest

\* The mutation: the checksum goes out as it is.
SendRequestPlain(data) ==
  LET n == Len(data) + 4
  IN  <<START>> \o SendFrom(SubSeq(Body(data), 1, n - 1))[1] \o <<Body(data)[n]>>

SendRequest(data) == <<START>> \o SendFrom(Body(data))[1]

Send ==
  /\ Len(line) <= 1
  /\ Len(sent) < MaxFrames
  /\ \E data \in Frames :
       /\ sent' = Append(sent, data)
       /\ line' = line \o SendRequest(data)
  /\ UNCHANGED <<hit, lost, pos, sum, length, buf, size, available, owned, down, delivered>>

\* The reader takes an escape with the byte behind it, either of which may be
\* the one that is lost.
Lose ==
  /\ lost < MaxLost
  /\ \E i \in DOMAIN line \cap {1, 2} :
       /\ i = 2 => line[1] = ESCAPE
       /\ line' = RemoveAt(line, i)
  /\ lost' = lost + 1
  /\ hit' = Len(sent)
  /\ UNCHANGED <<sent, pos, sum, length, buf, size, available, owned, down, delivered>>

-----------------------------------------------------------------------------
\* The reader.  At, Byte and Sum are _pos, _bd and _checksumTotal when
\* readPacket() comes to its switch.

\* The mutation: a start byte in the middle of a frame is like any other.
AtDeaf == pos
At == IF line[1] = START THEN 0 ELSE pos

ExceedsBuffer == At - 4 > MaxFrame
Exceeds == At > MaxFrame
\* getPacketLength() keeps the lower of the two bytes only.
PacketLength == length
\* The checksum comes after as many bytes as the length says.
IsChecksum == At > 3 /\ ~Exceeds /\ At = PacketLength + 3

Escaped == At > 0 /\ line[1] = ESCAPE
Byte == IF Escaped THEN Flip(line[2]) ELSE line[1]
Sum == IF At >= 3 THEN (sum + Byte) % 256 ELSE sum

\* readPacket() blocks in read() until the byte, and the one it escapes, is there.
TakeByte ==
  /\ ~down
  /\ line # <<>>
  /\ Escaped => Len(line) > 1
  /\ line' = SubSeq(line, IF Escaped THEN 3 ELSE 2, Len(line))
  /\ sum' = IF IsChecksum THEN 0 ELSE Sum
  /\ UNCHANGED source

\* Positions 0 to 3: start byte, length, API identifier.  A byte that starts
\* nothing is skipped.
ReadHeader ==
  /\ TakeByte
  /\ At <= 3
  /\ pos' = IF At = 0 /\ Byte # START THEN 0 ELSE At + 1
  /\ length' = IF At = 2 THEN Byte ELSE length
  /\ UNCHANGED <<buf, size, available, owned, down, delivered>>

ReadData ==
  /\ TakeByte
  /\ At > 3 /\ ~Exceeds /\ ~IsChecksum
  /\ buf' = [buf EXCEPT ![At - 4] = Byte]
  /\ pos' = At + 1
  /\ UNCHANGED <<length, size, available, owned, down, delivered>>

\* What absorb() copies of a response whose buffer was freed is anyone's guess:
\* the copy is marked as not kept.
Absorb(good, newSize) ==
  /\ delivered' = Append(delivered, [data |-> [i \in 1 .. newSize |-> buf[i - 1]],
                                    good |-> good, kept |-> owned])
  /\ size' = newSize
  /\ UNCHANGED <<length, owned, down>>

\* reset() frees the buffer and does not forget it; the second time free() may
\* find out.
Reset ==
  /\ length' = 0
  /\ size' = 0
  /\ owned' = FALSE
  /\ down' \in IF owned THEN {FALSE} ELSE BOOLEAN
  /\ UNCHANGED delivered

\* receiveResponse(): an available response is handed on, whatever the outcome
\* of this frame; it stays available, as only Reset would change that.
Respond(good, newSize) ==
  /\ available' = (available \/ good)
  /\ (available \/ good) => Absorb(good, newSize)
  /\ ~(available \/ good) => Reset

ReadChecksum ==
  /\ TakeByte
  /\ IsChecksum
  /\ pos' = 0
  /\ Respond(Sum = 255, At - 4)
  /\ UNCHANGED buf

\* The error leaves _pos where it is, until a start byte comes.
ReadExcess ==
  /\ TakeByte
  /\ At > 3 /\ Exceeds
  /\ pos' = At
  /\ Respond(FALSE, size)
  /\ UNCHANGED buf

Read == ReadHeader \/ ReadData \/ ReadChecksum \/ ReadExcess

-----------------------------------------------------------------------------
Init ==
  /\ line = <<>>
  /\ sent = <<>>
  /\ hit = 0
  /\ lost = 0
  /\ pos = 0
  /\ sum = 0
  /\ length = 0
  /\ buf = [i \in 0 .. MaxFrame - 1 |-> 0]
  /\ size = 0
  /\ available = FALSE
  /\ owned = TRUE
  /\ down = FALSE
  /\ delivered = <<>>

Next == Send \/ Lose \/ Read

Spec == Init /\ [][Next]_vars

\* The reading thread is never stopped, and the modem goes on sending.
FairSpec == Spec /\ WF_vars(Read)

-----------------------------------------------------------------------------
\* The types of the variables.
TypeOK ==
  /\ line \in Seq(Bytes)
  /\ sent \in Seq(Frames)
  /\ hit \in 0 .. MaxFrames
  /\ lost \in 0 .. MaxLost
  /\ pos \in Nat
  /\ sum \in Bytes
  /\ length \in Bytes
  /\ buf \in [0 .. MaxFrame - 1 -> Bytes]
  /\ size \in Nat
  /\ available \in BOOLEAN
  /\ owned \in BOOLEAN
  /\ down \in BOOLEAN
  /\ delivered \in Seq([data : Seq(Bytes), good : BOOLEAN, kept : BOOLEAN])

\* However wrong the length of a frame arrives, the reader stays within its
\* buffer: the next byte is written below MaxFrame or not at all, and absorb()
\* copies no more than that (ZBStack.cpp:420-437, 242-243).
WithinBuffer ==
  /\ pos <= MaxFrame + 1
  /\ size <= MaxFrame - 4

\* On a line that loses nothing, what sendRequest() wrote is what
\* receiveResponse() hands on, in that order, whatever bytes the frames hold.
DeliveredInOrder ==
  lost = 0 =>
    /\ Len(delivered) <= Len(sent)
    /\ \A n \in DOMAIN delivered : delivered[n].data = sent[n]

\* On such a line every frame is handed on in the end.
EveryFrameDelivered ==
  Len(delivered) < Len(sent) ~> (Len(delivered) = Len(sent) \/ lost > 0)

\* Lost bytes do not disturb the reader for ever: once two whole frames have
\* followed the last loss, the second of them is handed on as it was sent, as
\* its start byte takes readPacket() back to the start of a frame (ZBStack.cpp:
\* 379-381).  One frame is not enough: when the byte behind a last escape is lost,
\* the reader takes the next start byte for it.
Recovers ==
  (line = <<>> /\ available /\ owned /\ Len(sent) - hit >= 2) =>
    Last(delivered).data = Last(sent)

\* What the log says whenever a response is handed on, "CheckSum OK"
\* (ZBStack.cpp:454).
OnlyGoodDelivered == \A n \in DOMAIN delivered : delivered[n].good
=============================================================================
