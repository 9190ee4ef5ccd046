----------------------------- MODULE XBee_proofs -----------------------------
(* The frame reader stays within its buffer, hands on what was sent when the *)
(* line loses nothing and recovers when it loses something, for every set of *)
(* frames, every size of the buffer and any number of lost bytes.            *)
(*                                                                           *)
(* What a frame looks like on the line is defined by recursion.  The library *)
(* states induction for an operator, which the provers cannot instantiate;   *)
(* Induction states it for a set, from the order of the finite subsets.      *)
EXTENDS XBee, FiniteSetTheorems, SequenceTheorems, TLAPS

-----------------------------------------------------------------------------
\* Induction.

\* A set of natural numbers that is not empty has a least element: the
\* intervals 0 .. x are ordered by inclusion as their x are by <=.
LEMMA Least ==
  ASSUME NEW T, T \subseteq Nat, T # {}
  PROVE  \E x \in T : \A y \in T : x <= y
<1>1. PICK R : R = StrictSubsetOrdering(Nat)
  OBVIOUS
<1>2. PICK F : F = FiniteSubsetsOf(Nat)
  OBVIOUS
<1>3. PICK U : U = {0 .. x : x \in T}
  OBVIOUS
<1>4. IsWellFoundedOn(R, F)
  BY <1>1, <1>2, FS_StrictSubsetOrderingWellFounded
<1>5. U \subseteq F /\ U # {}
  <2>1. \A x \in T : 0 .. x \subseteq Nat /\ IsFiniteSet(0 .. x)
    BY FS_Interval
  <2>2. QED
    BY <1>2, <1>3, <2>1, Zenon DEF FiniteSubsetsOf
<1>6. PICK u \in U : \A v \in U : ~(<<v, u>> \in R)
  BY <1>4, <1>5, WFMin, Zenon
<1>7. PICK x \in T : u = 0 .. x
  BY <1>3, <1>6, Zenon
<1>8. ASSUME NEW y \in T
      PROVE  x <= y
  <2>1. ~(<<0 .. y, 0 .. x>> \in R)
    BY <1>3, <1>6, <1>7, Zenon
  <2>2. CASE y < x
    <3>1. 0 .. y \subseteq 0 .. x /\ 0 .. y # 0 .. x
      <4>1. x \in 0 .. x /\ ~(x \in 0 .. y)
        BY <2>2, SMT
      <4>2. QED
        BY <2>2, <4>1, SMT
    <3>2. <<0 .. y, 0 .. x>> \in (SUBSET Nat) \X (SUBSET Nat)
      BY SMT
    <3>3. QED
      BY <1>1, <2>1, <3>1, <3>2, Zenon DEF StrictSubsetOrdering
  <2>3. QED
    BY <2>2, SMT
<1>9. QED
  BY <1>8

\* A set that holds 0 and n + 1 with every n holds every natural number.
LEMMA Induction ==
  ASSUME NEW S, 0 \in S, \A n \in Nat : n \in S => n + 1 \in S
  PROVE  Nat \subseteq S
<1> SUFFICES ASSUME Nat \ S # {}
             PROVE  FALSE
  OBVIOUS
<1>1. PICK x \in Nat \ S : \A y \in Nat \ S : x <= y
  BY Least
<1>2. x # 0 /\ x - 1 \in Nat /\ x - 1 \in S
  BY <1>1, SMT
<1>3. QED
  BY <1>1, <1>2, SMT

-----------------------------------------------------------------------------
\* The buffer.

\* WithinBuffer bounds the two numbers from above; a step needs to know that
\* they are natural numbers too.  Nothing need be known of the bytes.
ReaderInv ==
  /\ pos \in 0 .. MaxFrame + 1
  /\ size \in 0 .. MaxFrame - 4

LEMMA InitReader == Init => ReaderInv
  BY FramesFit, SMT DEF Init, ReaderInv

\* The place in the frame at which a byte is taken: where the reader stood, or
\* the start.
LEMMA AtInRange ==
  ASSUME ReaderInv
  PROVE  At \in 0 .. MaxFrame + 1 /\ (At > 3 => At = pos)
  BY FramesFit, SMT DEF ReaderInv, At

\* receiveResponse() leaves the size it was given, or none.
LEMMA RespondSize ==
  ASSUME NEW good \in BOOLEAN, NEW n \in 0 .. MaxFrame - 4, Respond(good, n)
  PROVE  size' \in 0 .. MaxFrame - 4
<1>1. size' = n \/ size' = 0
  BY Zenon DEF Respond, Absorb, Reset
<1>2. QED
  BY <1>1, FramesFit, SMT

LEMMA StepReader == ReaderInv /\ [Next]_vars => ReaderInv'
<1> SUFFICES ASSUME ReaderInv, [Next]_vars
             PROVE  ReaderInv'
  OBVIOUS
<1> USE FramesFit
<1>0. /\ At \in 0 .. MaxFrame + 1
      /\ At > 3 => At = pos
  BY AtInRange
<1>1. CASE Send
  BY <1>1, SMT DEF Send, ReaderInv
<1>2. CASE Lose
  BY <1>2, SMT DEF Lose, ReaderInv
<1>3. CASE ReadHeader
  <2>1. size' = size
    BY <1>3 DEF ReadHeader
  <2>2. pos' \in 0 .. 4
    BY <1>0, <1>3, SMT DEF ReadHeader
  <2>3. QED
    BY <2>1, <2>2, SMT DEF ReaderInv
<1>4. CASE ReadData
  <2>1. size' = size
    BY <1>4 DEF ReadData
  <2>2. pos' = At + 1 /\ At <= MaxFrame
    BY <1>0, <1>4, SMT DEF ReadData, Exceeds
  <2>3. QED
    BY <1>0, <2>1, <2>2, SMT DEF ReaderInv
<1>5. CASE ReadChecksum
  <2>1. pos' = 0
    BY <1>5 DEF ReadChecksum
  <2>2. At - 4 \in 0 .. MaxFrame - 4
    BY <1>0, <1>5, SMT DEF ReadChecksum, IsChecksum, Exceeds
  <2>3. Respond(Sum = 255, At - 4)
    BY <1>5 DEF ReadChecksum
  <2>4. size' \in 0 .. MaxFrame - 4
    BY <2>2, <2>3, RespondSize
  <2>5. QED
    BY <2>1, <2>4, SMT DEF ReaderInv
<1>6. CASE ReadExcess
  <2>1. pos' = At
    BY <1>6 DEF ReadExcess
  <2>2. Respond(FALSE, size)
    BY <1>6 DEF ReadExcess
  <2>3. size \in 0 .. MaxFrame - 4
    BY DEF ReaderInv
  <2>4. size' \in 0 .. MaxFrame - 4
    BY <2>2, <2>3, RespondSize
  <2>5. QED
    BY <1>0, <2>1, <2>4, SMT DEF ReaderInv
<1>7. CASE UNCHANGED vars
  BY <1>7, SMT DEF vars, ReaderInv
<1>8. QED
  BY <1>1, <1>2, <1>3, <1>4, <1>5, <1>6, <1>7 DEF Next, Read

\* readPacket() and absorb() never leave the buffer of MaxFrame bytes, however
\* the length of a frame was garbled (ZBStack.cpp:420-437, 242-243).
THEOREM WithinBufferHolds == Spec => []WithinBuffer
<1>1. ReaderInv => WithinBuffer
  BY FramesFit, SMT DEF ReaderInv, WithinBuffer
<1>2. QED
  BY InitReader, StepReader, <1>1, PTL DEF Spec
-----------------------------------------------------------------------------
\* The writer.

LEMMA BytesRange == \A b : b \in Bytes <=> b \in Int /\ 0 <= b /\ b <= 255
  BY SMT DEF Bytes

LEMMA SumRange == \A b, c \in Bytes : (b + c) % 256 \in Bytes
<1>1. \A i \in Int : i % 256 \in Int /\ 0 <= i % 256 /\ i % 256 <= 255
  BY SMT
<1>2. QED
  BY <1>1, BytesRange, SMT

\* The checksum after each byte, as the loop of sendRequest() adds it up.
LEMMA SumsLoop ==
  ASSUME NEW data \in Seq(Bytes)
  PROVE  /\ Sums(data) \in [0 .. Len(data) -> Bytes]
         /\ Sums(data)[0] = ApiId
         /\ \A k \in 1 .. Len(data) :
              Sums(data)[k] = (Sums(data)[k - 1] + data[k]) % 256
<1> DEFINE IsSums(f, n) ==
      f = [k \in 0 .. n |-> IF k = 0 THEN ApiId ELSE (f[k - 1] + data[k]) % 256]
<1> DEFINE S == {n \in Nat : \E f : IsSums(f, n)}
<1>1. 0 \in S
  <2>1. IsSums([k \in 0 .. 0 |-> ApiId], 0)
    BY SMT
  <2>2. QED
    BY <2>1
<1>2. \A n \in Nat : n \in S => n + 1 \in S
  <2> SUFFICES ASSUME NEW n \in Nat, n \in S
               PROVE  n + 1 \in S
    OBVIOUS
  <2>0. PICK f : IsSums(f, n)
    OBVIOUS
  <2>1. PICK g : g = [k \in 0 .. n + 1 |-> IF k = n + 1 THEN (f[n] + data[n + 1]) % 256 ELSE f[k]]
    OBVIOUS
  <2>2. \A k \in 0 .. n + 1 : g[k] = IF k = 0 THEN ApiId ELSE (g[k - 1] + data[k]) % 256
    BY <2>0, <2>1, SMT
  <2>3. g = [k \in 0 .. n + 1 |-> g[k]]
    BY <2>1, Zenon
  <2>4. IsSums(g, n + 1)
    BY <2>2, <2>3, Zenon
  <2>5. QED
    BY <2>4
<1>3. Len(data) \in S
  <2> HIDE DEF S
  <2>1. Nat \subseteq S
    BY <1>1, <1>2, Induction
  <2>2. QED
    BY <2>1, LenProperties
<1>4. IsSums(Sums(data), Len(data))
  BY <1>3 DEF Sums
<1>5. PICK s : s = Sums(data)
  OBVIOUS
<1>6. PICK m \in Nat : m = Len(data)
  BY LenProperties
<1>7. s = [k \in 0 .. m |-> IF k = 0 THEN ApiId ELSE (s[k - 1] + data[k]) % 256]
  BY <1>4, <1>5, <1>6
<1>8. s[0] = ApiId /\ \A k \in 1 .. m : s[k] = (s[k - 1] + data[k]) % 256
  BY <1>7, SMT
<1>9. \A k \in 0 .. m : s[k] \in Bytes
  <2> DEFINE T == {n \in Nat : n <= m => s[n] \in Bytes}
  <2>1. 0 \in T
    BY <1>8, ApiIdAssumption
  <2>2. ASSUME NEW n \in Nat, n \in T
        PROVE  n + 1 \in T
    <3>1. CASE n + 1 <= m
      <4>1. s[n] \in Bytes
        BY <2>2, <3>1, SMT
      <4>2. data[n + 1] \in Bytes
        BY <1>6, <3>1, ElementOfSeq, SMT
      <4>3. s[n + 1] = (s[n] + data[n + 1]) % 256
        BY <1>8, <3>1, SMT
      <4>4. QED
        BY <4>1, <4>2, <4>3, SumRange
    <3>2. QED
      BY <3>1, SMT
  <2>3. Nat \subseteq T
    <3> HIDE DEF T
    <3>1. QED
      BY <2>1, <2>2, Induction
  <2>4. QED
    BY <2>3, SMT
<1>10. s \in [0 .. m -> Bytes]
  BY <1>7, <1>9, Zenon
<1>11. QED
  BY <1>5, <1>6, <1>8, <1>10

\* What is written for a byte is not empty, and holds no start byte.
LEMMA SendByteProperties ==
  ASSUME NEW b \in Bytes
  PROVE  /\ SendByte(b) \in Seq(Bytes)
         /\ Len(SendByte(b)) >= 1
         /\ MarksSpecial(b) => /\ SendByte(b) = <<ESCAPE, Flip(b)>>
                               /\ Flip(b) \in Bytes
                               /\ ~MarksSpecial(Flip(b))
                               /\ Flip(Flip(b)) = b
         /\ ~MarksSpecial(b) => SendByte(b) = <<b>>
<1>1. CASE MarksSpecial(b)
  <2>1. /\ Flip(b) \in Bytes
        /\ ~MarksSpecial(Flip(b))
        /\ Flip(Flip(b)) = b
    BY <1>1, SMT DEF MarksSpecial, Flip, START, ESCAPE, XON, XOFF, Bytes
  <2>2. ESCAPE \in Bytes
    BY SMT DEF ESCAPE, Bytes
  <2>3. SendByte(b) = <<ESCAPE, Flip(b)>>
    BY <1>1 DEF SendByte
  <2>4. QED
    BY <1>1, <2>1, <2>2, <2>3
<1>2. CASE ~MarksSpecial(b)
  <2>1. SendByte(b) = <<b>>
    BY <1>2 DEF SendByte
  <2>2. QED
    BY <1>2, <2>1
<1>3. QED
  BY <1>1, <1>2

\* The bytes of a frame from the k-th on: those of the k-th, then the rest.
LEMMA SendFromLoop ==
  ASSUME NEW body \in Seq(Bytes)
  PROVE  /\ SendFrom(body) \in [1 .. Len(body) + 1 -> Seq(Bytes)]
         /\ SendFrom(body)[Len(body) + 1] = <<>>
         /\ \A k \in 1 .. Len(body) :
              SendFrom(body)[k] = SendByte(body[k]) \o SendFrom(body)[k + 1]
<1>0. PICK m \in Nat : m = Len(body)
  BY LenProperties
<1> DEFINE IsRest(f, j) ==
      f = [k \in j .. m + 1 |-> IF k = m + 1 THEN <<>> ELSE SendByte(body[k]) \o f[k + 1]]
<1> DEFINE S == {n \in Nat : \A j \in 1 .. m + 1 : j = m + 1 - n => \E f : IsRest(f, j)}
<1>1. 0 \in S
  <2>1. \E f : f = [k \in m + 1 .. m + 1 |-> <<>>]
    OBVIOUS
  <2>2. PICK f : f = [k \in m + 1 .. m + 1 |-> <<>>]
    BY <2>1
  <2>3. \A k \in m + 1 .. m + 1 : f[k] = IF k = m + 1 THEN <<>> ELSE SendByte(body[k]) \o f[k + 1]
    BY <2>2, SMT
  <2>4. IsRest(f, m + 1)
    BY <2>2, <2>3, Zenon
  <2>5. \A j \in 1 .. m + 1 : j = m + 1 - 0 => j = m + 1
    BY SMT
  <2>6. QED
    BY <2>4, <2>5, Zenon
<1>2. \A n \in Nat : n \in S => n + 1 \in S
  <2> SUFFICES ASSUME NEW n \in Nat, n \in S
               PROVE  n + 1 \in S
    OBVIOUS
  <2> SUFFICES ASSUME NEW j \in 1 .. m + 1, j = m + 1 - (n + 1)
               PROVE  \E g : IsRest(g, j)
    <3>1. n + 1 \in Nat
      BY SMT
    <3>2. QED
      BY <3>1, Zenon
  <2>1. j + 1 \in 1 .. m + 1 /\ j + 1 = m + 1 - n /\ j # m + 1
    BY SMT
  <2>2. PICK f : IsRest(f, j + 1)
    BY <2>1, Zenon
  <2>3. PICK g : g = [k \in j .. m + 1 |-> IF k = j THEN SendByte(body[j]) \o f[j + 1] ELSE f[k]]
    OBVIOUS
  <2>4. ASSUME NEW k \in j .. m + 1
        PROVE  g[k] = IF k = m + 1 THEN <<>> ELSE SendByte(body[k]) \o g[k + 1]
    <3>1. CASE k = j
      <4>1. g[j + 1] = f[j + 1]
        BY <2>1, <2>3, SMT
      <4>2. QED
        BY <2>1, <2>3, <3>1, <4>1
    <3>2. CASE k # j
      <4>1. k \in j + 1 .. m + 1 /\ g[k] = f[k]
        BY <2>3, <3>2, SMT
      <4>2. f[k] = IF k = m + 1 THEN <<>> ELSE SendByte(body[k]) \o f[k + 1]
        BY <2>2, <4>1, Zenon
      <4>3. k # m + 1 => g[k + 1] = f[k + 1]
        BY <2>3, <3>2, SMT
      <4>4. QED
        BY <4>1, <4>2, <4>3
    <3>3. QED
      BY <3>1, <3>2
  <2>5. IsRest(g, j)
    BY <2>3, <2>4, Zenon
  <2>6. QED
    BY <2>5
<1>3. m \in S
  <2> HIDE DEF S
  <2>1. QED
    BY <1>1, <1>2, Induction
<1>4. IsRest(SendFrom(body), 1)
  <2>0. 1 \in 1 .. m + 1 /\ 1 = m + 1 - m
    BY SMT
  <2>1. \E f : IsRest(f, 1)
    BY <1>3, <2>0, Zenon
  <2>2. QED
    BY <1>0, <2>1 DEF SendFrom
<1>5. PICK r : r = SendFrom(body)
  OBVIOUS
<1>6. r = [k \in 1 .. m + 1 |-> IF k = m + 1 THEN <<>> ELSE SendByte(body[k]) \o r[k + 1]]
  BY <1>4, <1>5
<1>7. r[m + 1] = <<>> /\ \A k \in 1 .. m : r[k] = SendByte(body[k]) \o r[k + 1]
  <2>1. m + 1 \in 1 .. m + 1 /\ \A k \in 1 .. m : k \in 1 .. m + 1 /\ k # m + 1
    BY SMT
  <2>2. \A k \in 1 .. m + 1 : r[k] = IF k = m + 1 THEN <<>> ELSE SendByte(body[k]) \o r[k + 1]
    BY <1>6, Zenon
  <2>3. QED
    BY <2>1, <2>2, Zenon
<1>8. \A k \in 1 .. m + 1 : r[k] \in Seq(Bytes)
  <2> DEFINE T == {n \in Nat : \A j \in 1 .. m + 1 : j = m + 1 - n => r[j] \in Seq(Bytes)}
  <2>1. 0 \in T
    <3>1. \A j \in 1 .. m + 1 : j = m + 1 - 0 => j = m + 1
      BY SMT
    <3>2. r[m + 1] \in Seq(Bytes)
      BY <1>7, EmptySeq
    <3>3. QED
      BY <3>1, <3>2, Zenon
  <2>2. ASSUME NEW n \in Nat, n \in T
        PROVE  n + 1 \in T
    <3> SUFFICES ASSUME NEW j \in 1 .. m + 1, j = m + 1 - (n + 1)
                 PROVE  r[j] \in Seq(Bytes)
      OBVIOUS
    <3>1. j \in 1 .. m /\ j + 1 \in 1 .. m + 1 /\ j + 1 = m + 1 - n
      BY SMT
    <3>2. r[j + 1] \in Seq(Bytes)
      BY <2>2, <3>1, Zenon
    <3>3. SendByte(body[j]) \in Seq(Bytes)
      BY <1>0, <3>1, ElementOfSeq, SendByteProperties
    <3>4. QED
      BY <1>7, <3>1, <3>2, <3>3, ConcatProperties
  <2>3. Nat \subseteq T
    <3> HIDE DEF T
    <3>1. QED
      BY <2>1, <2>2, Induction
  <2>4. ASSUME NEW k \in 1 .. m + 1
        PROVE  r[k] \in Seq(Bytes)
    <3>1. m + 1 - k \in Nat /\ k = m + 1 - (m + 1 - k)
      BY SMT
    <3>2. QED
      BY <2>3, <3>1, Zenon
  <2>5. QED
    BY <2>4
<1>9. r \in [1 .. m + 1 -> Seq(Bytes)]
  BY <1>6, <1>8, Zenon
<1>10. QED
  BY <1>0, <1>5, <1>7, <1>9

LEMMA BodyProperties ==
  ASSUME NEW d \in Frames
  PROVE  /\ d \in Seq(Bytes)
         /\ Len(d) \in Nat
         /\ Len(d) <= MaxFrame - 4
         /\ Body(d) \in Seq(Bytes)
         /\ Len(Body(d)) = Len(d) + 4
         /\ Body(d)[2] = Len(d) + 1
         /\ Body(d)[3] = ApiId
         /\ \A i \in 1 .. Len(d) : Body(d)[i + 3] = d[i]
         /\ Body(d)[Len(d) + 4] = 255 - Sums(d)[Len(d)]
<1>1. d \in Seq(Bytes) /\ Len(d) <= MaxFrame - 4
  BY FramesFit
<1>2. PICK n \in Nat : n = Len(d)
  BY <1>1, LenProperties
<1>3. PICK c \in Bytes : c = Sums(d)[n]
  <2>1. n \in 0 .. n
    BY SMT
  <2>2. Sums(d) \in [0 .. Len(d) -> Bytes]
    BY <1>1, SumsLoop
  <2>3. QED
    BY <1>2, <2>1, <2>2
<1>4. 255 - c \in Bytes /\ n + 1 \in Bytes /\ 0 \in Bytes
  <2>1. PICK l : l = MaxFrame - 3
    OBVIOUS
  <2>2. l \in Bytes
    BY <2>1, FramesFit
  <2>3. l \in Int /\ 0 <= l /\ l <= 255
    BY <2>2, BytesRange
  <2>4. MaxFrame \in Int
    BY FramesFit
  <2>5. n + 1 \in Int /\ 0 <= n + 1 /\ n + 1 <= 255
    BY <1>1, <1>2, <2>1, <2>3, <2>4, SMT
  <2>6. c \in Int /\ 0 <= c /\ c <= 255
    BY BytesRange
  <2>7. 255 - c \in Int /\ 0 <= 255 - c /\ 255 - c <= 255
    BY <2>6, SMT
  <2>8. 0 \in Int /\ 0 <= 0 /\ 0 <= 255
    BY SMT
  <2>9. QED
    BY <2>5, <2>7, <2>8, BytesRange
<1>5. PICK h : h = <<0, n + 1, ApiId>>
  OBVIOUS
<1>6. h \in Seq(Bytes) /\ Len(h) = 3 /\ h[2] = n + 1 /\ h[3] = ApiId
  BY <1>4, <1>5, ApiIdAssumption
<1>7. PICK z : z = <<255 - c>>
  OBVIOUS
<1>8. z \in Seq(Bytes) /\ Len(z) = 1 /\ z[1] = 255 - c
  BY <1>4, <1>7
<1>9. PICK b : b = h \o d
  OBVIOUS
<1>10. /\ b \in Seq(Bytes)
       /\ Len(b) = n + 3
       /\ \A i \in 1 .. n + 3 : b[i] = IF i <= 3 THEN h[i] ELSE d[i - 3]
  <2>1. /\ b \in Seq(Bytes)
        /\ Len(b) = Len(h) + Len(d)
        /\ \A i \in 1 .. Len(h) + Len(d) : b[i] = IF i <= Len(h) THEN h[i] ELSE d[i - Len(h)]
    BY <1>1, <1>6, <1>9, ConcatProperties
  <2>2. Len(h) + Len(d) = n + 3
    BY <1>2, <1>6, SMT
  <2>3. QED
    BY <1>6, <2>1, <2>2
<1>11. /\ b \o z \in Seq(Bytes)
       /\ Len(b \o z) = n + 4
       /\ \A i \in 1 .. n + 4 : (b \o z)[i] = IF i <= n + 3 THEN b[i] ELSE z[i - (n + 3)]
  <2>1. /\ b \o z \in Seq(Bytes)
        /\ Len(b \o z) = Len(b) + Len(z)
        /\ \A i \in 1 .. Len(b) + Len(z) : (b \o z)[i] = IF i <= Len(b) THEN b[i] ELSE z[i - Len(b)]
    BY <1>8, <1>10, ConcatProperties
  <2>2. Len(b) + Len(z) = n + 4
    BY <1>8, <1>10, SMT
  <2>3. QED
    BY <1>10, <2>1, <2>2
<1>12. Body(d) = b \o z
  BY <1>2, <1>3, <1>5, <1>7, <1>9 DEF Body
<1>13. PICK w : w = Body(d)
  OBVIOUS
<1>14. w[2] = n + 1 /\ w[3] = ApiId
  BY <1>6, <1>10, <1>11, <1>12, <1>13, SMT
<1>15. \A i \in 1 .. n : w[i + 3] = d[i]
  BY <1>10, <1>11, <1>12, <1>13, SMT
<1>16. w[n + 4] = 255 - c
  BY <1>8, <1>11, <1>12, <1>13, SMT
<1>17. QED
  BY <1>1, <1>2, <1>3, <1>11, <1>12, <1>13, <1>14, <1>15, <1>16

\* SendFromLoop for a frame.
LEMMA FrameLoop ==
  ASSUME NEW d \in Frames
  PROVE  /\ \A k \in 1 .. Len(d) + 5 : SendFrom(Body(d))[k] \in Seq(Bytes)
         /\ SendFrom(Body(d))[Len(d) + 5] = <<>>
         /\ \A k \in 1 .. Len(d) + 4 :
              /\ Body(d)[k] \in Bytes
              /\ SendFrom(Body(d))[k] = SendByte(Body(d)[k]) \o SendFrom(Body(d))[k + 1]
              /\ Len(SendFrom(Body(d))[k]) >= 1
<1>1. PICK b, r : b = Body(d) /\ r = SendFrom(b)
  OBVIOUS
<1>2. PICK n \in Nat : n = Len(d)
  BY BodyProperties
<1>3. b \in Seq(Bytes) /\ Len(b) = n + 4
  BY <1>1, <1>2, BodyProperties
<1>4. /\ r \in [1 .. n + 5 -> Seq(Bytes)]
      /\ r[n + 5] = <<>>
      /\ \A k \in 1 .. n + 4 : r[k] = SendByte(b[k]) \o r[k + 1]
  <2>1. (n + 4) + 1 = n + 5
    BY SMT
  <2>2. QED
    BY <1>1, <1>3, <2>1, SendFromLoop
<1>5. ASSUME NEW k \in 1 .. n + 4
      PROVE  b[k] \in Bytes /\ Len(r[k]) >= 1
  <2>1. b[k] \in Bytes
    BY <1>3, ElementOfSeq
  <2>2. r[k + 1] \in Seq(Bytes)
    BY <1>4, SMT
  <2>3. Len(r[k + 1]) \in Nat
    BY <2>2, LenProperties
  <2>4. SendByte(b[k]) \in Seq(Bytes) /\ Len(SendByte(b[k])) >= 1
    BY <2>1, SendByteProperties
  <2>5. Len(r[k]) = Len(SendByte(b[k])) + Len(r[k + 1])
    BY <1>4, <2>2, <2>4, ConcatProperties
  <2>6. Len(SendByte(b[k])) \in Nat
    BY <2>4, LenProperties
  <2>7. Len(r[k]) >= 1
    <3>1. \A x, y \in Nat : x >= 1 => x + y >= 1
      BY SMT
    <3>2. QED
      BY <2>3, <2>4, <2>5, <2>6, <3>1, Zenon
  <2>8. QED
    BY <2>1, <2>7
<1>6. \A k \in 1 .. n + 5 : r[k] \in Seq(Bytes)
  BY <1>4, Zenon
<1>7. QED
  BY <1>1, <1>2, <1>4, <1>5, <1>6

LEMMA RequestProperties ==
  ASSUME NEW d \in Frames
  PROVE  /\ SendRequest(d) \in Seq(Bytes)
         /\ Len(SendRequest(d)) > 1
         /\ SendRequest(d)[1] = START
         /\ SendFrom(Body(d))[1] \in Seq(Bytes)
         /\ SendRequest(d) = <<START>> \o SendFrom(Body(d))[1]
<1>1. PICK n \in Nat : n = Len(d)
  BY BodyProperties
<1>2. 1 \in 1 .. n + 4 /\ 1 \in 1 .. n + 5
  BY SMT
<1>3. PICK r : r = SendFrom(Body(d))[1]
  OBVIOUS
<1>4. r \in Seq(Bytes) /\ Len(r) >= 1
  BY <1>1, <1>2, <1>3, FrameLoop
<1>5. <<START>> \in Seq(Bytes) /\ Len(<<START>>) = 1 /\ <<START>>[1] = START
  <2>1. START \in Bytes
    BY BytesRange, SMT DEF START
  <2>2. QED
    BY <2>1
<1>6. Len(r) \in Nat
  BY <1>4, LenProperties
<1>7. /\ <<START>> \o r \in Seq(Bytes)
      /\ Len(<<START>> \o r) = 1 + Len(r)
      /\ \A i \in 1 .. 1 + Len(r) : (<<START>> \o r)[i] = IF i <= 1 THEN <<START>>[i] ELSE r[i - 1]
  BY <1>4, <1>5, ConcatProperties
<1>8. Len(<<START>> \o r) > 1 /\ (<<START>> \o r)[1] = START
  BY <1>4, <1>5, <1>6, <1>7, SMT
<1>9. QED
  BY <1>3, <1>4, <1>7, <1>8 DEF SendRequest

-----------------------------------------------------------------------------
\* The types.  No more frames are sent than the bound says, so that the number
\* of the frame that lost a byte stays in its range.
TypeInv ==
  /\ TypeOK
  /\ ReaderInv
  /\ Len(sent) <= MaxFrames
  /\ hit <= Len(sent)

LEMMA FlipType == \A b \in Bytes : Flip(b) \in Bytes
<1> SUFFICES ASSUME NEW b \in Bytes
             PROVE  Flip(b) \in Bytes
  OBVIOUS
<1>1. b \in Int /\ 0 <= b /\ b <= 255
  BY BytesRange
<1>2. PICK q \in Int, r \in 0 .. 31 : b = 32 * q + r /\ q = b \div 32
  <2>1. b = 32 * (b \div 32) + (b % 32) /\ b % 32 \in 0 .. 31 /\ b \div 32 \in Int
    BY <1>1, SMT
  <2>2. QED
    BY <2>1
<1>3. PICK p \in Int, e \in 0 .. 1 : q = 2 * p + e /\ e = q % 2
  <2>1. q = 2 * (q \div 2) + (q % 2) /\ q % 2 \in 0 .. 1 /\ q \div 2 \in Int
    BY SMT
  <2>2. QED
    BY <2>1
<1>4. e = 0 => b + 32 \in Int /\ 0 <= b + 32 /\ b + 32 <= 255
  BY <1>1, <1>2, <1>3, SMT
<1>5. e # 0 => b - 32 \in Int /\ 0 <= b - 32 /\ b - 32 <= 255
  BY <1>1, <1>2, <1>3, SMT
<1>6. QED
  BY <1>2, <1>3, <1>4, <1>5, BytesRange, Zenon DEF Flip

\* What is left of a sequence of bytes without its first one or two.
LEMMA DropType ==
  ASSUME NEW s \in Seq(Bytes), NEW m \in {2, 3}
  PROVE  SubSeq(s, m, Len(s)) \in Seq(Bytes)
<1>1. Len(s) \in Int
  BY LenProperties
<1>2. \A i \in m .. Len(s) : i \in 1 .. Len(s)
  BY <1>1, SMT
<1>3. \A i \in m .. Len(s) : s[i] \in Bytes
  BY <1>2, ElementOfSeq
<1>4. m \in Int
  BY SMT
<1>5. QED
  BY <1>1, <1>3, <1>4, SubSeqProperties

LEMMA RemoveAtType ==
  ASSUME NEW s \in Seq(Bytes), NEW i \in 1 .. Len(s)
  PROVE  RemoveAt(s, i) \in Seq(Bytes)
<1>1. Len(s) \in Int
  BY LenProperties
<1>2. PICK l, h \in Int : l = i - 1 /\ h = i + 1
  BY SMT
<1>3. \A j \in 1 .. l : j \in 1 .. Len(s)
  BY <1>1, <1>2, SMT
<1>4. \A j \in h .. Len(s) : j \in 1 .. Len(s)
  BY <1>1, <1>2, SMT
<1>5. SubSeq(s, 1, l) \in Seq(Bytes)
  <2>1. \A j \in 1 .. l : s[j] \in Bytes
    BY <1>3, ElementOfSeq
  <2>2. 1 \in Int
    BY SMT
  <2>3. QED
    BY <2>1, <2>2, SubSeqProperties
<1>6. SubSeq(s, h, Len(s)) \in Seq(Bytes)
  <2>1. \A j \in h .. Len(s) : s[j] \in Bytes
    BY <1>4, ElementOfSeq
  <2>2. QED
    BY <1>1, <2>1, SubSeqProperties
<1>7. QED
  BY <1>2, <1>5, <1>6, ConcatProperties DEF RemoveAt

\* The byte that readPacket() takes, and what it leaves on the line.
LEMMA TakeTypes ==
  ASSUME TypeInv, TakeByte
  PROVE  /\ Byte \in Bytes
         /\ line' \in Seq(Bytes)
         /\ sum' \in Bytes
<1>1. line \in Seq(Bytes) /\ sum \in Bytes /\ line # <<>>
  BY DEF TypeInv, TypeOK, TakeByte
<1>2. Len(line) \in Nat /\ Len(line) # 0
  BY <1>1, EmptySeq, SMT
<1>3. line[1] \in Bytes
  BY <1>1, <1>2, ElementOfSeq, SMT
<1>4. Escaped => line[2] \in Bytes
  <2>1. Escaped => 2 \in 1 .. Len(line)
    BY <1>2, SMT DEF TakeByte
  <2>2. QED
    BY <1>1, <2>1, ElementOfSeq
<1>5. Byte \in Bytes
  BY <1>3, <1>4, FlipType, Zenon DEF Byte
<1>6. line' \in Seq(Bytes)
  <2>1. 2 \in {2, 3} /\ 3 \in {2, 3}
    OBVIOUS
  <2>2. SubSeq(line, 2, Len(line)) \in Seq(Bytes) /\ SubSeq(line, 3, Len(line)) \in Seq(Bytes)
    BY <1>1, <2>1, DropType
  <2>3. line' = SubSeq(line, 2, Len(line)) \/ line' = SubSeq(line, 3, Len(line))
    <3>1. line' = SubSeq(line, IF Escaped THEN 3 ELSE 2, Len(line))
      BY DEF TakeByte
    <3>2. QED
      BY <3>1, Zenon
  <2>4. QED
    BY <2>2, <2>3
<1>7. Sum \in Bytes
  BY <1>1, <1>5, SumRange, Zenon DEF Sum
<1>8. sum' \in Bytes
  <2>1. 0 \in Bytes
    BY BytesRange, SMT
  <2>2. sum' = 0 \/ sum' = Sum
    BY Zenon DEF TakeByte
  <2>3. QED
    BY <1>7, <2>1, <2>2
<1>9. QED
  BY <1>5, <1>6, <1>8

\* receiveResponse() hands on what is in the buffer, or nothing.
LEMMA RespondTypes ==
  ASSUME TypeInv, NEW good \in BOOLEAN, NEW n \in 0 .. MaxFrame - 4, Respond(good, n)
  PROVE  /\ available' \in BOOLEAN
         /\ owned' \in BOOLEAN
         /\ down' \in BOOLEAN
         /\ length' \in Bytes
         /\ delivered' \in Seq([data : Seq(Bytes), good : BOOLEAN, kept : BOOLEAN])
<1> DEFINE R == [data : Seq(Bytes), good : BOOLEAN, kept : BOOLEAN]
<1>1. /\ available \in BOOLEAN /\ owned \in BOOLEAN /\ down \in BOOLEAN
      /\ length \in Bytes
      /\ buf \in [0 .. MaxFrame - 1 -> Bytes]
      /\ delivered \in Seq(R)
  BY DEF TypeInv, TypeOK
<1>2. available' \in BOOLEAN
  BY <1>1, Zenon DEF Respond
<1>3. CASE available \/ good
  <2>1. Absorb(good, n)
    BY <1>3 DEF Respond
  <2>2. PICK d : d = [i \in 1 .. n |-> buf[i - 1]]
    OBVIOUS
  <2>3. d \in Seq(Bytes)
    <3>1. n \in Nat
      BY FramesFit, SMT
    <3>2. \A i \in 1 .. n : i - 1 \in 0 .. MaxFrame - 1
      BY FramesFit, SMT
    <3>3. \A i \in 1 .. n : buf[i - 1] \in Bytes
      BY <1>1, <3>2, Zenon
    <3>4. d \in [1 .. n -> Bytes]
      BY <2>2, <3>3, Zenon
    <3>5. QED
      BY <3>1, <3>4
  <2>4. delivered' = Append(delivered, [data |-> d, good |-> good, kept |-> owned])
    BY <2>1, <2>2 DEF Absorb
  <2>5. [data |-> d, good |-> good, kept |-> owned] \in R
    BY <1>1, <2>3
  <2>6. delivered' \in Seq(R)
    <3> HIDE DEF R
    <3>1. QED
      BY <1>1, <2>4, <2>5, AppendProperties
  <2>7. length' = length /\ owned' = owned /\ down' = down
    BY <2>1 DEF Absorb
  <2>8. QED
    BY <1>1, <1>2, <2>6, <2>7
<1>4. CASE ~(available \/ good)
  <2>1. Reset
    BY <1>4 DEF Respond
  <2>2. 0 \in Bytes
    BY BytesRange, SMT
  <2>3. down' \in BOOLEAN
    BY <2>1, Zenon DEF Reset
  <2>4. length' = 0 /\ owned' = FALSE /\ delivered' = delivered
    BY <2>1 DEF Reset
  <2>5. QED
    BY <1>1, <1>2, <2>2, <2>3, <2>4
<1>5. QED
  BY <1>3, <1>4

LEMMA InitTypes == Init => TypeInv
<1> SUFFICES ASSUME Init
             PROVE  TypeInv
  OBVIOUS
<1>1. ReaderInv
  BY InitReader
<1>2. 0 \in Bytes /\ 0 \in Nat
  BY BytesRange, SMT
<1>3. buf \in [0 .. MaxFrame - 1 -> Bytes]
  BY <1>2, Zenon DEF Init
<1>4. hit \in 0 .. MaxFrames /\ lost \in 0 .. MaxLost
  BY BoundsAssumption, SMT DEF Init
<1>5. /\ line \in Seq(Bytes) /\ sent \in Seq(Frames)
      /\ delivered \in Seq([data : Seq(Bytes), good : BOOLEAN, kept : BOOLEAN])
  BY EmptySeq DEF Init
<1>6. TypeOK
  BY <1>2, <1>3, <1>4, <1>5 DEF Init, TypeOK
<1>7. Len(sent) <= MaxFrames /\ hit <= Len(sent)
  BY BoundsAssumption, SMT DEF Init
<1>8. QED
  BY <1>1, <1>6, <1>7 DEF TypeInv

LEMMA StepTypes == TypeInv /\ [Next]_vars => TypeInv'
<1> SUFFICES ASSUME TypeInv, [Next]_vars
             PROVE  TypeInv'
  OBVIOUS
<1>1. ReaderInv'
  BY StepReader DEF TypeInv
<1>2. pos' \in Nat /\ size' \in Nat
  BY <1>1, FramesFit, SMT DEF ReaderInv
<1> DEFINE R == [data : Seq(Bytes), good : BOOLEAN, kept : BOOLEAN]
<1>3. /\ line \in Seq(Bytes)
      /\ sent \in Seq(Frames)
      /\ hit \in 0 .. MaxFrames
      /\ lost \in 0 .. MaxLost
      /\ sum \in Bytes
      /\ length \in Bytes
      /\ buf \in [0 .. MaxFrame - 1 -> Bytes]
      /\ available \in BOOLEAN
      /\ owned \in BOOLEAN
      /\ down \in BOOLEAN
      /\ delivered \in Seq(R)
  BY DEF TypeInv, TypeOK
<1>4. Len(sent) \in Nat /\ Len(sent) <= MaxFrames /\ hit <= Len(sent)
  BY <1>3, LenProperties DEF TypeInv
<1>5. CASE Send
  <2>1. PICK d \in Frames : sent' = Append(sent, d) /\ line' = line \o SendRequest(d)
    BY <1>5 DEF Send
  <2>2. line' \in Seq(Bytes)
    BY <1>3, <2>1, RequestProperties, ConcatProperties
  <2>3. sent' \in Seq(Frames) /\ Len(sent') = Len(sent) + 1
    BY <1>3, <2>1, AppendProperties
  <2>4. Len(sent) < MaxFrames
    BY <1>5 DEF Send
  <2>5. UNCHANGED <<hit, lost, sum, length, buf, available, owned, down, delivered>>
    BY <1>5 DEF Send
  <2>6. Len(sent') <= MaxFrames /\ hit' <= Len(sent')
    <3>1. \A a \in Nat, h \in 0 .. MaxFrames : a < MaxFrames /\ h <= a => a + 1 <= MaxFrames /\ h <= a + 1
      BY BoundsAssumption, SMT
    <3>2. QED
      BY <1>3, <1>4, <2>3, <2>4, <2>5, <3>1
  <2>7. TypeOK'
    BY <1>2, <1>3, <2>2, <2>3, <2>5 DEF TypeOK
  <2>8. QED
    BY <1>1, <2>6, <2>7 DEF TypeInv
<1>6. CASE Lose
  <2>1. PICK i \in DOMAIN line : line' = RemoveAt(line, i)
    BY <1>6 DEF Lose
  <2>2. line' \in Seq(Bytes)
    <3>1. i \in 1 .. Len(line)
      BY <1>3, LenProperties
    <3>2. QED
      BY <1>3, <2>1, <3>1, RemoveAtType
  <2>3. lost < MaxLost /\ lost' = lost + 1 /\ hit' = Len(sent)
    BY <1>6 DEF Lose
  <2>4. UNCHANGED <<sent, sum, length, buf, available, owned, down, delivered>>
    BY <1>6 DEF Lose
  <2>5. lost' \in 0 .. MaxLost
    BY <1>3, <2>3, BoundsAssumption, SMT
  <2>6. hit' \in 0 .. MaxFrames
    <3>1. \A a \in Nat : a <= MaxFrames => a \in 0 .. MaxFrames
      BY BoundsAssumption, SMT
    <3>2. QED
      BY <1>4, <2>3, <3>1
  <2>7. hit' <= Len(sent')
    BY <1>4, <2>3, <2>4
  <2>8. Len(sent') <= MaxFrames
    BY <1>4, <2>4
  <2>9. TypeOK'
    BY <1>2, <1>3, <2>2, <2>4, <2>5, <2>6 DEF TypeOK
  <2>10. QED
    BY <1>1, <2>7, <2>8, <2>9 DEF TypeInv
<1>7. CASE Read
  <2>1. TakeByte
    BY <1>7 DEF Read, ReadHeader, ReadData, ReadChecksum, ReadExcess
  <2>2. Byte \in Bytes /\ line' \in Seq(Bytes) /\ sum' \in Bytes
    BY <2>1, TakeTypes
  <2>3. UNCHANGED <<sent, hit, lost>>
    BY <2>1 DEF TakeByte, source
  <2>4. Len(sent') <= MaxFrames /\ hit' <= Len(sent')
    BY <1>4, <2>3
  <2>5. At \in 0 .. MaxFrame + 1
    BY AtInRange DEF TypeInv
  <2>6. /\ buf' \in [0 .. MaxFrame - 1 -> Bytes]
        /\ available' \in BOOLEAN
        /\ owned' \in BOOLEAN
        /\ down' \in BOOLEAN
        /\ length' \in Bytes
        /\ delivered' \in Seq(R)
    <3>1. CASE ReadHeader
      <4>1. UNCHANGED <<buf, available, owned, down, delivered>>
        BY <3>1 DEF ReadHeader
      <4>2. length' \in Bytes
        BY <1>3, <2>2, <3>1, Zenon DEF ReadHeader
      <4>3. QED
        BY <1>3, <4>1, <4>2
    <3>2. CASE ReadData
      <4>1. UNCHANGED <<length, available, owned, down, delivered>>
        BY <3>2 DEF ReadData
      <4>2. buf' = [buf EXCEPT ![At - 4] = Byte]
        BY <3>2 DEF ReadData
      <4>3. buf' \in [0 .. MaxFrame - 1 -> Bytes]
        BY <1>3, <2>2, <4>2, Zenon
      <4>4. QED
        BY <1>3, <4>1, <4>3
    <3>3. CASE ReadChecksum
      <4>1. At - 4 \in 0 .. MaxFrame - 4
        BY <2>5, <3>3, FramesFit, SMT DEF ReadChecksum, IsChecksum, Exceeds
      <4>2. Respond(Sum = 255, At - 4) /\ buf' = buf
        BY <3>3 DEF ReadChecksum
      <4>3. QED
        BY <1>3, <4>1, <4>2, RespondTypes
    <3>4. CASE ReadExcess
      <4>1. size \in 0 .. MaxFrame - 4
        BY DEF TypeInv, ReaderInv
      <4>2. Respond(FALSE, size) /\ buf' = buf
        BY <3>4 DEF ReadExcess
      <4>3. QED
        BY <1>3, <4>1, <4>2, RespondTypes
    <3>5. QED
      BY <1>7, <3>1, <3>2, <3>3, <3>4 DEF Read
  <2>7. TypeOK'
    BY <1>2, <1>3, <2>2, <2>3, <2>6 DEF TypeOK
  <2>8. QED
    BY <1>1, <2>4, <2>7 DEF TypeInv
<1>8. CASE UNCHANGED vars
  BY <1>8 DEF vars, TypeInv, TypeOK, ReaderInv
<1>9. QED
  BY <1>5, <1>6, <1>7, <1>8 DEF Next

\* The reader and the line keep their types, whatever is lost: what
\* sendRequest() writes is bytes, and a byte taken off the line, an escaped one
\* included, is a byte (ZBStack.cpp:371-446, 472-509).
THEOREM TypeCorrect == Spec => []TypeOK
<1>1. TypeInv => TypeOK
  BY DEF TypeInv
<1>2. QED
  BY InitTypes, StepTypes, <1>1, PTL DEF Spec

-----------------------------------------------------------------------------
\* What the reader takes off the line.

LEMMA DropPrefix ==
  ASSUME NEW s \in Seq(Bytes), NEW t \in Seq(Bytes), NEW n \in Nat, Len(s) = n
  PROVE  SubSeq(s \o t, n + 1, Len(s \o t)) = t
<1>1. Len(s \o t) = n + Len(t) /\ Len(t) \in Nat
  BY ConcatProperties, LenProperties
<1>2. SubSeq(s \o t, Len(s) + 1, Len(s) + Len(t)) = t
  BY SubSeqOfConcat2
<1>3. QED
  BY <1>1, <1>2

\* A byte that is no escape, or comes when the reader waits for a start byte.
LEMMA TakePlain ==
  ASSUME TakeByte, NEW b \in Bytes, NEW r \in Seq(Bytes), line = <<b>> \o r,
         b # ESCAPE \/ At = 0
  PROVE  line[1] = b /\ Byte = b /\ line' = r
<1>1. <<b>> \in Seq(Bytes) /\ Len(<<b>>) = 1 /\ <<b>>[1] = b
  OBVIOUS
<1>2. line[1] = b
  <2>1. Len(r) \in Nat
    BY LenProperties
  <2>2. 1 \in 1 .. 1 + Len(r) /\ 1 <= 1
    BY <2>1, SMT
  <2>3. QED
    BY <1>1, <2>2, ConcatProperties
<1>3. ~Escaped
  BY <1>2, SMT DEF Escaped
<1>4. Byte = b
  BY <1>2, <1>3 DEF Byte
<1>5. line' = SubSeq(line, 2, Len(line))
  BY <1>3, Zenon DEF TakeByte
<1>6. line' = r
  <2>1. 1 + 1 = 2 /\ 1 \in Nat
    BY SMT
  <2>2. QED
    BY <1>1, <1>5, <2>1, DropPrefix
<1>7. QED
  BY <1>2, <1>4, <1>6

\* A byte that came as sendByte() wrote it, within a frame.
LEMMA TakeSent ==
  ASSUME TypeInv, TakeByte, pos # 0,
         NEW b \in Bytes, NEW r \in Seq(Bytes), line = SendByte(b) \o r
  PROVE  At = pos /\ Byte = b /\ line' = r
<1>0. START # ESCAPE
  BY SMT DEF START, ESCAPE
<1>1. CASE ~MarksSpecial(b)
  <2>1. line = <<b>> \o r /\ b # ESCAPE /\ b # START
    BY <1>1, SendByteProperties DEF MarksSpecial
  <2>2. line[1] = b /\ Byte = b /\ line' = r
    BY <2>1, TakePlain
  <2>3. QED
    BY <2>1, <2>2 DEF At
<1>2. CASE MarksSpecial(b)
  <2>1. PICK s : s = <<ESCAPE, Flip(b)>>
    OBVIOUS
  <2>2. /\ line = s \o r
        /\ s \in Seq(Bytes)
        /\ Flip(b) \in Bytes
        /\ Flip(Flip(b)) = b
    BY <1>2, <2>1, SendByteProperties
  <2>3. Len(s) = 2 /\ s[1] = ESCAPE /\ s[2] = Flip(b)
    BY <2>1
  <2>4. line[1] = ESCAPE /\ line[2] = Flip(b)
    <3>1. Len(r) \in Nat
      BY LenProperties
    <3>2. 1 \in 1 .. 2 + Len(r) /\ 2 \in 1 .. 2 + Len(r) /\ 1 <= 2 /\ 2 <= 2
      BY <3>1, SMT
    <3>3. QED
      BY <2>2, <2>3, <3>2, ConcatProperties
  <2>5. At = pos
    BY <1>0, <2>4 DEF At
  <2>6. Escaped
    <3>1. pos > 0
      BY FramesFit, SMT DEF TypeInv, ReaderInv
    <3>2. QED
      BY <2>4, <2>5, <3>1 DEF Escaped
  <2>7. Byte = b
    BY <2>2, <2>4, <2>6 DEF Byte
  <2>8. line' = SubSeq(line, 3, Len(line))
    BY <2>6, Zenon DEF TakeByte
  <2>9. line' = r
    <3>1. 2 + 1 = 3 /\ 2 \in Nat
      BY SMT
    <3>2. SubSeq(s \o r, 2 + 1, Len(s \o r)) = r
      BY <2>2, <2>3, <3>1, DropPrefix
    <3>3. QED
      BY <2>2, <2>8, <3>1, <3>2
  <2>10. QED
    BY <2>5, <2>7, <2>9
<1>3. QED
  BY <1>1, <1>2

\* A start byte takes the reader to the start of a frame, wherever it stood.
LEMMA TakeStart ==
  ASSUME Read, NEW r \in Seq(Bytes), line = <<START>> \o r
  PROVE  /\ pos' = 1
         /\ line' = r
         /\ UNCHANGED <<sum, length, buf, available, owned, delivered>>
<1>0. START \in Bytes /\ START # ESCAPE
  <2>1. START \in Int /\ 0 <= START /\ START <= 255 /\ START # ESCAPE
    BY SMT DEF START, ESCAPE
  <2>2. QED
    BY <2>1, BytesRange
<1>1. TakeByte
  BY DEF Read, ReadHeader, ReadData, ReadChecksum, ReadExcess
<1>2. line[1] = START /\ Byte = START /\ line' = r
  BY <1>0, <1>1, TakePlain
<1>3. At = 0
  BY <1>2 DEF At
<1>4. ReadHeader
  <2>1. ~(At > 3)
    BY <1>3, SMT
  <2>2. QED
    BY <2>1, Zenon DEF Read, ReadData, ReadChecksum, ReadExcess, IsChecksum
<1>5. pos' = 1
  <2>1. pos' = At + 1
    BY <1>2, <1>4, Zenon DEF ReadHeader
  <2>2. QED
    BY <1>3, <2>1, SMT
<1>6. length' = length
  <2>1. At # 2
    BY <1>3, SMT
  <2>2. QED
    BY <1>4, <2>1, Zenon DEF ReadHeader
<1>7. sum' = sum
  <2>1. ~IsChecksum /\ ~(At >= 3)
    BY <1>3, SMT DEF IsChecksum
  <2>2. QED
    BY <1>1, <2>1, Zenon DEF TakeByte, Sum
<1>8. QED
  BY <1>2, <1>4, <1>5, <1>6, <1>7 DEF ReadHeader

-----------------------------------------------------------------------------
\* A line that loses nothing.

\* What the reader has kept of a frame with the data d when the k-th byte of
\* its body is next.
Kept(d, k) ==
  /\ k > 2 => length = Len(d) + 1
  /\ \A i \in 1 .. k - 4 : buf[i - 1] = d[i]

\* The reader takes the byte that is next in its frame,
LEMMA TakeBody ==
  ASSUME TypeInv, TakeByte, NEW d \in Frames, NEW k \in 1 .. Len(d) + 4, pos = k,
         NEW r \in Seq(Bytes), line = SendFrom(Body(d))[k] \o r
  PROVE  At = k /\ Byte = Body(d)[k] /\ line' = SendFrom(Body(d))[k + 1] \o r
<1>1. PICK n \in Nat : n = Len(d)
  BY BodyProperties
<1>2. PICK b, t : b = Body(d)[k] /\ t = SendFrom(Body(d))[k + 1]
  OBVIOUS
<1>3. k \in 1 .. n + 4 /\ k + 1 \in 1 .. n + 5 /\ k # 0
  BY <1>1, SMT
<1>4. b \in Bytes /\ t \in Seq(Bytes) /\ SendFrom(Body(d))[k] = SendByte(b) \o t
  BY <1>1, <1>2, <1>3, FrameLoop
<1>5. t \o r \in Seq(Bytes) /\ line = SendByte(b) \o (t \o r)
  <2>1. SendByte(b) \in Seq(Bytes)
    BY <1>4, SendByteProperties
  <2>2. (SendByte(b) \o t) \o r = SendByte(b) \o (t \o r)
    <3>1. PICK s \in Seq(Bytes) : s = SendByte(b)
      BY <2>1
    <3>2. (s \o t) \o r = s \o (t \o r)
      BY <1>4, ConcatAssociative, SMTT(30)
    <3>3. QED
      BY <3>1, <3>2
  <2>3. t \o r \in Seq(Bytes)
    BY <1>4, ConcatProperties
  <2>4. QED
    BY <1>4, <2>2, <2>3
<1>6. At = pos /\ Byte = b /\ line' = t \o r
  BY <1>3, <1>4, <1>5, TakeSent
<1>7. QED
  BY <1>2, <1>6

\* keeps it where it belongs,
LEMMA ReadBody ==
  ASSUME TypeInv, Read, NEW d \in Frames, NEW k \in 1 .. Len(d) + 3, pos = k, Kept(d, k),
         NEW r \in Seq(Bytes), line = SendFrom(Body(d))[k] \o r
  PROVE  /\ pos' = k + 1
         /\ Kept(d, k + 1)'
         /\ line' = SendFrom(Body(d))[k + 1] \o r
         /\ sum' = IF k > 2 THEN (sum + Body(d)[k]) % 256 ELSE sum
         /\ UNCHANGED <<available, owned, delivered>>
<1>0. TakeByte
  BY DEF Read, ReadHeader, ReadData, ReadChecksum, ReadExcess
<1>1. PICK n \in Nat : n = Len(d)
  BY BodyProperties
<1>2. k \in 1 .. n + 3 /\ n + 4 <= MaxFrame /\ k \in 1 .. n + 4 /\ k \in Nat
  <2>1. n <= MaxFrame - 4
    BY <1>1, BodyProperties
  <2>2. QED
    BY <1>1, <2>1, FramesFit, SMT
<1>3. At = k /\ Byte = Body(d)[k] /\ line' = SendFrom(Body(d))[k + 1] \o r
  BY <1>0, <1>1, <1>2, TakeBody
<1>4. ~IsChecksum /\ ~Exceeds
  <2>1. ~Exceeds
    BY <1>2, <1>3, FramesFit, SMT DEF Exceeds
  <2>2. k > 2 => length = n + 1
    BY <1>1 DEF Kept
  <2>3. ~IsChecksum
    BY <1>2, <1>3, <2>2, SMT DEF IsChecksum, PacketLength
  <2>4. QED
    BY <2>1, <2>3
<1>5. sum' = IF k > 2 THEN (sum + Body(d)[k]) % 256 ELSE sum
  <2>1. sum' = IF At >= 3 THEN (sum + Byte) % 256 ELSE sum
    BY <1>0, <1>4, Zenon DEF TakeByte, Sum
  <2>2. At >= 3 <=> k > 2
    BY <1>2, <1>3, SMT
  <2>3. QED
    BY <1>3, <2>1, <2>2, Zenon
<1>6. CASE k <= 3
  <2>1. ReadHeader
    <3>1. ~(At > 3)
      BY <1>2, <1>3, <1>6, SMT
    <3>2. QED
      BY <1>4, <3>1, Zenon DEF Read, ReadData, ReadChecksum, ReadExcess
  <2>2. UNCHANGED <<buf, available, owned, delivered>>
    BY <2>1 DEF ReadHeader
  <2>3. pos' = k + 1
    <3>1. At # 0
      BY <1>2, <1>3, SMT
    <3>2. QED
      BY <1>3, <2>1, <3>1, Zenon DEF ReadHeader
  <2>4. length' = IF k = 2 THEN n + 1 ELSE length
    <3>1. length' = IF At = 2 THEN Byte ELSE length
      BY <2>1 DEF ReadHeader
    <3>2. Body(d)[2] = n + 1
      BY <1>1, BodyProperties
    <3>3. QED
      BY <1>3, <3>1, <3>2, Zenon
  <2>5. k + 1 > 2 => length' = n + 1
    <3>1. k > 2 => length = n + 1
      BY <1>1 DEF Kept
    <3>2. k + 1 > 2 => k = 2 \/ (k > 2 /\ k # 2)
      BY <1>2, SMT
    <3>3. QED
      BY <2>4, <3>1, <3>2, Zenon
  <2>6. \A i \in 1 .. (k + 1) - 4 : FALSE
    BY <1>2, <1>6, SMT
  <2>7. Kept(d, k + 1)'
    BY <1>1, <2>5, <2>6, Zenon DEF Kept
  <2>8. QED
    BY <1>3, <1>5, <2>2, <2>3, <2>7
<1>7. CASE k > 3
  <2>1. ReadData
    <3>1. ~(At <= 3)
      BY <1>2, <1>3, <1>7, SMT
    <3>2. QED
      BY <1>4, <3>1, Zenon DEF Read, ReadHeader, ReadChecksum, ReadExcess
  <2>2. UNCHANGED <<length, available, owned, delivered>>
    BY <2>1 DEF ReadData
  <2>3. pos' = k + 1
    BY <1>3, <2>1 DEF ReadData
  <2>4. buf' = [buf EXCEPT ![k - 4] = Byte]
    BY <1>3, <2>1 DEF ReadData
  <2>5. PICK i0 \in 1 .. n : i0 = k - 3
    BY <1>2, <1>7, SMT
  <2>6. Byte = d[i0]
    <3>1. i0 + 3 = k
      BY <1>2, <2>5, SMT
    <3>2. QED
      BY <1>1, <1>3, <3>1, BodyProperties
  <2>7. buf \in [0 .. MaxFrame - 1 -> Bytes]
    BY DEF TypeInv, TypeOK
  <2>8. ASSUME NEW i \in 1 .. (k + 1) - 4
        PROVE  buf'[i - 1] = d[i]
    <3>1. i - 1 \in 0 .. MaxFrame - 1
      BY <1>2, FramesFit, SMT
    <3>2. CASE i = i0
      <4>1. i - 1 = k - 4
        BY <1>2, <2>5, <3>2, SMT
      <4>2. QED
        BY <2>4, <2>6, <2>7, <3>1, <3>2, <4>1, Zenon
    <3>3. CASE i # i0
      <4>1. i - 1 # k - 4 /\ i \in 1 .. k - 4
        BY <1>2, <2>5, <3>3, SMT
      <4>2. buf[i - 1] = d[i]
        BY <4>1 DEF Kept
      <4>3. QED
        BY <2>4, <2>7, <3>1, <4>1, <4>2, Zenon
    <3>4. QED
      BY <3>2, <3>3
  <2>9. length' = n + 1
    <3>1. k > 2
      BY <1>2, <1>7, SMT
    <3>2. QED
      BY <1>1, <2>2, <3>1 DEF Kept
  <2>10. Kept(d, k + 1)'
    BY <1>1, <2>8, <2>9, Zenon DEF Kept
  <2>11. QED
    BY <1>3, <1>5, <2>2, <2>3, <2>10
<1>8. QED
  BY <1>2, <1>6, <1>7, SMT

\* and hands on the whole at the checksum, or drops it.
HandsOn(d) ==
  /\ available'
  /\ owned' = owned
  /\ \E rec \in [data : {d}, good : BOOLEAN, kept : BOOLEAN] : delivered' = Append(delivered, rec)

Drops == ~available' /\ ~owned'

LEMMA ReadEnd ==
  ASSUME TypeInv, Read, NEW d \in Frames,
         NEW k \in 1 .. Len(d) + 4, k > Len(d) + 3, pos = k, Kept(d, k),
         NEW r \in Seq(Bytes), line = SendFrom(Body(d))[k] \o r
  PROVE  /\ pos' = 0
         /\ sum' = 0
         /\ line' = r
         /\ HandsOn(d) \/ ((sum + Body(d)[k]) % 256 # 255 /\ Drops)
<1>0. TakeByte
  BY DEF Read, ReadHeader, ReadData, ReadChecksum, ReadExcess
<1>1. PICK n \in Nat : n = Len(d)
  BY BodyProperties
<1>2. k = n + 4 /\ n + 4 <= MaxFrame /\ k \in 1 .. n + 4 /\ k \in Nat /\ k > 3
  <2>1. n <= MaxFrame - 4
    BY <1>1, BodyProperties
  <2>2. QED
    BY <1>1, <2>1, FramesFit, SMT
<1>3. At = k /\ Byte = Body(d)[k] /\ line' = SendFrom(Body(d))[k + 1] \o r
  BY <1>0, <1>1, <1>2, TakeBody
<1>4. line' = r
  <2>1. k + 1 = n + 5
    BY <1>2, SMT
  <2>2. SendFrom(Body(d))[n + 5] = <<>>
    BY <1>1, FrameLoop
  <2>3. QED
    BY <1>3, <2>1, <2>2, ConcatEmptySeq
<1>5. IsChecksum /\ ~Exceeds
  <2>1. ~Exceeds
    BY <1>2, <1>3, FramesFit, SMT DEF Exceeds
  <2>2. length = n + 1
    <3>1. k > 2
      BY <1>2, SMT
    <3>2. QED
      BY <1>1, <3>1 DEF Kept
  <2>3. QED
    BY <1>2, <1>3, <2>1, <2>2, SMT DEF IsChecksum, PacketLength
<1>6. ReadChecksum
  <2>1. ~(At <= 3)
    BY <1>2, <1>3, SMT
  <2>2. QED
    BY <1>5, <2>1, Zenon DEF Read, ReadHeader, ReadData, ReadExcess
<1>7. pos' = 0 /\ sum' = 0
  BY <1>0, <1>5, <1>6, Zenon DEF ReadChecksum, TakeByte
<1>8. Respond(Sum = 255, n)
  <2>1. At - 4 = n
    BY <1>2, <1>3, SMT
  <2>2. QED
    BY <1>6, <2>1 DEF ReadChecksum
<1>9. Sum = (sum + Body(d)[k]) % 256
  <2>1. At >= 3
    BY <1>2, <1>3, SMT
  <2>2. QED
    BY <1>3, <2>1, Zenon DEF Sum
<1>10. available \in BOOLEAN /\ owned \in BOOLEAN
  BY DEF TypeInv, TypeOK
<1>11. CASE available \/ Sum = 255
  <2>1. Absorb(Sum = 255, n) /\ available'
    BY <1>8, <1>11, Zenon DEF Respond
  <2>2. owned' = owned
    BY <2>1 DEF Absorb
  <2>3. PICK w : w = [i \in 1 .. n |-> buf[i - 1]]
    OBVIOUS
  <2>4. w = d
    <3>1. d \in Seq(Bytes)
      BY BodyProperties
    <3>2. d = [i \in 1 .. n |-> d[i]]
      BY <1>1, <3>1
    <3>3. k - 4 = n
      BY <1>2, SMT
    <3>4. \A i \in 1 .. n : buf[i - 1] = d[i]
      BY <3>3 DEF Kept
    <3>5. QED
      BY <2>3, <3>2, <3>4, Zenon
  <2>5. PICK g \in BOOLEAN : g = (Sum = 255)
    OBVIOUS
  <2>6. delivered' = Append(delivered, [data |-> d, good |-> g, kept |-> owned])
    BY <2>1, <2>3, <2>4, <2>5 DEF Absorb
  <2>7. [data |-> d, good |-> g, kept |-> owned] \in [data : {d}, good : BOOLEAN, kept : BOOLEAN]
    BY <1>10
  <2>8. QED
    BY <1>4, <1>7, <2>1, <2>2, <2>6, <2>7 DEF HandsOn
<1>12. CASE ~(available \/ Sum = 255)
  <2>1. Reset /\ ~available'
    BY <1>8, <1>12, Zenon DEF Respond
  <2>2. ~owned'
    BY <2>1, Zenon DEF Reset
  <2>3. (sum + Body(d)[k]) % 256 # 255
    BY <1>9, <1>12
  <2>4. QED
    BY <1>4, <1>7, <2>1, <2>2, <2>3 DEF Drops
<1>13. QED
  BY <1>11, <1>12

\* What is on the line behind the n-th frame: at most one frame more, whole.
Waiting(n) == IF Len(sent) = n THEN <<>> ELSE SendRequest(sent[n + 1])

\* The reader has handed on n frames, and the next has not begun to arrive; or it
\* has, as the n-th, and its k-th byte is the next on the line.
Between(n) ==
  /\ pos = 0 /\ sum = 0
  /\ Len(sent) - n \in 0 .. 1
  /\ line = Waiting(n)

Within(n, k) ==
  /\ Len(sent) - n \in 0 .. 1
  /\ k \in 1 .. Len(sent[n]) + 4 /\ pos = k
  /\ Kept(sent[n], k)
  /\ sum = IF k > 3 THEN Sums(sent[n])[k - 4] ELSE 0
  /\ line = SendFrom(Body(sent[n]))[k] \o Waiting(n)

InStep ==
  lost = 0 =>
    /\ \A m \in DOMAIN delivered : delivered[m].data = sent[m]
    /\ Between(Len(delivered)) \/ Within(Len(delivered) + 1, pos)

LEMMA WaitingProperties ==
  ASSUME TypeInv, NEW n \in Nat, Len(sent) - n \in 0 .. 1
  PROVE  /\ Waiting(n) \in Seq(Bytes)
         /\ Waiting(n) = <<>> <=> Len(sent) = n
         /\ Len(sent) # n => /\ Len(sent) = n + 1
                             /\ sent[n + 1] \in Frames
                             /\ Waiting(n) = SendRequest(sent[n + 1])
                             /\ Len(Waiting(n)) > 1
<1>1. sent \in Seq(Frames) /\ Len(sent) \in Nat
  BY LenProperties DEF TypeInv, TypeOK
<1>2. CASE Len(sent) = n
  BY <1>2, EmptySeq, Zenon DEF Waiting
<1>3. CASE Len(sent) # n
  <2>1. Len(sent) = n + 1 /\ n + 1 \in 1 .. Len(sent)
    BY <1>1, <1>3, SMT
  <2>2. PICK d : d = sent[n + 1]
    OBVIOUS
  <2>3. d \in Frames
    BY <1>1, <2>1, <2>2, ElementOfSeq
  <2>4. Waiting(n) = SendRequest(d)
    BY <1>3, <2>2, Zenon DEF Waiting
  <2>5. PICK q : q = SendRequest(d)
    OBVIOUS
  <2>6. q \in Seq(Bytes) /\ Len(q) > 1
    BY <2>3, <2>5, RequestProperties
  <2>7. q # <<>>
    BY <2>6, SMT
  <2>8. QED
    BY <1>3, <2>1, <2>2, <2>3, <2>4, <2>5, <2>6, <2>7
<1>4. QED
  BY <1>2, <1>3

LEMMA InitInStep == Init => InStep
<1> SUFFICES ASSUME Init
             PROVE  InStep
  OBVIOUS
<1>1. Len(delivered) = 0 /\ Len(sent) = 0 /\ \A m \in DOMAIN delivered : FALSE
  BY DEF Init
<1>2. Waiting(0) = <<>>
  BY <1>1 DEF Waiting
<1>3. Between(0)
  BY <1>1, <1>2, SMT DEF Init, Between
<1>4. QED
  BY <1>1, <1>3, Zenon DEF InStep

\* A frame is put on a line that holds one byte at most.
LEMMA SendInStep ==
  ASSUME TypeInv, TypeInv', InStep, Send, lost = 0
  PROVE  InStep'
<1>0. UNCHANGED <<pos, sum, length, buf, delivered>>
  BY DEF Send
<1>1. PICK d \in Frames : sent' = Append(sent, d) /\ line' = line \o SendRequest(d)
  BY DEF Send
<1>2. PICK n \in Nat : n = Len(delivered)
  <2>1. Len(delivered) \in Nat
    BY LenProperties DEF TypeInv, TypeOK
  <2>2. QED
    BY <2>1
<1>3. PICK l \in Nat : l = Len(sent)
  <2>1. Len(sent) \in Nat
    BY LenProperties DEF TypeInv, TypeOK
  <2>2. QED
    BY <2>1
<1>4. /\ sent \in Seq(Frames)
      /\ Len(sent') = l + 1
      /\ \A i \in 1 .. l : sent'[i] = sent[i]
      /\ sent'[l + 1] = d
  <2>1. sent \in Seq(Frames)
    BY DEF TypeInv, TypeOK
  <2>2. QED
    BY <1>1, <1>3, <2>1, AppendProperties
<1>5. PICK q : q = SendRequest(d)
  OBVIOUS
<1>6. q \in Seq(Bytes) /\ Len(q) \in Nat /\ Len(line) \in Nat /\ Len(line) <= 1
  <2>1. q \in Seq(Bytes)
    BY <1>5, RequestProperties
  <2>2. line \in Seq(Bytes)
    BY DEF TypeInv, TypeOK
  <2>3. QED
    BY <2>1, <2>2, LenProperties DEF Send
<1>7. Waiting(l)' = q
  BY <1>3, <1>4, <1>5, SMT DEF Waiting
<1>8. CASE Between(n)
  <2>1. l - n \in 0 .. 1 /\ line = Waiting(n)
    BY <1>3, <1>8 DEF Between
  <2>2. l = n /\ line = <<>>
    BY <1>3, <1>6, <2>1, WaitingProperties, SMT
  <2>3. line' = q
    BY <1>1, <1>5, <1>6, <2>2, ConcatEmptySeq
  <2>4. Between(n)'
    <3>1. Len(sent') - n \in 0 .. 1
      BY <1>4, <2>2, SMT
    <3>2. QED
      BY <1>0, <1>7, <1>8, <2>2, <2>3, <3>1 DEF Between
  <2>5. \A m \in DOMAIN delivered : delivered[m].data = sent[m] /\ sent'[m] = sent[m]
    <3>1. DOMAIN delivered = 1 .. l
      BY <1>2, <2>2, LenProperties DEF TypeInv, TypeOK
    <3>2. QED
      BY <1>4, <3>1 DEF InStep
  <2>6. QED
    BY <1>0, <1>2, <2>4, <2>5 DEF InStep
<1>9. CASE Within(n + 1, pos)
  <2>0. PICK m \in Nat : m = n + 1
    BY SMT
  <2>1. PICK k : k = pos
    OBVIOUS
  <2>2. PICK f : f = sent[m]
    OBVIOUS
  <2>3. /\ l - m \in 0 .. 1
        /\ k \in 1 .. Len(f) + 4 /\ pos = k
        /\ Kept(f, k)
        /\ sum = IF k > 3 THEN Sums(f)[k - 4] ELSE 0
        /\ line = SendFrom(Body(f))[k] \o Waiting(m)
    BY <1>3, <1>9, <2>1, <2>0, <2>2, Zenon DEF Within
  <2>4. m \in 1 .. l
    BY <1>3, <2>0, <2>2, <2>3, SMT
  <2>5. f \in Frames
    BY <1>3, <1>4, <2>0, <2>2, <2>4, ElementOfSeq
  <2>6. PICK r, w : r = SendFrom(Body(f))[k] /\ w = Waiting(m)
    OBVIOUS
  <2>7. r \in Seq(Bytes) /\ Len(r) >= 1 /\ Len(r) \in Nat
    <3>1. PICK j \in Nat : j = Len(f)
      BY <2>5, BodyProperties
    <3>2. k \in 1 .. j + 4 /\ k \in 1 .. j + 5
      BY <2>3, <3>1, SMT
    <3>3. r \in Seq(Bytes) /\ Len(r) >= 1
      BY <2>5, <2>6, <3>1, <3>2, FrameLoop
    <3>4. QED
      BY <3>3, LenProperties
  <2>8. w \in Seq(Bytes) /\ (l # m => Len(w) > 1)
    BY <1>3, <2>3, <2>6, WaitingProperties
  <2>9. l = m
    <3>1. Len(line) = Len(r) + Len(w) /\ Len(w) \in Nat
      BY <2>3, <2>6, <2>7, <2>8, ConcatProperties, LenProperties
    <3>2. \A a, b, c \in Nat : a <= 1 /\ a = b + c /\ b >= 1 => ~(c > 1)
      BY SMT
    <3>3. QED
      BY <1>6, <2>7, <2>8, <3>1, <3>2
  <2>10. w = <<>>
    BY <1>3, <2>3, <2>6, <2>9, WaitingProperties
  <2>11. line' = r \o q
    BY <1>1, <1>5, <2>3, <2>6, <2>7, <2>10, ConcatEmptySeq
  <2>12. sent'[m] = f
    BY <1>4, <2>0, <2>2, <2>4
  <2>13. Kept(f, k)'
    BY <1>0, <2>3 DEF Kept
  <2>14. Len(sent') - m \in 0 .. 1
    BY <1>4, <2>9, SMT
  <2>15. Within(m, k)'
    BY <1>0, <1>7, <2>3, <2>6, <2>9, <2>11, <2>12, <2>13, <2>14, Zenon DEF Within
  <2>16. \A i \in DOMAIN delivered : delivered[i].data = sent[i] /\ sent'[i] = sent[i]
    <3>1. DOMAIN delivered = 1 .. n
      BY <1>2, LenProperties DEF TypeInv, TypeOK
    <3>2. \A i \in 1 .. n : i \in 1 .. l
      BY <2>0, <2>2, <2>4, SMT
    <3>3. QED
      BY <1>4, <3>1, <3>2 DEF InStep
  <2>17. QED
    BY <1>0, <1>2, <2>1, <2>0, <2>2, <2>15, <2>16 DEF InStep
<1>10. QED
  BY <1>2, <1>8, <1>9 DEF InStep

\* The checksum of a frame, byte by byte, and that it ends at 255.
LEMMA SumsStep ==
  ASSUME NEW f \in Frames, NEW k \in 3 .. Len(f) + 3,
         NEW x, x = IF k > 3 THEN Sums(f)[k - 4] ELSE 0
  PROVE  (x + Body(f)[k]) % 256 = Sums(f)[(k + 1) - 4]
<1>1. PICK j \in Nat : j = Len(f)
  BY BodyProperties
<1>2. PICK t : t = Sums(f)
  OBVIOUS
<1>3. /\ t[0] = ApiId
      /\ \A i \in 1 .. j : t[i] = (t[i - 1] + f[i]) % 256
  <2>1. f \in Seq(Bytes)
    BY BodyProperties
  <2>2. /\ Sums(f)[0] = ApiId
        /\ \A i \in 1 .. Len(f) : Sums(f)[i] = (Sums(f)[i - 1] + f[i]) % 256
    BY <2>1, SumsLoop
  <2>3. QED
    BY <1>1, <1>2, <2>2
<1>4. CASE k = 3
  <2>1. x = 0 /\ (k + 1) - 4 = 0
    BY <1>4, SMT
  <2>2. Body(f)[k] = ApiId
    BY <1>4, BodyProperties
  <2>3. (0 + ApiId) % 256 = ApiId
    <3>1. ApiId \in Int /\ 0 <= ApiId /\ ApiId <= 255
      BY ApiIdAssumption, BytesRange
    <3>2. QED
      BY <3>1, SMT
  <2>4. QED
    BY <1>2, <1>3, <2>1, <2>2, <2>3
<1>5. CASE k # 3
  <2>1. PICK i \in 1 .. j : i = k - 3 /\ i - 1 = k - 4 /\ i = (k + 1) - 4 /\ i + 3 = k /\ k > 3
    BY <1>1, <1>5, SMT
  <2>2. Body(f)[k] = f[i]
    BY <1>1, <2>1, BodyProperties
  <2>3. x = t[i - 1]
    BY <1>2, <2>1, Zenon
  <2>4. QED
    BY <1>2, <1>3, <2>1, <2>2, <2>3
<1>6. QED
  BY <1>4, <1>5

LEMMA SumsEnd ==
  ASSUME NEW f \in Frames
  PROVE  (Sums(f)[Len(f)] + Body(f)[Len(f) + 4]) % 256 = 255
<1>1. PICK j \in Nat : j = Len(f)
  BY BodyProperties
<1>2. PICK c : c = Sums(f)[j]
  OBVIOUS
<1>3. c \in Bytes
  <2>1. j \in 0 .. j /\ f \in Seq(Bytes)
    BY BodyProperties, SMT
  <2>2. Sums(f) \in [0 .. Len(f) -> Bytes]
    BY <2>1, SumsLoop
  <2>3. QED
    BY <1>1, <1>2, <2>1, <2>2
<1>4. c \in Int
  BY <1>3, BytesRange
<1>5. Body(f)[j + 4] = 255 - c
  BY <1>1, <1>2, BodyProperties
<1>6. (c + (255 - c)) % 256 = 255
  <2>1. c + (255 - c) = 255
    BY <1>4, SMT
  <2>2. 255 % 256 = 255
    BY SMT
  <2>3. QED
    BY <2>1, <2>2
<1>7. QED
  BY <1>1, <1>2, <1>5, <1>6

LEMMA ReadInStep ==
  ASSUME TypeInv, InStep, Read, lost = 0
  PROVE  InStep'
<1>0. TakeByte
  BY DEF Read, ReadHeader, ReadData, ReadChecksum, ReadExcess
<1>1. sent' = sent /\ line # <<>>
  BY <1>0 DEF TakeByte, source
<1>2. PICK n \in Nat : n = Len(delivered)
  <2>1. Len(delivered) \in Nat
    BY LenProperties DEF TypeInv, TypeOK
  <2>2. QED
    BY <2>1
<1>3. PICK l \in Nat : l = Len(sent)
  <2>1. Len(sent) \in Nat
    BY LenProperties DEF TypeInv, TypeOK
  <2>2. QED
    BY <2>1
<1>4. PICK m \in Nat : m = n + 1
  BY SMT
<1>5. sent \in Seq(Frames) /\ DOMAIN delivered = 1 .. n
  BY <1>2, LenProperties DEF TypeInv, TypeOK
<1>6. \A i \in DOMAIN delivered : delivered[i].data = sent[i]
  BY DEF InStep
<1>7. CASE Between(n)
  <2>1. l - n \in 0 .. 1 /\ line = Waiting(n) /\ pos = 0 /\ sum = 0
    BY <1>3, <1>7 DEF Between
  <2>2. l = m /\ sent[m] \in Frames /\ line = SendRequest(sent[m])
    BY <1>1, <1>3, <1>4, <2>1, WaitingProperties
  <2>3. PICK f \in Frames : f = sent[m]
    BY <2>2
  <2>4. PICK r : r = SendFrom(Body(f))[1]
    OBVIOUS
  <2>5. r \in Seq(Bytes) /\ line = <<START>> \o r
    BY <2>2, <2>3, <2>4, RequestProperties
  <2>6. pos' = 1 /\ line' = r /\ UNCHANGED <<sum, delivered>>
    BY <2>5, TakeStart
  <2>7. Waiting(m)' = <<>>
    BY <1>1, <1>3, <2>2 DEF Waiting
  <2>8. line' = r \o <<>>
    BY <2>5, <2>6, ConcatEmptySeq
  <2>9. PICK j \in Nat : j = Len(f)
    BY BodyProperties
  <2>10. Kept(f, 1)'
    <3>1. ~(1 > 2) /\ \A i \in 1 .. 1 - 4 : FALSE
      BY SMT
    <3>2. QED
      BY <3>1, Zenon DEF Kept
  <2>11. Len(sent') - m \in 0 .. 1 /\ 1 \in 1 .. j + 4 /\ ~(1 > 3)
    BY <1>1, <1>3, <2>2, SMT
  <2>12. Within(m, 1)'
    BY <1>1, <2>1, <2>3, <2>4, <2>6, <2>7, <2>8, <2>9, <2>10, <2>11, Zenon DEF Within
  <2>13. QED
    BY <1>1, <1>2, <1>4, <1>6, <2>6, <2>12 DEF InStep
<1>8. CASE Within(m, pos)
  <2>1. PICK k : k = pos
    OBVIOUS
  <2>2. PICK f : f = sent[m]
    OBVIOUS
  <2>3. /\ l - m \in 0 .. 1
        /\ k \in 1 .. Len(f) + 4 /\ pos = k
        /\ Kept(f, k)
        /\ sum = IF k > 3 THEN Sums(f)[k - 4] ELSE 0
        /\ line = SendFrom(Body(f))[k] \o Waiting(m)
    BY <1>3, <1>8, <2>1, <2>2, Zenon DEF Within
  <2>4. m \in 1 .. l
    BY <1>3, <1>4, <2>3, SMT
  <2>5. f \in Frames
    BY <1>3, <1>5, <2>2, <2>4, ElementOfSeq
  <2>6. PICK w \in Seq(Bytes) : w = Waiting(m)
    BY <1>3, <2>3, WaitingProperties
  <2>7. Waiting(m)' = w
    BY <1>1, <2>6 DEF Waiting
  <2>8. PICK j \in Nat : j = Len(f)
    BY <2>5, BodyProperties
  <2>9. CASE k # j + 4
    <3>1. k \in 1 .. j + 3 /\ k + 1 \in 1 .. j + 4
      BY <2>3, <2>8, <2>9, SMT
    <3>2. /\ pos' = k + 1
          /\ Kept(f, k + 1)'
          /\ line' = SendFrom(Body(f))[k + 1] \o w
          /\ sum' = IF k > 2 THEN (sum + Body(f)[k]) % 256 ELSE sum
          /\ delivered' = delivered
      BY <2>3, <2>5, <2>6, <2>8, <3>1, ReadBody
    <3>3. sum' = IF k + 1 > 3 THEN Sums(f)[(k + 1) - 4] ELSE 0
      <4>1. CASE k > 2
        <5>1. k \in 3 .. j + 3 /\ k + 1 > 3
          BY <3>1, <4>1, SMT
        <5>2. (sum + Body(f)[k]) % 256 = Sums(f)[(k + 1) - 4]
          BY <2>3, <2>5, <2>8, <5>1, SumsStep
        <5>3. QED
          BY <3>2, <4>1, <5>1, <5>2, Zenon
      <4>2. CASE ~(k > 2)
        <5>1. ~(k > 3) /\ ~(k + 1 > 3)
          BY <3>1, <4>2, SMT
        <5>2. QED
          BY <2>3, <3>2, <4>2, <5>1, Zenon
      <4>3. QED
        BY <4>1, <4>2
    <3>4. Len(sent') - m \in 0 .. 1
      BY <1>1, <1>3, <2>3
    <3>5. Within(m, k + 1)'
      BY <1>1, <2>2, <2>7, <2>8, <3>1, <3>2, <3>3, <3>4, Zenon DEF Within
    <3>6. QED
      BY <1>1, <1>2, <1>4, <1>6, <3>2, <3>5 DEF InStep
  <2>10. CASE k = j + 4
    <3>1. sum = Sums(f)[j]
      <4>1. k > 3 /\ k - 4 = j
        BY <2>10, SMT
      <4>2. QED
        BY <2>3, <4>1, Zenon
    <3>2. (sum + Body(f)[k]) % 256 = 255
      BY <2>5, <2>8, <2>10, <3>1, SumsEnd
    <3>3. /\ pos' = 0 /\ sum' = 0 /\ line' = w
          /\ \E rec \in [data : {f}, good : BOOLEAN, kept : BOOLEAN] :
               delivered' = Append(delivered, rec)
      <4>1. k \in 1 .. j + 4 /\ k > j + 3
        BY <2>10, SMT
      <4>2. /\ pos' = 0 /\ sum' = 0 /\ line' = w
            /\ HandsOn(f) \/ ((sum + Body(f)[k]) % 256 # 255 /\ Drops)
        BY <2>3, <2>5, <2>6, <2>8, <4>1, ReadEnd
      <4>3. QED
        BY <3>2, <4>2, Zenon DEF HandsOn
    <3>4. PICK rec : delivered' = Append(delivered, rec) /\ rec.data = f
      BY <3>3
    <3>5. /\ Len(delivered') = m
          /\ DOMAIN delivered' = 1 .. m
          /\ \A i \in 1 .. n : delivered'[i] = delivered[i]
          /\ delivered'[m] = rec
      BY <1>2, <1>4, <3>4, SMT DEF TypeInv, TypeOK
    <3>6. Between(m)'
      <4>1. Len(sent') - m \in 0 .. 1
        BY <1>1, <1>3, <2>3
      <4>2. QED
        BY <2>7, <3>3, <4>1 DEF Between
    <3>7. \A i \in DOMAIN delivered' : delivered'[i].data = sent'[i]
      <4>1. \A i \in 1 .. m : i = m \/ i \in 1 .. n
        BY <1>4, SMT
      <4>2. QED
        BY <1>1, <1>5, <1>6, <2>2, <3>4, <3>5, <4>1
    <3>8. QED
      BY <3>5, <3>6, <3>7 DEF InStep
  <2>11. QED
    BY <2>9, <2>10
<1>9. QED
  BY <1>2, <1>4, <1>7, <1>8 DEF InStep

LEMMA StepInStep == TypeInv /\ TypeInv' /\ InStep /\ [Next]_vars => InStep'
<1> SUFFICES ASSUME TypeInv, TypeInv', InStep, [Next]_vars, lost' = 0
             PROVE  InStep'
  BY DEF InStep
<1>1. CASE Lose
  <2>1. lost \in 0 .. MaxLost /\ lost' = lost + 1
    BY <1>1 DEF Lose, TypeInv, TypeOK
  <2>2. QED
    BY <2>1, BoundsAssumption, SMT
<1>2. CASE Send
  <2>1. lost = 0
    BY <1>2 DEF Send
  <2>2. QED
    BY <1>2, <2>1, SendInStep
<1>3. CASE Read
  <2>1. lost = 0
    BY <1>3 DEF Read, ReadHeader, ReadData, ReadChecksum, ReadExcess, TakeByte, source
  <2>2. QED
    BY <1>3, <2>1, ReadInStep
<1>4. CASE UNCHANGED vars
  BY <1>4 DEF vars, InStep, Between, Within, Waiting, Kept
<1>5. QED
  BY <1>1, <1>2, <1>3, <1>4 DEF Next

\* On a line that loses nothing, the reader hands on what was written, frame by
\* frame and in that order, whatever bytes the frames hold and however the
\* reading and the writing alternate (ZBStack.cpp:371-470, 472-509).
THEOREM InOrder == Spec => []DeliveredInOrder
<1>1. TypeInv /\ InStep => DeliveredInOrder
  <2> SUFFICES ASSUME TypeInv, InStep, lost = 0
               PROVE  Len(delivered) <= Len(sent)
    BY DEF InStep, DeliveredInOrder
  <2>1. Len(delivered) \in Nat /\ Len(sent) \in Nat
    BY LenProperties DEF TypeInv, TypeOK
  <2>2. \/ Len(sent) - Len(delivered) \in 0 .. 1
        \/ Len(sent) - (Len(delivered) + 1) \in 0 .. 1
    BY DEF InStep, Between, Within
  <2>3. \A a, b \in Nat : b - a \in 0 .. 1 \/ b - (a + 1) \in 0 .. 1 => a <= b
    BY SMT
  <2>4. QED
    BY <2>1, <2>2, <2>3
<1>2. QED
  BY InitTypes, StepTypes, InitInStep, StepInStep, <1>1, PTL DEF Spec

-----------------------------------------------------------------------------
\* A line that lost something.  How many frames have been sent whole since:
Whole == Len(sent) - hit

\* The bytes that do not change what the reader does with the next one.
Harmless == Bytes \ {START, ESCAPE}

AtMostOne(S) == {<<>>} \cup {<<b>> : b \in S}

\* The first frame behind a loss follows at most one byte, of which the reader
\* may make anything.  Whatever it makes of the frame, it takes escapes with
\* the bytes behind them, unless it waits for a start byte.
FirstBehind(d) ==
  \/ \E g \in AtMostOne(Bytes) : line = g \o SendRequest(d)
  \/ \E k \in 1 .. Len(d) + 5 : line = SendFrom(Body(d))[k]
  \/ /\ pos = 0
     /\ \E k \in 1 .. Len(d) + 4 :
          /\ MarksSpecial(Body(d)[k])
          /\ line = <<Flip(Body(d)[k])>> \o SendFrom(Body(d))[k + 1]

\* So that the second one is behind a byte at most that cannot swallow its
\* start byte, and is read in step.
SecondBehind(d) ==
  \/ \E g \in AtMostOne(Harmless) : line = g \o SendRequest(d)
  \/ /\ pos \in 1 .. Len(d) + 4
     /\ Kept(d, pos)
     /\ line = SendFrom(Body(d))[pos]
  \/ /\ line = <<>>
     /\ available /\ owned => Last(delivered).data = d

Recovering ==
  /\ Whole = 1 => FirstBehind(Last(sent))
  /\ Whole >= 2 => SecondBehind(Last(sent))

LEMMA LastOfAppend ==
  ASSUME NEW S, NEW s \in Seq(S), NEW e \in S
  PROVE  Last(Append(s, e)) = e
<1>1. Len(Append(s, e)) = Len(s) + 1 /\ Append(s, e)[Len(s) + 1] = e
  BY AppendProperties
<1>2. QED
  BY <1>1 DEF Last

LEMMA LastSent ==
  ASSUME TypeInv, Whole >= 1
  PROVE  Last(sent) \in Frames
<1>1. sent \in Seq(Frames) /\ Len(sent) \in Nat /\ hit \in Nat
  BY LenProperties, BoundsAssumption DEF TypeInv, TypeOK
<1>2. Len(sent) \in 1 .. Len(sent)
  <2>1. \A l, h \in Nat : l - h >= 1 => l \in 1 .. l
    BY SMT
  <2>2. QED
    BY <1>1, <2>1 DEF Whole
<1>3. QED
  BY <1>1, <1>2, ElementOfSeq DEF Last

\* A frame and a byte before it are longer than one byte.
LEMMA RequestLong ==
  ASSUME NEW d \in Frames, NEW g \in AtMostOne(Bytes)
  PROVE  /\ g \in Seq(Bytes)
         /\ Len(g \o SendRequest(d)) > 1
<1>1. g \in Seq(Bytes)
  <2>1. \A b \in Bytes : <<b>> \in Seq(Bytes)
    OBVIOUS
  <2>2. <<>> \in Seq(Bytes)
    BY EmptySeq
  <2>3. QED
    BY <2>1, <2>2, Zenon DEF AtMostOne
<1>2. PICK q : q = SendRequest(d)
  OBVIOUS
<1>3. q \in Seq(Bytes) /\ Len(q) > 1
  BY <1>2, RequestProperties
<1>4. Len(g \o q) = Len(g) + Len(q) /\ Len(g) \in Nat /\ Len(q) \in Nat
  BY <1>1, <1>3, ConcatProperties, LenProperties
<1>5. \A a, b \in Nat : b > 1 => a + b > 1
  BY SMT
<1>6. QED
  BY <1>1, <1>2, <1>3, <1>4, <1>5

LEMMA HarmlessBytes ==
  /\ \A b \in Bytes : ~MarksSpecial(b) => b \in Harmless
  /\ AtMostOne(Harmless) \subseteq AtMostOne(Bytes)
<1>1. \A b \in Bytes : ~MarksSpecial(b) => b \in Harmless
  BY Zenon DEF Harmless, MarksSpecial
<1>2. AtMostOne(Harmless) \subseteq AtMostOne(Bytes)
  BY Zenon DEF Harmless, AtMostOne
<1>3. QED
  BY <1>1, <1>2

LEMMA ShortSeq ==
  ASSUME NEW s \in Seq(Bytes), Len(s) <= 1
  PROVE  s \in AtMostOne(Bytes)
<1>1. Len(s) \in Nat
  BY LenProperties
<1>2. CASE Len(s) = 0
  <2>1. s = <<>>
    BY <1>2, EmptySeq, SMT
  <2>2. QED
    BY <2>1, Zenon DEF AtMostOne
<1>3. CASE Len(s) = 1
  <2>1. s[1] \in Bytes
    <3>1. 1 \in 1 .. Len(s)
      BY <1>3, SMT
    <3>2. QED
      BY <3>1, ElementOfSeq
  <2>2. s = <<s[1]>>
    BY <1>3, <2>1
  <2>3. QED
    BY <2>1, <2>2, Zenon DEF AtMostOne
<1>4. Len(s) = 0 \/ Len(s) = 1
  BY <1>1, SMT
<1>5. QED
  BY <1>2, <1>3, <1>4, Zenon

\* The last byte of a frame is no escape, nor a start byte.
LEMMA ShortTail ==
  ASSUME NEW d \in Frames, NEW k \in 1 .. Len(d) + 5,
         NEW s, s = SendFrom(Body(d))[k], Len(s) <= 1
  PROVE  s \in AtMostOne(Harmless)
<1>1. PICK n \in Nat : n = Len(d)
  BY BodyProperties
<1>2. CASE k = n + 5
  <2>1. s = <<>>
    BY <1>1, <1>2, FrameLoop
  <2>2. QED
    BY <2>1, Zenon DEF AtMostOne
<1>3. CASE k # n + 5
  <2>1. k \in 1 .. n + 4 /\ k + 1 \in 1 .. n + 5
    BY <1>1, <1>3, SMT
  <2>2. PICK b, t : b = Body(d)[k] /\ t = SendFrom(Body(d))[k + 1]
    OBVIOUS
  <2>3. b \in Bytes /\ t \in Seq(Bytes) /\ s = SendByte(b) \o t
    BY <1>1, <2>1, <2>2, FrameLoop
  <2>4. PICK u : u = SendByte(b)
    OBVIOUS
  <2>5. u \in Seq(Bytes) /\ Len(u) >= 1
    BY <2>3, <2>4, SendByteProperties
  <2>6. Len(s) = Len(u) + Len(t) /\ Len(u) \in Nat /\ Len(t) \in Nat
    BY <2>3, <2>4, <2>5, ConcatProperties, LenProperties
  <2>7. Len(u) = 1 /\ Len(t) = 0
    <3>1. \A x, y, z \in Nat : x = y + z /\ x <= 1 /\ y >= 1 => y = 1 /\ z = 0
      BY SMT
    <3>2. Len(s) \in Nat
      BY <2>6, SMT
    <3>3. QED
      BY <2>5, <2>6, <3>1, <3>2
  <2>8. ~MarksSpecial(b)
    <3>1. MarksSpecial(b) => u = <<ESCAPE, Flip(b)>>
      BY <2>3, <2>4, SendByteProperties
    <3>2. Len(<<ESCAPE, Flip(b)>>) = 2
      OBVIOUS
    <3>3. QED
      BY <2>7, <3>1, <3>2
  <2>9. u = <<b>>
    BY <2>3, <2>4, <2>8, SendByteProperties
  <2>10. t = <<>>
    BY <2>3, <2>7, EmptySeq
  <2>11. s = <<b>>
    BY <2>3, <2>4, <2>5, <2>9, <2>10, ConcatEmptySeq
  <2>12. QED
    BY <2>3, <2>8, <2>11, HarmlessBytes, Zenon DEF AtMostOne
<1>4. QED
  BY <1>2, <1>3

\* When the next frame is sent, no more than a harmless byte is before it.
LEMMA FirstShort ==
  ASSUME TypeInv, NEW d \in Frames, FirstBehind(d), Len(line) <= 1
  PROVE  line \in AtMostOne(Harmless)
<1>1. CASE \E g \in AtMostOne(Bytes) : line = g \o SendRequest(d)
  BY <1>1, RequestLong, SMT
<1>2. CASE \E k \in 1 .. Len(d) + 5 : line = SendFrom(Body(d))[k]
  BY <1>2, ShortTail
<1>3. CASE \E k \in 1 .. Len(d) + 4 :
             /\ MarksSpecial(Body(d)[k])
             /\ line = <<Flip(Body(d)[k])>> \o SendFrom(Body(d))[k + 1]
  <2>1. PICK n \in Nat : n = Len(d)
    BY BodyProperties
  <2>2. PICK k \in 1 .. n + 4 :
             /\ MarksSpecial(Body(d)[k])
             /\ line = <<Flip(Body(d)[k])>> \o SendFrom(Body(d))[k + 1]
    BY <1>3, <2>1
  <2>3. k + 1 \in 1 .. n + 5
    BY SMT
  <2>4. PICK b, t : b = Body(d)[k] /\ t = SendFrom(Body(d))[k + 1]
    OBVIOUS
  <2>5. b \in Bytes /\ t \in Seq(Bytes)
    BY <2>1, <2>3, <2>4, FrameLoop
  <2>6. Flip(b) \in Bytes /\ ~MarksSpecial(Flip(b))
    BY <2>2, <2>4, <2>5, SendByteProperties
  <2>7. PICK u : u = <<Flip(b)>>
    OBVIOUS
  <2>8. u \in Seq(Bytes) /\ Len(u) = 1 /\ line = u \o t
    BY <2>2, <2>4, <2>6, <2>7
  <2>9. Len(line) = Len(u) + Len(t) /\ Len(t) \in Nat
    BY <2>5, <2>8, ConcatProperties, LenProperties
  <2>10. t = <<>>
    <3>1. \A x \in Nat : 1 + x <= 1 => x = 0
      BY SMT
    <3>2. Len(t) = 0
      BY <2>8, <2>9, <3>1
    <3>3. QED
      BY <2>5, <3>2, EmptySeq
  <2>11. line = <<Flip(b)>>
    BY <2>7, <2>8, <2>10, ConcatEmptySeq
  <2>12. QED
    BY <2>6, <2>11, HarmlessBytes, Zenon DEF AtMostOne
<1>4. QED
  BY <1>1, <1>2, <1>3, Zenon DEF FirstBehind

LEMMA SecondShort ==
  ASSUME TypeInv, NEW d \in Frames, SecondBehind(d), Len(line) <= 1
  PROVE  line \in AtMostOne(Harmless)
<1>1. CASE \E g \in AtMostOne(Harmless) : line = g \o SendRequest(d)
  BY <1>1, RequestLong, HarmlessBytes, SMT
<1>2. CASE pos \in 1 .. Len(d) + 4 /\ line = SendFrom(Body(d))[pos]
  <2>1. PICK n \in Nat : n = Len(d)
    BY BodyProperties
  <2>2. pos \in 1 .. n + 5
    BY <1>2, <2>1, SMT
  <2>3. QED
    BY <1>2, <2>1, <2>2, ShortTail
<1>3. CASE line = <<>>
  BY <1>3, Zenon DEF AtMostOne
<1>4. QED
  BY <1>1, <1>2, <1>3, Zenon DEF SecondBehind

LEMMA SendRecovering ==
  ASSUME TypeInv, Recovering, Send
  PROVE  Recovering'
<1>1. PICK d \in Frames : sent' = Append(sent, d) /\ line' = line \o SendRequest(d)
  BY DEF Send
<1>2. hit' = hit /\ Len(line) <= 1
  BY DEF Send
<1>3. sent \in Seq(Frames) /\ line \in Seq(Bytes) /\ Len(sent) \in Nat /\ hit \in Nat /\ hit <= Len(sent)
  BY LenProperties, BoundsAssumption DEF TypeInv, TypeOK
<1>4. Last(sent') = d
  BY <1>1, <1>3, LastOfAppend
<1>5. PICK w \in Nat : w = Whole
  <2>1. \A l, h \in Nat : h <= l => l - h \in Nat
    BY SMT
  <2>2. QED
    BY <1>3, <2>1 DEF Whole
<1>6. Whole' = w + 1
  <2>1. Len(sent') = Len(sent) + 1
    BY <1>1, <1>3, AppendProperties
  <2>2. QED
    BY <1>2, <1>3, <1>5, <2>1, SMT DEF Whole
<1>7. CASE w = 0
  <2>1. line \in AtMostOne(Bytes)
    BY <1>2, <1>3, ShortSeq
  <2>2. FirstBehind(d)'
    BY <1>1, <2>1, Zenon DEF FirstBehind
  <2>3. Whole' = 1 /\ ~(Whole' >= 2)
    BY <1>6, <1>7, SMT
  <2>4. QED
    BY <1>4, <2>2, <2>3, Zenon DEF Recovering
<1>8. CASE w # 0
  <2>1. line \in AtMostOne(Harmless)
    <3>1. Whole >= 1 /\ (Whole = 1 \/ Whole >= 2)
      BY <1>5, <1>8, SMT
    <3>2. Last(sent) \in Frames
      BY <3>1, LastSent
    <3>3. FirstBehind(Last(sent)) \/ SecondBehind(Last(sent))
      BY <3>1, Zenon DEF Recovering
    <3>4. QED
      BY <1>2, <3>2, <3>3, FirstShort, SecondShort
  <2>2. SecondBehind(d)'
    BY <1>1, <2>1, Zenon DEF SecondBehind
  <2>3. Whole' # 1
    BY <1>6, <1>8, SMT
  <2>4. QED
    BY <1>4, <2>2, <2>3, Zenon DEF Recovering
<1>9. QED
  BY <1>7, <1>8

\* A byte that is no start byte does not move a reader that waits for one.
LEMMA TakeWaiting ==
  ASSUME TypeInv, Read, pos = 0, NEW b \in Bytes, b # START,
         NEW r \in Seq(Bytes), line = <<b>> \o r
  PROVE  pos' = 0 /\ line' = r
<1>1. TakeByte
  BY DEF Read, ReadHeader, ReadData, ReadChecksum, ReadExcess
<1>2. At = 0
  BY Zenon DEF At
<1>3. Byte = b /\ line' = r
  BY <1>1, <1>2, TakePlain
<1>4. ReadHeader
  <2>1. ~(At > 3)
    BY <1>2, SMT
  <2>2. QED
    BY <2>1, Zenon DEF Read, ReadData, ReadChecksum, ReadExcess, IsChecksum
<1>5. pos' = 0
  BY <1>2, <1>3, <1>4, Zenon DEF ReadHeader
<1>6. QED
  BY <1>3, <1>5

\* The frame behind its start byte.
LEMMA ReadStart ==
  ASSUME TypeInv, Read, NEW d \in Frames, line = SendRequest(d)
  PROVE  /\ pos' = 1
         /\ line' = SendFrom(Body(d))[1]
         /\ Kept(d, 1)'
<1>1. PICK r \in Seq(Bytes) : r = SendFrom(Body(d))[1] /\ line = <<START>> \o r
  BY RequestProperties
<1>2. pos' = 1 /\ line' = r
  BY <1>1, TakeStart
<1>3. ~(1 > 2) /\ \A i \in 1 .. 1 - 4 : FALSE
  BY SMT
<1>4. Kept(d, 1)'
  BY <1>3, Zenon DEF Kept
<1>5. QED
  BY <1>1, <1>2, <1>4

\* One byte before a frame: the reader takes it, or takes it for an escape and
\* the start byte for the byte it escapes.
LEMMA ReadBefore ==
  ASSUME TypeInv, Read, NEW d \in Frames, NEW b \in Bytes, line = <<b>> \o SendRequest(d)
  PROVE  \/ line' = SendRequest(d)
         \/ b = ESCAPE /\ line' = SendFrom(Body(d))[1]
<1>0. TakeByte
  BY DEF Read, ReadHeader, ReadData, ReadChecksum, ReadExcess
<1>1. PICK q \in Seq(Bytes) : q = SendRequest(d)
  BY RequestProperties
<1>2. CASE b # ESCAPE \/ At = 0
  BY <1>0, <1>1, <1>2, TakePlain
<1>3. CASE b = ESCAPE /\ At # 0
  <2>1. PICK r \in Seq(Bytes) : r = SendFrom(Body(d))[1] /\ q = <<START>> \o r
    BY <1>1, RequestProperties
  <2>2. PICK u : u = <<b, START>>
    OBVIOUS
  <2>3. START \in Bytes
    <3>1. START \in Int /\ 0 <= START /\ START <= 255
      BY SMT DEF START
    <3>2. QED
      BY <3>1, BytesRange
  <2>4. u \in Seq(Bytes) /\ Len(u) = 2 /\ u[1] = b /\ <<b>> \o <<START>> = u
    <3>1. PICK c \in Bytes : c = START
      BY <2>3
    <3>2. u = <<b, c>>
      BY <2>2, <3>1
    <3>3. u \in Seq(Bytes) /\ Len(u) = 2 /\ u[1] = b
      BY <3>2
    <3>4. <<b>> \o <<c>> = u
      <4>1. PICK x, y : x = <<b>> /\ y = <<c>>
        OBVIOUS
      <4>2. x \in Seq(Bytes) /\ y \in Seq(Bytes) /\ u = x \o y
        BY <3>2, <4>1
      <4>3. QED
        BY <4>1, <4>2
    <3>5. QED
      BY <3>1, <3>2, <3>3, <3>4
  <2>5. line = u \o r
    <3>1. <<b>> \in Seq(Bytes) /\ <<START>> \in Seq(Bytes)
      BY <2>3
    <3>2. (<<b>> \o <<START>>) \o r = <<b>> \o (<<START>> \o r)
      BY <2>1, <3>1, ConcatAssociative
    <3>3. QED
      BY <1>1, <2>1, <2>4, <3>2
  <2>6. line[1] = ESCAPE
    <3>1. Len(r) \in Nat
      BY <2>1, LenProperties
    <3>2. 1 \in 1 .. 2 + Len(r) /\ 1 <= 2
      BY <3>1, SMT
    <3>3. QED
      BY <1>3, <2>1, <2>4, <2>5, <3>2, ConcatProperties
  <2>7. Escaped
    <3>1. At \in 0 .. MaxFrame + 1
      BY AtInRange DEF TypeInv
    <3>2. At > 0
      BY <1>3, <3>1, FramesFit, SMT
    <3>3. QED
      BY <2>6, <3>2 DEF Escaped
  <2>8. line' = SubSeq(line, 3, Len(line))
    BY <1>0, <2>7, Zenon DEF TakeByte
  <2>9. line' = r
    <3>1. 2 + 1 = 3 /\ 2 \in Nat
      BY SMT
    <3>2. SubSeq(u \o r, 2 + 1, Len(u \o r)) = r
      BY <2>1, <2>4, <3>1, DropPrefix
    <3>3. QED
      BY <2>5, <2>8, <3>1, <3>2
  <2>10. QED
    BY <1>3, <2>1, <2>9
<1>4. QED
  BY <1>2, <1>3

LEMMA ReadFirst ==
  ASSUME TypeInv, Read, NEW d \in Frames, FirstBehind(d)
  PROVE  FirstBehind(d)'
<1>0. TakeByte /\ line # <<>>
  BY DEF Read, ReadHeader, ReadData, ReadChecksum, ReadExcess, TakeByte
<1>1. PICK n \in Nat : n = Len(d)
  BY BodyProperties
<1>2. CASE \E g \in AtMostOne(Bytes) : line = g \o SendRequest(d)
  <2>1. PICK g \in AtMostOne(Bytes) : line = g \o SendRequest(d)
    BY <1>2
  <2>2. PICK q \in Seq(Bytes) : q = SendRequest(d)
    BY RequestProperties
  <2>3. <<>> \o q = q
    BY <2>2, ConcatEmptySeq
  <2>4. 1 \in 1 .. n + 5
    BY SMT
  <2>5. line' = q \/ line' = SendFrom(Body(d))[1]
    <3>1. CASE g = <<>>
      BY <2>1, <2>2, <2>3, <3>1, ReadStart
    <3>2. CASE \E b \in Bytes : g = <<b>>
      BY <2>1, <2>2, <3>2, ReadBefore
    <3>3. QED
      BY <3>1, <3>2, Zenon DEF AtMostOne
  <2>6. <<>> \in AtMostOne(Bytes)
    BY Zenon DEF AtMostOne
  <2>7. QED
    BY <1>1, <2>2, <2>3, <2>4, <2>5, <2>6, Zenon DEF FirstBehind
<1>3. CASE \E k \in 1 .. Len(d) + 5 : line = SendFrom(Body(d))[k]
  <2>1. PICK k \in 1 .. n + 5 : line = SendFrom(Body(d))[k]
    BY <1>1, <1>3
  <2>2. k \in 1 .. n + 4 /\ k + 1 \in 1 .. n + 5
    <3>1. SendFrom(Body(d))[n + 5] = <<>>
      BY <1>1, FrameLoop
    <3>2. k # n + 5
      BY <1>0, <2>1, <3>1
    <3>3. QED
      BY <3>2, SMT
  <2>3. PICK b, t : b = Body(d)[k] /\ t = SendFrom(Body(d))[k + 1]
    OBVIOUS
  <2>4. b \in Bytes /\ t \in Seq(Bytes) /\ line = SendByte(b) \o t
    BY <1>1, <2>1, <2>2, <2>3, FrameLoop
  <2>5. CASE line' = t
    BY <1>1, <2>2, <2>3, <2>5, Zenon DEF FirstBehind
  <2>6. CASE pos # 0
    BY <1>0, <2>4, <2>5, <2>6, TakeSent
  <2>7. CASE pos = 0 /\ ~MarksSpecial(b)
    <3>1. line = <<b>> \o t /\ b # START
      BY <2>4, <2>7, SendByteProperties DEF MarksSpecial
    <3>2. QED
      BY <2>4, <2>5, <2>7, <3>1, TakeWaiting
  <2>8. CASE pos = 0 /\ MarksSpecial(b)
    <3>1. Flip(b) \in Bytes /\ SendByte(b) = <<ESCAPE, Flip(b)>>
      BY <2>4, <2>8, SendByteProperties
    <3>2. ESCAPE \in Bytes /\ ESCAPE # START
      <4>1. ESCAPE \in Int /\ 0 <= ESCAPE /\ ESCAPE <= 255 /\ ESCAPE # START
        BY SMT DEF START, ESCAPE
      <4>2. QED
        BY <4>1, BytesRange
    <3>3. PICK u, v : u = <<ESCAPE>> /\ v = <<Flip(b)>>
      OBVIOUS
    <3>4. u \in Seq(Bytes) /\ v \in Seq(Bytes) /\ SendByte(b) = u \o v
      BY <3>1, <3>2, <3>3
    <3>5. v \o t \in Seq(Bytes) /\ line = u \o (v \o t)
      <4>1. (u \o v) \o t = u \o (v \o t)
        BY <2>4, <3>4, ConcatAssociative
      <4>2. QED
        BY <2>4, <3>4, <4>1, ConcatProperties
    <3>6. pos' = 0 /\ line' = v \o t
      BY <2>8, <3>2, <3>3, <3>5, TakeWaiting
    <3>7. QED
      BY <1>1, <2>2, <2>3, <2>8, <3>3, <3>6, Zenon DEF FirstBehind
  <2>9. QED
    BY <2>6, <2>7, <2>8
<1>4. CASE /\ pos = 0
           /\ \E k \in 1 .. Len(d) + 4 :
                /\ MarksSpecial(Body(d)[k])
                /\ line = <<Flip(Body(d)[k])>> \o SendFrom(Body(d))[k + 1]
  <2>1. PICK k \in 1 .. n + 4 :
                /\ MarksSpecial(Body(d)[k])
                /\ line = <<Flip(Body(d)[k])>> \o SendFrom(Body(d))[k + 1]
    BY <1>1, <1>4
  <2>2. k + 1 \in 1 .. n + 5
    BY SMT
  <2>3. PICK b, t : b = Body(d)[k] /\ t = SendFrom(Body(d))[k + 1]
    OBVIOUS
  <2>4. b \in Bytes /\ t \in Seq(Bytes)
    BY <1>1, <2>2, <2>3, FrameLoop
  <2>5. Flip(b) \in Bytes /\ Flip(b) # START
    BY <2>1, <2>3, <2>4, SendByteProperties DEF MarksSpecial
  <2>6. line' = t
    BY <1>4, <2>1, <2>3, <2>4, <2>5, TakeWaiting
  <2>7. QED
    BY <1>1, <2>2, <2>3, <2>6, Zenon DEF FirstBehind
<1>5. QED
  BY <1>2, <1>3, <1>4, Zenon DEF FirstBehind

LEMMA ReadSecond ==
  ASSUME TypeInv, Read, NEW d \in Frames, SecondBehind(d)
  PROVE  SecondBehind(d)'
<1>0. TakeByte /\ line # <<>>
  BY DEF Read, ReadHeader, ReadData, ReadChecksum, ReadExcess, TakeByte
<1>1. PICK n \in Nat : n = Len(d)
  BY BodyProperties
<1>2. PICK q \in Seq(Bytes) : q = SendRequest(d)
  BY RequestProperties
<1>3. <<>> \o q = q
  BY <1>2, ConcatEmptySeq
<1>4. CASE line = q
  <2>1. pos' = 1 /\ line' = SendFrom(Body(d))[1] /\ Kept(d, 1)'
    BY <1>2, <1>4, ReadStart
  <2>2. 1 \in 1 .. n + 4
    BY SMT
  <2>3. Kept(d, pos)'
    BY <2>1 DEF Kept
  <2>4. QED
    BY <1>1, <2>1, <2>2, <2>3, Zenon DEF SecondBehind
<1>5. CASE \E b \in Harmless : line = <<b>> \o q
  <2>1. PICK b \in Harmless : line = <<b>> \o q
    BY <1>5
  <2>2. b \in Bytes /\ b # ESCAPE
    BY Zenon DEF Harmless
  <2>3. line' = q
    BY <1>2, <2>1, <2>2, ReadBefore
  <2>4. <<>> \in AtMostOne(Harmless)
    BY Zenon DEF AtMostOne
  <2>5. QED
    BY <1>2, <1>3, <2>3, <2>4, Zenon DEF SecondBehind
<1>6. CASE pos \in 1 .. Len(d) + 4 /\ Kept(d, pos) /\ line = SendFrom(Body(d))[pos]
  <2>1. PICK k \in 1 .. n + 4 : k = pos
    BY <1>1, <1>6
  <2>2. Kept(d, k) /\ line = SendFrom(Body(d))[k]
    BY <1>6, <2>1
  <2>3. PICK e \in Seq(Bytes) : e = <<>>
    BY EmptySeq
  <2>4. line = SendFrom(Body(d))[k] \o e
    <3>1. k \in 1 .. n + 5
      BY SMT
    <3>2. SendFrom(Body(d))[k] \in Seq(Bytes)
      BY <1>1, <3>1, FrameLoop
    <3>3. QED
      BY <2>2, <2>3, <3>2, ConcatEmptySeq
  <2>5. CASE k # n + 4
    <3>1. k \in 1 .. n + 3 /\ k + 1 \in 1 .. n + 4 /\ k + 1 \in 1 .. n + 5
      BY <2>5, SMT
    <3>2. pos' = k + 1 /\ Kept(d, k + 1)' /\ line' = SendFrom(Body(d))[k + 1] \o e
      BY <1>1, <2>1, <2>2, <2>3, <2>4, <3>1, ReadBody
    <3>3. line' = SendFrom(Body(d))[k + 1]
      <4>1. SendFrom(Body(d))[k + 1] \in Seq(Bytes)
        BY <1>1, <3>1, FrameLoop
      <4>2. QED
        BY <2>3, <3>2, <4>1, ConcatEmptySeq
    <3>4. Kept(d, pos)'
      BY <3>2 DEF Kept
    <3>5. QED
      BY <1>1, <3>1, <3>2, <3>3, <3>4, Zenon DEF SecondBehind
  <2>6. CASE k = n + 4
    <3>1. k > n + 3
      BY <2>6, SMT
    <3>2. line' = e /\ (HandsOn(d) \/ Drops)
      BY <1>1, <2>1, <2>2, <2>3, <2>4, <3>1, ReadEnd
    <3>3. HandsOn(d) => Last(delivered').data = d
      <4>1. SUFFICES ASSUME HandsOn(d)
                     PROVE  Last(delivered').data = d
        OBVIOUS
      <4>2. PICK rec \in [data : {d}, good : BOOLEAN, kept : BOOLEAN] :
              delivered' = Append(delivered, rec)
        BY <4>1 DEF HandsOn
      <4>3. rec.data = d
        OBVIOUS
      <4>4. rec \in [data : Seq(Bytes), good : BOOLEAN, kept : BOOLEAN]
        BY BodyProperties
      <4>5. Last(delivered') = rec
        <5>1. PICK R : R = [data : Seq(Bytes), good : BOOLEAN, kept : BOOLEAN]
          OBVIOUS
        <5>2. delivered \in Seq(R) /\ rec \in R
          BY <4>4, <5>1 DEF TypeInv, TypeOK
        <5>3. QED
          BY <4>2, <5>2, LastOfAppend
      <4>6. QED
        BY <4>3, <4>5
    <3>4. QED
      BY <2>3, <3>2, <3>3, Zenon DEF Drops, SecondBehind
  <2>7. QED
    BY <2>5, <2>6
<1>7. QED
  BY <1>0, <1>2, <1>3, <1>4, <1>5, <1>6, Zenon DEF SecondBehind, AtMostOne

LEMMA InitRecovering == Init => Recovering
<1> SUFFICES ASSUME Init
             PROVE  Recovering
  OBVIOUS
<1>1. Whole = 0
  BY SMT DEF Init, Whole
<1>2. QED
  BY <1>1, SMT DEF Recovering

LEMMA StepRecovering == TypeInv /\ Recovering /\ [Next]_vars => Recovering'
<1> SUFFICES ASSUME TypeInv, Recovering, [Next]_vars
             PROVE  Recovering'
  OBVIOUS
<1>1. CASE Lose
  <2>1. hit' = Len(sent) /\ sent' = sent
    BY <1>1 DEF Lose
  <2>2. Len(sent) \in Nat
    BY LenProperties DEF TypeInv, TypeOK
  <2>3. Whole' = 0
    BY <2>1, <2>2, SMT DEF Whole
  <2>4. QED
    BY <2>3, SMT DEF Recovering
<1>2. CASE Send
  BY <1>2, SendRecovering
<1>3. CASE Read
  <2>1. sent' = sent /\ hit' = hit
    BY <1>3 DEF Read, ReadHeader, ReadData, ReadChecksum, ReadExcess, TakeByte, source
  <2>2. PICK w : w = Whole
    OBVIOUS
  <2>3. PICK d : d = Last(sent)
    OBVIOUS
  <2>4. Whole' = w /\ Last(sent') = d
    BY <2>1, <2>2, <2>3 DEF Whole
  <2>5. CASE w = 1
    <3>1. d \in Frames
      <4>1. Whole >= 1
        BY <2>2, <2>5, SMT
      <4>2. QED
        BY <2>3, <4>1, LastSent
    <3>2. FirstBehind(d)'
      BY <1>3, <2>2, <2>3, <2>5, <3>1, ReadFirst DEF Recovering
    <3>3. ~(w >= 2)
      BY <2>5, SMT
    <3>4. QED
      BY <2>4, <3>2, <3>3, Zenon DEF Recovering
  <2>6. CASE w >= 2
    <3>1. w \in Int
      BY <2>2, LenProperties, BoundsAssumption, SMT DEF Whole, TypeInv, TypeOK
    <3>2. w >= 1 /\ w # 1
      BY <2>6, <3>1, SMT
    <3>3. d \in Frames
      BY <2>2, <2>3, <3>2, LastSent
    <3>4. SecondBehind(d)'
      BY <1>3, <2>2, <2>3, <2>6, <3>3, ReadSecond DEF Recovering
    <3>5. QED
      BY <2>4, <3>2, <3>4, Zenon DEF Recovering
  <2>7. QED
    BY <2>4, <2>5, <2>6, Zenon DEF Recovering
<1>4. CASE UNCHANGED vars
  <2>1. /\ UNCHANGED <<line, sent, hit, pos, length, buf, available, owned, delivered>>
    BY <1>4 DEF vars
  <2>2. Whole' = Whole
    BY <2>1 DEF Whole
  <2>3. \A d : FirstBehind(d)' <=> FirstBehind(d)
    BY <2>1 DEF FirstBehind
  <2>4. \A d : SecondBehind(d)' <=> SecondBehind(d)
    BY <2>1 DEF SecondBehind, Kept
  <2>5. QED
    BY <2>1, <2>2, <2>3, <2>4 DEF Recovering
<1>5. QED
  BY <1>1, <1>2, <1>3, <1>4 DEF Next

\* Whatever bytes are lost, and however often, the second frame that follows the
\* last of them whole is handed on as it was sent, as long as the buffer of the
\* response is there (ZBStack.cpp:371-470).
THEOREM Resynchronises == Spec => []Recovers
<1>1. TypeInv /\ Recovering => Recovers
  <2> SUFFICES ASSUME TypeInv, Recovering, line = <<>>, available, owned, Len(sent) - hit >= 2
               PROVE  Last(delivered).data = Last(sent)
    BY DEF Recovers
  <2>1. PICK w \in Int : w = Whole
    <3>1. Len(sent) \in Nat /\ hit \in 0 .. MaxFrames
      BY LenProperties DEF TypeInv, TypeOK
    <3>2. Whole \in Int
      BY <3>1, BoundsAssumption, SMT DEF Whole
    <3>3. QED
      BY <3>2
  <2>2. w >= 2 /\ w >= 1
    BY <2>1, SMT DEF Whole
  <2>3. PICK d \in Frames : d = Last(sent)
    BY <2>1, <2>2, LastSent
  <2>4. SecondBehind(d)
    BY <2>1, <2>2, <2>3 DEF Recovering
  <2>5. Len(line) = 0
    OBVIOUS
  <2>6. ~ \E g \in AtMostOne(Harmless) : line = g \o SendRequest(d)
    BY <2>5, RequestLong, HarmlessBytes, SMT
  <2>7. ~(pos \in 1 .. Len(d) + 4 /\ line = SendFrom(Body(d))[pos])
    <3>1. PICK n \in Nat : n = Len(d)
      BY BodyProperties
    <3>2. \A k \in 1 .. n + 4 : Len(SendFrom(Body(d))[k]) >= 1
      BY <3>1, FrameLoop
    <3>3. ~(Len(line) >= 1)
      BY <2>5, SMT
    <3>4. QED
      BY <3>1, <3>2, <3>3, Zenon
  <2>8. Last(delivered).data = d
    BY <2>4, <2>6, <2>7, Zenon DEF SecondBehind
  <2>9. QED
    BY <2>3, <2>8
<1>2. QED
  BY InitTypes, StepTypes, InitRecovering, StepRecovering, <1>1, PTL DEF Spec
=============================================================================
