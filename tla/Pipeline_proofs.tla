--------------------------- MODULE Pipeline_proofs ---------------------------
(***************************************************************************)
(* Messages and events stay in step for any set of clients and queues of   *)
(* any length.  MessagesMatchEvents is a count; it becomes inductive with  *)
(* RouteInv, which says that an event is only ever in the queue of its     *)
(* type, so that taking it from one queue cannot change another's count.   *)
(***************************************************************************)
EXTENDS Pipeline, FiniteSetTheorems, FunctionTheorems, TLAPS

RouteInv == \A q \in Queues : \A i \in 1 .. Len(ques[q]) : QueueOf(ques[q][i]) = q

IInv == TypeOK /\ RouteInv /\ MessagesMatchEvents

Bit(x, e) == IF x = e THEN 1 ELSE 0
------------------------------------------------------------------------------
(* Counting in a sequence.                                                  *)
Positions(s, e) == {i \in 1 .. Len(s) : s[i] = e}

LEMMA CountIsCard ==
  \A s, e : Count(s, e) = Cardinality(Positions(s, e))
BY DEF Count, Positions

LEMMA CountType ==
  ASSUME NEW S, NEW s \in Seq(S), NEW e
  PROVE  IsFiniteSet(Positions(s, e)) /\ Count(s, e) \in Nat
<1>1. IsFiniteSet(1 .. Len(s))
  BY FS_Interval
<1>2. Positions(s, e) \subseteq 1 .. Len(s)
  BY DEF Positions
<1>3. IsFiniteSet(Positions(s, e)) /\ Cardinality(Positions(s, e)) \in Nat
  BY <1>1, <1>2, FS_Subset, FS_CardinalityType
<1> QED BY <1>3, CountIsCard

LEMMA CountEmpty ==
  ASSUME NEW s, Len(s) = 0, NEW e
  PROVE  Count(s, e) = 0
<1>1. Positions(s, e) = {}
  BY DEF Positions
<1>2. Cardinality(Positions(s, e)) = 0
  BY <1>1, FS_EmptySet
<1> QED BY <1>2, CountIsCard

LEMMA CountAppend ==
  ASSUME NEW S, NEW s \in Seq(S), NEW x \in S, NEW e
  PROVE  Count(Append(s, x), e) = Count(s, e) + Bit(x, e)
<1> DEFINE n == Len(s) + 1
<1>1. /\ Len(s) \in Nat /\ Len(Append(s, x)) = n
      /\ Append(s, x)[n] = x
      /\ \A i \in 1 .. Len(s) : Append(s, x)[i] = s[i]
  OBVIOUS
<1>2. IsFiniteSet(Positions(s, e)) /\ n \notin Positions(s, e)
  <2>1. IsFiniteSet(Positions(s, e))
    BY CountType
  <2>2. n \notin Positions(s, e)
    BY <1>1 DEF Positions
  <2> QED BY <2>1, <2>2
<1>3. CASE x = e
  <2>1. Positions(Append(s, x), e) = Positions(s, e) \cup {n}
    BY <1>1, <1>3 DEF Positions
  <2>2. Cardinality(Positions(Append(s, x), e)) = Cardinality(Positions(s, e)) + 1
    BY <1>2, <2>1, FS_AddElement
  <2> QED BY <1>3, <2>2, CountIsCard DEF Bit
<1>4. CASE x # e
  <2>1. Positions(Append(s, x), e) = Positions(s, e)
    BY <1>1, <1>4 DEF Positions
  <2>2. Count(Append(s, x), e) = Count(s, e) /\ Count(s, e) \in Nat
    BY <2>1, CountType, CountIsCard
  <2> QED BY <1>4, <2>2 DEF Bit
<1> QED BY <1>3, <1>4

LEMMA CountTail ==
  ASSUME NEW S, NEW s \in Seq(S), s # <<>>, NEW e
  PROVE  Count(Tail(s), e) = Count(s, e) - Bit(Head(s), e)
<1> DEFINE rest == Positions(s, e) \ {1}
           shift == [i \in Positions(Tail(s), e) |-> i + 1]
<1>1. /\ Len(s) \in Nat /\ Len(s) >= 1 /\ Tail(s) \in Seq(S)
      /\ Len(Tail(s)) = Len(s) - 1 /\ Head(s) = s[1]
      /\ \A i \in 1 .. Len(Tail(s)) : Tail(s)[i] = s[i + 1]
  OBVIOUS
<1>2. IsFiniteSet(Positions(s, e)) /\ IsFiniteSet(Positions(Tail(s), e))
  BY <1>1, CountType
<1>3. shift \in Bijection(Positions(Tail(s), e), rest)
  <2>1. shift \in [Positions(Tail(s), e) -> rest]
    BY <1>1 DEF Positions
  <2>2. \A i, j \in Positions(Tail(s), e) : shift[i] = shift[j] => i = j
    BY <1>1 DEF Positions
  <2>3. ASSUME NEW j \in rest
        PROVE  \E i \in Positions(Tail(s), e) : shift[i] = j
    <3>1. j - 1 \in Positions(Tail(s), e)
      BY <1>1 DEF Positions
    <3>2. shift[j - 1] = j
      BY <3>1 DEF Positions
    <3> QED BY <3>1, <3>2
  <2> QED BY <2>1, <2>2, <2>3, Fun_IsBij
<1>4. Cardinality(Positions(Tail(s), e)) = Cardinality(rest)
  BY <1>2, <1>3, FS_Bijection DEF ExistsBijection
<1>5. CASE Head(s) = e
  <2>1. 1 \in Positions(s, e)
    BY <1>1, <1>5 DEF Positions
  <2>2. Cardinality(rest) = Cardinality(Positions(s, e)) - 1
    BY <1>2, <2>1, FS_RemoveElement
  <2> HIDE DEF rest
  <2>3. Count(Tail(s), e) = Count(s, e) - 1
    BY <1>4, <2>2, CountIsCard
  <2> QED BY <1>5, <2>3 DEF Bit
<1>6. CASE Head(s) # e
  <2>1. rest = Positions(s, e)
    BY <1>1, <1>6 DEF Positions
  <2>2. Count(s, e) \in Nat
    BY CountType
  <2>3. Count(Tail(s), e) = Count(s, e)
    BY <1>4, <2>1, CountIsCard
  <2> QED BY <1>6, <2>2, <2>3 DEF Bit
<1> QED BY <1>5, <1>6
------------------------------------------------------------------------------
(* Counting the hands an event is at.                                       *)
LEMMA TasksFinite == IsFiniteSet(Tasks)
<1>1. IsFiniteSet({})
  BY FS_EmptySet
<1>2. IsFiniteSet({} \cup {"CRT"})
  BY <1>1, FS_AddElement
<1>3. IsFiniteSet(({} \cup {"CRT"}) \cup {"CST"})
  BY <1>2, FS_AddElement
<1>4. IsFiniteSet((({} \cup {"CRT"}) \cup {"CST"}) \cup {"BRT"})
  BY <1>3, FS_AddElement
<1>5. IsFiniteSet(((({} \cup {"CRT"}) \cup {"CST"}) \cup {"BRT"}) \cup {"BST"})
  BY <1>4, FS_AddElement
<1>6. IsFiniteSet((((({} \cup {"CRT"}) \cup {"CST"}) \cup {"BRT"}) \cup {"BST"}) \cup {"GCT"})
  BY <1>5, FS_AddElement
<1>7. Tasks = (((({} \cup {"CRT"}) \cup {"CST"}) \cup {"BRT"}) \cup {"BST"}) \cup {"GCT"}
  BY DEF Tasks
<1> QED BY <1>6, <1>7

LEMMA InType ==
  ASSUME NEW f, NEW e
  PROVE  IsFiniteSet(In(f, e)) /\ Cardinality(In(f, e)) \in Nat
<1>1. In(f, e) \subseteq Tasks
  BY DEF In
<1> QED BY <1>1, TasksFinite, FS_Subset, FS_CardinalityType

(* A task that changes what is at its hand changes the count by what it     *)
(* puts there and what was there.                                           *)
OnlyAt(t, f, g) == \A u \in Tasks : u # t => g[u] = f[u]

LEMMA InUpdate ==
  ASSUME NEW f, NEW g, NEW t \in Tasks, OnlyAt(t, f, g), NEW e
  PROVE  Cardinality(In(g, e)) + Bit(f[t], e) = Cardinality(In(f, e)) + Bit(g[t], e)
<1>1. In(g, e) \ {t} = In(f, e) \ {t}
  BY DEF In, OnlyAt
<1>2. ASSUME NEW h
      PROVE  Cardinality(In(h, e)) = Cardinality(In(h, e) \ {t}) + Bit(h[t], e)
  <2>1. Cardinality(In(h, e)) \in Nat
    BY InType
  <2>2. CASE h[t] = e
    <3>1. t \in In(h, e)
      BY <2>2 DEF In
    <3>2. Cardinality(In(h, e) \ {t}) = Cardinality(In(h, e)) - 1
      BY <3>1, InType, FS_RemoveElement
    <3> QED BY <2>1, <2>2, <3>2 DEF Bit
  <2>3. CASE h[t] # e
    <3>1. In(h, e) \ {t} = In(h, e)
      BY <2>3 DEF In
    <3>2. Bit(h[t], e) = 0
      BY <2>3 DEF Bit
    <3> QED BY <2>1, <3>1, <3>2
  <2> QED BY <2>2, <2>3
<1>3. Bit(f[t], e) \in Nat /\ Bit(g[t], e) \in Nat
  BY DEF Bit
<1>4. Cardinality(In(f, e) \ {t}) \in Nat
  <2>1. IsFiniteSet(In(f, e) \ {t})
    BY InType, FS_Subset
  <2> QED BY <2>1, FS_CardinalityType
<1>5. Cardinality(In(f, e)) = Cardinality(In(f, e) \ {t}) + Bit(f[t], e)
  BY <1>2
<1>6. Cardinality(In(g, e)) = Cardinality(In(f, e) \ {t}) + Bit(g[t], e)
  BY <1>1, <1>2
<1> QED BY <1>3, <1>4, <1>5, <1>6
------------------------------------------------------------------------------
LEMMA Members ==
  /\ \A k \in Lanes, c \in Clients :
       /\ Event(k, c) \in LaneEvents /\ Event(k, c) # NoEvent
       /\ Event(k, c).type = k /\ Event(k, c).client = c
  /\ \A e \in LaneEvents : e = Event(e.type, e.client) /\ e.type \in Lanes /\ e.client \in Clients
  /\ \A q \in Queues : Broadcast(q) \notin LaneEvents /\ QueueOf(Broadcast(q)) = q
  /\ NoEvent \notin Events
  /\ \A e \in Events : QueueOf(e) \in Queues
  /\ \A q \in Queues : Reader(q) \in Tasks
  /\ \A t \in Tasks : Fills(t) \subseteq Lanes
BY ClientsAssumption
DEF Event, Broadcast, NoEvent, LaneEvents, Events, Lanes, Queues, QueueOf, Reader, Tasks, Fills

LEMMA InitInv == Init => IInv
<1> SUFFICES ASSUME Init PROVE IInv
  OBVIOUS
<1> USE DEF Init
<1>1. TypeOK
  BY DEF TypeOK
<1>2. RouteInv
  BY DEF RouteInv
<1>3. ASSUME NEW k \in Lanes, NEW c \in Clients
      PROVE  /\ msgs[k][c] = 0
             /\ Count(ques[QueueOf(Event(k, c))], Event(k, c)) = 0
             /\ Cardinality(In(posting, Event(k, c))) = 0
             /\ Cardinality(In(hand, Event(k, c))) = 0
  <2>1. QueueOf(Event(k, c)) \in Queues
    BY Members DEF Events
  <2>2. Len(ques[QueueOf(Event(k, c))]) = 0
    BY <2>1
  <2>3. In(posting, Event(k, c)) = {} /\ In(hand, Event(k, c)) = {}
    BY Members DEF In
  <2> QED BY <2>2, <2>3, CountEmpty, FS_EmptySet
<1>4. MessagesMatchEvents
  BY <1>3 DEF MessagesMatchEvents
<1> QED BY <1>1, <1>2, <1>4 DEF IInv

(* The four numbers of MessagesMatchEvents, for one queue of one client.    *)
Queued(k, c) == Count(ques[QueueOf(Event(k, c))], Event(k, c))
Posting(k, c) == Cardinality(In(posting, Event(k, c)))
Held(k, c) == Cardinality(In(hand, Event(k, c)))

LEMMA NumbersType ==
  ASSUME TypeOK, NEW k \in Lanes, NEW c \in Clients
  PROVE  /\ msgs[k][c] \in Nat /\ Queued(k, c) \in Nat
         /\ Posting(k, c) \in Nat /\ Held(k, c) \in Nat
<1>1. QueueOf(Event(k, c)) \in Queues
  BY Members DEF Events
<1>2. ques[QueueOf(Event(k, c))] \in Seq(Events) /\ msgs[k][c] \in Nat
  BY <1>1 DEF TypeOK
<1> QED BY <1>2, CountType, InType DEF Queued, Posting, Held

LEMMA PushInv ==
  ASSUME IInv, NEW t \in Tasks, NEW l \in Lanes, NEW d \in Clients, Push(t, l, d)
  PROVE  IInv'
<1>1. TypeOK'
  <2>1. ques' \in [Queues -> Seq(Events)] /\ hand' \in [Tasks -> Events \cup {NoEvent}]
    BY DEF IInv, TypeOK, Push
  <2>2. msgs' \in [Lanes -> [Clients -> Nat]]
    BY DEF IInv, TypeOK, Push
  <2>3. posting' \in [Tasks -> Events \cup {NoEvent}]
    <3>1. Event(l, d) \in Events
      BY Members DEF Events
    <3> QED BY <3>1 DEF IInv, TypeOK, Push
  <2> QED BY <2>1, <2>2, <2>3 DEF TypeOK
<1>2. RouteInv'
  BY DEF IInv, RouteInv, Push
<1>3. ASSUME NEW k \in Lanes, NEW c \in Clients
      PROVE  msgs'[k][c] = Queued(k, c)' + Posting(k, c)' + Held(k, c)'
  <2>1. /\ Queued(k, c)' = Queued(k, c) /\ Held(k, c)' = Held(k, c)
    BY DEF Queued, Held, Push
  <2>2. Posting(k, c)' + Bit(posting[t], Event(k, c))
          = Posting(k, c) + Bit(Event(l, d), Event(k, c))
    <3>1. posting'[t] = Event(l, d) /\ OnlyAt(t, posting, posting')
      BY DEF IInv, TypeOK, Push, OnlyAt
    <3>2. Cardinality(In(posting', Event(k, c))) + Bit(posting[t], Event(k, c))
            = Cardinality(In(posting, Event(k, c))) + Bit(posting'[t], Event(k, c))
      BY <3>1, InUpdate
    <3> QED BY <3>1, <3>2 DEF Posting
  <2>3. posting[t] # Event(k, c)
    BY Members DEF Push
  <2>4. msgs'[k][c] = msgs[k][c] + Bit(Event(l, d), Event(k, c))
    <3>1. (Event(l, d) = Event(k, c)) <=> (l = k /\ d = c)
      BY Members
    <3>2. msgs[k][c] \in Nat
      BY NumbersType DEF IInv
    <3>3. msgs'[k][c] = IF l = k /\ d = c THEN msgs[k][c] + 1 ELSE msgs[k][c]
      BY DEF IInv, TypeOK, Push
    <3> QED BY <3>1, <3>2, <3>3 DEF Bit
  <2>5. msgs[k][c] = Queued(k, c) + Posting(k, c) + Held(k, c)
    BY DEF IInv, MessagesMatchEvents, Queued, Posting, Held
  <2>6. /\ Queued(k, c) \in Nat /\ Posting(k, c) \in Nat /\ Held(k, c) \in Nat
        /\ Posting(k, c)' \in Nat
    BY <1>1, NumbersType, InType DEF IInv, Posting
  <2> QED BY <2>1, <2>2, <2>3, <2>4, <2>5, <2>6 DEF Bit
<1>4. MessagesMatchEvents'
  BY <1>3 DEF MessagesMatchEvents, Queued, Posting, Held
<1> QED BY <1>1, <1>2, <1>4 DEF IInv

LEMMA MakeBroadcastInv ==
  ASSUME IInv, NEW t \in Tasks, NEW q \in Queues, MakeBroadcast(t, q)
  PROVE  IInv'
<1>0. posting \in [Tasks -> Events \cup {NoEvent}] /\ Broadcast(q) \in Events
  BY DEF IInv, TypeOK, Events
<1>1. TypeOK'
  BY <1>0 DEF IInv, TypeOK, MakeBroadcast
<1>2. RouteInv'
  BY DEF IInv, RouteInv, MakeBroadcast
<1>3. ASSUME NEW k \in Lanes, NEW c \in Clients
      PROVE  msgs'[k][c] = Queued(k, c)' + Posting(k, c)' + Held(k, c)'
  <2>1. Queued(k, c)' = Queued(k, c) /\ Held(k, c)' = Held(k, c) /\ msgs' = msgs
    BY DEF Queued, Held, MakeBroadcast
  <2>2. In(posting, Event(k, c))' = In(posting, Event(k, c))
    BY <1>0, Members DEF In, MakeBroadcast
  <2>3. Posting(k, c)' = Posting(k, c)
    BY <2>2 DEF Posting
  <2> QED BY <2>1, <2>3 DEF IInv, MessagesMatchEvents, Queued, Posting, Held
<1>4. MessagesMatchEvents'
  BY <1>3 DEF MessagesMatchEvents, Queued, Posting, Held
<1> QED BY <1>1, <1>2, <1>4 DEF IInv

LEMMA PostInv ==
  ASSUME IInv, NEW t \in Tasks, Post(t)
  PROVE  IInv'
<1> DEFINE x == posting[t]
<1>1. /\ x \in Events /\ QueueOf(x) \in Queues /\ x # NoEvent
      /\ posting \in [Tasks -> Events \cup {NoEvent}]
      /\ \A q \in Queues : ques[q] \in Seq(Events)
      /\ ques' = [ques EXCEPT ![QueueOf(x)] = Append(ques[QueueOf(x)], x)]
      /\ posting' = [posting EXCEPT ![t] = NoEvent]
      /\ msgs' = msgs /\ hand' = hand
  BY Members DEF IInv, TypeOK, Post
<1>2. ques[QueueOf(x)] \in Seq(Events) /\ Append(ques[QueueOf(x)], x) \in Seq(Events)
  BY <1>1
<1> HIDE DEF x
<1>3. TypeOK'
  BY <1>1, <1>2 DEF IInv, TypeOK
<1>4. RouteInv'
  <2> SUFFICES ASSUME NEW q \in Queues, NEW i \in 1 .. Len(ques'[q])
               PROVE  QueueOf(ques'[q][i]) = q
    BY DEF RouteInv
  <2>1. CASE q = QueueOf(x)
    <3>1. ques'[q] = Append(ques[q], x) /\ ques[q] \in Seq(Events)
      BY <1>1, <2>1 DEF IInv, TypeOK
    <3>2. ques'[q][i] = IF i = Len(ques[q]) + 1 THEN x ELSE ques[q][i]
      BY <3>1
    <3>3. i \in 1 .. Len(ques[q]) \/ i = Len(ques[q]) + 1
      BY <3>1
    <3> QED BY <2>1, <3>2, <3>3 DEF IInv, RouteInv
  <2>2. CASE q # QueueOf(x)
    BY <1>1, <2>2 DEF IInv, TypeOK, RouteInv
  <2> QED BY <2>1, <2>2
<1>5. ASSUME NEW k \in Lanes, NEW c \in Clients
      PROVE  msgs'[k][c] = Queued(k, c)' + Posting(k, c)' + Held(k, c)'
  <2>1. Held(k, c)' = Held(k, c)
    BY <1>1 DEF Held
  <2>2. Posting(k, c)' + Bit(x, Event(k, c)) = Posting(k, c)
    <3>0. OnlyAt(t, posting, posting')
      BY <1>1 DEF OnlyAt
    <3>1. Cardinality(In(posting', Event(k, c))) + Bit(posting[t], Event(k, c))
            = Cardinality(In(posting, Event(k, c))) + Bit(posting'[t], Event(k, c))
      BY <3>0, InUpdate
    <3>2. Bit(posting'[t], Event(k, c)) = 0
      BY <1>1, Members DEF Bit
    <3>3. Posting(k, c) \in Nat
      BY NumbersType DEF IInv
    <3> QED BY <1>1, <3>1, <3>2, <3>3 DEF Posting, x
  <2>3. Queued(k, c)' = Queued(k, c) + Bit(x, Event(k, c))
    <3>1. QueueOf(Event(k, c)) \in Queues /\ Queued(k, c) \in Nat
      BY Members, NumbersType DEF Events, IInv
    <3>2. CASE QueueOf(x) = QueueOf(Event(k, c))
      <4>1. ques'[QueueOf(Event(k, c))] = Append(ques[QueueOf(Event(k, c))], x)
        BY <1>1, <3>1, <3>2 DEF IInv, TypeOK
      <4>2. Count(Append(ques[QueueOf(Event(k, c))], x), Event(k, c))
              = Count(ques[QueueOf(Event(k, c))], Event(k, c)) + Bit(x, Event(k, c))
        BY <1>1, <3>1, CountAppend
      <4> QED BY <4>1, <4>2 DEF Queued
    <3>3. CASE QueueOf(x) # QueueOf(Event(k, c))
      <4>1. ques'[QueueOf(Event(k, c))] = ques[QueueOf(Event(k, c))]
        BY <1>1, <3>1, <3>3 DEF IInv, TypeOK
      <4>2. Queued(k, c)' = Queued(k, c)
        BY <4>1 DEF Queued
      <4> QED BY <3>1, <3>3, <4>2 DEF Bit
    <3> QED BY <3>2, <3>3
  <2>4. msgs[k][c] = Queued(k, c) + Posting(k, c) + Held(k, c) /\ msgs' = msgs
    BY <1>1 DEF IInv, MessagesMatchEvents, Queued, Posting, Held
  <2>5. /\ Queued(k, c) \in Nat /\ Posting(k, c)' \in Nat /\ Held(k, c) \in Nat
        /\ Bit(x, Event(k, c)) \in Nat
    BY NumbersType, InType DEF IInv, Bit, Posting
  <2> QED BY <2>1, <2>2, <2>3, <2>4, <2>5
<1>6. MessagesMatchEvents'
  BY <1>5 DEF MessagesMatchEvents, Queued, Posting, Held
<1> QED BY <1>3, <1>4, <1>6 DEF IInv

LEMMA TakeInv ==
  ASSUME IInv, NEW q \in Queues, Take(q)
  PROVE  IInv'
<1> DEFINE t == Reader(q)
           x == Head(ques[q])
<1>1. /\ t \in Tasks /\ hand[t] = NoEvent /\ ques[q] \in Seq(Events) /\ ques[q] # <<>>
      /\ hand' = [hand EXCEPT ![t] = x] /\ ques' = [ques EXCEPT ![q] = Tail(ques[q])]
      /\ msgs' = msgs /\ posting' = posting
  BY Members DEF IInv, TypeOK, Take
<1>2. /\ x \in Events /\ Tail(ques[q]) \in Seq(Events)
      /\ Len(ques[q]) >= 1 /\ x = ques[q][1]
  BY <1>1
<1>3. QueueOf(x) = q
  BY <1>1, <1>2 DEF IInv, RouteInv
<1> HIDE DEF t, x
<1>4. TypeOK'
  BY <1>1, <1>2 DEF IInv, TypeOK
<1>5. RouteInv'
  <2> SUFFICES ASSUME NEW r \in Queues, NEW i \in 1 .. Len(ques'[r])
               PROVE  QueueOf(ques'[r][i]) = r
    BY DEF RouteInv
  <2>1. CASE r = q
    <3>1. ques'[r] = Tail(ques[q])
      BY <1>1, <2>1 DEF IInv, TypeOK
    <3>2. Len(ques[q]) \in Nat /\ Len(Tail(ques[q])) = Len(ques[q]) - 1
      BY <1>1
    <3>3. i \in 1 .. Len(Tail(ques[q])) /\ i + 1 \in 1 .. Len(ques[q])
      BY <3>1, <3>2
    <3>4. Tail(ques[q])[i] = ques[q][i + 1]
      BY <1>1, <3>3
    <3> QED BY <2>1, <3>1, <3>3, <3>4 DEF IInv, RouteInv
  <2>2. CASE r # q
    BY <1>1, <2>2 DEF IInv, TypeOK, RouteInv
  <2> QED BY <2>1, <2>2
<1>6. ASSUME NEW k \in Lanes, NEW c \in Clients
      PROVE  msgs'[k][c] = Queued(k, c)' + Posting(k, c)' + Held(k, c)'
  <2>1. Posting(k, c)' = Posting(k, c)
    BY <1>1 DEF Posting
  <2>2. Held(k, c)' = Held(k, c) + Bit(x, Event(k, c))
    <3>0. t \in Tasks /\ OnlyAt(t, hand, hand')
      BY <1>1 DEF IInv, TypeOK, OnlyAt
    <3>1. hand'[t] = x
      BY <1>1 DEF IInv, TypeOK
    <3>2. Cardinality(In(hand', Event(k, c))) + Bit(hand[t], Event(k, c))
            = Cardinality(In(hand, Event(k, c))) + Bit(hand'[t], Event(k, c))
      BY <3>0, InUpdate
    <3>3. Bit(hand[t], Event(k, c)) = 0
      BY <1>1, Members DEF Bit
    <3>4. Held(k, c)' \in Nat
      BY InType DEF Held
    <3> QED BY <3>1, <3>2, <3>3, <3>4 DEF Held
  <2>3. Queued(k, c)' = Queued(k, c) - Bit(x, Event(k, c))
    <3>1. QueueOf(Event(k, c)) \in Queues /\ Queued(k, c) \in Nat
      BY Members, NumbersType DEF Events, IInv
    <3>2. CASE QueueOf(Event(k, c)) = q
      <4>1. ques'[q] = Tail(ques[q])
        BY <1>1 DEF IInv, TypeOK
      <4>2. Count(Tail(ques[q]), Event(k, c)) = Count(ques[q], Event(k, c)) - Bit(x, Event(k, c))
        BY <1>1, CountTail DEF x
      <4> QED BY <3>2, <4>1, <4>2 DEF Queued
    <3>3. CASE QueueOf(Event(k, c)) # q
      <4>1. ques'[QueueOf(Event(k, c))] = ques[QueueOf(Event(k, c))]
        BY <1>1, <3>1, <3>3 DEF IInv, TypeOK
      <4>2. Queued(k, c)' = Queued(k, c)
        BY <4>1 DEF Queued
      <4>3. Bit(x, Event(k, c)) = 0
        BY <1>3, <3>3 DEF Bit
      <4> QED BY <3>1, <4>2, <4>3
    <3> QED BY <3>2, <3>3
  <2>4. msgs[k][c] = Queued(k, c) + Posting(k, c) + Held(k, c) /\ msgs' = msgs
    BY <1>1 DEF IInv, MessagesMatchEvents, Queued, Posting, Held
  <2>5. /\ Queued(k, c) \in Nat /\ Posting(k, c) \in Nat /\ Held(k, c) \in Nat
        /\ Bit(x, Event(k, c)) \in Nat
    BY NumbersType DEF IInv, Bit
  <2> QED BY <2>1, <2>2, <2>3, <2>4, <2>5
<1>7. MessagesMatchEvents'
  BY <1>6 DEF MessagesMatchEvents, Queued, Posting, Held
<1> QED BY <1>4, <1>5, <1>7 DEF IInv

LEMMA FinishInv ==
  ASSUME IInv, NEW t \in Tasks, Finish(t)
  PROVE  IInv'
<1> DEFINE x == hand[t]
<1>1. /\ x \in Events /\ x # NoEvent
      /\ hand' = [hand EXCEPT ![t] = NoEvent] /\ hand'[t] = NoEvent
      /\ OnlyAt(t, hand, hand')
      /\ ques' = ques /\ posting' = posting
      /\ x \in LaneEvents =>
           msgs' = [msgs EXCEPT ![x.type][x.client] = IF @ > 0 THEN @ - 1 ELSE 0]
      /\ x \notin LaneEvents => msgs' = msgs
  BY DEF IInv, TypeOK, Finish, OnlyAt
<1> HIDE DEF x
<1>2. TypeOK'
  <2>1. CASE x \in LaneEvents
    <3>1. x.type \in Lanes /\ x.client \in Clients
      BY <2>1, Members
    <3>2. msgs \in [Lanes -> [Clients -> Nat]]
      BY DEF IInv, TypeOK
    <3>3. msgs[x.type][x.client] \in Nat
      BY <3>1, <3>2
    <3>4. (IF msgs[x.type][x.client] > 0 THEN msgs[x.type][x.client] - 1 ELSE 0) \in Nat
      BY <3>3
    <3>5. msgs' \in [Lanes -> [Clients -> Nat]]
      BY <1>1, <2>1, <3>1, <3>2, <3>4
    <3> QED BY <1>1, <3>5 DEF IInv, TypeOK
  <2>2. CASE x \notin LaneEvents
    BY <1>1, <2>2 DEF IInv, TypeOK
  <2> QED BY <2>1, <2>2
<1>3. RouteInv'
  BY <1>1 DEF IInv, RouteInv
<1>4. ASSUME NEW k \in Lanes, NEW c \in Clients
      PROVE  msgs'[k][c] = Queued(k, c)' + Posting(k, c)' + Held(k, c)'
  <2>1. Posting(k, c)' = Posting(k, c) /\ Queued(k, c)' = Queued(k, c)
    BY <1>1 DEF Posting, Queued
  <2>2. Held(k, c)' + Bit(x, Event(k, c)) = Held(k, c)
    <3>0. OnlyAt(t, hand, hand')
      BY <1>1
    <3>1. Cardinality(In(hand', Event(k, c))) + Bit(hand[t], Event(k, c))
            = Cardinality(In(hand, Event(k, c))) + Bit(hand'[t], Event(k, c))
      BY <3>0, InUpdate
    <3>2. Bit(hand'[t], Event(k, c)) = 0
      BY <1>1, Members DEF Bit
    <3>3. Held(k, c) \in Nat
      BY InType DEF Held
    <3> QED BY <3>1, <3>2, <3>3 DEF Held, x
  <2>3. msgs[k][c] = Queued(k, c) + Posting(k, c) + Held(k, c)
    BY DEF IInv, MessagesMatchEvents, Queued, Posting, Held
  <2>4. /\ Queued(k, c) \in Nat /\ Posting(k, c) \in Nat /\ Held(k, c)' \in Nat
        /\ msgs[k][c] \in Nat
    BY NumbersType, InType DEF IInv, Held
  <2>5. CASE x = Event(k, c)
    <3>1. Bit(x, Event(k, c)) = 1
      BY <2>5 DEF Bit
    <3>2. msgs[k][c] > 0
      BY <2>2, <2>3, <2>4, <3>1
    <3>3. msgs'[k][c] = msgs[k][c] - 1
      BY <1>1, <2>5, <3>2, Members DEF IInv, TypeOK
    <3> QED BY <2>1, <2>2, <2>3, <2>4, <3>1, <3>3
  <2>6. CASE x # Event(k, c)
    <3>1. msgs'[k][c] = msgs[k][c]
      <4>1. CASE x \in LaneEvents
        <5>1. ~(x.type = k /\ x.client = c) /\ x.type \in Lanes /\ x.client \in Clients
          BY <2>6, <4>1, Members
        <5> QED BY <1>1, <4>1, <5>1 DEF IInv, TypeOK
      <4>2. CASE x \notin LaneEvents
        BY <1>1, <4>2
      <4> QED BY <4>1, <4>2
    <3>2. Bit(x, Event(k, c)) = 0
      BY <2>6 DEF Bit
    <3> QED BY <2>1, <2>2, <2>3, <2>4, <3>1, <3>2
  <2> QED BY <2>5, <2>6
<1>5. MessagesMatchEvents'
  BY <1>4 DEF MessagesMatchEvents, Queued, Posting, Held
<1> QED BY <1>2, <1>3, <1>5 DEF IInv
------------------------------------------------------------------------------
LEMMA StutterInv == IInv /\ UNCHANGED vars => IInv'
BY DEF IInv, TypeOK, RouteInv, MessagesMatchEvents, In, Count, vars

LEMMA NextInv == IInv /\ [Next]_vars => IInv'
BY PushInv, MakeBroadcastInv, PostInv, TakeInv, FinishInv, StutterInv DEF Next

LEMMA Invariance == Spec => []IInv
BY InitInv, NextInv, PTL DEF Spec

(* The queues, hands and counts stay in their types.                        *)
THEOREM TypeCorrect == Spec => []TypeOK
<1>1. IInv => TypeOK
  BY DEF IInv
<1> QED BY <1>1, Invariance, PTL

(* A client's message queue is as long as the events that name it are many. *)
THEOREM MessagesMatchEventsHolds == Spec => []MessagesMatchEvents
<1>1. IInv => MessagesMatchEvents
  BY DEF IInv
<1> QED BY <1>1, Invariance, PTL

(* The reader of an event finds its message.                                *)
THEOREM NeverNullHolds == Spec => []NeverNull
<1>1. ASSUME IInv, NEW t \in Tasks, hand[t] \in LaneEvents
      PROVE  msgs[hand[t].type][hand[t].client] > 0
  <2> DEFINE k == hand[t].type
             c == hand[t].client
  <2>1. k \in Lanes /\ c \in Clients /\ hand[t] = Event(k, c)
    BY <1>1, Members
  <2> HIDE DEF k, c
  <2>2. t \in In(hand, Event(k, c))
    BY <2>1 DEF In
  <2>3. Cardinality(In(hand, Event(k, c))) # 0
    BY <2>2, InType, FS_EmptySet
  <2>4. Held(k, c) # 0 /\ Held(k, c) \in Nat /\ Queued(k, c) \in Nat /\ Posting(k, c) \in Nat
    BY <1>1, <2>1, <2>3, NumbersType DEF IInv, Held
  <2>5. msgs[k][c] = Queued(k, c) + Posting(k, c) + Held(k, c)
    BY <1>1, <2>1 DEF IInv, MessagesMatchEvents, Queued, Posting, Held
  <2>6. msgs[k][c] > 0
    BY <2>4, <2>5
  <2> QED BY <2>6 DEF k, c
<1>2. IInv => NeverNull
  BY <1>1 DEF NeverNull
<1> QED BY <1>2, Invariance, PTL
==============================================================================
