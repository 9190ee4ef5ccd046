--------------------------- MODULE Sessions_proofs ---------------------------
(***************************************************************************)
(* The safety properties of Sessions for any clients, names, settings and  *)
(* bounds.  The invariant has seven layers, each proved on top of those    *)
(* before it:                                                              *)
(*   Shape    what each queue holds, and an event for each message;        *)
(*   Stored   a PUBACK of the broker is for a PUBLISH that it has stored;  *)
(*   Owned    a WILLTOPIC or WILLMSG comes after a CONNECT with a will;    *)
(*   OnePass  a CONNECT that is not repeated is at one place at a time,    *)
(*            itself or what it led to;                                    *)
(*   Naming   ids on their way stand for the names they were given for;    *)
(*   Learning a client is told each id before it is used;                  *)
(*   Flight   what a client waits for is at one place.                     *)
(***************************************************************************)
EXTENDS Sessions, Topics_proofs, FiniteSetTheorems

Cr(c) == msgs["clientRecv"][c]
Bs(c) == msgs["brokerSend"][c]
Br(c) == msgs["brokerRecv"][c]
Cs(c) == msgs["clientSend"][c]

\* x is somewhere before y in s.
Precedes(s, x, y) == \E i, j \in DOMAIN s : i < j /\ s[i] = x /\ s[j] = y
------------------------------------------------------------------------------
(* Shape: the messages of each queue.                                      *)
FlagNames ==
  {"clean", "will", "normal", "short", "predefined", "reserved",
   "accepted", "rejected", "congestion", "waiting"}

AnyName == Names \cup {NoName, PredefinedName}

AnyMessage ==
  [type : MessageTypes \cup {"none"}, msgId : Nat, id : 0 .. IdRange - 1,
   name : AnyName, data : AnyName, flags : SUBSET FlagNames]

FromClient ==
  {m \in AnyMessage :
     /\ m.type \in UpTypes /\ m.name # PredefinedName
     /\ m.type = "CONNECT" => m.msgId = 0 /\ m.flags \subseteq {"clean", "will"}
     /\ m.type = "REGISTER" => m.name \in LongNames
     /\ m.type = "SUBSCRIBE" => IF m.flags \cap {"predefined", "reserved"} = {}
                                THEN m.name \in Names ELSE m.name = NoName
     /\ m.type = "PUBLISH" => m.data \in LongNames}

ToBroker ==
  {m \in AnyMessage :
     /\ m.type \in {"CONNECT", "PUBLISH", "PUBACK", "PINGREQ", "DISCONNECT",
                    "SUBSCRIBE", "UNSUBSCRIBE"}
     /\ m.type # "PUBLISH" => m.name # PredefinedName
     /\ m.type = "SUBSCRIBE" => m.name \in Names}

FromBroker ==
  {m \in AnyMessage :
     /\ m.type \in {"CONNACK", "PUBACK", "SUBACK", "UNSUBACK", "PINGRESP", "PUBLISH"}
     /\ m.type = "PUBLISH" => m.name \in Names /\ m.data = m.name
     /\ m.name # PredefinedName}

ToClient ==
  {m \in AnyMessage :
     /\ m.type \in {"WILLTOPICREQ", "WILLMSGREQ", "CONNACK", "REGACK", "PUBACK", "SUBACK",
                    "UNSUBACK", "PINGRESP", "REGISTER", "PUBLISH"}
     /\ m.name # PredefinedName
     /\ m.type = "REGISTER" => m.name \in LongNames /\ m.id > BaseId
     /\ m.type = "REGACK" => m.id = NoTopic \/ m.id > BaseId
     /\ m.type = "PUBLISH" /\ m.flags = {"normal"} => m.data \in LongNames /\ m.id > BaseId}

LaneShape ==
  /\ msgs \in [Lanes -> [Clients -> Seq(AnyMessage)]]
  /\ \A c \in Clients :
       /\ Cr(c) \in Seq(FromClient) /\ Bs(c) \in Seq(ToBroker)
       /\ Br(c) \in Seq(FromBroker) /\ Cs(c) \in Seq(ToClient)

NodeShape ==
  /\ known \subseteq Clients
  /\ topics \in [Clients -> [entries : Seq(Entry), next : Nat]]
  /\ \A c \in Clients : GoodTable(topics[c])
  /\ waitedPubAck \in [Clients -> {None} \cup
       {m \in ToClient : m.type = "PUBACK" /\ m.flags = {"accepted"}}]
  /\ waitedSubAck \in [Clients -> {None} \cup {m \in ToClient : m.type = "SUBACK"}]
  /\ connect \in [Clients -> [object : {"null", "held", "queued"}, flags : SUBSET {"clean", "will"}]]
  /\ sock \in [Clients -> LinkStates]

ClientShape ==
  /\ active \in [Clients -> BOOLEAN]
  /\ asked \in [Clients -> SUBSET {m \in FromClient : m.type \in DOMAIN AnswerOf}]
  /\ owes \in [Clients -> Seq({m \in FromClient : m.type \in {"WILLTOPIC", "WILLMSG", "REGACK", "PUBACK"}})]
  /\ names \in [Clients -> SUBSET ((1 .. IdRange - 1) \X LongNames)]
  /\ requests \in [Clients -> Nat]

BrokerShape ==
  /\ link \in [Clients -> {"none", "live", "closing"}]
  /\ subs \in [Clients -> SUBSET Names]
  /\ stored \in [Clients -> SUBSET (Nat \X AnyName \X AnyName)]
  /\ replies \in [Clients -> Seq(FromBroker)]
  /\ published \in [Clients -> Nat]
  /\ setting \in SettingRecords

\* The events e in q stand for n messages at most, in their order.
Fits(q, e, n) ==
  \E place \in [1 .. Len(q) -> Nat] :
    /\ \A i \in 1 .. Len(q) : q[i] = e => place[i] \in 1 .. n
    /\ \A i, j \in 1 .. Len(q) : i < j /\ q[i] = e /\ q[j] = e => place[i] < place[j]

QueueOf(k) == IF k \in {"clientRecv", "brokerRecv"} THEN "gateway" ELSE k

InStep ==
  /\ ques \in [Queues -> Seq(Events)]
  /\ \A k \in Lanes, c \in Clients : Fits(ques[QueueOf(k)], Event(k, c), Len(msgs[k][c]))

Shape == LaneShape /\ NodeShape /\ ClientShape /\ BrokerShape /\ InStep
------------------------------------------------------------------------------
(* Stored: a PUBACK that accepts is for a PUBLISH the broker took.         *)
HasStored(c, msgId) == \E s \in stored[c] : s[1] = msgId

Stored(c) ==
  /\ \A m \in Range(replies[c]) \cup Range(Br(c)) : m.type = "PUBACK" => HasStored(c, m.msgId)
  /\ \A m \in Range(Cs(c)) : m.type = "PUBACK" /\ m.flags = {"accepted"} => HasStored(c, m.msgId)
------------------------------------------------------------------------------
(* Owned: whether the control task still owns the CONNECT object when it   *)
(* comes to position n of s, if it does before s (`own').                  *)
WillTypes == {"WILLTOPIC", "WILLMSG"}

OwnedAt(s, n, own) ==
  \E k \in 0 .. n - 1 :
    /\ k = 0 => own
    /\ k # 0 => s[k].type = "CONNECT" /\ "will" \in s[k].flags
    /\ \A j \in k + 1 .. n - 1 : s[j].type # "CONNECT"

OwnedNow(c) == connect[c].object # "queued"
OwnedNext(c) == OwnedAt(Cr(c), Len(Cr(c)) + 1, OwnedNow(c))

Owned(c) ==
  /\ \A n \in 1 .. Len(Cr(c)) : Cr(c)[n].type \in WillTypes => OwnedAt(Cr(c), n, OwnedNow(c))
  /\ (\E m \in Range(owes[c]) : m.type \in WillTypes) => OwnedNext(c)
  /\ \A r \in asked[c] : r.type = "CONNECT" =>
       /\ asked[c] = {r} /\ ~active[c]
       /\ "will" \in r.flags => OwnedNext(c)
       /\ "will" \notin r.flags => \A m \in Range(owes[c]) : m.type \notin WillTypes
  /\ c \notin known => Cr(c) = <<>> /\ connect[c].object = "null"
------------------------------------------------------------------------------
(* OnePass: the CONNECT and what it leads to.                              *)
PassTypes == {"CONNECT", "WILLTOPIC", "WILLMSG", "WILLTOPICREQ", "WILLMSGREQ", "CONNACK"}

Places == {"clientRecv", "brokerSend", "brokerRecv", "clientSend", "owes", "replies"}

At(c, p) == IF p = "owes" THEN owes[c] ELSE IF p = "replies" THEN replies[c] ELSE msgs[p][c]

Clear(s) == \A m \in Range(s) : m.type \notin PassTypes
Single(s) == \A i, j \in DOMAIN s : s[i].type \in PassTypes /\ s[j].type \in PassTypes => i = j

Connecting(c) == \E r \in asked[c] : r.type = "CONNECT"

OnePass(c) ==
  ~setting.repeat =>
    /\ \E p \in Places : Single(At(c, p)) /\ \A q \in Places \ {p} : Clear(At(c, q))
    /\ ~Connecting(c) => \A p \in Places : Clear(At(c, p))
    /\ \A m \in Range(Cr(c)) : m.type = "CONNECT" => m \in asked[c]
------------------------------------------------------------------------------
(* Naming.  A CONNECT that is repeated, and may therefore be late, does    *)
(* not renew the topic table.                                              *)
Steady == setting.repeat => \A flags \in setting.flags : "clean" \notin flags

Renews(m) == m.type = "CONNECT" /\ "clean" \in m.flags

\* The id of a name, now and for as long as the table is not renewed.
Stands(c, name, id) == id > BaseId /\ (Steady => HasEntry(topics[c], name, id))

\* What the client was told, and the PUBLISHes it makes of it.
NamesStand(c) ==
  /\ \A p \in names[c] : Stands(c, p[2], p[1])
  /\ \A m \in Range(Cr(c)) \cup asked[c] : m.type = "PUBLISH" => Stands(c, m.data, m.id)

RightNames(c) ==
  /\ \A m \in Range(Bs(c)) : m.type = "PUBLISH" => m.name \in Names /\ (Steady => m.name = m.data)
  /\ \A s \in stored[c] : s[2] \in Names /\ (Steady => s[2] = s[3])

\* No PUBLISH is behind a CONNECT that renews the table.
RenewsLast(c) ==
  /\ Steady => \A x, y \in Range(Cr(c)) : Precedes(Cr(c), x, y) /\ Renews(x) => y.type # "PUBLISH"
  /\ Steady => \A m \in Range(Cr(c)) : Renews(m) => Renewing(c)
  /\ Renewing(c) => names[c] = {} /\ ~(Steady /\ setting.repeat)

\* The name that a message to the client gives to the id in it.
NameIn(m) == IF m.type = "REGISTER" THEN m.name ELSE m.data
NamesAnId(m) == m.type = "REGISTER" \/ (m.type = "PUBLISH" /\ m.flags = {"normal"})

\* It is right, or of a session that the client has given up.
Current(c, m) ==
  \/ HasEntry(topics[c], NameIn(m), m.id)
  \/ Renewing(c) /\ \A x \in Range(Cs(c)) : Precedes(Cs(c), x, m) => x.type # "CONNACK"

Announced(c) == Steady => \A m \in Range(Cs(c)) : NamesAnId(m) => Current(c, m)

\* A message id is used for one REGISTER or SUBSCRIBE only.
Numbered(c) ==
  /\ \A m \in Range(Cr(c)) \cup asked[c] :
       m.type \in {"REGISTER", "SUBSCRIBE"} => m.msgId <= requests[c]
  /\ \A m \in Range(Cs(c)) \cup {waitedSubAck[c]} :
       m.type \in {"REGACK", "SUBACK"} => m.msgId <= requests[c]
  /\ \A m \in Range(Cr(c)) \cup asked[c], r \in asked[c] :
       /\ m.type \in {"REGISTER", "SUBSCRIBE"} /\ m.type = r.type /\ m.msgId = r.msgId
       => m = r

\* What the answers to them say, or will say.
AnswersStand(c) ==
  \A m \in Range(Cs(c)) \cup {waitedSubAck[c]}, r \in asked[c] :
    /\ m.type \in {"REGACK", "SUBACK"} /\ AnswerOf[r.type] = m.type /\ m.msgId = r.msgId
    /\ r.name \in LongNames /\ m.id # NoTopic
    => Stands(c, r.name, m.id)

Naming(c) ==
  /\ NamesStand(c) /\ RightNames(c) /\ RenewsLast(c) /\ Announced(c)
  /\ Numbered(c) /\ AnswersStand(c)

------------------------------------------------------------------------------
(* Learning.  When nothing is lost and no CONNECT repeated, the broker     *)
(* takes a client's first CONNECT only, and no topic is asked for before.  *)
Accepted(m) == m.type = "CONNACK" /\ m.flags = {"accepted"}
Topical(m) == m.type \in {"REGISTER", "SUBSCRIBE"} /\ m.name \in LongNames
Placed(t, n) == HasName(t, n) \/ IsFull(t)

Fresh(c) ==
  /\ ~active[c] /\ Br(c) = <<>> /\ replies[c] = <<>>
  /\ \A m \in Range(Cs(c)) : ~NamesAnId(m) /\ ~Accepted(m)
  /\ \A m \in Range(Cr(c)) \cup asked[c] : ~Topical(m)
  /\ \A n \in LongNames : ~HasName(topics[c], n)

\* s to the client and b and r from the broker hold the CONNACK of the broker.
Welcome(s, b, r) ==
  (\E m \in Range(s) : Accepted(m)) \/ (\E m \in Range(b) \cup Range(r) : m.type = "CONNACK")

\* The client is connected, or will be.
On(c) == active[c] \/ Welcome(Cs(c), Br(c), replies[c])

\* Nothing with a topic id is before the CONNACK.
Ahead(s, b, r) ==
  /\ \A x, y \in Range(s) : Precedes(s, x, y) /\ Accepted(y) => ~NamesAnId(x)
  /\ \A y \in Range(b) \cup Range(r) : y.type = "CONNACK" => \A x \in Range(s) : ~NamesAnId(x)
  /\ \A y \in Range(r) : y.type = "CONNACK" => \A x \in Range(b) : x.type # "PUBLISH"
  /\ \A q \in {b, r} : \A x, y \in Range(q) :
       Precedes(q, x, y) /\ y.type = "CONNACK" => x.type # "PUBLISH"

\* A client that was told N and has asked for A knows the name n by the id i, or
\* will when it has read s up to k, or waits for the SUBACK that tells.
Learns(N, A, s, k, n, i) ==
  \/ <<i, n>> \in N
  \/ \E j \in 1 .. k - 1 : s[j].type = "REGISTER" /\ s[j].name = n /\ s[j].id = i
  \/ \E r \in A, j \in 1 .. k - 1 : /\ r.type = "REGISTER" /\ r.name = n
                                  /\ s[j].type = "REGACK" /\ s[j].msgId = r.msgId /\ s[j].id = i
  \/ \E r \in A : r.type = "SUBSCRIBE" /\ r.name = n

\* Without an id an answer x to r means that there was no room for the name.
NoRoom(A, x, t) ==
  \A r \in A : /\ x.type \in {"REGACK", "SUBACK"} /\ x.id = NoTopic
              /\ Topical(r) /\ AnswerOf[r.type] = x.type /\ r.msgId = x.msgId
              => IsFull(t) /\ ~HasName(t, r.name)

\* All that is in the table, and all that is sent under an id, is learnt in time.
InTime(N, A, s, t) ==
  /\ \A n \in LongNames : \A i : HasEntry(t, n, i) => Learns(N, A, s, Len(s) + 1, n, i)
  /\ \A k \in DOMAIN s : s[k].type = "PUBLISH" /\ s[k].flags = {"normal"}
                         => Learns(N, A, s, k, s[k].data, s[k].id)

\* A repeated request is waited for, or what it would add is there.
Waits(A, q, t) == \A m \in Range(q) : Topical(m) => m \in A \/ Placed(t, m.name)

Knows(c) ==
  /\ InTime(names[c], asked[c], Cs(c), topics[c])
  /\ Waits(asked[c], Cr(c), topics[c])
  /\ \A x \in Range(Cs(c)) \cup {waitedSubAck[c]} : NoRoom(asked[c], x, topics[c])

Learning(c) ==
  Orderly => IF link[c] = "none" THEN Fresh(c)
             ELSE On(c) => Knows(c) /\ Ahead(Cs(c), Br(c), replies[c])
------------------------------------------------------------------------------
(* Flight.  When nothing is lost or repeated, and a client waits for one   *)
(* answer at a time, what it waits for is at one place: itself, what it    *)
(* led to, or the answer.                                                  *)
Upward == {"clientRecv", "brokerSend", "owes"}

Asking ==
  {m \in AnyMessage :
     \/ m.type \in {"CONNECT", "WILLTOPIC", "WILLMSG", "PINGREQ"}
     \/ m.msgId # 0 /\ m.type \in {"REGISTER", "PUBLISH", "SUBSCRIBE", "UNSUBSCRIBE"}}

Telling ==
  {m \in AnyMessage :
     \/ m.type \in {"WILLTOPICREQ", "WILLMSGREQ", "CONNACK", "PINGRESP"}
     \/ m.msgId # 0 /\ m.type \in {"REGACK", "PUBACK", "SUBACK", "UNSUBACK"}}

Loads(up) == IF up THEN Asking ELSE Telling

\* How many messages of T there are in s.
Count(T, s) == Cardinality({i \in DOMAIN s : s[i] \in T})

Weight(c, p) == Count(Loads(p \in Upward), At(c, p))

Load(c) ==
  Weight(c, "clientRecv") + Weight(c, "brokerSend") + Weight(c, "owes")
  + Weight(c, "replies") + Weight(c, "brokerRecv") + Weight(c, "clientSend")

OnCourse(r, up, m) == m.type \in Course(r, up) /\ m.msgId = r.msgId

\* The control task waits for the answer to m, or for the answer m.
Awaits(c, m) ==
  /\ m.type \in {"PUBLISH", "PUBACK"} => waitedPubAck[c] # None /\ waitedPubAck[c].msgId = m.msgId
  /\ m.type \in {"SUBSCRIBE", "SUBACK"} => waitedSubAck[c] # None /\ waitedSubAck[c].msgId = m.msgId

WillAsked == {"WILLTOPICREQ", "WILLMSGREQ"}
Begins == {"CONNECT", "WILLTOPIC", "WILLMSG"}

\* m, which is at p, is what the client waits for since it asked for r.
OnWay(c, r, p, m) ==
  /\ OnCourse(r, p \in Upward, m)
  /\ p \in {"brokerSend", "replies", "brokerRecv"} => Awaits(c, m)
  /\ m.type \in WillTypes \cup WillAsked => connect[c].object # "null" /\ "will" \in r.flags
  /\ m.type = "CONNECT" /\ p = "clientRecv" => m = r
  /\ link[c] = "none" <=> m.type \in Begins \cup WillAsked

AllOnWay(c, r) ==
  \A p \in Places : \A m \in Range(At(c, p)) : m \in Loads(p \in Upward) => OnWay(c, r, p, m)

Flying(c) ==
  IF asked[c] = {} THEN Load(c) = 0
  ELSE \E r \in asked[c] : /\ asked[c] = {r} /\ (r.msgId = 0 <=> r.type \in {"CONNECT", "PINGREQ"})
                           /\ Load(c) = 1 /\ AllOnWay(c, r)

\* The connection with the broker begins with the only CONNECT and ends after
\* the only DISCONNECT, when nothing is asked for.
Leaves(c) ==
  link[c] = "closing" \/ \E m \in Range(Cr(c)) \cup Range(Bs(c)) : m.type = "DISCONNECT"

Phases(c) ==
  /\ link[c] = "none" =>
       /\ ~active[c] /\ replies[c] = <<>> /\ Br(c) = <<>>
       /\ \A m \in Range(Cr(c)) \cup Range(Bs(c)) \cup Range(owes[c]) : m.type \in Begins
       /\ \A m \in Range(Cs(c)) : m.type \in WillAsked
  /\ Leaves(c) => asked[c] = {} /\ ~active[c]

Untouched(c) ==
  ~active[c] /\ asked[c] = {} /\ link[c] = "none" /\ \A p \in Places : At(c, p) = <<>>

\* The ClientList has room for every client.
Room ==
  \/ Listed = Clients
  \/ ~ListRead /\ IsFiniteSet(Clients) /\ Cardinality(Clients) <= MaxClientNodes

\* One request at a time, and nothing is lost, repeated or refused.
Once == Window = 1 /\ setting.reliable /\ setting.maxRetries = 0 /\ Room

Flight(c) ==
  Once => /\ retries[c] = 0 \/ c \notin known => Untouched(c)
          /\ c \in Listed => c \in known
          /\ Flying(c) /\ Phases(c)

Tries == retries \in [Clients -> Nat]

IInv ==
  /\ Shape /\ Tries
  /\ \A c \in Clients :
       Stored(c) /\ Owned(c) /\ OnePass(c) /\ Naming(c) /\ Learning(c) /\ Flight(c)
------------------------------------------------------------------------------
USE NamesAssumption, IdsAssumption, AddressAssumption, NoNameAssumption

(* Sequences, and what is in them.                                         *)
LEMMA RangeAppend ==
  ASSUME NEW S, NEW s \in Seq(S), NEW x
  PROVE  Range(Append(s, x)) = Range(s) \cup {x}
<1>1. /\ DOMAIN s = 1 .. Len(s) /\ DOMAIN Append(s, x) = 1 .. Len(s) + 1
      /\ Len(s) \in Nat
      /\ \A i \in 1 .. Len(s) : Append(s, x)[i] = s[i]
      /\ Append(s, x)[Len(s) + 1] = x
  OBVIOUS
<1> QED BY <1>1 DEF Range

LEMMA RangeType ==
  ASSUME NEW S, NEW s \in Seq(S)
  PROVE  Range(s) \subseteq S /\ DOMAIN s = 1 .. Len(s) /\ Len(s) \in Nat
BY DEF Range

LEMMA RangeTail ==
  ASSUME NEW S, NEW s \in Seq(S), s # <<>>
  PROVE  /\ Head(s) \in S /\ Head(s) \in Range(s) /\ Tail(s) \in Seq(S)
         /\ Range(Tail(s)) \subseteq Range(s)
         /\ Len(s) \in Nat /\ Len(s) >= 1 /\ Len(Tail(s)) = Len(s) - 1
         /\ Head(s) = s[1] /\ \A i \in 1 .. Len(s) - 1 : Tail(s)[i] = s[i + 1]
         /\ DOMAIN Tail(s) = 1 .. Len(s) - 1 /\ DOMAIN s = 1 .. Len(s)
<1>1. /\ DOMAIN s = 1 .. Len(s) /\ Len(s) \in Nat /\ Len(s) >= 1 /\ Tail(s) \in Seq(S)
      /\ Len(Tail(s)) = Len(s) - 1 /\ DOMAIN Tail(s) = 1 .. Len(s) - 1
      /\ Head(s) = s[1] /\ \A i \in 1 .. Len(s) - 1 : Tail(s)[i] = s[i + 1]
  OBVIOUS
<1> QED BY <1>1 DEF Range

LEMMA RangeConcat ==
  ASSUME NEW S, NEW s \in Seq(S), NEW t \in Seq(S)
  PROVE  Range(s \o t) = Range(s) \cup Range(t)
<1>1. /\ DOMAIN s = 1 .. Len(s) /\ DOMAIN t = 1 .. Len(t) /\ Len(s) \in Nat /\ Len(t) \in Nat
      /\ DOMAIN (s \o t) = 1 .. Len(s) + Len(t)
      /\ \A i \in 1 .. Len(s) : (s \o t)[i] = s[i]
      /\ \A i \in 1 .. Len(t) : (s \o t)[Len(s) + i] = t[i]
      /\ \A i \in Len(s) + 1 .. Len(s) + Len(t) : (s \o t)[i] = t[i - Len(s)]
  OBVIOUS
<1>2. Range(s \o t) \subseteq Range(s) \cup Range(t)
  <2> SUFFICES ASSUME NEW i \in 1 .. Len(s) + Len(t)
               PROVE  (s \o t)[i] \in Range(s) \cup Range(t)
    BY <1>1 DEF Range
  <2>1. CASE i <= Len(s)
    BY <1>1, <2>1 DEF Range
  <2>2. CASE i > Len(s)
    <3>1. i - Len(s) \in 1 .. Len(t) /\ (s \o t)[i] = t[i - Len(s)]
      BY <1>1, <2>2
    <3> QED BY <1>1, <3>1 DEF Range
  <2> QED BY <1>1, <2>1, <2>2
<1>3. Range(s) \subseteq Range(s \o t)
  BY <1>1 DEF Range
<1>4. Range(t) \subseteq Range(s \o t)
  <2> SUFFICES ASSUME NEW i \in 1 .. Len(t)
               PROVE  t[i] \in Range(s \o t)
    BY <1>1 DEF Range
  <2>1. Len(s) + i \in DOMAIN (s \o t)
    BY <1>1
  <2> QED BY <1>1, <2>1 DEF Range
<1> QED BY <1>2, <1>3, <1>4
------------------------------------------------------------------------------
(* How many messages of a kind are in a sequence.                          *)
LEMMA CountFinite ==
  ASSUME NEW S, NEW s \in Seq(S), NEW T
  PROVE  /\ IsFiniteSet({i \in DOMAIN s : s[i] \in T}) /\ Count(T, s) \in Nat
         /\ DOMAIN s = 1 .. Len(s) /\ Len(s) \in Nat
<1>1. DOMAIN s = 1 .. Len(s) /\ Len(s) \in Nat
  OBVIOUS
<1>2. IsFiniteSet(1 .. Len(s))
  BY <1>1, FS_Interval
<1>3. {i \in DOMAIN s : s[i] \in T} \in SUBSET (1 .. Len(s))
  BY <1>1
<1>4. IsFiniteSet({i \in DOMAIN s : s[i] \in T})
  BY <1>2, <1>3, FS_Subset
<1> QED BY <1>1, <1>4, FS_CardinalityType DEF Count

LEMMA CountConcat ==
  ASSUME NEW S, NEW s \in Seq(S), NEW t \in Seq(S), NEW T
  PROVE  /\ Count(T, s \o t) = Count(T, s) + Count(T, t)
         /\ Count(T, s) \in Nat /\ Count(T, t) \in Nat
<1> DEFINE A == {i \in DOMAIN s : s[i] \in T}
           B == {i \in DOMAIN t : t[i] \in T}
           C == {i \in DOMAIN (s \o t) : (s \o t)[i] \in T}
           D == C \ A
           n == Len(s)
           f == [i \in B |-> i + n]
<1>1. /\ n \in Nat /\ Len(t) \in Nat /\ DOMAIN s = 1 .. n /\ DOMAIN t = 1 .. Len(t)
      /\ DOMAIN (s \o t) = 1 .. n + Len(t)
      /\ \A i \in 1 .. n : (s \o t)[i] = s[i]
      /\ \A i \in 1 .. Len(t) : (s \o t)[n + i] = t[i]
      /\ \A i \in n + 1 .. n + Len(t) : (s \o t)[i] = t[i - n]
  OBVIOUS
<1>2. IsFiniteSet(A) /\ IsFiniteSet(B) /\ Count(T, s) \in Nat /\ Count(T, t) \in Nat
  BY CountFinite
<1>3. A \subseteq C
  BY <1>1
<1>4. \A i : i \in D <=> i \in n + 1 .. n + Len(t) /\ t[i - n] \in T
  BY <1>1
<1>5. f \in Bijection(B, D)
  <2>1. \A i \in B : i \in 1 .. Len(t) /\ t[i] \in T
    BY <1>1
  <2>2. \A i \in B : f[i] \in D
    <3> SUFFICES ASSUME NEW i \in B PROVE i + n \in D
      OBVIOUS
    <3>1. i + n \in n + 1 .. n + Len(t) /\ (i + n) - n = i
      BY <1>1, <2>1
    <3> QED BY <1>4, <2>1, <3>1
  <2>3. \A i, j \in B : f[i] = f[j] => i = j
    BY <1>1, <2>1
  <2>4. \A k \in D : \E i \in B : f[i] = k
    <3> SUFFICES ASSUME NEW k \in D PROVE \E i \in B : f[i] = k
      OBVIOUS
    <3>1. k \in n + 1 .. n + Len(t) /\ t[k - n] \in T
      BY <1>4
    <3>2. k - n \in 1 .. Len(t) /\ (k - n) + n = k
      BY <1>1, <3>1
    <3>3. k - n \in B
      BY <1>1, <3>1, <3>2
    <3> QED BY <3>2, <3>3
  <2> HIDE DEF B, D
  <2>5. f \in [B -> D]
    BY <2>2
  <2>6. f \in Injection(B, D) /\ f \in Surjection(B, D)
    BY <2>3, <2>4, <2>5 DEF Injection, IsInjective, Surjection
  <2> QED BY <2>6 DEF Bijection
<1>6. IsFiniteSet(D) /\ Cardinality(D) = Cardinality(B)
  <2> HIDE DEF B, D, f
  <2>1. ExistsBijection(B, D)
    BY <1>5 DEF ExistsBijection
  <2> QED BY <1>2, <2>1, FS_Bijection
<1>7. C = A \cup D /\ A \cap D = {}
  BY <1>3
<1>8. Cardinality(C) = Cardinality(A) + Cardinality(D) - Cardinality(A \cap D)
  <2> HIDE DEF A, C, D
  <2> QED BY <1>2, <1>6, <1>7, FS_Union
<1>9. Cardinality(A \cap D) = 0
  BY <1>7, FS_EmptySet
<1>10. /\ Cardinality(A) = Count(T, s) /\ Cardinality(B) = Count(T, t)
       /\ Cardinality(C) = Count(T, s \o t)
  BY DEF Count
<1> HIDE DEF A, B, C, D
<1> QED BY <1>2, <1>6, <1>8, <1>9, <1>10

LEMMA CountShort ==
  ASSUME NEW T, NEW x
  PROVE  Count(T, <<>>) = 0 /\ Count(T, <<x>>) = IF x \in T THEN 1 ELSE 0
<1>1. {i \in DOMAIN <<>> : <<>>[i] \in T} = {}
  OBVIOUS
<1>2. {i \in DOMAIN <<x>> : <<x>>[i] \in T} = IF x \in T THEN {1} ELSE {}
  OBVIOUS
<1> QED BY <1>1, <1>2, FS_EmptySet, FS_Singleton DEF Count

LEMMA CountZero ==
  ASSUME NEW S, NEW s \in Seq(S), NEW T
  PROVE  Count(T, s) = 0 <=> \A x \in Range(s) : x \notin T
<1>1. IsFiniteSet({i \in DOMAIN s : s[i] \in T})
  BY CountFinite
<1>2. Count(T, s) = 0 <=> {i \in DOMAIN s : s[i] \in T} = {}
  BY <1>1, FS_EmptySet DEF Count
<1> QED BY <1>2 DEF Range

LEMMA CountTail ==
  ASSUME NEW S, NEW s \in Seq(S), s # <<>>, NEW T
  PROVE  Count(T, s) = Count(T, Tail(s)) + (IF Head(s) \in T THEN 1 ELSE 0)
<1>1. s = <<Head(s)>> \o Tail(s) /\ <<Head(s)>> \in Seq(S) /\ Tail(s) \in Seq(S)
  OBVIOUS
<1>2. PICK h, t \in Seq(S) : h = <<Head(s)>> /\ t = Tail(s)
  BY <1>1
<1>3. Count(T, h \o t) = Count(T, h) + Count(T, t) /\ Count(T, t) \in Nat
  BY CountConcat
<1>4. Count(T, h) = IF Head(s) \in T THEN 1 ELSE 0
  BY <1>2, CountShort
<1>5. s = h \o t
  BY <1>1, <1>2
<1>6. Count(T, s) = Count(T, h) + Count(T, t)
  BY <1>3, <1>5
<1>7. Count(T, t) + Count(T, h) = Count(T, h) + Count(T, t)
  BY <1>3, <1>4
<1> QED BY <1>2, <1>4, <1>6, <1>7

LEMMA CountAppend ==
  ASSUME NEW S, NEW s \in Seq(S), NEW x \in S, NEW T
  PROVE  Count(T, Append(s, x)) = Count(T, s) + (IF x \in T THEN 1 ELSE 0)
<1>1. Append(s, x) = s \o <<x>> /\ <<x>> \in Seq(S)
  OBVIOUS
<1>2. Count(T, s \o <<x>>) = Count(T, s) + Count(T, <<x>>)
  BY <1>1, CountConcat
<1> QED BY <1>1, <1>2, CountShort
------------------------------------------------------------------------------
(* Events for messages.                                                    *)
LEMMA FitsNew ==
  ASSUME NEW S, NEW q \in Seq(S), NEW t \in Seq(S), NEW e, NEW n \in Nat, Fits(q, e, n),
         \A i \in 1 .. Len(t) : t[i] = e
  PROVE  Fits(q \o t, e, n + Len(t))
<1>1. PICK place \in [1 .. Len(q) -> Nat] :
        /\ \A i \in 1 .. Len(q) : q[i] = e => place[i] \in 1 .. n
        /\ \A i, j \in 1 .. Len(q) : i < j /\ q[i] = e /\ q[j] = e => place[i] < place[j]
  BY DEF Fits
<1>2. /\ Len(q) \in Nat /\ Len(t) \in Nat /\ Len(q \o t) = Len(q) + Len(t)
      /\ \A i \in 1 .. Len(q) + Len(t) : (q \o t)[i] = IF i <= Len(q) THEN q[i] ELSE t[i - Len(q)]
  OBVIOUS
<1> DEFINE new == [i \in 1 .. Len(q) + Len(t) |-> IF i <= Len(q) THEN place[i] ELSE n + (i - Len(q))]
<1>3. new \in [1 .. Len(q \o t) -> Nat]
  BY <1>1, <1>2
<1>4. \A i \in 1 .. Len(q \o t) : (q \o t)[i] = e => new[i] \in 1 .. n + Len(t)
  BY <1>1, <1>2
<1>5. \A i, j \in 1 .. Len(q \o t) :
         i < j /\ (q \o t)[i] = e /\ (q \o t)[j] = e => new[i] < new[j]
  <2> SUFFICES ASSUME NEW i \in 1 .. Len(q) + Len(t), NEW j \in 1 .. Len(q) + Len(t), i < j,
                      (q \o t)[i] = e, (q \o t)[j] = e
               PROVE  new[i] < new[j]
    BY <1>2
  <2>1. CASE j <= Len(q)
    BY <1>1, <1>2, <2>1
  <2>2. CASE i <= Len(q) /\ j > Len(q)
    <3>1. new[i] = place[i] /\ place[i] \in 1 .. n
      BY <1>1, <1>2, <2>2
    <3> QED BY <1>2, <2>2, <3>1
  <2>3. CASE i > Len(q)
    BY <1>2, <2>3
  <2> QED BY <1>2, <2>1, <2>2, <2>3
<1> QED BY <1>3, <1>4, <1>5 DEF Fits

LEMMA FitsOther ==
  ASSUME NEW S, NEW q \in Seq(S), NEW t \in Seq(S), NEW e, NEW n \in Nat, Fits(q, e, n),
         \A i \in 1 .. Len(t) : t[i] # e
  PROVE  Fits(q \o t, e, n)
<1>1. PICK place \in [1 .. Len(q) -> Nat] :
        /\ \A i \in 1 .. Len(q) : q[i] = e => place[i] \in 1 .. n
        /\ \A i, j \in 1 .. Len(q) : i < j /\ q[i] = e /\ q[j] = e => place[i] < place[j]
  BY DEF Fits
<1>2. /\ Len(q) \in Nat /\ Len(t) \in Nat /\ Len(q \o t) = Len(q) + Len(t)
      /\ \A i \in 1 .. Len(q) + Len(t) : (q \o t)[i] = IF i <= Len(q) THEN q[i] ELSE t[i - Len(q)]
  OBVIOUS
<1> DEFINE new == [i \in 1 .. Len(q) + Len(t) |-> IF i <= Len(q) THEN place[i] ELSE 0]
<1>3. new \in [1 .. Len(q \o t) -> Nat]
  BY <1>1, <1>2
<1>4. \A i \in 1 .. Len(q \o t) : (q \o t)[i] = e => i \in 1 .. Len(q) /\ q[i] = e /\ new[i] = place[i]
  BY <1>1, <1>2
<1> QED BY <1>1, <1>2, <1>3, <1>4 DEF Fits

LEMMA FitsTail ==
  ASSUME NEW S, NEW q \in Seq(S), q # <<>>, NEW e, NEW n \in Nat, Fits(q, e, n)
  PROVE  /\ Head(q) # e => Fits(Tail(q), e, n)
         /\ Head(q) = e => n >= 1 /\ Fits(Tail(q), e, n - 1)
<1>1. PICK place \in [1 .. Len(q) -> Nat] :
        /\ \A i \in 1 .. Len(q) : q[i] = e => place[i] \in 1 .. n
        /\ \A i, j \in 1 .. Len(q) : i < j /\ q[i] = e /\ q[j] = e => place[i] < place[j]
  BY DEF Fits
<1>2. /\ Len(q) \in Nat /\ Len(q) >= 1 /\ Len(Tail(q)) = Len(q) - 1 /\ Head(q) = q[1]
      /\ \A i \in 1 .. Len(q) - 1 : Tail(q)[i] = q[i + 1]
  BY RangeTail
<1>3. CASE Head(q) # e
  <2> DEFINE new == [i \in 1 .. Len(q) - 1 |-> place[i + 1]]
  <2>1. new \in [1 .. Len(Tail(q)) -> Nat]
    BY <1>1, <1>2
  <2>2. \A i \in 1 .. Len(Tail(q)) : Tail(q)[i] = q[i + 1] /\ new[i] = place[i + 1] /\ i + 1 \in 1 .. Len(q)
    BY <1>2
  <2> HIDE DEF new
  <2>3. \A i \in 1 .. Len(Tail(q)) : Tail(q)[i] = e => new[i] \in 1 .. n
    BY <1>1, <2>2
  <2>4. \A i, j \in 1 .. Len(Tail(q)) :
           i < j /\ Tail(q)[i] = e /\ Tail(q)[j] = e => new[i] < new[j]
    <3> SUFFICES ASSUME NEW i \in 1 .. Len(Tail(q)), NEW j \in 1 .. Len(Tail(q)), i < j,
                        Tail(q)[i] = e, Tail(q)[j] = e
                 PROVE  new[i] < new[j]
      OBVIOUS
    <3>1. /\ i + 1 \in 1 .. Len(q) /\ j + 1 \in 1 .. Len(q) /\ i + 1 < j + 1
          /\ q[i + 1] = e /\ q[j + 1] = e /\ new[i] = place[i + 1] /\ new[j] = place[j + 1]
      BY <2>2
    <3> QED BY <1>1, <3>1
  <2>5. Fits(Tail(q), e, n)
    BY <2>1, <2>3, <2>4 DEF Fits
  <2> QED BY <1>3, <2>5
<1>4. CASE Head(q) = e
  <2> DEFINE new == [i \in 1 .. Len(q) - 1 |-> IF q[i + 1] = e THEN place[i + 1] - 1 ELSE 0]
  <2>1. 1 \in 1 .. Len(q) /\ place[1] \in 1 .. n
    BY <1>1, <1>2, <1>4
  <2>2. ASSUME NEW i \in 1 .. Len(Tail(q)), Tail(q)[i] = e
        PROVE  /\ i + 1 \in 1 .. Len(q) /\ q[i + 1] = e /\ new[i] = place[i + 1] - 1
               /\ new[i] \in 1 .. n - 1
    <3>1. i + 1 \in 1 .. Len(q) /\ q[i + 1] = e /\ new[i] = place[i + 1] - 1 /\ 1 < i + 1
      BY <1>2, <2>2
    <3>2. place[i + 1] \in 1 .. n /\ place[1] < place[i + 1]
      BY <1>1, <1>2, <1>4, <2>1, <3>1
    <3> QED BY <2>1, <3>1, <3>2
  <2>3. new \in [1 .. Len(Tail(q)) -> Nat]
    BY <1>1, <1>2
  <2> HIDE DEF new
  <2>4. \A i, j \in 1 .. Len(Tail(q)) :
           i < j /\ Tail(q)[i] = e /\ Tail(q)[j] = e => new[i] < new[j]
    <3> SUFFICES ASSUME NEW i \in 1 .. Len(Tail(q)), NEW j \in 1 .. Len(Tail(q)), i < j,
                        Tail(q)[i] = e, Tail(q)[j] = e
                 PROVE  new[i] < new[j]
      OBVIOUS
    <3>1. /\ i + 1 \in 1 .. Len(q) /\ j + 1 \in 1 .. Len(q) /\ i + 1 < j + 1
          /\ q[i + 1] = e /\ q[j + 1] = e
          /\ new[i] = place[i + 1] - 1 /\ new[j] = place[j + 1] - 1
      BY <1>2, <2>2
    <3>2. place[i + 1] < place[j + 1]
      BY <1>1, <3>1
    <3> QED BY <1>1, <3>1, <3>2
  <2>5. Fits(Tail(q), e, n - 1)
    BY <2>2, <2>3, <2>4 DEF Fits
  <2> QED BY <1>4, <2>1, <2>5
<1> QED BY <1>3, <1>4
------------------------------------------------------------------------------
(* The messages that are made.                                             *)
LEMMA NoneFact ==
  None.type = "none" /\ None.msgId = 0 /\ None \notin ToClient
BY DEF None, Message, ToClient
------------------------------------------------------------------------------
(* What the steps of the gateway do to the queues.                         *)
LEMMA Widen ==
  ASSUME NEW S, NEW T, S \subseteq T, NEW s \in Seq(S)
  PROVE  s \in Seq(T)
OBVIOUS

LEMMA EventFacts ==
  /\ \A k, l \in Lanes, c, d \in Clients : Event(k, c) = Event(l, d) <=> k = l /\ c = d
  /\ \A k \in Lanes, c \in Clients : Event(k, c) \in Events /\ Event(k, c) # Broadcast
  /\ Broadcast \in Events
BY DEF Event, Broadcast, Events, Lanes

LEMMA LaneFacts ==
  ASSUME Shape
  PROVE  \A l \in Lanes, d \in Clients :
           msgs[l][d] \in Seq(AnyMessage) /\ Len(msgs[l][d]) \in Nat
BY DEF Shape, LaneShape

LEMMA RepeatedEvents ==
  ASSUME NEW S, NEW s \in Seq(S), NEW e \in Events
  PROVE  /\ [i \in DOMAIN s |-> e] \in Seq(Events)
         /\ Len([i \in DOMAIN s |-> e]) = Len(s)
         /\ \A j \in 1 .. Len(s) : [i \in DOMAIN s |-> e][j] = e
OBVIOUS

Others(c) ==
  \A d \in Clients \ {c} : UNCHANGED <<Cr(d), Bs(d), Br(d), Cs(d)>>

\* A handler takes a message and leaves some.
LEMMA EmitFacts ==
  ASSUME Shape, NEW c \in Clients, NEW k \in {"clientRecv", "brokerRecv"},
         NEW up \in Seq(ToBroker), NEW down \in Seq(ToClient),
         ques["gateway"] # <<>>, Head(ques["gateway"]) = Event(k, c), Emit(c, k, up, down)
  PROVE  /\ msgs[k][c] # <<>> /\ Others(c)
         /\ k = "clientRecv" => Cr(c)' = Tail(Cr(c)) /\ Br(c)' = Br(c)
         /\ k = "brokerRecv" => Br(c)' = Tail(Br(c)) /\ Cr(c)' = Cr(c)
         /\ Bs(c)' = Bs(c) \o up /\ Cs(c)' = Cs(c) \o down
         /\ LaneShape' /\ InStep' /\ UNCHANGED <<known, sock>>
<1>1. /\ msgs \in [Lanes -> [Clients -> Seq(AnyMessage)]] /\ ques \in [Queues -> Seq(Events)]
      /\ k \in Lanes /\ QueueOf(k) = "gateway"
      /\ up \in Seq(AnyMessage) /\ down \in Seq(AnyMessage)
      /\ \A l \in Lanes, d \in Clients : Fits(ques[QueueOf(l)], Event(l, d), Len(msgs[l][d]))
  BY Widen DEF Shape, LaneShape, InStep, Lanes, QueueOf, ToBroker, ToClient
<1>2. msgs[k][c] # <<>>
  <2>1. Fits(ques["gateway"], Event(k, c), Len(msgs[k][c])) /\ Len(msgs[k][c]) \in Nat
    BY <1>1
  <2>2. Len(msgs[k][c]) >= 1
    BY <1>1, <2>1, FitsTail DEF Queues
  <2> QED BY <1>1, <2>2
<1>3. /\ msgs' = [msgs EXCEPT ![k][c] = Tail(@), !["brokerSend"][c] = @ \o up,
                              !["clientSend"][c] = @ \o down]
      /\ UNCHANGED <<known, sock>>
  BY DEF Emit
<1>4. /\ msgs' \in [Lanes -> [Clients -> Seq(AnyMessage)]]
      /\ msgs'[k][c] = Tail(msgs[k][c])
      /\ msgs'["brokerSend"][c] = msgs["brokerSend"][c] \o up
      /\ msgs'["clientSend"][c] = msgs["clientSend"][c] \o down
      /\ \A l \in Lanes \ {k, "brokerSend", "clientSend"} : msgs'[l][c] = msgs[l][c]
      /\ \A l \in Lanes, d \in Clients \ {c} : msgs'[l][d] = msgs[l][d]
  <2>1. Tail(msgs[k][c]) \in Seq(AnyMessage)
    BY <1>1, <1>2
  <2>2. /\ msgs["brokerSend"][c] \o up \in Seq(AnyMessage)
        /\ msgs["clientSend"][c] \o down \in Seq(AnyMessage)
    BY <1>1 DEF Lanes
  <2> QED BY <1>1, <1>3, <2>1, <2>2 DEF Lanes
<1>5. Others(c)
  BY <1>4 DEF Others, Cr, Bs, Br, Cs, Lanes
<1>6. /\ k = "clientRecv" => Cr(c)' = Tail(Cr(c)) /\ Br(c)' = Br(c)
      /\ k = "brokerRecv" => Br(c)' = Tail(Br(c)) /\ Cr(c)' = Cr(c)
      /\ Bs(c)' = Bs(c) \o up /\ Cs(c)' = Cs(c) \o down
  BY <1>4 DEF Cr, Bs, Br, Cs, Lanes
<1>7. LaneShape'
  <2> SUFFICES ASSUME NEW d \in Clients
               PROVE  /\ Cr(d)' \in Seq(FromClient) /\ Bs(d)' \in Seq(ToBroker)
                      /\ Br(d)' \in Seq(FromBroker) /\ Cs(d)' \in Seq(ToClient)
    BY <1>4 DEF LaneShape
  <2>1. /\ Cr(d) \in Seq(FromClient) /\ Bs(d) \in Seq(ToBroker)
        /\ Br(d) \in Seq(FromBroker) /\ Cs(d) \in Seq(ToClient)
    BY DEF Shape, LaneShape
  <2>2. CASE d # c
    BY <1>5, <2>1, <2>2 DEF Others
  <2>3. CASE d = c
    <3>1. Bs(c) \o up \in Seq(ToBroker) /\ Cs(c) \o down \in Seq(ToClient)
      BY <2>1, <2>3
    <3>2. CASE k = "clientRecv"
      <4>1. Cr(c) # <<>>
        BY <1>2, <3>2 DEF Cr
      <4>2. Tail(Cr(c)) \in Seq(FromClient)
        BY <2>1, <2>3, <4>1
      <4> QED BY <1>6, <2>1, <2>3, <3>1, <3>2, <4>2
    <3>3. CASE k = "brokerRecv"
      <4>1. Br(c) # <<>>
        BY <1>2, <3>3 DEF Br
      <4>2. Tail(Br(c)) \in Seq(FromBroker)
        BY <2>1, <2>3, <4>1
      <4> QED BY <1>6, <2>1, <2>3, <3>1, <3>3, <4>2
    <3> QED BY <3>2, <3>3
  <2> QED BY <2>2, <2>3
<1>8. InStep'
  <2> DEFINE evs == [i \in DOMAIN up |-> Event("brokerSend", c)]
             evd == [i \in DOMAIN down |-> Event("clientSend", c)]
  <2>1. /\ evs \in Seq(Events) /\ Len(evs) = Len(up)
        /\ \A i \in 1 .. Len(evs) : evs[i] = Event("brokerSend", c)
        /\ evd \in Seq(Events) /\ Len(evd) = Len(down)
        /\ \A i \in 1 .. Len(evd) : evd[i] = Event("clientSend", c)
    <3>1. Event("brokerSend", c) \in Events /\ Event("clientSend", c) \in Events
      BY EventFacts DEF Lanes
    <3>2. /\ evs \in Seq(Events) /\ Len(evs) = Len(up)
          /\ \A i \in 1 .. Len(up) : evs[i] = Event("brokerSend", c)
      BY <3>1, RepeatedEvents
    <3>3. /\ evd \in Seq(Events) /\ Len(evd) = Len(down)
          /\ \A i \in 1 .. Len(down) : evd[i] = Event("clientSend", c)
      BY <3>1, RepeatedEvents
    <3> QED BY <3>2, <3>3
  <2>2. ques' = [ques EXCEPT !["gateway"] = Tail(@), !["brokerSend"] = @ \o evs,
                             !["clientSend"] = @ \o evd]
    BY DEF Emit
  <2> HIDE DEF evs, evd
  <2>3. /\ Tail(ques["gateway"]) \in Seq(Events)
        /\ ques["brokerSend"] \o evs \in Seq(Events)
        /\ ques["clientSend"] \o evd \in Seq(Events)
    BY <1>1, <2>1 DEF Queues
  <2>4. /\ ques' \in [Queues -> Seq(Events)]
        /\ ques'["gateway"] = Tail(ques["gateway"])
        /\ ques'["brokerSend"] = ques["brokerSend"] \o evs
        /\ ques'["clientSend"] = ques["clientSend"] \o evd
    BY <1>1, <2>2, <2>3 DEF Queues
  <2>5. ASSUME NEW l \in Lanes, NEW d \in Clients
        PROVE  Fits(ques'[QueueOf(l)], Event(l, d), Len(msgs'[l][d]))
    <3>0. /\ Fits(ques[QueueOf(l)], Event(l, d), Len(msgs[l][d])) /\ Len(msgs[l][d]) \in Nat
          /\ ques["gateway"] \in Seq(Events) /\ ques["brokerSend"] \in Seq(Events)
          /\ ques["clientSend"] \in Seq(Events)
      BY <1>1 DEF Queues
    <3>1. CASE l \in {"clientRecv", "brokerRecv"} /\ l = k /\ d = c
      <4>1. Fits(Tail(ques["gateway"]), Event(l, d), Len(msgs[l][d]) - 1)
        BY <1>1, <3>0, <3>1, FitsTail
      <4>2. Len(msgs'[l][d]) = Len(msgs[l][d]) - 1
        <5>1. msgs'[l][d] = Tail(msgs[l][d]) /\ msgs[l][d] \in Seq(AnyMessage) /\ msgs[l][d] # <<>>
          BY <1>1, <1>2, <1>4, <3>1
        <5> QED BY <5>1, RangeTail
      <4> QED BY <1>1, <2>4, <3>1, <4>1, <4>2
    <3>2. CASE l \in {"clientRecv", "brokerRecv"} /\ ~(l = k /\ d = c)
      <4>1. Event(l, d) # Head(ques["gateway"]) /\ QueueOf(l) = "gateway"
        BY <1>1, <3>2, EventFacts DEF QueueOf
      <4>2. Fits(Tail(ques["gateway"]), Event(l, d), Len(msgs[l][d]))
        BY <3>0, <4>1, FitsTail
      <4>3. msgs'[l][d] = msgs[l][d]
        BY <1>4, <3>2
      <4> QED BY <2>4, <4>1, <4>2, <4>3
    <3>3. CASE l = "brokerSend" /\ d = c
      <4>1. Fits(ques["brokerSend"] \o evs, Event(l, d), Len(msgs[l][d]) + Len(up))
        BY <2>1, <3>0, <3>3, FitsNew DEF QueueOf
      <4>2. Len(msgs'[l][d]) = Len(msgs[l][d]) + Len(up)
        <5>1. msgs'[l][d] = msgs[l][d] \o up /\ msgs[l][d] \in Seq(AnyMessage)
          BY <1>1, <1>4, <3>3 DEF Lanes
        <5> QED BY <1>1, <5>1
      <4> QED BY <2>4, <3>3, <4>1, <4>2 DEF QueueOf
    <3>4. CASE l = "brokerSend" /\ d # c
      <4>0. \A i \in 1 .. Len(evs) : evs[i] # Event(l, d)
        BY <2>1, <3>4, EventFacts
      <4>1. Fits(ques["brokerSend"] \o evs, Event(l, d), Len(msgs[l][d]))
        BY <2>1, <3>0, <3>4, <4>0, FitsOther DEF QueueOf
      <4> QED BY <1>4, <2>4, <3>4, <4>1 DEF QueueOf
    <3>5. CASE l = "clientSend" /\ d = c
      <4>1. Fits(ques["clientSend"] \o evd, Event(l, d), Len(msgs[l][d]) + Len(down))
        BY <2>1, <3>0, <3>5, FitsNew DEF QueueOf
      <4>2. Len(msgs'[l][d]) = Len(msgs[l][d]) + Len(down)
        <5>1. msgs'[l][d] = msgs[l][d] \o down /\ msgs[l][d] \in Seq(AnyMessage)
          BY <1>1, <1>4, <3>5 DEF Lanes
        <5> QED BY <1>1, <5>1
      <4> QED BY <2>4, <3>5, <4>1, <4>2 DEF QueueOf
    <3>6. CASE l = "clientSend" /\ d # c
      <4>0. \A i \in 1 .. Len(evd) : evd[i] # Event(l, d)
        BY <2>1, <3>6, EventFacts
      <4>1. Fits(ques["clientSend"] \o evd, Event(l, d), Len(msgs[l][d]))
        BY <2>1, <3>0, <3>6, <4>0, FitsOther DEF QueueOf
      <4> QED BY <1>4, <2>4, <3>6, <4>1 DEF QueueOf
    <3> QED BY <3>1, <3>2, <3>3, <3>4, <3>5, <3>6 DEF Lanes
  <2> QED BY <2>4, <2>5 DEF InStep
<1> QED BY <1>2, <1>3, <1>5, <1>6, <1>7, <1>8

\* A message is added, with its event.
LEMMA PutFacts ==
  ASSUME Shape, NEW k \in {"clientRecv", "brokerRecv"}, NEW c \in Clients, NEW m \in AnyMessage,
         msgs' = [msgs EXCEPT ![k][c] = Append(@, m)],
         ques' = [ques EXCEPT !["gateway"] = Append(@, Event(k, c))]
  PROVE  /\ msgs' \in [Lanes -> [Clients -> Seq(AnyMessage)]]
         /\ msgs'[k][c] = Append(msgs[k][c], m)
         /\ \A l \in Lanes, d \in Clients : ~(l = k /\ d = c) => msgs'[l][d] = msgs[l][d]
         /\ InStep'
<1>1. /\ msgs \in [Lanes -> [Clients -> Seq(AnyMessage)]] /\ ques \in [Queues -> Seq(Events)]
      /\ k \in Lanes /\ QueueOf(k) = "gateway" /\ Event(k, c) \in Events
      /\ \A l \in Lanes, d \in Clients : Fits(ques[QueueOf(l)], Event(l, d), Len(msgs[l][d]))
  BY EventFacts DEF Shape, LaneShape, InStep, Lanes, QueueOf
<1>2. /\ msgs' \in [Lanes -> [Clients -> Seq(AnyMessage)]]
      /\ msgs'[k][c] = Append(msgs[k][c], m)
      /\ \A l \in Lanes, d \in Clients : ~(l = k /\ d = c) => msgs'[l][d] = msgs[l][d]
  <2>1. Append(msgs[k][c], m) \in Seq(AnyMessage)
    BY <1>1
  <2> QED BY <1>1, <2>1
<1>3. /\ ques' \in [Queues -> Seq(Events)]
      /\ ques'["gateway"] = ques["gateway"] \o <<Event(k, c)>>
      /\ \A q \in Queues \ {"gateway"} : ques'[q] = ques[q]
  <2>1. /\ Append(ques["gateway"], Event(k, c)) \in Seq(Events)
        /\ Append(ques["gateway"], Event(k, c)) = ques["gateway"] \o <<Event(k, c)>>
    BY <1>1 DEF Queues
  <2> QED BY <1>1, <2>1 DEF Queues
<1>4. ASSUME NEW l \in Lanes, NEW d \in Clients
      PROVE  Fits(ques'[QueueOf(l)], Event(l, d), Len(msgs'[l][d]))
  <2> DEFINE t == <<Event(k, c)>>
  <2>0. /\ t \in Seq(Events) /\ Len(t) = 1 /\ t[1] = Event(k, c)
        /\ msgs[l][d] \in Seq(AnyMessage) /\ Len(msgs[l][d]) \in Nat
        /\ Fits(ques[QueueOf(l)], Event(l, d), Len(msgs[l][d]))
        /\ ques["gateway"] \in Seq(Events)
    BY <1>1 DEF Queues
  <2> HIDE DEF t
  <2>1. CASE l = k /\ d = c
    <3>0. \A i \in 1 .. Len(t) : t[i] = Event(l, d)
      BY <2>0, <2>1
    <3>1. Fits(ques["gateway"] \o t, Event(l, d), Len(msgs[l][d]) + Len(t))
      <4>1. Fits(ques["gateway"], Event(l, d), Len(msgs[l][d]))
        BY <1>1, <2>0, <2>1
      <4> QED BY <2>0, <3>0, <4>1, FitsNew
    <3>2. Len(msgs'[l][d]) = Len(msgs[l][d]) + 1
      BY <1>2, <2>0, <2>1
    <3> QED BY <1>1, <1>3, <2>0, <2>1, <3>1, <3>2 DEF t
  <2>2. CASE ~(l = k /\ d = c) /\ QueueOf(l) = "gateway"
    <3>1. Event(l, d) # Event(k, c)
      BY <1>1, <2>2, EventFacts
    <3>2. \A i \in 1 .. Len(t) : t[i] # Event(l, d)
      BY <2>0, <3>1
    <3>3. Fits(ques["gateway"] \o t, Event(l, d), Len(msgs[l][d]))
      <4>1. Fits(ques["gateway"], Event(l, d), Len(msgs[l][d]))
        BY <2>0, <2>2
      <4> QED BY <2>0, <3>2, <4>1, FitsOther
    <3> QED BY <1>2, <1>3, <2>2, <3>3 DEF t
  <2>3. CASE QueueOf(l) # "gateway"
    <3>1. QueueOf(l) \in Queues \ {"gateway"} /\ l # k
      BY <1>1, <2>3 DEF QueueOf, Lanes, Queues
    <3> QED BY <1>2, <1>3, <2>0, <3>1
  <2> QED BY <2>1, <2>2, <2>3
<1> QED BY <1>2, <1>3, <1>4 DEF InStep

\* A message is taken, with its event.
LEMMA TakeFacts ==
  ASSUME Shape, NEW k \in {"clientSend", "brokerSend"}, NEW c \in Clients,
         ques[k] # <<>>, Head(ques[k]) = Event(k, c),
         msgs' = [msgs EXCEPT ![k][c] = Tail(@)], ques' = [ques EXCEPT ![k] = Tail(@)]
  PROVE  /\ msgs[k][c] # <<>>
         /\ msgs' \in [Lanes -> [Clients -> Seq(AnyMessage)]]
         /\ msgs'[k][c] = Tail(msgs[k][c])
         /\ \A l \in Lanes, d \in Clients : ~(l = k /\ d = c) => msgs'[l][d] = msgs[l][d]
         /\ InStep'
<1>1. /\ msgs \in [Lanes -> [Clients -> Seq(AnyMessage)]] /\ ques \in [Queues -> Seq(Events)]
      /\ k \in Lanes /\ k \in Queues /\ QueueOf(k) = k
      /\ \A l \in Lanes, d \in Clients : Fits(ques[QueueOf(l)], Event(l, d), Len(msgs[l][d]))
      /\ \A l \in Lanes : QueueOf(l) \in Queues
  BY DEF Shape, LaneShape, InStep, Lanes, QueueOf, Queues
<1>2. msgs[k][c] # <<>>
  <2>1. Fits(ques[k], Event(k, c), Len(msgs[k][c])) /\ Len(msgs[k][c]) \in Nat
    BY <1>1
  <2>2. Len(msgs[k][c]) >= 1
    BY <1>1, <2>1, FitsTail
  <2> QED BY <1>1, <2>2
<1>3. /\ msgs' \in [Lanes -> [Clients -> Seq(AnyMessage)]]
      /\ msgs'[k][c] = Tail(msgs[k][c])
      /\ \A l \in Lanes, d \in Clients : ~(l = k /\ d = c) => msgs'[l][d] = msgs[l][d]
  <2>1. Tail(msgs[k][c]) \in Seq(AnyMessage)
    BY <1>1, <1>2
  <2> QED BY <1>1, <2>1
<1>4. /\ ques' \in [Queues -> Seq(Events)]
      /\ ques'[k] = Tail(ques[k])
      /\ \A q \in Queues \ {k} : ques'[q] = ques[q]
  <2>1. Tail(ques[k]) \in Seq(Events)
    BY <1>1
  <2> QED BY <1>1, <2>1
<1>5. ASSUME NEW l \in Lanes, NEW d \in Clients
      PROVE  Fits(ques'[QueueOf(l)], Event(l, d), Len(msgs'[l][d]))
  <2>0. /\ msgs[l][d] \in Seq(AnyMessage) /\ Len(msgs[l][d]) \in Nat
        /\ Fits(ques[QueueOf(l)], Event(l, d), Len(msgs[l][d]))
        /\ ques[k] \in Seq(Events)
    BY <1>1
  <2>1. CASE l = k /\ d = c
    <3>1. Fits(Tail(ques[k]), Event(l, d), Len(msgs[l][d]) - 1)
      BY <1>1, <2>0, <2>1, FitsTail
    <3>2. msgs'[l][d] = Tail(msgs[l][d]) /\ msgs[l][d] # <<>>
      BY <1>2, <1>3, <2>1
    <3>3. Len(msgs'[l][d]) = Len(msgs[l][d]) - 1
      BY <2>0, <3>2, RangeTail
    <3> QED BY <1>1, <1>4, <2>1, <3>1, <3>3
  <2>2. CASE l = k /\ d # c
    <3>1. Event(l, d) # Head(ques[k])
      BY <1>1, <2>2, EventFacts
    <3>2. Fits(Tail(ques[k]), Event(l, d), Len(msgs[l][d]))
      BY <1>1, <2>0, <2>2, <3>1, FitsTail
    <3> QED BY <1>1, <1>3, <1>4, <2>2, <3>2
  <2>3. CASE l # k
    <3>1. QueueOf(l) \in Queues \ {k}
      BY <1>1, <2>3 DEF QueueOf, Lanes
    <3> QED BY <1>3, <1>4, <2>0, <2>3, <3>1
  <2> QED BY <2>1, <2>2, <2>3
<1> QED BY <1>2, <1>3, <1>4, <1>5 DEF InStep

\* Broadcasts come and go.
LEMMA BroadcastFacts ==
  ASSUME Shape, UNCHANGED msgs, ques' \in [Queues -> Seq(Events)],
         \A q \in Queues :
           \/ ques'[q] = ques[q]
           \/ ques[q] # <<>> /\ Head(ques[q]) = Broadcast /\ ques'[q] = Tail(ques[q])
           \/ \E t \in Seq(Events) : /\ ques'[q] = ques[q] \o t
                                     /\ \A i \in 1 .. Len(t) : t[i] = Broadcast
  PROVE  InStep'
<1> SUFFICES ASSUME NEW l \in Lanes, NEW d \in Clients
             PROVE  Fits(ques'[QueueOf(l)], Event(l, d), Len(msgs[l][d]))
  BY DEF InStep
<1> DEFINE q == QueueOf(l)
<1>1. /\ q \in Queues /\ ques[q] \in Seq(Events)
      /\ Fits(ques[q], Event(l, d), Len(msgs[l][d])) /\ Len(msgs[l][d]) \in Nat
      /\ Event(l, d) # Broadcast
  BY LaneFacts, EventFacts DEF Shape, InStep, QueueOf, Lanes, Queues
<1> HIDE DEF q
<1>2. CASE ques'[q] = ques[q]
  BY <1>1, <1>2 DEF q
<1>3. CASE ques[q] # <<>> /\ Head(ques[q]) = Broadcast /\ ques'[q] = Tail(ques[q])
  <2>1. Fits(Tail(ques[q]), Event(l, d), Len(msgs[l][d]))
    BY <1>1, <1>3, FitsTail
  <2> QED BY <1>3, <2>1 DEF q
<1>4. ASSUME NEW t \in Seq(Events), ques'[q] = ques[q] \o t, \A i \in 1 .. Len(t) : t[i] = Broadcast
      PROVE  Fits(ques'[q], Event(l, d), Len(msgs[l][d]))
  <2>1. \A i \in 1 .. Len(t) : t[i] # Event(l, d)
    BY <1>1, <1>4
  <2>2. Fits(ques[q] \o t, Event(l, d), Len(msgs[l][d]))
    BY <1>1, <2>1, FitsOther
  <2> QED BY <1>4, <2>2
<1>5. Fits(ques'[q], Event(l, d), Len(msgs[l][d]))
  BY <1>1, <1>2, <1>3, <1>4 DEF q
<1> QED BY <1>5 DEF q

LEMMA ClientRecvFacts ==
  ASSUME Shape, NEW c \in Clients, NEW m, m \in FromClient \/ m = Message("SEARCHGW"),
         ClientRecv(c, m)
  PROVE  /\ Others(c) /\ UNCHANGED <<Bs(c), Br(c), Cs(c), nodeVars, sock>>
         /\ \/ /\ m \in FromClient /\ (c \in known \/ m.type = "CONNECT")
               /\ Cr(c)' = Append(Cr(c), m) /\ known' = known \cup {c}
            \/ /\ Cr(c)' = Cr(c) /\ known' = known /\ (m \in FromClient => c \notin known)
               /\ m.type = "CONNECT" => ~MayJoin
         /\ LaneShape' /\ InStep'
<1>0. /\ \A d \in Clients : /\ Cr(d) \in Seq(FromClient) /\ Bs(d) \in Seq(ToBroker)
                            /\ Br(d) \in Seq(FromBroker) /\ Cs(d) \in Seq(ToClient)
      /\ msgs \in [Lanes -> [Clients -> Seq(AnyMessage)]]
      /\ Message("SEARCHGW").type = "SEARCHGW" /\ "SEARCHGW" \notin UpTypes
      /\ \A x \in FromClient : x \in AnyMessage /\ x.type \in UpTypes
      /\ "CONNECT" \in UpTypes
  BY DEF Shape, LaneShape, Message, UpTypes, FromClient
<1>1. CASE Accepts(c, m)
  <2>1. m \in FromClient /\ m \in AnyMessage /\ (c \in known \/ m.type = "CONNECT")
    BY <1>0, <1>1 DEF Accepts
  <2>2. /\ msgs' = [msgs EXCEPT !["clientRecv"][c] = Append(@, m)]
        /\ ques' = [ques EXCEPT !["gateway"] = Append(@, Event("clientRecv", c))]
        /\ known' = known \cup {c} /\ UNCHANGED <<nodeVars, sock>>
    BY <1>1 DEF ClientRecv
  <2>3. /\ msgs' \in [Lanes -> [Clients -> Seq(AnyMessage)]]
        /\ msgs'["clientRecv"][c] = Append(msgs["clientRecv"][c], m)
        /\ \A l \in Lanes, d \in Clients : ~(l = "clientRecv" /\ d = c) => msgs'[l][d] = msgs[l][d]
        /\ InStep'
    BY <2>1, <2>2, PutFacts
  <2>4. Others(c) /\ UNCHANGED <<Bs(c), Br(c), Cs(c)>> /\ Cr(c)' = Append(Cr(c), m)
    BY <2>3 DEF Others, Cr, Bs, Br, Cs, Lanes
  <2>5. LaneShape'
    <3> SUFFICES ASSUME NEW d \in Clients
                 PROVE  /\ Cr(d)' \in Seq(FromClient) /\ Bs(d)' \in Seq(ToBroker)
                        /\ Br(d)' \in Seq(FromBroker) /\ Cs(d)' \in Seq(ToClient)
      BY <2>3 DEF LaneShape
    <3>1. Append(Cr(c), m) \in Seq(FromClient)
      BY <1>0, <2>1
    <3> QED BY <1>0, <2>4, <3>1 DEF Others
  <2> QED BY <2>1, <2>2, <2>3, <2>4, <2>5
<1>2. CASE ~Accepts(c, m)
  <2>1. /\ UNCHANGED <<msgs, known, nodeVars, sock>>
        /\ ques' = ques \/ ques' = [ques EXCEPT !["gateway"] = Append(@, Broadcast)]
    BY <1>2 DEF ClientRecv
  <2>2. Others(c) /\ UNCHANGED <<Bs(c), Br(c), Cs(c), Cr(c)>> /\ LaneShape'
    BY <2>1 DEF Others, Cr, Bs, Br, Cs, Shape, LaneShape
  <2>3. InStep'
    <3>1. ques \in [Queues -> Seq(Events)] /\ Broadcast \in Events /\ "gateway" \in Queues
      BY EventFacts DEF Shape, InStep, Queues
    <3>2. Append(ques["gateway"], Broadcast) \in Seq(Events)
      BY <3>1
    <3>3. CASE ques' = ques
      BY <2>1, <3>3 DEF Shape, InStep
    <3>4. CASE ques' = [ques EXCEPT !["gateway"] = Append(@, Broadcast)]
      <4>1. /\ ques' \in [Queues -> Seq(Events)]
            /\ ques'["gateway"] = Append(ques["gateway"], Broadcast)
            /\ \A q \in Queues \ {"gateway"} : ques'[q] = ques[q]
        BY <3>1, <3>2, <3>4
      <4>2. /\ Append(ques["gateway"], Broadcast) = ques["gateway"] \o <<Broadcast>>
            /\ <<Broadcast>> \in Seq(Events)
            /\ \A i \in 1 .. Len(<<Broadcast>>) : <<Broadcast>>[i] = Broadcast
        BY <3>1
      <4>3. \A q \in Queues :
              \/ ques'[q] = ques[q]
              \/ \E t \in Seq(Events) : /\ ques'[q] = ques[q] \o t
                                        /\ \A i \in 1 .. Len(t) : t[i] = Broadcast
        BY <4>1, <4>2
      <4> QED BY <2>1, <4>1, <4>3, BroadcastFacts
    <3> QED BY <2>1, <3>3, <3>4
  <2>4. (m \in FromClient => c \notin known) /\ (m.type = "CONNECT" => ~MayJoin)
    BY <1>0, <1>2 DEF Accepts
  <2> QED BY <2>1, <2>2, <2>3, <2>4
<1> QED BY <1>1, <1>2

LEMMA BrokerRecvFacts ==
  ASSUME Shape, NEW c \in Clients, NEW m \in FromBroker, BrokerRecv(c, m)
  PROVE  /\ Others(c) /\ UNCHANGED <<Cr(c), Bs(c), Cs(c), known, nodeVars, sock>>
         /\ Br(c)' = Append(Br(c), m)
         /\ LaneShape' /\ InStep'
<1>0. /\ \A d \in Clients : /\ Cr(d) \in Seq(FromClient) /\ Bs(d) \in Seq(ToBroker)
                            /\ Br(d) \in Seq(FromBroker) /\ Cs(d) \in Seq(ToClient)
      /\ m \in AnyMessage
  BY DEF Shape, LaneShape, FromBroker
<1>1. /\ msgs' = [msgs EXCEPT !["brokerRecv"][c] = Append(@, m)]
      /\ ques' = [ques EXCEPT !["gateway"] = Append(@, Event("brokerRecv", c))]
      /\ UNCHANGED <<known, nodeVars, sock>>
  BY DEF BrokerRecv
<1>2. /\ msgs' \in [Lanes -> [Clients -> Seq(AnyMessage)]]
      /\ msgs'["brokerRecv"][c] = Append(msgs["brokerRecv"][c], m)
      /\ \A l \in Lanes, d \in Clients : ~(l = "brokerRecv" /\ d = c) => msgs'[l][d] = msgs[l][d]
      /\ InStep'
  BY <1>0, <1>1, PutFacts
<1>3. Others(c) /\ UNCHANGED <<Cr(c), Bs(c), Cs(c)>> /\ Br(c)' = Append(Br(c), m)
  BY <1>2 DEF Others, Cr, Bs, Br, Cs, Lanes
<1>4. LaneShape'
  <2> SUFFICES ASSUME NEW d \in Clients
               PROVE  /\ Cr(d)' \in Seq(FromClient) /\ Bs(d)' \in Seq(ToBroker)
                      /\ Br(d)' \in Seq(FromBroker) /\ Cs(d)' \in Seq(ToClient)
    BY <1>2 DEF LaneShape
  <2>1. Append(Br(c), m) \in Seq(FromBroker)
    BY <1>0
  <2> QED BY <1>0, <1>3, <2>1 DEF Others
<1> QED BY <1>1, <1>2, <1>3, <1>4

LEMMA ClientSendFacts ==
  ASSUME Shape, NEW c \in Clients, ClientSend(c)
  PROVE  /\ Others(c) /\ UNCHANGED <<Cr(c), Bs(c), Br(c), known, nodeVars, sock>>
         /\ Cs(c) # <<>> /\ Cs(c)' = Tail(Cs(c))
         /\ LaneShape' /\ InStep'
<1>0. \A d \in Clients : /\ Cr(d) \in Seq(FromClient) /\ Bs(d) \in Seq(ToBroker)
                         /\ Br(d) \in Seq(FromBroker) /\ Cs(d) \in Seq(ToClient)
  BY DEF Shape, LaneShape
<1>1. UNCHANGED <<known, nodeVars, sock>>
  BY DEF ClientSend
<1>2. /\ msgs["clientSend"][c] # <<>>
      /\ msgs' \in [Lanes -> [Clients -> Seq(AnyMessage)]]
      /\ msgs'["clientSend"][c] = Tail(msgs["clientSend"][c])
      /\ \A l \in Lanes, d \in Clients : ~(l = "clientSend" /\ d = c) => msgs'[l][d] = msgs[l][d]
      /\ InStep'
  BY TakeFacts DEF ClientSend
<1>3. Others(c) /\ UNCHANGED <<Cr(c), Bs(c), Br(c)>> /\ Cs(c) # <<>> /\ Cs(c)' = Tail(Cs(c))
  BY <1>2 DEF Others, Cr, Bs, Br, Cs, Lanes
<1>4. LaneShape'
  <2> SUFFICES ASSUME NEW d \in Clients
               PROVE  /\ Cr(d)' \in Seq(FromClient) /\ Bs(d)' \in Seq(ToBroker)
                      /\ Br(d)' \in Seq(FromBroker) /\ Cs(d)' \in Seq(ToClient)
    BY <1>2 DEF LaneShape
  <2>1. Tail(Cs(c)) \in Seq(ToClient)
    BY <1>0, <1>3
  <2> QED BY <1>0, <1>3, <2>1 DEF Others
<1> QED BY <1>1, <1>2, <1>3, <1>4

LEMMA BrokerSendFacts ==
  ASSUME Shape, NEW c \in Clients, NEW fate, BrokerSend(c, fate)
  PROVE  /\ Others(c) /\ UNCHANGED <<Cr(c), Br(c), Cs(c), known, nodeVars>>
         /\ Bs(c) # <<>> /\ Bs(c)' = Tail(Bs(c))
         /\ sock' \in [Clients -> LinkStates]
         /\ LaneShape' /\ InStep'
<1>0. \A d \in Clients : /\ Cr(d) \in Seq(FromClient) /\ Bs(d) \in Seq(ToBroker)
                         /\ Br(d) \in Seq(FromBroker) /\ Cs(d) \in Seq(ToClient)
  BY DEF Shape, LaneShape
<1>1. UNCHANGED <<known, nodeVars>>
  BY DEF BrokerSend
<1>2. /\ msgs["brokerSend"][c] # <<>>
      /\ msgs' \in [Lanes -> [Clients -> Seq(AnyMessage)]]
      /\ msgs'["brokerSend"][c] = Tail(msgs["brokerSend"][c])
      /\ \A l \in Lanes, d \in Clients : ~(l = "brokerSend" /\ d = c) => msgs'[l][d] = msgs[l][d]
      /\ InStep'
  BY TakeFacts DEF BrokerSend
<1>3. Others(c) /\ UNCHANGED <<Cr(c), Br(c), Cs(c)>> /\ Bs(c) # <<>> /\ Bs(c)' = Tail(Bs(c))
  BY <1>2 DEF Others, Cr, Bs, Br, Cs, Lanes
<1>4. LaneShape'
  <2> SUFFICES ASSUME NEW d \in Clients
               PROVE  /\ Cr(d)' \in Seq(FromClient) /\ Bs(d)' \in Seq(ToBroker)
                      /\ Br(d)' \in Seq(FromBroker) /\ Cs(d)' \in Seq(ToClient)
    BY <1>2 DEF LaneShape
  <2>1. Tail(Bs(c)) \in Seq(ToBroker)
    BY <1>0, <1>3
  <2> QED BY <1>0, <1>3, <2>1 DEF Others
<1>5. sock' \in [Clients -> LinkStates]
  <2>1. PICK out \in Outcomes(sock[c]) : sock' = [sock EXCEPT ![c] = out[2]]
    BY DEF BrokerSend
  <2>2. sock \in [Clients -> LinkStates] /\ sock[c] \in LinkStates
    BY DEF Shape, NodeShape
  <2>3. out[2] \in LinkStates
    BY <2>1, <2>2 DEF Outcomes, LinkStates
  <2> QED BY <2>1, <2>2, <2>3
<1> QED BY <1>1, <1>2, <1>3, <1>4, <1>5
------------------------------------------------------------------------------
(* The messages of the handlers, field by field.                           *)
Made(t, i, x, n, d, f) ==
  [type |-> t, msgId |-> i, id |-> x, name |-> n, data |-> d, flags |-> f]

LEMMA MadeFields ==
  ASSUME NEW t, NEW i, NEW x, NEW n, NEW d, NEW f
  PROVE  /\ Made(t, i, x, n, d, f).type = t /\ Made(t, i, x, n, d, f).msgId = i
         /\ Made(t, i, x, n, d, f).id = x /\ Made(t, i, x, n, d, f).name = n
         /\ Made(t, i, x, n, d, f).data = d /\ Made(t, i, x, n, d, f).flags = f
         /\ /\ t \in MessageTypes /\ i \in Nat /\ x \in 0 .. IdRange - 1 /\ n \in AnyName
            /\ d \in AnyName /\ f \in SUBSET FlagNames
            => Made(t, i, x, n, d, f) \in AnyMessage
BY DEF Made, AnyMessage

LEMMA MadePublish ==
  ASSUME NEW m, NEW n
  PROVE  MQTTPublish(m, n) = Made("PUBLISH", m.msgId, 0, n, m.data, {})
<1>1. ASSUME NEW r, r = MQTTPublish(m, n)
      PROVE  r = Made("PUBLISH", m.msgId, 0, n, m.data, {})
  BY <1>1 DEF MQTTPublish, Message, Made
<1> QED BY <1>1

LEMMA MadeSubscribe ==
  ASSUME NEW m
  PROVE  MQTTSubscribe(m) = Made("SUBSCRIBE", m.msgId, 0, m.name, NoName, {})
<1>1. ASSUME NEW r, r = MQTTSubscribe(m)
      PROVE  r = Made("SUBSCRIBE", m.msgId, 0, m.name, NoName, {})
  BY <1>1 DEF MQTTSubscribe, Message, Made
<1> QED BY <1>1

LEMMA MadeUnsubscribe ==
  ASSUME NEW m, NEW n
  PROVE  MQTTUnsubscribe(m, n) = Made("UNSUBSCRIBE", m.msgId, 0, n, m.data, m.flags)
<1>1. ASSUME NEW r, r = MQTTUnsubscribe(m, n)
      PROVE  r = Made("UNSUBSCRIBE", m.msgId, 0, n, m.data, m.flags)
  BY <1>1 DEF MQTTUnsubscribe, Message, Made
<1> QED BY <1>1

LEMMA MadeFlagged ==
  ASSUME NEW t, NEW f
  PROVE  [Message(t) EXCEPT !.flags = f] = Made(t, 0, 0, NoName, NoName, f)
<1>1. ASSUME NEW r, r = [Message(t) EXCEPT !.flags = f]
      PROVE  r = Made(t, 0, 0, NoName, NoName, f)
  BY <1>1 DEF Message, Made
<1> QED BY <1>1

LEMMA MadeConnect ==
  ASSUME NEW f
  PROVE  MQTTConnect(f) = Made("CONNECT", 0, 0, NoName, NoName, f)
BY MadeFlagged DEF MQTTConnect

LEMMA MadePlain ==
  ASSUME NEW t
  PROVE  Message(t) = Made(t, 0, 0, NoName, NoName, {})
BY DEF Message, Made

LEMMA MadeAck ==
  ASSUME NEW t, NEW i, NEW x, NEW f
  PROVE  Ack(t, i, x, f) = Made(t, i, x, NoName, NoName, {f})
<1>1. ASSUME NEW r, r = Ack(t, i, x, f)
      PROVE  r = Made(t, i, x, NoName, NoName, {f})
  BY <1>1 DEF Ack, Message, Made
<1> QED BY <1>1

LEMMA MadeNumbered ==
  ASSUME NEW t, NEW i
  PROVE  [Message(t) EXCEPT !.msgId = i] = Made(t, i, 0, NoName, NoName, {})
<1>1. ASSUME NEW r, r = [Message(t) EXCEPT !.msgId = i]
      PROVE  r = Made(t, i, 0, NoName, NoName, {})
  BY <1>1 DEF Message, Made
<1> QED BY <1>1

LEMMA MadeSnRegister ==
  ASSUME NEW x, NEW n
  PROVE  MQTTSnRegister(x, n) = Made("REGISTER", 0, x, n, NoName, {})
<1>1. ASSUME NEW r, r = MQTTSnRegister(x, n)
      PROVE  r = Made("REGISTER", 0, x, n, NoName, {})
  BY <1>1 DEF MQTTSnRegister, Message, Made
<1> QED BY <1>1

LEMMA MadeSnPublish ==
  ASSUME NEW x, NEW f, NEW i, NEW d
  PROVE  MQTTSnPublish(x, f, i, d) = Made("PUBLISH", i, x, NoName, d, {f})
<1>1. ASSUME NEW r, r = MQTTSnPublish(x, f, i, d)
      PROVE  r = Made("PUBLISH", i, x, NoName, d, {f})
  BY <1>1 DEF MQTTSnPublish, Message, Made
<1> QED BY <1>1

LEMMA OneMessage ==
  ASSUME NEW S, NEW x \in S
  PROVE  /\ <<x>> \in Seq(S) /\ Range(<<x>>) = {x}
         /\ x.type \notin PassTypes => Clear(<<x>>)
<1>1. <<x>> \in Seq(S)
  OBVIOUS
<1>2. Range(<<x>>) = {x}
  BY DEF Range
<1> QED BY <1>1, <1>2 DEF Clear

LEMMA TwoMessages ==
  ASSUME NEW S, NEW x \in S, NEW y \in S
  PROVE  <<x, y>> \in Seq(S) /\ Range(<<x, y>>) = {x, y}
<1>1. <<x, y>> \in Seq(S)
  OBVIOUS
<1>2. Range(<<x, y>>) = {x, y}
  BY DEF Range
<1> QED BY <1>1, <1>2

LEMMA NoMessage ==
  ASSUME NEW S
  PROVE  <<>> \in Seq(S) /\ Range(<<>>) = {} /\ Clear(<<>>)
<1>1. <<>> \in Seq(S)
  OBVIOUS
<1>2. Range(<<>>) = {}
  BY DEF Range
<1> QED BY <1>1, <1>2 DEF Clear
------------------------------------------------------------------------------
(* What any handler of a client's message does.                            *)
TurnUp(c, up, down) ==
  /\ Others(c) /\ UNCHANGED <<Br(c), known, sock>>
  /\ Cr(c)' = Tail(Cr(c)) /\ Bs(c)' = Bs(c) \o up /\ Cs(c)' = Cs(c) \o down
  /\ up \in Seq(ToBroker) /\ down \in Seq(ToClient)
  /\ LaneShape' /\ InStep'

NodeStep(c) ==
  /\ NodeShape'
  /\ \A d \in Clients \ {c} :
       UNCHANGED <<topics[d], waitedPubAck[d], waitedSubAck[d], connect[d]>>

\* It accepts no PUBLISH and no CONNECT.
AcceptsNone(down) ==
  \A x \in Range(down) : x.type \in {"PUBACK", "CONNACK"} => x.flags # {"accepted"}

\* The CONNECT object is held after a CONNECT with a will, queued after one without.
Owns(c, m) ==
  IF m.type = "CONNECT" THEN "will" \in m.flags => connect'[c].object = "held"
  ELSE connect'[c].object \in {connect[c].object, "null"}

\* What a CONNECT leads to is one message at most.
Passes(m, up, down) ==
  IF m.type \in PassTypes
  THEN \/ up = <<>> /\ down = <<>>
       \/ down = <<>> /\ \E x \in ToBroker : up = <<x>>
       \/ up = <<>> /\ \E x \in ToClient : down = <<x>>
  ELSE Clear(up) /\ Clear(down)

Answers(c, m, x) ==
  /\ m.type \in {"REGISTER", "SUBSCRIBE"} /\ x.type = AnswerOf[m.type] /\ x.msgId = m.msgId
  /\ m.name \in LongNames /\ x.id # NoTopic => HasEntry(topics'[c], m.name, x.id)

NamesUp(c, m, up, down) ==
  /\ ~Renews(m) => \A n, i : HasEntry(topics[c], n, i) => HasEntry(topics'[c], n, i)
  /\ \A x \in Range(up) : x.type = "PUBLISH" =>
       /\ m.type = "PUBLISH" /\ x.data = m.data
       /\ HasId(topics[c], m.id) /\ x.name = GetTopicName(topics[c], m.id)
  /\ \A x \in Range(down) :
       /\ x.type # "REGISTER" /\ ~(x.type = "PUBLISH" /\ x.flags = {"normal"})
       /\ x.type \in {"REGACK", "SUBACK"} => Answers(c, m, x)
  /\ waitedSubAck'[c] = waitedSubAck[c] \/ Answers(c, m, waitedSubAck'[c])

\* A long name enters the table for a request of it, and a REGISTER is told the id.
EntersUp(c, m, down) ==
  /\ \A n \in LongNames : \A i : HasEntry(topics'[c], n, i) =>
       \/ HasEntry(topics[c], n, i)
       \/ /\ Topical(m) /\ m.name = n /\ ~Placed(topics[c], n)
          /\ m.type = "REGISTER" =>
               \E x \in Range(down) : x.type = "REGACK" /\ x.msgId = m.msgId /\ x.id = i
  /\ ~Renews(m) => (IsFull(topics[c]) => topics'[c] = topics[c])
  /\ \A x \in Range(down) \cup {waitedSubAck'[c]} :
       x.type \in {"REGACK", "SUBACK"} /\ x.id = NoTopic /\ Topical(m)
       => x = waitedSubAck[c] \/ (IsFull(topics[c]) /\ ~HasName(topics[c], m.name))

\* m leads to x.
Leads(m, x) ==
  /\ x.msgId = m.msgId \/ (x.msgId = 0 /\ m.type \in PassTypes \cup {"PINGREQ"})
  /\ \/ x.type = m.type
     \/ m.type \in PassTypes /\ x.type \in PassTypes
     \/ m.type \in DOMAIN AnswerOf /\ x.type = AnswerOf[m.type]

\* A request is passed on or answered, and nothing else is. A request that is
\* passed on is waited for.
ServesUp(c, m, up, down) ==
  (m.type \in WillTypes => connect[c].object # "null") =>
    /\ Count(Asking, up) + Count(Telling, down) = IF m \in Asking THEN 1 ELSE 0
    /\ \A x \in Range(up) :
         /\ x \in Asking => Leads(m, x) /\ Awaits(c, x)'
         /\ x.type = "DISCONNECT" => m.type = "DISCONNECT"
         /\ m.type \in Begins => x \in Asking
    /\ \A x \in Range(down) :
         /\ x \in Telling => Leads(m, x)
         /\ m.type \in Begins => x.type \in WillAsked /\ (m.type = "CONNECT" => "will" \in m.flags)
         /\ x.type \in WillAsked => connect'[c].object # "null"
    /\ m \in Asking \/ UNCHANGED <<waitedPubAck[c], waitedSubAck[c], connect[c]>>

UpMoves(c, m, up, down) ==
  /\ TurnUp(c, up, down) /\ NodeStep(c) /\ AcceptsNone(down)
  /\ Owns(c, m) /\ Passes(m, up, down) /\ NamesUp(c, m, up, down) /\ EntersUp(c, m, down)
  /\ ServesUp(c, m, up, down)

UpTurn(c) == ques["gateway"] # <<>> /\ Head(ques["gateway"]) = Event("clientRecv", c)

\* A handler that leaves the topic table alone and answers no request for a topic.
LEMMA EntersNone ==
  ASSUME NEW c, NEW m, NEW down, topics'[c] = topics[c], waitedSubAck'[c] = waitedSubAck[c],
         ~Topical(m) \/ \A x \in Range(down) : x.type \notin {"REGACK", "SUBACK"}
  PROVE  EntersUp(c, m, down)
BY DEF EntersUp

LEMMA HeadUp ==
  ASSUME Shape, NEW c \in Clients, UpTurn(c)
  PROVE  /\ Cr(c) # <<>> /\ Cr(c) \in Seq(FromClient)
         /\ Head(Cr(c)) \in FromClient /\ Head(Cr(c)) \in Range(Cr(c))
<1>1. /\ Fits(ques["gateway"], Event("clientRecv", c), Len(Cr(c))) /\ Cr(c) \in Seq(FromClient)
      /\ ques["gateway"] \in Seq(Events) /\ Len(Cr(c)) \in Nat
  BY DEF Shape, InStep, LaneShape, QueueOf, Lanes, Queues, Cr
<1>2. Len(Cr(c)) >= 1
  BY <1>1, FitsTail DEF UpTurn
<1>3. Cr(c) # <<>>
  BY <1>1, <1>2
<1> QED BY <1>1, <1>3, RangeTail

LEMMA UpFacts ==
  ASSUME Shape, NEW c \in Clients, UpTurn(c),
         NEW up \in Seq(ToBroker), NEW down \in Seq(ToClient), Up(c, up, down)
  PROVE  TurnUp(c, up, down)
<1>1. /\ Others(c) /\ UNCHANGED <<Br(c), known, sock>>
      /\ Cr(c)' = Tail(Cr(c)) /\ Bs(c)' = Bs(c) \o up /\ Cs(c)' = Cs(c) \o down
      /\ LaneShape' /\ InStep'
  BY EmitFacts DEF UpTurn, Up
<1> QED BY <1>1 DEF TurnUp

LEMMA SameNode ==
  ASSUME Shape, UNCHANGED <<nodeVars, known, sock>>, NEW c
  PROVE  NodeStep(c)
BY DEF Shape, NodeShape, NodeStep, nodeVars

\* One handler at a time.
LEMMA MovePass ==
  ASSUME Shape, NEW c \in Clients, UpTurn(c), NEW m, m = Head(Cr(c)),
         \/ SnPingReq(c, m) \/ SnPubAck(c, m) \/ SnDisconnect(c, m) \/ SnIrregular(c, m)
  PROVE  \E up, down : UpMoves(c, m, up, down)
<1>1. m \in FromClient /\ m.msgId \in Nat /\ m.type \notin PassTypes /\ m.type # "PUBLISH"
      /\ m.type # "CONNECT"
  BY HeadUp DEF FromClient, AnyMessage, SnPingReq, SnPubAck, SnDisconnect, SnIrregular, PassTypes
<1>2. NodeStep(c) /\ UNCHANGED nodeVars
  <2>1. UNCHANGED <<nodeVars, known, sock>>
    BY DEF SnPingReq, SnPubAck, SnDisconnect, SnIrregular, PassUp, Up, Emit
  <2> QED BY <2>1, SameNode
<1>3. PICK up \in Seq(ToBroker) :
        /\ Up(c, up, <<>>) /\ Clear(up)
        /\ Count(Asking, up) = IF m \in Asking THEN 1 ELSE 0
        /\ \A x \in Range(up) : x.type = m.type /\ x.msgId = m.msgId
  <2>1. CASE SnIrregular(c, m)
    <3>1. Up(c, <<>>, <<>>) /\ Clear(<<>>) /\ <<>> \in Seq(ToBroker) /\ m \notin Asking
      BY <2>1, NoMessage DEF SnIrregular, Asking
    <3>2. Count(Asking, <<>>) = 0
      BY CountShort
    <3> QED BY <3>1, <3>2, NoMessage
  <2>2. CASE SnPingReq(c, m) \/ SnPubAck(c, m) \/ SnDisconnect(c, m)
    <3> DEFINE x == Made(m.type, m.msgId, 0, NoName, NoName, {})
    <3>1. Up(c, <<x>>, <<>>) /\ m.type \in {"PINGREQ", "PUBACK", "DISCONNECT"}
      BY <2>2, MadeNumbered DEF SnPingReq, SnPubAck, SnDisconnect, PassUp
    <3>2. x \in ToBroker /\ x.type = m.type /\ x.msgId = m.msgId
      BY <1>1, <3>1, MadeFields DEF ToBroker, MessageTypes, UpTypes, AnyName
    <3> HIDE DEF x
    <3>3. <<x>> \in Seq(ToBroker) /\ Clear(<<x>>) /\ Range(<<x>>) = {x}
      BY <3>1, <3>2, OneMessage DEF PassTypes
    <3>4. x \in Asking <=> m \in Asking
      BY <1>1, <3>1, <3>2 DEF Asking, FromClient, ToBroker
    <3>5. Count(Asking, <<x>>) = IF m \in Asking THEN 1 ELSE 0
      BY <3>4, CountShort
    <3> QED BY <3>1, <3>2, <3>3, <3>5
  <2> QED BY <2>1, <2>2
<1>4. TurnUp(c, up, <<>>)
  BY <1>3, NoMessage, UpFacts
<1>5. AcceptsNone(<<>>) /\ Passes(m, up, <<>>) /\ Owns(c, m)
  BY <1>1, <1>2, <1>3, NoMessage DEF AcceptsNone, Passes, Owns, nodeVars
<1>6. NamesUp(c, m, up, <<>>)
  BY <1>1, <1>2, <1>3, NoMessage DEF NamesUp, nodeVars
<1>7. EntersUp(c, m, <<>>)
  BY <1>2, NoMessage, EntersNone DEF nodeVars
<1>8. ServesUp(c, m, up, <<>>)
  <2>1. m.type \in {"PINGREQ", "PUBACK", "DISCONNECT", "REGACK"}
    BY DEF SnPingReq, SnPubAck, SnDisconnect, SnIrregular
  <2>2. Count(Telling, <<>>) = 0 /\ Range(<<>>) = {}
    BY CountShort, NoMessage
  <2>3. \A x \in Range(up) : x \in Asking => Leads(m, x) /\ Awaits(c, x)'
    BY <1>3, <2>1 DEF Leads, Awaits, Asking
  <2>4. UNCHANGED <<waitedPubAck[c], waitedSubAck[c], connect[c]>> /\ m.type \notin Begins
    BY <1>2, <2>1 DEF nodeVars, Begins
  <2>5. Count(Asking, up) + Count(Telling, <<>>) = IF m \in Asking THEN 1 ELSE 0
    BY <1>3, <2>2
  <2> QED BY <1>3, <2>2, <2>3, <2>4, <2>5 DEF ServesUp
<1> QED BY <1>2, <1>4, <1>5, <1>6, <1>7, <1>8 DEF UpMoves

LEMMA MovePublish ==
  ASSUME Shape, NEW c \in Clients, UpTurn(c), NEW m, m = Head(Cr(c)), SnPublish(c, m)
  PROVE  \E up, down : UpMoves(c, m, up, down)
<1> DEFINE found == HasId(topics[c], m.id)
           name == GetTopicName(topics[c], m.id)
           up == IF found THEN <<MQTTPublish(m, name)>> ELSE <<>>
           down == IF ~found /\ m.msgId # 0
                   THEN <<Ack("PUBACK", m.msgId, m.id, "rejected")>> ELSE <<>>
<1>1. /\ m \in FromClient /\ m.type = "PUBLISH" /\ m.msgId \in Nat /\ m.id \in 0 .. IdRange - 1
      /\ m.data \in AnyName /\ GoodTable(topics[c])
  BY HeadUp DEF FromClient, AnyMessage, SnPublish, Shape, NodeShape
<1>2. /\ up \in Seq(ToBroker) /\ Clear(up)
      /\ \A x \in Range(up) : /\ found /\ x.data = m.data /\ x.name = name
                             /\ x.type = "PUBLISH" /\ x.msgId = m.msgId
      /\ Count(Asking, up) = IF found /\ m.msgId # 0 THEN 1 ELSE 0
  <2>1. CASE found
    <3> DEFINE x == Made("PUBLISH", m.msgId, 0, name, m.data, {})
    <3>1. name \in AnyName
      BY <1>1, <2>1, FoundName DEF AnyName
    <3>2. /\ x \in ToBroker /\ x.type = "PUBLISH" /\ x.data = m.data /\ x.name = name
          /\ x.msgId = m.msgId
      BY <1>1, <3>1, MadeFields DEF ToBroker, MessageTypes, UpTypes
    <3>3. up = <<x>>
      BY <2>1, MadePublish
    <3> HIDE DEF x, up
    <3>4. Count(Asking, up) = IF m.msgId # 0 THEN 1 ELSE 0
      BY <3>2, <3>3, CountShort DEF Asking, ToBroker
    <3> QED BY <2>1, <3>2, <3>3, <3>4, OneMessage DEF PassTypes
  <2>2. CASE ~found
    BY <2>2, NoMessage, CountShort
  <2> QED BY <2>1, <2>2
<1>3. /\ down \in Seq(ToClient) /\ Clear(down)
      /\ \A x \in Range(down) : x.type = "PUBACK" /\ x.flags # {"accepted"} /\ x.msgId = m.msgId
      /\ Count(Telling, down) = IF ~found /\ m.msgId # 0 THEN 1 ELSE 0
  <2>1. CASE ~found /\ m.msgId # 0
    <3> DEFINE x == Made("PUBACK", m.msgId, m.id, NoName, NoName, {"rejected"})
    <3>1. x \in ToClient /\ x.type = "PUBACK" /\ x.flags = {"rejected"} /\ x.msgId = m.msgId
      BY <1>1, MadeFields DEF ToClient, MessageTypes, UpTypes, FlagNames, AnyName
    <3>2. down = <<x>>
      BY <2>1, MadeAck
    <3>3. {"rejected"} # {"accepted"}
      OBVIOUS
    <3> HIDE DEF x, down
    <3>4. Count(Telling, down) = 1
      BY <2>1, <3>1, <3>2, CountShort DEF Telling, ToClient
    <3> QED BY <2>1, <3>1, <3>2, <3>3, <3>4, OneMessage DEF PassTypes
  <2>2. CASE ~(~found /\ m.msgId # 0)
    BY <2>2, NoMessage, CountShort
  <2> QED BY <2>1, <2>2
<1>4. TurnUp(c, up, down)
  BY <1>2, <1>3, UpFacts DEF SnPublish
<1>5. /\ NodeStep(c) /\ UNCHANGED <<topics, waitedSubAck, connect>>
      /\ found /\ m.msgId # 0 => waitedPubAck'[c] # None /\ waitedPubAck'[c].msgId = m.msgId
      /\ m.msgId = 0 => waitedPubAck' = waitedPubAck
  <2>1. UNCHANGED <<topics, waitedSubAck, connect, known, sock>>
    BY DEF SnPublish, Up, Emit
  <2> DEFINE a == Made("PUBACK", m.msgId, m.id, NoName, NoName, {"accepted"})
  <2>2. waitedPubAck' = IF found /\ m.msgId # 0 THEN [waitedPubAck EXCEPT ![c] = a] ELSE waitedPubAck
    BY MadeAck DEF SnPublish
  <2>3. a \in ToClient /\ a.type = "PUBACK" /\ a.flags = {"accepted"} /\ a.msgId = m.msgId
    BY <1>1, MadeFields DEF ToClient, MessageTypes, UpTypes, FlagNames, AnyName
  <2> HIDE DEF a
  <2> DEFINE W == {None} \cup {x \in ToClient : x.type = "PUBACK" /\ x.flags = {"accepted"}}
  <2>4. /\ waitedPubAck' \in [Clients -> W] /\ \A d \in Clients \ {c} : waitedPubAck'[d] = waitedPubAck[d]
        /\ found /\ m.msgId # 0 => waitedPubAck'[c] = a
    <3>1. waitedPubAck \in [Clients -> W] /\ a \in W
      BY <2>3 DEF Shape, NodeShape
    <3> HIDE DEF W, found
    <3> QED BY <2>2, <3>1
  <2>5. NodeShape'
    BY <2>1, <2>4 DEF Shape, NodeShape
  <2> HIDE DEF found
  <2> QED BY <2>1, <2>2, <2>3, <2>4, <2>5, NoneFact DEF NodeStep
<1> HIDE DEF up, down
<1>6. AcceptsNone(down) /\ Passes(m, up, down) /\ Owns(c, m)
  BY <1>1, <1>2, <1>3, <1>5 DEF AcceptsNone, Passes, PassTypes, Owns
<1>7. NamesUp(c, m, up, down)
  BY <1>1, <1>2, <1>3, <1>5 DEF NamesUp
<1>8. EntersUp(c, m, down)
  BY <1>3, <1>5, EntersNone
<1>9. ServesUp(c, m, up, down)
  <2>1. m \in Asking <=> m.msgId # 0
    BY <1>1 DEF Asking, FromClient
  <2>2. Count(Asking, up) + Count(Telling, down) = IF m \in Asking THEN 1 ELSE 0
    BY <1>2, <1>3, <2>1
  <2>3. \A x \in Range(up) : x \in Asking => Leads(m, x) /\ Awaits(c, x)'
    BY <1>1, <1>2, <1>5 DEF Leads, Awaits, Asking
  <2>4. \A x \in Range(down) : x \in Telling => Leads(m, x)
    BY <1>1, <1>3 DEF Leads, AnswerOf
  <2>5. m \in Asking \/ UNCHANGED <<waitedPubAck[c], waitedSubAck[c], connect[c]>>
    BY <1>5, <2>1
  <2>6. m.type \notin Begins /\ m.type # "DISCONNECT"
    BY <1>1 DEF Begins
  <2> QED BY <1>2, <1>3, <2>2, <2>3, <2>4, <2>5, <2>6 DEF ServesUp, WillAsked
<1> QED BY <1>4, <1>5, <1>6, <1>7, <1>8, <1>9 DEF UpMoves

\* The types of the variables of a ClientNode.
Tables == {t \in [entries : Seq(Entry), next : Nat] : GoodTable(t)}
PubAcks == {None} \cup {x \in ToClient : x.type = "PUBACK" /\ x.flags = {"accepted"}}
SubAcks == {None} \cup {x \in ToClient : x.type = "SUBACK"}
Objects == [object : {"null", "held", "queued"}, flags : SUBSET {"clean", "will"}]

LEMMA NodeTypes ==
  ASSUME Shape
  PROVE  /\ topics \in [Clients -> Tables] /\ waitedPubAck \in [Clients -> PubAcks]
         /\ waitedSubAck \in [Clients -> SubAcks] /\ connect \in [Clients -> Objects]
BY DEF Shape, NodeShape, Tables, PubAcks, SubAcks, Objects

\* A node's variable is left alone or changes for c.
LEMMA OneChange ==
  ASSUME NEW D, NEW c \in Clients, NEW f \in [Clients -> D], NEW g,
         g = f \/ \E v \in D : g = [f EXCEPT ![c] = v]
  PROVE  g \in [Clients -> D] /\ \A d \in Clients \ {c} : g[d] = f[d]
OBVIOUS

LEMMA NodeMoves ==
  ASSUME Shape, NEW c \in Clients, UNCHANGED <<known, sock>>,
         topics' = topics \/ \E t \in Tables : topics' = [topics EXCEPT ![c] = t],
         waitedPubAck' = waitedPubAck \/ \E w \in PubAcks : waitedPubAck' = [waitedPubAck EXCEPT ![c] = w],
         waitedSubAck' = waitedSubAck \/ \E w \in SubAcks : waitedSubAck' = [waitedSubAck EXCEPT ![c] = w],
         connect' = connect \/ \E o \in Objects : connect' = [connect EXCEPT ![c] = o]
  PROVE  NodeStep(c)
<1>1. /\ topics' \in [Clients -> Tables] /\ \A d \in Clients \ {c} : topics'[d] = topics[d]
  BY NodeTypes, OneChange
<1>2. /\ waitedPubAck' \in [Clients -> PubAcks]
      /\ \A d \in Clients \ {c} : waitedPubAck'[d] = waitedPubAck[d]
  BY NodeTypes, OneChange
<1>3. /\ waitedSubAck' \in [Clients -> SubAcks]
      /\ \A d \in Clients \ {c} : waitedSubAck'[d] = waitedSubAck[d]
  BY NodeTypes, OneChange
<1>4. /\ connect' \in [Clients -> Objects] /\ \A d \in Clients \ {c} : connect'[d] = connect[d]
  BY NodeTypes, OneChange
<1>5. NodeShape'
  BY <1>1, <1>2, <1>3, <1>4 DEF Shape, NodeShape, Tables, PubAcks, SubAcks, Objects
<1> QED BY <1>1, <1>2, <1>3, <1>4, <1>5 DEF NodeStep

LEMMA MoveUnsubscribe ==
  ASSUME Shape, NEW c \in Clients, UpTurn(c), NEW m, m = Head(Cr(c)), SnUnsubscribe(c, m)
  PROVE  \E up, down : UpMoves(c, m, up, down)
<1>1. /\ m \in FromClient /\ m.type = "UNSUBSCRIBE" /\ m.msgId \in Nat /\ m.data \in AnyName
      /\ m.flags \in SUBSET FlagNames /\ m.name \in AnyName /\ m.name # PredefinedName
  BY HeadUp DEF FromClient, AnyMessage, SnUnsubscribe
<1>2. NodeStep(c) /\ UNCHANGED nodeVars
  <2>1. UNCHANGED <<nodeVars, known, sock>>
    BY DEF SnUnsubscribe, Up, Emit
  <2> QED BY <2>1, SameNode
<1>3. PICK up \in Seq(ToBroker), down \in Seq(ToClient) :
        /\ Up(c, up, down) /\ Clear(up) /\ Clear(down)
        /\ \A x \in Range(up) : x.type = "UNSUBSCRIBE" /\ x.msgId = m.msgId
        /\ \A x \in Range(down) : x.type = "UNSUBACK" /\ x.msgId = m.msgId
        /\ Count(Asking, up) + Count(Telling, down) = IF m \in Asking THEN 1 ELSE 0
  <2> DEFINE a == Made("UNSUBACK", m.msgId, 0, NoName, NoName, {"accepted"})
             b(n) == Made("UNSUBSCRIBE", m.msgId, 0, n, m.data, m.flags)
  <2>1. PICK here \in BOOLEAN, n \in {m.name, NoName} :
          Up(c, IF here THEN <<>> ELSE <<b(n)>>,
                IF here THEN IF m.msgId # 0 THEN <<a>> ELSE <<>> ELSE <<>>)
    <3>1. PICK id \in UnsubscribedIds(m) :
           LET found == HasId(topics[c], id)
               named == m.flags = {"short"} \/ (m.flags = {"normal"} /\ found)
               here == m.flags = {"reserved"} \/ (m.flags = {"predefined"} /\ found)
               unsubscribe == MQTTUnsubscribe(m, IF named THEN m.name ELSE NoName)
               unsuback == IF m.msgId # 0 THEN <<Ack("UNSUBACK", m.msgId, 0, "accepted")>> ELSE <<>>
           IN Up(c, IF here THEN <<>> ELSE <<unsubscribe>>, IF here THEN unsuback ELSE <<>>)
      BY DEF SnUnsubscribe
    <3> DEFINE here == m.flags = {"reserved"} \/ (m.flags = {"predefined"} /\ HasId(topics[c], id))
               named == m.flags = {"short"} \/ (m.flags = {"normal"} /\ HasId(topics[c], id))
               n == IF named THEN m.name ELSE NoName
    <3>2. Ack("UNSUBACK", m.msgId, 0, "accepted") = a /\ MQTTUnsubscribe(m, n) = b(n)
      BY MadeAck, MadeUnsubscribe
    <3>3. Up(c, IF here THEN <<>> ELSE <<b(n)>>,
                IF here THEN IF m.msgId # 0 THEN <<a>> ELSE <<>> ELSE <<>>)
      <4> HIDE DEF a, b
      <4> QED BY <3>1, <3>2
    <3>4. here \in BOOLEAN /\ n \in {m.name, NoName}
      OBVIOUS
    <3> HIDE DEF here, n, a, b
    <3> QED BY <3>3, <3>4
  <2>2. a \in ToClient /\ a.type = "UNSUBACK" /\ a.msgId = m.msgId
    BY <1>1, MadeFields, NoNameAssumption DEF ToClient, MessageTypes, UpTypes, FlagNames, AnyName
  <2>3. b(n) \in ToBroker /\ b(n).type = "UNSUBSCRIBE" /\ b(n).msgId = m.msgId
    BY <1>1, MadeFields, NoNameAssumption DEF ToBroker, MessageTypes, UpTypes, AnyName
  <2> DEFINE x == b(n)
  <2>4. /\ <<x>> \in Seq(ToBroker) /\ Range(<<x>>) = {x} /\ Clear(<<x>>) /\ x.type = "UNSUBSCRIBE"
        /\ x.msgId = m.msgId
        /\ <<a>> \in Seq(ToClient) /\ Range(<<a>>) = {a} /\ Clear(<<a>>)
    <3> HIDE DEF a, b
    <3> QED BY <2>2, <2>3, OneMessage DEF PassTypes
  <2>5. /\ <<>> \in Seq(ToBroker) /\ <<>> \in Seq(ToClient) /\ Clear(<<>>) /\ Range(<<>>) = {}
    BY NoMessage
  <2>10. /\ Count(Asking, <<>>) = 0 /\ Count(Telling, <<>>) = 0
         /\ Count(Asking, <<x>>) = IF m.msgId # 0 THEN 1 ELSE 0
         /\ Count(Telling, <<a>>) = IF m.msgId # 0 THEN 1 ELSE 0
         /\ m \in Asking <=> m.msgId # 0
    <3>1. /\ x \in Asking <=> m.msgId # 0
          /\ a \in Telling <=> m.msgId # 0
          /\ m \in Asking <=> m.msgId # 0
      <4> HIDE DEF a, b
      <4> QED BY <1>1, <2>2, <2>3 DEF Asking, Telling, FromClient, ToBroker, ToClient
    <3> HIDE DEF a, x
    <3> QED BY <3>1, CountShort
  <2>6. Up(c, IF here THEN <<>> ELSE <<x>>,
              IF here THEN IF m.msgId # 0 THEN <<a>> ELSE <<>> ELSE <<>>)
    BY <2>1
  <2> HIDE DEF a, x
  <2>7. CASE ~here
    <3>1. Up(c, <<x>>, <<>>)
      BY <2>6, <2>7
    <3>2. Count(Asking, <<x>>) + Count(Telling, <<>>) = IF m \in Asking THEN 1 ELSE 0
      BY <2>10
    <3> QED BY <2>4, <2>5, <3>1, <3>2
  <2>8. CASE here /\ m.msgId # 0
    <3>1. Up(c, <<>>, <<a>>)
      BY <2>6, <2>8
    <3>2. Count(Asking, <<>>) + Count(Telling, <<a>>) = IF m \in Asking THEN 1 ELSE 0
      BY <2>10, <2>8
    <3> QED BY <2>2, <2>4, <2>5, <3>1, <3>2
  <2>9. CASE here /\ m.msgId = 0
    <3>1. Up(c, <<>>, <<>>)
      BY <2>6, <2>9
    <3>2. Count(Asking, <<>>) + Count(Telling, <<>>) = IF m \in Asking THEN 1 ELSE 0
      BY <2>10, <2>9
    <3> QED BY <2>5, <3>1, <3>2
  <2> QED BY <2>7, <2>8, <2>9
<1>4. TurnUp(c, up, down)
  BY <1>3, UpFacts
<1>5. AcceptsNone(down) /\ Passes(m, up, down) /\ Owns(c, m)
  BY <1>1, <1>2, <1>3 DEF AcceptsNone, Passes, PassTypes, Owns, nodeVars
<1>6. NamesUp(c, m, up, down)
  BY <1>1, <1>2, <1>3 DEF NamesUp, nodeVars
<1>7. EntersUp(c, m, down)
  BY <1>2, <1>3, EntersNone DEF nodeVars
<1>8. ServesUp(c, m, up, down)
  <2>1. m.type \notin Begins /\ m.type # "DISCONNECT"
    BY <1>1 DEF Begins
  <2>2. \A x \in Range(up) : x \in Asking => Leads(m, x) /\ Awaits(c, x)'
    BY <1>1, <1>3 DEF Leads, Awaits
  <2>3. \A x \in Range(down) : x \in Telling => Leads(m, x)
    BY <1>1, <1>3 DEF Leads, AnswerOf
  <2> QED BY <1>2, <1>3, <2>1, <2>2, <2>3 DEF ServesUp, WillAsked, nodeVars
<1> QED BY <1>2, <1>4, <1>5, <1>6, <1>7, <1>8 DEF UpMoves

\* What createTopic(), which returns id, adds to the table.
Enters(c, name, id) ==
  /\ \A n \in LongNames : \A i : HasEntry(topics'[c], n, i) =>
       \/ HasEntry(topics[c], n, i)
       \/ n = name /\ ~HasName(topics[c], n) /\ ~IsFull(topics[c]) /\ i = id
  /\ IsFull(topics[c]) => topics'[c] = topics[c]
  /\ name \in LongNames /\ id = NoTopic => IsFull(topics[c]) /\ ~HasName(topics[c], name)

\* createTopic() for a client's or a broker's message.
LEMMA TableMoves ==
  ASSUME Shape, NEW c \in Clients, NEW name \in Names, NEW a \in AddressIds
  PROVE  /\ CreateTopic(topics[c], name, a) \in Tables
         /\ CreatedId(topics[c], name) \in 0 .. IdRange - 1
         /\ topics' = [topics EXCEPT ![c] = CreateTopic(@, name, a)] =>
              /\ \A n, i : HasEntry(topics[c], n, i) => HasEntry(topics'[c], n, i)
              /\ name \in LongNames /\ CreatedId(topics[c], name) # NoTopic
                 => HasEntry(topics'[c], name, CreatedId(topics[c], name))
              /\ GoodTable(topics'[c]) /\ Enters(c, name, CreatedId(topics[c], name))
<1> DEFINE t == CreateTopic(topics[c], name, a)
<1>1. GoodTable(topics[c]) /\ c \in DOMAIN topics
  BY DEF Shape, NodeShape
<1>2. /\ GoodTable(t) /\ \A n, i : HasEntry(topics[c], n, i) => HasEntry(t, n, i)
      /\ CreatedId(topics[c], name) \in 0 .. IdRange - 1
      /\ name \in LongNames /\ CreatedId(topics[c], name) # NoTopic
         => HasEntry(t, name, CreatedId(topics[c], name))
      /\ \A n \in LongNames : \A i : HasEntry(t, n, i) =>
           \/ HasEntry(topics[c], n, i)
           \/ /\ n = name /\ ~HasName(topics[c], n) /\ ~IsFull(topics[c])
              /\ i = CreatedId(topics[c], name)
      /\ IsFull(topics[c]) => t = topics[c]
      /\ name \in LongNames /\ CreatedId(topics[c], name) = NoTopic
         => IsFull(topics[c]) /\ ~HasName(topics[c], name)
  <2>1. ASSUME NEW u, u = t
        PROVE  /\ GoodTable(u) /\ \A n, i : HasEntry(topics[c], n, i) => HasEntry(u, n, i)
               /\ CreatedId(topics[c], name) \in 0 .. IdRange - 1
               /\ name \in LongNames /\ CreatedId(topics[c], name) # NoTopic
                  => HasEntry(u, name, CreatedId(topics[c], name))
    BY <1>1, <2>1, CreateFacts
  <2>2. ASSUME NEW u, u = t
        PROVE  /\ \A n \in LongNames : \A i : HasEntry(u, n, i) =>
                    \/ HasEntry(topics[c], n, i)
                    \/ /\ n = name /\ ~HasName(topics[c], n) /\ ~IsFull(topics[c])
                       /\ i = CreatedId(topics[c], name)
               /\ IsFull(topics[c]) => u = topics[c]
               /\ name \in LongNames /\ CreatedId(topics[c], name) = NoTopic
                  => IsFull(topics[c]) /\ ~HasName(topics[c], name)
    BY <1>1, <2>2, CreateNew
  <2> QED BY <2>1, <2>2
<1>3. t \in Tables
  BY <1>2 DEF Tables, GoodTable
<1>4. topics' = [topics EXCEPT ![c] = t] => topics'[c] = t
  BY <1>1
<1> HIDE DEF t
<1>5. topics'[c] = t => Enters(c, name, CreatedId(topics[c], name))
  BY <1>2 DEF Enters
<1> QED BY <1>2, <1>3, <1>4, <1>5 DEF t

LEMMA MoveSubscribe ==
  ASSUME Shape, NEW c \in Clients, UpTurn(c), NEW m, m = Head(Cr(c)),
         NEW a \in AddressIds, SnSubscribe(c, m, a)
  PROVE  \E up, down : UpMoves(c, m, up, down)
<1>1. /\ m \in FromClient /\ m.type = "SUBSCRIBE" /\ m.msgId \in Nat /\ m.id \in 0 .. IdRange - 1
      /\ m.name \in AnyName /\ m.type \notin PassTypes
      /\ IF m.flags \cap {"predefined", "reserved"} = {} THEN m.name \in Names ELSE m.name = NoName
  BY HeadUp DEF FromClient, AnyMessage, SnSubscribe, PassTypes
<1>2. CASE m.flags \cap {"predefined", "reserved"} # {}
  <2> DEFINE code == IF m.flags = {"predefined"} /\ m.id = PredefinedId
                     THEN "accepted" ELSE "rejected"
             ack == Made("SUBACK", m.msgId, m.id, NoName, NoName, {code})
             suback == IF m.msgId # 0 THEN <<ack>> ELSE <<>>
             time == Made("PUBLISH", 0, PredefinedId, NoName, PredefinedName, {"predefined"})
             rest == IF code = "accepted" THEN <<time>> ELSE <<>>
             down == suback \o rest
  <2>1. /\ Up(c, <<>>, down) /\ UNCHANGED <<topics, waitedSubAck, waitedPubAck, connect>>
    <3>1. /\ Ack("SUBACK", m.msgId, m.id, code) = ack
          /\ MQTTSnPublish(PredefinedId, "predefined", 0, PredefinedName) = time
      BY MadeAck, MadeSnPublish
    <3> HIDE DEF ack, time
    <3> QED BY <1>2, <3>1 DEF SnSubscribe
  <2>2. /\ ack \in ToClient /\ ack.type = "SUBACK" /\ ack.msgId = m.msgId
        /\ time \in ToClient /\ time.type = "PUBLISH" /\ time.flags # {"normal"}
    <3>1. {"predefined"} # {"normal"}
      OBVIOUS
    <3>2. ack \in ToClient /\ ack.type = "SUBACK" /\ ack.msgId = m.msgId
      BY <1>1, MadeFields, NoNameAssumption DEF ToClient, MessageTypes, UpTypes, FlagNames, AnyName
    <3>3. PredefinedId \in 0 .. IdRange - 1
      OBVIOUS
    <3>4. /\ time \in ToClient /\ time.type = "PUBLISH" /\ time.flags = {"predefined"}
          /\ time.msgId = 0
      BY <3>1, <3>3, MadeFields, NoNameAssumption DEF ToClient, MessageTypes, UpTypes, FlagNames, AnyName
    <3> QED BY <3>1, <3>2, <3>4
  <2> HIDE DEF ack, time
  <2>3. /\ suback \in Seq(ToClient)
        /\ \A x \in Range(suback) : x.type = "SUBACK" /\ x.msgId = m.msgId
        /\ Count(Telling, suback) = IF m \in Asking THEN 1 ELSE 0
    <3>1. (m \in Asking <=> m.msgId # 0) /\ (ack \in Telling <=> m.msgId # 0)
      BY <1>1, <2>2 DEF Asking, Telling, FromClient, ToClient
    <3>2. Count(Telling, suback) = IF m.msgId # 0 THEN 1 ELSE 0
      BY <3>1, CountShort
    <3> QED BY <2>2, <3>1, <3>2, OneMessage, NoMessage
  <2>4. /\ rest \in Seq(ToClient)
        /\ \A x \in Range(rest) : x.type = "PUBLISH" /\ x.flags # {"normal"}
        /\ Count(Telling, rest) = 0
    <3>1. time \notin Telling
      BY <2>2 DEF Telling
    <3> QED BY <2>2, <3>1, CountShort, OneMessage, NoMessage
  <2> HIDE DEF suback, rest
  <2>5. /\ down \in Seq(ToClient)
        /\ \A x \in Range(down) : /\ x.type = "SUBACK" \/ (x.type = "PUBLISH" /\ x.flags # {"normal"})
                                  /\ x \in Telling => x.type = "SUBACK" /\ x.msgId = m.msgId
        /\ Count(Telling, down) = IF m \in Asking THEN 1 ELSE 0
    <3>1. Count(Telling, down) = Count(Telling, suback) + Count(Telling, rest)
      <4>1. suback \in Seq(ToClient) /\ rest \in Seq(ToClient)
        BY <2>3, <2>4
      <4> QED BY <4>1, CountConcat
    <3>2. Count(Telling, down) = IF m \in Asking THEN 1 ELSE 0
      BY <2>3, <2>4, <3>1
    <3>3. Range(down) = Range(suback) \cup Range(rest) /\ down \in Seq(ToClient)
      BY <2>3, <2>4, RangeConcat
    <3>4. \A x \in Range(rest) : x \notin Telling
      BY <2>4 DEF Telling
    <3> QED BY <2>3, <2>4, <3>2, <3>3, <3>4
  <2>6. Clear(down) /\ Clear(<<>>) /\ <<>> \in Seq(ToBroker) /\ Range(<<>>) = {}
    BY <2>5, NoMessage DEF Clear, PassTypes
  <2> HIDE DEF down
  <2>7. NodeStep(c) /\ TurnUp(c, <<>>, down)
    <3>1. UNCHANGED <<nodeVars, known, sock>>
      BY <2>1 DEF Up, Emit, nodeVars
    <3> QED BY <2>1, <2>5, <2>6, <3>1, SameNode, UpFacts
  <2>8. AcceptsNone(down) /\ Passes(m, <<>>, down) /\ Owns(c, m)
    BY <1>1, <2>1, <2>5, <2>6 DEF AcceptsNone, Passes, Owns, PassTypes
  <2>9. NamesUp(c, m, <<>>, down)
    <3>1. m.name \notin LongNames /\ AnswerOf["SUBSCRIBE"] = "SUBACK"
      BY <1>1, <1>2, NoNameAssumption DEF AnswerOf, Names
    <3>2. \A x \in Range(down) : x.type \in {"REGACK", "SUBACK"} => x.msgId = m.msgId
      BY <2>3, <2>4, RangeConcat DEF down
    <3> QED BY <1>1, <2>1, <2>5, <2>6, <3>1, <3>2 DEF NamesUp, Answers
  <2>10. EntersUp(c, m, down)
    <3>1. ~Topical(m)
      BY <1>1, <1>2, NoNameAssumption DEF Topical, Names
    <3> QED BY <2>1, <3>1, EntersNone
  <2>11. ServesUp(c, m, <<>>, down)
    <3>1. m.type \notin Begins /\ Count(Asking, <<>>) = 0
      BY <1>1, CountShort DEF Begins
    <3>2. \A x \in Range(down) : x \in Telling => Leads(m, x)
      BY <1>1, <2>5 DEF Leads, AnswerOf
    <3>3. \A x \in Range(down) : x.type \notin WillAsked
      BY <2>5 DEF WillAsked
    <3> QED BY <2>1, <2>5, <2>6, <3>1, <3>2, <3>3 DEF ServesUp
  <2> QED BY <2>7, <2>8, <2>9, <2>10, <2>11 DEF UpMoves
<1>3. CASE m.flags \cap {"predefined", "reserved"} = {}
  <2> DEFINE id == CreatedId(topics[c], m.name)
             w == Made("SUBACK", m.msgId, id, NoName, NoName, {"waiting"})
             x == Made("SUBSCRIBE", m.msgId, 0, m.name, NoName, {})
  <2>1. m.name \in Names
    BY <1>1, <1>3
  <2>2. /\ CreateTopic(topics[c], m.name, a) \in Tables /\ id \in 0 .. IdRange - 1
        /\ topics' = [topics EXCEPT ![c] = CreateTopic(@, m.name, a)]
        /\ \A n, i : HasEntry(topics[c], n, i) => HasEntry(topics'[c], n, i)
        /\ m.name \in LongNames /\ id # NoTopic => HasEntry(topics'[c], m.name, id)
        /\ Enters(c, m.name, id)
    <3>1. topics' = [topics EXCEPT ![c] = CreateTopic(@, m.name, a)]
      BY <1>3 DEF SnSubscribe
    <3> QED BY <2>1, <3>1, TableMoves
  <2> HIDE DEF id
  <2>3. /\ waitedSubAck' = IF m.msgId # 0 THEN [waitedSubAck EXCEPT ![c] = w] ELSE waitedSubAck
        /\ Up(c, <<x>>, <<>>) /\ UNCHANGED <<waitedPubAck, connect>>
    BY <1>3, MadeAck, MadeSubscribe DEF SnSubscribe, id
  <2>4. /\ w \in ToClient /\ w.type = "SUBACK" /\ w.msgId = m.msgId /\ w.id = id
        /\ x \in ToBroker /\ x.type = "SUBSCRIBE" /\ x.msgId = m.msgId
    <3>1. w \in ToClient /\ w.type = "SUBACK" /\ w.msgId = m.msgId /\ w.id = id
      BY <1>1, <2>2, MadeFields, NoNameAssumption DEF ToClient, MessageTypes, UpTypes, FlagNames, AnyName
    <3>2. x \in ToBroker /\ x.type = "SUBSCRIBE" /\ x.msgId = m.msgId
      BY <1>1, <2>1, MadeFields, NamesAssumption DEF ToBroker, MessageTypes, UpTypes, AnyName
    <3> QED BY <3>1, <3>2
  <2> HIDE DEF w, x
  <2>5. /\ <<x>> \in Seq(ToBroker) /\ Range(<<x>>) = {x} /\ Clear(<<x>>)
        /\ Clear(<<>>) /\ <<>> \in Seq(ToClient) /\ Range(<<>>) = {}
    BY <2>4, OneMessage, NoMessage DEF PassTypes
  <2>6. TurnUp(c, <<x>>, <<>>)
    BY <2>3, <2>5, UpFacts
  <2>7. /\ NodeStep(c) /\ waitedSubAck'[c] = IF m.msgId # 0 THEN w ELSE waitedSubAck[c]
        /\ UNCHANGED <<waitedPubAck[c], connect[c]>>
    <3>1. UNCHANGED <<known, sock>> /\ w \in SubAcks
      BY <2>3, <2>4 DEF Up, Emit, SubAcks
    <3>2. NodeStep(c)
      BY <2>2, <2>3, <3>1, NodeMoves
    <3> QED BY <2>3, <3>2, NodeTypes
  <2>8. AcceptsNone(<<>>) /\ Passes(m, <<x>>, <<>>) /\ Owns(c, m)
    BY <1>1, <2>3, <2>5 DEF AcceptsNone, Passes, Owns, PassTypes
  <2>9. NamesUp(c, m, <<x>>, <<>>)
    BY <1>1, <2>2, <2>4, <2>5, <2>7 DEF NamesUp, Answers, AnswerOf
  <2>10. EntersUp(c, m, <<>>)
    <3>1. m.type # "REGISTER" /\ (m.name \in LongNames => Topical(m))
      BY <1>1 DEF Topical
    <3>2. \A z \in Range(<<>>) \cup {waitedSubAck'[c]} : z = waitedSubAck[c] \/ z.id = id
      BY <2>4, <2>5, <2>7
    <3> QED BY <2>2, <3>1, <3>2 DEF EntersUp, Enters, Placed, Topical
  <2>11. ServesUp(c, m, <<x>>, <<>>)
    <3>1. m.type \notin Begins /\ (m \in Asking <=> m.msgId # 0)
      BY <1>1 DEF Begins, Asking, FromClient
    <3>2. x \in Asking <=> m.msgId # 0
      BY <2>4 DEF Asking, ToBroker
    <3>3. Count(Asking, <<x>>) = (IF m.msgId # 0 THEN 1 ELSE 0) /\ Count(Telling, <<>>) = 0
      BY <3>2, CountShort
    <3>4. m.msgId # 0 => waitedSubAck'[c] # None /\ waitedSubAck'[c].msgId = x.msgId
      BY <2>4, <2>7, NoneFact
    <3>5. x \in Asking => Leads(m, x) /\ Awaits(c, x)'
      BY <1>1, <2>4, <3>2, <3>4 DEF Leads, Awaits
    <3> QED BY <2>4, <2>5, <2>7, <3>1, <3>3, <3>5 DEF ServesUp
  <2> QED BY <2>6, <2>7, <2>8, <2>9, <2>10, <2>11 DEF UpMoves
<1> QED BY <1>2, <1>3

LEMMA MoveRegister ==
  ASSUME Shape, NEW c \in Clients, UpTurn(c), NEW m, m = Head(Cr(c)),
         NEW a \in AddressIds, SnRegister(c, m, a)
  PROVE  \E up, down : UpMoves(c, m, up, down)
<1> DEFINE id == CreatedId(topics[c], m.name)
           x == Made("REGACK", m.msgId, id, NoName, NoName, {"accepted"})
<1>1. /\ m \in FromClient /\ m.type = "REGISTER" /\ m.msgId \in Nat /\ m.name \in LongNames
      /\ m.name \in Names
  BY HeadUp DEF FromClient, AnyMessage, SnRegister, Names
<1>2. /\ CreateTopic(topics[c], m.name, a) \in Tables /\ id \in 0 .. IdRange - 1
      /\ topics' = [topics EXCEPT ![c] = CreateTopic(@, m.name, a)]
      /\ \A n, i : HasEntry(topics[c], n, i) => HasEntry(topics'[c], n, i)
      /\ id # NoTopic => HasEntry(topics'[c], m.name, id)
      /\ GoodTable(topics'[c]) /\ Enters(c, m.name, id)
  <2>1. topics' = [topics EXCEPT ![c] = CreateTopic(@, m.name, a)]
    BY DEF SnRegister
  <2> QED BY <1>1, <2>1, TableMoves
<1> HIDE DEF id
<1>3. Up(c, <<>>, <<x>>) /\ UNCHANGED <<waitedPubAck, waitedSubAck, connect>>
  BY MadeAck DEF SnRegister, id
<1>4. x \in ToClient /\ x.type = "REGACK" /\ x.msgId = m.msgId /\ x.id = id
  <2>1. id = NoTopic \/ id > BaseId
    BY <1>1, <1>2, LongIds
  <2> QED BY <1>1, <1>2, <2>1, MadeFields, NoNameAssumption
          DEF ToClient, MessageTypes, UpTypes, FlagNames, AnyName
<1> HIDE DEF x
<1>5. /\ <<x>> \in Seq(ToClient) /\ Range(<<x>>) = {x} /\ Clear(<<x>>)
      /\ Clear(<<>>) /\ <<>> \in Seq(ToBroker) /\ Range(<<>>) = {}
  BY <1>4, OneMessage, NoMessage DEF PassTypes
<1>6. TurnUp(c, <<>>, <<x>>)
  BY <1>3, <1>5, UpFacts
<1>7. NodeStep(c)
  <2>1. UNCHANGED <<known, sock>>
    BY <1>3 DEF Up, Emit
  <2> QED BY <1>2, <1>3, <2>1, NodeMoves
<1>8. AcceptsNone(<<x>>) /\ Passes(m, <<>>, <<x>>) /\ Owns(c, m)
  BY <1>1, <1>3, <1>4, <1>5 DEF AcceptsNone, Passes, Owns, PassTypes
<1>9. NamesUp(c, m, <<>>, <<x>>)
  BY <1>1, <1>2, <1>3, <1>4, <1>5 DEF NamesUp, Answers, AnswerOf
<1>10. EntersUp(c, m, <<x>>)
  <2>1. Topical(m) /\ x \in Range(<<x>>) /\ waitedSubAck'[c] = waitedSubAck[c]
    BY <1>1, <1>3, <1>5 DEF Topical
  <2>2. \A y \in Range(<<x>>) \cup {waitedSubAck'[c]} : y = waitedSubAck[c] \/ y.id = id
    BY <1>4, <1>5, <2>1
  <2> QED BY <1>1, <1>2, <1>4, <2>1, <2>2 DEF EntersUp, Enters, Placed
<1>11. ServesUp(c, m, <<>>, <<x>>)
  <2>1. m.type \notin Begins /\ m.type # "DISCONNECT" /\ (m \in Asking <=> m.msgId # 0)
    BY <1>1 DEF Begins, Asking, FromClient
  <2>2. x \in Telling <=> m.msgId # 0
    BY <1>4 DEF Telling, ToClient
  <2>3. Count(Asking, <<>>) = 0 /\ Count(Telling, <<x>>) = IF m.msgId # 0 THEN 1 ELSE 0
    BY <2>2, CountShort
  <2>4. Leads(m, x)
    BY <1>1, <1>4 DEF Leads, AnswerOf
  <2> QED BY <1>3, <1>4, <1>5, <2>1, <2>3, <2>4 DEF ServesUp, WillAsked
<1> QED BY <1>6, <1>7, <1>8, <1>9, <1>10, <1>11 DEF UpMoves

LEMMA MoveConnect ==
  ASSUME Shape, NEW c \in Clients, UpTurn(c), NEW m, m = Head(Cr(c)), SnConnect(c, m)
  PROVE  /\ \E up, down : UpMoves(c, m, up, down)
         /\ topics'[c] = IF "clean" \in m.flags THEN NewTopics ELSE topics[c]
<1> DEFINE new == [object |-> IF "will" \in m.flags THEN "held" ELSE "queued",
                   flags |-> m.flags \cap {"clean"}]
           x == Made("CONNECT", 0, 0, NoName, NoName, m.flags \cap {"clean"})
           y == Made("WILLTOPICREQ", 0, 0, NoName, NoName, {})
           up == IF "will" \in m.flags THEN <<>> ELSE <<x>>
           down == IF "will" \in m.flags THEN <<y>> ELSE <<>>
<1>1. m \in FromClient /\ m.type = "CONNECT" /\ m.flags \in SUBSET FlagNames
  BY HeadUp DEF FromClient, AnyMessage, SnConnect
<1>2. /\ connect' = [connect EXCEPT ![c] = new]
      /\ topics' = IF "clean" \in m.flags THEN [topics EXCEPT ![c] = NewTopics] ELSE topics
      /\ Up(c, up, down) /\ UNCHANGED <<waitedPubAck, waitedSubAck>>
  <2>1. MQTTConnect(new.flags) = x /\ Message("WILLTOPICREQ") = y
    BY MadeConnect, MadePlain
  <2> QED BY <2>1 DEF SnConnect
<1>3. /\ new \in Objects /\ new.object \in {"held", "queued"}
      /\ "will" \in m.flags => new.object = "held"
  BY DEF Objects
<1>4. x \in ToBroker /\ x.type = "CONNECT" /\ x.msgId = 0
  BY <1>1, MadeFields, NoNameAssumption DEF ToBroker, MessageTypes, UpTypes, AnyName
<1>5. y \in ToClient /\ y.type = "WILLTOPICREQ" /\ y.msgId = 0
  BY MadeFields, NoNameAssumption DEF ToClient, MessageTypes, UpTypes, AnyName
<1>6. NewTopics \in Tables
  BY NewTopicsGood DEF Tables, GoodTable
<1> HIDE DEF x, y, new
<1>7. /\ up \in Seq(ToBroker) /\ down \in Seq(ToClient)
      /\ \A z \in Range(up) : z.type = "CONNECT" /\ z.msgId = 0 /\ z \in Asking
      /\ \A z \in Range(down) : z.type = "WILLTOPICREQ" /\ z.msgId = 0 /\ "will" \in m.flags
      /\ Count(Asking, up) + Count(Telling, down) = 1
      /\ \/ down = <<>> /\ \E z \in ToBroker : up = <<z>>
         \/ up = <<>> /\ \E z \in ToClient : down = <<z>>
  <2>4. x \in Asking /\ y \in Telling
    BY <1>4, <1>5 DEF Asking, Telling, ToBroker, ToClient
  <2>1. CASE "will" \in m.flags
    <3>1. up = <<>> /\ down = <<y>>
      BY <2>1
    <3> HIDE DEF up, down
    <3>2. Count(Asking, up) + Count(Telling, down) = 1
      BY <2>4, <3>1, CountShort
    <3> QED BY <1>5, <2>1, <3>1, <3>2, OneMessage, NoMessage
  <2>2. CASE "will" \notin m.flags
    <3>1. up = <<x>> /\ down = <<>>
      BY <2>2
    <3> HIDE DEF up, down
    <3>2. Count(Asking, up) + Count(Telling, down) = 1
      BY <2>4, <3>1, CountShort
    <3> QED BY <1>4, <2>4, <3>1, <3>2, OneMessage, NoMessage
  <2> QED BY <2>1, <2>2
<1> HIDE DEF up, down
<1>8. TurnUp(c, up, down)
  BY <1>2, <1>7, UpFacts
<1>9. NodeStep(c)
  <2>1. UNCHANGED <<known, sock>>
    BY <1>2 DEF Up, Emit
  <2>2. topics' = topics \/ \E t \in Tables : topics' = [topics EXCEPT ![c] = t]
    BY <1>2, <1>6
  <2>3. connect' = connect \/ \E o \in Objects : connect' = [connect EXCEPT ![c] = o]
    BY <1>2, <1>3
  <2> QED BY <1>2, <2>1, <2>2, <2>3, NodeMoves
<1>10. /\ topics'[c] = IF "clean" \in m.flags THEN NewTopics ELSE topics[c]
       /\ connect'[c] = new
  BY <1>2, NodeTypes
<1>11. AcceptsNone(down) /\ Passes(m, up, down) /\ Owns(c, m)
  BY <1>1, <1>3, <1>7, <1>10 DEF AcceptsNone, Passes, Owns, PassTypes
<1>12. NamesUp(c, m, up, down)
  <2>1. ~Renews(m) => topics'[c] = topics[c]
    BY <1>1, <1>10 DEF Renews
  <2>2. waitedSubAck'[c] = waitedSubAck[c]
    BY <1>2
  <2> QED BY <1>1, <1>7, <2>1, <2>2 DEF NamesUp
<1>13. EntersUp(c, m, down)
  <2>1. waitedSubAck'[c] = waitedSubAck[c] /\ \A z \in Range(down) : z.type \notin {"REGACK", "SUBACK"}
    BY <1>2, <1>7
  <2>2. CASE "clean" \in m.flags
    <3>1. Renews(m) /\ ~Topical(m) /\ topics'[c] = NewTopics
      BY <1>1, <1>10, <2>2 DEF Renews, Topical
    <3> QED BY <2>1, <3>1, NewTopicsEmpty DEF EntersUp
  <2>3. CASE "clean" \notin m.flags
    BY <1>10, <2>1, <2>3, EntersNone
  <2> QED BY <2>2, <2>3
<1>14. ServesUp(c, m, up, down)
  <2>1. m \in Asking
    BY <1>1 DEF Asking, FromClient
  <2>2. connect'[c].object # "null"
    BY <1>3, <1>10
  <2>3. \A z \in Range(up) : Leads(m, z) /\ Awaits(c, z)' /\ z \in Asking /\ z.type # "DISCONNECT"
    BY <1>1, <1>7 DEF Leads, Awaits, PassTypes
  <2>4. \A z \in Range(down) : Leads(m, z) /\ z.type \in WillAsked /\ "will" \in m.flags
    BY <1>1, <1>7 DEF Leads, WillAsked, PassTypes
  <2> QED BY <1>7, <2>1, <2>2, <2>3, <2>4 DEF ServesUp
<1> QED BY <1>8, <1>9, <1>10, <1>11, <1>12, <1>13, <1>14 DEF UpMoves

LEMMA MoveWill ==
  ASSUME Shape, NEW c \in Clients, UpTurn(c), NEW m, m = Head(Cr(c)),
         SnWillTopic(c, m) \/ SnWillMsg(c, m)
  PROVE  \E up, down : UpMoves(c, m, up, down)
<1> DEFINE x(f) == Made("CONNECT", 0, 0, NoName, NoName, f)
           y == Made("WILLMSGREQ", 0, 0, NoName, NoName, {})
           z == Made("CONNACK", 0, 0, NoName, NoName, {"congestion"})
<1>1. m \in FromClient /\ m.type \in {"WILLTOPIC", "WILLMSG"}
  BY HeadUp DEF SnWillTopic, SnWillMsg
<1>2. connect[c] \in Objects /\ connect[c].flags \in SUBSET {"clean", "will"}
  BY NodeTypes DEF Objects
<1>3. /\ x(connect[c].flags \cup {"will"}) \in ToBroker
      /\ x(connect[c].flags \cup {"will"}).type = "CONNECT"
      /\ x(connect[c].flags \cup {"will"}).msgId = 0
  <2>1. connect[c].flags \cup {"will"} \in SUBSET FlagNames
    BY <1>2 DEF FlagNames
  <2> QED BY <2>1, MadeFields, NoNameAssumption DEF ToBroker, MessageTypes, UpTypes, AnyName
<1>4. y \in ToClient /\ y.type = "WILLMSGREQ" /\ y.msgId = 0
  BY MadeFields, NoNameAssumption DEF ToClient, MessageTypes, UpTypes, AnyName
<1>5. z \in ToClient /\ z.type = "CONNACK" /\ z.flags # {"accepted"}
  BY MadeFields, NoNameAssumption DEF ToClient, MessageTypes, UpTypes, AnyName, FlagNames
<1>6. PICK up \in Seq(ToBroker), down \in Seq(ToClient) :
        /\ Up(c, up, down)
        /\ \/ up = <<>> /\ down = <<>>
           \/ down = <<>> /\ \E w \in ToBroker : up = <<w>>
           \/ up = <<>> /\ \E w \in ToClient : down = <<w>>
        /\ \A w \in Range(up) : w.type = "CONNECT"
        /\ \A w \in Range(down) : w.type \in {"WILLMSGREQ", "CONNACK"}
        /\ \A w \in Range(down) : w.type = "CONNACK" => w.flags # {"accepted"}
        /\ connect[c].object # "null" =>
             \/ /\ m.type = "WILLTOPIC" /\ up = <<>> /\ down = <<y>>
                /\ connect' = [connect EXCEPT ![c].flags = WillQosFlags(@)]
             \/ \E w \in ToBroker : /\ w.type = "CONNECT" /\ w.msgId = 0
                                    /\ up = <<w>> /\ down = <<>>
  <2> DEFINE b == x(connect[c].flags \cup {"will"})
  <2>1. \/ /\ m.type = "WILLTOPIC" /\ Up(c, <<>>, <<y>>)
           /\ connect' = [connect EXCEPT ![c].flags = WillQosFlags(@)]
        \/ connect[c].object = "null" /\ (Up(c, <<>>, <<>>) \/ Up(c, <<>>, <<z>>))
        \/ Up(c, <<b>>, <<>>)
    <3>1. /\ MQTTConnect(connect[c].flags \cup {"will"}) = b
          /\ Message("WILLMSGREQ") = y /\ Ack("CONNACK", 0, 0, "congestion") = z
      BY MadeConnect, MadePlain, MadeAck
    <3> HIDE DEF b, y, z
    <3> QED BY <3>1 DEF SnWillTopic, SnWillMsg
  <2>2. b \in ToBroker /\ b.type = "CONNECT" /\ b.msgId = 0
    BY <1>3
  <2> HIDE DEF b, y, z
  <2>3. /\ <<b>> \in Seq(ToBroker) /\ Range(<<b>>) = {b}
        /\ <<y>> \in Seq(ToClient) /\ Range(<<y>>) = {y}
        /\ <<z>> \in Seq(ToClient) /\ Range(<<z>>) = {z}
        /\ <<>> \in Seq(ToBroker) /\ <<>> \in Seq(ToClient) /\ Range(<<>>) = {}
    BY <1>4, <1>5, <2>2, OneMessage, NoMessage
  <2> QED BY <1>4, <1>5, <2>1, <2>2, <2>3
<1>7. /\ UNCHANGED <<topics, waitedPubAck, waitedSubAck>>
      /\ \/ UNCHANGED connect
         \/ connect' = [connect EXCEPT ![c].flags = WillQosFlags(@)]
         \/ connect' = [connect EXCEPT ![c] = [object |-> "null", flags |-> {}]]
  BY DEF SnWillTopic, SnWillMsg
<1>8. /\ connect' = connect \/ \E o \in Objects : connect' = [connect EXCEPT ![c] = o]
      /\ connect'[c].object \in {connect[c].object, "null"}
  <2>1. connect \in [Clients -> Objects]
    BY NodeTypes
  <2>2. CASE UNCHANGED connect
    BY <2>2
  <2>3. CASE connect' = [connect EXCEPT ![c].flags = WillQosFlags(@)]
    <3>1. WillQosFlags(connect[c].flags) \subseteq {"clean", "will"}
      BY <1>2 DEF WillQosFlags
    <3>2. PICK o : o = [connect[c] EXCEPT !.flags = WillQosFlags(@)]
      OBVIOUS
    <3>3. o \in Objects /\ o.object = connect[c].object
      BY <1>2, <3>1, <3>2 DEF Objects
    <3>4. connect' = [connect EXCEPT ![c] = o]
      BY <2>1, <2>3, <3>2
    <3> QED BY <2>1, <3>3, <3>4
  <2>4. CASE connect' = [connect EXCEPT ![c] = [object |-> "null", flags |-> {}]]
    <3>1. PICK o : o = [object |-> "null", flags |-> {}]
      OBVIOUS
    <3>2. o \in Objects /\ o.object = "null" /\ connect' = [connect EXCEPT ![c] = o]
      BY <2>4, <3>1 DEF Objects
    <3> QED BY <2>1, <3>2
  <2> QED BY <1>7, <2>2, <2>3, <2>4
<1>9. NodeStep(c)
  <2>1. UNCHANGED <<known, sock>>
    BY <1>6 DEF Up, Emit
  <2> QED BY <1>7, <1>8, <2>1, NodeMoves
<1>10. TurnUp(c, up, down)
  BY <1>6, UpFacts
<1>11. AcceptsNone(down) /\ Passes(m, up, down) /\ Owns(c, m)
  BY <1>1, <1>6, <1>8 DEF AcceptsNone, Passes, Owns, PassTypes
<1>12. NamesUp(c, m, up, down)
  BY <1>1, <1>6, <1>7 DEF NamesUp
<1>13. EntersUp(c, m, down)
  BY <1>6, <1>7, EntersNone
<1>14. ServesUp(c, m, up, down)
  <2> SUFFICES ASSUME connect[c].object # "null"
               PROVE  ServesUp(c, m, up, down)
    BY <1>1 DEF ServesUp, WillTypes
  <2>1. m \in Asking /\ m.type \in Begins /\ m.type \in PassTypes /\ m.type # "CONNECT"
    BY <1>1 DEF Asking, FromClient, Begins, PassTypes
  <2>2. Count(Asking, <<>>) = 0 /\ Count(Telling, <<>>) = 0 /\ Range(<<>>) = {}
    BY CountShort, NoMessage
  <2>3. CASE /\ m.type = "WILLTOPIC" /\ up = <<>> /\ down = <<y>>
             /\ connect' = [connect EXCEPT ![c].flags = WillQosFlags(@)]
    <3>1. y \in Telling /\ y.type \in WillAsked /\ Leads(m, y)
      BY <1>4, <2>1 DEF Telling, ToClient, WillAsked, Leads, PassTypes
    <3> HIDE DEF y
    <3>2. Count(Telling, <<y>>) = 1 /\ Range(<<y>>) = {y}
      BY <1>4, <3>1, CountShort, OneMessage
    <3>3. connect'[c].object # "null"
      BY <2>3, NodeTypes DEF Objects
    <3> QED BY <2>1, <2>2, <2>3, <3>1, <3>2, <3>3 DEF ServesUp
  <2>4. ASSUME NEW w \in ToBroker, w.type = "CONNECT", w.msgId = 0, up = <<w>>, down = <<>>
        PROVE  ServesUp(c, m, up, down)
    <3>1. w \in Asking /\ Leads(m, w) /\ Awaits(c, w)' /\ w.type # "DISCONNECT"
      BY <2>1, <2>4 DEF Asking, ToBroker, Leads, Awaits, PassTypes
    <3>2. Count(Asking, <<w>>) = 1 /\ Range(<<w>>) = {w}
      BY <2>4, <3>1, CountShort, OneMessage
    <3> QED BY <2>1, <2>2, <2>4, <3>1, <3>2 DEF ServesUp
  <2> QED BY <1>6, <2>3, <2>4
<1> QED BY <1>9, <1>10, <1>11, <1>12, <1>13, <1>14 DEF UpMoves

\* Any handler of a client's message.
LEMMA HandleUpMoves ==
  ASSUME Shape, NEW c \in Clients, HandleUp(c)
  PROVE  /\ UpTurn(c) /\ Cr(c) # <<>> /\ Head(Cr(c)) \in Range(Cr(c)) /\ Head(Cr(c)) \in FromClient
         /\ \E up, down : UpMoves(c, Head(Cr(c)), up, down)
<1>1. UpTurn(c)
  BY DEF HandleUp, UpTurn
<1>2. Cr(c) # <<>> /\ Head(Cr(c)) \in FromClient /\ Head(Cr(c)) \in Range(Cr(c))
  BY <1>1, HeadUp
<1>3. PICK m : m = Head(Cr(c))
  OBVIOUS
<1>4. \/ SnPublish(c, m) \/ SnUnsubscribe(c, m)
      \/ SnPingReq(c, m) \/ SnPubAck(c, m) \/ SnDisconnect(c, m) \/ SnIrregular(c, m)
      \/ SnConnect(c, m) \/ SnWillTopic(c, m) \/ SnWillMsg(c, m)
      \/ \E a \in AddressIds : SnSubscribe(c, m, a) \/ SnRegister(c, m, a)
  BY <1>3 DEF HandleUp, Cr
<1>5. \E up, down : UpMoves(c, m, up, down)
  BY <1>1, <1>3, <1>4, MovePublish, MoveUnsubscribe, MovePass, MoveConnect, MoveWill,
     MoveSubscribe, MoveRegister
<1> QED BY <1>1, <1>2, <1>3, <1>5
------------------------------------------------------------------------------
(* What any handler of a broker's message does.                            *)
TurnDown(c, down) ==
  /\ Others(c) /\ UNCHANGED <<Cr(c), Bs(c), known, sock, connect>>
  /\ Br(c)' = Tail(Br(c)) /\ Cs(c)' = Cs(c) \o down
  /\ down \in Seq(ToClient)
  /\ LaneShape' /\ InStep'

\* It accepts the PUBLISH that m is for, and no other.
AcceptsOwn(m, down) ==
  \A x \in Range(down) :
    x.type = "PUBACK" /\ x.flags = {"accepted"} => m.type = "PUBACK" /\ x.msgId = m.msgId

PassesDown(m, down) ==
  IF m.type \in PassTypes THEN down = <<>> \/ \E x \in ToClient : down = <<x>>
  ELSE Clear(down)

NamesDown(c, down) ==
  /\ \A n, i : HasEntry(topics[c], n, i) => HasEntry(topics'[c], n, i)
  /\ \A x \in Range(down) :
       /\ x.type = "REGISTER" => HasEntry(topics'[c], x.name, x.id)
       /\ x.type = "PUBLISH" /\ x.flags = {"normal"} => HasEntry(topics'[c], x.data, x.id)
       /\ x.type # "REGACK"
       /\ x.type = "SUBACK" => /\ waitedSubAck[c].type = "SUBACK"
                               /\ x.msgId = waitedSubAck[c].msgId /\ x.id = waitedSubAck[c].id
  /\ waitedSubAck'[c] \in {waitedSubAck[c], None}

\* A long name enters the table with a REGISTER, which comes before its use.
EntersDown(c, m, down) ==
  /\ \A n \in LongNames : \A i : HasEntry(topics'[c], n, i) =>
       \/ HasEntry(topics[c], n, i)
       \/ \E x \in Range(down) : x.type = "REGISTER" /\ x.name = n /\ x.id = i
  /\ IsFull(topics[c]) => topics'[c] = topics[c]
  /\ \A k \in DOMAIN down : down[k].type = "PUBLISH" /\ down[k].flags = {"normal"} =>
       \/ HasEntry(topics[c], down[k].data, down[k].id)
       \/ \E j \in 1 .. k - 1 : /\ down[j].type = "REGISTER" /\ down[j].name = down[k].data
                               /\ down[j].id = down[k].id
  /\ m.type # "PUBLISH" => \A x \in Range(down) : ~NamesAnId(x)

\* An answer that is waited for is passed on, and nothing else is.
ServesDown(c, m, down) ==
  (m \in Telling => Awaits(c, m)) =>
    /\ Count(Telling, down) = IF m \in Telling THEN 1 ELSE 0
    /\ \A x \in Range(down) : x \in Telling => Leads(m, x) /\ x.type \notin WillAsked
    /\ m \in Telling \/ \A x \in Asking \cup Telling : Awaits(c, x) => Awaits(c, x)'

DownMoves(c, m, down) ==
  /\ TurnDown(c, down) /\ NodeStep(c) /\ AcceptsOwn(m, down)
  /\ PassesDown(m, down) /\ NamesDown(c, down) /\ EntersDown(c, m, down)
  /\ ServesDown(c, m, down)

DownTurn(c) == ques["gateway"] # <<>> /\ Head(ques["gateway"]) = Event("brokerRecv", c)

\* A handler that leaves the topic table alone and sends no topic id.
LEMMA EntersNothing ==
  ASSUME NEW c, NEW m, NEW down, topics'[c] = topics[c], DOMAIN down = 1 .. Len(down),
         \A x \in Range(down) : x.type \notin {"REGISTER", "PUBLISH"}
  PROVE  EntersDown(c, m, down)
BY DEF EntersDown, NamesAnId, Range

LEMMA HeadDown ==
  ASSUME Shape, NEW c \in Clients, DownTurn(c)
  PROVE  /\ Br(c) # <<>> /\ Br(c) \in Seq(FromBroker)
         /\ Head(Br(c)) \in FromBroker /\ Head(Br(c)) \in Range(Br(c))
<1>1. /\ Fits(ques["gateway"], Event("brokerRecv", c), Len(Br(c))) /\ Br(c) \in Seq(FromBroker)
      /\ ques["gateway"] \in Seq(Events) /\ Len(Br(c)) \in Nat
  BY DEF Shape, InStep, LaneShape, QueueOf, Lanes, Queues, Br
<1>2. Len(Br(c)) >= 1
  BY <1>1, FitsTail DEF DownTurn
<1>3. Br(c) # <<>>
  BY <1>1, <1>2
<1> QED BY <1>1, <1>3, RangeTail

LEMMA DownFacts ==
  ASSUME Shape, NEW c \in Clients, DownTurn(c), NEW down \in Seq(ToClient),
         UNCHANGED connect, Down(c, down)
  PROVE  TurnDown(c, down)
<1>0. <<>> \in Seq(ToBroker)
  OBVIOUS
<1>1. /\ Others(c) /\ UNCHANGED <<Cr(c), known, sock>>
      /\ Br(c)' = Tail(Br(c)) /\ Bs(c)' = Bs(c) \o <<>> /\ Cs(c)' = Cs(c) \o down
      /\ LaneShape' /\ InStep'
  BY <1>0, EmitFacts DEF DownTurn, Down
<1>2. Bs(c) \o <<>> = Bs(c)
  BY DEF Shape, LaneShape
<1> QED BY <1>1, <1>2 DEF TurnDown

LEMMA MoveAck ==
  ASSUME Shape, NEW c \in Clients, DownTurn(c), NEW m, m = Head(Br(c)),
         MqPubAck(c, m) \/ MqSubAck(c, m)
  PROVE  \E down : DownMoves(c, m, down)
<1>1. m \in FromBroker /\ m.type \in {"PUBACK", "SUBACK"} /\ m.type \notin PassTypes
  BY HeadDown DEF MqPubAck, MqSubAck, PassTypes
<1>2. waitedPubAck[c] \in PubAcks /\ waitedSubAck[c] \in SubAcks
  BY NodeTypes
<1>3. CASE MqPubAck(c, m)
  <2> DEFINE waited == waitedPubAck[c] # None /\ waitedPubAck[c].msgId = m.msgId
             x == waitedPubAck[c]
             down == IF waited THEN <<x>> ELSE <<>>
  <2>1. /\ m.type = "PUBACK" /\ Down(c, down) /\ UNCHANGED <<topics, waitedSubAck, connect>>
        /\ waitedPubAck' = IF waited THEN [waitedPubAck EXCEPT ![c] = None] ELSE waitedPubAck
    BY <1>3 DEF MqPubAck
  <2>2. waited => x \in ToClient /\ x.type = "PUBACK" /\ x.msgId = m.msgId
    BY <1>2 DEF PubAcks
  <2> HIDE DEF x, waited
  <2>3. /\ down \in Seq(ToClient) /\ Clear(down)
        /\ \A y \in Range(down) : y.type = "PUBACK" /\ y.msgId = m.msgId
        /\ Count(Telling, down) = IF waited /\ m.msgId # 0 THEN 1 ELSE 0
    <3>1. waited => (x \in Telling <=> m.msgId # 0)
      BY <2>2 DEF Telling, ToClient
    <3>2. Count(Telling, down) = IF waited /\ m.msgId # 0 THEN 1 ELSE 0
      BY <3>1, CountShort
    <3> QED BY <2>2, <3>2, OneMessage, NoMessage DEF PassTypes
  <2> HIDE DEF down
  <2>4. TurnDown(c, down)
    BY <2>1, <2>3, DownFacts
  <2>5. NodeStep(c)
    <3>1. UNCHANGED <<known, sock>> /\ None \in PubAcks
      BY <2>1 DEF Down, Emit, PubAcks
    <3> QED BY <2>1, <3>1, NodeMoves
  <2>6. AcceptsOwn(m, down) /\ PassesDown(m, down) /\ NamesDown(c, down)
    BY <1>1, <2>1, <2>3 DEF AcceptsOwn, PassesDown, NamesDown
  <2>7. EntersDown(c, m, down)
    BY <2>1, <2>3, RangeType, EntersNothing
  <2>8. ServesDown(c, m, down)
    <3>1. m \in Telling <=> m.msgId # 0
      BY <1>1, <2>1 DEF Telling, FromBroker
    <3>2. \A y \in Range(down) : y \in Telling => Leads(m, y) /\ y.type \notin WillAsked
      BY <2>1, <2>3 DEF Leads, WillAsked
    <3>3. CASE m \in Telling
      <4>1. Awaits(c, m) => waited
        BY <2>1 DEF waited, Awaits
      <4> QED BY <2>3, <3>1, <3>2, <3>3, <4>1 DEF ServesDown
    <3>4. CASE m \notin Telling
      <4>1. Count(Telling, down) = 0
        BY <2>3, <3>1, <3>4
      <4>2. ASSUME NEW y \in Asking \cup Telling, Awaits(c, y)
            PROVE  Awaits(c, y)'
        <5>1. y.type \in {"PUBLISH", "PUBACK", "SUBSCRIBE", "SUBACK"} => y.msgId # 0
          BY DEF Asking, Telling
        <5>2. waitedPubAck[c] # waitedPubAck'[c] => waitedPubAck[c].msgId = 0
          BY <2>1, <3>1, <3>4, NodeTypes DEF waited
        <5>3. waitedSubAck'[c] = waitedSubAck[c]
          BY <2>1
        <5> QED BY <4>2, <5>1, <5>2, <5>3 DEF Awaits
      <4> QED BY <3>2, <3>4, <4>1, <4>2 DEF ServesDown
    <3> QED BY <3>3, <3>4
  <2> QED BY <2>4, <2>5, <2>6, <2>7, <2>8 DEF DownMoves
<1>4. CASE MqSubAck(c, m)
  <2> DEFINE waited == waitedSubAck[c] # None /\ waitedSubAck[c].msgId = m.msgId
             x == [waitedSubAck[c] EXCEPT !.flags = {"accepted"}]
             down == IF waited THEN <<x>> ELSE <<>>
  <2>1. /\ m.type = "SUBACK" /\ Down(c, down) /\ UNCHANGED <<topics, waitedPubAck, connect>>
        /\ waitedSubAck' = IF waited THEN [waitedSubAck EXCEPT ![c] = None] ELSE waitedSubAck
    BY <1>4 DEF MqSubAck
  <2>2. waited => /\ x \in ToClient /\ x.type = "SUBACK" /\ waitedSubAck[c].type = "SUBACK"
                  /\ x.msgId = waitedSubAck[c].msgId /\ x.id = waitedSubAck[c].id
                  /\ x.msgId = m.msgId
    <3>1. ASSUME NEW w \in ToClient, w.type = "SUBACK", NEW y, y = [w EXCEPT !.flags = {"accepted"}]
          PROVE  y \in ToClient /\ y.type = "SUBACK" /\ y.msgId = w.msgId /\ y.id = w.id
      <4>1. /\ w \in AnyMessage /\ w.name # PredefinedName /\ {"accepted"} \in SUBSET FlagNames
        BY <3>1 DEF ToClient, FlagNames
      <4>2. /\ y \in AnyMessage /\ y.type = "SUBACK" /\ y.msgId = w.msgId /\ y.id = w.id
            /\ y.name = w.name
        BY <3>1, <4>1 DEF AnyMessage
      <4> QED BY <4>1, <4>2 DEF ToClient
    <3>2. waited => waitedSubAck[c] \in ToClient /\ waitedSubAck[c].type = "SUBACK"
      BY <1>2 DEF SubAcks
    <3> QED BY <3>1, <3>2
  <2> HIDE DEF x, waited
  <2>3. /\ down \in Seq(ToClient) /\ Clear(down)
        /\ \A y \in Range(down) : /\ y.type = "SUBACK" /\ waitedSubAck[c].type = "SUBACK"
                                  /\ y.msgId = waitedSubAck[c].msgId /\ y.id = waitedSubAck[c].id
                                  /\ y.msgId = m.msgId
        /\ Count(Telling, down) = IF waited /\ m.msgId # 0 THEN 1 ELSE 0
    <3>1. waited => (x \in Telling <=> m.msgId # 0)
      BY <2>2 DEF Telling, ToClient
    <3>2. Count(Telling, down) = IF waited /\ m.msgId # 0 THEN 1 ELSE 0
      BY <3>1, CountShort
    <3> QED BY <2>2, <3>2, OneMessage, NoMessage DEF PassTypes
  <2> HIDE DEF down
  <2>4. TurnDown(c, down)
    BY <2>1, <2>3, DownFacts
  <2>5. NodeStep(c) /\ waitedSubAck'[c] \in {waitedSubAck[c], None}
    <3>1. UNCHANGED <<known, sock>> /\ None \in SubAcks
      BY <2>1 DEF Down, Emit, SubAcks
    <3> QED BY <2>1, <3>1, NodeMoves, NodeTypes
  <2>6. AcceptsOwn(m, down) /\ PassesDown(m, down) /\ NamesDown(c, down)
    BY <1>1, <2>1, <2>3, <2>5 DEF AcceptsOwn, PassesDown, NamesDown
  <2>7. EntersDown(c, m, down)
    BY <2>1, <2>3, RangeType, EntersNothing
  <2>8. ServesDown(c, m, down)
    <3>1. m \in Telling <=> m.msgId # 0
      BY <1>1, <2>1 DEF Telling, FromBroker
    <3>2. \A y \in Range(down) : y \in Telling => Leads(m, y) /\ y.type \notin WillAsked
      BY <2>1, <2>3 DEF Leads, WillAsked
    <3>3. CASE m \in Telling
      <4>1. Awaits(c, m) => waited
        BY <2>1 DEF waited, Awaits
      <4> QED BY <2>3, <3>1, <3>2, <3>3, <4>1 DEF ServesDown
    <3>4. CASE m \notin Telling
      <4>1. Count(Telling, down) = 0
        BY <2>3, <3>1, <3>4
      <4>2. ASSUME NEW y \in Asking \cup Telling, Awaits(c, y)
            PROVE  Awaits(c, y)'
        <5>1. y.type \in {"PUBLISH", "PUBACK", "SUBSCRIBE", "SUBACK"} => y.msgId # 0
          BY DEF Asking, Telling
        <5>2. waitedSubAck[c] # waitedSubAck'[c] => waitedSubAck[c].msgId = 0
          BY <2>1, <3>1, <3>4, NodeTypes DEF waited
        <5>3. waitedPubAck'[c] = waitedPubAck[c]
          BY <2>1
        <5> QED BY <4>2, <5>1, <5>2, <5>3 DEF Awaits
      <4> QED BY <3>2, <3>4, <4>1, <4>2 DEF ServesDown
    <3> QED BY <3>3, <3>4
  <2> QED BY <2>4, <2>5, <2>6, <2>7, <2>8 DEF DownMoves
<1> QED BY <1>3, <1>4

LEMMA MoveReply ==
  ASSUME Shape, NEW c \in Clients, DownTurn(c), NEW m, m = Head(Br(c)),
         MqPingResp(c, m) \/ MqUnsubAck(c, m) \/ MqConnAck(c, m)
  PROVE  \E down : DownMoves(c, m, down)
<1>1. /\ m \in FromBroker /\ m.msgId \in Nat /\ m.type \in {"PINGRESP", "UNSUBACK", "CONNACK"}
      /\ UNCHANGED nodeVars
  BY HeadDown DEF FromBroker, AnyMessage, MqPingResp, MqUnsubAck, MqConnAck, PassDown
<1>2. PICK x \in ToClient : /\ Down(c, <<x>>) /\ x.type = m.type
                            /\ x.msgId = m.msgId \/ (x.msgId = 0 /\ x.type = "CONNACK")
  <2>1. CASE MqPingResp(c, m) \/ MqUnsubAck(c, m)
    <3> DEFINE y == Made(m.type, m.msgId, 0, NoName, NoName, {})
    <3>1. Down(c, <<y>>) /\ m.type \in {"PINGRESP", "UNSUBACK"}
      BY <2>1, MadeNumbered DEF MqPingResp, MqUnsubAck, PassDown
    <3>2. y \in ToClient /\ y.type = m.type /\ y.msgId = m.msgId
      BY <1>1, <3>1, MadeFields, NoNameAssumption DEF ToClient, MessageTypes, UpTypes, AnyName
    <3> QED BY <3>1, <3>2
  <2>2. CASE MqConnAck(c, m)
    <3> DEFINE code == IF m.flags = {"accepted"} THEN "accepted" ELSE "rejected"
               y == Made("CONNACK", 0, 0, NoName, NoName, {code})
    <3>1. Down(c, <<y>>) /\ m.type = "CONNACK"
      BY <2>2, MadeAck DEF MqConnAck
    <3>2. y \in ToClient /\ y.type = "CONNACK" /\ y.msgId = 0
      BY <1>1, MadeFields, NoNameAssumption DEF ToClient, MessageTypes, UpTypes, AnyName, FlagNames
    <3> QED BY <3>1, <3>2
  <2> QED BY <1>1, <2>1, <2>2 DEF MqPingResp, MqUnsubAck, MqConnAck
<1>3. <<x>> \in Seq(ToClient) /\ Range(<<x>>) = {x} /\ (x.type \notin PassTypes => Clear(<<x>>))
  BY <1>2, OneMessage
<1>4. TurnDown(c, <<x>>)
  BY <1>1, <1>2, <1>3, DownFacts DEF nodeVars
<1>5. NodeStep(c)
  <2>1. UNCHANGED <<nodeVars, known, sock>>
    BY <1>1, <1>2 DEF Down, Emit
  <2> QED BY <2>1, SameNode
<1>6. AcceptsOwn(m, <<x>>) /\ PassesDown(m, <<x>>) /\ NamesDown(c, <<x>>)
  BY <1>1, <1>2, <1>3 DEF AcceptsOwn, PassesDown, NamesDown, PassTypes, nodeVars
<1>7. EntersDown(c, m, <<x>>)
  <2>1. PICK s \in Seq(ToClient) : s = <<x>>
    BY <1>3
  <2> QED BY <1>1, <1>2, <1>3, <2>1, RangeType, EntersNothing DEF nodeVars
<1>8. ServesDown(c, m, <<x>>)
  <2>1. m \in Telling <=> x \in Telling
    BY <1>1, <1>2 DEF Telling, FromBroker, ToClient
  <2>2. Count(Telling, <<x>>) = IF m \in Telling THEN 1 ELSE 0
    BY <2>1, CountShort
  <2>3. Leads(m, x) /\ x.type \notin WillAsked
    BY <1>1, <1>2 DEF Leads, WillAsked, PassTypes
  <2>4. \A y \in Asking \cup Telling : Awaits(c, y) => Awaits(c, y)'
    BY <1>1 DEF Awaits, nodeVars
  <2> QED BY <1>3, <2>2, <2>3, <2>4 DEF ServesDown
<1> QED BY <1>4, <1>5, <1>6, <1>7, <1>8 DEF DownMoves

LEMMA MovePublishDown ==
  ASSUME Shape, NEW c \in Clients, DownTurn(c), NEW m, m = Head(Br(c)),
         NEW a \in AddressIds, MqPublish(c, m, a)
  PROVE  \E down : DownMoves(c, m, down)
<1> DEFINE short == m.name \in ShortNames
           new == ~short /\ ~HasName(topics[c], m.name)
           id == IF short THEN a ELSE CreatedId(topics[c], m.name)
           x == Made("REGISTER", 0, id, m.name, NoName, {})
           y == Made("PUBLISH", m.msgId, id, NoName, m.data, {IF short THEN "short" ELSE "normal"})
           down == IF id = NoTopic THEN <<>> ELSE IF new THEN <<x, y>> ELSE <<y>>
<1>1. /\ m \in FromBroker /\ m.msgId \in Nat /\ m.type = "PUBLISH"
      /\ m.name \in Names /\ m.data = m.name /\ m.type \notin PassTypes
      /\ m.name \in LongNames <=> ~short
  BY HeadDown, NamesAssumption DEF FromBroker, AnyMessage, MqPublish, PassTypes, Names
<1>2. /\ topics' = IF new THEN [topics EXCEPT ![c] = CreateTopic(@, m.name, a)] ELSE topics
      /\ Down(c, down) /\ UNCHANGED <<waitedPubAck, waitedSubAck, connect>>
  <2>1. /\ MQTTSnRegister(id, m.name) = x
        /\ MQTTSnPublish(id, IF short THEN "short" ELSE "normal", m.msgId, m.data) = y
    BY MadeSnRegister, MadeSnPublish
  <2> HIDE DEF x, y
  <2> QED BY <2>1 DEF MqPublish
<1>3. /\ \A n, i : HasEntry(topics[c], n, i) => HasEntry(topics'[c], n, i)
      /\ topics' = topics \/ \E t \in Tables : topics' = [topics EXCEPT ![c] = t]
      /\ id \in 0 .. IdRange - 1
      /\ ~short /\ id # NoTopic => HasEntry(topics'[c], m.name, id) /\ id > BaseId
      /\ ~short => Enters(c, m.name, id)
  <2>1. CASE short
    <3>1. a \in 0 .. IdRange - 1
      BY AddressAssumption, IdsAssumption
    <3> QED BY <1>2, <2>1, <3>1
  <2>2. CASE ~short
    <3>1. topics' = [topics EXCEPT ![c] = CreateTopic(@, m.name, a)]
      <4>1. CASE new
        BY <1>2, <4>1
      <4>2. CASE ~new
        <5>1. CreateTopic(topics[c], m.name, a) = topics[c]
          BY <2>2, <4>2 DEF CreateTopic
        <5> QED BY <1>2, <4>2, <5>1, NodeTypes
      <4> QED BY <4>1, <4>2
    <3>2. /\ CreateTopic(topics[c], m.name, a) \in Tables
          /\ CreatedId(topics[c], m.name) \in 0 .. IdRange - 1
          /\ \A n, i : HasEntry(topics[c], n, i) => HasEntry(topics'[c], n, i)
          /\ CreatedId(topics[c], m.name) # NoTopic
             => HasEntry(topics'[c], m.name, CreatedId(topics[c], m.name))
          /\ GoodTable(topics'[c]) /\ Enters(c, m.name, CreatedId(topics[c], m.name))
      BY <1>1, <2>2, <3>1, TableMoves
    <3>3. id = CreatedId(topics[c], m.name)
      BY <2>2
    <3>4. id # NoTopic => id > BaseId
      BY <1>1, <2>2, <3>2, <3>3, LongIds
    <3> QED BY <3>1, <3>2, <3>3, <3>4
  <2> QED BY <2>1, <2>2
<1>4. ~short /\ id # NoTopic =>
        /\ x \in ToClient /\ x.type = "REGISTER" /\ x.name = m.name /\ x.id = id
        /\ y \in ToClient /\ y.type = "PUBLISH" /\ y.data = m.name /\ y.id = id
  <2> SUFFICES ASSUME ~short, id # NoTopic
               PROVE  /\ x \in ToClient /\ x.type = "REGISTER" /\ x.name = m.name /\ x.id = id
                      /\ y \in ToClient /\ y.type = "PUBLISH" /\ y.data = m.name /\ y.id = id
    OBVIOUS
  <2> HIDE DEF id, short
  <2>1. x \in ToClient /\ x.type = "REGISTER" /\ x.name = m.name /\ x.id = id
    BY <1>1, <1>3, MadeFields, NamesAssumption DEF ToClient, MessageTypes, UpTypes, AnyName
  <2>2. {IF short THEN "short" ELSE "normal"} \in SUBSET FlagNames
    BY DEF FlagNames
  <2>3. y \in ToClient /\ y.type = "PUBLISH" /\ y.data = m.name /\ y.id = id
    BY <1>1, <1>3, <2>2, MadeFields, NoNameAssumption DEF ToClient, MessageTypes, UpTypes, AnyName
  <2> QED BY <2>1, <2>3
<1>5. short => y \in ToClient /\ y.type = "PUBLISH" /\ y.flags # {"normal"}
  <2> SUFFICES ASSUME short
               PROVE  y \in ToClient /\ y.type = "PUBLISH" /\ y.flags # {"normal"}
    OBVIOUS
  <2> DEFINE f == {IF short THEN "short" ELSE "normal"}
  <2>1. f \in SUBSET FlagNames /\ f # {"normal"}
    BY DEF FlagNames
  <2> HIDE DEF id, f
  <2>2. y \in ToClient /\ y.type = "PUBLISH" /\ y.flags = f
    BY <1>1, <1>3, <2>1, MadeFields, NoNameAssumption DEF ToClient, MessageTypes, UpTypes, AnyName, f
  <2> QED BY <2>1, <2>2
<1> HIDE DEF x, y
<1>6. /\ down \in Seq(ToClient) /\ Clear(down)
      /\ \A z \in Range(down) :
           \/ z.type = "REGISTER" /\ ~short /\ id # NoTopic /\ z.name = m.name /\ z.id = id
           \/ /\ z.type = "PUBLISH"
              /\ \/ short /\ z.flags # {"normal"}
                 \/ ~short /\ id # NoTopic /\ z.data = m.name /\ z.id = id
  <2>1. CASE id = NoTopic
    <3>1. down = <<>>
      BY <2>1
    <3> HIDE DEF down
    <3> QED BY <3>1, NoMessage
  <2>2. CASE id # NoTopic /\ new
    <3>1. down = <<x, y>> /\ ~short
      <4> HIDE DEF id, short
      <4> QED BY <2>2
    <3> HIDE DEF down
    <3>2. x \in ToClient /\ y \in ToClient
      BY <1>4, <2>2, <3>1
    <3>3. down \in Seq(ToClient) /\ Range(down) = {x, y}
      BY <3>1, <3>2, TwoMessages
    <3> HIDE DEF new, short, id
    <3> QED BY <1>4, <2>2, <3>1, <3>3 DEF Clear, PassTypes
  <2>3. CASE id # NoTopic /\ ~new
    <3>1. down = <<y>>
      BY <2>3
    <3>2. y \in ToClient /\ y.type = "PUBLISH"
      BY <1>4, <1>5, <2>3
    <3>3. <<y>> \in Seq(ToClient) /\ Range(<<y>>) = {y}
      BY <3>2, OneMessage
    <3>4. \A z \in Range(<<y>>) : z = y
      BY <3>3
    <3>5. \/ short /\ y.flags # {"normal"}
          \/ ~short /\ id # NoTopic /\ y.data = m.name /\ y.id = id
      BY <1>4, <1>5, <2>3
    <3> HIDE DEF down, new, short, id
    <3> QED BY <3>1, <3>2, <3>3, <3>4, <3>5 DEF Clear, PassTypes
  <2> QED BY <2>1, <2>2, <2>3
<1>11. \/ id = NoTopic /\ down = <<>>
       \/ id # NoTopic /\ new /\ down = <<x, y>>
       \/ id # NoTopic /\ ~new /\ down = <<y>>
  OBVIOUS
<1>12. (new => ~short /\ ~HasName(topics[c], m.name)) /\ (short \/ m.name \in LongNames)
  BY <1>1
<1> HIDE DEF down, short, id, new
<1>7. TurnDown(c, down)
  BY <1>2, <1>6, DownFacts
<1>8. NodeStep(c)
  <2>1. UNCHANGED <<known, sock>>
    BY <1>2 DEF Down, Emit
  <2> QED BY <1>2, <1>3, <2>1, NodeMoves
<1>9. AcceptsOwn(m, down) /\ PassesDown(m, down)
  BY <1>1, <1>6 DEF AcceptsOwn, PassesDown
<1>10. NamesDown(c, down)
  BY <1>2, <1>3, <1>6 DEF NamesDown
<1>13. EntersDown(c, m, down)
  <2>1. m.type = "PUBLISH" /\ (~new => topics'[c] = topics[c])
    BY <1>1, <1>2
  <2>2. CASE id = NoTopic
    <3>1. down = <<>>
      BY <1>11, <2>2
    <3>2. DOMAIN down = {}
      BY <3>1
    <3>3. \A n \in LongNames : \A i : HasEntry(topics'[c], n, i) => HasEntry(topics[c], n, i)
      BY <1>3, <1>12, <2>1, <2>2 DEF Enters
    <3>4. IsFull(topics[c]) => topics'[c] = topics[c]
      BY <1>3, <1>12, <2>1 DEF Enters
    <3> QED BY <2>1, <3>2, <3>3, <3>4 DEF EntersDown
  <2>3. CASE id # NoTopic /\ new
    <3>1. ~short /\ x \in ToClient /\ y \in ToClient
      BY <1>4, <1>12, <2>3
    <3>2. PICK s \in Seq(ToClient) : s = <<x, y>>
      BY <3>1, TwoMessages
    <3>3. down = s /\ DOMAIN s = {1, 2} /\ s[1] = x /\ s[2] = y /\ x \in Range(s)
      <4>1. DOMAIN s = {1, 2} /\ s[1] = x /\ s[2] = y
        BY <3>2
      <4> QED BY <1>11, <2>3, <3>2, <4>1 DEF Range
    <3>4. \A n \in LongNames : \A i : HasEntry(topics'[c], n, i) =>
            \/ HasEntry(topics[c], n, i)
            \/ \E z \in Range(down) : z.type = "REGISTER" /\ z.name = n /\ z.id = i
      BY <1>3, <1>4, <2>3, <3>1, <3>3 DEF Enters
    <3>5. \A k \in DOMAIN down : down[k].type = "PUBLISH" =>
            \E j \in 1 .. k - 1 : /\ down[j].type = "REGISTER" /\ down[j].name = down[k].data
                                  /\ down[j].id = down[k].id
      <4>1. 1 \in 1 .. 2 - 1
        OBVIOUS
      <4> QED BY <1>4, <2>3, <3>1, <3>3, <4>1
    <3> QED BY <1>3, <2>1, <3>1, <3>4, <3>5 DEF EntersDown, Enters
  <2>4. CASE id # NoTopic /\ ~new
    <3>1. y \in ToClient /\ y.type = "PUBLISH"
      BY <1>4, <1>5, <2>4
    <3>2. PICK s \in Seq(ToClient) : s = <<y>>
      BY <3>1, OneMessage
    <3>3. down = s /\ DOMAIN s = {1} /\ s[1] = y
      BY <1>11, <2>4, <3>2
    <3>4. y.flags = {"normal"} => HasEntry(topics[c], y.data, y.id)
      BY <1>3, <1>4, <1>5, <2>1, <2>4
    <3> QED BY <2>1, <2>4, <3>3, <3>4 DEF EntersDown
  <2> QED BY <2>2, <2>3, <2>4
<1>14. ServesDown(c, m, down)
  <2>1. m \notin Telling /\ \A z \in Range(down) : z \notin Telling
    BY <1>1, <1>6 DEF Telling
  <2>2. Count(Telling, down) = 0
    BY <1>6, <2>1, CountZero
  <2>3. \A z \in Asking \cup Telling : Awaits(c, z) => Awaits(c, z)'
    BY <1>2 DEF Awaits
  <2> QED BY <2>1, <2>2, <2>3 DEF ServesDown
<1> QED BY <1>7, <1>8, <1>9, <1>10, <1>13, <1>14 DEF DownMoves

\* Any handler of a broker's message.
LEMMA HandleDownMoves ==
  ASSUME Shape, NEW c \in Clients, HandleDown(c)
  PROVE  /\ DownTurn(c) /\ Br(c) # <<>> /\ Head(Br(c)) \in Range(Br(c)) /\ Head(Br(c)) \in FromBroker
         /\ \E down : DownMoves(c, Head(Br(c)), down)
<1>1. DownTurn(c)
  BY DEF HandleDown, DownTurn
<1>2. Br(c) # <<>> /\ Head(Br(c)) \in FromBroker /\ Head(Br(c)) \in Range(Br(c))
  BY <1>1, HeadDown
<1>3. PICK m : m = Head(Br(c))
  OBVIOUS
<1>4. \/ MqPubAck(c, m) \/ MqSubAck(c, m) \/ MqPingResp(c, m) \/ MqUnsubAck(c, m) \/ MqConnAck(c, m)
      \/ \E a \in AddressIds : MqPublish(c, m, a)
  BY <1>3 DEF HandleDown, Br
<1>5. \E down : DownMoves(c, m, down)
  BY <1>1, <1>3, <1>4, MoveAck, MoveReply, MovePublishDown
<1> QED BY <1>1, <1>2, <1>3, <1>5
------------------------------------------------------------------------------
(* What the steps of the clients and the broker do to client c; those of   *)
(* other clients leave it alone.                                           *)
Frame(c) ==
  /\ Others(c)
  /\ \A d \in Clients \ {c} :
       /\ UNCHANGED <<topics[d], waitedPubAck[d], waitedSubAck[d], connect[d]>>
       /\ UNCHANGED <<active[d], asked[d], owes[d], names[d], requests[d]>>
       /\ UNCHANGED <<stored[d], replies[d], link[d]>>
       /\ d \in known' <=> d \in known
  /\ setting' = setting

SameNodeAt(c) == UNCHANGED <<topics[c], waitedPubAck[c], waitedSubAck[c], connect[c]>>
SameBroker(c) == UNCHANGED <<stored[c], replies[c], link[c]>>
SameClient(c) == UNCHANGED <<active[c], asked[c], owes[c], names[c], requests[c]>>

\* c sends m, which is dropped when the gateway does not know c.
Sends(c, m) ==
  /\ m \in FromClient
  /\ UNCHANGED <<Bs(c), Br(c), Cs(c)>> /\ SameNodeAt(c) /\ SameBroker(c)
  /\ \/ (c \in known \/ m.type = "CONNECT") /\ c \in known' /\ Cr(c)' = Append(Cr(c), m)
     \/ /\ c \notin known /\ c \notin known' /\ Cr(c)' = Cr(c)
        /\ m.type = "CONNECT" => ~MayJoin

\* Nothing that the invariant is about changes.
Idles(c) ==
  /\ UNCHANGED <<Cr(c), Bs(c), Br(c), Cs(c)>> /\ SameNodeAt(c) /\ SameBroker(c)
  /\ UNCHANGED <<active[c], asked[c], owes[c], names[c]>>
  /\ requests'[c] \in Nat /\ requests'[c] >= requests[c] /\ (c \in known' <=> c \in known)

LEMMA SendFacts ==
  ASSUME Shape, NEW c \in Clients, NEW m \in FromClient, ClientRecv(c, m), UNCHANGED brokerVars
  PROVE  /\ LaneShape' /\ NodeShape' /\ BrokerShape' /\ InStep' /\ Sends(c, m) /\ Others(c)
         /\ \A d \in Clients \ {c} :
              /\ UNCHANGED <<topics[d], waitedPubAck[d], waitedSubAck[d], connect[d]>>
              /\ UNCHANGED <<stored[d], replies[d], link[d]>>
              /\ d \in known' <=> d \in known
<1>1. /\ Others(c) /\ UNCHANGED <<Bs(c), Br(c), Cs(c), nodeVars, sock>>
      /\ \/ /\ m \in FromClient /\ (c \in known \/ m.type = "CONNECT")
            /\ Cr(c)' = Append(Cr(c), m) /\ known' = known \cup {c}
         \/ /\ Cr(c)' = Cr(c) /\ known' = known /\ (m \in FromClient => c \notin known)
            /\ m.type = "CONNECT" => ~MayJoin
      /\ LaneShape' /\ InStep'
  BY ClientRecvFacts
<1>2. NodeShape'
  <2>1. known' \subseteq Clients
    BY <1>1 DEF Shape, NodeShape
  <2> QED BY <1>1, <2>1 DEF Shape, NodeShape, nodeVars
<1>3. BrokerShape'
  BY DEF Shape, BrokerShape, brokerVars
<1>4. SameNodeAt(c) /\ SameBroker(c)
  BY <1>1 DEF SameNodeAt, SameBroker, nodeVars, brokerVars
<1>5. Sends(c, m)
  BY <1>1, <1>4 DEF Sends
<1> QED BY <1>1, <1>2, <1>3, <1>5 DEF nodeVars, brokerVars

\* A CONNECT.
Connects(c) ==
  \E m \in FromClient :
    /\ m.type = "CONNECT" /\ m.flags \in setting.flags
    /\ Sends(c, m) /\ asked'[c] = {m} /\ ~active'[c] /\ owes'[c] = <<>>
    /\ names'[c] = IF "clean" \in m.flags THEN {} ELSE names[c]
    /\ UNCHANGED requests[c]
    /\ ~setting.repeat => active[c] \/ ~Connecting(c)
    /\ retries[c] <= setting.maxRetries /\ retries' = [retries EXCEPT ![c] = @ + 1]

LEMMA ConnectStep ==
  ASSUME Shape, NEW c \in Clients, FirstConnect(c) \/ Reconnect(c)
  PROVE  Shape' /\ Frame(c) /\ Connects(c)
<1>1. PICK flags \in setting.flags : Connect(c, flags)
  BY DEF FirstConnect, Reconnect
<1> DEFINE m == Made("CONNECT", 0, 0, NoName, NoName, flags)
<1>2. m = [Message("CONNECT") EXCEPT !.flags = flags]
  BY MadeFlagged
<1>3. flags \in SUBSET {"clean", "will"} /\ flags \in SUBSET FlagNames
  BY DEF Shape, BrokerShape, SettingRecords, FlagNames
<1>4. m \in FromClient /\ m.type = "CONNECT" /\ m.flags = flags
  <2>1. /\ m.type = "CONNECT" /\ m.msgId = 0 /\ m.name = NoName /\ m.flags = flags
    BY MadeFields
  <2>2. m \in AnyMessage
    <3>1. NoName \in AnyName /\ 0 \in 0 .. IdRange - 1 /\ "CONNECT" \in MessageTypes
      BY DEF MessageTypes, UpTypes, AnyName
    <3> QED BY <1>3, <3>1, MadeFields
  <2> HIDE DEF m
  <2> QED BY <1>3, <2>1, <2>2, NoNameAssumption DEF FromClient, UpTypes
<1> HIDE DEF m
<1>5. /\ asked' = [asked EXCEPT ![c] = {m}] /\ active' = [active EXCEPT ![c] = FALSE]
      /\ owes' = [owes EXCEPT ![c] = <<>>]
      /\ names' = IF "clean" \in flags THEN [names EXCEPT ![c] = {}] ELSE names
      /\ ClientRecv(c, m) /\ UNCHANGED <<requests, brokerVars>>
  BY <1>1, <1>2 DEF Connect
<1>6. ~setting.repeat => active[c] \/ ~Connecting(c)
  BY DEF FirstConnect, Reconnect, MayRepeat, Connecting, Shape, ClientShape
<1>11. retries[c] <= setting.maxRetries /\ retries' = [retries EXCEPT ![c] = @ + 1]
  BY DEF FirstConnect, Reconnect
<1>7. ClientShape'
  <2>1. ClientShape /\ m.type \in DOMAIN AnswerOf
    BY <1>4 DEF Shape, AnswerOf
  <2> QED BY <1>4, <1>5, <2>1 DEF ClientShape
<1>8. /\ LaneShape' /\ NodeShape' /\ BrokerShape' /\ InStep' /\ Sends(c, m) /\ Others(c)
      /\ \A d \in Clients \ {c} :
           /\ UNCHANGED <<topics[d], waitedPubAck[d], waitedSubAck[d], connect[d]>>
           /\ UNCHANGED <<stored[d], replies[d], link[d]>>
           /\ d \in known' <=> d \in known
  BY <1>4, <1>5, SendFacts
<1>9. Frame(c)
  BY <1>5, <1>8 DEF Frame, Shape, ClientShape, brokerVars
<1>10. Connects(c)
  <2>1. /\ asked'[c] = {m} /\ ~active'[c] /\ owes'[c] = <<>> /\ requests'[c] = requests[c]
        /\ names'[c] = IF "clean" \in m.flags THEN {} ELSE names[c]
    BY <1>4, <1>5 DEF Shape, ClientShape
  <2> QED BY <1>4, <1>6, <1>8, <1>11, <2>1 DEF Connects
<1> QED BY <1>7, <1>8, <1>9, <1>10 DEF Shape

LEMMA MadeRegister ==
  ASSUME NEW n
  PROVE  [Message("REGISTER") EXCEPT !.name = n] = Made("REGISTER", 0, 0, n, NoName, {})
<1>1. ASSUME NEW r, r = [Message("REGISTER") EXCEPT !.name = n]
      PROVE  r = Made("REGISTER", 0, 0, n, NoName, {})
  BY <1>1 DEF Message, Made
<1> QED BY <1>1

LEMMA MadeData ==
  ASSUME NEW i, NEW n
  PROVE  [Message("PUBLISH") EXCEPT !.id = i, !.data = n] = Made("PUBLISH", 0, i, NoName, n, {})
<1>1. ASSUME NEW r, r = [Message("PUBLISH") EXCEPT !.id = i, !.data = n]
      PROVE  r = Made("PUBLISH", 0, i, NoName, n, {})
  BY <1>1 DEF Message, Made
<1> QED BY <1>1

LEMMA MadeNamed ==
  ASSUME NEW t, NEW n, NEW f
  PROVE  [Message(t) EXCEPT !.name = n, !.data = n, !.flags = f] = Made(t, 0, 0, n, n, f)
<1>1. ASSUME NEW r, r = [Message(t) EXCEPT !.name = n, !.data = n, !.flags = f]
      PROVE  r = Made(t, 0, 0, n, n, f)
  BY <1>1 DEF Message, Made
<1> QED BY <1>1

LEMMA Renumber ==
  ASSUME NEW r \in FromClient, r.type # "CONNECT", NEW k \in Nat, NEW x, x = [r EXCEPT !.msgId = k]
  PROVE  /\ x \in FromClient /\ x.msgId = k /\ x.type = r.type
         /\ x.id = r.id /\ x.name = r.name /\ x.data = r.data
<1>1. /\ x \in AnyMessage /\ x.msgId = k /\ x.type = r.type
      /\ x.id = r.id /\ x.name = r.name /\ x.data = r.data /\ x.flags = r.flags
  BY DEF FromClient, AnyMessage
<1> QED BY <1>1 DEF FromClient

RequestTypes == {"REGISTER", "PUBLISH", "SUBSCRIBE", "UNSUBSCRIBE", "PINGREQ"}

LEMMA TopicMessage ==
  ASSUME Shape, NEW c \in Clients, NEW p \in names[c], NEW r,
         r = [Message("PUBLISH") EXCEPT !.id = p[1], !.data = p[2]]
  PROVE  r \in FromClient /\ r.type = "PUBLISH" /\ r.msgId = 0 /\ <<r.id, r.data>> = p
<1>1. p[1] \in 0 .. IdRange - 1 /\ p[2] \in LongNames /\ p = <<p[1], p[2]>>
  BY DEF Shape, ClientShape
<1>2. PICK i, n : i = p[1] /\ n = p[2]
  OBVIOUS
<1>3. r = Made("PUBLISH", 0, i, NoName, n, {})
  BY <1>2, MadeData
<1>4. /\ r.type = "PUBLISH" /\ r.name = NoName /\ r.data = n /\ r.id = i /\ r.msgId = 0
      /\ r \in AnyMessage
  <2>1. n \in AnyName /\ NoName \in AnyName /\ "PUBLISH" \in MessageTypes
    BY <1>1, <1>2 DEF AnyName, Names, MessageTypes, UpTypes
  <2>2. i \in 0 .. IdRange - 1
    BY <1>1, <1>2
  <2> DEFINE x == Made("PUBLISH", 0, i, NoName, n, {})
  <2>3. x.type = "PUBLISH" /\ x.name = NoName /\ x.data = n /\ x.id = i /\ x.msgId = 0
    BY MadeFields
  <2>4. x \in AnyMessage
    BY <2>1, <2>2, MadeFields
  <2> HIDE DEF x
  <2>5. x = r
    BY <1>3 DEF x
  <2> QED BY <2>3, <2>4, <2>5
<1> QED BY <1>1, <1>2, <1>4, NoNameAssumption DEF FromClient, UpTypes

LEMMA RequestFacts ==
  ASSUME Shape, NEW c \in Clients, NEW r \in Requests(c)
  PROVE  /\ r \in FromClient /\ r.type \in RequestTypes
         /\ r.type = "PUBLISH" => <<r.id, r.data>> \in names[c]
         /\ r.type = "PINGREQ" => r.msgId = 0
<1>0. /\ 0 \in 0 .. IdRange - 1 /\ PredefinedId \in 0 .. IdRange - 1
      /\ NoName \in AnyName /\ PredefinedName \in AnyName /\ Names \subseteq AnyName
      /\ LongNames \subseteq Names /\ PredefinedName \notin Names /\ NoName # PredefinedName
  BY NoNameAssumption, NamesAssumption, IdsAssumption DEF AnyName, Names
<1>1. CASE r \in {[Message("REGISTER") EXCEPT !.name = n] : n \in LongNames}
  <2>0. PICK n \in LongNames : r = [Message("REGISTER") EXCEPT !.name = n]
    BY <1>1
  <2>1. r = Made("REGISTER", 0, 0, n, NoName, {})
    BY <2>0, MadeRegister
  <2>2. r.type = "REGISTER" /\ r.name = n /\ r \in AnyMessage
    BY <1>0, <2>1, MadeFields DEF MessageTypes, UpTypes
  <2> QED BY <1>0, <2>1, <2>2 DEF FromClient, UpTypes, RequestTypes
<1>2. CASE r \in {[Message("PUBLISH") EXCEPT !.id = p[1], !.data = p[2]] : p \in names[c]}
  BY <1>2, TopicMessage DEF RequestTypes
<1>3. ASSUME NEW t \in {"SUBSCRIBE", "UNSUBSCRIBE"}, r \in Filters(t)
      PROVE  r \in FromClient /\ r.type = t
  <2>0. t \in MessageTypes /\ t \in UpTypes
    BY DEF MessageTypes, UpTypes
  <2>1. CASE r \in {[Message(t) EXCEPT !.name = n, !.data = n,
                      !.flags = IF n \in LongNames THEN {"normal"} ELSE {"short"}] : n \in Names}
    <3>1. PICK n \in Names, f \in {{"normal"}, {"short"}} : r = Made(t, 0, 0, n, n, f)
      <4>1. PICK n \in Names : r = [Message(t) EXCEPT !.name = n, !.data = n,
                                   !.flags = IF n \in LongNames THEN {"normal"} ELSE {"short"}]
        BY <2>1
      <4>2. PICK f \in {{"normal"}, {"short"}} : f = IF n \in LongNames THEN {"normal"} ELSE {"short"}
        OBVIOUS
      <4>3. r = Made(t, 0, 0, n, n, f)
        <5>1. r = [Message(t) EXCEPT !.name = n, !.data = n, !.flags = f]
          BY <4>1, <4>2
        <5> QED BY <5>1, MadeNamed
      <4> QED BY <4>3
    <3>2. f \in SUBSET FlagNames /\ f \cap {"predefined", "reserved"} = {}
      BY DEF FlagNames
    <3>3. r.type = t /\ r.name = n /\ r.flags = f /\ r \in AnyMessage
      BY <1>0, <2>0, <3>1, <3>2, MadeFields
    <3> QED BY <1>0, <2>0, <3>2, <3>3 DEF FromClient
  <2>2. CASE r \in {[Message(t) EXCEPT !.id = PredefinedId, !.data = PredefinedName, !.flags = {f}] :
                      f \in {"predefined", "reserved"}}
    <3>0. PICK f \in {"predefined", "reserved"} :
            r = [Message(t) EXCEPT !.id = PredefinedId, !.data = PredefinedName, !.flags = {f}]
      BY <2>2
    <3>1. r = Made(t, 0, PredefinedId, NoName, PredefinedName, {f})
      BY <3>0 DEF Message, Made
    <3>2. {f} \in SUBSET FlagNames /\ {f} \cap {"predefined", "reserved"} # {}
      BY DEF FlagNames
    <3>3. r.type = t /\ r.name = NoName /\ r.flags = {f} /\ r \in AnyMessage
      BY <1>0, <2>0, <3>1, <3>2, MadeFields
    <3> QED BY <1>0, <2>0, <3>2, <3>3 DEF FromClient
  <2> QED BY <1>3, <2>1, <2>2 DEF Filters
<1>4. CASE r = Message("PINGREQ")
  <2>1. r = Made("PINGREQ", 0, 0, NoName, NoName, {})
    BY <1>4, MadePlain
  <2>2. r.type = "PINGREQ" /\ r.name = NoName /\ r.msgId = 0 /\ r \in AnyMessage
    BY <1>0, <2>1, MadeFields DEF MessageTypes, UpTypes
  <2> QED BY <1>0, <2>2 DEF FromClient, UpTypes, RequestTypes
<1> QED BY <1>1, <1>2, <1>3, <1>4 DEF Requests, RequestTypes

\* A request, or a PUBLISH or DISCONNECT that has no answer.
Asks(c) ==
  \E m \in FromClient :
    /\ m.type \in RequestTypes /\ Sends(c, m)
    /\ m.msgId = IF m.type = "PINGREQ" THEN 0 ELSE requests[c] + 1
    /\ m.type = "PUBLISH" => <<m.id, m.data>> \in names[c]
    /\ active[c] /\ Cardinality(asked[c]) < Window
    /\ asked'[c] = asked[c] \cup {m} /\ requests'[c] = requests[c] + 1
    /\ UNCHANGED <<active[c], owes[c], names[c]>>

LEMMA AskStep ==
  ASSUME Shape, NEW c \in Clients, Ask(c)
  PROVE  Shape' /\ Frame(c) /\ Asks(c)
<1>1. PICK r \in Requests(c) :
        LET m == IF r.type = "PINGREQ" THEN r ELSE [r EXCEPT !.msgId = requests'[c]]
        IN asked' = [asked EXCEPT ![c] = @ \cup {m}] /\ ClientRecv(c, m)
  BY DEF Ask
<1>2. /\ active[c] /\ Cardinality(asked[c]) < Window /\ requests' = [requests EXCEPT ![c] = @ + 1]
      /\ UNCHANGED <<active, owes, names, brokerVars>>
  BY DEF Ask
<1>3. requests'[c] = requests[c] + 1 /\ requests[c] \in Nat /\ requests' \in [Clients -> Nat]
  BY <1>2 DEF Shape, ClientShape
<1>4. PICK m \in FromClient :
        /\ asked' = [asked EXCEPT ![c] = @ \cup {m}] /\ ClientRecv(c, m)
        /\ m.type \in RequestTypes
        /\ m.msgId = IF m.type = "PINGREQ" THEN 0 ELSE requests[c] + 1
        /\ m.type = "PUBLISH" => <<m.id, m.data>> \in names[c]
  <2>0. /\ r \in FromClient /\ r.type \in RequestTypes
        /\ r.type = "PUBLISH" => <<r.id, r.data>> \in names[c]
        /\ r.type = "PINGREQ" => r.msgId = 0
    BY RequestFacts
  <2>1. CASE r.type = "PINGREQ"
    BY <1>1, <2>0, <2>1
  <2>2. CASE r.type # "PINGREQ"
    <3>1. PICK m : m = [r EXCEPT !.msgId = requests'[c]]
      OBVIOUS
    <3>2. asked' = [asked EXCEPT ![c] = @ \cup {m}] /\ ClientRecv(c, m)
      BY <1>1, <2>2, <3>1
    <3>3. /\ m \in FromClient /\ m.msgId = requests[c] + 1 /\ m.type = r.type
          /\ m.id = r.id /\ m.data = r.data
      BY <1>3, <2>0, <3>1, Renumber DEF RequestTypes
    <3> QED BY <2>0, <2>2, <3>2, <3>3
  <2> QED BY <2>1, <2>2
<1>5. ClientShape'
  <2>1. ClientShape /\ m.type \in DOMAIN AnswerOf
    BY <1>4 DEF Shape, AnswerOf, RequestTypes
  <2> QED BY <1>2, <1>3, <1>4, <2>1 DEF ClientShape
<1>6. /\ LaneShape' /\ NodeShape' /\ BrokerShape' /\ InStep' /\ Sends(c, m) /\ Others(c)
      /\ \A d \in Clients \ {c} :
           /\ UNCHANGED <<topics[d], waitedPubAck[d], waitedSubAck[d], connect[d]>>
           /\ UNCHANGED <<stored[d], replies[d], link[d]>>
           /\ d \in known' <=> d \in known
  BY <1>2, <1>4, SendFacts
<1>7. Frame(c)
  BY <1>2, <1>4, <1>6 DEF Frame, Shape, ClientShape, brokerVars
<1>8. Asks(c)
  <2>1. asked'[c] = asked[c] \cup {m}
    BY <1>4 DEF Shape, ClientShape
  <2> QED BY <1>2, <1>3, <1>4, <1>6, <2>1 DEF Asks
<1> QED BY <1>5, <1>6, <1>7, <1>8 DEF Shape

Tells(c) ==
  \E m \in FromClient :
    /\ m.type \in {"PUBLISH", "DISCONNECT"} /\ Sends(c, m)
    /\ m.type = "PUBLISH" => /\ <<m.id, m.data>> \in names[c] /\ m.msgId = 0
                             /\ UNCHANGED active[c]
    /\ m.type = "DISCONNECT" => ~active'[c]
    /\ active[c] /\ requests'[c] \in Nat /\ requests'[c] >= requests[c]
    /\ UNCHANGED <<asked[c], owes[c], names[c]>> /\ asked[c] = {}

LEMMA TellStep ==
  ASSUME Shape, NEW c \in Clients, Tell(c)
  PROVE  Shape' /\ Frame(c) /\ Tells(c)
<1>1. /\ active[c] /\ asked[c] = {} /\ requests' = [requests EXCEPT ![c] = @ + 1]
      /\ UNCHANGED <<asked, owes, names, brokerVars>>
      /\ UNCHANGED active \/ active' = [active EXCEPT ![c] = FALSE]
  BY DEF Tell
<1>2. PICK m \in FromClient :
        /\ ClientRecv(c, m) /\ m.type \in {"PUBLISH", "DISCONNECT"}
        /\ m.type = "PUBLISH" => <<m.id, m.data>> \in names[c] /\ m.msgId = 0 /\ active' = active
        /\ m.type = "DISCONNECT" => active' = [active EXCEPT ![c] = FALSE]
  <2>1. CASE /\ \E p \in names[c] :
                  ClientRecv(c, [Message("PUBLISH") EXCEPT !.id = p[1], !.data = p[2]])
             /\ UNCHANGED active
    <3>1. PICK p \in names[c] :
            ClientRecv(c, [Message("PUBLISH") EXCEPT !.id = p[1], !.data = p[2]])
      BY <2>1
    <3>2. PICK m : m = [Message("PUBLISH") EXCEPT !.id = p[1], !.data = p[2]] /\ ClientRecv(c, m)
      BY <3>1
    <3> QED BY <2>1, <3>1, <3>2, TopicMessage
  <2>2. CASE ClientRecv(c, Message("DISCONNECT")) /\ active' = [active EXCEPT ![c] = FALSE]
    <3> DEFINE m == Made("DISCONNECT", 0, 0, NoName, NoName, {})
    <3>1. ClientRecv(c, m)
      BY <2>2, MadePlain
    <3>2. m.type = "DISCONNECT" /\ m.name = NoName
      BY MadeFields
    <3>3. m \in AnyMessage
      BY MadeFields DEF MessageTypes, UpTypes, AnyName
    <3> HIDE DEF m
    <3>4. m \in FromClient
      BY <3>2, <3>3, NoNameAssumption DEF FromClient, UpTypes
    <3> QED BY <2>2, <3>1, <3>2, <3>4
  <2> QED BY <2>1, <2>2 DEF Tell
<1>3. ClientShape' /\ requests'[c] \in Nat /\ requests'[c] >= requests[c]
  <2>1. active' \in [Clients -> BOOLEAN]
    <3>1. active \in [Clients -> BOOLEAN]
      BY DEF Shape, ClientShape
    <3> QED BY <1>1, <3>1
  <2>2. requests' \in [Clients -> Nat] /\ requests'[c] \in Nat /\ requests'[c] >= requests[c]
    BY <1>1 DEF Shape, ClientShape
  <2> QED BY <1>1, <2>1, <2>2 DEF Shape, ClientShape
<1>4. /\ LaneShape' /\ NodeShape' /\ BrokerShape' /\ InStep' /\ Sends(c, m) /\ Others(c)
      /\ \A d \in Clients \ {c} :
           /\ UNCHANGED <<topics[d], waitedPubAck[d], waitedSubAck[d], connect[d]>>
           /\ UNCHANGED <<stored[d], replies[d], link[d]>>
           /\ d \in known' <=> d \in known
  BY <1>1, <1>2, SendFacts
<1>5. Frame(c)
  BY <1>1, <1>4 DEF Frame, Shape, ClientShape, brokerVars
<1>6. Tells(c)
  <2>1. m.type = "DISCONNECT" => ~active'[c]
    BY <1>2 DEF Shape, ClientShape
  <2> QED BY <1>1, <1>2, <1>3, <1>4, <2>1 DEF Tells
<1> QED BY <1>3, <1>4, <1>5, <1>6 DEF Shape

LEMMA SearchStep ==
  ASSUME Shape, NEW c \in Clients, Search(c)
  PROVE  Shape' /\ Frame(c) /\ Idles(c)
<1>1. /\ ClientRecv(c, Message("SEARCHGW")) /\ requests' = [requests EXCEPT ![c] = @ + 1]
      /\ UNCHANGED <<active, asked, owes, names, brokerVars>>
  BY DEF Search
<1>2. Message("SEARCHGW") \notin FromClient
  BY DEF Message, FromClient, UpTypes
<1>3. /\ Others(c) /\ UNCHANGED <<Bs(c), Br(c), Cs(c), Cr(c), nodeVars, sock, known>>
      /\ LaneShape' /\ InStep'
  <2> DEFINE m == Message("SEARCHGW")
  <2>1. m = Message("SEARCHGW")
    OBVIOUS
  <2> HIDE DEF m
  <2> QED BY <1>1, <1>2, <2>1, ClientRecvFacts
<1>4. ClientShape' /\ NodeShape' /\ BrokerShape' /\ requests'[c] \in Nat /\ requests'[c] >= requests[c]
  <2>1. ClientShape' /\ requests'[c] \in Nat /\ requests'[c] >= requests[c]
    BY <1>1 DEF Shape, ClientShape
  <2>2. NodeShape'
    BY <1>3 DEF Shape, NodeShape, nodeVars
  <2>3. BrokerShape'
    BY <1>1 DEF Shape, BrokerShape, brokerVars
  <2> QED BY <2>1, <2>2, <2>3
<1>5. Frame(c)
  BY <1>1, <1>3 DEF Frame, Shape, ClientShape, nodeVars, brokerVars
<1>6. Idles(c)
  BY <1>1, <1>3, <1>4 DEF Idles, SameNodeAt, SameBroker, nodeVars, brokerVars
<1> QED BY <1>3, <1>4, <1>5, <1>6 DEF Shape

Repeats(c) ==
  /\ \E m \in asked[c] : Sends(c, m)
  /\ SameClient(c) /\ (~setting.repeat => ~Connecting(c))
  /\ retries[c] <= setting.maxRetries

LEMMA RetryStep ==
  ASSUME Shape, NEW c \in Clients, Retry(c)
  PROVE  Shape' /\ Frame(c) /\ Repeats(c)
<1>1. /\ UNCHANGED <<active, asked, owes, names, requests, brokerVars>>
      /\ ~setting.repeat => ~Connecting(c)
      /\ retries[c] <= setting.maxRetries
  BY DEF Retry, MayRepeat, Connecting
<1>2. PICK m \in asked[c] : ClientRecv(c, m)
  BY DEF Retry
<1>3. m \in FromClient
  BY DEF Shape, ClientShape
<1>4. /\ LaneShape' /\ NodeShape' /\ BrokerShape' /\ InStep' /\ Sends(c, m) /\ Others(c)
      /\ \A d \in Clients \ {c} :
           /\ UNCHANGED <<topics[d], waitedPubAck[d], waitedSubAck[d], connect[d]>>
           /\ UNCHANGED <<stored[d], replies[d], link[d]>>
           /\ d \in known' <=> d \in known
  BY <1>1, <1>2, <1>3, SendFacts
<1>5. ClientShape' /\ Frame(c)
  BY <1>1, <1>4 DEF Frame, Shape, ClientShape, brokerVars
<1>6. Repeats(c)
  BY <1>1, <1>4 DEF Repeats, SameClient
<1> QED BY <1>4, <1>5, <1>6 DEF Shape

OwedTypes == {"WILLTOPIC", "WILLMSG", "REGACK", "PUBACK"}

Pays(c) ==
  /\ owes[c] # <<>> /\ Sends(c, Head(owes[c])) /\ owes'[c] = Tail(owes[c])
  /\ Head(owes[c]).type \in OwedTypes
  /\ UNCHANGED <<active[c], asked[c], names[c], requests[c]>>

LEMMA PayStep ==
  ASSUME Shape, NEW c \in Clients, Pay(c)
  PROVE  Shape' /\ Frame(c) /\ Pays(c)
<1> DEFINE S == {m \in FromClient : m.type \in OwedTypes}
           m == Head(owes[c])
<1>1. /\ owes[c] # <<>> /\ ClientRecv(c, m) /\ owes' = [owes EXCEPT ![c] = Tail(@)]
      /\ UNCHANGED <<active, asked, names, requests, brokerVars>>
  BY DEF Pay
<1>2. owes \in [Clients -> Seq(S)] /\ owes[c] \in Seq(S)
  BY DEF Shape, ClientShape, OwedTypes
<1>3. m \in S /\ Tail(owes[c]) \in Seq(S)
  <2> HIDE DEF S
  <2> QED BY <1>1, <1>2, RangeTail
<1>4. /\ LaneShape' /\ NodeShape' /\ BrokerShape' /\ InStep' /\ Sends(c, m) /\ Others(c)
      /\ \A d \in Clients \ {c} :
           /\ UNCHANGED <<topics[d], waitedPubAck[d], waitedSubAck[d], connect[d]>>
           /\ UNCHANGED <<stored[d], replies[d], link[d]>>
           /\ d \in known' <=> d \in known
  <2>1. m \in FromClient
    BY <1>3
  <2> HIDE DEF m
  <2> QED BY <1>1, <2>1, SendFacts
<1>5. /\ owes' \in [Clients -> Seq(S)] /\ owes'[c] = Tail(owes[c])
      /\ \A d \in Clients \ {c} : owes'[d] = owes[d]
  <2> HIDE DEF S
  <2> QED BY <1>1, <1>2, <1>3
<1>6. ClientShape' /\ Frame(c)
  BY <1>1, <1>4, <1>5 DEF Frame, Shape, ClientShape, brokerVars, OwedTypes
<1>7. Pays(c)
  BY <1>1, <1>3, <1>4, <1>5 DEF Pays, Shape, ClientShape
<1> QED BY <1>4, <1>6, <1>7 DEF Shape

\* c gets a message.
Delivers(c, m) ==
  /\ Cs(c) # <<>> /\ m = Head(Cs(c)) /\ m \in ToClient /\ Cs(c)' = Tail(Cs(c))
  /\ UNCHANGED <<Cr(c), Bs(c), Br(c), requests[c]>> /\ SameNodeAt(c) /\ SameBroker(c)
  /\ c \in known' <=> c \in known
  /\ asked'[c] = asked[c] \ Answered(c, m)
  /\ names'[c] = {p \in names[c] : \A q \in Told(c, m) : p[1] # q[1]} \cup Told(c, m)
  /\ owes'[c] = owes[c] \o Owed(c, m)
  /\ active'[c] = IF m.type = "CONNACK" /\ Answered(c, m) # {}
                  THEN m.flags = {"accepted"} ELSE active[c]

OwedMessages == {m \in FromClient : m.type \in OwedTypes}

LEMMA OwedFacts ==
  ASSUME Shape, NEW c \in Clients, NEW m \in ToClient
  PROVE  /\ Owed(c, m) \in Seq(OwedMessages)
         /\ \/ Owed(c, m) = <<>>
            \/ \E x \in OwedMessages : /\ Owed(c, m) = <<x>>
                                       /\ x.type \in WillTypes =>
                                            /\ m.type \in {"WILLTOPICREQ", "WILLMSGREQ"}
                                            /\ \E r \in asked[c] : r.type = "CONNECT" /\ "will" \in r.flags
<1>0. m.msgId \in Nat
  BY DEF ToClient, AnyMessage
<1> DEFINE X(t, i) == Made(t, i, 0, NoName, NoName, {})
<1>1. ASSUME NEW t \in OwedTypes, NEW i \in Nat
      PROVE  X(t, i) \in OwedMessages /\ X(t, i).type = t
  <2>1. X(t, i).type = t /\ X(t, i).name = NoName
    BY MadeFields
  <2>2. X(t, i) \in AnyMessage
    BY MadeFields DEF MessageTypes, UpTypes, AnyName, OwedTypes
  <2> HIDE DEF X
  <2> QED BY <2>1, <2>2, NoNameAssumption DEF FromClient, UpTypes, OwedMessages, OwedTypes
<1>2. /\ Message("WILLTOPIC") = X("WILLTOPIC", 0) /\ Message("WILLMSG") = X("WILLMSG", 0)
      /\ Message("REGACK") = X("REGACK", 0)
      /\ [Message("PUBACK") EXCEPT !.msgId = m.msgId] = X("PUBACK", m.msgId)
  BY MadePlain, MadeNumbered
<1> HIDE DEF X
<1> DEFINE will == \E r \in asked[c] : r.type = "CONNECT" /\ "will" \in r.flags
<1>3. \/ Owed(c, m) = <<X("WILLTOPIC", 0)>> /\ m.type = "WILLTOPICREQ" /\ will
      \/ Owed(c, m) = <<X("WILLMSG", 0)>> /\ m.type = "WILLMSGREQ" /\ will
      \/ Owed(c, m) = <<X("REGACK", 0)>>
      \/ Owed(c, m) = <<X("PUBACK", m.msgId)>>
      \/ Owed(c, m) = <<>>
  BY <1>2 DEF Owed
<1>4. \A x \in OwedMessages : <<x>> \in Seq(OwedMessages)
  OBVIOUS
<1>5. <<>> \in Seq(OwedMessages)
  OBVIOUS
<1>6. /\ X("WILLTOPIC", 0) \in OwedMessages /\ X("WILLTOPIC", 0).type = "WILLTOPIC"
      /\ X("WILLMSG", 0) \in OwedMessages /\ X("WILLMSG", 0).type = "WILLMSG"
      /\ X("REGACK", 0) \in OwedMessages /\ X("REGACK", 0).type = "REGACK"
      /\ X("PUBACK", m.msgId) \in OwedMessages /\ X("PUBACK", m.msgId).type = "PUBACK"
  BY <1>0, <1>1 DEF OwedTypes
<1> QED BY <1>3, <1>4, <1>5, <1>6 DEF WillTypes

\* A client whose CONNECT has a will answers the requests for the will.
LEMMA OwedServes ==
  ASSUME Shape, NEW c \in Clients, NEW m \in ToClient
  PROVE  /\ Count(Asking, Owed(c, m)) =
              IF m.type \in WillAsked /\ \E r \in asked[c] : r.type = "CONNECT" /\ "will" \in r.flags
              THEN 1 ELSE 0
         /\ \A x \in Range(Owed(c, m)) :
              /\ x.type \in WillTypes => x.msgId = 0
              /\ m.type \in WillAsked => x.type \in WillTypes
              /\ x \in Asking => m.type \in WillAsked
<1> DEFINE will == \E r \in asked[c] : r.type = "CONNECT" /\ "will" \in r.flags
<1>1. ASSUME NEW t \in OwedTypes, NEW i \in Nat
      PROVE  \E x \in AnyMessage : /\ x = Made(t, i, 0, NoName, NoName, {})
                                   /\ x.type = t /\ x.msgId = i
  BY MadeFields DEF MessageTypes, UpTypes, AnyName, OwedTypes
<1>2. ASSUME NEW x \in AnyMessage, Owed(c, m) = <<x>>, x \in Asking <=> m.type \in WillAsked /\ will,
             x.type \in WillTypes => x.msgId = 0, m.type \in WillAsked => x.type \in WillTypes
      PROVE  /\ Count(Asking, Owed(c, m)) = IF m.type \in WillAsked /\ will THEN 1 ELSE 0
             /\ \A y \in Range(Owed(c, m)) : /\ y.type \in WillTypes => y.msgId = 0
                                             /\ m.type \in WillAsked => y.type \in WillTypes
                                             /\ y \in Asking => m.type \in WillAsked
  <2>1. Range(<<x>>) = {x} /\ Count(Asking, <<x>>) = IF x \in Asking THEN 1 ELSE 0
    BY OneMessage, CountShort
  <2> QED BY <1>2, <2>1
<1>3. m.msgId \in Nat
  BY DEF ToClient, AnyMessage
<1>4. CASE m.type \in WillAsked /\ will
  <2>1. PICK t \in WillTypes : Owed(c, m) = <<Message(t)>>
    BY <1>4 DEF Owed, WillAsked, WillTypes
  <2>2. PICK x \in AnyMessage : /\ x = Made(t, 0, 0, NoName, NoName, {})
                               /\ x.type = t /\ x.msgId = 0
    BY <1>1 DEF WillTypes, OwedTypes
  <2>3. Owed(c, m) = <<x>> /\ x \in Asking
    BY <2>1, <2>2, MadePlain DEF Asking, WillTypes
  <2> QED BY <1>2, <1>4, <2>2, <2>3
<1>5. CASE m.type \in WillAsked /\ ~will
  <2>1. Owed(c, m) = <<>>
    BY <1>5 DEF Owed, WillAsked
  <2> QED BY <1>5, <2>1, CountShort, NoMessage
<1>6. CASE m.type \notin WillAsked
  <2>1. \/ Owed(c, m) = <<>> \/ Owed(c, m) = <<Message("REGACK")>>
        \/ Owed(c, m) = <<[Message("PUBACK") EXCEPT !.msgId = m.msgId]>>
    BY <1>6 DEF Owed, WillAsked
  <2>2. CASE Owed(c, m) = <<>>
    BY <1>6, <2>2, CountShort, NoMessage
  <2>3. ASSUME NEW t \in {"REGACK", "PUBACK"}, NEW i \in Nat,
               Owed(c, m) = <<Made(t, i, 0, NoName, NoName, {})>>
        PROVE  /\ Count(Asking, Owed(c, m)) = 0
               /\ \A y \in Range(Owed(c, m)) : y.type \notin WillTypes /\ y \notin Asking
    <3>1. PICK x \in AnyMessage : x = Made(t, i, 0, NoName, NoName, {}) /\ x.type = t /\ x.msgId = i
      BY <1>1 DEF OwedTypes
    <3>2. Owed(c, m) = <<x>> /\ x \notin Asking /\ x.type \notin WillTypes
      BY <2>3, <3>1 DEF Asking, WillTypes
    <3> QED BY <3>2, OneMessage, CountShort
  <2>4. CASE Owed(c, m) = <<Message("REGACK")>>
    BY <1>6, <2>3, <2>4, MadePlain
  <2>5. CASE Owed(c, m) = <<[Message("PUBACK") EXCEPT !.msgId = m.msgId]>>
    BY <1>3, <1>6, <2>3, <2>5, MadeNumbered
  <2> QED BY <2>1, <2>2, <2>4, <2>5
<1> QED BY <1>4, <1>5, <1>6

LEMMA ToldFacts ==
  ASSUME Shape, NEW c \in Clients, NEW m \in ToClient
  PROVE  /\ Told(c, m) \subseteq (1 .. IdRange - 1) \X LongNames
         /\ \A p \in Told(c, m) :
              /\ p[1] = m.id
              /\ \/ m.type = "REGISTER" /\ p[2] = m.name /\ ~Renewing(c)
                 \/ \E r \in asked[c] : /\ AnswerOf[r.type] = m.type /\ r.msgId = m.msgId
                                        /\ r.type \in {"REGISTER", "SUBSCRIBE"} /\ p[2] = r.name
                                        /\ r.name \in LongNames /\ m.id # NoTopic
<1>1. /\ m.id \in 0 .. IdRange - 1
      /\ m.type = "REGISTER" => m.name \in LongNames /\ m.id > BaseId
  BY DEF ToClient, AnyMessage
<1>2. SUFFICES ASSUME NEW p \in Told(c, m)
               PROVE  /\ p \in (1 .. IdRange - 1) \X LongNames /\ p[1] = m.id
                      /\ \/ m.type = "REGISTER" /\ p[2] = m.name /\ ~Renewing(c)
                         \/ \E r \in asked[c] : /\ AnswerOf[r.type] = m.type /\ r.msgId = m.msgId
                                                /\ r.type \in {"REGISTER", "SUBSCRIBE"} /\ p[2] = r.name
                                                /\ r.name \in LongNames /\ m.id # NoTopic
  OBVIOUS
<1>3. CASE m.type = "REGISTER"
  <2>1. p = <<m.id, m.name>> /\ ~Renewing(c)
    BY <1>3 DEF Told
  <2>2. m.id \in 1 .. IdRange - 1 /\ m.name \in LongNames
    BY <1>1, <1>3
  <2> QED BY <1>3, <2>1, <2>2
<1>4. CASE m.type # "REGISTER"
  <2>1. PICK r \in Answered(c, m) : /\ r.type \in {"REGISTER", "SUBSCRIBE"} /\ r.name \in LongNames
                                    /\ m.id # NoTopic /\ p = <<m.id, r.name>>
    BY <1>4 DEF Told
  <2>2. m.id \in 1 .. IdRange - 1
    BY <1>1, <2>1 DEF NoTopic
  <2> QED BY <2>1, <2>2 DEF Answered
<1> QED BY <1>3, <1>4

LEMMA DeliverStep ==
  ASSUME Shape, NEW c \in Clients, Deliver(c)
  PROVE  Shape' /\ Frame(c) /\ \E m \in ToClient : Delivers(c, m)
<1>1. /\ Others(c) /\ UNCHANGED <<Cr(c), Bs(c), Br(c), known, nodeVars, sock>>
      /\ Cs(c) # <<>> /\ Cs(c)' = Tail(Cs(c)) /\ LaneShape' /\ InStep'
  BY ClientSendFacts DEF Deliver
<1>2. PICK m : m = Head(Cs(c))
  OBVIOUS
<1>3. m \in ToClient
  BY <1>1, <1>2, RangeTail DEF Shape, LaneShape
<1>4. /\ asked' = [asked EXCEPT ![c] = @ \ Answered(c, m)]
      /\ names' = [names EXCEPT ![c] = {p \in @ : \A q \in Told(c, m) : p[1] # q[1]} \cup Told(c, m)]
      /\ owes' = [owes EXCEPT ![c] = @ \o Owed(c, m)]
      /\ active' = [active EXCEPT ![c] =
           IF m.type = "CONNACK" /\ Answered(c, m) # {} THEN m.flags = {"accepted"} ELSE @]
      /\ UNCHANGED <<requests, brokerVars>>
  BY <1>2 DEF Deliver, Cs
<1>5. ClientShape
  BY DEF Shape
<1>6. owes[c] \in Seq(OwedMessages) /\ owes \in [Clients -> Seq(OwedMessages)]
  BY <1>5 DEF ClientShape, OwedMessages, OwedTypes
<1>7. owes[c] \o Owed(c, m) \in Seq(OwedMessages)
  BY <1>3, <1>6, OwedFacts
<1>8. Told(c, m) \subseteq (1 .. IdRange - 1) \X LongNames
  BY <1>3, ToldFacts
<1>9. ClientShape'
  <2>1. owes' \in [Clients -> Seq(OwedMessages)]
    BY <1>4, <1>6, <1>7
  <2>2. active' \in [Clients -> BOOLEAN]
    <3>1. active \in [Clients -> BOOLEAN]
      BY <1>5 DEF ClientShape
    <3>2. (IF m.type = "CONNACK" /\ Answered(c, m) # {} THEN m.flags = {"accepted"} ELSE active[c]) \in BOOLEAN
      BY <3>1
    <3> QED BY <1>4, <3>1, <3>2
  <2>3. names' \in [Clients -> SUBSET ((1 .. IdRange - 1) \X LongNames)]
    <3> DEFINE S == (1 .. IdRange - 1) \X LongNames
               T == {p \in names[c] : \A q \in Told(c, m) : p[1] # q[1]} \cup Told(c, m)
    <3>1. names \in [Clients -> SUBSET S] /\ T \in SUBSET S
      BY <1>5, <1>8 DEF ClientShape
    <3>2. names' = [names EXCEPT ![c] = T]
      BY <1>4
    <3> HIDE DEF S, T
    <3>3. names' \in [Clients -> SUBSET S]
      BY <3>1, <3>2
    <3> QED BY <3>3 DEF S
  <2>4. asked' \in [Clients -> SUBSET {x \in FromClient : x.type \in DOMAIN AnswerOf}]
    BY <1>4, <1>5 DEF ClientShape
  <2> QED BY <1>4, <1>5, <2>1, <2>2, <2>3, <2>4 DEF ClientShape, OwedMessages, OwedTypes
<1>10. NodeShape' /\ BrokerShape'
  BY <1>1, <1>4 DEF Shape, NodeShape, BrokerShape, nodeVars, brokerVars
<1>11. Frame(c)
  BY <1>1, <1>4, <1>5 DEF Frame, ClientShape, nodeVars, brokerVars
<1>12. Delivers(c, m)
  <2>1. /\ asked'[c] = asked[c] \ Answered(c, m) /\ owes'[c] = owes[c] \o Owed(c, m)
        /\ names'[c] = {p \in names[c] : \A q \in Told(c, m) : p[1] # q[1]} \cup Told(c, m)
        /\ active'[c] = IF m.type = "CONNACK" /\ Answered(c, m) # {}
                        THEN m.flags = {"accepted"} ELSE active[c]
    BY <1>4, <1>5 DEF ClientShape
  <2>2. SameNodeAt(c) /\ SameBroker(c)
    BY <1>1, <1>4 DEF SameNodeAt, SameBroker, nodeVars, brokerVars
  <2> QED BY <1>1, <1>2, <1>3, <1>4, <2>1, <2>2 DEF Delivers
<1> QED BY <1>1, <1>3, <1>9, <1>10, <1>11, <1>12 DEF Shape

Misses(c) ==
  /\ ~setting.reliable /\ Cs(c) # <<>> /\ Cs(c)' = Tail(Cs(c))
  /\ UNCHANGED <<Cr(c), Bs(c), Br(c)>> /\ SameNodeAt(c) /\ SameBroker(c) /\ SameClient(c)
  /\ c \in known' <=> c \in known

LEMMA MissStep ==
  ASSUME Shape, NEW c \in Clients, Miss(c)
  PROVE  Shape' /\ Frame(c) /\ Misses(c)
<1>1. /\ Others(c) /\ UNCHANGED <<Cr(c), Bs(c), Br(c), known, nodeVars, sock>>
      /\ Cs(c) # <<>> /\ Cs(c)' = Tail(Cs(c)) /\ LaneShape' /\ InStep'
      /\ UNCHANGED <<clientVars, brokerVars>>
  BY ClientSendFacts DEF Miss
<1>2. NodeShape' /\ BrokerShape' /\ ClientShape'
  BY <1>1 DEF Shape, NodeShape, BrokerShape, ClientShape, nodeVars, brokerVars, clientVars
<1>3. Frame(c) /\ Misses(c)
  <2>1. ~setting.reliable
    BY DEF Miss
  <2> QED BY <1>1, <2>1 DEF Frame, Misses, SameNodeAt, SameBroker, SameClient, nodeVars, brokerVars, clientVars
<1> QED BY <1>1, <1>2, <1>3 DEF Shape

LEMMA ReplyFacts ==
  ASSUME NEW m \in ToBroker
  PROVE  /\ Reply(m) \in Seq(FromBroker)
         /\ \/ Reply(m) = <<>>
            \/ \E x \in FromBroker : /\ Reply(m) = <<x>>
                                     /\ x.type \in PassTypes => m.type = "CONNECT"
                                     /\ x.type = "PUBACK" => m.type = "PUBLISH" /\ x.msgId = m.msgId
<1>0. m.msgId \in Nat
  BY DEF ToBroker, AnyMessage
<1> DEFINE X(t, i, f) == Made(t, i, 0, NoName, NoName, f)
<1>1. ASSUME NEW t \in {"CONNACK", "PUBACK", "SUBACK", "UNSUBACK", "PINGRESP"}, NEW i \in Nat,
             NEW f \in SUBSET FlagNames
      PROVE  X(t, i, f) \in FromBroker /\ X(t, i, f).type = t /\ X(t, i, f).msgId = i
  <2>1. X(t, i, f).type = t /\ X(t, i, f).name = NoName /\ X(t, i, f).msgId = i
    BY MadeFields
  <2>2. X(t, i, f) \in AnyMessage
    BY MadeFields DEF MessageTypes, UpTypes, AnyName
  <2> HIDE DEF X
  <2> QED BY <2>1, <2>2, NoNameAssumption DEF FromBroker
<1>2. /\ Ack("CONNACK", 0, 0, "accepted") = X("CONNACK", 0, {"accepted"})
      /\ Message("PINGRESP") = X("PINGRESP", 0, {})
      /\ [Message("PUBACK") EXCEPT !.msgId = m.msgId] = X("PUBACK", m.msgId, {})
      /\ [Message("SUBACK") EXCEPT !.msgId = m.msgId] = X("SUBACK", m.msgId, {})
      /\ [Message("UNSUBACK") EXCEPT !.msgId = m.msgId] = X("UNSUBACK", m.msgId, {})
  BY MadePlain, MadeNumbered, MadeAck
<1> HIDE DEF X
<1>3. \/ Reply(m) = <<X("CONNACK", 0, {"accepted"})>> /\ m.type = "CONNECT"
      \/ Reply(m) = <<X("PUBACK", m.msgId, {})>> /\ m.type = "PUBLISH"
      \/ Reply(m) = <<X("SUBACK", m.msgId, {})>>
      \/ Reply(m) = <<X("UNSUBACK", m.msgId, {})>>
      \/ Reply(m) = <<X("PINGRESP", 0, {})>>
      \/ Reply(m) = <<>>
  BY <1>2 DEF Reply
<1>4. {} \in SUBSET FlagNames /\ {"accepted"} \in SUBSET FlagNames
  BY DEF FlagNames
<1>5. \A x \in FromBroker : <<x>> \in Seq(FromBroker)
  OBVIOUS
<1>6. <<>> \in Seq(FromBroker)
  OBVIOUS
<1>7. PICK a, b, s, u, p :
        /\ a = X("CONNACK", 0, {"accepted"}) /\ b = X("PUBACK", m.msgId, {})
        /\ s = X("SUBACK", m.msgId, {}) /\ u = X("UNSUBACK", m.msgId, {})
        /\ p = X("PINGRESP", 0, {})
  OBVIOUS
<1>8. /\ a \in FromBroker /\ a.type = "CONNACK"
      /\ b \in FromBroker /\ b.type = "PUBACK" /\ b.msgId = m.msgId
      /\ s \in FromBroker /\ s.type = "SUBACK"
      /\ u \in FromBroker /\ u.type = "UNSUBACK"
      /\ p \in FromBroker /\ p.type = "PINGRESP"
  BY <1>0, <1>1, <1>4, <1>7
<1> QED BY <1>3, <1>5, <1>6, <1>7, <1>8 DEF PassTypes

\* The broker answers what asks for an answer, and nothing else.
LEMMA ReplyServes ==
  ASSUME NEW m \in ToBroker
  PROVE  /\ Count(Telling, Reply(m)) = IF m \in Asking THEN 1 ELSE 0
         /\ \A x \in Range(Reply(m)) : x \in Telling =>
              /\ Leads(m, x) /\ x.type \notin WillAsked
              /\ x.type = "PUBACK" => m.type = "PUBLISH"
              /\ x.type = "SUBACK" => m.type = "SUBSCRIBE"
<1> DEFINE Good(x) == /\ Leads(m, x) /\ x.type \notin WillAsked
                      /\ x.type = "PUBACK" => m.type = "PUBLISH"
                      /\ x.type = "SUBACK" => m.type = "SUBSCRIBE"
<1>0. /\ m.msgId \in Nat /\ m \in AnyMessage
      /\ m.type \in {"CONNECT", "PUBLISH", "PUBACK", "PINGREQ", "DISCONNECT", "SUBSCRIBE", "UNSUBSCRIBE"}
  BY DEF ToBroker, AnyMessage
<1>1. ASSUME NEW x \in AnyMessage, Reply(m) = <<x>>, x \in Telling <=> m \in Asking,
             x \in Telling => Good(x)
      PROVE  /\ Count(Telling, Reply(m)) = IF m \in Asking THEN 1 ELSE 0
             /\ \A y \in Range(Reply(m)) : y \in Telling => Good(y)
  <2>1. Range(<<x>>) = {x} /\ Count(Telling, <<x>>) = IF x \in Telling THEN 1 ELSE 0
    BY OneMessage, CountShort
  <2>2. \A y \in Range(Reply(m)) : y \in Telling => Good(y)
    <3> HIDE DEF Good
    <3> QED BY <1>1, <2>1
  <2> QED BY <1>1, <2>1, <2>2
<1>2. ASSUME NEW t \in {"CONNACK", "PUBACK", "SUBACK", "UNSUBACK", "PINGRESP"}, NEW i \in Nat,
             NEW f \in SUBSET FlagNames
      PROVE  \E x \in AnyMessage : /\ x = Made(t, i, 0, NoName, NoName, f)
                                   /\ x.type = t /\ x.msgId = i
  BY MadeFields DEF MessageTypes, UpTypes, AnyName
<1>3. {} \in SUBSET FlagNames /\ {"accepted"} \in SUBSET FlagNames
  BY DEF FlagNames
<1>4. CASE m.type = "CONNECT"
  <2>1. PICK x \in AnyMessage : /\ x = Made("CONNACK", 0, 0, NoName, NoName, {"accepted"})
                               /\ x.type = "CONNACK" /\ x.msgId = 0
    BY <1>2, <1>3
  <2>2. Reply(m) = <<x>>
    BY <1>4, <2>1, MadeAck DEF Reply
  <2>3. m \in Asking /\ x \in Telling /\ Leads(m, x)
    BY <1>0, <1>4, <2>1 DEF Asking, Telling, Leads, PassTypes
  <2> QED BY <1>1, <2>1, <2>2, <2>3 DEF WillAsked
<1>5. ASSUME NEW t \in {"PUBACK", "SUBACK", "UNSUBACK"},
             Reply(m) = <<[Message(t) EXCEPT !.msgId = m.msgId]>>,
             m.type \in {"PUBLISH", "SUBSCRIBE", "UNSUBSCRIBE"}, t = AnswerOf[m.type]
      PROVE  /\ Count(Telling, Reply(m)) = IF m \in Asking THEN 1 ELSE 0
             /\ \A x \in Range(Reply(m)) : x \in Telling => Good(x)
  <2>1. PICK x \in AnyMessage : /\ x = Made(t, m.msgId, 0, NoName, NoName, {})
                               /\ x.type = t /\ x.msgId = m.msgId
    BY <1>0, <1>2, <1>3
  <2>2. Reply(m) = <<x>>
    BY <1>5, <2>1, MadeNumbered
  <2>3. x \in Telling <=> m \in Asking
    BY <1>0, <1>5, <2>1 DEF Asking, Telling
  <2>4. Leads(m, x) /\ x.type \notin WillAsked
    BY <1>5, <2>1 DEF Leads, AnswerOf, WillAsked
  <2>5. (x.type = "PUBACK" => m.type = "PUBLISH") /\ (x.type = "SUBACK" => m.type = "SUBSCRIBE")
    BY <1>5, <2>1 DEF AnswerOf
  <2> QED BY <1>1, <2>1, <2>2, <2>3, <2>4, <2>5
<1>6. CASE m.type = "PINGREQ"
  <2>1. PICK x \in AnyMessage : /\ x = Made("PINGRESP", 0, 0, NoName, NoName, {})
                               /\ x.type = "PINGRESP" /\ x.msgId = 0
    BY <1>2, <1>3
  <2>2. Reply(m) = <<x>>
    BY <1>6, <2>1, MadePlain DEF Reply
  <2>3. m \in Asking /\ x \in Telling /\ Leads(m, x)
    BY <1>0, <1>6, <2>1 DEF Asking, Telling, Leads, AnswerOf
  <2> QED BY <1>1, <2>1, <2>2, <2>3 DEF WillAsked
<1>7. CASE m.type \in {"PUBACK", "DISCONNECT"} \/ (m.type = "PUBLISH" /\ m.msgId = 0)
  <2>1. Reply(m) = <<>> /\ m \notin Asking
    BY <1>7 DEF Reply, Asking
  <2> QED BY <2>1, CountShort, NoMessage
<1>8. CASE m.type = "PUBLISH" /\ m.msgId # 0
  <2>1. Reply(m) = <<[Message("PUBACK") EXCEPT !.msgId = m.msgId]>> /\ AnswerOf[m.type] = "PUBACK"
    BY <1>8 DEF Reply, AnswerOf
  <2> QED BY <1>5, <1>8, <2>1
<1>9. CASE m.type = "SUBSCRIBE"
  <2>1. Reply(m) = <<[Message("SUBACK") EXCEPT !.msgId = m.msgId]>> /\ AnswerOf[m.type] = "SUBACK"
    BY <1>9 DEF Reply, AnswerOf
  <2> QED BY <1>5, <1>9, <2>1
<1>10. CASE m.type = "UNSUBSCRIBE"
  <2>1. Reply(m) = <<[Message("UNSUBACK") EXCEPT !.msgId = m.msgId]>> /\ AnswerOf[m.type] = "UNSUBACK"
    BY <1>10 DEF Reply, AnswerOf
  <2> QED BY <1>5, <1>10, <2>1
<1> QED BY <1>0, <1>4, <1>6, <1>7, <1>8, <1>9, <1>10

Forwards(c) ==
  /\ Bs(c) # <<>> /\ Bs(c)' = Tail(Bs(c)) /\ UNCHANGED <<Cr(c), Br(c), Cs(c)>>
  /\ SameNodeAt(c) /\ SameClient(c) /\ (c \in known' <=> c \in known)
  /\ \/ /\ stored'[c] = stored[c] /\ replies'[c] \in {replies[c], <<>>}
        /\ setting.reliable => /\ replies'[c] = replies[c] /\ link'[c] = "closing"
                               /\ link[c] = "closing" \/ Breaks(c, Head(Bs(c)))
     \/ \E m \in ToBroker :
          /\ m = Head(Bs(c)) /\ replies'[c] = replies[c] \o Reply(m)
          /\ link'[c] = "live" /\ (link[c] = "none" <=> m.type = "CONNECT")
          /\ stored'[c] = IF m.type = "PUBLISH" THEN stored[c] \cup {<<m.msgId, m.name, m.data>>}
                          ELSE stored[c]

LEMMA ForwardStep ==
  ASSUME Shape, NEW c \in Clients, Forward(c)
  PROVE  Shape' /\ Frame(c) /\ Forwards(c)
<1>1. PICK fate \in {"sent", "lost"} :
        /\ BrokerSend(c, fate) /\ (setting.reliable => fate = "sent")
        /\ IF fate = "sent" THEN BrokerTakes(c, Head(Bs(c)))
           ELSE /\ link' = IF sock'[c] = "none" THEN [link EXCEPT ![c] = "none"] ELSE link
                /\ replies' = IF sock'[c] = "none" THEN [replies EXCEPT ![c] = <<>>] ELSE replies
                /\ UNCHANGED <<subs, stored>>
        /\ UNCHANGED <<clientVars, published>>
  BY DEF Forward, Bs
<1>2. /\ Others(c) /\ UNCHANGED <<Cr(c), Br(c), Cs(c), known, nodeVars>>
      /\ Bs(c) # <<>> /\ Bs(c)' = Tail(Bs(c)) /\ sock' \in [Clients -> LinkStates]
      /\ LaneShape' /\ InStep'
  BY <1>1, BrokerSendFacts
<1>3. PICK m : m = Head(Bs(c))
  OBVIOUS
<1>4. m \in ToBroker
  BY <1>2, <1>3, RangeTail DEF Shape, LaneShape
<1>5. /\ replies \in [Clients -> Seq(FromBroker)] /\ stored \in [Clients -> SUBSET (Nat \X AnyName \X AnyName)]
      /\ link \in [Clients -> {"none", "live", "closing"}] /\ subs \in [Clients -> SUBSET Names]
  BY DEF Shape, BrokerShape
<1>6. /\ link' \in [Clients -> {"none", "live", "closing"}]
      /\ subs' \in [Clients -> SUBSET Names]
      /\ \A d \in Clients \ {c} :
           replies'[d] = replies[d] /\ stored'[d] = stored[d] /\ link'[d] = link[d]
      /\ replies' \in [Clients -> Seq(FromBroker)]
      /\ stored' \in [Clients -> SUBSET (Nat \X AnyName \X AnyName)]
      /\ \/ /\ stored'[c] = stored[c] /\ replies'[c] \in {replies[c], <<>>}
            /\ setting.reliable => /\ replies'[c] = replies[c] /\ link'[c] = "closing"
                                   /\ link[c] = "closing" \/ Breaks(c, m)
         \/ /\ replies'[c] = replies[c] \o Reply(m)
            /\ link'[c] = "live" /\ (link[c] = "none" <=> m.type = "CONNECT")
            /\ stored'[c] = IF m.type = "PUBLISH" THEN stored[c] \cup {<<m.msgId, m.name, m.data>>}
                            ELSE stored[c]
  <2>1. CASE fate = "lost"
    <3>1. <<>> \in Seq(FromBroker)
      OBVIOUS
    <3> QED BY <1>1, <1>5, <2>1, <3>1
  <2>2. CASE fate = "sent"
    <3>1. CASE link[c] = "closing" \/ Breaks(c, m)
      BY <1>1, <1>3, <1>5, <2>2, <3>1 DEF BrokerTakes
    <3>2. CASE ~(link[c] = "closing" \/ Breaks(c, m))
      <4> DEFINE S == IF m.type = "SUBSCRIBE" THEN subs[c] \cup {m.name}
                      ELSE IF m.type = "UNSUBSCRIBE" THEN subs[c] \ {m.name}
                      ELSE IF m.type = "CONNECT" /\ "clean" \in m.flags THEN {} ELSE subs[c]
                 T == stored[c] \cup {<<m.msgId, m.name, m.data>>}
                 R == replies[c] \o Reply(m)
      <4>1. /\ link' = [link EXCEPT ![c] = "live"] /\ subs' = [subs EXCEPT ![c] = S]
            /\ stored' = IF m.type = "PUBLISH" THEN [stored EXCEPT ![c] = T] ELSE stored
            /\ replies' = [replies EXCEPT ![c] = R]
        BY <1>1, <1>3, <2>2, <3>2 DEF BrokerTakes
      <4>2. S \in SUBSET Names
        BY <1>4, <1>5 DEF ToBroker
      <4>3. T \in SUBSET (Nat \X AnyName \X AnyName)
        BY <1>4, <1>5 DEF ToBroker, AnyMessage
      <4>4. R \in Seq(FromBroker)
        <5>1. Reply(m) \in Seq(FromBroker) /\ replies[c] \in Seq(FromBroker)
          BY <1>4, <1>5, ReplyFacts
        <5> QED BY <5>1
      <4> HIDE DEF S, T, R
      <4>5. /\ link' \in [Clients -> {"none", "live", "closing"}]
            /\ subs' \in [Clients -> SUBSET Names]
            /\ link'[c] = "live" /\ \A d \in Clients \ {c} : link'[d] = link[d]
        BY <1>5, <4>1, <4>2
      <4>6. /\ replies' \in [Clients -> Seq(FromBroker)] /\ replies'[c] = R
            /\ \A d \in Clients \ {c} : replies'[d] = replies[d]
        BY <1>5, <4>1, <4>4
      <4>7. /\ stored' \in [Clients -> SUBSET (Nat \X AnyName \X AnyName)]
            /\ stored'[c] = IF m.type = "PUBLISH" THEN T ELSE stored[c]
            /\ \A d \in Clients \ {c} : stored'[d] = stored[d]
        <5>1. CASE m.type = "PUBLISH"
          BY <1>5, <4>1, <4>3, <5>1
        <5>2. CASE m.type # "PUBLISH"
          BY <1>5, <4>1, <5>2
        <5> QED BY <5>1, <5>2
      <4>8. link[c] = "none" <=> m.type = "CONNECT"
        BY <3>2 DEF Breaks
      <4> QED BY <4>5, <4>6, <4>7, <4>8 DEF R, T
    <3> QED BY <3>1, <3>2
  <2> QED BY <2>1, <2>2
<1>7. NodeShape' /\ ClientShape'
  BY <1>1, <1>2 DEF Shape, NodeShape, ClientShape, nodeVars, clientVars
<1>8. BrokerShape'
  BY <1>1, <1>6 DEF Shape, BrokerShape, clientVars
<1>9. Frame(c)
  BY <1>1, <1>2, <1>6 DEF Frame, nodeVars, clientVars
<1>10. Forwards(c)
  <2>1. SameNodeAt(c) /\ SameClient(c)
    BY <1>1, <1>2 DEF SameNodeAt, SameClient, nodeVars, clientVars
  <2> QED BY <1>2, <1>3, <1>4, <1>6, <2>1 DEF Forwards
<1> QED BY <1>2, <1>7, <1>8, <1>9, <1>10 DEF Shape

Publishes(c) ==
  /\ \E x \in FromBroker : x.type = "PUBLISH" /\ replies'[c] = Append(replies[c], x)
  /\ UNCHANGED <<Cr(c), Bs(c), Br(c), Cs(c), stored[c], link[c]>> /\ link[c] = "live"
  /\ SameNodeAt(c) /\ SameClient(c) /\ (c \in known' <=> c \in known)

LEMMA BrokerPublishStep ==
  ASSUME Shape, NEW c \in Clients, BrokerPublish(c)
  PROVE  Shape' /\ Frame(c) /\ Publishes(c)
<1>0. UNCHANGED <<gatewayVars, clientVars, link, subs, stored>> /\ link[c] = "live"
  BY DEF BrokerPublish
<1>1. published' = [published EXCEPT ![c] = @ + 1] /\ published' \in [Clients -> Nat]
  BY DEF BrokerPublish, Shape, BrokerShape
<1> DEFINE Publish(n, i) == [Message("PUBLISH") EXCEPT !.name = n, !.data = n, !.msgId = i]
<1>2. PICK n \in Names, i \in Nat :
        replies' = [replies EXCEPT ![c] = Append(@, Publish(n, i))]
  <2>1. PICK n \in IF setting.wildcard THEN Names ELSE subs[c], qos \in {0, 1} :
          replies' = [replies EXCEPT ![c] = Append(@,
            [Message("PUBLISH") EXCEPT !.name = n, !.data = n,
                                       !.msgId = IF qos = 0 THEN 0 ELSE published'[c]])]
    BY DEF BrokerPublish
  <2>2. n \in Names
    BY DEF Shape, BrokerShape
  <2>3. PICK i \in Nat : i = IF qos = 0 THEN 0 ELSE published'[c]
    BY <1>1
  <2> QED BY <2>1, <2>2, <2>3
<1>3. PICK x : x = Publish(n, i) /\ replies' = [replies EXCEPT ![c] = Append(@, x)]
  BY <1>2
<1>4. x \in FromBroker /\ x.type = "PUBLISH"
  <2>1. ASSUME NEW y, y = x
        PROVE  y = Made("PUBLISH", i, 0, n, n, {})
    BY <1>3, <2>1 DEF Message, Made
  <2>2. /\ x.type = "PUBLISH" /\ x.name = n /\ x.data = n /\ x \in AnyMessage
    <3>1. n \in AnyName /\ "PUBLISH" \in MessageTypes
      BY DEF AnyName, MessageTypes, UpTypes
    <3> QED BY <2>1, <3>1, MadeFields
  <2> QED BY <2>2, NamesAssumption DEF FromBroker
<1>5. /\ replies' \in [Clients -> Seq(FromBroker)] /\ replies'[c] = Append(replies[c], x)
      /\ \A d \in Clients \ {c} : replies'[d] = replies[d]
  <2>1. replies \in [Clients -> Seq(FromBroker)]
    BY DEF Shape, BrokerShape
  <2>2. Append(replies[c], x) \in Seq(FromBroker)
    BY <1>4, <2>1
  <2> QED BY <1>3, <2>1, <2>2
<1>6. UNCHANGED <<Cr(c), Bs(c), Br(c), Cs(c)>> /\ Others(c) /\ LaneShape' /\ InStep'
  BY <1>0 DEF Others, Cr, Bs, Br, Cs, Shape, LaneShape, InStep, gatewayVars
<1>7. NodeShape' /\ ClientShape' /\ BrokerShape'
  BY <1>0, <1>1, <1>5 DEF Shape, NodeShape, ClientShape, BrokerShape, gatewayVars, nodeVars, clientVars
<1>8. Frame(c)
  BY <1>0, <1>5, <1>6 DEF Frame, gatewayVars, nodeVars, clientVars
<1>9. Publishes(c)
  BY <1>0, <1>4, <1>5, <1>6
     DEF Publishes, SameNodeAt, SameClient, gatewayVars, nodeVars, clientVars
<1> QED BY <1>6, <1>7, <1>8, <1>9 DEF Shape

Receives(c) ==
  /\ replies[c] # <<>> /\ replies'[c] = Tail(replies[c]) /\ Br(c)' = Append(Br(c), Head(replies[c]))
  /\ Head(replies[c]) \in FromBroker
  /\ UNCHANGED <<Cr(c), Bs(c), Cs(c), stored[c], link[c]>>
  /\ SameNodeAt(c) /\ SameClient(c) /\ (c \in known' <=> c \in known)

LEMMA ReceiveStep ==
  ASSUME Shape, NEW c \in Clients, Receive(c)
  PROVE  Shape' /\ Frame(c) /\ Receives(c)
<1>0. /\ UNCHANGED <<clientVars, link, subs, stored, published>> /\ replies[c] # <<>>
      /\ replies' = [replies EXCEPT ![c] = Tail(@)]
  BY DEF Receive
<1>1. replies \in [Clients -> Seq(FromBroker)] /\ replies[c] \in Seq(FromBroker)
  BY DEF Shape, BrokerShape
<1>2. Head(replies[c]) \in FromBroker /\ Tail(replies[c]) \in Seq(FromBroker)
  BY <1>0, <1>1, RangeTail
<1>3. /\ Others(c) /\ UNCHANGED <<Cr(c), Bs(c), Cs(c), known, nodeVars, sock>>
      /\ Br(c)' = Append(Br(c), Head(replies[c])) /\ LaneShape' /\ InStep'
  <2>1. PICK m \in FromBroker : m = Head(replies[c])
    BY <1>2
  <2> QED BY <2>1, BrokerRecvFacts DEF Receive
<1>4. /\ replies' \in [Clients -> Seq(FromBroker)] /\ replies'[c] = Tail(replies[c])
      /\ \A d \in Clients \ {c} : replies'[d] = replies[d]
  BY <1>0, <1>1, <1>2
<1>5. NodeShape' /\ ClientShape' /\ BrokerShape'
  BY <1>0, <1>3, <1>4 DEF Shape, NodeShape, ClientShape, BrokerShape, nodeVars, clientVars
<1>6. Frame(c)
  BY <1>0, <1>3, <1>4 DEF Frame, nodeVars, clientVars
<1>7. Receives(c)
  BY <1>0, <1>2, <1>3, <1>4 DEF Receives, SameNodeAt, SameClient, nodeVars, clientVars
<1> QED BY <1>3, <1>5, <1>6, <1>7 DEF Shape

\* The connection breaks; a broker that closes only changes the socket.
Drops(c) ==
  /\ replies'[c] \in {replies[c], <<>>} /\ UNCHANGED <<Cr(c), Bs(c), Br(c), Cs(c), stored[c]>>
  /\ setting.reliable => link[c] = "closing" /\ link'[c] = "closing"
  /\ SameNodeAt(c) /\ SameClient(c) /\ (c \in known' <=> c \in known)

LEMMA BreakStep ==
  ASSUME Shape, NEW c \in Clients, Close(c) \/ Break(c)
  PROVE  Shape' /\ Frame(c) /\ Drops(c)
<1>1. /\ UNCHANGED <<known, nodeVars, msgs, ques, clientVars, subs, stored, published>>
      /\ replies' = replies \/ replies' = [replies EXCEPT ![c] = <<>>]
      /\ link' = link \/ link' = [link EXCEPT ![c] = "closing"]
      /\ setting.reliable => link[c] = "closing"
      /\ sock' = [sock EXCEPT ![c] = "halfClosed"] \/ sock' = [sock EXCEPT ![c] = "broken"]
  BY DEF Close, Break, PeerClose, Reset, brokerVars
<1>2. /\ replies' \in [Clients -> Seq(FromBroker)] /\ replies'[c] \in {replies[c], <<>>}
      /\ \A d \in Clients \ {c} : replies'[d] = replies[d]
  <2>1. replies \in [Clients -> Seq(FromBroker)] /\ <<>> \in Seq(FromBroker)
    BY DEF Shape, BrokerShape
  <2> QED BY <1>1, <2>1
<1>3. sock' \in [Clients -> LinkStates] /\ link' \in [Clients -> {"none", "live", "closing"}]
      /\ link'[c] \in {link[c], "closing"} /\ \A d \in Clients \ {c} : link'[d] = link[d]
  BY <1>1 DEF Shape, NodeShape, BrokerShape, LinkStates
<1>4. UNCHANGED <<Cr(c), Bs(c), Br(c), Cs(c)>> /\ Others(c) /\ LaneShape' /\ InStep'
  BY <1>1 DEF Others, Cr, Bs, Br, Cs, Shape, LaneShape, InStep
<1>5. NodeShape' /\ ClientShape' /\ BrokerShape'
  BY <1>1, <1>2, <1>3 DEF Shape, NodeShape, ClientShape, BrokerShape, nodeVars, clientVars
<1>6. Frame(c)
  BY <1>1, <1>2, <1>3, <1>4 DEF Frame, nodeVars, clientVars
<1>7. Drops(c)
  BY <1>1, <1>2, <1>3, <1>4 DEF Drops, SameNodeAt, SameClient, nodeVars, clientVars
<1> QED BY <1>4, <1>5, <1>6, <1>7 DEF Shape

LEMMA HandleUpStep ==
  ASSUME Shape, NEW c \in Clients, HandleUp(c), Outside
  PROVE  /\ Shape' /\ Frame(c) /\ SameClient(c) /\ SameBroker(c) /\ (c \in known' <=> c \in known)
         /\ Cr(c) # <<>> /\ Head(Cr(c)) \in Range(Cr(c)) /\ Head(Cr(c)) \in FromClient
         /\ \E up, down : UpMoves(c, Head(Cr(c)), up, down)
<1>1. /\ Cr(c) # <<>> /\ Head(Cr(c)) \in Range(Cr(c)) /\ Head(Cr(c)) \in FromClient
      /\ \E up, down : UpMoves(c, Head(Cr(c)), up, down)
  BY HandleUpMoves
<1>2. /\ LaneShape' /\ InStep' /\ NodeShape' /\ Others(c) /\ known' = known
      /\ \A d \in Clients \ {c} :
           UNCHANGED <<topics[d], waitedPubAck[d], waitedSubAck[d], connect[d]>>
  BY <1>1 DEF UpMoves, TurnUp, NodeStep
<1>3. ClientShape' /\ BrokerShape' /\ SameClient(c) /\ SameBroker(c)
  BY DEF Shape, ClientShape, BrokerShape, SameClient, SameBroker, Outside, clientVars, brokerVars
<1>4. Frame(c)
  BY <1>2 DEF Frame, Outside, clientVars, brokerVars
<1> QED BY <1>1, <1>2, <1>3, <1>4 DEF Shape

LEMMA HandleDownStep ==
  ASSUME Shape, NEW c \in Clients, HandleDown(c), Outside
  PROVE  /\ Shape' /\ Frame(c) /\ SameClient(c) /\ SameBroker(c) /\ (c \in known' <=> c \in known)
         /\ Br(c) # <<>> /\ Head(Br(c)) \in Range(Br(c)) /\ Head(Br(c)) \in FromBroker
         /\ \E down : DownMoves(c, Head(Br(c)), down)
<1>1. /\ Br(c) # <<>> /\ Head(Br(c)) \in Range(Br(c)) /\ Head(Br(c)) \in FromBroker
      /\ \E down : DownMoves(c, Head(Br(c)), down)
  BY HandleDownMoves
<1>2. /\ LaneShape' /\ InStep' /\ NodeShape' /\ Others(c) /\ known' = known
      /\ \A d \in Clients \ {c} :
           UNCHANGED <<topics[d], waitedPubAck[d], waitedSubAck[d], connect[d]>>
  BY <1>1 DEF DownMoves, TurnDown, NodeStep
<1>3. ClientShape' /\ BrokerShape' /\ SameClient(c) /\ SameBroker(c)
  BY DEF Shape, ClientShape, BrokerShape, SameClient, SameBroker, Outside, clientVars, brokerVars
<1>4. Frame(c)
  BY <1>2 DEF Frame, Outside, clientVars, brokerVars
<1> QED BY <1>1, <1>2, <1>3, <1>4 DEF Shape

\* Broadcasts change a queue and nothing else.
LEMMA BroadcastStep ==
  ASSUME Shape, HandleSearch \/ SendBroadcast \/ (\E n \in 1 .. 2 : TimeOut(n)), Outside
  PROVE  Shape' /\ UNCHANGED <<msgs, known, nodeVars, clientVars, brokerVars>>
<1>1. UNCHANGED <<msgs, known, nodeVars, sock, clientVars, brokerVars>>
  BY DEF HandleSearch, SendBroadcast, TimeOut, Outside
<1>2. /\ ques \in [Queues -> Seq(Events)] /\ Broadcast \in Events
      /\ ques["gateway"] \in Seq(Events) /\ ques["clientSend"] \in Seq(Events)
      /\ "gateway" \in Queues /\ "clientSend" \in Queues
  BY EventFacts DEF Shape, InStep, Queues
<1>3. PICK g \in Seq(Events), s \in Seq(Events) :
        /\ ques' = [ques EXCEPT !["gateway"] = g, !["clientSend"] = s]
        /\ \/ g = ques["gateway"]
           \/ ques["gateway"] # <<>> /\ Head(ques["gateway"]) = Broadcast /\ g = Tail(ques["gateway"])
        /\ \/ ques["clientSend"] # <<>> /\ Head(ques["clientSend"]) = Broadcast
              /\ s = Tail(ques["clientSend"])
           \/ \E t \in Seq(Events) : /\ s = ques["clientSend"] \o t
                                     /\ \A i \in 1 .. Len(t) : t[i] = Broadcast
  <2>1. CASE HandleSearch
    <3>1. /\ ques["gateway"] # <<>> /\ Head(ques["gateway"]) = Broadcast
          /\ ques' = [ques EXCEPT !["gateway"] = Tail(ques["gateway"]),
                                  !["clientSend"] = Append(ques["clientSend"], Broadcast)]
      BY <2>1 DEF HandleSearch
    <3>2. Tail(ques["gateway"]) \in Seq(Events) /\ Append(ques["clientSend"], Broadcast) \in Seq(Events)
      BY <1>2, <3>1
    <3>3. /\ Append(ques["clientSend"], Broadcast) = ques["clientSend"] \o <<Broadcast>>
          /\ <<Broadcast>> \in Seq(Events) /\ \A i \in 1 .. Len(<<Broadcast>>) : <<Broadcast>>[i] = Broadcast
      BY <1>2
    <3>4. \E t \in Seq(Events) : /\ Append(ques["clientSend"], Broadcast) = ques["clientSend"] \o t
                                 /\ \A i \in 1 .. Len(t) : t[i] = Broadcast
      BY <3>3
    <3> QED BY <3>1, <3>2, <3>4
  <2>2. CASE SendBroadcast
    <3>1. /\ ques["clientSend"] # <<>> /\ Head(ques["clientSend"]) = Broadcast
          /\ ques' = [ques EXCEPT !["clientSend"] = Tail(ques["clientSend"])]
      BY <2>2 DEF SendBroadcast
    <3>2. Tail(ques["clientSend"]) \in Seq(Events)
      BY <1>2, <3>1
    <3>3. ques' = [ques EXCEPT !["gateway"] = ques["gateway"],
                               !["clientSend"] = Tail(ques["clientSend"])]
      BY <1>2, <3>1
    <3> QED BY <1>2, <3>1, <3>2, <3>3
  <2>3. ASSUME NEW n \in 1 .. 2, TimeOut(n)
        PROVE  \E g \in Seq(Events), s \in Seq(Events) :
                 /\ ques' = [ques EXCEPT !["gateway"] = g, !["clientSend"] = s]
                 /\ g = ques["gateway"]
                 /\ \E t \in Seq(Events) : /\ s = ques["clientSend"] \o t
                                           /\ \A i \in 1 .. Len(t) : t[i] = Broadcast
    <3> DEFINE t == [i \in 1 .. n |-> Broadcast]
    <3>1. t \in Seq(Events) /\ \A i \in 1 .. Len(t) : t[i] = Broadcast
      BY <1>2
    <3>2. ques' = [ques EXCEPT !["clientSend"] = ques["clientSend"] \o t]
      BY <2>3 DEF TimeOut
    <3> HIDE DEF t
    <3>3. PICK s : s = ques["clientSend"] \o t
      OBVIOUS
    <3>4. s \in Seq(Events)
      BY <1>2, <3>1, <3>3
    <3>5. ques' = [ques EXCEPT !["clientSend"] = s]
      BY <3>2, <3>3
    <3>6. ques' = [ques EXCEPT !["gateway"] = ques["gateway"], !["clientSend"] = s]
      BY <1>2, <3>5
    <3> QED BY <1>2, <3>1, <3>3, <3>4, <3>6
  <2> QED BY <2>1, <2>2, <2>3
<1>4. /\ ques' \in [Queues -> Seq(Events)] /\ ques'["gateway"] = g /\ ques'["clientSend"] = s
      /\ ques'["brokerSend"] = ques["brokerSend"]
  BY <1>2, <1>3 DEF Queues
<1>5. InStep'
  <2>1. \A q \in Queues :
          \/ ques'[q] = ques[q]
          \/ ques[q] # <<>> /\ Head(ques[q]) = Broadcast /\ ques'[q] = Tail(ques[q])
          \/ \E t \in Seq(Events) : /\ ques'[q] = ques[q] \o t
                                    /\ \A i \in 1 .. Len(t) : t[i] = Broadcast
    BY <1>3, <1>4 DEF Queues
  <2> QED BY <1>1, <1>4, <2>1, BroadcastFacts
<1>6. LaneShape' /\ NodeShape' /\ ClientShape' /\ BrokerShape'
  BY <1>1 DEF Shape, LaneShape, NodeShape, ClientShape, BrokerShape, Cr, Bs, Br, Cs,
              nodeVars, clientVars, brokerVars
<1> QED BY <1>1, <1>5, <1>6 DEF Shape
------------------------------------------------------------------------------
(* Every step is one of these, of one client, or leaves every client alone. *)
Effect(c) ==
  \/ Connects(c) \/ Asks(c) \/ Tells(c) \/ Idles(c) \/ Repeats(c) \/ Pays(c)
  \/ (\E m \in ToClient : Delivers(c, m)) \/ Misses(c)
  \/ Forwards(c) \/ Publishes(c) \/ Receives(c) \/ Drops(c)
  \/ /\ SameClient(c) /\ SameBroker(c) /\ (c \in known' <=> c \in known)
     /\ \/ /\ Cr(c) # <<>> /\ Head(Cr(c)) \in Range(Cr(c)) /\ Head(Cr(c)) \in FromClient
           /\ \E up, down : UpMoves(c, Head(Cr(c)), up, down)
        \/ /\ Br(c) # <<>> /\ Head(Br(c)) \in Range(Br(c)) /\ Head(Br(c)) \in FromBroker
           /\ \E down : DownMoves(c, Head(Br(c)), down)

LEMMA NextEffects ==
  ASSUME Shape, [Next]_vars
  PROVE  /\ Shape'
         /\ \/ \E c \in Clients : Frame(c) /\ Effect(c)
            \/ UNCHANGED <<msgs, known, nodeVars, clientVars, brokerVars>>
<1>1. ASSUME NEW c \in Clients,
             \/ FirstConnect(c) \/ Reconnect(c) \/ Ask(c) \/ Tell(c) \/ Search(c) \/ Retry(c) \/ Pay(c)
             \/ Deliver(c) \/ Miss(c) \/ Forward(c) \/ BrokerPublish(c) \/ Receive(c)
             \/ Close(c) \/ Break(c)
      PROVE  Shape' /\ Frame(c) /\ Effect(c)
  BY <1>1, ConnectStep, AskStep, TellStep, SearchStep, RetryStep, PayStep, DeliverStep, MissStep,
     ForwardStep, BrokerPublishStep, ReceiveStep, BreakStep DEF Effect
<1>2. ASSUME NEW c \in Clients, HandleUp(c) \/ HandleDown(c), Outside
      PROVE  Shape' /\ Frame(c) /\ Effect(c)
  BY <1>2, HandleUpStep, HandleDownStep DEF Effect
<1>3. CASE (HandleSearch \/ SendBroadcast \/ \E n \in 1 .. 2 : TimeOut(n)) /\ Outside
  BY <1>3, BroadcastStep
<1>4. CASE UNCHANGED vars
  <2>1. UNCHANGED <<gatewayVars, clientVars, brokerVars>>
    BY <1>4 DEF vars
  <2>2. UNCHANGED <<msgs, known, nodeVars, sock, ques>>
    BY <2>1 DEF gatewayVars
  <2> QED BY <2>1, <2>2 DEF Shape, LaneShape, NodeShape, ClientShape, BrokerShape, InStep, Cr, Bs, Br, Cs,
                            nodeVars, clientVars, brokerVars
<1> QED BY <1>1, <1>2, <1>3, <1>4 DEF Next, Control
------------------------------------------------------------------------------
(* The clients a step leaves alone.                                        *)
SameAt(d) ==
  /\ UNCHANGED <<Cr(d), Bs(d), Br(d), Cs(d)>>
  /\ SameNodeAt(d) /\ SameBroker(d) /\ SameClient(d)
  /\ (d \in known' <=> d \in known) /\ setting' = setting

LEMMA FrameSame ==
  ASSUME NEW c \in Clients, Frame(c), NEW d \in Clients, d # c
  PROVE  SameAt(d)
BY DEF Frame, Others, SameAt, SameNodeAt, SameBroker, SameClient

LEMMA StillSame ==
  ASSUME UNCHANGED <<msgs, known, nodeVars, clientVars, brokerVars>>, NEW d \in Clients
  PROVE  SameAt(d)
BY DEF SameAt, SameNodeAt, SameBroker, SameClient, Cr, Bs, Br, Cs, nodeVars, clientVars, brokerVars

LEMMA Kept ==
  ASSUME NEW d \in Clients, SameAt(d)
  PROVE  /\ Stored(d) => Stored(d)'
         /\ Owned(d) => Owned(d)'
         /\ OnePass(d) => OnePass(d)'
         /\ Naming(d) => Naming(d)'
<1>1. Stored(d) => Stored(d)'
  BY DEF SameAt, SameBroker, Stored, HasStored
<1>2. Owned(d) => Owned(d)'
  BY DEF SameAt, SameNodeAt, SameClient, Owned, OwnedNow, OwnedNext
<1>3. OnePass(d) => OnePass(d)'
  <2>1. \A p \in Places : At(d, p)' = At(d, p)
    BY DEF SameAt, SameClient, SameBroker, At, Places, Cr, Bs, Br, Cs
  <2>2. asked'[d] = asked[d] /\ setting' = setting /\ Cr(d)' = Cr(d)
    BY DEF SameAt, SameClient
  <2>3. Connecting(d)' <=> Connecting(d)
    BY <2>2 DEF Connecting
  <2> QED BY <2>1, <2>2, <2>3 DEF OnePass
<1>4. Naming(d) => Naming(d)'
  <2>1. /\ Steady' = Steady /\ Renewing(d)' = Renewing(d)
        /\ \A n, i : Stands(d, n, i)' = Stands(d, n, i)
    BY DEF SameAt, SameClient, SameNodeAt, Steady, Renewing, Stands
  <2>2. /\ UNCHANGED <<Cr(d), Bs(d), Cs(d), topics[d], waitedSubAck[d], stored[d]>>
        /\ UNCHANGED <<asked[d], names[d], requests[d]>> /\ setting' = setting
    BY DEF SameAt, SameBroker, SameClient, SameNodeAt
  <2>3. \A m : Current(d, m)' = Current(d, m)
    BY <2>1, <2>2 DEF Current
  <2>4. Announced(d) => Announced(d)'
    BY <2>1, <2>2, <2>3 DEF Announced
  <2>5. RenewsLast(d) => RenewsLast(d)'
    BY <2>1, <2>2 DEF RenewsLast
  <2>6. NamesStand(d) /\ AnswersStand(d) => NamesStand(d)' /\ AnswersStand(d)'
    BY <2>1, <2>2 DEF NamesStand, AnswersStand
  <2>7. RightNames(d) /\ Numbered(d) => RightNames(d)' /\ Numbered(d)'
    BY <2>1, <2>2 DEF RightNames, Numbered
  <2> QED BY <2>4, <2>5, <2>6, <2>7 DEF Naming
<1> QED BY <1>1, <1>2, <1>3, <1>4
------------------------------------------------------------------------------
(* The queues after a step.                                                *)
LEMMA LaneTypes ==
  ASSUME Shape, NEW c \in Clients
  PROVE  /\ Cr(c) \in Seq(FromClient) /\ Bs(c) \in Seq(ToBroker)
         /\ Br(c) \in Seq(FromBroker) /\ Cs(c) \in Seq(ToClient)
         /\ replies[c] \in Seq(FromBroker) /\ owes[c] \in Seq(OwedMessages)
         /\ OwedMessages \subseteq FromClient
BY DEF Shape, LaneShape, BrokerShape, ClientShape, OwedMessages, OwedTypes

LEMMA StoredStep ==
  ASSUME Shape, NEW c \in Clients, Stored(c), Effect(c)
  PROVE  Stored(c)'
<1>1. CASE UNCHANGED <<Br(c), Cs(c)>> /\ SameBroker(c)
  BY <1>1 DEF Stored, HasStored, SameBroker
<1>2. ASSUME UNCHANGED Br(c), SameBroker(c), Cs(c) # <<>>, Cs(c)' = Tail(Cs(c))
      PROVE  Stored(c)'
  <2>1. Range(Cs(c)') \subseteq Range(Cs(c))
    BY <1>2, LaneTypes, RangeTail
  <2> QED BY <1>2, <2>1 DEF Stored, HasStored, SameBroker
<1>3. CASE Forwards(c)
  <2>1. CASE stored'[c] = stored[c] /\ replies'[c] \in {replies[c], <<>>}
    <3>1. Range(replies'[c]) \subseteq Range(replies[c])
      BY <2>1, NoMessage
    <3> QED BY <1>3, <2>1, <3>1 DEF Forwards, Stored, HasStored
  <2>2. ASSUME NEW m \in ToBroker, replies'[c] = replies[c] \o Reply(m),
               stored'[c] = IF m.type = "PUBLISH" THEN stored[c] \cup {<<m.msgId, m.name, m.data>>}
                            ELSE stored[c]
        PROVE  Stored(c)'
    <3>1. Range(replies'[c]) = Range(replies[c]) \cup Range(Reply(m))
      BY <2>2, LaneTypes, ReplyFacts, RangeConcat
    <3>2. \A i : HasStored(c, i) => HasStored(c, i)'
      BY <2>2 DEF HasStored
    <3>3. \A x \in Range(Reply(m)) : x.type = "PUBACK" => m.type = "PUBLISH" /\ x.msgId = m.msgId
      BY ReplyFacts, OneMessage, NoMessage
    <3>4. m.type = "PUBLISH" => HasStored(c, m.msgId)'
      <4>1. PICK e : e = <<m.msgId, m.name, m.data>>
        OBVIOUS
      <4>2. m.type = "PUBLISH" => e \in stored'[c]
        BY <2>2, <4>1
      <4>3. e[1] = m.msgId
        BY <4>1
      <4> QED BY <4>2, <4>3 DEF HasStored
    <3> QED BY <1>3, <3>1, <3>2, <3>3, <3>4 DEF Forwards, Stored
  <2> QED BY <1>3, <2>1, <2>2 DEF Forwards
<1>4. CASE Publishes(c)
  <2>1. PICK x \in FromBroker : x.type = "PUBLISH" /\ replies'[c] = Append(replies[c], x)
    BY <1>4 DEF Publishes
  <2>2. Range(replies'[c]) = Range(replies[c]) \cup {x}
    BY <2>1, LaneTypes, RangeAppend
  <2> QED BY <1>4, <2>1, <2>2 DEF Publishes, Stored, HasStored
<1>5. CASE Receives(c)
  <2>1. /\ Range(replies'[c]) \subseteq Range(replies[c]) /\ Head(replies[c]) \in Range(replies[c])
    BY <1>5, LaneTypes, RangeTail DEF Receives
  <2>2. Range(Br(c)') = Range(Br(c)) \cup {Head(replies[c])}
    BY <1>5, LaneTypes, RangeAppend DEF Receives
  <2> QED BY <1>5, <2>1, <2>2 DEF Receives, Stored, HasStored
<1>6. CASE Drops(c)
  <2>1. Range(replies'[c]) \subseteq Range(replies[c])
    BY <1>6, NoMessage DEF Drops
  <2> QED BY <1>6, <2>1 DEF Drops, Stored, HasStored
<1>7. ASSUME SameBroker(c), NEW up, NEW down, UpMoves(c, Head(Cr(c)), up, down)
      PROVE  Stored(c)'
  <2>1. Range(Cs(c)') = Range(Cs(c)) \cup Range(down) /\ UNCHANGED Br(c)
    BY <1>7, LaneTypes, RangeConcat DEF UpMoves, TurnUp
  <2> QED BY <1>7, <2>1 DEF UpMoves, AcceptsNone, Stored, HasStored, SameBroker
<1>8. ASSUME SameBroker(c), Br(c) # <<>>, Head(Br(c)) \in Range(Br(c)),
             NEW down, DownMoves(c, Head(Br(c)), down)
      PROVE  Stored(c)'
  <2>1. Range(Cs(c)') = Range(Cs(c)) \cup Range(down)
    BY <1>8, LaneTypes, RangeConcat DEF DownMoves, TurnDown
  <2>2. Range(Br(c)') \subseteq Range(Br(c))
    BY <1>8, LaneTypes, RangeTail DEF DownMoves, TurnDown
  <2> QED BY <1>8, <2>1, <2>2 DEF DownMoves, AcceptsOwn, Stored, HasStored, SameBroker
<1>9. CASE Connects(c) \/ Asks(c) \/ Tells(c) \/ Idles(c) \/ Repeats(c) \/ Pays(c)
  BY <1>1, <1>9 DEF Connects, Asks, Tells, Idles, Repeats, Pays, Sends
<1>10. CASE (\E m \in ToClient : Delivers(c, m)) \/ Misses(c)
  BY <1>2, <1>10 DEF Delivers, Misses
<1> QED BY <1>3, <1>4, <1>5, <1>6, <1>7, <1>8, <1>9, <1>10 DEF Effect
------------------------------------------------------------------------------
(* The CONNECT object.                                                     *)
LEMMA OwnedAppend ==
  ASSUME NEW S, NEW s \in Seq(S), NEW x \in S, NEW own
  PROVE  /\ \A n \in 1 .. Len(s) + 1 : OwnedAt(s, n, own) => OwnedAt(Append(s, x), n, own)
         /\ x.type = "CONNECT" /\ "will" \in x.flags => OwnedAt(Append(s, x), Len(s) + 2, own)
         /\ x.type # "CONNECT" /\ OwnedAt(s, Len(s) + 1, own) => OwnedAt(Append(s, x), Len(s) + 2, own)
<1>1. /\ Len(s) \in Nat /\ \A i \in 1 .. Len(s) : Append(s, x)[i] = s[i]
      /\ Append(s, x)[Len(s) + 1] = x
  OBVIOUS
<1>2. ASSUME NEW n \in 1 .. Len(s) + 1, OwnedAt(s, n, own)
      PROVE  OwnedAt(Append(s, x), n, own)
  BY <1>1, <1>2 DEF OwnedAt
<1>3. ASSUME x.type = "CONNECT", "will" \in x.flags
      PROVE  OwnedAt(Append(s, x), Len(s) + 2, own)
  <2>1. Len(s) + 1 \in 0 .. Len(s) + 2 - 1 /\ Len(s) + 1 # 0
    BY <1>1
  <2> QED BY <1>1, <1>3, <2>1 DEF OwnedAt
<1>4. ASSUME x.type # "CONNECT", OwnedAt(s, Len(s) + 1, own)
      PROVE  OwnedAt(Append(s, x), Len(s) + 2, own)
  <2>1. PICK k \in 0 .. Len(s) : /\ k = 0 => own
                                 /\ k # 0 => s[k].type = "CONNECT" /\ "will" \in s[k].flags
                                 /\ \A j \in k + 1 .. Len(s) : s[j].type # "CONNECT"
    BY <1>1, <1>4 DEF OwnedAt
  <2>2. \A j \in k + 1 .. Len(s) + 1 : Append(s, x)[j].type # "CONNECT"
    BY <1>1, <1>4, <2>1
  <2>3. k \in 0 .. (Len(s) + 2) - 1 /\ (Len(s) + 2) - 1 = Len(s) + 1
    BY <1>1
  <2>4. k # 0 => Append(s, x)[k] = s[k]
    BY <1>1, <2>1
  <2> QED BY <2>1, <2>2, <2>3, <2>4 DEF OwnedAt
<1> QED BY <1>2, <1>3, <1>4

LEMMA OwnedTail ==
  ASSUME NEW S, NEW s \in Seq(S), s # <<>>, NEW own, NEW next,
         NEW n \in 2 .. Len(s) + 1, OwnedAt(s, n, own),
         Head(s).type = "CONNECT" /\ "will" \in Head(s).flags => next,
         Head(s).type # "CONNECT" /\ own => next
  PROVE  OwnedAt(Tail(s), n - 1, next)
<1>1. /\ Len(s) \in Nat /\ Len(s) >= 1 /\ Head(s) = s[1]
      /\ \A i \in 1 .. Len(s) - 1 : Tail(s)[i] = s[i + 1]
  BY RangeTail
<1>2. PICK k \in 0 .. n - 1 : /\ k = 0 => own
                              /\ k # 0 => s[k].type = "CONNECT" /\ "will" \in s[k].flags
                              /\ \A j \in k + 1 .. n - 1 : s[j].type # "CONNECT"
  BY DEF OwnedAt
<1>3. CASE k \in {0, 1}
  <2>1. next
    BY <1>1, <1>2, <1>3
  <2>2. \A j \in 1 .. (n - 1) - 1 : Tail(s)[j].type # "CONNECT"
    <3> SUFFICES ASSUME NEW j \in 1 .. (n - 1) - 1
                 PROVE  Tail(s)[j].type # "CONNECT"
      OBVIOUS
    <3>1. Tail(s)[j] = s[j + 1] /\ j + 1 \in k + 1 .. n - 1
      BY <1>1, <1>3
    <3> QED BY <1>2, <3>1
  <2>3. 0 \in 0 .. (n - 1) - 1
    OBVIOUS
  <2> QED BY <2>1, <2>2, <2>3 DEF OwnedAt
<1>4. CASE k \notin {0, 1}
  <2>1. k - 1 \in 0 .. (n - 1) - 1 /\ k - 1 # 0 /\ Tail(s)[k - 1] = s[k]
    BY <1>1, <1>2, <1>4
  <2>2. \A j \in (k - 1) + 1 .. (n - 1) - 1 : Tail(s)[j].type # "CONNECT"
    <3> SUFFICES ASSUME NEW j \in (k - 1) + 1 .. (n - 1) - 1
                 PROVE  Tail(s)[j].type # "CONNECT"
      OBVIOUS
    <3>1. Tail(s)[j] = s[j + 1] /\ j + 1 \in k + 1 .. n - 1
      BY <1>1, <1>2, <1>4
    <3> QED BY <1>2, <3>1
  <2> QED BY <1>2, <1>4, <2>1, <2>2 DEF OwnedAt
<1> QED BY <1>3, <1>4

\* What c sends, in its place.
LEMMA OwnedSend ==
  ASSUME Shape, NEW c \in Clients, Owned(c), NEW m, Sends(c, m),
         m.type \in WillTypes => OwnedNext(c)
  PROVE  /\ \A n \in 1 .. Len(Cr(c)') : Cr(c)'[n].type \in WillTypes => OwnedAt(Cr(c)', n, OwnedNow(c)')
         /\ c \notin known' => Cr(c)' = <<>> /\ connect'[c].object = "null"
         /\ m.type = "CONNECT" /\ "will" \in m.flags => OwnedNext(c)'
         /\ m.type # "CONNECT" /\ OwnedNext(c) => OwnedNext(c)'
<1>1. OwnedNow(c)' = OwnedNow(c) /\ connect'[c] = connect[c] /\ m \in FromClient
  BY DEF Sends, SameNodeAt, OwnedNow
<1>2. Cr(c) \in Seq(FromClient) /\ Len(Cr(c)) \in Nat
  BY LaneTypes
<1>3. CASE c \notin known /\ c \notin known' /\ Cr(c)' = Cr(c)
  <2>1. Cr(c) = <<>> /\ connect[c].object = "null"
    BY <1>3 DEF Owned
  <2>2. Cr(c)' = <<>> /\ Len(Cr(c)') = 0 /\ OwnedNow(c)'
    BY <1>1, <1>3, <2>1 DEF OwnedNow
  <2>3. OwnedNext(c)'
    BY <2>2 DEF OwnedNext, OwnedAt
  <2> QED BY <1>1, <1>3, <2>1, <2>2, <2>3
<1>4. CASE c \in known' /\ Cr(c)' = Append(Cr(c), m)
  <2>1. /\ \A n \in 1 .. Len(Cr(c)) + 1 :
             OwnedAt(Cr(c), n, OwnedNow(c)) => OwnedAt(Append(Cr(c), m), n, OwnedNow(c))
        /\ m.type = "CONNECT" /\ "will" \in m.flags => OwnedAt(Append(Cr(c), m), Len(Cr(c)) + 2, OwnedNow(c))
        /\ m.type # "CONNECT" /\ OwnedAt(Cr(c), Len(Cr(c)) + 1, OwnedNow(c))
           => OwnedAt(Append(Cr(c), m), Len(Cr(c)) + 2, OwnedNow(c))
    BY <1>1, <1>2, OwnedAppend
  <2>2. /\ Len(Append(Cr(c), m)) = Len(Cr(c)) + 1 /\ Append(Cr(c), m)[Len(Cr(c)) + 1] = m
        /\ \A n \in 1 .. Len(Cr(c)) : Append(Cr(c), m)[n] = Cr(c)[n]
    BY <1>1, <1>2
  <2>3. ASSUME NEW n \in 1 .. Len(Cr(c)) + 1, Append(Cr(c), m)[n].type \in WillTypes
        PROVE  OwnedAt(Append(Cr(c), m), n, OwnedNow(c))
    <3>1. CASE n = Len(Cr(c)) + 1
      BY <1>2, <2>1, <2>2, <2>3, <3>1 DEF OwnedNext
    <3>2. CASE n \in 1 .. Len(Cr(c))
      BY <1>2, <2>1, <2>2, <2>3, <3>2 DEF Owned
    <3> QED BY <1>2, <3>1, <3>2
  <2>4. OwnedNext(c)' = OwnedAt(Append(Cr(c), m), Len(Cr(c)) + 2, OwnedNow(c))
    <3>1. OwnedNext(c)' = OwnedAt(Append(Cr(c), m), (Len(Cr(c)) + 1) + 1, OwnedNow(c))
      BY <1>1, <1>4, <2>2 DEF OwnedNext
    <3>2. (Len(Cr(c)) + 1) + 1 = Len(Cr(c)) + 2
      BY <1>2
    <3> QED BY <3>1, <3>2
  <2> QED BY <1>1, <1>4, <2>1, <2>2, <2>3, <2>4 DEF OwnedNext
<1> QED BY <1>3, <1>4 DEF Sends

\* Who does not touch the messages of a client or its CONNECT object.
LEMMA OwnedSame ==
  ASSUME NEW c \in Clients, Owned(c), UNCHANGED <<Cr(c), connect[c], asked[c], owes[c]>>,
         active'[c] = active[c] \/ asked[c] = {}, c \in known' <=> c \in known
  PROVE  Owned(c)'
<1>1. OwnedNow(c)' = OwnedNow(c) /\ OwnedNext(c)' = OwnedNext(c)
  BY DEF OwnedNow, OwnedNext
<1> QED BY <1>1 DEF Owned

LEMMA OwnedDeliver ==
  ASSUME Shape, NEW c \in Clients, Owned(c), NEW m \in ToClient, Delivers(c, m)
  PROVE  Owned(c)'
<1>1. /\ OwnedNow(c)' = OwnedNow(c) /\ OwnedNext(c)' = OwnedNext(c)
      /\ Cr(c)' = Cr(c) /\ connect'[c] = connect[c] /\ (c \in known' <=> c \in known)
      /\ asked'[c] = asked[c] \ Answered(c, m)
      /\ owes'[c] = owes[c] \o Owed(c, m)
      /\ Answered(c, m) = {} => active'[c] = active[c]
  BY DEF Delivers, SameNodeAt, OwnedNow, OwnedNext
<1>2. /\ Owed(c, m) \in Seq(OwedMessages) /\ owes[c] \in Seq(OwedMessages)
      /\ \A x \in Range(Owed(c, m)) :
           x.type \in WillTypes => \E r \in asked[c] : r.type = "CONNECT" /\ "will" \in r.flags
  BY OwedFacts, LaneTypes, OneMessage, NoMessage
<1>3. Range(owes'[c]) = Range(owes[c]) \cup Range(Owed(c, m))
  BY <1>1, <1>2, RangeConcat
<1>4. (\E x \in Range(owes'[c]) : x.type \in WillTypes) => OwnedNext(c)
  BY <1>2, <1>3 DEF Owned
<1>5. ASSUME NEW r \in asked'[c], r.type = "CONNECT"
      PROVE  /\ asked'[c] = {r} /\ ~active'[c]
             /\ "will" \in r.flags => OwnedNext(c)
             /\ "will" \notin r.flags => \A x \in Range(owes'[c]) : x.type \notin WillTypes
  <2>1. r \in asked[c] /\ r \notin Answered(c, m)
    BY <1>1, <1>5
  <2>2. /\ asked[c] = {r} /\ ~active[c]
        /\ "will" \in r.flags => OwnedNext(c)
        /\ "will" \notin r.flags => \A x \in Range(owes[c]) : x.type \notin WillTypes
    BY <1>5, <2>1 DEF Owned
  <2>3. Answered(c, m) = {}
    BY <2>1, <2>2 DEF Answered
  <2> QED BY <1>1, <1>2, <1>3, <2>2, <2>3
<1> QED BY <1>1, <1>4, <1>5 DEF Owned

LEMMA OwnedHandle ==
  ASSUME Shape, NEW c \in Clients, Owned(c), Cr(c) # <<>>, NEW up, NEW down,
         UpMoves(c, Head(Cr(c)), up, down), SameClient(c), c \in known' <=> c \in known
  PROVE  Owned(c)'
<1>1. /\ Cr(c) \in Seq(FromClient) /\ Cr(c)' = Tail(Cr(c))
      /\ Len(Cr(c)) \in Nat /\ Len(Cr(c)) >= 1 /\ Len(Tail(Cr(c))) = Len(Cr(c)) - 1
      /\ \A i \in 1 .. Len(Cr(c)) - 1 : Tail(Cr(c))[i] = Cr(c)[i + 1]
  BY LaneTypes, RangeTail DEF UpMoves, TurnUp
<1>2. /\ Head(Cr(c)).type = "CONNECT" /\ "will" \in Head(Cr(c)).flags => OwnedNow(c)'
      /\ Head(Cr(c)).type # "CONNECT" /\ OwnedNow(c) => OwnedNow(c)'
  BY DEF UpMoves, Owns, OwnedNow
<1>3. ASSUME NEW n \in 2 .. Len(Cr(c)) + 1, OwnedAt(Cr(c), n, OwnedNow(c))
      PROVE  OwnedAt(Cr(c)', n - 1, OwnedNow(c)')
  <2>1. OwnedAt(Tail(Cr(c)), n - 1, OwnedNow(c)')
    BY <1>1, <1>2, <1>3, OwnedTail
  <2> QED BY <1>1, <2>1
<1>4. ASSUME NEW n \in 1 .. Len(Cr(c)'), Cr(c)'[n].type \in WillTypes
      PROVE  OwnedAt(Cr(c)', n, OwnedNow(c)')
  <2>1. n + 1 \in 2 .. Len(Cr(c)) + 1 /\ n + 1 \in 1 .. Len(Cr(c)) /\ Cr(c)[n + 1].type \in WillTypes
    BY <1>1, <1>4
  <2>2. OwnedAt(Cr(c)', (n + 1) - 1, OwnedNow(c)')
    BY <1>3, <2>1 DEF Owned
  <2>3. (n + 1) - 1 = n
    BY <1>1
  <2> QED BY <2>2, <2>3
<1>5. OwnedNext(c) => OwnedNext(c)'
  <2>1. Len(Cr(c)) + 1 \in 2 .. Len(Cr(c)) + 1 /\ (Len(Cr(c)) + 1) - 1 = Len(Cr(c)') + 1
    BY <1>1
  <2>2. ASSUME OwnedNext(c)
        PROVE  OwnedAt(Cr(c)', (Len(Cr(c)) + 1) - 1, OwnedNow(c)')
    BY <1>3, <2>1, <2>2 DEF OwnedNext
  <2> QED BY <2>1, <2>2 DEF OwnedNext
<1>6. c \in known'
  BY DEF Owned
<1>7. asked'[c] = asked[c] /\ active'[c] = active[c] /\ owes'[c] = owes[c]
  BY DEF SameClient
<1> QED BY <1>4, <1>5, <1>6, <1>7 DEF Owned

LEMMA OwnedStep ==
  ASSUME Shape, NEW c \in Clients, Owned(c), Effect(c)
  PROVE  Owned(c)'
<1>0. asked[c] \subseteq {m \in FromClient : m.type \in DOMAIN AnswerOf}
  BY DEF Shape, ClientShape
<1>1. CASE Connects(c)
  <2>1. PICK m \in FromClient : /\ m.type = "CONNECT" /\ Sends(c, m)
                                /\ asked'[c] = {m} /\ ~active'[c] /\ owes'[c] = <<>>
    BY <1>1 DEF Connects
  <2>2. m.type \notin WillTypes
    BY <2>1 DEF WillTypes
  <2>3. /\ \A n \in 1 .. Len(Cr(c)') : Cr(c)'[n].type \in WillTypes => OwnedAt(Cr(c)', n, OwnedNow(c)')
        /\ c \notin known' => Cr(c)' = <<>> /\ connect'[c].object = "null"
        /\ m.type = "CONNECT" /\ "will" \in m.flags => OwnedNext(c)'
    BY <2>1, <2>2, OwnedSend
  <2>4. Range(owes'[c]) = {}
    BY <2>1, NoMessage
  <2> QED BY <2>1, <2>3, <2>4 DEF Owned
<1>2. CASE Asks(c)
  <2>1. PICK m \in FromClient : /\ m.type \in RequestTypes /\ Sends(c, m) /\ active[c]
                                /\ asked'[c] = asked[c] \cup {m} /\ owes'[c] = owes[c]
    BY <1>2 DEF Asks
  <2>2. m.type \notin WillTypes /\ m.type # "CONNECT"
    BY <2>1 DEF WillTypes, RequestTypes
  <2>3. /\ \A n \in 1 .. Len(Cr(c)') : Cr(c)'[n].type \in WillTypes => OwnedAt(Cr(c)', n, OwnedNow(c)')
        /\ c \notin known' => Cr(c)' = <<>> /\ connect'[c].object = "null"
        /\ m.type # "CONNECT" /\ OwnedNext(c) => OwnedNext(c)'
    BY <2>1, <2>2, OwnedSend
  <2>4. \A r \in asked'[c] : r.type # "CONNECT"
    BY <2>1, <2>2 DEF Owned
  <2> QED BY <2>1, <2>2, <2>3, <2>4 DEF Owned
<1>3. CASE Tells(c)
  <2>1. PICK m \in FromClient : /\ m.type \in {"PUBLISH", "DISCONNECT"} /\ Sends(c, m)
                                /\ asked'[c] = {} /\ owes'[c] = owes[c]
    BY <1>3 DEF Tells
  <2>2. m.type \notin WillTypes /\ m.type # "CONNECT"
    BY <2>1 DEF WillTypes
  <2>3. /\ \A n \in 1 .. Len(Cr(c)') : Cr(c)'[n].type \in WillTypes => OwnedAt(Cr(c)', n, OwnedNow(c)')
        /\ c \notin known' => Cr(c)' = <<>> /\ connect'[c].object = "null"
        /\ m.type # "CONNECT" /\ OwnedNext(c) => OwnedNext(c)'
    BY <2>1, <2>2, OwnedSend
  <2> QED BY <2>1, <2>2, <2>3 DEF Owned
<1>4. CASE Repeats(c)
  <2>1. PICK m \in asked[c] : Sends(c, m)
    BY <1>4 DEF Repeats
  <2>2. m.type \notin WillTypes
    BY <1>0 DEF AnswerOf, WillTypes
  <2>3. /\ \A n \in 1 .. Len(Cr(c)') : Cr(c)'[n].type \in WillTypes => OwnedAt(Cr(c)', n, OwnedNow(c)')
        /\ c \notin known' => Cr(c)' = <<>> /\ connect'[c].object = "null"
        /\ m.type = "CONNECT" /\ "will" \in m.flags => OwnedNext(c)'
        /\ m.type # "CONNECT" /\ OwnedNext(c) => OwnedNext(c)'
    BY <2>1, <2>2, OwnedSend
  <2>4. asked'[c] = asked[c] /\ active'[c] = active[c] /\ owes'[c] = owes[c]
    BY <1>4 DEF Repeats, SameClient
  <2>5. CASE m.type = "CONNECT"
    <3>1. asked[c] = {m} /\ ~active[c]
          /\ ("will" \notin m.flags => \A x \in Range(owes[c]) : x.type \notin WillTypes)
      BY <2>5 DEF Owned
    <3> QED BY <2>3, <2>4, <2>5, <3>1 DEF Owned
  <2>6. CASE m.type # "CONNECT"
    BY <2>3, <2>4, <2>6 DEF Owned
  <2> QED BY <2>5, <2>6
<1>5. CASE Pays(c)
  <2> DEFINE m == Head(owes[c])
  <2>1. /\ Sends(c, m) /\ m.type \in OwedTypes /\ owes[c] # <<>> /\ owes'[c] = Tail(owes[c])
        /\ asked'[c] = asked[c] /\ active'[c] = active[c]
    BY <1>5 DEF Pays
  <2>2. m \in Range(owes[c]) /\ Range(owes'[c]) \subseteq Range(owes[c])
    BY <2>1, LaneTypes, RangeTail
  <2> HIDE DEF m
  <2>3. m.type # "CONNECT" /\ (m.type \in WillTypes => OwnedNext(c))
    BY <2>1, <2>2 DEF OwedTypes, Owned
  <2>4. /\ \A n \in 1 .. Len(Cr(c)') : Cr(c)'[n].type \in WillTypes => OwnedAt(Cr(c)', n, OwnedNow(c)')
        /\ c \notin known' => Cr(c)' = <<>> /\ connect'[c].object = "null"
        /\ m.type # "CONNECT" /\ OwnedNext(c) => OwnedNext(c)'
    BY <2>1, <2>3, OwnedSend
  <2> QED BY <2>1, <2>2, <2>3, <2>4 DEF Owned
<1>6. CASE Idles(c) \/ Misses(c) \/ Forwards(c) \/ Publishes(c) \/ Receives(c) \/ Drops(c)
  <2>1. /\ UNCHANGED <<Cr(c), connect[c], asked[c], owes[c]>>
        /\ active'[c] = active[c] /\ (c \in known' <=> c \in known)
    BY <1>6 DEF Idles, Misses, Forwards, Publishes, Receives, Drops, SameNodeAt, SameClient
  <2> QED BY <2>1, OwnedSame
<1>7. ASSUME SameClient(c), c \in known' <=> c \in known, NEW down, DownMoves(c, Head(Br(c)), down)
      PROVE  Owned(c)'
  <2>1. /\ UNCHANGED <<Cr(c), connect[c], asked[c], owes[c]>>
        /\ active'[c] = active[c] /\ (c \in known' <=> c \in known)
    BY <1>7 DEF DownMoves, TurnDown, SameClient
  <2> QED BY <2>1, OwnedSame
<1> QED BY <1>1, <1>2, <1>3, <1>4, <1>5, <1>6, <1>7, OwnedDeliver, OwnedHandle DEF Effect
------------------------------------------------------------------------------
(* The CONNECT on its way.                                                 *)
Keep(s, t) == (Clear(s) => Clear(t)) /\ (Single(s) => Single(t))

LEMMA PassConcat ==
  ASSUME NEW S, NEW s \in Seq(S), NEW t \in Seq(S)
  PROVE  /\ Clear(t) => Keep(s, s \o t)
         /\ Clear(s) /\ Single(t) => Single(s \o t)
<1>1. /\ Len(s) \in Nat /\ Len(t) \in Nat /\ DOMAIN s = 1 .. Len(s) /\ DOMAIN t = 1 .. Len(t)
      /\ DOMAIN (s \o t) = 1 .. Len(s) + Len(t)
      /\ \A i \in 1 .. Len(s) : (s \o t)[i] = s[i]
      /\ \A i \in Len(s) + 1 .. Len(s) + Len(t) : (s \o t)[i] = t[i - Len(s)]
  OBVIOUS
<1>2. Clear(s) => \A i \in 1 .. Len(s) : s[i].type \notin PassTypes
  BY <1>1 DEF Clear, Range
<1>3. Clear(t) => \A i \in 1 .. Len(t) : t[i].type \notin PassTypes
  BY <1>1 DEF Clear, Range
<1>4. Clear(s) /\ Clear(t) => Clear(s \o t)
  BY RangeConcat DEF Clear
<1>5. ASSUME Clear(t), Single(s)
      PROVE  Single(s \o t)
  <2>1. \A i \in 1 .. Len(s) + Len(t) : (s \o t)[i].type \in PassTypes => i \in 1 .. Len(s)
    <3> SUFFICES ASSUME NEW i \in 1 .. Len(s) + Len(t), i > Len(s)
                 PROVE  (s \o t)[i].type \notin PassTypes
      BY <1>1
    <3>1. i - Len(s) \in 1 .. Len(t) /\ (s \o t)[i] = t[i - Len(s)]
      BY <1>1
    <3> QED BY <1>3, <1>5, <3>1
  <2> QED BY <1>1, <1>5, <2>1 DEF Single
<1>6. ASSUME Clear(s), Single(t)
      PROVE  Single(s \o t)
  <2>1. \A i \in 1 .. Len(s) + Len(t) : (s \o t)[i].type \in PassTypes =>
          i - Len(s) \in 1 .. Len(t) /\ (s \o t)[i] = t[i - Len(s)]
    <3> SUFFICES ASSUME NEW i \in 1 .. Len(s) + Len(t), (s \o t)[i].type \in PassTypes
                 PROVE  i - Len(s) \in 1 .. Len(t) /\ (s \o t)[i] = t[i - Len(s)]
      OBVIOUS
    <3>1. i > Len(s)
      BY <1>1, <1>2, <1>6
    <3> QED BY <1>1, <3>1
  <2>2. ASSUME NEW i \in 1 .. Len(s) + Len(t), NEW j \in 1 .. Len(s) + Len(t),
               (s \o t)[i].type \in PassTypes, (s \o t)[j].type \in PassTypes
        PROVE  i = j
    <3>1. i - Len(s) = j - Len(s)
      BY <1>1, <1>6, <2>1, <2>2 DEF Single
    <3> QED BY <1>1, <3>1
  <2> QED BY <1>1, <2>2 DEF Single
<1> QED BY <1>4, <1>5, <1>6 DEF Keep

LEMMA PassOne ==
  ASSUME NEW S, NEW x \in S
  PROVE  /\ <<x>> \in Seq(S) /\ Single(<<x>>) /\ (x.type \notin PassTypes => Clear(<<x>>))
         /\ <<>> \in Seq(S) /\ Single(<<>>) /\ Clear(<<>>)
<1>1. <<x>> \in Seq(S) /\ <<>> \in Seq(S)
  OBVIOUS
<1>2. DOMAIN <<x>> = {1} /\ DOMAIN <<>> = {} /\ <<x>>[1] = x
  OBVIOUS
<1> QED BY <1>1, <1>2 DEF Single, Clear, Range

LEMMA PassAppend ==
  ASSUME NEW S, NEW s \in Seq(S), NEW x \in S
  PROVE  /\ x.type \notin PassTypes => Keep(s, Append(s, x))
         /\ Clear(s) => Single(Append(s, x))
<1>1. Append(s, x) = s \o <<x>> /\ <<x>> \in Seq(S)
  OBVIOUS
<1>2. Single(<<x>>) /\ (x.type \notin PassTypes => Clear(<<x>>))
  BY PassOne
<1>3. /\ Clear(<<x>>) => Keep(s, s \o <<x>>)
      /\ Clear(s) /\ Single(<<x>>) => Single(s \o <<x>>)
  BY <1>1, PassConcat
<1> QED BY <1>1, <1>2, <1>3

LEMMA PassTail ==
  ASSUME NEW S, NEW s \in Seq(S), s # <<>>
  PROVE  Keep(s, Tail(s)) /\ (Single(s) /\ Head(s).type \in PassTypes => Clear(Tail(s)))
<1>1. /\ Range(Tail(s)) \subseteq Range(s) /\ Len(s) \in Nat /\ Len(s) >= 1 /\ Head(s) = s[1]
      /\ \A i \in 1 .. Len(s) - 1 : Tail(s)[i] = s[i + 1]
      /\ DOMAIN Tail(s) = 1 .. Len(s) - 1 /\ DOMAIN s = 1 .. Len(s)
  BY RangeTail
<1>2. ASSUME Single(s), NEW i \in 1 .. Len(s) - 1, NEW j \in 1 .. Len(s) - 1,
             Tail(s)[i].type \in PassTypes, Tail(s)[j].type \in PassTypes
      PROVE  i = j
  <2>1. i + 1 \in 1 .. Len(s) /\ j + 1 \in 1 .. Len(s)
    BY <1>1
  <2>2. i + 1 = j + 1
    BY <1>1, <1>2, <2>1 DEF Single
  <2> QED BY <1>1, <2>2
<1>3. ASSUME Single(s), Head(s).type \in PassTypes, NEW i \in 1 .. Len(s) - 1
      PROVE  Tail(s)[i].type \notin PassTypes
  <2>1. i + 1 \in 1 .. Len(s) /\ 1 \in 1 .. Len(s) /\ i + 1 # 1
    BY <1>1
  <2> QED BY <1>1, <1>3, <2>1 DEF Single
<1>4. Single(s) => Single(Tail(s))
  BY <1>1, <1>2 DEF Single
<1>5. Single(s) /\ Head(s).type \in PassTypes => Clear(Tail(s))
  BY <1>1, <1>3 DEF Clear, Range
<1>6. Clear(s) => Clear(Tail(s))
  BY <1>1 DEF Clear
<1> QED BY <1>4, <1>5, <1>6 DEF Keep

LEMMA AtPlaces ==
  ASSUME NEW c
  PROVE  /\ At(c, "clientRecv") = Cr(c) /\ At(c, "clientRecv")' = Cr(c)'
         /\ At(c, "brokerSend") = Bs(c) /\ At(c, "brokerSend")' = Bs(c)'
         /\ At(c, "brokerRecv") = Br(c) /\ At(c, "brokerRecv")' = Br(c)'
         /\ At(c, "clientSend") = Cs(c) /\ At(c, "clientSend")' = Cs(c)'
         /\ At(c, "owes") = owes[c] /\ At(c, "owes")' = owes'[c]
         /\ At(c, "replies") = replies[c] /\ At(c, "replies")' = replies'[c]
BY DEF At, Cr, Bs, Br, Cs

LEMMA AtTypes ==
  ASSUME Shape, NEW c \in Clients, NEW p \in Places
  PROVE  At(c, p) \in Seq(AnyMessage)
<1>1. /\ FromClient \subseteq AnyMessage /\ ToBroker \subseteq AnyMessage
      /\ FromBroker \subseteq AnyMessage /\ ToClient \subseteq AnyMessage
      /\ OwedMessages \subseteq AnyMessage
  BY DEF FromClient, ToBroker, FromBroker, ToClient, OwedMessages
<1>2. /\ Cr(c) \in Seq(AnyMessage) /\ Bs(c) \in Seq(AnyMessage) /\ Br(c) \in Seq(AnyMessage)
      /\ Cs(c) \in Seq(AnyMessage) /\ owes[c] \in Seq(AnyMessage) /\ replies[c] \in Seq(AnyMessage)
  BY <1>1, LaneTypes, Widen
<1> QED BY <1>2, AtPlaces DEF Places

\* A step that moves nothing of it.
LEMMA PassQuiet ==
  ASSUME NEW c, OnePass(c), setting' = setting,
         Keep(Cr(c), Cr(c)'), Keep(Bs(c), Bs(c)'), Keep(Br(c), Br(c)'), Keep(Cs(c), Cs(c)'),
         Keep(owes[c], owes'[c]), Keep(replies[c], replies'[c]),
         \A m \in Range(Cr(c)') : m.type = "CONNECT" => m \in Range(Cr(c)),
         \A r \in asked[c] : r.type = "CONNECT" => r \in asked'[c]
  PROVE  OnePass(c)'
<1>1. SUFFICES ASSUME ~setting.repeat
               PROVE  /\ \E p \in Places : Single(At(c, p)') /\ \A q \in Places \ {p} : Clear(At(c, q)')
                      /\ ~Connecting(c)' => \A p \in Places : Clear(At(c, p)')
                      /\ \A m \in Range(Cr(c)') : m.type = "CONNECT" => m \in asked'[c]
  BY DEF OnePass
<1>2. \A p \in Places : Keep(At(c, p), At(c, p)')
  BY AtPlaces DEF Places
<1>3. PICK p \in Places : Single(At(c, p)) /\ \A q \in Places \ {p} : Clear(At(c, q))
  BY <1>1 DEF OnePass
<1>4. Single(At(c, p)') /\ \A q \in Places \ {p} : Clear(At(c, q)')
  BY <1>2, <1>3 DEF Keep
<1>5. ~Connecting(c)' => \A q \in Places : Clear(At(c, q)')
  BY <1>1, <1>2 DEF OnePass, Connecting, Keep
<1>6. \A m \in Range(Cr(c)') : m.type = "CONNECT" => m \in asked'[c]
  BY <1>1 DEF OnePass
<1> QED BY <1>3, <1>4, <1>5, <1>6

\* It is at the front of p.
LEMMA PassHead ==
  ASSUME Shape, NEW c \in Clients, OnePass(c), ~setting.repeat,
         NEW p \in Places, At(c, p) # <<>>, Head(At(c, p)).type \in PassTypes
  PROVE  Connecting(c) /\ Clear(Tail(At(c, p))) /\ \A q \in Places \ {p} : Clear(At(c, q))
<1>1. At(c, p) \in Seq(AnyMessage)
  BY AtTypes
<1>2. ~Clear(At(c, p))
  <2>1. Head(At(c, p)) \in Range(At(c, p))
    BY <1>1, RangeTail
  <2> QED BY <2>1 DEF Clear
<1>3. PICK k \in Places : Single(At(c, k)) /\ \A q \in Places \ {k} : Clear(At(c, q))
  BY DEF OnePass
<1>4. k = p
  BY <1>2, <1>3
<1>5. Clear(Tail(At(c, p)))
  BY <1>1, <1>3, <1>4, PassTail
<1> QED BY <1>2, <1>3, <1>4, <1>5 DEF OnePass

\* A step that moves it from p to q, or drops it.
LEMMA PassMoved ==
  ASSUME Shape, NEW c \in Clients, OnePass(c), setting' = setting,
         NEW p \in Places, NEW q \in Places, q # p,
         At(c, p) # <<>>, Head(At(c, p)).type \in PassTypes, At(c, p)' = Tail(At(c, p)),
         Clear(At(c, q)) => Single(At(c, q)'),
         \A k \in Places \ {p, q} : At(c, k)' = At(c, k),
         \A m \in Range(Cr(c)') : m.type = "CONNECT" => m \in Range(Cr(c)),
         asked'[c] = asked[c]
  PROVE  OnePass(c)'
<1>1. SUFFICES ASSUME ~setting.repeat
               PROVE  /\ \E k \in Places : Single(At(c, k)') /\ \A j \in Places \ {k} : Clear(At(c, j)')
                      /\ ~Connecting(c)' => \A k \in Places : Clear(At(c, k)')
                      /\ \A m \in Range(Cr(c)') : m.type = "CONNECT" => m \in asked'[c]
  BY DEF OnePass
<1>2. Connecting(c) /\ Clear(Tail(At(c, p))) /\ \A k \in Places \ {p} : Clear(At(c, k))
  BY <1>1, PassHead
<1>3. Single(At(c, q)') /\ \A j \in Places \ {q} : Clear(At(c, j)')
  BY <1>2
<1>4. Connecting(c)'
  BY <1>2 DEF Connecting
<1>5. \A m \in Range(Cr(c)') : m.type = "CONNECT" => m \in asked'[c]
  BY <1>1 DEF OnePass
<1> QED BY <1>3, <1>4, <1>5

LEMMA PassSends ==
  ASSUME Shape, NEW c \in Clients, OnePass(c), setting' = setting, NEW m, Sends(c, m),
         m.type \notin PassTypes, Keep(owes[c], owes'[c]),
         \A r \in asked[c] : r.type = "CONNECT" => r \in asked'[c]
  PROVE  OnePass(c)'
<1>1. Cr(c) \in Seq(FromClient) /\ m \in FromClient
  BY LaneTypes DEF Sends
<1>2. /\ Keep(Cr(c), Cr(c)')
      /\ \A x \in Range(Cr(c)') : x.type = "CONNECT" => x \in Range(Cr(c))
  <2>1. CASE Cr(c)' = Append(Cr(c), m)
    <3>1. Range(Cr(c)') = Range(Cr(c)) \cup {m} /\ m.type # "CONNECT"
      BY <1>1, <2>1, RangeAppend DEF PassTypes
    <3> QED BY <1>1, <2>1, <3>1, PassAppend
  <2>2. CASE Cr(c)' = Cr(c)
    BY <2>2 DEF Keep
  <2> QED BY <2>1, <2>2 DEF Sends
<1>3. Keep(Bs(c), Bs(c)') /\ Keep(Br(c), Br(c)') /\ Keep(Cs(c), Cs(c)') /\ Keep(replies[c], replies'[c])
  BY DEF Sends, SameBroker, Keep
<1> QED BY <1>2, <1>3, PassQuiet

LEMMA PassConnects ==
  ASSUME Shape, NEW c \in Clients, Owned(c), OnePass(c), setting' = setting, Connects(c)
  PROVE  OnePass(c)'
<1>1. PICK m \in FromClient : /\ m.type = "CONNECT" /\ Sends(c, m) /\ asked'[c] = {m} /\ owes'[c] = <<>>
                              /\ ~setting.repeat => active[c] \/ ~Connecting(c)
  BY DEF Connects
<1>2. SUFFICES ASSUME ~setting.repeat
               PROVE  /\ \E p \in Places : Single(At(c, p)') /\ \A q \in Places \ {p} : Clear(At(c, q)')
                      /\ ~Connecting(c)' => \A p \in Places : Clear(At(c, p)')
                      /\ \A x \in Range(Cr(c)') : x.type = "CONNECT" => x \in asked'[c]
  BY DEF OnePass
<1>3. ~Connecting(c)
  BY <1>1, <1>2 DEF Owned, Connecting
<1>4. \A p \in Places : Clear(At(c, p))
  BY <1>2, <1>3 DEF OnePass
<1>5. Clear(Cr(c)) /\ Clear(Bs(c)) /\ Clear(Br(c)) /\ Clear(Cs(c)) /\ Clear(replies[c])
  BY <1>4, AtPlaces DEF Places
<1>6. Single(Cr(c)') /\ \A x \in Range(Cr(c)') : x.type = "CONNECT" => x = m
  <2>1. Cr(c) \in Seq(FromClient) /\ \A x \in Range(Cr(c)) : x.type # "CONNECT"
    BY <1>5, LaneTypes DEF Clear, PassTypes
  <2>2. CASE Cr(c)' = Append(Cr(c), m)
    <3>1. Range(Cr(c)') = Range(Cr(c)) \cup {m}
      BY <2>1, <2>2, RangeAppend
    <3>2. Single(Cr(c)')
      BY <1>5, <2>1, <2>2, PassAppend
    <3> QED BY <2>1, <3>1, <3>2
  <2>3. CASE Cr(c)' = Cr(c)
    <3>1. Single(Cr(c)')
      BY <1>5, <2>3 DEF Single, Clear, Range
    <3> QED BY <2>1, <2>3, <3>1
  <2> QED BY <1>1, <2>2, <2>3 DEF Sends
<1>7. Clear(Bs(c)') /\ Clear(Br(c)') /\ Clear(Cs(c)') /\ Clear(replies'[c]) /\ Clear(owes'[c])
  BY <1>1, <1>5, NoMessage DEF Sends, SameBroker
<1>8. \A q \in Places \ {"clientRecv"} : Clear(At(c, q)')
  BY <1>7, AtPlaces DEF Places
<1>9. "clientRecv" \in Places /\ Single(At(c, "clientRecv")')
  BY <1>6, AtPlaces DEF Places
<1>10. Connecting(c)'
  BY <1>1 DEF Connecting
<1> QED BY <1>1, <1>6, <1>8, <1>9, <1>10

LEMMA PassPays ==
  ASSUME Shape, NEW c \in Clients, OnePass(c), setting' = setting, Pays(c)
  PROVE  OnePass(c)'
<1> DEFINE m == Head(owes[c])
<1>1. /\ owes[c] # <<>> /\ Sends(c, m) /\ owes'[c] = Tail(owes[c]) /\ asked'[c] = asked[c]
      /\ m.type \in OwedTypes
  BY DEF Pays
<1>2. Keep(owes[c], owes'[c])
  BY <1>1, LaneTypes, PassTail
<1>3. CASE m.type \notin PassTypes
  <2> HIDE DEF m
  <2> QED BY <1>1, <1>2, <1>3, PassSends
<1>4. CASE m.type \in PassTypes
  <2>1. /\ At(c, "owes") # <<>> /\ Head(At(c, "owes")).type \in PassTypes
        /\ At(c, "owes")' = Tail(At(c, "owes"))
    BY <1>1, <1>4, AtPlaces
  <2>2. m \in FromClient /\ m.type # "CONNECT" /\ Cr(c) \in Seq(FromClient)
    BY <1>1, LaneTypes DEF Sends, OwedTypes
  <2> HIDE DEF m
  <2>3. /\ Clear(Cr(c)) => Single(Cr(c)')
        /\ \A x \in Range(Cr(c)') : x.type = "CONNECT" => x \in Range(Cr(c))
    <3>1. CASE Cr(c)' = Append(Cr(c), m)
      <4>1. Range(Cr(c)') = Range(Cr(c)) \cup {m}
        BY <2>2, <3>1, RangeAppend
      <4>2. Clear(Cr(c)) => Single(Append(Cr(c), m))
        BY <2>2, PassAppend
      <4> QED BY <2>2, <3>1, <4>1, <4>2
    <3>2. CASE Cr(c)' = Cr(c)
      BY <3>2 DEF Single, Clear, Range
    <3> QED BY <1>1, <3>1, <3>2 DEF Sends
  <2>4. Clear(At(c, "clientRecv")) => Single(At(c, "clientRecv")')
    BY <2>3, AtPlaces
  <2>5. \A k \in Places \ {"owes", "clientRecv"} : At(c, k)' = At(c, k)
    BY <1>1, AtPlaces DEF Places, Sends, SameBroker
  <2>6. "owes" \in Places /\ "clientRecv" \in Places /\ "owes" # "clientRecv"
    BY DEF Places
  <2> QED BY <1>1, <2>1, <2>3, <2>4, <2>5, <2>6, PassMoved
<1> QED BY <1>3, <1>4

LEMMA PassDelivers ==
  ASSUME Shape, NEW c \in Clients, OnePass(c), setting' = setting, NEW m \in ToClient, Delivers(c, m)
  PROVE  OnePass(c)'
<1>1. /\ Cs(c) # <<>> /\ m = Head(Cs(c)) /\ Cs(c)' = Tail(Cs(c))
      /\ UNCHANGED <<Cr(c), Bs(c), Br(c), replies[c]>>
      /\ asked'[c] = asked[c] \ Answered(c, m) /\ owes'[c] = owes[c] \o Owed(c, m)
  BY DEF Delivers, SameBroker
<1>2. /\ Owed(c, m) \in Seq(OwedMessages) /\ owes[c] \in Seq(OwedMessages) /\ Single(Owed(c, m))
      /\ m.type \notin {"WILLTOPICREQ", "WILLMSGREQ"} => Clear(Owed(c, m))
  <2>1. CASE Owed(c, m) = <<>>
    <3>1. Clear(<<>>) /\ Single(<<>>) /\ <<>> \in Seq(OwedMessages)
      BY NoMessage DEF Single
    <3> QED BY <2>1, <3>1, LaneTypes
  <2>2. CASE Owed(c, m) # <<>>
    <3>1. PICK x \in OwedMessages :
            /\ Owed(c, m) = <<x>>
            /\ x.type \in WillTypes => m.type \in {"WILLTOPICREQ", "WILLMSGREQ"}
      BY <2>2, OwedFacts
    <3>2. x.type \in PassTypes => x.type \in WillTypes
      BY DEF OwedMessages, OwedTypes, PassTypes, WillTypes
    <3>3. <<x>> \in Seq(OwedMessages) /\ Single(<<x>>) /\ (x.type \notin PassTypes => Clear(<<x>>))
      BY PassOne
    <3> QED BY <3>1, <3>2, <3>3, LaneTypes
  <2> QED BY <2>1, <2>2
<1>3. /\ Clear(Owed(c, m)) => Keep(owes[c], owes'[c])
      /\ Clear(owes[c]) => Single(owes'[c])
  BY <1>1, <1>2, PassConcat
<1>4. m.type # "CONNACK" => \A r \in asked[c] : r.type = "CONNECT" => r \in asked'[c]
  BY <1>1 DEF Answered, AnswerOf
<1>5. Keep(Cs(c), Cs(c)')
  BY <1>1, LaneTypes, PassTail
<1>6. Keep(Cr(c), Cr(c)') /\ Keep(Bs(c), Bs(c)') /\ Keep(Br(c), Br(c)') /\ Keep(replies[c], replies'[c])
  BY <1>1 DEF Keep
<1>7. "clientSend" \in Places /\ "owes" \in Places /\ "clientSend" # "owes"
  BY DEF Places
<1>8. At(c, "clientSend") # <<>> /\ Head(At(c, "clientSend")) = m
      /\ At(c, "clientSend")' = Tail(At(c, "clientSend"))
  BY <1>1, AtPlaces
<1>9. CASE m.type \notin PassTypes
  <2>1. m.type # "CONNACK" /\ m.type \notin {"WILLTOPICREQ", "WILLMSGREQ"}
    BY <1>9 DEF PassTypes
  <2>2. Keep(owes[c], owes'[c])
    BY <1>2, <1>3, <2>1
  <2>3. \A x \in Range(Cr(c)') : x.type = "CONNECT" => x \in Range(Cr(c))
    BY <1>1
  <2> QED BY <1>4, <1>5, <1>6, <2>1, <2>2, <2>3, PassQuiet
<1>10. CASE m.type = "CONNACK"
  <2>1. SUFFICES ASSUME ~setting.repeat
                 PROVE  /\ \A p \in Places : Clear(At(c, p)')
                        /\ Single(At(c, "owes")')
                        /\ \A x \in Range(Cr(c)') : x.type # "CONNECT"
    BY <1>7 DEF OnePass
  <2>2. Clear(Tail(At(c, "clientSend"))) /\ \A q \in Places \ {"clientSend"} : Clear(At(c, q))
    <3>1. Head(At(c, "clientSend")).type \in PassTypes
      BY <1>8, <1>10 DEF PassTypes
    <3> QED BY <1>7, <1>8, <2>1, <3>1, PassHead
  <2>3. Clear(owes[c]) /\ Clear(Owed(c, m))
    BY <1>2, <1>7, <1>10, <2>2, AtPlaces
  <2>4. Clear(owes'[c]) /\ Single(owes'[c])
    BY <1>3, <2>3 DEF Keep
  <2>5. \A p \in Places \ {"clientSend", "owes"} : At(c, p)' = At(c, p)
    BY <1>1, AtPlaces DEF Places
  <2>6. \A p \in Places : Clear(At(c, p)')
    BY <1>8, <2>2, <2>4, <2>5, AtPlaces
  <2>7. Clear(Cr(c)') /\ Single(At(c, "owes")')
    BY <2>4, <2>6, AtPlaces DEF Places
  <2> QED BY <2>6, <2>7 DEF Clear, PassTypes
<1>11. CASE m.type \in PassTypes /\ m.type # "CONNACK"
  <2>1. asked'[c] = asked[c]
    <3>1. Answered(c, m) = {}
      <4>1. m.type \in {"WILLTOPICREQ", "WILLMSGREQ"}
        BY <1>11 DEF ToClient, PassTypes
      <4>2. asked[c] \subseteq {r \in FromClient : r.type \in DOMAIN AnswerOf}
        BY DEF Shape, ClientShape
      <4> QED BY <4>1, <4>2 DEF Answered, AnswerOf
    <3> QED BY <1>1, <3>1
  <2>2. Clear(At(c, "owes")) => Single(At(c, "owes")')
    BY <1>3, AtPlaces
  <2>3. \A k \in Places \ {"clientSend", "owes"} : At(c, k)' = At(c, k)
    BY <1>1, AtPlaces DEF Places
  <2>4. \A x \in Range(Cr(c)') : x.type = "CONNECT" => x \in Range(Cr(c))
    BY <1>1
  <2> QED BY <1>7, <1>8, <1>11, <2>1, <2>2, <2>3, <2>4, PassMoved
<1> QED BY <1>9, <1>10, <1>11

\* A step between two places, both of them not `owes'.
LEMMA PassForwards ==
  ASSUME Shape, NEW c \in Clients, OnePass(c), setting' = setting, Forwards(c)
  PROVE  OnePass(c)'
<1>1. /\ Bs(c) # <<>> /\ Bs(c)' = Tail(Bs(c)) /\ UNCHANGED <<Cr(c), Br(c), Cs(c)>>
      /\ asked'[c] = asked[c] /\ owes'[c] = owes[c]
  BY DEF Forwards, SameClient
<1>2. /\ Keep(Bs(c), Bs(c)') /\ Keep(Cr(c), Cr(c)') /\ Keep(Br(c), Br(c)') /\ Keep(Cs(c), Cs(c)')
      /\ Keep(owes[c], owes'[c])
  BY <1>1, LaneTypes, PassTail DEF Keep
<1>3. ASSUME Keep(replies[c], replies'[c])
      PROVE  OnePass(c)'
  BY <1>1, <1>2, <1>3, PassQuiet
<1>4. CASE replies'[c] \in {replies[c], <<>>}
  <2>1. Clear(<<>>) /\ Single(<<>>)
    BY NoMessage DEF Single
  <2>2. Keep(replies[c], replies'[c])
    BY <1>4, <2>1 DEF Keep
  <2> QED BY <1>3, <2>2
<1>5. ASSUME NEW m \in ToBroker, m = Head(Bs(c)), replies'[c] = replies[c] \o Reply(m)
      PROVE  OnePass(c)'
  <2>1. /\ Reply(m) \in Seq(FromBroker) /\ replies[c] \in Seq(FromBroker) /\ Single(Reply(m))
        /\ m.type # "CONNECT" => Clear(Reply(m))
    <3>1. CASE Reply(m) = <<>>
      <4>1. Clear(<<>>) /\ Single(<<>>) /\ <<>> \in Seq(FromBroker)
        BY NoMessage DEF Single
      <4> QED BY <3>1, <4>1, LaneTypes
    <3>2. CASE Reply(m) # <<>>
      <4>1. PICK x \in FromBroker : Reply(m) = <<x>> /\ (x.type \in PassTypes => m.type = "CONNECT")
        BY <3>2, ReplyFacts
      <4>2. <<x>> \in Seq(FromBroker) /\ Single(<<x>>) /\ (x.type \notin PassTypes => Clear(<<x>>))
        BY PassOne
      <4> QED BY <4>1, <4>2, LaneTypes
    <3> QED BY <3>1, <3>2
  <2>2. /\ Clear(Reply(m)) => Keep(replies[c], replies'[c])
        /\ Clear(replies[c]) => Single(replies'[c])
    BY <1>5, <2>1, PassConcat
  <2>3. CASE m.type # "CONNECT"
    BY <1>3, <2>1, <2>2, <2>3
  <2>4. CASE m.type = "CONNECT"
    <3>1. "brokerSend" \in Places /\ "replies" \in Places /\ "brokerSend" # "replies"
      BY DEF Places
    <3>2. /\ At(c, "brokerSend") # <<>> /\ Head(At(c, "brokerSend")).type \in PassTypes
          /\ At(c, "brokerSend")' = Tail(At(c, "brokerSend"))
      BY <1>1, <1>5, <2>4, AtPlaces DEF PassTypes
    <3>3. Clear(At(c, "replies")) => Single(At(c, "replies")')
      BY <2>2, AtPlaces
    <3>4. \A k \in Places \ {"brokerSend", "replies"} : At(c, k)' = At(c, k)
      BY <1>1, AtPlaces DEF Places
    <3>5. \A x \in Range(Cr(c)') : x.type = "CONNECT" => x \in Range(Cr(c))
      BY <1>1
    <3> QED BY <1>1, <3>1, <3>2, <3>3, <3>4, <3>5, PassMoved
  <2> QED BY <2>3, <2>4
<1> QED BY <1>4, <1>5 DEF Forwards

LEMMA PassReceives ==
  ASSUME Shape, NEW c \in Clients, OnePass(c), setting' = setting, Receives(c)
  PROVE  OnePass(c)'
<1> DEFINE m == Head(replies[c])
<1>1. /\ replies[c] # <<>> /\ replies'[c] = Tail(replies[c]) /\ Br(c)' = Append(Br(c), m)
      /\ UNCHANGED <<Cr(c), Bs(c), Cs(c)>> /\ m \in FromBroker
      /\ asked'[c] = asked[c] /\ owes'[c] = owes[c]
  BY DEF Receives, SameClient
<1>2. Br(c) \in Seq(FromBroker) /\ replies[c] \in Seq(FromBroker)
  BY LaneTypes
<1>3. /\ Keep(Bs(c), Bs(c)') /\ Keep(Cr(c), Cr(c)') /\ Keep(Cs(c), Cs(c)')
      /\ Keep(owes[c], owes'[c]) /\ Keep(replies[c], replies'[c])
  BY <1>1, <1>2, PassTail DEF Keep
<1>4. \A x \in Range(Cr(c)') : x.type = "CONNECT" => x \in Range(Cr(c))
  BY <1>1
<1>5. At(c, "replies") # <<>> /\ Head(At(c, "replies")) = m
      /\ At(c, "replies")' = Tail(At(c, "replies"))
  BY <1>1, AtPlaces
<1>6. \A k \in Places \ {"replies", "brokerRecv"} : At(c, k)' = At(c, k)
  BY <1>1, AtPlaces DEF Places
<1> HIDE DEF m
<1>7. /\ m.type \notin PassTypes => Keep(Br(c), Append(Br(c), m))
      /\ Clear(Br(c)) => Single(Append(Br(c), m))
  BY <1>1, <1>2, PassAppend
<1>8. CASE m.type \notin PassTypes
  <2>1. Keep(Br(c), Br(c)')
    BY <1>1, <1>7, <1>8
  <2> QED BY <1>1, <1>3, <1>4, <2>1, PassQuiet
<1>9. CASE m.type \in PassTypes
  <2>1. "replies" \in Places /\ "brokerRecv" \in Places /\ "replies" # "brokerRecv"
    BY DEF Places
  <2>2. Clear(At(c, "brokerRecv")) => Single(At(c, "brokerRecv")')
    BY <1>1, <1>7, AtPlaces
  <2> QED BY <1>1, <1>4, <1>5, <1>6, <1>9, <2>1, <2>2, PassMoved
<1> QED BY <1>8, <1>9

LEMMA PassHandlesUp ==
  ASSUME Shape, NEW c \in Clients, OnePass(c), setting' = setting, SameClient(c), SameBroker(c),
         Cr(c) # <<>>, NEW up, NEW down, UpMoves(c, Head(Cr(c)), up, down)
  PROVE  OnePass(c)'
<1> DEFINE m == Head(Cr(c))
<1>1. /\ UNCHANGED Br(c) /\ Cr(c)' = Tail(Cr(c)) /\ Bs(c)' = Bs(c) \o up /\ Cs(c)' = Cs(c) \o down
      /\ up \in Seq(ToBroker) /\ down \in Seq(ToClient) /\ Passes(m, up, down)
      /\ asked'[c] = asked[c] /\ owes'[c] = owes[c] /\ replies'[c] = replies[c]
  BY DEF UpMoves, TurnUp, SameClient, SameBroker
<1>2. Cr(c) \in Seq(FromClient) /\ Bs(c) \in Seq(ToBroker) /\ Cs(c) \in Seq(ToClient)
  BY LaneTypes
<1>3. \A x \in Range(Cr(c)') : x.type = "CONNECT" => x \in Range(Cr(c))
  BY <1>1, <1>2, RangeTail
<1>4. /\ Keep(Cr(c), Cr(c)') /\ Keep(Br(c), Br(c)')
      /\ Keep(owes[c], owes'[c]) /\ Keep(replies[c], replies'[c])
  BY <1>1, <1>2, PassTail DEF Keep
<1>5. /\ Clear(up) => Keep(Bs(c), Bs(c)')
      /\ Clear(Bs(c)) /\ Single(up) => Single(Bs(c)')
  BY <1>1, <1>2, PassConcat
<1>6. /\ Clear(down) => Keep(Cs(c), Cs(c)')
      /\ Clear(Cs(c)) /\ Single(down) => Single(Cs(c)')
  BY <1>1, <1>2, PassConcat
<1>7. CASE m.type \notin PassTypes
  <2>1. Keep(Bs(c), Bs(c)') /\ Keep(Cs(c), Cs(c)')
    BY <1>1, <1>5, <1>6, <1>7 DEF Passes
  <2> QED BY <1>1, <1>3, <1>4, <2>1, PassQuiet
<1>8. CASE m.type \in PassTypes
  <2>0. /\ "clientRecv" \in Places /\ "brokerSend" \in Places /\ "clientSend" \in Places
        /\ "clientRecv" # "brokerSend" /\ "clientRecv" # "clientSend"
    BY DEF Places
  <2>1. /\ At(c, "clientRecv") # <<>> /\ Head(At(c, "clientRecv")).type \in PassTypes
        /\ At(c, "clientRecv")' = Tail(At(c, "clientRecv"))
    BY <1>1, <1>8, AtPlaces
  <2>2. ASSUME down = <<>>, Single(up)
        PROVE  OnePass(c)'
    <3>1. Cs(c)' = Cs(c)
      BY <1>1, <1>2, <2>2
    <3>2. \A k \in Places \ {"clientRecv", "brokerSend"} : At(c, k)' = At(c, k)
      BY <1>1, <3>1, AtPlaces DEF Places
    <3>3. Clear(At(c, "brokerSend")) => Single(At(c, "brokerSend")')
      BY <1>5, <2>2, AtPlaces
    <3> QED BY <1>1, <1>3, <2>0, <2>1, <3>2, <3>3, PassMoved
  <2>3. ASSUME up = <<>>, Single(down)
        PROVE  OnePass(c)'
    <3>1. Bs(c)' = Bs(c)
      BY <1>1, <1>2, <2>3
    <3>2. \A k \in Places \ {"clientRecv", "clientSend"} : At(c, k)' = At(c, k)
      BY <1>1, <3>1, AtPlaces DEF Places
    <3>3. Clear(At(c, "clientSend")) => Single(At(c, "clientSend")')
      BY <1>6, <2>3, AtPlaces
    <3> QED BY <1>1, <1>3, <2>0, <2>1, <3>2, <3>3, PassMoved
  <2>4. Single(<<>>) /\ \A x : Single(<<x>>)
    BY DEF Single
  <2> QED BY <1>1, <1>8, <2>2, <2>3, <2>4 DEF Passes
<1> QED BY <1>7, <1>8

LEMMA PassHandlesDown ==
  ASSUME Shape, NEW c \in Clients, OnePass(c), setting' = setting, SameClient(c), SameBroker(c),
         Br(c) # <<>>, NEW down, DownMoves(c, Head(Br(c)), down)
  PROVE  OnePass(c)'
<1> DEFINE m == Head(Br(c))
<1>1. /\ UNCHANGED <<Cr(c), Bs(c)>> /\ Br(c)' = Tail(Br(c)) /\ Cs(c)' = Cs(c) \o down
      /\ down \in Seq(ToClient) /\ PassesDown(m, down)
      /\ asked'[c] = asked[c] /\ owes'[c] = owes[c] /\ replies'[c] = replies[c]
  BY DEF DownMoves, TurnDown, SameClient, SameBroker
<1>2. Br(c) \in Seq(FromBroker) /\ Cs(c) \in Seq(ToClient)
  BY LaneTypes
<1>3. \A x \in Range(Cr(c)') : x.type = "CONNECT" => x \in Range(Cr(c))
  BY <1>1
<1>4. /\ Keep(Br(c), Br(c)') /\ Keep(Cr(c), Cr(c)') /\ Keep(Bs(c), Bs(c)')
      /\ Keep(owes[c], owes'[c]) /\ Keep(replies[c], replies'[c])
  BY <1>1, <1>2, PassTail DEF Keep
<1>5. /\ Clear(down) => Keep(Cs(c), Cs(c)')
      /\ Clear(Cs(c)) /\ Single(down) => Single(Cs(c)')
  BY <1>1, <1>2, PassConcat
<1>6. CASE m.type \notin PassTypes
  <2>1. Keep(Cs(c), Cs(c)')
    BY <1>1, <1>5, <1>6 DEF PassesDown
  <2> QED BY <1>1, <1>3, <1>4, <2>1, PassQuiet
<1>7. CASE m.type \in PassTypes
  <2>1. "brokerRecv" \in Places /\ "clientSend" \in Places /\ "brokerRecv" # "clientSend"
    BY DEF Places
  <2>2. /\ At(c, "brokerRecv") # <<>> /\ Head(At(c, "brokerRecv")).type \in PassTypes
        /\ At(c, "brokerRecv")' = Tail(At(c, "brokerRecv"))
    BY <1>1, <1>7, AtPlaces
  <2>3. Single(down)
    BY <1>1, <1>7 DEF PassesDown, Single
  <2>4. \A k \in Places \ {"brokerRecv", "clientSend"} : At(c, k)' = At(c, k)
    BY <1>1, AtPlaces DEF Places
  <2>5. Clear(At(c, "clientSend")) => Single(At(c, "clientSend")')
    BY <1>5, <2>3, AtPlaces
  <2> QED BY <1>1, <1>3, <2>1, <2>2, <2>4, <2>5, PassMoved
<1> QED BY <1>6, <1>7

LEMMA OnePassStep ==
  ASSUME Shape, NEW c \in Clients, Owned(c), OnePass(c), setting' = setting, Effect(c)
  PROVE  OnePass(c)'
<1>0. asked[c] \subseteq {r \in FromClient : r.type \in DOMAIN AnswerOf}
  BY DEF Shape, ClientShape
<1>1. CASE Asks(c)
  <2>1. PICK m : /\ m.type \in RequestTypes /\ Sends(c, m)
                 /\ asked'[c] = asked[c] \cup {m} /\ owes'[c] = owes[c]
    BY <1>1 DEF Asks
  <2>2. /\ m.type \notin PassTypes /\ Keep(owes[c], owes'[c])
        /\ \A r \in asked[c] : r.type = "CONNECT" => r \in asked'[c]
    BY <2>1 DEF RequestTypes, PassTypes, Keep
  <2> QED BY <2>1, <2>2, PassSends
<1>2. CASE Tells(c)
  <2>1. PICK m : /\ m.type \in {"PUBLISH", "DISCONNECT"} /\ Sends(c, m)
                 /\ asked'[c] = asked[c] /\ owes'[c] = owes[c]
    BY <1>2 DEF Tells
  <2>2. /\ m.type \notin PassTypes /\ Keep(owes[c], owes'[c])
        /\ \A r \in asked[c] : r.type = "CONNECT" => r \in asked'[c]
    BY <2>1 DEF PassTypes, Keep
  <2> QED BY <2>1, <2>2, PassSends
<1>3. CASE Repeats(c)
  <2>1. PICK m \in asked[c] : Sends(c, m)
    BY <1>3 DEF Repeats
  <2>2. asked'[c] = asked[c] /\ owes'[c] = owes[c] /\ (~setting.repeat => ~Connecting(c))
    BY <1>3 DEF Repeats, SameClient
  <2>3. CASE setting.repeat
    BY <2>3 DEF OnePass
  <2>4. CASE ~setting.repeat
    <3>1. /\ m.type \notin PassTypes /\ Keep(owes[c], owes'[c])
          /\ \A r \in asked[c] : r.type = "CONNECT" => r \in asked'[c]
      BY <1>0, <2>2, <2>4 DEF AnswerOf, PassTypes, Keep, Connecting
    <3> QED BY <2>1, <3>1, PassSends
  <2> QED BY <2>3, <2>4
<1>4. CASE Idles(c)
  <2>1. /\ UNCHANGED <<Cr(c), Bs(c), Br(c), Cs(c)>>
        /\ owes'[c] = owes[c] /\ replies'[c] = replies[c] /\ asked'[c] = asked[c]
    BY <1>4 DEF Idles, SameBroker
  <2>2. /\ Keep(Cr(c), Cr(c)') /\ Keep(Bs(c), Bs(c)') /\ Keep(Br(c), Br(c)') /\ Keep(Cs(c), Cs(c)')
        /\ Keep(owes[c], owes'[c]) /\ Keep(replies[c], replies'[c])
    BY <2>1 DEF Keep
  <2> QED BY <2>1, <2>2, PassQuiet
<1>5. CASE Misses(c)
  <2>1. /\ UNCHANGED <<Cr(c), Bs(c), Br(c)>> /\ Cs(c) # <<>> /\ Cs(c)' = Tail(Cs(c))
        /\ owes'[c] = owes[c] /\ replies'[c] = replies[c] /\ asked'[c] = asked[c]
    BY <1>5 DEF Misses, SameBroker, SameClient
  <2>2. /\ Keep(Cr(c), Cr(c)') /\ Keep(Bs(c), Bs(c)') /\ Keep(Br(c), Br(c)') /\ Keep(Cs(c), Cs(c)')
        /\ Keep(owes[c], owes'[c]) /\ Keep(replies[c], replies'[c])
    BY <2>1, LaneTypes, PassTail DEF Keep
  <2> QED BY <2>1, <2>2, PassQuiet
<1>6. CASE Publishes(c)
  <2>1. /\ UNCHANGED <<Cr(c), Bs(c), Br(c), Cs(c)>> /\ owes'[c] = owes[c] /\ asked'[c] = asked[c]
    BY <1>6 DEF Publishes, SameClient
  <2>2. PICK x \in FromBroker : x.type = "PUBLISH" /\ replies'[c] = Append(replies[c], x)
    BY <1>6 DEF Publishes
  <2>3. Keep(replies[c], replies'[c])
    <3>1. x.type \notin PassTypes => Keep(replies[c], Append(replies[c], x))
      BY LaneTypes, PassAppend
    <3> QED BY <2>2, <3>1 DEF PassTypes
  <2>4. /\ Keep(Cr(c), Cr(c)') /\ Keep(Bs(c), Bs(c)') /\ Keep(Br(c), Br(c)') /\ Keep(Cs(c), Cs(c)')
        /\ Keep(owes[c], owes'[c])
    BY <2>1 DEF Keep
  <2> QED BY <2>1, <2>3, <2>4, PassQuiet
<1>7. CASE Drops(c)
  <2>1. /\ UNCHANGED <<Cr(c), Bs(c), Br(c), Cs(c)>> /\ owes'[c] = owes[c] /\ asked'[c] = asked[c]
        /\ replies'[c] \in {replies[c], <<>>}
    BY <1>7 DEF Drops, SameClient
  <2>2. Clear(<<>>) /\ Single(<<>>)
    BY NoMessage DEF Single
  <2>3. /\ Keep(Cr(c), Cr(c)') /\ Keep(Bs(c), Bs(c)') /\ Keep(Br(c), Br(c)') /\ Keep(Cs(c), Cs(c)')
        /\ Keep(owes[c], owes'[c]) /\ Keep(replies[c], replies'[c])
    BY <2>1, <2>2 DEF Keep
  <2> QED BY <2>1, <2>3, PassQuiet
<1> QED BY <1>1, <1>2, <1>3, <1>4, <1>5, <1>6, <1>7, PassConnects, PassPays, PassDelivers,
           PassForwards, PassReceives, PassHandlesUp, PassHandlesDown DEF Effect
------------------------------------------------------------------------------
(* Names and ids.                                                          *)
LEMMA PrecedesAppend ==
  ASSUME NEW S, NEW s \in Seq(S), NEW x \in S, NEW a, NEW b, Precedes(Append(s, x), a, b)
  PROVE  a \in Range(s) /\ (b = x \/ (b \in Range(s) /\ Precedes(s, a, b)))
<1>1. /\ DOMAIN s = 1 .. Len(s) /\ DOMAIN Append(s, x) = 1 .. Len(s) + 1 /\ Len(s) \in Nat
      /\ \A i \in 1 .. Len(s) : Append(s, x)[i] = s[i]
      /\ Append(s, x)[Len(s) + 1] = x
  OBVIOUS
<1>2. PICK i, j \in 1 .. Len(s) + 1 : i < j /\ Append(s, x)[i] = a /\ Append(s, x)[j] = b
  BY <1>1 DEF Precedes
<1>3. i \in 1 .. Len(s) /\ s[i] = a /\ (j = Len(s) + 1 \/ j \in 1 .. Len(s))
  BY <1>1, <1>2
<1>4. CASE j = Len(s) + 1
  BY <1>1, <1>2, <1>3, <1>4 DEF Range
<1>5. CASE j \in 1 .. Len(s)
  <2>1. s[j] = b
    BY <1>1, <1>2, <1>5
  <2> QED BY <1>1, <1>2, <1>3, <1>5, <2>1 DEF Range, Precedes
<1> QED BY <1>3, <1>4, <1>5

LEMMA PrecedesTail ==
  ASSUME NEW S, NEW s \in Seq(S), s # <<>>, NEW b
  PROVE  /\ \A a : Precedes(Tail(s), a, b) => Precedes(s, a, b)
         /\ b \in Range(Tail(s)) => Precedes(s, Head(s), b)
<1>1. /\ Len(s) \in Nat /\ Len(s) >= 1 /\ Head(s) = s[1]
      /\ \A i \in 1 .. Len(s) - 1 : Tail(s)[i] = s[i + 1]
      /\ DOMAIN Tail(s) = 1 .. Len(s) - 1 /\ DOMAIN s = 1 .. Len(s)
  BY RangeTail
<1>2. ASSUME NEW a, Precedes(Tail(s), a, b)
      PROVE  Precedes(s, a, b)
  <2>1. PICK i, j \in 1 .. Len(s) - 1 : i < j /\ Tail(s)[i] = a /\ Tail(s)[j] = b
    BY <1>1, <1>2 DEF Precedes
  <2>2. i + 1 \in 1 .. Len(s) /\ j + 1 \in 1 .. Len(s) /\ i + 1 < j + 1 /\ s[i + 1] = a /\ s[j + 1] = b
    BY <1>1, <2>1
  <2> QED BY <1>1, <2>2 DEF Precedes
<1>3. ASSUME b \in Range(Tail(s))
      PROVE  Precedes(s, Head(s), b)
  <2>1. PICK j \in 1 .. Len(s) - 1 : Tail(s)[j] = b
    BY <1>1, <1>3 DEF Range
  <2>2. 1 \in 1 .. Len(s) /\ j + 1 \in 1 .. Len(s) /\ 1 < j + 1 /\ s[j + 1] = b
    BY <1>1, <2>1
  <2> QED BY <1>1, <2>2 DEF Precedes
<1> QED BY <1>2, <1>3

LEMMA PrecedesConcat ==
  ASSUME NEW S, NEW s \in Seq(S), NEW t \in Seq(S), NEW a, NEW b, b \notin Range(t),
         Precedes(s \o t, a, b)
  PROVE  a \in Range(s) /\ Precedes(s, a, b)
<1>1. /\ Len(s) \in Nat /\ Len(t) \in Nat /\ DOMAIN s = 1 .. Len(s) /\ DOMAIN t = 1 .. Len(t)
      /\ DOMAIN (s \o t) = 1 .. Len(s) + Len(t)
      /\ \A i \in 1 .. Len(s) : (s \o t)[i] = s[i]
      /\ \A i \in Len(s) + 1 .. Len(s) + Len(t) : (s \o t)[i] = t[i - Len(s)]
  OBVIOUS
<1>2. PICK i, j \in 1 .. Len(s) + Len(t) : i < j /\ (s \o t)[i] = a /\ (s \o t)[j] = b
  BY <1>1 DEF Precedes
<1>3. j \in 1 .. Len(s)
  <2>1. ASSUME j > Len(s)
        PROVE  FALSE
    <3>1. j - Len(s) \in 1 .. Len(t) /\ t[j - Len(s)] = b
      BY <1>1, <1>2, <2>1
    <3> QED BY <1>1, <3>1 DEF Range
  <2> QED BY <1>1, <1>2, <2>1
<1>4. i \in 1 .. Len(s) /\ s[i] = a /\ s[j] = b
  BY <1>1, <1>2, <1>3
<1> QED BY <1>1, <1>2, <1>3, <1>4 DEF Precedes, Range

\* Who does not change the table.
LEMMA SameStands ==
  ASSUME NEW c, SameNodeAt(c), setting' = setting
  PROVE  /\ Steady' = Steady /\ topics'[c] = topics[c] /\ waitedSubAck'[c] = waitedSubAck[c]
         /\ \A n, i : Stands(c, n, i)' = Stands(c, n, i)
<1>1. Steady' = Steady /\ topics'[c] = topics[c] /\ waitedSubAck'[c] = waitedSubAck[c]
  BY DEF SameNodeAt, Steady
<1> QED BY <1>1 DEF Stands

LEMMA SameAnnounced ==
  ASSUME NEW c, Announced(c), Cs(c)' = Cs(c), topics'[c] = topics[c], Steady' = Steady,
         Steady /\ Renewing(c) => Renewing(c)'
  PROVE  Announced(c)'
<1>1. Steady => \A m : Current(c, m) => Current(c, m)'
  BY DEF Current
<1> QED BY <1>1 DEF Announced

LEMMA NamingSends ==
  ASSUME Shape, NEW c \in Clients, Naming(c), setting' = setting, NEW m, Sends(c, m),
         names'[c] = names[c], requests'[c] \in Nat, requests'[c] >= requests[c],
         \/ asked'[c] = asked[c]
         \/ asked'[c] = asked[c] \cup {m} /\ m.type \in RequestTypes,
         m.type = "PUBLISH" => Stands(c, m.data, m.id) /\ ~Renewing(c),
         m.type = "CONNECT" => m \in asked[c],
         m.type \in {"REGISTER", "SUBSCRIBE"} =>
           m \in asked[c] \/ (m.msgId = requests[c] + 1 /\ requests'[c] = requests[c] + 1)
  PROVE  Naming(c)'
<1>0. /\ Naming(c) /\ NamesStand(c) /\ RightNames(c) /\ RenewsLast(c) /\ Announced(c)
      /\ Numbered(c) /\ AnswersStand(c)
  BY DEF Naming
<1>1. /\ Steady' = Steady /\ topics'[c] = topics[c] /\ waitedSubAck'[c] = waitedSubAck[c]
      /\ \A n, i : Stands(c, n, i)' = Stands(c, n, i)
  BY SameStands DEF Sends
<1>2. UNCHANGED <<Bs(c), Cs(c), stored[c]>> /\ m \in FromClient /\ Cr(c) \in Seq(FromClient)
  BY LaneTypes DEF Sends, SameBroker
<1>3. Range(Cr(c)') \subseteq Range(Cr(c)) \cup {m}
  <2>1. CASE Cr(c)' = Append(Cr(c), m)
    BY <1>2, <2>1, RangeAppend
  <2>2. CASE Cr(c)' = Cr(c)
    BY <2>2
  <2> QED BY <2>1, <2>2 DEF Sends
<1>4. \A x, y : Precedes(Cr(c)', x, y) =>
         x \in Range(Cr(c)) /\ (y = m \/ (y \in Range(Cr(c)) /\ Precedes(Cr(c), x, y)))
  <2>1. CASE Cr(c)' = Append(Cr(c), m)
    BY <1>2, <2>1, PrecedesAppend
  <2>2. CASE Cr(c)' = Cr(c)
    BY <2>2 DEF Precedes, Range
  <2> QED BY <2>1, <2>2 DEF Sends
<1>5. /\ asked[c] \subseteq asked'[c] /\ asked'[c] \subseteq asked[c] \cup {m}
      /\ \A r \in asked'[c] : r \in asked[c] \/ (r = m /\ m.type \in RequestTypes)
  OBVIOUS
<1>6. Renewing(c)' <=> Renewing(c)
  BY <1>5 DEF Renewing, RequestTypes
<1>7. requests[c] \in Nat
  BY DEF Shape, ClientShape
<1>8. NamesStand(c)'
  BY <1>0, <1>1, <1>3, <1>5 DEF NamesStand
<1>9. RightNames(c)'
  BY <1>0, <1>1, <1>2 DEF RightNames
<1>10. RenewsLast(c)'
  <2>1. ASSUME Steady, NEW x, NEW y, Precedes(Cr(c)', x, y), Renews(x)
        PROVE  y.type # "PUBLISH"
    BY <1>0, <1>4, <2>1 DEF RenewsLast
  <2>2. ASSUME Steady, NEW x \in Range(Cr(c)'), Renews(x)
        PROVE  Renewing(c)
    <3>1. CASE x \in Range(Cr(c))
      BY <1>0, <2>2, <3>1 DEF RenewsLast
    <3>2. CASE x = m
      BY <2>2, <3>2 DEF Renews, Renewing
    <3> QED BY <1>3, <3>1, <3>2
  <2> QED BY <1>0, <1>1, <1>6, <2>1, <2>2 DEF RenewsLast
<1>11. Announced(c)'
  BY <1>0, <1>1, <1>2, <1>6, SameAnnounced
<1>12. Numbered(c)'
  <2>1. ASSUME NEW x \in Range(Cr(c)') \cup asked'[c], x.type \in {"REGISTER", "SUBSCRIBE"}
        PROVE  x.msgId \in Int /\ x.msgId <= requests'[c]
    <3>1. x \in Range(Cr(c)) \cup asked[c] \/ (x = m /\ x \notin asked[c])
      BY <1>3, <1>5
    <3>2. x.msgId \in Nat
      <4>1. Range(Cr(c)) \subseteq FromClient /\ asked[c] \subseteq FromClient
        BY <1>2, RangeType DEF Shape, ClientShape
      <4> QED BY <1>2, <3>1, <4>1 DEF FromClient, AnyMessage
    <3> QED BY <1>0, <1>7, <2>1, <3>1, <3>2 DEF Numbered
  <2>2. ASSUME NEW x \in Range(Cs(c)) \cup {waitedSubAck[c]}, x.type \in {"REGACK", "SUBACK"}
        PROVE  x.msgId <= requests'[c]
    <3>1. x.msgId \in Nat
      <4>1. Range(Cs(c)) \subseteq ToClient /\ waitedSubAck[c] \in {None} \cup ToClient
        BY LaneTypes, RangeType DEF Shape, NodeShape
      <4> QED BY <4>1, NoneFact DEF ToClient, AnyMessage
    <3> QED BY <1>0, <1>7, <2>2, <3>1 DEF Numbered
  <2>3. ASSUME NEW x \in Range(Cr(c)') \cup asked'[c], NEW r \in asked'[c],
               x.type \in {"REGISTER", "SUBSCRIBE"}, x.type = r.type, x.msgId = r.msgId
        PROVE  x = r
    <3>1. CASE x \in Range(Cr(c)) \cup asked[c] /\ r \in asked[c]
      BY <1>0, <2>3, <3>1 DEF Numbered
    <3>2. CASE x = m /\ r = m
      BY <3>2
    <3>3. CASE x \in Range(Cr(c)) \cup asked[c] /\ r = m /\ m \notin asked[c]
      <4>1. r.msgId = requests[c] + 1 /\ x.msgId <= requests[c]
        BY <1>0, <2>3, <3>3 DEF Numbered
      <4> QED BY <1>7, <2>3, <4>1
    <3>4. CASE x = m /\ m \notin asked[c] /\ r \in asked[c]
      <4>1. x.msgId = requests[c] + 1 /\ r.msgId <= requests[c]
        BY <1>0, <2>3, <3>4 DEF Numbered
      <4> QED BY <1>7, <2>3, <4>1
    <3> QED BY <1>3, <1>5, <3>1, <3>2, <3>3, <3>4
  <2> QED BY <1>1, <1>2, <2>1, <2>2, <2>3 DEF Numbered
<1>13. AnswersStand(c)'
  <2> SUFFICES ASSUME NEW x \in Range(Cs(c)) \cup {waitedSubAck[c]}, NEW r \in asked'[c],
                      x.type \in {"REGACK", "SUBACK"}, AnswerOf[r.type] = x.type, x.msgId = r.msgId,
                      r.name \in LongNames, x.id # NoTopic
               PROVE  Stands(c, r.name, x.id)
    BY <1>1, <1>2 DEF AnswersStand
  <2>1. CASE r \in asked[c]
    BY <1>0, <2>1 DEF AnswersStand
  <2>2. CASE r = m /\ m \notin asked[c] /\ m.type \in RequestTypes
    <3>1. m.type \in {"REGISTER", "SUBSCRIBE"}
      BY <2>2 DEF RequestTypes, AnswerOf
    <3>2. r.msgId = requests[c] + 1 /\ x.msgId <= requests[c]
      BY <1>0, <2>2, <3>1 DEF Numbered
    <3> QED BY <1>7, <3>2
  <2> QED BY <1>5, <2>1, <2>2
<1> QED BY <1>8, <1>9, <1>10, <1>11, <1>12, <1>13 DEF Naming

LEMMA NamingConnects ==
  ASSUME Shape, NEW c \in Clients, Owned(c), OnePass(c), Naming(c), setting' = setting, Connects(c)
  PROVE  Naming(c)'
<1>0. /\ NamesStand(c) /\ RightNames(c) /\ RenewsLast(c) /\ Announced(c)
      /\ Numbered(c) /\ AnswersStand(c)
  BY DEF Naming
<1>1. PICK m \in FromClient : /\ m.type = "CONNECT" /\ m.flags \in setting.flags
                              /\ Sends(c, m) /\ asked'[c] = {m} /\ requests'[c] = requests[c]
                              /\ names'[c] = IF "clean" \in m.flags THEN {} ELSE names[c]
                              /\ ~setting.repeat => active[c] \/ ~Connecting(c)
  BY DEF Connects
<1>2. /\ Steady' = Steady /\ topics'[c] = topics[c] /\ waitedSubAck'[c] = waitedSubAck[c]
      /\ \A n, i : Stands(c, n, i)' = Stands(c, n, i)
  BY <1>1, SameStands DEF Sends
<1>3. UNCHANGED <<Bs(c), Cs(c), stored[c]>> /\ Cr(c) \in Seq(FromClient)
  BY <1>1, LaneTypes DEF Sends, SameBroker
<1>4. /\ Range(Cr(c)') \subseteq Range(Cr(c)) \cup {m}
      /\ \A x, y : Precedes(Cr(c)', x, y) =>
           x \in Range(Cr(c)) /\ (y = m \/ (y \in Range(Cr(c)) /\ Precedes(Cr(c), x, y)))
  <2>1. CASE Cr(c)' = Append(Cr(c), m)
    BY <1>3, <2>1, RangeAppend, PrecedesAppend
  <2>2. CASE Cr(c)' = Cr(c)
    BY <2>2 DEF Precedes, Range
  <2> QED BY <1>1, <2>1, <2>2 DEF Sends
<1>5. Steady => ~Renewing(c) /\ \A x \in Range(Cr(c)) : ~Renews(x)
  <2>1. ASSUME Steady, setting.repeat
        PROVE  ~Renewing(c) /\ \A x \in Range(Cr(c)) : ~Renews(x)
    BY <1>0, <2>1 DEF RenewsLast
  <2>2. ASSUME Steady, ~setting.repeat
        PROVE  ~Renewing(c) /\ \A x \in Range(Cr(c)) : ~Renews(x)
    <3>1. ~Connecting(c)
      BY <1>1, <2>2 DEF Owned, Connecting
    <3> QED BY <1>0, <2>2, <3>1 DEF RenewsLast, Renewing, Connecting
  <2> QED BY <2>1, <2>2
<1>6. NamesStand(c)'
  BY <1>0, <1>1, <1>2, <1>4 DEF NamesStand
<1>7. RightNames(c)'
  BY <1>0, <1>2, <1>3 DEF RightNames
<1>8. RenewsLast(c)'
  <2>1. ASSUME Steady, NEW x, NEW y, Precedes(Cr(c)', x, y), Renews(x)
        PROVE  y.type # "PUBLISH"
    BY <1>0, <1>1, <1>4, <2>1 DEF RenewsLast
  <2>2. ASSUME Steady, NEW x \in Range(Cr(c)'), Renews(x)
        PROVE  Renewing(c)'
    <3>1. x = m
      BY <1>4, <1>5, <2>2
    <3> QED BY <1>1, <2>2, <3>1 DEF Renews, Renewing
  <2>3. ASSUME Renewing(c)'
        PROVE  names'[c] = {} /\ ~(Steady /\ setting.repeat)
    <3>1. "clean" \in m.flags
      BY <1>1, <2>3 DEF Renewing
    <3> QED BY <1>1, <3>1 DEF Steady
  <2> QED BY <1>2, <2>1, <2>2, <2>3 DEF RenewsLast
<1>9. Announced(c)'
  BY <1>0, <1>2, <1>3, <1>5, SameAnnounced
<1>10. Numbered(c)'
  BY <1>0, <1>1, <1>2, <1>3, <1>4 DEF Numbered
<1>11. AnswersStand(c)'
  <2>1. AnswerOf[m.type] = "CONNACK"
    BY <1>1 DEF AnswerOf
  <2> QED BY <1>1, <2>1 DEF AnswersStand
<1> QED BY <1>6, <1>7, <1>8, <1>9, <1>10, <1>11 DEF Naming

\* The front of what is on its way to the client is gone.
LEMMA NamingTakes ==
  ASSUME Shape, NEW c \in Clients, Naming(c), setting' = setting,
         Cs(c) # <<>>, Cs(c)' = Tail(Cs(c)), UNCHANGED <<Cr(c), Bs(c), stored[c], requests[c]>>,
         SameNodeAt(c), asked'[c] \subseteq asked[c],
         Steady /\ Renewing(c) /\ Head(Cs(c)).type # "CONNACK" => Renewing(c)',
         Steady => \A x \in Range(Cr(c)) : Renews(x) => Renewing(c)',
         \A p \in names'[c] : Stands(c, p[2], p[1]),
         Renewing(c) => names'[c] = {}
  PROVE  Naming(c)'
<1>0. /\ NamesStand(c) /\ RightNames(c) /\ RenewsLast(c) /\ Announced(c)
      /\ Numbered(c) /\ AnswersStand(c)
  BY DEF Naming
<1>1. /\ Steady' = Steady /\ topics'[c] = topics[c] /\ waitedSubAck'[c] = waitedSubAck[c]
      /\ \A n, i : Stands(c, n, i)' = Stands(c, n, i)
  BY SameStands
<1>2. /\ Range(Cs(c)') \subseteq Range(Cs(c))
      /\ \A x, y : Precedes(Cs(c)', x, y) => Precedes(Cs(c), x, y)
      /\ \A y \in Range(Cs(c)') : Precedes(Cs(c), Head(Cs(c)), y)
      /\ Head(Cs(c)) \in Range(Cs(c))
  <2>1. Cs(c) \in Seq(ToClient)
    BY LaneTypes
  <2>2. Range(Cs(c)') \subseteq Range(Cs(c)) /\ Head(Cs(c)) \in Range(Cs(c))
    BY <2>1, RangeTail
  <2>3. ASSUME NEW y
        PROVE  /\ \A x : Precedes(Tail(Cs(c)), x, y) => Precedes(Cs(c), x, y)
               /\ y \in Range(Tail(Cs(c))) => Precedes(Cs(c), Head(Cs(c)), y)
    BY <2>1, PrecedesTail
  <2> QED BY <2>2, <2>3
<1>3. Renewing(c)' => Renewing(c)
  BY DEF Renewing
<1>4. NamesStand(c)' /\ RightNames(c)' /\ Numbered(c)' /\ AnswersStand(c)'
  <2>1. NamesStand(c)'
    BY <1>0, <1>1 DEF NamesStand
  <2>2. RightNames(c)'
    BY <1>0, <1>1 DEF RightNames
  <2>3. Numbered(c)'
    BY <1>0, <1>1, <1>2 DEF Numbered
  <2>4. AnswersStand(c)'
    BY <1>0, <1>1, <1>2 DEF AnswersStand
  <2> QED BY <2>1, <2>2, <2>3, <2>4
<1>5. RenewsLast(c)'
  BY <1>0, <1>1, <1>3 DEF RenewsLast
<1>6. Announced(c)'
  <2> SUFFICES ASSUME Steady, NEW m \in Range(Cs(c)'), NamesAnId(m)
               PROVE  Current(c, m)'
    BY <1>1 DEF Announced
  <2>1. CASE HasEntry(topics[c], NameIn(m), m.id)
    BY <1>1, <2>1 DEF Current
  <2>2. CASE Renewing(c) /\ \A x \in Range(Cs(c)) : Precedes(Cs(c), x, m) => x.type # "CONNACK"
    <3>1. Head(Cs(c)).type # "CONNACK"
      BY <1>2, <2>2
    <3>2. Renewing(c)'
      BY <2>2, <3>1
    <3> QED BY <1>2, <2>2, <3>2 DEF Current
  <2> QED BY <1>0, <1>2, <2>1, <2>2 DEF Announced, Current
<1> QED BY <1>4, <1>5, <1>6 DEF Naming

LEMMA NamingMisses ==
  ASSUME Shape, NEW c \in Clients, Naming(c), setting' = setting, Misses(c)
  PROVE  Naming(c)'
<1>1. /\ Cs(c) # <<>> /\ Cs(c)' = Tail(Cs(c)) /\ UNCHANGED <<Cr(c), Bs(c), stored[c], requests[c]>>
      /\ SameNodeAt(c) /\ asked'[c] = asked[c] /\ names'[c] = names[c]
  BY DEF Misses, SameBroker, SameClient
<1>2. Renewing(c)' = Renewing(c)
  BY <1>1 DEF Renewing
<1>3. /\ Steady => \A x \in Range(Cr(c)) : Renews(x) => Renewing(c)'
      /\ Renewing(c) => names'[c] = {}
      /\ \A p \in names'[c] : Stands(c, p[2], p[1])
  BY <1>1, <1>2 DEF Naming, RenewsLast, NamesStand
<1>4. asked'[c] \subseteq asked[c]
  BY <1>1
<1> QED BY <1>1, <1>2, <1>3, <1>4, NamingTakes

LEMMA NamingDelivers ==
  ASSUME Shape, NEW c \in Clients, Owned(c), OnePass(c), Naming(c), setting' = setting,
         NEW m \in ToClient, Delivers(c, m)
  PROVE  Naming(c)'
<1>0. NamesStand(c) /\ RenewsLast(c) /\ Announced(c) /\ AnswersStand(c)
  BY DEF Naming
<1>1. /\ Cs(c) # <<>> /\ m = Head(Cs(c)) /\ Cs(c)' = Tail(Cs(c))
      /\ UNCHANGED <<Cr(c), Bs(c), stored[c], requests[c]>> /\ SameNodeAt(c)
      /\ asked'[c] = asked[c] \ Answered(c, m)
      /\ names'[c] = {p \in names[c] : \A q \in Told(c, m) : p[1] # q[1]} \cup Told(c, m)
  BY DEF Delivers, SameBroker
<1>2. m \in Range(Cs(c)) /\ Cs(c) \in Seq(ToClient) /\ Cr(c) \in Seq(FromClient)
  BY <1>1, LaneTypes, RangeTail
<1>3. ASSUME Renewing(c), m.type # "CONNACK"
      PROVE  Renewing(c)'
  <2>1. PICK r \in asked[c] : r.type = "CONNECT" /\ "clean" \in r.flags
    BY <1>3 DEF Renewing
  <2>2. r \notin Answered(c, m)
    BY <1>3, <2>1 DEF Answered, AnswerOf
  <2> QED BY <1>1, <2>1, <2>2 DEF Renewing
<1>4. ASSUME Steady, NEW x \in Range(Cr(c)), Renews(x)
      PROVE  Renewing(c)'
  <2>1. Renewing(c) /\ ~setting.repeat
    BY <1>0, <1>4 DEF RenewsLast
  <2>2. m.type # "CONNACK"
    <3>1. ~Clear(Cr(c))
      BY <1>4 DEF Clear, Renews, PassTypes
    <3>2. Clear(Cs(c))
      <4>1. PICK p \in Places : \A q \in Places \ {p} : Clear(At(c, q))
        BY <2>1 DEF OnePass
      <4>2. p = "clientRecv"
        BY <3>1, <4>1, AtPlaces DEF Places
      <4> QED BY <4>1, <4>2, AtPlaces DEF Places
    <3> QED BY <1>2, <3>2 DEF Clear, PassTypes
  <2> QED BY <1>3, <2>1, <2>2
<1>5. ASSUME NEW p \in Told(c, m)
      PROVE  Stands(c, p[2], p[1]) /\ ~Renewing(c)
  <2>1. /\ p[1] = m.id
        /\ \/ m.type = "REGISTER" /\ p[2] = m.name /\ ~Renewing(c)
           \/ \E r \in asked[c] : /\ AnswerOf[r.type] = m.type /\ r.msgId = m.msgId
                                  /\ r.type \in {"REGISTER", "SUBSCRIBE"} /\ p[2] = r.name
                                  /\ r.name \in LongNames /\ m.id # NoTopic
    BY <1>5, ToldFacts
  <2>2. CASE m.type = "REGISTER" /\ p[2] = m.name /\ ~Renewing(c)
    <3>1. m.id > BaseId
      BY <2>2 DEF ToClient
    <3>2. Steady => HasEntry(topics[c], m.name, m.id)
      BY <1>0, <1>2, <2>2 DEF Announced, Current, NamesAnId, NameIn
    <3> QED BY <2>1, <2>2, <3>1, <3>2 DEF Stands
  <2>3. ASSUME NEW r \in asked[c], AnswerOf[r.type] = m.type, r.msgId = m.msgId,
               r.type \in {"REGISTER", "SUBSCRIBE"}, p[2] = r.name,
               r.name \in LongNames, m.id # NoTopic
        PROVE  Stands(c, p[2], p[1]) /\ ~Renewing(c)
    <3>1. m.type \in {"REGACK", "SUBACK"}
      BY <2>3 DEF AnswerOf
    <3>2. Stands(c, r.name, m.id)
      BY <1>0, <1>2, <2>3, <3>1 DEF AnswersStand
    <3>3. ~Renewing(c)
      BY <2>3 DEF Owned, Renewing
    <3> QED BY <2>1, <2>3, <3>2, <3>3
  <2> QED BY <2>1, <2>2, <2>3
<1>6. \A p \in names'[c] : Stands(c, p[2], p[1])
  BY <1>0, <1>1, <1>5 DEF NamesStand
<1>7. Renewing(c) => names'[c] = {}
  BY <1>0, <1>1, <1>5 DEF RenewsLast
<1>8. asked'[c] \subseteq asked[c]
  BY <1>1
<1> QED BY <1>1, <1>3, <1>4, <1>6, <1>7, <1>8, NamingTakes

\* A step of the broker's side.
LEMMA NamingBroker ==
  ASSUME Shape, NEW c \in Clients, Naming(c), setting' = setting, SameNodeAt(c),
         UNCHANGED <<Cr(c), Cs(c), asked[c], names[c]>>,
         requests'[c] \in Nat, requests'[c] >= requests[c],
         Range(Bs(c)') \subseteq Range(Bs(c)),
         \A s \in stored'[c] : s[2] \in Names /\ (Steady => s[2] = s[3])
  PROVE  Naming(c)'
<1>0. /\ NamesStand(c) /\ RightNames(c) /\ RenewsLast(c) /\ Announced(c)
      /\ Numbered(c) /\ AnswersStand(c)
  BY DEF Naming
<1>1. /\ Steady' = Steady /\ topics'[c] = topics[c] /\ waitedSubAck'[c] = waitedSubAck[c]
      /\ \A n, i : Stands(c, n, i)' = Stands(c, n, i)
  BY SameStands
<1>2. Renewing(c)' = Renewing(c)
  BY DEF Renewing
<1>3. requests[c] \in Nat
  BY DEF Shape, ClientShape
<1>4. \A x \in Range(Cr(c)) \cup asked[c] \cup Range(Cs(c)) \cup {waitedSubAck[c]} : x.msgId \in Nat
  <2>1. Range(Cr(c)) \subseteq FromClient /\ asked[c] \subseteq FromClient
    BY LaneTypes, RangeType DEF Shape, ClientShape
  <2>2. Range(Cs(c)) \subseteq ToClient /\ waitedSubAck[c] \in {None} \cup ToClient
    BY LaneTypes, RangeType DEF Shape, NodeShape
  <2> QED BY <2>1, <2>2, NoneFact DEF FromClient, ToClient, AnyMessage
<1>5. NamesStand(c)' /\ AnswersStand(c)' /\ RenewsLast(c)'
  BY <1>0, <1>1, <1>2 DEF NamesStand, AnswersStand, RenewsLast
<1>6. RightNames(c)'
  BY <1>0, <1>1 DEF RightNames
<1>7. Announced(c)'
  BY <1>0, <1>1, <1>2, SameAnnounced
<1>8. Numbered(c)'
  BY <1>0, <1>1, <1>3, <1>4 DEF Numbered
<1> QED BY <1>5, <1>6, <1>7, <1>8 DEF Naming

LEMMA NamingForwards ==
  ASSUME Shape, NEW c \in Clients, Naming(c), setting' = setting, Forwards(c)
  PROVE  Naming(c)'
<1>1. /\ Bs(c) # <<>> /\ Bs(c)' = Tail(Bs(c)) /\ UNCHANGED <<Cr(c), Cs(c), asked[c], names[c]>>
      /\ SameNodeAt(c) /\ requests'[c] = requests[c] /\ requests[c] \in Nat
  BY DEF Forwards, SameClient, Shape, ClientShape
<1>2. Range(Bs(c)') \subseteq Range(Bs(c)) /\ Head(Bs(c)) \in Range(Bs(c))
  BY <1>1, LaneTypes, RangeTail
<1>3. ASSUME NEW s \in stored'[c]
      PROVE  s[2] \in Names /\ (Steady => s[2] = s[3])
  <2>1. CASE s \in stored[c]
    BY <2>1 DEF Naming, RightNames
  <2>2. CASE s \notin stored[c]
    <3>1. PICK m \in ToBroker : m = Head(Bs(c)) /\ m.type = "PUBLISH" /\ s = <<m.msgId, m.name, m.data>>
      BY <1>3, <2>2 DEF Forwards
    <3>2. m.name \in Names /\ (Steady => m.name = m.data)
      BY <1>2, <3>1 DEF Naming, RightNames
    <3>3. s[2] = m.name /\ s[3] = m.data
      BY <3>1
    <3> QED BY <3>2, <3>3
  <2> QED BY <2>1, <2>2
<1>4. requests'[c] \in Nat /\ requests'[c] >= requests[c]
  BY <1>1
<1> QED BY <1>1, <1>2, <1>3, <1>4, NamingBroker

\* What is put behind the messages for the client.
LEMMA CurrentKept ==
  ASSUME Shape, NEW c \in Clients, NEW down \in Seq(ToClient), Cs(c)' = Cs(c) \o down,
         NEW m, m \notin Range(down), Current(c, m),
         HasEntry(topics[c], NameIn(m), m.id) =>
           HasEntry(topics'[c], NameIn(m), m.id) \/ (Renewing(c)' /\ Clear(Cs(c))),
         Renewing(c) => Renewing(c)'
  PROVE  Current(c, m)'
<1>1. ASSUME NEW x, Precedes(Cs(c)', x, m)
      PROVE  x \in Range(Cs(c)) /\ Precedes(Cs(c), x, m)
  BY <1>1, LaneTypes, PrecedesConcat
<1>2. CASE HasEntry(topics'[c], NameIn(m), m.id)
  BY <1>2 DEF Current
<1>3. CASE Renewing(c)' /\ Clear(Cs(c))
  BY <1>1, <1>3 DEF Current, Clear, PassTypes
<1>4. CASE Renewing(c) /\ \A x \in Range(Cs(c)) : Precedes(Cs(c), x, m) => x.type # "CONNACK"
  BY <1>1, <1>4 DEF Current
<1> QED BY <1>2, <1>3, <1>4 DEF Current

LEMMA NamingHandlesDown ==
  ASSUME Shape, Shape', NEW c \in Clients, Naming(c), setting' = setting,
         SameClient(c), SameBroker(c), NEW m, NEW down, DownMoves(c, m, down)
  PROVE  Naming(c)'
<1>0. /\ NamesStand(c) /\ RightNames(c) /\ RenewsLast(c) /\ Announced(c)
      /\ Numbered(c) /\ AnswersStand(c)
  BY DEF Naming
<1>1. /\ UNCHANGED <<Cr(c), Bs(c), stored[c], asked[c], names[c], requests[c]>>
      /\ Cs(c)' = Cs(c) \o down /\ down \in Seq(ToClient) /\ NamesDown(c, down)
  BY DEF DownMoves, TurnDown, SameClient, SameBroker
<1>2. Steady' = Steady /\ Renewing(c)' = Renewing(c)
  BY <1>1 DEF Steady, Renewing
<1>3. \A n, i : Stands(c, n, i) => Stands(c, n, i)'
  BY <1>1, <1>2 DEF NamesDown, Stands
<1>4. Range(Cs(c)') = Range(Cs(c)) \cup Range(down)
  BY <1>1, LaneTypes, RangeConcat
<1>5. \A x \in Range(Cs(c)') \cup {waitedSubAck'[c]} : x.type \in {"REGACK", "SUBACK"} =>
         \E y \in Range(Cs(c)) \cup {waitedSubAck[c]} :
           x.type = y.type /\ x.msgId = y.msgId /\ x.id = y.id
  BY <1>1, <1>4, NoneFact DEF NamesDown
<1>6. NamesStand(c)' /\ RightNames(c)' /\ RenewsLast(c)'
  BY <1>0, <1>1, <1>2, <1>3 DEF NamesStand, RightNames, RenewsLast
<1>7. Announced(c)'
  <2> SUFFICES ASSUME Steady, NEW x \in Range(Cs(c)'), NamesAnId(x)
               PROVE  Current(c, x)'
    BY <1>2 DEF Announced
  <2>1. CASE x \in Range(down)
    BY <1>1, <2>1 DEF NamesDown, Current, NamesAnId, NameIn
  <2>2. CASE x \notin Range(down)
    <3>1. Current(c, x)
      BY <1>0, <1>4, <2>2 DEF Announced
    <3>2. HasEntry(topics[c], NameIn(x), x.id) => HasEntry(topics'[c], NameIn(x), x.id)
      BY <1>1 DEF NamesDown
    <3> QED BY <1>1, <1>2, <2>2, <3>1, <3>2, CurrentKept
  <2> QED BY <2>1, <2>2
<1>8. Numbered(c)'
  BY <1>0, <1>1, <1>5 DEF Numbered
<1>9. AnswersStand(c)'
  BY <1>0, <1>1, <1>3, <1>5 DEF AnswersStand
<1> QED BY <1>6, <1>7, <1>8, <1>9 DEF Naming

LEMMA NamingHandlesUp ==
  ASSUME Shape, Shape', NEW c \in Clients, Owned(c), OnePass(c), Naming(c), setting' = setting,
         SameClient(c), SameBroker(c), Cr(c) # <<>>, Head(Cr(c)) \in FromClient,
         NEW up, NEW down, UpMoves(c, Head(Cr(c)), up, down)
  PROVE  Naming(c)'
<1> DEFINE m == Head(Cr(c))
<1>0. /\ NamesStand(c) /\ RightNames(c) /\ RenewsLast(c) /\ Announced(c)
      /\ Numbered(c) /\ AnswersStand(c)
  BY DEF Naming
<1>1. /\ UNCHANGED <<stored[c], asked[c], names[c], requests[c]>>
      /\ Cr(c)' = Tail(Cr(c)) /\ Bs(c)' = Bs(c) \o up /\ Cs(c)' = Cs(c) \o down
      /\ up \in Seq(ToBroker) /\ down \in Seq(ToClient) /\ NamesUp(c, m, up, down)
  BY DEF UpMoves, TurnUp, SameClient, SameBroker
<1>2. Steady' = Steady /\ Renewing(c)' = Renewing(c)
  BY <1>1 DEF Steady, Renewing
<1>3. /\ Range(Cs(c)') = Range(Cs(c)) \cup Range(down)
      /\ Range(Bs(c)') = Range(Bs(c)) \cup Range(up)
  BY <1>1, LaneTypes, RangeConcat
<1>4. /\ Range(Cr(c)') \subseteq Range(Cr(c)) /\ m \in Range(Cr(c))
      /\ \A x, y : Precedes(Cr(c)', x, y) => Precedes(Cr(c), x, y)
      /\ \A y \in Range(Cr(c)') : Precedes(Cr(c), m, y)
  <2>1. Cr(c) \in Seq(FromClient)
    BY LaneTypes
  <2>2. Range(Cr(c)') \subseteq Range(Cr(c)) /\ m \in Range(Cr(c))
    BY <1>1, <2>1, RangeTail
  <2>3. ASSUME NEW y
        PROVE  /\ \A x : Precedes(Tail(Cr(c)), x, y) => Precedes(Cr(c), x, y)
               /\ y \in Range(Tail(Cr(c))) => Precedes(Cr(c), m, y)
    BY <2>1, PrecedesTail
  <2> QED BY <1>1, <2>2, <2>3
<1>5. m \in FromClient
  OBVIOUS
<1>6. GoodTable(topics[c]) /\ GoodTable(topics'[c])
  BY DEF Shape, NodeShape
<1> HIDE DEF m
\* When the table is renewed, no id of it is known or on its way any more.
<1>7. ASSUME Renews(m), Steady
      PROVE  /\ Renewing(c) /\ names[c] = {} /\ Clear(Cs(c))
             /\ \A r \in asked[c] : r.type = "CONNECT"
             /\ \A x \in Range(Cr(c)') : x.type # "PUBLISH"
  <2>1. Renewing(c) /\ names[c] = {} /\ ~setting.repeat
    BY <1>0, <1>4, <1>7 DEF RenewsLast
  <2>2. Clear(Cs(c))
    <3>1. ~Clear(Cr(c))
      BY <1>4, <1>7 DEF Clear, Renews, PassTypes
    <3>2. PICK p \in Places : \A q \in Places \ {p} : Clear(At(c, q))
      BY <2>1 DEF OnePass
    <3>3. p = "clientRecv"
      BY <3>1, <3>2, AtPlaces DEF Places
    <3> QED BY <3>2, <3>3, AtPlaces DEF Places
  <2>3. \A r \in asked[c] : r.type = "CONNECT"
    BY <2>1 DEF Renewing, Owned
  <2>4. \A x \in Range(Cr(c)') : x.type # "PUBLISH"
    BY <1>0, <1>4, <1>7 DEF RenewsLast
  <2> QED BY <2>1, <2>2, <2>3, <2>4
<1>8. ASSUME NEW n, NEW i, Stands(c, n, i)
      PROVE  Stands(c, n, i)' \/ (Renews(m) /\ Steady)
  BY <1>1, <1>2, <1>8 DEF NamesUp, Stands
<1>9. NamesStand(c)'
  <2>1. ASSUME NEW p \in names[c]
        PROVE  Stands(c, p[2], p[1])'
    BY <1>0, <1>7, <1>8 DEF NamesStand
  <2>2. ASSUME NEW x \in Range(Cr(c)') \cup asked[c], x.type = "PUBLISH"
        PROVE  Stands(c, x.data, x.id)'
    BY <1>0, <1>4, <1>7, <1>8, <2>2 DEF NamesStand
  <2> QED BY <1>1, <2>1, <2>2 DEF NamesStand
<1>10. RightNames(c)'
  <2>1. ASSUME NEW x \in Range(up), x.type = "PUBLISH"
        PROVE  x.name \in Names /\ (Steady => x.name = x.data)
    <3>1. /\ m.type = "PUBLISH" /\ x.data = m.data
          /\ HasId(topics[c], m.id) /\ x.name = GetTopicName(topics[c], m.id)
      BY <1>1, <2>1 DEF NamesUp
    <3>2. m.id > BaseId /\ (Steady => HasEntry(topics[c], m.data, m.id)) /\ m.data \in LongNames
      BY <1>0, <1>4, <1>5, <3>1 DEF NamesStand, Stands, FromClient
    <3>3. x.name \in Names
      <4>1. /\ GetTopicName(topics[c], m.id) \in Names \cup {PredefinedName}
            /\ GetTopicName(topics[c], m.id) = PredefinedName => m.id = PredefinedId
        BY <1>6, <3>1, FoundName
      <4> QED BY <3>1, <3>2, <4>1
    <3>4. Steady => GetTopicName(topics[c], m.id) = m.data
      BY <1>6, <3>2, SearchById
    <3> QED BY <3>1, <3>3, <3>4
  <2> QED BY <1>0, <1>1, <1>2, <1>3, <2>1 DEF RightNames
<1>11. RenewsLast(c)'
  BY <1>0, <1>1, <1>2, <1>4 DEF RenewsLast
<1>12. Announced(c)'
  <2> SUFFICES ASSUME Steady, NEW x \in Range(Cs(c)'), NamesAnId(x)
               PROVE  Current(c, x)'
    BY <1>2 DEF Announced
  <2>1. x \notin Range(down)
    BY <1>1 DEF NamesUp, NamesAnId
  <2>2. Current(c, x)
    BY <1>0, <1>3, <2>1 DEF Announced
  <2>3. HasEntry(topics[c], NameIn(x), x.id) =>
          HasEntry(topics'[c], NameIn(x), x.id) \/ (Renewing(c)' /\ Clear(Cs(c)))
    BY <1>1, <1>2, <1>7 DEF NamesUp
  <2> QED BY <1>1, <1>2, <2>1, <2>2, <2>3, CurrentKept
\* What is answered, or will be, is the REGISTER or the SUBSCRIBE that was at the front.
<1>13. \A x \in Range(Cs(c)') \cup {waitedSubAck'[c]} : x.type \in {"REGACK", "SUBACK"} =>
         x \in Range(Cs(c)) \cup {waitedSubAck[c]} \/ Answers(c, m, x)
  BY <1>1, <1>3 DEF NamesUp
<1>14. Numbered(c)'
  <2>1. ASSUME NEW x \in Range(Cs(c)') \cup {waitedSubAck'[c]}, x.type \in {"REGACK", "SUBACK"}
        PROVE  x.msgId <= requests[c]
    BY <1>0, <1>4, <1>13, <2>1 DEF Numbered, Answers
  <2> QED BY <1>0, <1>1, <1>4, <2>1 DEF Numbered
<1>15. AnswersStand(c)'
  <2> SUFFICES ASSUME NEW x \in Range(Cs(c)') \cup {waitedSubAck'[c]}, NEW r \in asked[c],
                      x.type \in {"REGACK", "SUBACK"}, AnswerOf[r.type] = x.type, x.msgId = r.msgId,
                      r.name \in LongNames, x.id # NoTopic
               PROVE  Stands(c, r.name, x.id)'
    BY <1>1 DEF AnswersStand
  <2>1. r.type \in DOMAIN AnswerOf
    BY DEF Shape, ClientShape
  <2>2. r.type \in {"REGISTER", "SUBSCRIBE"}
    BY <2>1 DEF AnswerOf
  <2>3. CASE x \in Range(Cs(c)) \cup {waitedSubAck[c]}
    <3>1. Stands(c, r.name, x.id)
      BY <1>0, <2>3 DEF AnswersStand
    <3> QED BY <1>7, <1>8, <2>2, <3>1
  <2>4. CASE Answers(c, m, x)
    <3>1. m.type = r.type /\ m.msgId = r.msgId
      BY <2>2, <2>4 DEF Answers, AnswerOf
    <3>2. m = r
      BY <1>0, <1>4, <2>2, <3>1 DEF Numbered
    <3>3. HasEntry(topics'[c], r.name, x.id)
      BY <2>4, <3>2 DEF Answers
    <3>4. x.id > BaseId
      BY <1>6, <3>3, LongIds
    <3> QED BY <3>3, <3>4 DEF Stands
  <2> QED BY <1>13, <2>3, <2>4
<1> QED BY <1>9, <1>10, <1>11, <1>12, <1>14, <1>15 DEF Naming

LEMMA NamingStep ==
  ASSUME Shape, Shape', NEW c \in Clients, Owned(c), OnePass(c), Naming(c), setting' = setting, Effect(c)
  PROVE  Naming(c)'
<1>0. /\ requests[c] \in Nat /\ requests'[c] \in Nat
      /\ asked[c] \subseteq {r \in FromClient : r.type \in DOMAIN AnswerOf}
      /\ Renewing(c) => Connecting(c)
      /\ active[c] => ~Connecting(c)
  BY DEF Shape, ClientShape, Renewing, Connecting, Owned
<1>1. CASE Asks(c)
  <2>1. PICK m : /\ m.type \in RequestTypes /\ Sends(c, m) /\ names'[c] = names[c] /\ active[c]
                 /\ asked'[c] = asked[c] \cup {m} /\ requests'[c] = requests[c] + 1
                 /\ m.type \in {"REGISTER", "SUBSCRIBE"} => m.msgId = requests[c] + 1
                 /\ m.type = "PUBLISH" => <<m.id, m.data>> \in names[c]
    BY <1>1 DEF Asks
  <2>2. ASSUME m.type = "PUBLISH"
        PROVE  Stands(c, m.data, m.id) /\ ~Renewing(c)
    <3>1. <<m.id, m.data>>[1] = m.id /\ <<m.id, m.data>>[2] = m.data
      OBVIOUS
    <3> QED BY <1>0, <2>1, <2>2, <3>1 DEF Naming, NamesStand
  <2>3. m.type # "CONNECT" /\ requests'[c] >= requests[c]
    BY <1>0, <2>1 DEF RequestTypes
  <2> QED BY <1>0, <2>1, <2>2, <2>3, NamingSends
<1>2. CASE Tells(c)
  <2>1. PICK m : /\ m.type \in {"PUBLISH", "DISCONNECT"} /\ Sends(c, m) /\ names'[c] = names[c]
                 /\ active[c] /\ asked'[c] = asked[c] /\ requests'[c] >= requests[c]
                 /\ m.type = "PUBLISH" => <<m.id, m.data>> \in names[c]
    BY <1>2 DEF Tells
  <2>2. ASSUME m.type = "PUBLISH"
        PROVE  Stands(c, m.data, m.id) /\ ~Renewing(c)
    <3>1. <<m.id, m.data>>[1] = m.id /\ <<m.id, m.data>>[2] = m.data
      OBVIOUS
    <3> QED BY <1>0, <2>1, <2>2, <3>1 DEF Naming, NamesStand
  <2>3. m.type # "CONNECT" /\ m.type \notin {"REGISTER", "SUBSCRIBE"}
    BY <2>1
  <2> QED BY <1>0, <2>1, <2>2, <2>3, NamingSends
<1>3. CASE Repeats(c)
  <2>1. PICK m \in asked[c] : Sends(c, m)
    BY <1>3 DEF Repeats
  <2>2. asked'[c] = asked[c] /\ names'[c] = names[c] /\ requests'[c] >= requests[c]
    BY <1>0, <1>3 DEF Repeats, SameClient
  <2>3. m.type = "PUBLISH" => Stands(c, m.data, m.id) /\ ~Renewing(c)
    BY DEF Naming, NamesStand, Owned, Renewing
  <2> QED BY <1>0, <2>1, <2>2, <2>3, NamingSends
<1>4. CASE Pays(c)
  <2>1. PICK m : /\ m.type \in OwedTypes /\ Sends(c, m) /\ asked'[c] = asked[c]
                 /\ names'[c] = names[c] /\ requests'[c] >= requests[c]
    BY <1>0, <1>4 DEF Pays
  <2>2. m.type \notin {"PUBLISH", "CONNECT", "REGISTER", "SUBSCRIBE"}
    BY <2>1 DEF OwedTypes
  <2> QED BY <1>0, <2>1, <2>2, NamingSends
<1>5. CASE Idles(c) \/ Publishes(c) \/ Receives(c) \/ Drops(c)
  <2>1. /\ SameNodeAt(c) /\ UNCHANGED <<Cr(c), Cs(c), Bs(c), asked[c], names[c], stored[c]>>
        /\ requests'[c] >= requests[c]
    BY <1>0, <1>5 DEF Idles, Publishes, Receives, Drops, SameClient, SameBroker
  <2>2. /\ Range(Bs(c)') \subseteq Range(Bs(c))
        /\ \A s \in stored'[c] : s[2] \in Names /\ (Steady => s[2] = s[3])
    BY <2>1 DEF Naming, RightNames
  <2> QED BY <1>0, <2>1, <2>2, NamingBroker
<1> QED BY <1>1, <1>2, <1>3, <1>4, <1>5, NamingConnects, NamingDelivers, NamingMisses,
           NamingForwards, NamingHandlesUp, NamingHandlesDown DEF Effect
------------------------------------------------------------------------------
(* What a client is told, and when: the sequences.                         *)
LEMMA AheadLess ==
  ASSUME NEW s, NEW b, NEW r, NEW s2, NEW b2, NEW r2, Ahead(s, b, r),
         Range(s2) \subseteq Range(s), \A x, y : Precedes(s2, x, y) => Precedes(s, x, y),
         Range(b2) \subseteq Range(b), \A x, y : Precedes(b2, x, y) => Precedes(b, x, y),
         Range(r2) \subseteq Range(r), \A x, y : Precedes(r2, x, y) => Precedes(r, x, y)
  PROVE  Ahead(s2, b2, r2)
<1>1. \A x, y \in Range(b2) : Precedes(b2, x, y) /\ y.type = "CONNACK" => x.type # "PUBLISH"
  BY DEF Ahead
<1>2. \A x, y \in Range(r2) : Precedes(r2, x, y) /\ y.type = "CONNACK" => x.type # "PUBLISH"
  BY DEF Ahead
<1> QED BY <1>1, <1>2 DEF Ahead

LEMMA AheadTails ==
  ASSUME NEW s, NEW b, NEW r, Ahead(s, b, r), NEW T
  PROVE  /\ s \in Seq(T) /\ s # <<>> => Ahead(Tail(s), b, r)
         /\ b \in Seq(T) /\ b # <<>> => Ahead(s, Tail(b), r)
         /\ Ahead(s, b, <<>>)
<1>1. ASSUME NEW q \in Seq(T), q # <<>>
      PROVE  /\ Range(Tail(q)) \subseteq Range(q)
             /\ \A x, y : Precedes(Tail(q), x, y) => Precedes(q, x, y)
  BY <1>1, RangeTail, PrecedesTail
<1>2. Range(<<>>) = {} /\ \A x, y : ~Precedes(<<>>, x, y)
  BY NoMessage DEF Precedes
<1>3. s \in Seq(T) /\ s # <<>> => Ahead(Tail(s), b, r)
  BY <1>1, AheadLess
<1>4. b \in Seq(T) /\ b # <<>> => Ahead(s, Tail(b), r)
  BY <1>1, AheadLess
<1>5. Ahead(s, b, <<>>)
  BY <1>2, AheadLess
<1> QED BY <1>3, <1>4, <1>5

LEMMA AheadReplies ==
  ASSUME NEW s, NEW b, NEW T, NEW r \in Seq(T), NEW t \in Seq(T), Ahead(s, b, r),
         \A x \in Range(t) : x.type # "CONNACK"
  PROVE  Ahead(s, b, r \o t)
<1>1. Range(r \o t) = Range(r) \cup Range(t)
  BY RangeConcat
<1>2. ASSUME NEW x, NEW y \in Range(r \o t), Precedes(r \o t, x, y), y.type = "CONNACK"
      PROVE  x \in Range(r) /\ y \in Range(r) /\ Precedes(r, x, y)
  BY <1>1, <1>2, PrecedesConcat
<1>3. \A x, y \in Range(r \o t) :
        Precedes(r \o t, x, y) /\ y.type = "CONNACK" => x.type # "PUBLISH"
  BY <1>2 DEF Ahead
<1> HIDE DEF Precedes
<1> QED BY <1>1, <1>3 DEF Ahead

LEMMA AheadReceives ==
  ASSUME NEW s, NEW T, NEW b \in Seq(T), NEW r \in Seq(T), r # <<>>, Ahead(s, b, r)
  PROVE  Ahead(s, Append(b, Head(r)), Tail(r))
<1>1. /\ Range(Append(b, Head(r))) = Range(b) \cup {Head(r)} /\ Head(r) \in T
      /\ Head(r) \in Range(r) /\ Range(Tail(r)) \subseteq Range(r)
  BY RangeAppend, RangeTail
<1>2. ASSUME NEW x, NEW y, Precedes(Append(b, Head(r)), x, y), y.type = "CONNACK"
      PROVE  x.type # "PUBLISH"
  <2>1. x \in Range(b) /\ (y = Head(r) \/ (y \in Range(b) /\ Precedes(b, x, y)))
    BY <1>1, <1>2, PrecedesAppend
  <2> QED BY <1>1, <1>2, <2>1 DEF Ahead
<1>3. ASSUME NEW x \in Range(Tail(r)), NEW y \in Range(Tail(r)), Precedes(Tail(r), x, y),
             y.type = "CONNACK"
      PROVE  x.type # "PUBLISH"
  BY <1>1, <1>3, PrecedesTail DEF Ahead
<1>4. ASSUME NEW y \in Range(Tail(r)), y.type = "CONNACK"
      PROVE  \A x \in Range(b) \cup {Head(r)} : x.type # "PUBLISH"
  <2>1. Precedes(r, Head(r), y)
    BY <1>4, PrecedesTail
  <2> QED BY <1>1, <1>4, <2>1 DEF Ahead
<1>5. \A y \in Range(Append(b, Head(r))) \cup Range(Tail(r)) :
        y.type = "CONNACK" => \A x \in Range(s) : ~NamesAnId(x)
  BY <1>1 DEF Ahead
<1>6. \A x, y \in Range(s) : Precedes(s, x, y) /\ Accepted(y) => ~NamesAnId(x)
  BY DEF Ahead
<1> QED BY <1>1, <1>2, <1>3, <1>4, <1>5, <1>6 DEF Ahead

LEMMA AheadSends ==
  ASSUME NEW S, NEW s \in Seq(S), NEW d \in Seq(S), NEW b, NEW r, Ahead(s, b, r),
         (\E y \in Range(d) : Accepted(y)) => \A x \in Range(s) \cup Range(d) : ~NamesAnId(x),
         (\E y \in Range(b) \cup Range(r) : y.type = "CONNACK") => \A x \in Range(d) : ~NamesAnId(x)
  PROVE  Ahead(s \o d, b, r)
<1>1. Range(s \o d) = Range(s) \cup Range(d)
  BY RangeConcat
<1>2. ASSUME NEW x \in Range(s \o d), NEW y \in Range(s \o d), Precedes(s \o d, x, y), Accepted(y)
      PROVE  ~NamesAnId(x)
  <2>1. CASE y \in Range(d)
    BY <1>1, <1>2, <2>1
  <2>2. CASE y \notin Range(d)
    <3>1. x \in Range(s) /\ Precedes(s, x, y) /\ y \in Range(s)
      BY <1>1, <1>2, <2>2, PrecedesConcat
    <3> QED BY <1>2, <3>1 DEF Ahead
  <2> QED BY <2>1, <2>2
<1>3. \A y \in Range(b) \cup Range(r) : y.type = "CONNACK" => \A x \in Range(s \o d) : ~NamesAnId(x)
  BY <1>1 DEF Ahead
<1> QED BY <1>2, <1>3 DEF Ahead

\* What was learnt stays learnt when more is told, asked or sent.
LEMMA LearnsMore ==
  ASSUME NEW N, NEW A, NEW B, A \subseteq B, NEW S, NEW s \in Seq(S), NEW d \in Seq(S),
         NEW k \in 1 .. Len(s) + 1, NEW l \in Nat, k <= l, NEW n, NEW i, Learns(N, A, s, k, n, i)
  PROVE  Learns(N, B, s \o d, l, n, i)
<1>1. /\ Len(s) \in Nat /\ \A j \in 1 .. k - 1 : (s \o d)[j] = s[j] /\ j \in 1 .. l - 1
  OBVIOUS
<1> QED BY <1>1 DEF Learns

LEMMA InTimeMore ==
  ASSUME NEW N, NEW A, NEW B, A \subseteq B, NEW s, NEW t, InTime(N, A, s, t)
  PROVE  InTime(N, B, s, t)
BY DEF InTime, Learns

\* Each id in the new table u was in t, or is told in d, or is what a SUBSCRIBE
\* waits for.
TellsAll(A, d, t, u) ==
  \A n \in LongNames : \A i : HasEntry(u, n, i) =>
    \/ HasEntry(t, n, i)
    \/ \E x \in Range(d) : x.type = "REGISTER" /\ x.name = n /\ x.id = i
    \/ \E r \in A, x \in Range(d) : /\ r.type = "REGISTER" /\ r.name = n
                                  /\ x.type = "REGACK" /\ x.msgId = r.msgId /\ x.id = i
    \/ \E r \in A : r.type = "SUBSCRIBE" /\ r.name = n

\* What d sends under an id is in t, or a REGISTER before it in d tells.
TellsFirst(d, t) ==
  \A k \in DOMAIN d : d[k].type = "PUBLISH" /\ d[k].flags = {"normal"} =>
    /\ d[k].data \in LongNames
    /\ \/ HasEntry(t, d[k].data, d[k].id)
       \/ \E j \in 1 .. k - 1 : /\ d[j].type = "REGISTER" /\ d[j].name = d[k].data
                               /\ d[j].id = d[k].id

\* d is sent to the client.
LEMMA InTimeSends ==
  ASSUME NEW N, NEW A, NEW S, NEW s \in Seq(S), NEW d \in Seq(S), NEW t, NEW u, InTime(N, A, s, t),
         TellsAll(A, d, t, u), TellsFirst(d, t)
  PROVE  InTime(N, A, s \o d, u)
<1>1. /\ Len(s) \in Nat /\ Len(d) \in Nat /\ Len(s \o d) = Len(s) + Len(d)
      /\ DOMAIN d = 1 .. Len(d) /\ DOMAIN s = 1 .. Len(s) /\ DOMAIN (s \o d) = 1 .. Len(s) + Len(d)
      /\ \A j \in 1 .. Len(s) : (s \o d)[j] = s[j]
      /\ \A j \in 1 .. Len(d) : (s \o d)[Len(s) + j] = d[j]
  OBVIOUS
<1>2. ASSUME NEW n \in LongNames, NEW i, HasEntry(t, n, i), NEW l \in Nat, Len(s) + 1 <= l
      PROVE  Learns(N, A, s \o d, l, n, i)
  <2>1. Learns(N, A, s, Len(s) + 1, n, i) /\ Len(s) + 1 \in 1 .. Len(s) + 1
    BY <1>1, <1>2 DEF InTime
  <2> QED BY <1>2, <2>1, LearnsMore
<1>3. ASSUME NEW x \in Range(d)
      PROVE  \E j \in 1 .. Len(s \o d) : (s \o d)[j] = x
  <2>1. PICK j \in 1 .. Len(d) : d[j] = x
    BY <1>1, <1>3 DEF Range
  <2>2. Len(s) + j \in 1 .. Len(s \o d) /\ (s \o d)[Len(s) + j] = x
    BY <1>1, <2>1
  <2> QED BY <2>2
<1>4. ASSUME NEW n \in LongNames, NEW i, HasEntry(u, n, i)
      PROVE  Learns(N, A, s \o d, Len(s \o d) + 1, n, i)
  <2>0. Len(s \o d) + 1 \in Nat /\ Len(s) + 1 <= Len(s \o d) + 1 /\ (Len(s \o d) + 1) - 1 = Len(s \o d)
    BY <1>1
  <2>1. CASE HasEntry(t, n, i)
    BY <1>2, <2>0, <2>1
  <2>2. ASSUME NEW x \in Range(d), x.type = "REGISTER", x.name = n, x.id = i
        PROVE  Learns(N, A, s \o d, Len(s \o d) + 1, n, i)
    BY <1>3, <2>0, <2>2 DEF Learns
  <2>3. ASSUME NEW r \in A, NEW x \in Range(d), r.type = "REGISTER", r.name = n,
               x.type = "REGACK", x.msgId = r.msgId, x.id = i
        PROVE  Learns(N, A, s \o d, Len(s \o d) + 1, n, i)
    BY <1>3, <2>0, <2>3 DEF Learns
  <2>4. CASE \E r \in A : r.type = "SUBSCRIBE" /\ r.name = n
    BY <2>4 DEF Learns
  <2> QED BY <1>4, <2>1, <2>2, <2>3, <2>4 DEF TellsAll
<1>5. ASSUME NEW k \in DOMAIN (s \o d), (s \o d)[k].type = "PUBLISH", (s \o d)[k].flags = {"normal"}
      PROVE  Learns(N, A, s \o d, k, (s \o d)[k].data, (s \o d)[k].id)
  <2>1. CASE k \in 1 .. Len(s)
    <3>1. Learns(N, A, s, k, s[k].data, s[k].id) /\ (s \o d)[k] = s[k]
      BY <1>1, <1>5, <2>1 DEF InTime
    <3>2. k \in 1 .. Len(s) + 1 /\ k \in Nat /\ k <= k
      BY <1>1, <2>1
    <3> QED BY <3>1, <3>2, LearnsMore
  <2>2. CASE k \notin 1 .. Len(s)
    <3>1. PICK l \in 1 .. Len(d) : k = Len(s) + l
      <4>1. k - Len(s) \in 1 .. Len(d) /\ k = Len(s) + (k - Len(s))
        BY <1>1, <2>2
      <4> QED BY <4>1
    <3>2. PICK x : x = d[l] /\ (s \o d)[k] = x
      BY <1>1, <3>1
    <3>3. CASE HasEntry(t, x.data, x.id)
      <4>1. x.data \in LongNames /\ k \in Nat /\ Len(s) + 1 <= k
        BY <1>1, <1>5, <3>1, <3>2 DEF TellsFirst
      <4> QED BY <1>2, <3>2, <3>3, <4>1
    <3>4. ASSUME NEW j \in 1 .. l - 1, d[j].type = "REGISTER", d[j].name = x.data, d[j].id = x.id
          PROVE  Learns(N, A, s \o d, k, x.data, x.id)
      <4>1. j \in 1 .. Len(d) /\ Len(s) + j \in 1 .. k - 1 /\ (s \o d)[Len(s) + j] = d[j]
        BY <1>1, <3>1, <3>4
      <4>2. PICK y : y = d[j]
        OBVIOUS
      <4>3. y.type = "REGISTER" /\ y.name = x.data /\ y.id = x.id
        BY <3>4, <4>2
      <4>4. PICK h \in 1 .. k - 1 : (s \o d)[h] = y
        BY <4>1, <4>2
      <4> QED BY <4>3, <4>4 DEF Learns
    <3> QED BY <1>1, <1>5, <3>1, <3>2, <3>3, <3>4 DEF TellsFirst
  <2> QED BY <1>1, <2>1, <2>2
<1> QED BY <1>4, <1>5 DEF InTime

\* What s sends under an id is in the table t.
Agrees(s, t) ==
  \A k \in DOMAIN s : s[k].type = "PUBLISH" /\ s[k].flags = {"normal"} =>
    s[k].data \in LongNames /\ HasEntry(t, s[k].data, s[k].id)

\* By m, the client that knew N and waited for A comes to know M and to wait for B.
Hears(N, A, m, M, B, t) ==
  \A n \in LongNames : \A i : HasEntry(t, n, i) =>
    /\ <<i, n>> \in N => <<i, n>> \in M
    /\ m.type = "REGISTER" /\ m.name = n /\ m.id = i => <<i, n>> \in M
    /\ \A r \in A : r.type \in {"REGISTER", "SUBSCRIBE"} /\ r.name = n => r \in B \/ <<i, n>> \in M
    /\ \A r \in A : (/\ r.type = "REGISTER" /\ r.name = n
                     /\ m.type = "REGACK" /\ m.msgId = r.msgId /\ m.id = i)
                    => <<i, n>> \in M

\* The client reads the first message of s.
LEMMA InTimeTail ==
  ASSUME NEW N, NEW A, NEW M, NEW B, NEW S, NEW s \in Seq(S), s # <<>>, NEW t, NEW m, m = Head(s),
         InTime(N, A, s, t), Agrees(s, t), Hears(N, A, m, M, B, t)
  PROVE  InTime(M, B, Tail(s), t)
<1>1. /\ Len(s) \in Nat /\ Len(s) >= 1 /\ m = s[1] /\ Len(Tail(s)) = Len(s) - 1
      /\ DOMAIN Tail(s) = 1 .. Len(s) - 1 /\ DOMAIN s = 1 .. Len(s)
      /\ \A j \in 1 .. Len(s) - 1 : Tail(s)[j] = s[j + 1]
  BY RangeTail
<1>2. ASSUME NEW n \in LongNames, NEW i, HasEntry(t, n, i), NEW k \in 1 .. Len(s),
             Learns(N, A, s, k + 1, n, i)
      PROVE  Learns(M, B, Tail(s), k, n, i)
  <2>0. ASSUME NEW j \in 1 .. (k + 1) - 1
        PROVE  s[j] = m \/ \E l \in 1 .. k - 1 : Tail(s)[l] = s[j]
    <3>1. CASE j = 1
      BY <1>1, <3>1
    <3>2. CASE j # 1
      <4>1. j - 1 \in 1 .. k - 1 /\ j - 1 \in 1 .. Len(s) - 1 /\ (j - 1) + 1 = j
        BY <1>1, <3>2
      <4>2. Tail(s)[j - 1] = s[j]
        BY <1>1, <4>1
      <4> QED BY <4>1, <4>2
    <3> QED BY <3>1, <3>2
  <2>1. CASE <<i, n>> \in N
    BY <1>2, <2>1 DEF Learns, Hears
  <2>2. ASSUME NEW j \in 1 .. (k + 1) - 1, s[j].type = "REGISTER", s[j].name = n, s[j].id = i
        PROVE  Learns(M, B, Tail(s), k, n, i)
    BY <1>2, <2>0, <2>2 DEF Learns, Hears
  <2>3. ASSUME NEW r \in A, NEW j \in 1 .. (k + 1) - 1, r.type = "REGISTER", r.name = n,
               s[j].type = "REGACK", s[j].msgId = r.msgId, s[j].id = i
        PROVE  Learns(M, B, Tail(s), k, n, i)
    <3>1. CASE s[j] = m
      BY <1>2, <2>3, <3>1 DEF Learns, Hears
    <3>2. CASE s[j] # m
      <4>1. PICK l \in 1 .. k - 1 : Tail(s)[l] = s[j]
        BY <2>0, <3>2
      <4>2. r \in B \/ <<i, n>> \in M
        BY <1>2, <2>3 DEF Hears
      <4> QED BY <2>3, <4>1, <4>2 DEF Learns
    <3> QED BY <3>1, <3>2
  <2>4. ASSUME NEW r \in A, r.type = "SUBSCRIBE", r.name = n
        PROVE  Learns(M, B, Tail(s), k, n, i)
    BY <1>2, <2>4 DEF Learns, Hears
  <2> QED BY <1>2, <2>1, <2>2, <2>3, <2>4 DEF Learns
<1>3. ASSUME NEW n \in LongNames, NEW i, HasEntry(t, n, i)
      PROVE  Learns(M, B, Tail(s), Len(Tail(s)) + 1, n, i)
  <2>1. Len(s) \in 1 .. Len(s) /\ Len(Tail(s)) + 1 = Len(s)
    BY <1>1
  <2>2. Learns(N, A, s, Len(s) + 1, n, i)
    BY <1>3 DEF InTime
  <2> QED BY <1>2, <1>3, <2>1, <2>2
<1>4. ASSUME NEW k \in DOMAIN Tail(s), Tail(s)[k].type = "PUBLISH", Tail(s)[k].flags = {"normal"}
      PROVE  Learns(M, B, Tail(s), k, Tail(s)[k].data, Tail(s)[k].id)
  <2>1. k \in 1 .. Len(s) /\ k + 1 \in DOMAIN s /\ Tail(s)[k] = s[k + 1]
    BY <1>1
  <2>2. PICK x : x = s[k + 1] /\ Tail(s)[k] = x
    BY <2>1
  <2>3. x.data \in LongNames /\ HasEntry(t, x.data, x.id) /\ Learns(N, A, s, k + 1, x.data, x.id)
    BY <1>4, <2>1, <2>2 DEF InTime, Agrees
  <2> QED BY <1>2, <2>1, <2>2, <2>3
<1> QED BY <1>3, <1>4 DEF InTime
------------------------------------------------------------------------------
(* What a client is told, and when: the steps.                             *)
\* The client is connected, or its CONNACK is the only trace of its CONNECT.
LEMMA OnFacts ==
  ASSUME Shape, NEW c \in Clients, Owned(c), OnePass(c), Orderly, On(c)
  PROVE  /\ \A m \in Range(Cr(c)) : m.type # "CONNECT"
         /\ Connecting(c) => Welcome(Cs(c), Br(c), replies[c])
<1>1. active[c] => ~Connecting(c)
  BY DEF Owned, Connecting
<1>2. ~setting.repeat
  BY DEF Orderly
<1>3. ASSUME NEW m \in Range(Cr(c)), m.type = "CONNECT"
      PROVE  FALSE
  <2>1. Connecting(c) /\ ~Clear(Cr(c))
    BY <1>2, <1>3 DEF OnePass, Connecting, Clear, PassTypes
  <2>2. PICK p \in Places : \A q \in Places \ {p} : Clear(At(c, q))
    BY <1>2 DEF OnePass
  <2>3. p = "clientRecv"
    BY <2>1, <2>2, AtPlaces DEF Places
  <2>4. Clear(Cs(c)) /\ Clear(Br(c)) /\ Clear(replies[c])
    BY <2>2, <2>3, AtPlaces DEF Places
  <2>5. ~Welcome(Cs(c), Br(c), replies[c])
    BY <2>4 DEF Clear, Welcome, Accepted, PassTypes
  <2> QED BY <1>1, <2>1, <2>5 DEF On
<1> QED BY <1>1, <1>3 DEF On

\* What names an id on its way to the client is right, and not of a session given up.
LEMMA AllNamed ==
  ASSUME Shape, NEW c \in Clients, Owned(c), OnePass(c), Naming(c), Orderly, On(c),
         Ahead(Cs(c), Br(c), replies[c]), NEW x \in Range(Cs(c)), NamesAnId(x)
  PROVE  HasEntry(topics[c], NameIn(x), x.id)
<1>1. Current(c, x)
  BY DEF Naming, Announced, Steady, Orderly
<1>2. ASSUME Renewing(c), \A y \in Range(Cs(c)) : Precedes(Cs(c), y, x) => y.type # "CONNACK"
      PROVE  FALSE
  <2>1. Welcome(Cs(c), Br(c), replies[c])
    BY <1>2, OnFacts DEF Renewing, Connecting
  <2>2. PICK y \in Range(Cs(c)) : Accepted(y)
    BY <2>1 DEF Welcome, Ahead
  <2>3. PICK i, j \in DOMAIN Cs(c) : Cs(c)[i] = x /\ Cs(c)[j] = y
    BY DEF Range
  <2>4. i # j /\ i \in Nat /\ j \in Nat
    <3>1. x.type # y.type
      BY <2>2 DEF NamesAnId, Accepted
    <3>2. Cs(c) \in Seq(ToClient)
      BY LaneTypes
    <3> QED BY <2>3, <3>1, <3>2
  <2>5. CASE i < j
    BY <2>2, <2>3, <2>5 DEF Ahead, Precedes
  <2>6. CASE j < i
    BY <1>2, <2>2, <2>3, <2>6 DEF Precedes, Accepted
  <2> QED BY <2>4, <2>5, <2>6
<1> QED BY <1>1, <1>2 DEF Current

\* Nothing changes that Learning(c) is about but the link.
Unchanging(c) ==
  /\ SameNodeAt(c) /\ UNCHANGED <<Cr(c), Cs(c), Br(c), replies[c], active[c], asked[c], names[c]>>

LEMMA LearningKept ==
  ASSUME NEW c \in Clients, Unchanging(c), setting' = setting, Learning(c),
         link'[c] = link[c] \/ (link'[c] # "none" /\ link[c] # "none")
  PROVE  Learning(c)'
<1>1. Orderly' = Orderly /\ Fresh(c)' = Fresh(c) /\ On(c)' = On(c) /\ Knows(c)' = Knows(c)
  BY DEF Orderly, Unchanging, SameNodeAt, Fresh, On, Knows
<1> QED BY <1>1 DEF Learning, Unchanging

\* The client sends m, a request that it waits for or one without a topic.
LEMMA LearningSends ==
  ASSUME Shape, NEW c \in Clients, Naming(c), Learning(c), setting' = setting, NEW m, Sends(c, m),
         names'[c] = names[c], asked[c] \subseteq asked'[c],
         active'[c] => active[c], \A r \in asked'[c] \ asked[c] : Topical(r) =>
           r.msgId > requests[c] /\ active[c],
         Topical(m) => m \in asked'[c] /\ (m \in asked[c] \/ active[c])
  PROVE  Learning(c)'
<1>1. /\ UNCHANGED <<Cs(c), Br(c), link[c], replies[c], topics[c], waitedSubAck[c]>>
      /\ Orderly' = Orderly
      /\ m \in FromClient /\ (Cr(c)' = Append(Cr(c), m) \/ Cr(c)' = Cr(c))
  BY DEF Sends, SameNodeAt, SameBroker, Orderly
<1>2. Cr(c) \in Seq(FromClient) /\ Range(Cr(c)') \subseteq Range(Cr(c)) \cup {m}
  BY <1>1, LaneTypes, RangeAppend
<1>3. CASE Orderly /\ link[c] = "none"
  <2>1. Fresh(c)
    BY <1>3 DEF Learning
  <2>2. \A x \in Range(Cr(c)') \cup asked'[c] : ~Topical(x)
    BY <1>2, <2>1 DEF Fresh
  <2> QED BY <1>1, <1>3, <2>1, <2>2 DEF Fresh, Learning
<1>4. CASE Orderly /\ link[c] # "none" /\ On(c)'
  <2>1. On(c)
    BY <1>1, <1>4 DEF On
  <2>2. Knows(c) /\ Ahead(Cs(c), Br(c), replies[c])
    BY <1>4, <2>1 DEF Learning
  <2>3. InTime(names[c], asked'[c], Cs(c), topics[c])
    BY <2>2, InTimeMore DEF Knows
  <2>4. Waits(asked'[c], Cr(c)', topics[c])
    BY <1>2, <2>2 DEF Knows, Waits
  <2>5. ASSUME NEW x \in Range(Cs(c)) \cup {waitedSubAck[c]}
        PROVE  NoRoom(asked'[c], x, topics[c])
    <3>1. NoRoom(asked[c], x, topics[c])
      BY <2>2 DEF Knows
    <3>2. x.type \in {"REGACK", "SUBACK"} => ~(x.msgId > requests[c])
      <4>1. x.type \in {"REGACK", "SUBACK"} => x.msgId <= requests[c] /\ x.msgId \in Nat
        <5>1. x.type \in {"REGACK", "SUBACK"} => x.msgId <= requests[c]
          BY DEF Naming, Numbered
        <5>2. x.type \in {"REGACK", "SUBACK"} => x \in ToClient
          BY LaneTypes, RangeType, NodeTypes, NoneFact DEF SubAcks
        <5> QED BY <5>1, <5>2 DEF ToClient, AnyMessage
      <4>2. requests[c] \in Nat
        BY DEF Shape, ClientShape
      <4> QED BY <4>1, <4>2
    <3> QED BY <3>1, <3>2 DEF NoRoom
  <2> QED BY <1>1, <1>4, <2>2, <2>3, <2>4, <2>5 DEF Learning, Knows
<1> QED BY <1>1, <1>3, <1>4 DEF Learning

\* A CONNECT that is not repeated is sent when no trace of an earlier one is left.
LEMMA LearningConnects ==
  ASSUME Shape, NEW c \in Clients, Owned(c), OnePass(c), Learning(c), setting' = setting, Connects(c)
  PROVE  Learning(c)'
<1>1. PICK m \in FromClient :
        /\ m.type = "CONNECT" /\ Sends(c, m) /\ asked'[c] = {m} /\ ~active'[c]
        /\ ~setting.repeat => active[c] \/ ~Connecting(c)
  BY DEF Connects
<1>2. /\ UNCHANGED <<Cs(c), Br(c), link[c], replies[c], topics[c], waitedSubAck[c]>>
      /\ Orderly' = Orderly /\ (Cr(c)' = Append(Cr(c), m) \/ Cr(c)' = Cr(c))
  BY <1>1 DEF Sends, SameNodeAt, SameBroker, Orderly
<1>3. Range(Cr(c)') \subseteq Range(Cr(c)) \cup {m}
  BY <1>2, LaneTypes, RangeAppend
<1>4. CASE Orderly /\ link[c] = "none"
  <2>1. Fresh(c)
    BY <1>4 DEF Learning
  <2>2. \A x \in Range(Cr(c)') \cup asked'[c] : ~Topical(x)
    BY <1>1, <1>3, <2>1 DEF Fresh, Topical
  <2> QED BY <1>1, <1>2, <1>4, <2>1, <2>2 DEF Fresh, Learning
<1>5. CASE Orderly /\ link[c] # "none"
  <2>1. ~Connecting(c)
    BY <1>1, <1>5 DEF Orderly, Owned, Connecting
  <2>2. Clear(Cs(c)) /\ Clear(Br(c)) /\ Clear(replies[c])
    BY <1>5, <2>1, AtPlaces DEF OnePass, Orderly, Places
  <2>3. ~Welcome(Cs(c), Br(c), replies[c])
    BY <2>2 DEF Clear, Welcome, Accepted, PassTypes
  <2>4. ~On(c)'
    BY <1>1, <1>2, <2>3 DEF On
  <2> QED BY <1>2, <1>5, <2>4 DEF Learning
<1> QED BY <1>2, <1>4, <1>5 DEF Learning

\* What the broker has sent may go with the connection, and the link stays used.
LEMMA LearningLoses ==
  ASSUME NEW c \in Clients, Learning(c), setting' = setting, SameNodeAt(c),
         UNCHANGED <<Cr(c), Cs(c), Br(c), active[c], asked[c], names[c]>>,
         replies'[c] \in {replies[c], <<>>}, Orderly => link'[c] = "closing"
  PROVE  Learning(c)'
<1>1. /\ topics'[c] = topics[c] /\ waitedSubAck'[c] = waitedSubAck[c] /\ Orderly' = Orderly
      /\ Range(<<>>) = {}
  BY NoMessage DEF SameNodeAt, Orderly
<1>2. On(c)' => On(c)
  BY <1>1 DEF On, Welcome
<1>3. Fresh(c) => ~On(c)
  BY <1>1 DEF Fresh, On, Welcome
<1>4. ASSUME Knows(c), Ahead(Cs(c), Br(c), replies[c])
      PROVE  Knows(c)' /\ Ahead(Cs(c), Br(c), replies[c])'
  <2>1. Knows(c)'
    BY <1>1, <1>4 DEF Knows
  <2>2. Ahead(Cs(c), Br(c), <<>>)
    BY <1>4, AheadTails
  <2> QED BY <1>4, <2>1, <2>2
<1> QED BY <1>1, <1>2, <1>3, <1>4 DEF Learning

\* The broker sends t, with no CONNACK in it.
LEMMA LearningReplies ==
  ASSUME Shape, NEW c \in Clients, Learning(c), setting' = setting, SameNodeAt(c), SameClient(c),
         UNCHANGED <<Cr(c), Cs(c), Br(c)>>, link[c] # "none", link'[c] # "none",
         NEW t \in Seq(FromBroker), replies'[c] = replies[c] \o t,
         \A x \in Range(t) : x.type # "CONNACK"
  PROVE  Learning(c)'
<1>1. /\ topics'[c] = topics[c] /\ waitedSubAck'[c] = waitedSubAck[c] /\ Orderly' = Orderly
      /\ UNCHANGED <<active[c], asked[c], names[c]>>
  BY DEF SameNodeAt, SameClient, Orderly
<1>2. replies[c] \in Seq(FromBroker) /\ Range(replies'[c]) = Range(replies[c]) \cup Range(t)
  BY LaneTypes, RangeConcat
<1>3. On(c)' => On(c)
  BY <1>1, <1>2 DEF On, Welcome
<1>4. Knows(c) => Knows(c)'
  BY <1>1 DEF Knows
<1>5. Ahead(Cs(c), Br(c), replies[c]) => Ahead(Cs(c), Br(c), replies[c])'
  BY <1>2, AheadReplies
<1> QED BY <1>1, <1>3, <1>4, <1>5 DEF Learning

\* The broker takes the first CONNECT, when there is no topic of a long name yet.
LEMMA LearningStarts ==
  ASSUME Shape, NEW c \in Clients, Fresh(c), SameNodeAt(c), SameClient(c),
         UNCHANGED <<Cr(c), Cs(c), Br(c)>>,
         replies'[c] = <<>> \/ \E x \in FromBroker : replies'[c] = <<x>>
  PROVE  Knows(c)' /\ Ahead(Cs(c), Br(c), replies[c])'
<1>1. /\ topics'[c] = topics[c] /\ waitedSubAck'[c] = waitedSubAck[c]
      /\ UNCHANGED <<active[c], asked[c], names[c]>> /\ GoodTable(topics[c])
  BY DEF SameNodeAt, SameClient, Shape, NodeShape
<1>2. \A n \in LongNames : \A i : ~HasEntry(topics[c], n, i)
  BY <1>1, NamedEntry DEF Fresh
<1>3. \A k \in DOMAIN Cs(c) : ~NamesAnId(Cs(c)[k])
  BY DEF Fresh, Range
<1>4. InTime(names[c], asked[c], Cs(c), topics[c])
  BY <1>2, <1>3 DEF InTime, NamesAnId
<1>5. Knows(c)'
  BY <1>1, <1>4 DEF Fresh, Knows, Waits, NoRoom
<1>6. Range(<<>>) = {} /\ \A x, y, z : ~Precedes(<<>>, y, z) /\ ~Precedes(<<x>>, y, z)
  BY NoMessage DEF Precedes
<1>7. Br(c) = <<>> /\ \A y \in Range(Cs(c)) : ~NamesAnId(y)
  BY DEF Fresh
<1>8. \A q \in {Br(c), replies'[c]} : \A y, z : ~Precedes(q, y, z)
  BY <1>6, <1>7
<1>9. Ahead(Cs(c), Br(c), replies'[c])
  BY <1>6, <1>7, <1>8 DEF Ahead
<1> QED BY <1>5, <1>9

LEMMA LearningForwards ==
  ASSUME Shape, NEW c \in Clients, Learning(c), setting' = setting, Forwards(c)
  PROVE  Learning(c)'
<1>1. SameNodeAt(c) /\ SameClient(c) /\ UNCHANGED <<Cr(c), Cs(c), Br(c)>> /\ Orderly' = Orderly
  BY DEF Forwards, Orderly
<1>2. CASE replies'[c] \in {replies[c], <<>>} /\ (setting.reliable => link'[c] = "closing")
  BY <1>1, <1>2, LearningLoses DEF Orderly, SameClient
<1>3. ASSUME NEW m \in ToBroker, replies'[c] = replies[c] \o Reply(m),
             link'[c] = "live", link[c] = "none" <=> m.type = "CONNECT"
      PROVE  Learning(c)'
  <2>0. replies[c] \in Seq(FromBroker) /\ Reply(m) \in Seq(FromBroker)
    BY LaneTypes, ReplyFacts
  <2>1. CASE link[c] # "none"
    <3>1. \A x \in Range(Reply(m)) : x.type # "CONNACK"
      BY <1>3, <2>1, ReplyFacts, OneMessage, NoMessage DEF PassTypes
    <3> QED BY <1>1, <1>3, <2>0, <2>1, <3>1, LearningReplies
  <2>2. CASE link[c] = "none" /\ Orderly
    <3>1. Fresh(c) /\ replies'[c] = Reply(m)
      BY <1>3, <2>0, <2>2 DEF Learning, Fresh
    <3>2. Reply(m) = <<>> \/ \E x \in FromBroker : Reply(m) = <<x>>
      BY ReplyFacts
    <3>3. Knows(c)' /\ Ahead(Cs(c), Br(c), replies[c])'
      BY <1>1, <3>1, <3>2, LearningStarts
    <3> QED BY <1>3, <3>3 DEF Learning
  <2> QED BY <1>1, <2>1, <2>2 DEF Learning
<1> QED BY <1>2, <1>3 DEF Forwards

LEMMA LearningReceives ==
  ASSUME Shape, NEW c \in Clients, Learning(c), setting' = setting, Receives(c)
  PROVE  Learning(c)'
<1>1. /\ UNCHANGED <<Cr(c), Cs(c), active[c], asked[c], names[c], link[c], topics[c], waitedSubAck[c]>>
      /\ Orderly' = Orderly
      /\ replies[c] # <<>> /\ replies'[c] = Tail(replies[c]) /\ Br(c)' = Append(Br(c), Head(replies[c]))
  BY DEF Receives, SameNodeAt, SameClient, Orderly
<1>2. /\ replies[c] \in Seq(FromBroker) /\ Br(c) \in Seq(FromBroker)
      /\ Head(replies[c]) \in Range(replies[c]) /\ Range(replies'[c]) \subseteq Range(replies[c])
      /\ Range(Br(c)') = Range(Br(c)) \cup {Head(replies[c])}
  BY <1>1, LaneTypes, RangeTail, RangeAppend
<1>3. ~Fresh(c) /\ (On(c)' => On(c)) /\ (Knows(c) => Knows(c)')
  BY <1>1, <1>2 DEF Fresh, On, Welcome, Knows
<1>4. Ahead(Cs(c), Br(c), replies[c]) => Ahead(Cs(c), Br(c), replies[c])'
  BY <1>1, <1>2, AheadReceives
<1> QED BY <1>1, <1>3, <1>4 DEF Learning

\* What a message at the front tells is not of a session that is given up.
LEMMA FirstNamed ==
  ASSUME Shape, NEW c \in Clients, Owned(c), OnePass(c), Orderly, On(c),
         Ahead(Cs(c), Br(c), replies[c]), Cs(c) # <<>>, NamesAnId(Head(Cs(c)))
  PROVE  ~Connecting(c)
<1>1. PICK s \in Seq(ToClient) : s = Cs(c)
  BY LaneTypes
<1>2. /\ Head(s) \in Range(s) /\ Head(s) = s[1] /\ DOMAIN s = 1 .. Len(s) /\ Len(s) \in Nat
      /\ DOMAIN Tail(s) = 1 .. Len(s) - 1 /\ \A i \in 1 .. Len(s) - 1 : Tail(s)[i] = s[i + 1]
  BY <1>1, RangeTail
<1>3. ASSUME NEW y \in Range(s), Accepted(y)
      PROVE  FALSE
  <2>1. PICK j \in 1 .. Len(s) : s[j] = y
    BY <1>2, <1>3 DEF Range
  <2>2. j # 1
    BY <1>1, <1>2, <1>3, <2>1 DEF Accepted, NamesAnId
  <2>3. j - 1 \in 1 .. Len(s) - 1 /\ Tail(s)[j - 1] = y
    BY <1>2, <2>1, <2>2
  <2>4. y \in Range(Tail(s))
    BY <1>2, <2>3 DEF Range
  <2>5. Precedes(s, Head(s), y)
    BY <1>1, <2>4, PrecedesTail
  <2> QED BY <1>1, <1>2, <1>3, <2>5 DEF Ahead
<1>4. ~Welcome(Cs(c), Br(c), replies[c])
  BY <1>1, <1>2, <1>3 DEF Welcome, Ahead
<1> QED BY <1>4, OnFacts

\* What an answer to r says about the name in r.
LEMMA AnswerFacts ==
  ASSUME Shape, NEW c \in Clients, Naming(c), Knows(c), Orderly,
         NEW m \in Range(Cs(c)), NEW r \in Answered(c, m), Topical(r)
  PROVE  /\ m.id # NoTopic => HasEntry(topics[c], r.name, m.id)
         /\ m.id = NoTopic => IsFull(topics[c]) /\ ~HasName(topics[c], r.name)
         /\ Placed(topics[c], r.name)
<1>1. /\ r \in asked[c] /\ AnswerOf[r.type] = m.type /\ r.msgId = m.msgId
      /\ r.type \in {"REGISTER", "SUBSCRIBE"} /\ r.name \in LongNames
      /\ m.type \in {"REGACK", "SUBACK"} /\ GoodTable(topics[c])
  BY DEF Answered, Topical, AnswerOf, Shape, NodeShape
<1>2. m.id # NoTopic => HasEntry(topics[c], r.name, m.id)
  BY <1>1 DEF Naming, AnswersStand, Stands, Steady, Orderly
<1>3. m.id = NoTopic => IsFull(topics[c]) /\ ~HasName(topics[c], r.name)
  <2>1. NoRoom(asked[c], m, topics[c])
    BY DEF Knows
  <2> QED BY <1>1, <2>1 DEF NoRoom
<1> QED BY <1>1, <1>2, <1>3, NamedEntry DEF Placed

\* The ids that the table stands for and the client knows, after it reads m.
LEMMA LearningReads ==
  ASSUME Shape, NEW c \in Clients, Owned(c), OnePass(c), Naming(c), Orderly, On(c),
         Knows(c), Ahead(Cs(c), Br(c), replies[c]), NEW m \in ToClient, Delivers(c, m),
         NEW n \in LongNames, NEW i, HasEntry(topics[c], n, i)
  PROVE  /\ <<i, n>> \in names[c] => <<i, n>> \in names'[c]
         /\ m.type = "REGISTER" /\ m.name = n /\ m.id = i => <<i, n>> \in names'[c]
         /\ \A r \in Answered(c, m) : r.type \in {"REGISTER", "SUBSCRIBE"} /\ r.name = n
                                       => <<i, n>> \in names'[c]
<1>1. /\ Cs(c) # <<>> /\ m = Head(Cs(c)) /\ m \in Range(Cs(c)) /\ GoodTable(topics[c])
      /\ names'[c] = {p \in names[c] : \A q \in Told(c, m) : p[1] # q[1]} \cup Told(c, m)
  BY LaneTypes, RangeTail DEF Delivers, Shape, NodeShape
<1>2. ASSUME NEW q \in Told(c, m), q[1] = i
      PROVE  q = <<i, n>>
  <2>1. /\ q \in (1 .. IdRange - 1) \X LongNames /\ q[1] = m.id
        /\ \/ m.type = "REGISTER" /\ q[2] = m.name
           \/ \E r \in asked[c] : /\ AnswerOf[r.type] = m.type /\ r.msgId = m.msgId
                                  /\ r.type \in {"REGISTER", "SUBSCRIBE"} /\ q[2] = r.name
                                  /\ r.name \in LongNames /\ m.id # NoTopic
    BY <1>2, ToldFacts
  <2>2. CASE m.type = "REGISTER" /\ q[2] = m.name
    <3>1. HasEntry(topics[c], q[2], q[1])
      BY <1>1, <2>1, <2>2, AllNamed DEF NamesAnId, NameIn
    <3> QED BY <1>1, <1>2, <2>1, <3>1, OneName
  <2>3. ASSUME NEW r \in asked[c], AnswerOf[r.type] = m.type, r.msgId = m.msgId,
               r.type \in {"REGISTER", "SUBSCRIBE"}, q[2] = r.name, r.name \in LongNames,
               m.id # NoTopic
        PROVE  q = <<i, n>>
    <3>1. r \in Answered(c, m) /\ Topical(r)
      BY <2>3 DEF Answered, Topical
    <3>2. HasEntry(topics[c], q[2], q[1])
      BY <1>1, <2>1, <2>3, <3>1, AnswerFacts
    <3> QED BY <1>1, <1>2, <2>1, <3>2, OneName
  <2> QED BY <2>1, <2>2, <2>3
<1>3. <<i, n>> \in names[c] => <<i, n>> \in names'[c]
  BY <1>1, <1>2
<1>4. ASSUME m.type = "REGISTER", m.name = n, m.id = i
      PROVE  <<i, n>> \in names'[c]
  <2>1. ~Renewing(c)
    BY <1>1, <1>4, FirstNamed DEF NamesAnId, Renewing, Connecting
  <2> QED BY <1>1, <1>4, <2>1 DEF Told
<1>5. ASSUME NEW r \in Answered(c, m), r.type \in {"REGISTER", "SUBSCRIBE"}, r.name = n
      PROVE  <<i, n>> \in names'[c]
  <2>1. Topical(r) /\ m.type # "REGISTER"
    BY <1>5 DEF Topical, Answered, AnswerOf
  <2>2. HasName(topics[c], n)
    BY <1>1, NamedEntry
  <2>3. m.id # NoTopic /\ HasEntry(topics[c], n, m.id)
    BY <1>1, <1>5, <2>1, <2>2, AnswerFacts
  <2>4. m.id = i
    BY <1>1, <2>3, NamedEntry
  <2>5. <<m.id, r.name>> \in Told(c, m)
    BY <1>5, <2>1, <2>3 DEF Told
  <2> QED BY <1>1, <1>5, <2>4, <2>5
<1> QED BY <1>3, <1>4, <1>5

LEMMA LearningDelivers ==
  ASSUME Shape, NEW c \in Clients, Owned(c), OnePass(c), Naming(c), Learning(c),
         setting' = setting, NEW m \in ToClient, Delivers(c, m)
  PROVE  Learning(c)'
<1>1. /\ Cs(c) # <<>> /\ m = Head(Cs(c)) /\ Cs(c)' = Tail(Cs(c))
      /\ UNCHANGED <<Cr(c), Br(c), replies[c], link[c], topics[c], waitedSubAck[c]>>
      /\ asked'[c] = asked[c] \ Answered(c, m) /\ Orderly' = Orderly
      /\ active'[c] => active[c] \/ Accepted(m)
  BY DEF Delivers, SameNodeAt, SameBroker, Orderly, Accepted
<1>2. PICK s \in Seq(ToClient) : s = Cs(c)
  BY LaneTypes
<1>3. m \in Range(s) /\ Range(Tail(s)) \subseteq Range(s) /\ DOMAIN s = 1 .. Len(s)
  BY <1>1, <1>2, RangeTail
<1>4. CASE Orderly /\ link[c] = "none"
  <2>1. Fresh(c)
    BY <1>4 DEF Learning
  <2>2. ~active'[c]
    BY <1>1, <1>2, <1>3, <2>1 DEF Fresh
  <2>3. \A x \in Range(Cs(c)') : ~NamesAnId(x) /\ ~Accepted(x)
    BY <1>1, <1>2, <1>3, <2>1 DEF Fresh
  <2>4. \A x \in Range(Cr(c)') \cup asked'[c] : ~Topical(x)
    BY <1>1, <2>1 DEF Fresh
  <2> QED BY <1>1, <1>4, <2>1, <2>2, <2>3, <2>4 DEF Fresh, Learning
<1>5. CASE Orderly /\ link[c] # "none" /\ On(c)'
  <2>1. On(c)
    BY <1>1, <1>2, <1>3, <1>5 DEF On, Welcome
  <2>2. Knows(c) /\ Ahead(s, Br(c), replies[c]) /\ Ahead(Cs(c), Br(c), replies[c])
    BY <1>2, <1>5, <2>1 DEF Learning
  <2>3. InTime(names'[c], asked'[c], Tail(s), topics[c])
    <3>1. InTime(names[c], asked[c], s, topics[c])
      BY <1>2, <2>2 DEF Knows
    <3>2. ASSUME NEW k \in DOMAIN s, s[k].type = "PUBLISH", s[k].flags = {"normal"}
          PROVE  s[k].data \in LongNames /\ HasEntry(topics[c], s[k].data, s[k].id)
      <4>1. PICK x : x = s[k]
        OBVIOUS
      <4>2. x \in Range(Cs(c)) /\ x \in ToClient /\ x.type = "PUBLISH" /\ x.flags = {"normal"}
        BY <1>2, <1>3, <3>2, <4>1 DEF Range
      <4>3. HasEntry(topics[c], NameIn(x), x.id)
        BY <1>5, <2>1, <2>2, <4>2, AllNamed DEF NamesAnId
      <4> QED BY <4>1, <4>2, <4>3 DEF NameIn, ToClient
    <3>3. ASSUME NEW n \in LongNames, NEW i, HasEntry(topics[c], n, i)
          PROVE  /\ <<i, n>> \in names[c] => <<i, n>> \in names'[c]
                 /\ m.type = "REGISTER" /\ m.name = n /\ m.id = i => <<i, n>> \in names'[c]
                 /\ \A r \in Answered(c, m) : r.type \in {"REGISTER", "SUBSCRIBE"} /\ r.name = n
                                               => <<i, n>> \in names'[c]
      BY <1>5, <2>1, <2>2, <3>3, LearningReads
    <3>4. \A r \in asked[c] : r.type = "REGISTER" /\ m.type = "REGACK" /\ m.msgId = r.msgId
                              => r \in Answered(c, m)
      BY DEF Answered, AnswerOf
    <3>5. Hears(names[c], asked[c], m, names'[c], asked'[c], topics[c])
      BY <1>1, <3>3, <3>4 DEF Hears
    <3>6. Agrees(s, topics[c])
      BY <3>2 DEF Agrees
    <3> QED BY <1>1, <1>2, <3>1, <3>5, <3>6, InTimeTail
  <2>4. Waits(asked'[c], Cr(c), topics[c])
    <3> SUFFICES ASSUME NEW x \in Range(Cr(c)), Topical(x)
                 PROVE  x \in asked'[c] \/ Placed(topics[c], x.name)
      BY DEF Waits
    <3>1. x \in asked[c] \/ Placed(topics[c], x.name)
      BY <2>2 DEF Knows, Waits
    <3>2. x \in Answered(c, m) => Placed(topics[c], x.name)
      BY <1>2, <1>3, <1>5, <2>2, AnswerFacts
    <3> QED BY <1>1, <3>1, <3>2
  <2>5. \A x \in Range(Tail(s)) \cup {waitedSubAck[c]} : NoRoom(asked'[c], x, topics[c])
    BY <1>1, <1>2, <1>3, <2>2 DEF Knows, NoRoom
  <2>6. Ahead(Tail(s), Br(c), replies[c])
    BY <1>1, <1>2, <2>2, AheadTails
  <2>7. Knows(c)'
    BY <1>1, <1>2, <2>3, <2>4, <2>5 DEF Knows
  <2> QED BY <1>1, <1>2, <1>5, <2>6, <2>7 DEF Learning
<1> QED BY <1>1, <1>4, <1>5 DEF Learning

\* A table that only grows, and not when it is full.
LEMMA RoomKept ==
  ASSUME NEW t, NEW u, GoodTable(t), GoodTable(u),
         \A n, i : HasEntry(t, n, i) => HasEntry(u, n, i), IsFull(t) => u = t
  PROVE  /\ \A n : Placed(t, n) => Placed(u, n)
         /\ \A A, x : NoRoom(A, x, t) => NoRoom(A, x, u)
<1>1. \A n : HasName(t, n) => HasName(u, n)
  BY NamedEntry
<1>2. \A n : Placed(t, n) => Placed(u, n)
  BY <1>1 DEF Placed
<1>3. ASSUME NEW A, NEW x, NoRoom(A, x, t)
      PROVE  NoRoom(A, x, u)
  BY <1>3 DEF NoRoom
<1> QED BY <1>2, <1>3

LEMMA LearningHandlesUp ==
  ASSUME Shape, Shape', NEW c \in Clients, Owned(c), OnePass(c), Naming(c), Learning(c),
         setting' = setting, SameClient(c), SameBroker(c), Cr(c) # <<>>,
         NEW m, m = Head(Cr(c)), NEW up, NEW down, UpMoves(c, m, up, down)
  PROVE  Learning(c)'
<1>1. /\ Cr(c)' = Tail(Cr(c)) /\ Cs(c)' = Cs(c) \o down /\ Br(c)' = Br(c) /\ down \in Seq(ToClient)
      /\ AcceptsNone(down) /\ NamesUp(c, m, up, down) /\ EntersUp(c, m, down)
  BY DEF UpMoves, TurnUp
<1>2. /\ UNCHANGED <<replies[c], link[c], active[c], asked[c], names[c]>> /\ Orderly' = Orderly
  BY DEF SameClient, SameBroker, Orderly
<1>3. /\ m \in Range(Cr(c)) /\ Range(Tail(Cr(c))) \subseteq Range(Cr(c)) /\ Cs(c) \in Seq(ToClient)
      /\ Range(Cs(c) \o down) = Range(Cs(c)) \cup Range(down)
      /\ DOMAIN down = 1 .. Len(down)
  BY <1>1, LaneTypes, RangeTail, RangeConcat
<1>4. \A x \in Range(down) : ~NamesAnId(x) /\ ~Accepted(x)
  BY <1>1 DEF NamesUp, NamesAnId, AcceptsNone, Accepted
<1>5. GoodTable(topics[c]) /\ GoodTable(topics'[c])
  BY DEF Shape, NodeShape
<1>6. CASE Orderly /\ link[c] = "none"
  <2>1. Fresh(c)
    BY <1>6 DEF Learning
  <2>2. \A x \in Range(Cs(c)') : ~NamesAnId(x) /\ ~Accepted(x)
    BY <1>1, <1>3, <1>4, <2>1 DEF Fresh
  <2>3. \A x \in Range(Cr(c)') \cup asked'[c] : ~Topical(x)
    BY <1>1, <1>2, <1>3, <2>1 DEF Fresh
  <2>4. ASSUME NEW n \in LongNames, HasName(topics'[c], n)
        PROVE  FALSE
    <3>1. PICK i : HasEntry(topics'[c], n, i)
      BY <1>5, <2>4, NamedEntry
    <3>2. ~Topical(m)
      BY <1>3, <2>1 DEF Fresh
    <3>3. HasEntry(topics[c], n, i)
      BY <1>1, <3>1, <3>2 DEF EntersUp
    <3> QED BY <1>5, <2>1, <3>3, NamedEntry DEF Fresh
  <2> QED BY <1>1, <1>2, <1>6, <2>1, <2>2, <2>3, <2>4 DEF Fresh, Learning
<1>7. CASE Orderly /\ link[c] # "none" /\ On(c)'
  <2>1. On(c)
    BY <1>1, <1>2, <1>3, <1>4, <1>7 DEF On, Welcome
  <2>2. Knows(c) /\ Ahead(Cs(c), Br(c), replies[c])
    BY <1>7, <2>1 DEF Learning
  <2>3. ~Renews(m)
    BY <1>3, <1>7, <2>1, OnFacts DEF Renews
  <2>4. /\ \A n, i : HasEntry(topics[c], n, i) => HasEntry(topics'[c], n, i)
        /\ IsFull(topics[c]) => topics'[c] = topics[c]
    BY <1>1, <2>3 DEF NamesUp, EntersUp
  <2>5. /\ \A n : Placed(topics[c], n) => Placed(topics'[c], n)
        /\ \A A, x : NoRoom(A, x, topics[c]) => NoRoom(A, x, topics'[c])
    BY <1>5, <2>4, RoomKept
  <2>6. InTime(names[c], asked[c], Cs(c) \o down, topics'[c])
    <3>1. ASSUME NEW n \in LongNames, NEW i, HasEntry(topics'[c], n, i), ~HasEntry(topics[c], n, i)
          PROVE  \/ \E r \in asked[c], x \in Range(down) :
                      /\ r.type = "REGISTER" /\ r.name = n
                      /\ x.type = "REGACK" /\ x.msgId = r.msgId /\ x.id = i
                 \/ \E r \in asked[c] : r.type = "SUBSCRIBE" /\ r.name = n
      <4>1. /\ Topical(m) /\ m.name = n /\ ~Placed(topics[c], n)
            /\ m.type = "REGISTER" =>
                 \E x \in Range(down) : x.type = "REGACK" /\ x.msgId = m.msgId /\ x.id = i
        BY <1>1, <3>1 DEF EntersUp
      <4>2. m \in asked[c]
        BY <1>3, <2>2, <4>1 DEF Knows, Waits
      <4>3. m.type = "REGISTER" \/ m.type = "SUBSCRIBE"
        BY <4>1 DEF Topical
      <4> QED BY <4>1, <4>2, <4>3
    <3>2. \A k \in DOMAIN down : ~(down[k].type = "PUBLISH" /\ down[k].flags = {"normal"})
      BY <1>4 DEF NamesAnId, Range
    <3>3. InTime(names[c], asked[c], Cs(c), topics[c])
      BY <2>2 DEF Knows
    <3>4. TellsAll(asked[c], down, topics[c], topics'[c])
      BY <3>1 DEF TellsAll
    <3>5. TellsFirst(down, topics[c])
      BY <3>2 DEF TellsFirst
    <3> QED BY <1>1, <1>3, <3>3, <3>4, <3>5, InTimeSends
  <2>7. Waits(asked[c], Tail(Cr(c)), topics'[c])
    BY <1>3, <2>2, <2>5 DEF Knows, Waits
  <2>8. ASSUME NEW x \in Range(Cs(c) \o down) \cup {waitedSubAck'[c]}
        PROVE  NoRoom(asked[c], x, topics'[c])
    <3>1. CASE x \in Range(Cs(c)) \cup {waitedSubAck[c]}
      BY <2>2, <2>5, <3>1 DEF Knows
    <3>2. CASE x \notin Range(Cs(c)) \cup {waitedSubAck[c]} /\ x.type \in {"REGACK", "SUBACK"}
      <4>1. x \in Range(down) \cup {waitedSubAck'[c]} /\ Answers(c, m, x)
        BY <1>1, <1>3, <2>8, <3>2 DEF NamesUp
      <4>2. ASSUME NEW r \in asked[c], x.id = NoTopic, Topical(r), AnswerOf[r.type] = x.type,
                   r.msgId = x.msgId
            PROVE  IsFull(topics'[c]) /\ ~HasName(topics'[c], r.name)
        <5>1. m.type \in {"REGISTER", "SUBSCRIBE"} /\ m.type = r.type /\ m.msgId = r.msgId
          BY <4>1, <4>2 DEF Answers, Topical, AnswerOf
        <5>2. m = r
          BY <1>3, <5>1 DEF Naming, Numbered
        <5>3. IsFull(topics[c]) /\ ~HasName(topics[c], m.name)
          BY <1>1, <3>2, <4>1, <4>2, <5>2 DEF EntersUp
        <5> QED BY <2>4, <5>2, <5>3
      <4> QED BY <4>2 DEF NoRoom
    <3>3. CASE x.type \notin {"REGACK", "SUBACK"}
      BY <3>3 DEF NoRoom
    <3> QED BY <3>1, <3>2, <3>3
  <2>9. Ahead(Cs(c) \o down, Br(c), replies[c])
    BY <1>1, <1>3, <1>4, <2>2, AheadSends
  <2>10. Knows(c)'
    BY <1>1, <1>2, <2>6, <2>7, <2>8 DEF Knows
  <2> QED BY <1>1, <1>2, <1>7, <2>9, <2>10 DEF Learning
<1> QED BY <1>2, <1>6, <1>7 DEF Learning

\* What the handler of m, a message of the broker, sends comes after its CONNACK.
LEMMA AheadHandled ==
  ASSUME NEW s \in Seq(ToClient), NEW b \in Seq(FromBroker), b # <<>>, NEW r, Ahead(s, b, r),
         NEW m, m = Head(b), NEW down \in Seq(ToClient),
         (\E x \in Range(down) : Accepted(x)) => m.type = "CONNACK",
         m.type # "PUBLISH" => \A x \in Range(down) : ~NamesAnId(x)
  PROVE  Ahead(s \o down, Tail(b), r)
<1>1. m \in Range(b) /\ Ahead(s, Tail(b), r)
  BY RangeTail, AheadTails
<1>2. ASSUME NEW y \in Range(down), Accepted(y)
      PROVE  \A x \in Range(s) \cup Range(down) : ~NamesAnId(x)
  BY <1>1, <1>2 DEF Ahead
<1>3. ASSUME NEW y \in Range(Tail(b)) \cup Range(r), y.type = "CONNACK"
      PROVE  m.type # "PUBLISH"
  <2>1. CASE y \in Range(Tail(b))
    <3>1. Precedes(b, m, y) /\ y \in Range(b)
      BY <2>1, PrecedesTail, RangeTail
    <3> QED BY <1>1, <1>3, <3>1 DEF Ahead
  <2>2. CASE y \in Range(r)
    BY <1>1, <1>3, <2>2 DEF Ahead
  <2> QED BY <1>3, <2>1, <2>2
<1> QED BY <1>1, <1>2, <1>3, AheadSends

LEMMA LearningHandlesDown ==
  ASSUME Shape, Shape', NEW c \in Clients, Naming(c), Learning(c),
         setting' = setting, SameClient(c), SameBroker(c), Br(c) # <<>>,
         NEW m, m = Head(Br(c)), NEW down, DownMoves(c, m, down)
  PROVE  Learning(c)'
<1>1. /\ Br(c)' = Tail(Br(c)) /\ Cs(c)' = Cs(c) \o down /\ Cr(c)' = Cr(c) /\ down \in Seq(ToClient)
      /\ PassesDown(m, down) /\ NamesDown(c, down) /\ EntersDown(c, m, down)
  BY DEF DownMoves, TurnDown
<1>2. /\ UNCHANGED <<replies[c], link[c], active[c], asked[c], names[c]>> /\ Orderly' = Orderly
  BY DEF SameClient, SameBroker, Orderly
<1>3. /\ m \in Range(Br(c)) /\ m \in FromBroker /\ Range(Tail(Br(c))) \subseteq Range(Br(c))
      /\ Cs(c) \in Seq(ToClient) /\ Br(c) \in Seq(FromBroker)
      /\ Range(Cs(c) \o down) = Range(Cs(c)) \cup Range(down) /\ Range(down) \subseteq ToClient
      /\ DOMAIN down = 1 .. Len(down)
  BY <1>1, LaneTypes, RangeTail, RangeConcat, RangeType
<1>4. (\E x \in Range(down) : Accepted(x)) => m.type = "CONNACK"
  BY <1>1, <1>3 DEF PassesDown, Accepted, Clear, PassTypes, FromBroker
<1>5. GoodTable(topics[c]) /\ GoodTable(topics'[c])
  BY DEF Shape, NodeShape
<1>6. CASE Orderly /\ link[c] # "none" /\ On(c)'
  <2>1. On(c)
    BY <1>1, <1>2, <1>3, <1>4, <1>6 DEF On, Welcome
  <2>2. Knows(c) /\ Ahead(Cs(c), Br(c), replies[c])
    BY <1>6, <2>1 DEF Learning
  <2>3. /\ \A n, i : HasEntry(topics[c], n, i) => HasEntry(topics'[c], n, i)
        /\ IsFull(topics[c]) => topics'[c] = topics[c]
    BY <1>1 DEF NamesDown, EntersDown
  <2>4. /\ \A n : Placed(topics[c], n) => Placed(topics'[c], n)
        /\ \A A, x : NoRoom(A, x, topics[c]) => NoRoom(A, x, topics'[c])
    BY <1>5, <2>3, RoomKept
  <2>5. InTime(names[c], asked[c], Cs(c) \o down, topics'[c])
    <3>1. \A n \in LongNames : \A i : HasEntry(topics'[c], n, i) =>
            \/ HasEntry(topics[c], n, i)
            \/ \E x \in Range(down) : x.type = "REGISTER" /\ x.name = n /\ x.id = i
      BY <1>1 DEF EntersDown
    <3>2. ASSUME NEW k \in DOMAIN down, down[k].type = "PUBLISH", down[k].flags = {"normal"}
          PROVE  /\ down[k].data \in LongNames
                 /\ \/ HasEntry(topics[c], down[k].data, down[k].id)
                    \/ \E j \in 1 .. k - 1 : /\ down[j].type = "REGISTER"
                                             /\ down[j].name = down[k].data /\ down[j].id = down[k].id
      <4>1. down[k] \in ToClient
        BY <1>3 DEF Range
      <4> QED BY <1>1, <3>2, <4>1 DEF EntersDown, ToClient
    <3>3. InTime(names[c], asked[c], Cs(c), topics[c])
      BY <2>2 DEF Knows
    <3>4. TellsAll(asked[c], down, topics[c], topics'[c])
      BY <3>1 DEF TellsAll
    <3>5. TellsFirst(down, topics[c])
      BY <3>2 DEF TellsFirst
    <3> QED BY <1>1, <1>3, <3>3, <3>4, <3>5, InTimeSends
  <2>6. Waits(asked[c], Cr(c), topics'[c])
    BY <2>2, <2>4 DEF Knows, Waits
  <2>7. ASSUME NEW x \in Range(Cs(c) \o down) \cup {waitedSubAck'[c]}
        PROVE  NoRoom(asked[c], x, topics'[c])
    <3>1. CASE x \in Range(Cs(c)) \cup {waitedSubAck[c]}
      BY <2>2, <2>4, <3>1 DEF Knows
    <3>2. CASE x \in Range(down)
      <4>1. x.type = "SUBACK" => NoRoom(asked[c], waitedSubAck[c], topics'[c])
        BY <2>2, <2>4 DEF Knows
      <4>2. /\ x.type # "REGACK"
            /\ x.type = "SUBACK" => /\ waitedSubAck[c].type = "SUBACK"
                                    /\ x.msgId = waitedSubAck[c].msgId /\ x.id = waitedSubAck[c].id
        BY <1>1, <3>2 DEF NamesDown
      <4> QED BY <4>1, <4>2 DEF NoRoom
    <3>3. CASE x = None
      BY <3>3, NoneFact DEF NoRoom
    <3> QED BY <1>1, <1>3, <2>7, <3>1, <3>2, <3>3 DEF NamesDown
  <2>8. Ahead(Cs(c) \o down, Tail(Br(c)), replies[c])
    <3>1. m.type # "PUBLISH" => \A x \in Range(down) : ~NamesAnId(x)
      BY <1>1 DEF EntersDown
    <3> QED BY <1>1, <1>3, <1>4, <2>2, <3>1, AheadHandled
  <2>9. Knows(c)'
    BY <1>1, <1>2, <2>5, <2>6, <2>7 DEF Knows
  <2> QED BY <1>1, <1>2, <1>6, <2>8, <2>9 DEF Learning
<1>7. ~Fresh(c)
  BY DEF Fresh
<1> QED BY <1>2, <1>6, <1>7 DEF Learning

LEMMA LearningStep ==
  ASSUME Shape, Shape', NEW c \in Clients, Owned(c), OnePass(c), Naming(c), Learning(c),
         setting' = setting, Effect(c)
  PROVE  Learning(c)'
<1>1. CASE Connects(c)
  BY <1>1, LearningConnects
<1>2. CASE Asks(c)
  <2>1. PICK m \in FromClient :
          /\ Sends(c, m) /\ asked'[c] = asked[c] \cup {m} /\ active[c] /\ names'[c] = names[c]
          /\ m.type \in {"REGISTER", "SUBSCRIBE"} => m.msgId = requests[c] + 1
    BY <1>2 DEF Asks
  <2>2. Topical(m) => m.msgId > requests[c]
    BY <2>1 DEF Topical, Shape, ClientShape
  <2> QED BY <2>1, <2>2, LearningSends
<1>3. CASE Tells(c)
  <2>1. PICK m : /\ Sends(c, m) /\ ~Topical(m) /\ active[c]
                 /\ UNCHANGED <<asked[c], names[c]>>
    BY <1>3 DEF Tells, Topical
  <2> QED BY <2>1, LearningSends
<1>4. CASE Repeats(c)
  <2>1. PICK m \in asked[c] : Sends(c, m)
    BY <1>4 DEF Repeats
  <2>2. UNCHANGED <<active[c], asked[c], names[c]>>
    BY <1>4 DEF Repeats, SameClient
  <2> QED BY <2>1, <2>2, LearningSends
<1>5. CASE Pays(c)
  <2>1. PICK m : Sends(c, m) /\ ~Topical(m)
    BY <1>5 DEF Pays, Topical, OwedTypes
  <2>2. UNCHANGED <<active[c], asked[c], names[c]>>
    BY <1>5 DEF Pays
  <2> QED BY <2>1, <2>2, LearningSends
<1>6. CASE Idles(c)
  BY <1>6, LearningKept DEF Idles, Unchanging, SameBroker
<1>7. CASE \E m \in ToClient : Delivers(c, m)
  BY <1>7, LearningDelivers
<1>8. CASE Misses(c)
  BY <1>8 DEF Misses, Learning, Orderly
<1>9. CASE Forwards(c)
  BY <1>9, LearningForwards
<1>10. CASE Publishes(c)
  <2>1. PICK x \in FromBroker : x.type = "PUBLISH" /\ replies'[c] = Append(replies[c], x)
    BY <1>10 DEF Publishes
  <2>2. <<x>> \in Seq(FromBroker) /\ Range(<<x>>) = {x}
    BY OneMessage
  <2>3. replies'[c] = replies[c] \o <<x>>
    <3>1. replies[c] \in Seq(FromBroker)
      BY LaneTypes
    <3> QED BY <2>1, <3>1
  <2>4. /\ SameNodeAt(c) /\ SameClient(c) /\ UNCHANGED <<Cr(c), Cs(c), Br(c)>>
        /\ link[c] # "none" /\ link'[c] # "none"
    BY <1>10 DEF Publishes
  <2> QED BY <2>1, <2>2, <2>3, <2>4, LearningReplies
<1>11. CASE Receives(c)
  BY <1>11, LearningReceives
<1>12. CASE Drops(c)
  BY <1>12, LearningLoses DEF Drops, SameClient, Orderly
<1>13. ASSUME SameClient(c), SameBroker(c), Cr(c) # <<>>, NEW up, NEW down,
              UpMoves(c, Head(Cr(c)), up, down)
       PROVE  Learning(c)'
  BY <1>13, LearningHandlesUp
<1>14. ASSUME SameClient(c), SameBroker(c), Br(c) # <<>>, NEW down,
              DownMoves(c, Head(Br(c)), down)
       PROVE  Learning(c)'
  BY <1>14, LearningHandlesDown
<1> QED BY <1>1, <1>2, <1>3, <1>4, <1>5, <1>6, <1>7, <1>8, <1>9, <1>10, <1>11, <1>12, <1>13, <1>14
        DEF Effect
------------------------------------------------------------------------------
(* What a client waits for is at one place.                                *)
LEMMA TriesStep ==
  ASSUME Tries, [Next]_vars
  PROVE  Tries' /\ \A c \in Clients : retries'[c] >= retries[c]
<1>1. CASE retries' = retries
  BY <1>1 DEF Tries
<1>2. ASSUME NEW c \in Clients, retries' = [retries EXCEPT ![c] = @ + 1]
      PROVE  Tries' /\ \A d \in Clients : retries'[d] >= retries[d]
  BY <1>2 DEF Tries
<1>3. ASSUME NEW c \in Clients,
             \/ FirstConnect(c) \/ Reconnect(c) \/ Ask(c) \/ Tell(c) \/ Search(c) \/ Retry(c) \/ Pay(c)
             \/ Deliver(c) \/ Miss(c) \/ Forward(c) \/ BrokerPublish(c) \/ Receive(c)
             \/ Close(c) \/ Break(c)
      PROVE  retries' = retries \/ retries' = [retries EXCEPT ![c] = @ + 1]
  BY <1>3 DEF FirstConnect, Reconnect, Ask, Tell, Search, Retry, Pay, Deliver, Miss, Forward,
              BrokerPublish, Receive, Close, Break, clientVars
<1>4. CASE Outside \/ UNCHANGED vars
  BY <1>1, <1>4 DEF Outside, vars, clientVars
<1> QED BY <1>1, <1>2, <1>3, <1>4 DEF Next

LEMMA Joins ==
  ASSUME Shape, Room, NEW c \in Clients, c \notin known, c \in Listed => c \in known
  PROVE  MayJoin
<1>1. Listed # Clients
  OBVIOUS
<1>2. /\ ~ListRead /\ IsFiniteSet(Clients) /\ Cardinality(Clients) <= MaxClientNodes
      /\ known \subseteq Clients /\ MaxClientNodes \in Nat
  BY <1>1, ListAssumption DEF Room, Shape, NodeShape
<1>3. IsFiniteSet(known) /\ Cardinality(known) < Cardinality(Clients)
  BY <1>2, FS_Subset, FS_CardinalityType
<1>4. Cardinality(known) \in Nat /\ Cardinality(Clients) \in Nat
  BY <1>2, <1>3, FS_CardinalityType
<1> QED BY <1>2, <1>3, <1>4 DEF MayJoin

LEMMA WeightFacts ==
  ASSUME Shape, NEW c \in Clients, NEW p \in Places
  PROVE  /\ Weight(c, p) \in Nat
         /\ Weight(c, p) = 0 <=> \A m \in Range(At(c, p)) : m \notin Loads(p \in Upward)
BY AtTypes, CountFinite, CountZero DEF Weight

LEMMA WeightTail ==
  ASSUME Shape, NEW c \in Clients, NEW p \in Places,
         At(c, p) # <<>>, At(c, p)' = Tail(At(c, p))
  PROVE  /\ Weight(c, p)' \in Nat
         /\ Weight(c, p) = Weight(c, p)' + (IF Head(At(c, p)) \in Loads(p \in Upward) THEN 1 ELSE 0)
         /\ Weight(c, p)' = 0 <=> \A m \in Range(At(c, p)') : m \notin Loads(p \in Upward)
         /\ Head(At(c, p)) \in Range(At(c, p)) /\ Range(At(c, p)') \subseteq Range(At(c, p))
<1>1. At(c, p) \in Seq(AnyMessage) /\ Tail(At(c, p)) \in Seq(AnyMessage)
  BY AtTypes, RangeTail
<1>2. Weight(c, p)' = Count(Loads(p \in Upward), Tail(At(c, p)))
  BY DEF Weight
<1>3. Count(Loads(p \in Upward), Tail(At(c, p))) \in Nat
  BY <1>1, CountFinite
<1>4. Count(Loads(p \in Upward), At(c, p)) = Count(Loads(p \in Upward), Tail(At(c, p)))
        + (IF Head(At(c, p)) \in Loads(p \in Upward) THEN 1 ELSE 0)
  BY <1>1, CountTail
<1>5. Count(Loads(p \in Upward), Tail(At(c, p))) = 0
        <=> \A m \in Range(Tail(At(c, p))) : m \notin Loads(p \in Upward)
  BY <1>1, CountZero
<1>6. Head(At(c, p)) \in Range(At(c, p)) /\ Range(Tail(At(c, p))) \subseteq Range(At(c, p))
  BY <1>1, RangeTail
<1> QED BY <1>2, <1>3, <1>4, <1>5, <1>6 DEF Weight

LEMMA WeightConcat ==
  ASSUME Shape, NEW c \in Clients, NEW p \in Places,
         NEW s \in Seq(AnyMessage), At(c, p)' = At(c, p) \o s
  PROVE  /\ Weight(c, p)' = Weight(c, p) + Count(Loads(p \in Upward), s)
         /\ Weight(c, p) \in Nat /\ Count(Loads(p \in Upward), s) \in Nat
         /\ Range(At(c, p)') = Range(At(c, p)) \cup Range(s)
<1>1. At(c, p) \in Seq(AnyMessage)
  BY AtTypes
<1>2. Weight(c, p)' = Count(Loads(p \in Upward), At(c, p) \o s)
  BY DEF Weight
<1> QED BY <1>1, <1>2, CountConcat, RangeConcat DEF Weight

LEMMA LoadParts ==
  ASSUME Shape, NEW c \in Clients
  PROVE  /\ Load(c) \in Nat
         /\ \A p \in Places : Weight(c, p) \in Nat /\ Weight(c, p) <= Load(c)
         /\ \A p, q \in Places : p # q => Weight(c, p) + Weight(c, q) <= Load(c)
<1>1. \A p \in Places : Weight(c, p) \in Nat
  BY WeightFacts
<1> QED BY <1>1 DEF Load, Places

\* From where a message goes on to where, and a handler's second queue.
Routes ==
  {<<"clientRecv", "brokerSend", "clientSend">>, <<"brokerRecv", "brokerSend", "clientSend">>,
   <<"owes", "clientRecv", "clientSend">>, <<"clientSend", "owes", "clientRecv">>,
   <<"brokerSend", "replies", "clientRecv">>, <<"replies", "brokerRecv", "clientRecv">>}

Moves(c, p, q, s, k, t) ==
  /\ <<p, q, k>> \in Routes /\ s \in Seq(AnyMessage) /\ t \in Seq(AnyMessage)
  /\ At(c, p) # <<>> /\ At(c, p)' = Tail(At(c, p))
  /\ At(c, q)' = At(c, q) \o s /\ At(c, k)' = At(c, k) \o t
  /\ \A j \in Places \ {p, q, k} : At(c, j)' = At(c, j)

LEMMA LoadMoved ==
  ASSUME Shape, NEW c \in Clients, NEW p, NEW q, NEW s, NEW k, NEW t, Moves(c, p, q, s, k, t)
  PROVE  /\ Load(c)' + (IF Head(At(c, p)) \in Loads(p \in Upward) THEN 1 ELSE 0)
              = Load(c) + Count(Loads(q \in Upward), s) + Count(Loads(k \in Upward), t)
         /\ Load(c)' \in Nat
         /\ Count(Loads(q \in Upward), s) \in Nat /\ Count(Loads(k \in Upward), t) \in Nat
<1> DEFINE a == IF Head(At(c, p)) \in Loads(p \in Upward) THEN 1 ELSE 0
           x == Count(Loads(q \in Upward), s)
           y == Count(Loads(k \in Upward), t)
<1>0. /\ p \in Places /\ q \in Places /\ k \in Places /\ p # q /\ p # k /\ q # k
      /\ s \in Seq(AnyMessage) /\ t \in Seq(AnyMessage)
  BY DEF Moves, Routes, Places
<1>1. Weight(c, p)' \in Nat /\ Weight(c, p) = Weight(c, p)' + a
  BY <1>0, WeightTail DEF Moves
<1>2. Weight(c, q)' = Weight(c, q) + x /\ x \in Nat
  BY <1>0, WeightConcat DEF Moves
<1>3. Weight(c, k)' = Weight(c, k) + y /\ y \in Nat
  BY <1>0, WeightConcat DEF Moves
<1>4. \A j \in Places \ {p, q, k} : Weight(c, j)' = Weight(c, j)
  BY DEF Moves, Weight
<1>5. \A j \in Places : Weight(c, j) \in Nat
  BY WeightFacts
<1>6. a \in {0, 1} /\ <<p, q, k>> \in Routes
  BY DEF Moves
<1> HIDE DEF a, x, y
<1>7. Load(c)' + a = Load(c) + x + y /\ Load(c)' \in Nat
  <2>1. CASE p = "clientRecv" /\ q = "brokerSend" /\ k = "clientSend"
    BY <1>1, <1>2, <1>3, <1>4, <1>5, <1>6, <2>1 DEF Load, Places
  <2>2. CASE p = "brokerRecv" /\ q = "brokerSend" /\ k = "clientSend"
    BY <1>1, <1>2, <1>3, <1>4, <1>5, <1>6, <2>2 DEF Load, Places
  <2>3. CASE p = "owes" /\ q = "clientRecv" /\ k = "clientSend"
    BY <1>1, <1>2, <1>3, <1>4, <1>5, <1>6, <2>3 DEF Load, Places
  <2>4. CASE p = "clientSend" /\ q = "owes" /\ k = "clientRecv"
    BY <1>1, <1>2, <1>3, <1>4, <1>5, <1>6, <2>4 DEF Load, Places
  <2>5. CASE p = "brokerSend" /\ q = "replies" /\ k = "clientRecv"
    BY <1>1, <1>2, <1>3, <1>4, <1>5, <1>6, <2>5 DEF Load, Places
  <2>6. CASE p = "replies" /\ q = "brokerRecv" /\ k = "clientRecv"
    <3>1. /\ Weight(c, "replies") = Weight(c, "replies")' + a /\ Weight(c, "replies")' \in Nat
          /\ Weight(c, "brokerRecv")' = Weight(c, "brokerRecv") + x
          /\ Weight(c, "clientRecv")' = Weight(c, "clientRecv") + y
      BY <1>1, <1>2, <1>3, <2>6
    <3>2. /\ Weight(c, "brokerSend")' = Weight(c, "brokerSend")
          /\ Weight(c, "owes")' = Weight(c, "owes")
          /\ Weight(c, "clientSend")' = Weight(c, "clientSend")
      BY <1>4, <2>6 DEF Places
    <3> QED BY <1>2, <1>3, <1>5, <1>6, <3>1, <3>2 DEF Load, Places
  <2> QED BY <1>6, <2>1, <2>2, <2>3, <2>4, <2>5, <2>6 DEF Routes
<1> QED BY <1>2, <1>3, <1>7 DEF a, x, y

LEMMA MovedAt ==
  ASSUME Shape, NEW c \in Clients, NEW p, NEW q, NEW s, NEW k, NEW t, Moves(c, p, q, s, k, t)
  PROVE  /\ p \in Places /\ q \in Places /\ k \in Places /\ p # q /\ p # k /\ q # k
         /\ Head(At(c, p)) \in Range(At(c, p))
         /\ \A j \in Places : \A x \in Range(At(c, j)') :
              \/ x \in Range(At(c, j)) /\ (j = p => x \in Range(At(c, p)'))
              \/ j = q /\ x \in Range(s)
              \/ j = k /\ x \in Range(t)
<1>0. /\ p \in Places /\ q \in Places /\ k \in Places /\ p # q /\ p # k /\ q # k
      /\ s \in Seq(AnyMessage) /\ t \in Seq(AnyMessage)
  BY DEF Moves, Routes, Places
<1>1. Head(At(c, p)) \in Range(At(c, p)) /\ Range(At(c, p)') \subseteq Range(At(c, p))
  BY <1>0, WeightTail DEF Moves
<1>2. Range(At(c, q)') = Range(At(c, q)) \cup Range(s)
  <2>1. At(c, q)' = At(c, q) \o s /\ At(c, q) \in Seq(AnyMessage)
    BY <1>0, AtTypes DEF Moves
  <2> QED BY <1>0, <2>1, RangeConcat
<1>3. Range(At(c, k)') = Range(At(c, k)) \cup Range(t)
  <2>1. At(c, k)' = At(c, k) \o t /\ At(c, k) \in Seq(AnyMessage)
    BY <1>0, AtTypes DEF Moves
  <2> QED BY <1>0, <2>1, RangeConcat
<1>4. \A j \in Places \ {p, q, k} : At(c, j)' = At(c, j)
  BY DEF Moves
<1> QED BY <1>0, <1>1, <1>2, <1>3, <1>4

\* What is asked for is at the front of p.
LEMMA FlyHead ==
  ASSUME Shape, NEW c \in Clients, Flying(c), NEW p \in Places, NEW m \in Range(At(c, p)),
         m \in Loads(p \in Upward)
  PROVE  \E r \in FromClient :
           /\ asked[c] = {r} /\ r.type \in DOMAIN AnswerOf
           /\ r.msgId = 0 <=> r.type \in {"CONNECT", "PINGREQ"}
           /\ OnWay(c, r, p, m)
<1>1. Weight(c, p) \in Nat /\ Weight(c, p) # 0
  BY WeightFacts
<1>2. Load(c) # 0
  BY <1>1, LoadParts
<1>3. asked[c] # {}
  BY <1>2 DEF Flying
<1>4. PICK r \in asked[c] : asked[c] = {r} /\ (r.msgId = 0 <=> r.type \in {"CONNECT", "PINGREQ"})
                           /\ AllOnWay(c, r)
  BY <1>3 DEF Flying
<1>5. r \in FromClient /\ r.type \in DOMAIN AnswerOf
  BY DEF Shape, ClientShape
<1> QED BY <1>4, <1>5 DEF AllOnWay

\* A step that moves it on.
LEMMA FlyMoved ==
  ASSUME Shape, NEW c \in Clients, Flying(c),
         NEW p, NEW q, NEW s, NEW k, NEW t, Moves(c, p, q, s, k, t),
         NEW r, asked[c] = {r}, asked'[c] = asked[c], Head(At(c, p)) \in Loads(p \in Upward),
         Count(Loads(q \in Upward), s) + Count(Loads(k \in Upward), t) = 1,
         \A x \in Range(s) : x \in Loads(q \in Upward) => OnWay(c, r, q, x)',
         \A x \in Range(t) : x \in Loads(k \in Upward) => OnWay(c, r, k, x)'
  PROVE  Flying(c)'
<1>1. r.msgId = 0 <=> r.type \in {"CONNECT", "PINGREQ"}
  BY DEF Flying
<1>2. Load(c) = 1
  BY DEF Flying
<1>3. Load(c)' = 1
  BY <1>2, LoadMoved
<1>4. p \in Places /\ Head(At(c, p)) \in Range(At(c, p))
  BY MovedAt
<1>5. Weight(c, p)' = 0 /\ Weight(c, p) = 1
  <2>1. Weight(c, p) \in Nat /\ Weight(c, p) <= 1
    BY <1>2, <1>4, LoadParts
  <2>2. Weight(c, p)' \in Nat /\ Weight(c, p) = Weight(c, p)' + 1
    BY <1>4, WeightTail DEF Moves
  <2> QED BY <2>1, <2>2
<1>6. \A x \in Range(At(c, p)') : x \notin Loads(p \in Upward)
  BY <1>4, <1>5, WeightTail DEF Moves
<1>7. ASSUME NEW j \in Places, j # p, NEW x \in Range(At(c, j))
      PROVE  x \notin Loads(j \in Upward)
  <2>1. Weight(c, j) \in Nat /\ Weight(c, p) + Weight(c, j) <= 1
    BY <1>2, <1>4, <1>7, LoadParts
  <2>2. Weight(c, j) = 0
    BY <1>5, <2>1
  <2> QED BY <2>2, WeightFacts
<1>8. AllOnWay(c, r)'
  <2>1. ASSUME NEW j \in Places, NEW x \in Range(At(c, j)'), x \in Loads(j \in Upward)
        PROVE  OnWay(c, r, j, x)'
    BY <1>6, <1>7, <2>1, MovedAt
  <2> QED BY <2>1 DEF AllOnWay
<1> QED BY <1>1, <1>3, <1>8 DEF Flying

\* A step that moves something else.
LEMMA WayKept ==
  ASSUME NEW c, connect'[c] = connect[c], link'[c] = "none" <=> link[c] = "none",
         \A x \in Asking \cup Telling : Awaits(c, x) => Awaits(c, x)'
  PROVE  \A r, j : \A x \in Asking \cup Telling : OnWay(c, r, j, x) => OnWay(c, r, j, x)'
BY DEF OnWay

LEMMA FlyKept ==
  ASSUME Shape, NEW c \in Clients, Flying(c), asked'[c] = asked[c],
         Load(c)' = Load(c),
         \A j \in Places : \A x \in Range(At(c, j)') :
           x \in Range(At(c, j)) \/ x \notin Loads(j \in Upward),
         \A r \in asked[c], j \in Places : \A x \in Asking \cup Telling :
           OnWay(c, r, j, x) => OnWay(c, r, j, x)'
  PROVE  Flying(c)'
<1>1. CASE asked[c] = {}
  BY <1>1 DEF Flying
<1>2. CASE asked[c] # {}
  <2>1. PICK r \in asked[c] : asked[c] = {r} /\ (r.msgId = 0 <=> r.type \in {"CONNECT", "PINGREQ"})
                             /\ Load(c) = 1 /\ AllOnWay(c, r)
    BY <1>2 DEF Flying
  <2>2. AllOnWay(c, r)'
    <3>1. ASSUME NEW j \in Places, NEW x \in Range(At(c, j)'), x \in Loads(j \in Upward)
          PROVE  OnWay(c, r, j, x)'
      <4>1. x \in Range(At(c, j)) /\ x \in Asking \cup Telling
        BY <3>1 DEF Loads
      <4>2. OnWay(c, r, j, x)
        BY <2>1, <3>1, <4>1 DEF AllOnWay
      <4> QED BY <4>1, <4>2
    <3> QED BY <3>1 DEF AllOnWay
  <2> QED BY <2>1, <2>2 DEF Flying
<1> QED BY <1>1, <1>2

LEMMA FlyPast ==
  ASSUME Shape, NEW c \in Clients, Flying(c), asked'[c] = asked[c],
         NEW p, NEW q, NEW s, NEW k, NEW t, Moves(c, p, q, s, k, t),
         Head(At(c, p)) \notin Loads(p \in Upward),
         Count(Loads(q \in Upward), s) = 0, Count(Loads(k \in Upward), t) = 0,
         \A r \in asked[c], j \in Places : \A x \in Asking \cup Telling :
           OnWay(c, r, j, x) => OnWay(c, r, j, x)'
  PROVE  Flying(c)'
<1>1. Load(c)' = Load(c)
  BY LoadMoved, LoadParts
<1>2. /\ \A x \in Range(s) : x \notin Loads(q \in Upward)
      /\ \A x \in Range(t) : x \notin Loads(k \in Upward)
  BY CountZero DEF Moves
<1>3. \A j \in Places : \A x \in Range(At(c, j)') :
        x \in Range(At(c, j)) \/ x \notin Loads(j \in Upward)
  BY <1>2, MovedAt
<1> QED BY <1>1, <1>3, FlyKept

\* A step that adds a message x.
LEMMA LoadAdded ==
  ASSUME Shape, NEW c \in Clients, NEW q \in {"clientRecv", "replies"}, NEW x \in AnyMessage,
         At(c, q)' = Append(At(c, q), x), \A j \in Places \ {q} : At(c, j)' = At(c, j)
  PROVE  /\ Load(c)' = Load(c) + (IF x \in Loads(q \in Upward) THEN 1 ELSE 0)
         /\ Range(At(c, q)') = Range(At(c, q)) \cup {x}
<1>0. q \in Places
  BY DEF Places
<1>1. At(c, q) \in Seq(AnyMessage)
  BY <1>0, AtTypes
<1>2. Weight(c, q)' = Weight(c, q) + (IF x \in Loads(q \in Upward) THEN 1 ELSE 0)
  BY <1>1, CountAppend DEF Weight
<1>3. \A j \in Places \ {q} : Weight(c, j)' = Weight(c, j)
  BY DEF Weight
<1>4. \A j \in Places : Weight(c, j) \in Nat
  BY WeightFacts
<1>5. Load(c)' = Load(c) + (IF x \in Loads(q \in Upward) THEN 1 ELSE 0)
  <2>1. PICK a \in {0, 1} : a = IF x \in Loads(q \in Upward) THEN 1 ELSE 0
    OBVIOUS
  <2>2. Weight(c, q)' = Weight(c, q) + a
    BY <1>2, <2>1
  <2>3. /\ Weight(c, "clientRecv") \in Nat /\ Weight(c, "brokerSend") \in Nat
        /\ Weight(c, "owes") \in Nat /\ Weight(c, "replies") \in Nat
        /\ Weight(c, "brokerRecv") \in Nat /\ Weight(c, "clientSend") \in Nat
    BY <1>4 DEF Places
  <2>4. /\ Weight(c, "brokerSend")' = Weight(c, "brokerSend")
        /\ Weight(c, "owes")' = Weight(c, "owes")
        /\ Weight(c, "brokerRecv")' = Weight(c, "brokerRecv")
        /\ Weight(c, "clientSend")' = Weight(c, "clientSend")
    BY <1>3 DEF Places
  <2>5. CASE q = "clientRecv"
    <3>1. Weight(c, "replies")' = Weight(c, "replies")
      BY <1>3, <2>5 DEF Places
    <3>2. Weight(c, "clientRecv")' = Weight(c, "clientRecv") + a
      BY <2>2, <2>5
    <3>3. Load(c)' = Load(c) + a
      BY <2>3, <2>4, <3>1, <3>2 DEF Load
    <3> QED BY <2>1, <3>3
  <2>6. CASE q = "replies"
    <3>1. Weight(c, "clientRecv")' = Weight(c, "clientRecv")
      BY <1>3, <2>6 DEF Places
    <3>2. Weight(c, "replies")' = Weight(c, "replies") + a
      BY <2>2, <2>6
    <3>3. Load(c)' = Load(c) + a
      BY <2>3, <2>4, <3>1, <3>2 DEF Load
    <3> QED BY <2>1, <3>3
  <2> QED BY <2>5, <2>6
<1> QED BY <1>1, <1>5, RangeAppend

LEMMA FlyStarts ==
  ASSUME Shape, NEW c \in Clients, Flying(c), asked[c] = {},
         NEW m \in Asking, asked'[c] = {m}, m.msgId = 0 <=> m.type \in {"CONNECT", "PINGREQ"},
         At(c, "clientRecv")' = Append(At(c, "clientRecv"), m),
         \A j \in Places \ {"clientRecv"} : At(c, j)' = At(c, j),
         OnWay(c, m, "clientRecv", m)'
  PROVE  Flying(c)'
<1>1. Load(c) = 0
  BY DEF Flying
<1>2. m \in AnyMessage /\ m \in Loads("clientRecv" \in Upward)
  BY DEF Asking, Loads, Upward
<1>3. Load(c)' = 1 /\ Range(At(c, "clientRecv")') = Range(At(c, "clientRecv")) \cup {m}
  BY <1>1, <1>2, LoadAdded
<1>4. ASSUME NEW j \in Places, NEW x \in Range(At(c, j))
      PROVE  x \notin Loads(j \in Upward)
  <2>1. Weight(c, j) \in Nat /\ Weight(c, j) <= 0
    BY <1>1, LoadParts
  <2>2. Weight(c, j) = 0
    BY <2>1
  <2> QED BY <2>2, WeightFacts
<1>5. AllOnWay(c, m)'
  <2>1. ASSUME NEW j \in Places, NEW x \in Range(At(c, j)'), x \in Loads(j \in Upward)
        PROVE  OnWay(c, m, j, x)'
    <3>1. j = "clientRecv" /\ x = m
      BY <1>3, <1>4, <2>1
    <3> QED BY <3>1
  <2> QED BY <2>1 DEF AllOnWay
<1> QED BY <1>3, <1>5 DEF Flying

LEMMA FlyAdds ==
  ASSUME Shape, NEW c \in Clients, Flying(c), asked'[c] = asked[c],
         NEW q \in {"clientRecv", "replies"}, NEW x \in AnyMessage, x \notin Loads(q \in Upward),
         At(c, q)' = Append(At(c, q), x), \A j \in Places \ {q} : At(c, j)' = At(c, j),
         \A r \in asked[c], j \in Places : \A y \in Asking \cup Telling :
           OnWay(c, r, j, y) => OnWay(c, r, j, y)'
  PROVE  Flying(c)'
<1>1. Load(c)' = Load(c) /\ Range(At(c, q)') = Range(At(c, q)) \cup {x}
  <2>1. Load(c) \in Nat
    BY LoadParts
  <2>2. /\ Load(c)' = Load(c) + (IF x \in Loads(q \in Upward) THEN 1 ELSE 0)
        /\ Range(At(c, q)') = Range(At(c, q)) \cup {x}
    BY LoadAdded
  <2>3. Load(c)' = Load(c) + 0
    BY <2>2
  <2> QED BY <2>1, <2>2, <2>3
<1>2. \A j \in Places : \A y \in Range(At(c, j)') :
        y \in Range(At(c, j)) \/ y \notin Loads(j \in Upward)
  <2>1. ASSUME NEW j \in Places, NEW y \in Range(At(c, j)')
        PROVE  y \in Range(At(c, j)) \/ y \notin Loads(j \in Upward)
    <3>1. CASE j = q
      BY <1>1, <2>1, <3>1
    <3>2. CASE j # q
      <4>1. At(c, j)' = At(c, j)
        BY <3>2
      <4> QED BY <2>1, <4>1
    <3> QED BY <3>1, <3>2
  <2> QED BY <2>1
<1> QED BY <1>1, <1>2, FlyKept

LEMMA FlySame ==
  ASSUME NEW c \in Clients, Flying(c), asked'[c] = asked[c],
         \A j \in Places : At(c, j)' = At(c, j), link'[c] = link[c], SameNodeAt(c)
  PROVE  Flying(c)'
<1>1. \A j \in Places : Weight(c, j)' = Weight(c, j)
  BY DEF Weight
<1>2. Load(c)' = Load(c)
  BY <1>1 DEF Load, Places
<1>3. \A r, j, x : OnWay(c, r, j, x)' = OnWay(c, r, j, x)
  BY DEF OnWay, Awaits, SameNodeAt
<1>4. \A r : AllOnWay(c, r) => AllOnWay(c, r)'
  BY <1>3 DEF AllOnWay
<1> QED BY <1>2, <1>4 DEF Flying

LEMMA LeadsOn ==
  ASSUME NEW r \in FromClient, r.type \in DOMAIN AnswerOf,
         r.msgId = 0 <=> r.type \in {"CONNECT", "PINGREQ"},
         NEW u \in BOOLEAN, NEW v \in BOOLEAN, NEW m \in Loads(u), NEW x \in Loads(v),
         OnCourse(r, u, m), Leads(m, x)
  PROVE  OnCourse(r, v, x)
<1>1. r.type \in {"CONNECT", "REGISTER", "SUBSCRIBE", "UNSUBSCRIBE", "PUBLISH", "PINGREQ"}
  BY DEF AnswerOf
<1>2. CASE r.type = "CONNECT"
  <2>1. m.type \in PassTypes /\ m.msgId = 0
    BY <1>2 DEF OnCourse, Course, PassTypes
  <2>2. x.type \in PassTypes /\ x.msgId = 0
    BY <1>2, <2>1 DEF Leads, PassTypes, AnswerOf
  <2>3. x.type \in Course(r, v)
    BY <1>2, <2>2 DEF Course, PassTypes, Loads, Asking, Telling
  <2> QED BY <1>2, <2>2, <2>3 DEF OnCourse
<1>3. CASE r.type # "CONNECT"
  <2>1. m.type \in {r.type, AnswerOf[r.type]} /\ m.msgId = r.msgId
    BY <1>3 DEF OnCourse, Course
  <2>2. m.type \notin PassTypes /\ AnswerOf[r.type] \notin DOMAIN AnswerOf
    BY <1>1, <1>3, <2>1 DEF PassTypes, AnswerOf
  <2>3. x.type \in {r.type, AnswerOf[r.type]}
    BY <2>1, <2>2 DEF Leads
  <2>4. x.msgId = r.msgId
    BY <1>1, <1>3, <2>1, <2>2 DEF Leads, AnswerOf
  <2>5. x.type \in Course(r, v)
    BY <1>1, <1>3, <2>3 DEF Course, AnswerOf, Loads, Asking, Telling
  <2> QED BY <2>4, <2>5 DEF OnCourse
<1> QED BY <1>2, <1>3

\* r is what c asked for.
Follows(c, r) ==
  /\ asked[c] = {r} /\ r.type \in DOMAIN AnswerOf
  /\ r.msgId = 0 <=> r.type \in {"CONNECT", "PINGREQ"}

\* A step that moves the front of p on, or what it leads to.
LEMMA FlyGoes ==
  ASSUME Shape, NEW c \in Clients, Flying(c), asked'[c] = asked[c],
         NEW p, NEW q, NEW s, NEW k, NEW t, Moves(c, p, q, s, k, t), NEW h, h = Head(At(c, p)),
         NEW P, NEW Q, NEW K,
         P = Loads(p \in Upward), Q = Loads(q \in Upward), K = Loads(k \in Upward),
         Count(Q, s) + Count(K, t) = IF h \in P THEN 1 ELSE 0,
         h \in P => \A r \in FromClient : Follows(c, r) /\ OnWay(c, r, p, h) =>
           /\ \A x \in Range(s) : x \in Q => OnWay(c, r, q, x)'
           /\ \A x \in Range(t) : x \in K => OnWay(c, r, k, x)',
         h \in P \/ \A r \in asked[c], j \in Places : \A x \in Asking \cup Telling :
           OnWay(c, r, j, x) => OnWay(c, r, j, x)'
  PROVE  Flying(c)'
<1>1. p \in Places /\ h \in Range(At(c, p))
  BY MovedAt
<1>2. CASE h \in P
  <2>1. PICK r \in FromClient : asked[c] = {r} /\ Follows(c, r) /\ OnWay(c, r, p, h)
    BY <1>1, <1>2, FlyHead DEF Follows
  <2>2. /\ \A x \in Range(s) : x \in Q => OnWay(c, r, q, x)'
        /\ \A x \in Range(t) : x \in K => OnWay(c, r, k, x)'
    BY <1>2, <2>1
  <2>3. Count(Q, s) + Count(K, t) = 1
    BY <1>2
  <2> QED BY <1>2, <2>1, <2>2, <2>3, FlyMoved
<1>3. CASE h \notin P
  <2>1. Count(Q, s) \in Nat /\ Count(K, t) \in Nat
    BY LoadMoved
  <2>2. Count(Q, s) + Count(K, t) = 0
    BY <1>3
  <2>3. Count(Q, s) = 0 /\ Count(K, t) = 0
    BY <2>1, <2>2
  <2> QED BY <1>3, <2>3, FlyPast
<1> QED BY <1>2, <1>3

\* A step that changes two places.
LEMMA MovesOne ==
  ASSUME Shape, NEW c \in Clients, NEW p, NEW q, NEW k, <<p, q, k>> \in Routes,
         NEW s \in Seq(AnyMessage), At(c, p) # <<>>, At(c, p)' = Tail(At(c, p)),
         At(c, q)' = At(c, q) \o s, \A j \in Places \ {p, q} : At(c, j)' = At(c, j)
  PROVE  Moves(c, p, q, s, k, <<>>) /\ Range(<<>>) = {} /\ \A T : Count(T, <<>>) = 0
<1>1. k \in Places \ {p, q}
  BY DEF Routes, Places
<1>2. At(c, k) \in Seq(AnyMessage) /\ At(c, k)' = At(c, k)
  BY <1>1, AtTypes
<1>3. At(c, k)' = At(c, k) \o <<>>
  BY <1>2
<1>4. <<>> \in Seq(AnyMessage) /\ Range(<<>>) = {}
  BY DEF Range
<1>5. \A T : Count(T, <<>>) = 0
  BY CountShort
<1>6. \A j \in Places \ {p, q, k} : At(c, j)' = At(c, j)
  OBVIOUS
<1>7. Moves(c, p, q, s, k, <<>>)
  BY <1>3, <1>4, <1>6 DEF Moves
<1> QED BY <1>4, <1>5, <1>7

\* What is up or down.
LEMMA LoadsAt ==
  /\ Loads("clientRecv" \in Upward) = Asking /\ Loads("brokerSend" \in Upward) = Asking
  /\ Loads("owes" \in Upward) = Asking /\ Loads("replies" \in Upward) = Telling
  /\ Loads("brokerRecv" \in Upward) = Telling /\ Loads("clientSend" \in Upward) = Telling
BY DEF Loads, Upward

LEMMA UpAt ==
  /\ ("clientRecv" \in Upward) = TRUE /\ ("brokerSend" \in Upward) = TRUE /\ ("owes" \in Upward) = TRUE
  /\ ("replies" \in Upward) = FALSE /\ ("brokerRecv" \in Upward) = FALSE
  /\ ("clientSend" \in Upward) = FALSE
BY DEF Upward

LEMMA PhasesLive ==
  ASSUME NEW c, link'[c] # "none", Leaves(c)' => asked'[c] = {} /\ ~active'[c]
  PROVE  Phases(c)'
BY DEF Phases

LEMMA FlightConnects ==
  ASSUME Shape, NEW c \in Clients, Flying(c), Untouched(c), Connects(c), setting' = setting,
         Room, c \in Listed => c \in known
  PROVE  Flying(c)' /\ Phases(c)' /\ c \in known'
<1>1. PICK m \in FromClient :
        /\ m.type = "CONNECT" /\ Sends(c, m) /\ asked'[c] = {m} /\ ~active'[c] /\ owes'[c] = <<>>
  BY DEF Connects
<1>2. c \in known' /\ Cr(c)' = Append(Cr(c), m)
  BY <1>1, Joins DEF Sends
<1>3. /\ Cr(c) = <<>> /\ Bs(c) = <<>> /\ Br(c) = <<>> /\ Cs(c) = <<>>
      /\ owes[c] = <<>> /\ replies[c] = <<>> /\ asked[c] = {} /\ link[c] = "none"
  BY AtPlaces DEF Untouched, Places
<1>4. UNCHANGED <<Bs(c), Br(c), Cs(c), replies[c], link[c]>>
  BY <1>1 DEF Sends, SameBroker
<1>5. m \in Asking /\ m.msgId = 0
  BY <1>1 DEF FromClient, Asking
<1>6. OnWay(c, m, "clientRecv", m)'
  <2>1. OnCourse(m, "clientRecv" \in Upward, m)
    BY <1>1 DEF OnCourse, Course, Upward
  <2> QED BY <1>1, <1>3, <1>4, <2>1 DEF OnWay, Begins, WillTypes, WillAsked
<1>7. Flying(c)'
  <2>1. At(c, "clientRecv")' = Append(At(c, "clientRecv"), m)
    BY <1>2, AtPlaces
  <2>2. \A j \in Places \ {"clientRecv"} : At(c, j)' = At(c, j)
    BY <1>1, <1>3, <1>4, AtPlaces DEF Places
  <2> QED BY <1>1, <1>3, <1>5, <1>6, <2>1, <2>2, FlyStarts
<1>8. Range(Cr(c)') = {m} /\ Range(Bs(c)') = {} /\ Range(Cs(c)') = {} /\ Range(owes'[c]) = {}
  BY <1>1, <1>2, <1>3, <1>4 DEF Range
<1>9. Phases(c)'
  BY <1>1, <1>3, <1>4, <1>8 DEF Phases, Leaves, Begins
<1> QED BY <1>2, <1>7, <1>9

LEMMA FlightAsks ==
  ASSUME Shape, NEW c \in Clients, Flying(c), Phases(c), Asks(c), c \in known, Window = 1
  PROVE  Flying(c)' /\ Phases(c)' /\ c \in known'
<1>1. PICK m \in FromClient :
        /\ m.type \in RequestTypes /\ Sends(c, m)
        /\ m.msgId = IF m.type = "PINGREQ" THEN 0 ELSE requests[c] + 1
        /\ active[c] /\ Cardinality(asked[c]) < 1 /\ asked'[c] = asked[c] \cup {m}
        /\ UNCHANGED <<active[c], owes[c]>>
  BY DEF Asks
<1>2. c \in known' /\ Cr(c)' = Append(Cr(c), m) /\ UNCHANGED <<Bs(c), Br(c), Cs(c), replies[c], link[c]>>
  BY <1>1 DEF Sends, SameBroker
<1>3. link[c] # "none" /\ ~Leaves(c)
  BY <1>1 DEF Phases
<1>4. asked[c] = {}
  <2>1. ASSUME NEW r, asked[c] = {r}
        PROVE  FALSE
    <3>1. Cardinality({r}) = 1
      BY FS_Singleton
    <3>2. Cardinality(asked[c]) = 1
      BY <2>1, <3>1
    <3>3. Cardinality(asked[c]) < 1
      BY <1>1
    <3> QED BY <3>2, <3>3
  <2> QED BY <2>1 DEF Flying
<1>5. m.msgId = 0 <=> m.type = "PINGREQ"
  <2>1. requests[c] \in Nat
    BY DEF Shape, ClientShape
  <2> QED BY <1>1, <2>1
<1>6. m \in Asking
  BY <1>1, <1>5 DEF FromClient, Asking, RequestTypes
<1>7. OnWay(c, m, "clientRecv", m)'
  <2>1. OnCourse(m, "clientRecv" \in Upward, m)
    BY <1>1 DEF OnCourse, Course, Upward, RequestTypes
  <2> QED BY <1>1, <1>2, <1>3, <2>1 DEF OnWay, Begins, WillTypes, WillAsked, RequestTypes
<1>8. Flying(c)'
  <2>1. At(c, "clientRecv")' = Append(At(c, "clientRecv"), m)
    BY <1>2, AtPlaces
  <2>2. \A j \in Places \ {"clientRecv"} : At(c, j)' = At(c, j)
    BY <1>1, <1>2, AtPlaces DEF Places
  <2>3. asked'[c] = {m} /\ (m.msgId = 0 <=> m.type \in {"CONNECT", "PINGREQ"})
    BY <1>1, <1>4, <1>5 DEF RequestTypes
  <2> QED BY <1>4, <1>6, <1>7, <2>1, <2>2, <2>3, FlyStarts
<1>9. ~Leaves(c)'
  <2>1. Range(Cr(c)') = Range(Cr(c)) \cup {m}
    BY <1>2, LaneTypes, RangeAppend
  <2> QED BY <1>1, <1>2, <1>3, <2>1 DEF Leaves, RequestTypes
<1> QED BY <1>2, <1>3, <1>8, <1>9, PhasesLive

LEMMA FlightTells ==
  ASSUME Shape, NEW c \in Clients, Flying(c), Phases(c), Tells(c), c \in known
  PROVE  Flying(c)' /\ Phases(c)' /\ c \in known'
<1>1. PICK m \in FromClient :
        /\ m.type \in {"PUBLISH", "DISCONNECT"} /\ Sends(c, m)
        /\ m.type = "PUBLISH" => m.msgId = 0
        /\ m.type = "DISCONNECT" => ~active'[c]
        /\ active[c] /\ UNCHANGED <<asked[c], owes[c]>> /\ asked[c] = {}
  BY DEF Tells
<1>2. c \in known' /\ Cr(c)' = Append(Cr(c), m) /\ UNCHANGED <<Bs(c), Br(c), Cs(c), replies[c], link[c]>>
  BY <1>1 DEF Sends, SameBroker
<1>3. link[c] # "none" /\ ~Leaves(c)
  BY <1>1 DEF Phases
<1>4. m \in AnyMessage /\ m \notin Loads("clientRecv" \in Upward)
  BY <1>1 DEF FromClient, Asking, Loads, Upward
<1>5. Flying(c)'
  <2>1. At(c, "clientRecv")' = Append(At(c, "clientRecv"), m)
    BY <1>2, AtPlaces
  <2>2. \A j \in Places \ {"clientRecv"} : At(c, j)' = At(c, j)
    BY <1>1, <1>2, AtPlaces DEF Places
  <2> QED BY <1>1, <1>4, <2>1, <2>2, FlyAdds
<1>6. Leaves(c)' => m.type = "DISCONNECT"
  <2>1. Range(Cr(c)') = Range(Cr(c)) \cup {m}
    BY <1>2, LaneTypes, RangeAppend
  <2> QED BY <1>2, <1>3, <2>1 DEF Leaves
<1> QED BY <1>1, <1>2, <1>3, <1>5, <1>6, PhasesLive

LEMMA FlightIdles ==
  ASSUME NEW c \in Clients, Flying(c), Phases(c), Idles(c)
  PROVE  Flying(c)' /\ Phases(c)'
<1>1. /\ UNCHANGED <<Cr(c), Bs(c), Br(c), Cs(c), owes[c], replies[c], link[c], asked[c], active[c]>>
      /\ SameNodeAt(c)
  BY DEF Idles, SameBroker
<1>2. \A j \in Places : At(c, j)' = At(c, j)
  BY <1>1, AtPlaces DEF Places
<1>3. Phases(c)'
  BY <1>1 DEF Phases, Leaves
<1> QED BY <1>1, <1>2, <1>3, FlySame

LEMMA FlightPays ==
  ASSUME Shape, NEW c \in Clients, Flying(c), Phases(c), Pays(c), c \in known
  PROVE  Flying(c)' /\ Phases(c)' /\ c \in known'
<1>0. PICK h : h = Head(owes[c])
  OBVIOUS
<1>1. /\ owes[c] # <<>> /\ Sends(c, h) /\ owes'[c] = Tail(owes[c]) /\ h.type \in OwedTypes
      /\ UNCHANGED <<active[c], asked[c]>>
  BY <1>0 DEF Pays
<1>2. /\ c \in known' /\ Cr(c)' = Append(Cr(c), h) /\ SameNodeAt(c) /\ h \in FromClient
      /\ UNCHANGED <<Bs(c), Br(c), Cs(c), replies[c], link[c]>>
  BY <1>1 DEF Sends, SameBroker, OwedTypes
<1>3. /\ h \in Range(owes[c]) /\ Range(owes'[c]) \subseteq Range(owes[c])
      /\ Range(Cr(c)') = Range(Cr(c)) \cup {h}
  BY <1>0, <1>1, <1>2, LaneTypes, RangeTail, RangeAppend
<1>4. /\ Moves(c, "owes", "clientRecv", <<h>>, "clientSend", <<>>)
      /\ Range(<<>>) = {} /\ Count(Telling, <<>>) = 0
  <2>1. <<h>> \in Seq(AnyMessage) /\ Cr(c) \o <<h>> = Append(Cr(c), h)
    BY <1>2, LaneTypes DEF FromClient
  <2>2. At(c, "owes") # <<>> /\ At(c, "owes")' = Tail(At(c, "owes"))
    BY <1>1, AtPlaces
  <2>3. At(c, "clientRecv")' = At(c, "clientRecv") \o <<h>>
    BY <1>2, <2>1, AtPlaces
  <2>4. \A j \in Places \ {"owes", "clientRecv"} : At(c, j)' = At(c, j)
    BY <1>2, AtPlaces DEF Places
  <2>5. <<"owes", "clientRecv", "clientSend">> \in Routes
    BY DEF Routes
  <2> QED BY <2>1, <2>2, <2>3, <2>4, <2>5, MovesOne
<1>5. Head(At(c, "owes")) = h /\ Range(<<h>>) = {h}
  BY <1>0, AtPlaces DEF Range
<1>6. Count(Asking, <<h>>) = IF h \in Asking THEN 1 ELSE 0
  BY CountShort
<1>7. \A r : OnWay(c, r, "owes", h) => OnWay(c, r, "clientRecv", h)'
  <2>1. ("owes" \in Upward) = TRUE /\ ("clientRecv" \in Upward) = TRUE
    BY DEF Upward
  <2>2. \A r : OnCourse(r, "owes" \in Upward, h) => OnCourse(r, "clientRecv" \in Upward, h)
    BY <2>1
  <2> QED BY <1>1, <1>2, <2>2 DEF OnWay, OwedTypes, SameNodeAt
<1>8. \A r, j : \A x \in Asking \cup Telling : OnWay(c, r, j, x) => OnWay(c, r, j, x)'
  BY <1>2 DEF OnWay, Awaits, SameNodeAt
<1>9. Flying(c)'
  <2>1. Count(Asking, <<h>>) + Count(Telling, <<>>) = IF h \in Asking THEN 1 ELSE 0
    BY <1>4, <1>6
  <2> QED BY <1>1, <1>4, <1>5, <1>7, <1>8, <2>1, LoadsAt, FlyGoes
<1>10. Phases(c)'
  BY <1>1, <1>2, <1>3 DEF Phases, Leaves, OwedTypes
<1> QED BY <1>2, <1>9, <1>10

\* What answers a request is counted as an answer.
LEMMA AnswerTells ==
  ASSUME Shape, NEW c \in Clients, NEW m \in ToClient, NEW r \in Answered(c, m),
         r.msgId = 0 <=> r.type \in {"CONNECT", "PINGREQ"}
  PROVE  m \in Telling /\ m.type \notin WillAsked
<1>1. AnswerOf[r.type] = m.type /\ r.msgId = m.msgId /\ r.type \in DOMAIN AnswerOf
  BY DEF Answered, Shape, ClientShape
<1>2. m \in AnyMessage
  BY DEF ToClient
<1> QED BY <1>1, <1>2 DEF AnswerOf, Telling, WillAsked

LEMMA FlightDelivers ==
  ASSUME Shape, NEW c \in Clients, Flying(c), Phases(c), NEW m \in ToClient, Delivers(c, m)
  PROVE  Flying(c)' /\ Phases(c)'
<1>1. /\ Cs(c) # <<>> /\ m = Head(Cs(c)) /\ Cs(c)' = Tail(Cs(c))
      /\ UNCHANGED <<Cr(c), Bs(c), Br(c), replies[c], link[c]>> /\ SameNodeAt(c)
      /\ asked'[c] = asked[c] \ Answered(c, m) /\ owes'[c] = owes[c] \o Owed(c, m)
      /\ active'[c] = IF m.type = "CONNACK" /\ Answered(c, m) # {}
                      THEN m.flags = {"accepted"} ELSE active[c]
  BY DEF Delivers, SameBroker
<1>2. /\ m \in Range(Cs(c)) /\ Range(Cs(c)') \subseteq Range(Cs(c))
  BY <1>1, LaneTypes, RangeTail
<1>3. PICK s \in Seq(OwedMessages) : s = Owed(c, m)
  BY OwedFacts
<1>4. /\ Count(Asking, s) =
           IF m.type \in WillAsked /\ \E r \in asked[c] : r.type = "CONNECT" /\ "will" \in r.flags
           THEN 1 ELSE 0
      /\ \A x \in Range(s) : /\ x.type \in WillTypes => x.msgId = 0
                             /\ m.type \in WillAsked => x.type \in WillTypes
                             /\ x \in Asking => m.type \in WillAsked
  BY <1>3, OwedServes
<1>5. Range(owes'[c]) = Range(owes[c]) \cup Range(s)
  BY <1>1, <1>3, LaneTypes, RangeConcat
<1>6. /\ Moves(c, "clientSend", "owes", s, "clientRecv", <<>>)
      /\ Range(<<>>) = {} /\ Count(Asking, <<>>) = 0
  <2>1. OwedMessages \subseteq AnyMessage
    BY DEF OwedMessages, FromClient
  <2>2. s \in Seq(AnyMessage)
    BY <2>1, Widen
  <2>3. At(c, "clientSend") # <<>> /\ At(c, "clientSend")' = Tail(At(c, "clientSend"))
    BY <1>1, AtPlaces
  <2>4. At(c, "owes")' = At(c, "owes") \o s
    BY <1>1, <1>3, AtPlaces
  <2>5. \A j \in Places \ {"owes", "clientSend"} : At(c, j)' = At(c, j)
    BY <1>1, AtPlaces DEF Places
  <2>6. <<"clientSend", "owes", "clientRecv">> \in Routes
    BY DEF Routes
  <2> QED BY <2>2, <2>3, <2>4, <2>5, <2>6, MovesOne
<1>7. m = Head(At(c, "clientSend"))
  BY <1>1, AtPlaces
<1>8. \A r, j : \A x \in Asking \cup Telling : OnWay(c, r, j, x) => OnWay(c, r, j, x)'
  BY <1>1 DEF OnWay, Awaits, SameNodeAt
<1>9. CASE m \notin Telling
  <2>1. Answered(c, m) = {}
    <3>1. ASSUME NEW r \in Answered(c, m)
          PROVE  FALSE
      <4>1. r \in asked[c]
        BY DEF Answered
      <4>2. r.msgId = 0 <=> r.type \in {"CONNECT", "PINGREQ"}
        BY <4>1 DEF Flying
      <4> QED BY <1>9, <4>2, AnswerTells
    <3> QED BY <3>1
  <2>2. asked'[c] = asked[c] /\ active'[c] = active[c]
    BY <1>1, <2>1
  <2>3. m.type \notin WillAsked
    BY <1>9 DEF Telling, WillAsked, ToClient
  <2>4. Count(Asking, s) + Count(Asking, <<>>) = IF m \in Telling THEN 1 ELSE 0
    BY <1>4, <1>6, <1>9, <2>3
  <2>5. Flying(c)'
    BY <1>6, <1>7, <1>8, <1>9, <2>2, <2>4, LoadsAt, FlyGoes
  <2>6. Phases(c)'
    BY <1>1, <1>2, <1>4, <1>5, <2>2 DEF Phases, Leaves, WillTypes, WillAsked, Begins
  <2> QED BY <2>5, <2>6
<1>10. CASE m \in Telling
  <2>1. PICK r \in FromClient :
          asked[c] = {r} /\ Follows(c, r) /\ OnWay(c, r, "clientSend", m)
    <3>1. m \in Range(At(c, "clientSend")) /\ m \in Loads("clientSend" \in Upward) /\ "clientSend" \in Places
      BY <1>2, <1>10, AtPlaces, LoadsAt DEF Places
    <3> QED BY <3>1, FlyHead DEF Follows
  <2>2. /\ m.type \in Course(r, FALSE) /\ m.msgId = r.msgId
        /\ m.type \in WillAsked => connect[c].object # "null" /\ "will" \in r.flags
        /\ link[c] = "none" <=> m.type \in Begins \cup WillAsked
    BY <2>1, UpAt DEF OnWay, OnCourse
  <2>3. ~Leaves(c)
    BY <2>1 DEF Phases
  <2>4. CASE m.type \in WillAsked
    <3>1. r.type = "CONNECT" /\ r.msgId = 0 /\ "will" \in r.flags
      BY <2>1, <2>2, <2>4 DEF Course, WillAsked, Follows, AnswerOf
    <3>2. asked'[c] = asked[c] /\ active'[c] = active[c]
      BY <1>1, <2>1, <2>4, <3>1 DEF Answered, AnswerOf, WillAsked
    <3>3. Count(Asking, s) + Count(Asking, <<>>) = IF m \in Telling THEN 1 ELSE 0
      BY <1>4, <1>6, <1>10, <2>1, <2>4, <3>1
    <3>4. ASSUME NEW x \in Range(s)
          PROVE  OnWay(c, r, "owes", x)'
      <4>1. x.type \in WillTypes /\ x.msgId = 0
        BY <1>4, <2>4
      <4>2. OnCourse(r, "owes" \in Upward, x)
        BY <3>1, <4>1 DEF OnCourse, Course, Upward, WillTypes
      <4> QED BY <1>1, <2>2, <2>4, <3>1, <4>1, <4>2 DEF OnWay, WillTypes, Begins, SameNodeAt
    <3>5. \A y \in FromClient : Follows(c, y) => y = r
      BY <2>1 DEF Follows
    <3>6. Flying(c)'
      BY <1>6, <1>7, <1>10, <3>2, <3>3, <3>4, <3>5, LoadsAt, FlyGoes
    <3>7. Phases(c)'
      BY <1>1, <1>2, <1>4, <1>5, <2>3, <3>2 DEF Phases, Leaves, WillTypes, WillAsked, Begins
    <3> QED BY <3>6, <3>7
  <2>5. CASE m.type \notin WillAsked
    <3>1. Answered(c, m) = {r}
      BY <2>1, <2>2, <2>5 DEF Answered, Course, AnswerOf, WillAsked, Follows
    <3>2. asked'[c] = {}
      BY <1>1, <2>1, <3>1
    <3>3. Load(c)' = 0
      <4>1. Load(c) = 1
        BY <2>1 DEF Flying
      <4>2. Load(c)' \in Nat /\ Load(c)' + 1 = Load(c) + 0 + 0
        <5>1. Head(At(c, "clientSend")) \in Loads("clientSend" \in Upward)
          BY <1>7, <1>10, LoadsAt
        <5>2. Count(Loads("owes" \in Upward), s) = 0 /\ Count(Loads("clientRecv" \in Upward), <<>>) = 0
          BY <1>4, <1>6, <2>5, LoadsAt
        <5> QED BY <1>6, <5>1, <5>2, LoadMoved
      <4> QED BY <4>1, <4>2
    <3>4. link'[c] # "none" /\ ~Leaves(c)'
      <4>1. link[c] # "none"
        BY <2>2, <2>5, <1>10 DEF Begins, Telling
      <4> QED BY <1>1, <2>3, <4>1 DEF Leaves
    <3> QED BY <3>2, <3>3, <3>4, PhasesLive DEF Flying
  <2> QED BY <2>4, <2>5
<1> QED BY <1>9, <1>10

LEMMA FlightForwards ==
  ASSUME Shape, NEW c \in Clients, Flying(c), Phases(c), Forwards(c), setting.reliable
  PROVE  Flying(c)' /\ Phases(c)'
<1>0. PICK m : m = Head(Bs(c))
  OBVIOUS
<1>1. /\ Bs(c) # <<>> /\ Bs(c)' = Tail(Bs(c)) /\ UNCHANGED <<Cr(c), Br(c), Cs(c)>>
      /\ SameNodeAt(c) /\ UNCHANGED <<active[c], asked[c], owes[c]>>
  BY DEF Forwards, SameClient
<1>2. /\ m \in ToBroker /\ m \in Range(Bs(c)) /\ Range(Bs(c)') \subseteq Range(Bs(c))
  BY <1>0, <1>1, LaneTypes, RangeTail
<1>3. /\ At(c, "brokerSend") # <<>> /\ At(c, "brokerSend")' = Tail(At(c, "brokerSend"))
      /\ \A j \in Places \ {"brokerSend", "replies"} : At(c, j)' = At(c, j)
      /\ m = Head(At(c, "brokerSend")) /\ <<"brokerSend", "replies", "clientRecv">> \in Routes
  BY <1>0, <1>1, AtPlaces DEF Places, Routes
<1>4. m \in Asking => \E r \in FromClient : Follows(c, r) /\ OnWay(c, r, "brokerSend", m)
  <2>1. ASSUME m \in Asking
        PROVE  m \in Range(At(c, "brokerSend")) /\ m \in Loads("brokerSend" \in Upward) /\ "brokerSend" \in Places
    BY <1>2, <2>1, AtPlaces, LoadsAt DEF Places
  <2> QED BY <2>1, FlyHead DEF Follows
<1>5. CASE /\ replies'[c] = replies[c] /\ link'[c] = "closing"
           /\ link[c] = "closing" \/ Breaks(c, m)
  <2>1. Leaves(c)
    <3>1. CASE link[c] = "closing" \/ m.type = "DISCONNECT"
      BY <1>2, <3>1 DEF Leaves
    <3>2. CASE link[c] = "none" /\ m.type # "CONNECT"
      BY <1>2, <3>2 DEF Phases, Begins, ToBroker
    <3>3. CASE link[c] # "none" /\ m.type = "CONNECT"
      <4>1. m \in Asking
        BY <1>2, <3>3 DEF Asking, ToBroker
      <4> QED BY <1>4, <3>3, <4>1 DEF OnWay, Begins
    <3> QED BY <1>5, <3>1, <3>2, <3>3 DEF Breaks
  <2>2. asked[c] = {} /\ ~active[c] /\ m \notin Asking
    BY <1>4, <2>1 DEF Phases, Follows
  <2>3. Flying(c)'
    <3>1. replies[c] = replies[c] \o <<>> /\ <<>> \in Seq(AnyMessage)
      BY LaneTypes
    <3>2. At(c, "replies")' = At(c, "replies") \o <<>>
      BY <1>5, <3>1, AtPlaces
    <3>3. Moves(c, "brokerSend", "replies", <<>>, "clientRecv", <<>>) /\ \A T : Count(T, <<>>) = 0
      BY <1>3, <3>1, <3>2, MovesOne
    <3>4. Count(Telling, <<>>) + Count(Asking, <<>>) = IF m \in Asking THEN 1 ELSE 0
      BY <2>2, <3>3
    <3>5. \A r \in asked[c], j \in Places : \A x \in Asking \cup Telling :
            OnWay(c, r, j, x) => OnWay(c, r, j, x)'
      BY <2>2
    <3>6. PICK e : e = <<>>
      OBVIOUS
    <3>7. Moves(c, "brokerSend", "replies", e, "clientRecv", e) /\ m \notin Asking
          /\ Count(Telling, e) + Count(Asking, e) = IF m \in Asking THEN 1 ELSE 0
      BY <2>2, <3>3, <3>4, <3>6
    <3> QED BY <1>1, <1>3, <3>5, <3>7, LoadsAt, FlyGoes
  <2>4. Phases(c)'
    BY <1>1, <1>5, <2>2, PhasesLive
  <2> QED BY <2>3, <2>4
<1>6. CASE /\ replies'[c] = replies[c] \o Reply(m) /\ link'[c] = "live"
           /\ link[c] = "none" <=> m.type = "CONNECT"
  <2>1. PICK s \in Seq(FromBroker) : s = Reply(m)
    BY <1>2, ReplyFacts
  <2>2. /\ Moves(c, "brokerSend", "replies", s, "clientRecv", <<>>)
        /\ Range(<<>>) = {} /\ Count(Asking, <<>>) = 0
    <3>1. FromBroker \subseteq AnyMessage
      BY DEF FromBroker
    <3>2. s \in Seq(AnyMessage) /\ At(c, "replies")' = At(c, "replies") \o s
      BY <1>6, <2>1, <3>1, Widen, AtPlaces
    <3> QED BY <1>3, <3>2, MovesOne
  <2>3. /\ Count(Telling, s) = IF m \in Asking THEN 1 ELSE 0
        /\ \A x \in Range(s) : x \in Telling =>
             /\ Leads(m, x) /\ x.type \notin WillAsked
             /\ x.type = "PUBACK" => m.type = "PUBLISH"
             /\ x.type = "SUBACK" => m.type = "SUBSCRIBE"
    BY <1>2, <2>1, ReplyServes
  <2>4. ASSUME NEW r \in FromClient, Follows(c, r), OnWay(c, r, "brokerSend", m), m \in Asking,
               NEW x \in Range(s), x \in Telling
        PROVE  OnWay(c, r, "replies", x)'
    <3>1. Leads(m, x) /\ x.type \notin WillAsked
      BY <2>3, <2>4
    <3>2. OnCourse(r, TRUE, m) /\ Awaits(c, m)
      BY <2>4 DEF OnWay, Upward
    <3>3. OnCourse(r, FALSE, x)
      BY <2>4, <3>1, <3>2, LeadsOn DEF Follows, Loads
    <3>4. OnCourse(r, "replies" \in Upward, x)
      BY <3>3, UpAt
    <3>5. Awaits(c, x)'
      BY <1>1, <2>3, <2>4, <3>2, <3>3 DEF Awaits, OnCourse, SameNodeAt, Telling
    <3>6. x.type \notin WillTypes \cup Begins
      BY <2>4 DEF Telling, WillTypes, Begins
    <3> QED BY <1>6, <3>1, <3>4, <3>5, <3>6 DEF OnWay, Begins
  <2>5. m \notin Asking => \A r, j : \A x \in Asking \cup Telling : OnWay(c, r, j, x) => OnWay(c, r, j, x)'
    <3>1. ASSUME m \notin Asking
          PROVE  link[c] # "none"
      BY <1>2, <1>6, <3>1 DEF Asking, ToBroker
    <3>2. link'[c] # "none"
      BY <1>6
    <3> QED BY <1>1, <3>1, <3>2 DEF OnWay, Awaits, SameNodeAt
  <2>6. Flying(c)'
    <3>1. Count(Telling, s) + Count(Asking, <<>>) = IF m \in Asking THEN 1 ELSE 0
      BY <2>2, <2>3
    <3>2. m \in Asking => \A r \in FromClient : Follows(c, r) /\ OnWay(c, r, "brokerSend", m) =>
            /\ \A x \in Range(s) : x \in Telling => OnWay(c, r, "replies", x)'
            /\ \A x \in Range(<<>>) : x \in Asking => OnWay(c, r, "clientRecv", x)'
      BY <2>2, <2>4
    <3>3. PICK e : e = <<>>
      OBVIOUS
    <3>4. PICK P, Q : P = Asking /\ Q = Telling
      OBVIOUS
    <3>5. /\ P = Loads("brokerSend" \in Upward) /\ Q = Loads("replies" \in Upward)
          /\ P = Loads("clientRecv" \in Upward)
      BY <3>4, LoadsAt
    <3>6. /\ Moves(c, "brokerSend", "replies", s, "clientRecv", e)
          /\ Count(Q, s) + Count(P, e) = IF m \in P THEN 1 ELSE 0
      BY <2>2, <3>1, <3>3, <3>4
    <3>7. m \in P => \A r \in FromClient : Follows(c, r) /\ OnWay(c, r, "brokerSend", m) =>
            /\ \A x \in Range(s) : x \in Q => OnWay(c, r, "replies", x)'
            /\ \A x \in Range(e) : x \in P => OnWay(c, r, "clientRecv", x)'
      BY <3>2, <3>3, <3>4
    <3>8. m \in P \/ \A r \in asked[c], j \in Places : \A x \in Asking \cup Telling :
            OnWay(c, r, j, x) => OnWay(c, r, j, x)'
      BY <2>5, <3>4
    <3> QED BY <1>1, <1>3, <3>5, <3>6, <3>7, <3>8, FlyGoes
  <2>7. Leaves(c)' => Leaves(c)
    BY <1>1, <1>2, <1>6 DEF Leaves
  <2> QED BY <1>1, <1>6, <2>6, <2>7, PhasesLive DEF Phases
<1> QED BY <1>0, <1>5, <1>6 DEF Forwards

LEMMA FlightPublishes ==
  ASSUME Shape, NEW c \in Clients, Flying(c), Phases(c), Publishes(c)
  PROVE  Flying(c)' /\ Phases(c)'
<1>1. PICK x \in FromBroker : x.type = "PUBLISH" /\ replies'[c] = Append(replies[c], x)
  BY DEF Publishes
<1>2. /\ UNCHANGED <<Cr(c), Bs(c), Br(c), Cs(c), link[c], active[c], asked[c], owes[c]>>
      /\ link[c] = "live" /\ SameNodeAt(c)
  BY DEF Publishes, SameClient
<1>3. x \in AnyMessage /\ x \notin Loads("replies" \in Upward)
  BY <1>1, LoadsAt DEF FromBroker, Telling
<1>4. \A r, j : \A y \in Asking \cup Telling : OnWay(c, r, j, y) => OnWay(c, r, j, y)'
  BY <1>2 DEF OnWay, Awaits, SameNodeAt
<1>5. Flying(c)'
  <2>1. At(c, "replies")' = Append(At(c, "replies"), x)
    BY <1>1, AtPlaces
  <2>2. \A j \in Places \ {"replies"} : At(c, j)' = At(c, j)
    BY <1>2, AtPlaces DEF Places
  <2> QED BY <1>2, <1>3, <1>4, <2>1, <2>2, FlyAdds
<1>6. Leaves(c)' => Leaves(c)
  BY <1>2 DEF Leaves
<1> QED BY <1>2, <1>5, <1>6, PhasesLive DEF Phases

LEMMA FlightReceives ==
  ASSUME Shape, NEW c \in Clients, Flying(c), Phases(c), Receives(c)
  PROVE  Flying(c)' /\ Phases(c)'
<1>0. PICK h : h = Head(replies[c])
  OBVIOUS
<1>1. /\ replies[c] # <<>> /\ replies'[c] = Tail(replies[c]) /\ Br(c)' = Append(Br(c), h)
      /\ h \in FromBroker /\ SameNodeAt(c)
      /\ UNCHANGED <<Cr(c), Bs(c), Cs(c), link[c], active[c], asked[c], owes[c]>>
  BY <1>0 DEF Receives, SameClient
<1>2. /\ Moves(c, "replies", "brokerRecv", <<h>>, "clientRecv", <<>>)
      /\ Range(<<>>) = {} /\ Count(Asking, <<>>) = 0
  <2>1. <<h>> \in Seq(AnyMessage) /\ Br(c) \o <<h>> = Append(Br(c), h)
    BY <1>1, LaneTypes DEF FromBroker
  <2>2. At(c, "replies") # <<>> /\ At(c, "replies")' = Tail(At(c, "replies"))
    BY <1>1, AtPlaces
  <2>3. At(c, "brokerRecv")' = At(c, "brokerRecv") \o <<h>>
    BY <1>1, <2>1, AtPlaces
  <2>4. \A j \in Places \ {"replies", "brokerRecv"} : At(c, j)' = At(c, j)
    BY <1>1, AtPlaces DEF Places
  <2>5. <<"replies", "brokerRecv", "clientRecv">> \in Routes
    BY DEF Routes
  <2> QED BY <2>1, <2>2, <2>3, <2>4, <2>5, MovesOne
<1>3. h = Head(At(c, "replies")) /\ Range(<<h>>) = {h}
  BY <1>0, AtPlaces DEF Range
<1>4. \A r : OnWay(c, r, "replies", h) => OnWay(c, r, "brokerRecv", h)'
  <2>1. \A r : OnCourse(r, "replies" \in Upward, h) => OnCourse(r, "brokerRecv" \in Upward, h)
    BY UpAt
  <2> QED BY <1>1, <2>1 DEF OnWay, Awaits, SameNodeAt
<1>5. \A r, j : \A x \in Asking \cup Telling : OnWay(c, r, j, x) => OnWay(c, r, j, x)'
  BY <1>1 DEF OnWay, Awaits, SameNodeAt
<1>6. Flying(c)'
  <2>1. Count(Telling, <<h>>) + Count(Asking, <<>>) = IF h \in Telling THEN 1 ELSE 0
    BY <1>2, CountShort
  <2> QED BY <1>1, <1>2, <1>3, <1>4, <1>5, <2>1, LoadsAt, FlyGoes
<1>7. link[c] # "none"
  BY <1>1 DEF Phases
<1>8. Leaves(c)' => Leaves(c)
  BY <1>1 DEF Leaves
<1> QED BY <1>1, <1>6, <1>7, <1>8, PhasesLive DEF Phases

LEMMA FlightDrops ==
  ASSUME Shape, NEW c \in Clients, Flying(c), Phases(c), Drops(c), setting.reliable
  PROVE  Flying(c)' /\ Phases(c)'
<1>1. /\ replies'[c] \in {replies[c], <<>>} /\ link[c] = "closing" /\ link'[c] = "closing"
      /\ UNCHANGED <<Cr(c), Bs(c), Br(c), Cs(c), active[c], asked[c], owes[c]>>
  BY DEF Drops, SameClient
<1>2. asked[c] = {} /\ ~active[c]
  BY <1>1 DEF Phases, Leaves
<1>3. \A p \in Places : Weight(c, p) = 0
  <2>1. Load(c) = 0
    BY <1>2 DEF Flying
  <2>2. \A p \in Places : Weight(c, p) \in Nat /\ Weight(c, p) <= 0
    BY <2>1, LoadParts
  <2> QED BY <2>2
<1>4. \A p \in Places : At(c, p)' \in {At(c, p), <<>>}
  BY <1>1, AtPlaces DEF Places
<1>5. \A p \in Places : Weight(c, p)' = 0
  BY <1>3, <1>4, CountShort DEF Weight
<1>6. Load(c)' = 0
  BY <1>5 DEF Load, Places
<1> QED BY <1>1, <1>2, <1>6, PhasesLive DEF Flying

LEMMA FlightHandlesUp ==
  ASSUME Shape, NEW c \in Clients, Flying(c), Phases(c), SameClient(c), SameBroker(c),
         Cr(c) # <<>>, NEW m \in FromClient, m = Head(Cr(c)), m \in Range(Cr(c)),
         NEW up, NEW down, UpMoves(c, m, up, down)
  PROVE  Flying(c)' /\ Phases(c)'
<1>1. /\ Cr(c)' = Tail(Cr(c)) /\ Bs(c)' = Bs(c) \o up /\ Cs(c)' = Cs(c) \o down
      /\ up \in Seq(ToBroker) /\ down \in Seq(ToClient)
      /\ UNCHANGED <<Br(c), active[c], asked[c], owes[c], replies[c], link[c]>>
  BY DEF UpMoves, TurnUp, SameClient, SameBroker
<1>2. m = Head(At(c, "clientRecv")) /\ m \in Range(At(c, "clientRecv")) /\ "clientRecv" \in Places
  BY AtPlaces DEF Places
<1>3. m \in Asking => \E r \in FromClient : Follows(c, r) /\ OnWay(c, r, "clientRecv", m)
  <2>1. m \in Asking => m \in Loads("clientRecv" \in Upward)
    BY LoadsAt
  <2> QED BY <1>2, <2>1, FlyHead DEF Follows
<1>4. /\ Count(Asking, up) + Count(Telling, down) = IF m \in Asking THEN 1 ELSE 0
      /\ \A x \in Range(up) :
           /\ x \in Asking => Leads(m, x) /\ Awaits(c, x)'
           /\ x.type = "DISCONNECT" => m.type = "DISCONNECT"
           /\ m.type \in Begins => x \in Asking
      /\ \A x \in Range(down) :
           /\ x \in Telling => Leads(m, x)
           /\ m.type \in Begins => x.type \in WillAsked /\ (m.type = "CONNECT" => "will" \in m.flags)
           /\ x.type \in WillAsked => connect'[c].object # "null"
      /\ m \in Asking \/ UNCHANGED <<waitedPubAck[c], waitedSubAck[c], connect[c]>>
  <2>1. m.type \in WillTypes => connect[c].object # "null"
    <3>1. m.type \in WillTypes => m \in Asking
      BY DEF WillTypes, Asking, FromClient
    <3> QED BY <1>3, <3>1 DEF OnWay
  <2> QED BY <2>1 DEF UpMoves, ServesUp
<1>5. /\ Range(up) \subseteq ToBroker /\ Range(down) \subseteq ToClient
      /\ Range(Cr(c)') \subseteq Range(Cr(c))
      /\ Range(Bs(c)') = Range(Bs(c)) \cup Range(up) /\ Range(Cs(c)') = Range(Cs(c)) \cup Range(down)
  BY <1>1, LaneTypes, RangeType, RangeTail, RangeConcat
<1>6. Moves(c, "clientRecv", "brokerSend", up, "clientSend", down)
  <2>1. ToBroker \subseteq AnyMessage /\ ToClient \subseteq AnyMessage
    BY DEF ToBroker, ToClient
  <2>2. up \in Seq(AnyMessage) /\ down \in Seq(AnyMessage)
    BY <1>1, <2>1, Widen
  <2>3. <<"clientRecv", "brokerSend", "clientSend">> \in Routes
    BY DEF Routes
  <2>4. /\ At(c, "clientRecv") # <<>> /\ At(c, "clientRecv")' = Tail(At(c, "clientRecv"))
        /\ At(c, "brokerSend")' = At(c, "brokerSend") \o up
        /\ At(c, "clientSend")' = At(c, "clientSend") \o down
    BY <1>1, AtPlaces
  <2>5. \A j \in Places \ {"clientRecv", "brokerSend", "clientSend"} : At(c, j)' = At(c, j)
    BY <1>1, AtPlaces DEF Places
  <2> QED BY <2>2, <2>3, <2>4, <2>5 DEF Moves
<1>7. ASSUME NEW x \in Range(up), x \in Asking
      PROVE  x.type \in Begins <=> m.type \in Begins
  <2>1. Leads(m, x) /\ x \in ToBroker
    BY <1>4, <1>5, <1>7
  <2>2. x.type \notin {"WILLTOPIC", "WILLMSG", "WILLTOPICREQ", "WILLMSGREQ", "CONNACK"}
    BY <2>1 DEF ToBroker
  <2>3. m.type \notin {"WILLTOPICREQ", "WILLMSGREQ", "CONNACK"}
    BY DEF FromClient, UpTypes
  <2> QED BY <2>1, <2>2, <2>3, <1>7 DEF Leads, Begins, PassTypes, AnswerOf, Asking
<1>8. ASSUME NEW x \in Range(down), x \in Telling
      PROVE  x.type \in WillAsked <=> m.type \in Begins
  <2>1. Leads(m, x) /\ x \in ToClient
    BY <1>4, <1>5, <1>8
  <2>2. m.type \notin {"WILLTOPICREQ", "WILLMSGREQ", "CONNACK"}
    BY DEF FromClient, UpTypes
  <2>3. x.type \in WillAsked => m.type \in Begins
    BY <2>1, <2>2 DEF Leads, WillAsked, Begins, PassTypes, AnswerOf
  <2> QED BY <1>4, <2>3
<1>9. ASSUME m \in Asking, NEW r \in FromClient, Follows(c, r), OnWay(c, r, "clientRecv", m)
      PROVE  /\ \A x \in Range(up) : x \in Asking => OnWay(c, r, "brokerSend", x)'
             /\ \A x \in Range(down) : x \in Telling => OnWay(c, r, "clientSend", x)'
  <2>1. /\ OnCourse(r, TRUE, m) /\ m \in Loads(TRUE)
        /\ m.type \in WillTypes => "will" \in r.flags
        /\ m.type = "CONNECT" => m = r
        /\ link[c] = "none" <=> m.type \in Begins
    <3>1. m.type \notin WillAsked
      BY DEF FromClient, UpTypes, WillAsked
    <3> QED BY <1>9, <3>1, UpAt DEF OnWay, Loads
  <2>2. ASSUME NEW x \in Range(up), x \in Asking
        PROVE  OnWay(c, r, "brokerSend", x)'
    <3>1. Leads(m, x) /\ Awaits(c, x)' /\ x.type \notin WillTypes \cup WillAsked
      BY <1>4, <1>5, <2>2 DEF ToBroker, WillTypes, WillAsked
    <3>2. OnCourse(r, TRUE, x)
      BY <1>9, <2>1, <2>2, <3>1, LeadsOn DEF Follows, Loads
    <3>3. OnCourse(r, "brokerSend" \in Upward, x)
      BY <3>2, UpAt
    <3>4. link'[c] = "none" <=> x.type \in Begins
      BY <1>1, <1>7, <2>1, <2>2
    <3> QED BY <3>1, <3>3, <3>4 DEF OnWay
  <2>3. ASSUME NEW x \in Range(down), x \in Telling
        PROVE  OnWay(c, r, "clientSend", x)'
    <3>1. Leads(m, x) /\ x.type \notin Begins
      BY <1>4, <1>5, <2>3 DEF ToClient, Begins
    <3>2. OnCourse(r, FALSE, x)
      BY <1>9, <2>1, <2>3, <3>1, LeadsOn DEF Follows, Loads
    <3>3. OnCourse(r, "clientSend" \in Upward, x)
      BY <3>2, UpAt
    <3>4. x.type \in WillAsked => connect'[c].object # "null" /\ "will" \in r.flags
      BY <1>4, <1>8, <2>1, <2>3 DEF Begins, WillTypes
    <3>5. link'[c] = "none" <=> x.type \in WillAsked
      BY <1>1, <1>8, <2>1, <2>3
    <3> QED BY <3>1, <3>3, <3>4, <3>5 DEF OnWay, Begins, WillTypes
  <2> QED BY <2>2, <2>3
<1>10. m \notin Asking => \A r, j : \A x \in Asking \cup Telling : OnWay(c, r, j, x) => OnWay(c, r, j, x)'
  BY <1>1, <1>4 DEF OnWay, Awaits
<1>11. Flying(c)'
  BY <1>1, <1>2, <1>4, <1>6, <1>9, <1>10, LoadsAt, FlyGoes
<1>12. link'[c] = "none" =>
         /\ \A x \in Range(Bs(c)') : x.type \in Begins
         /\ \A x \in Range(Cs(c)') : x.type \in WillAsked
  BY <1>1, <1>4, <1>5, <1>7 DEF Phases
<1>13. Leaves(c)' => Leaves(c)
  BY <1>1, <1>4, <1>5 DEF Leaves
<1>14. Phases(c)'
  BY <1>1, <1>5, <1>12, <1>13 DEF Phases
<1> QED BY <1>11, <1>14

LEMMA FlightHandlesDown ==
  ASSUME Shape, NEW c \in Clients, Flying(c), Phases(c), SameClient(c), SameBroker(c),
         Br(c) # <<>>, NEW m \in FromBroker, m = Head(Br(c)), m \in Range(Br(c)),
         NEW down, DownMoves(c, m, down)
  PROVE  Flying(c)' /\ Phases(c)'
<1>1. /\ Br(c)' = Tail(Br(c)) /\ Cs(c)' = Cs(c) \o down /\ down \in Seq(ToClient)
      /\ UNCHANGED <<Cr(c), Bs(c), active[c], asked[c], owes[c], replies[c], link[c], connect[c]>>
  BY DEF DownMoves, TurnDown, SameClient, SameBroker
<1>2. m = Head(At(c, "brokerRecv")) /\ m \in Range(At(c, "brokerRecv")) /\ "brokerRecv" \in Places
  BY AtPlaces DEF Places
<1>3. m \in Telling => \E r \in FromClient : Follows(c, r) /\ OnWay(c, r, "brokerRecv", m)
  <2>1. m \in Telling => m \in Loads("brokerRecv" \in Upward)
    BY LoadsAt
  <2> QED BY <1>2, <2>1, FlyHead DEF Follows
<1>4. link[c] # "none"
  BY DEF Phases
<1>5. /\ Count(Telling, down) = IF m \in Telling THEN 1 ELSE 0
      /\ \A x \in Range(down) : x \in Telling => Leads(m, x) /\ x.type \notin WillAsked
      /\ m \in Telling \/ \A x \in Asking \cup Telling : Awaits(c, x) => Awaits(c, x)'
  <2>1. m \in Telling => Awaits(c, m)
    BY <1>3 DEF OnWay
  <2> QED BY <2>1 DEF DownMoves, ServesDown
<1>6. PICK e : e = <<>>
  OBVIOUS
<1>7. Moves(c, "brokerRecv", "brokerSend", e, "clientSend", down)
  <2>1. ToClient \subseteq AnyMessage
    BY DEF ToClient
  <2>2. e \in Seq(AnyMessage) /\ down \in Seq(AnyMessage)
    BY <1>1, <1>6, <2>1, Widen
  <2>3. <<"brokerRecv", "brokerSend", "clientSend">> \in Routes
    BY DEF Routes
  <2>4. At(c, "brokerSend")' = At(c, "brokerSend") \o e
    <3>1. Bs(c) \o e = Bs(c)
      BY <1>6, LaneTypes
    <3> QED BY <1>1, <3>1, AtPlaces
  <2>5. /\ At(c, "brokerRecv") # <<>> /\ At(c, "brokerRecv")' = Tail(At(c, "brokerRecv"))
        /\ At(c, "clientSend")' = At(c, "clientSend") \o down
    BY <1>1, AtPlaces
  <2>6. \A j \in Places \ {"brokerRecv", "brokerSend", "clientSend"} : At(c, j)' = At(c, j)
    BY <1>1, AtPlaces DEF Places
  <2> QED BY <2>2, <2>3, <2>4, <2>5, <2>6 DEF Moves
<1>8. Count(Asking, e) = 0 /\ Range(e) = {} /\ Count(Telling, down) \in Nat
  <2>1. Count(Asking, <<>>) = 0
    BY CountShort
  <2>2. Range(<<>>) = {}
    BY DEF Range
  <2> QED BY <1>5, <1>6, <2>1, <2>2
<1>9. ASSUME m \in Telling, NEW r \in FromClient, Follows(c, r), OnWay(c, r, "brokerRecv", m),
             NEW x \in Range(down), x \in Telling
      PROVE  OnWay(c, r, "clientSend", x)'
  <2>1. OnCourse(r, FALSE, m) /\ m \in Loads(FALSE) /\ x \in Loads(FALSE)
    BY <1>9, UpAt DEF OnWay, Loads
  <2>2. Leads(m, x) /\ x.type \notin WillAsked
    BY <1>5, <1>9
  <2>3. OnCourse(r, FALSE, x)
    BY <1>9, <2>1, <2>2, LeadsOn DEF Follows
  <2>4. OnCourse(r, "clientSend" \in Upward, x)
    BY <2>3, UpAt
  <2>5. x.type \notin WillTypes \cup Begins
    BY <1>9 DEF Telling, WillTypes, Begins
  <2> QED BY <1>1, <1>4, <2>2, <2>4, <2>5 DEF OnWay, Begins
<1>10. m \notin Telling => \A r, j : \A x \in Asking \cup Telling : OnWay(c, r, j, x) => OnWay(c, r, j, x)'
  BY <1>1, <1>5 DEF OnWay
<1>11. Flying(c)'
  <2>1. Count(Asking, e) + Count(Telling, down) = IF m \in Telling THEN 1 ELSE 0
    BY <1>5, <1>8
  <2> QED BY <1>1, <1>2, <1>7, <1>8, <1>9, <1>10, <2>1, LoadsAt, FlyGoes
<1>12. Leaves(c)' => Leaves(c)
  BY <1>1 DEF Leaves
<1> QED BY <1>1, <1>4, <1>11, <1>12, PhasesLive DEF Phases

\* A client that has not begun can only connect.
LEMMA FirstOfAll ==
  ASSUME Shape, NEW c \in Clients, Untouched(c), setting.reliable, Effect(c)
  PROVE  Connects(c) \/ Idles(c)
<1>1. /\ Cr(c) = <<>> /\ Bs(c) = <<>> /\ Br(c) = <<>> /\ Cs(c) = <<>>
      /\ owes[c] = <<>> /\ replies[c] = <<>> /\ asked[c] = {} /\ link[c] = "none" /\ ~active[c]
  BY AtPlaces DEF Untouched, Places
<1> QED BY <1>1 DEF Effect, Asks, Tells, Repeats, Pays, Delivers, Misses, Forwards, Publishes,
                    Receives, Drops

LEMMA FlightStep ==
  ASSUME Shape, NEW c \in Clients, Flight(c), Effect(c), setting' = setting,
         Tries, Tries', retries'[c] >= retries[c]
  PROVE  Flight(c)'
<1> SUFFICES ASSUME Once PROVE  Flight(c)'
  <2>1. Once' <=> Once
    BY DEF Once, Room
  <2> QED BY <2>1 DEF Flight
<1>0. /\ setting.reliable /\ setting.maxRetries = 0 /\ Room /\ Window = 1
      /\ retries[c] \in Nat /\ retries'[c] \in Nat
  BY DEF Once, Tries
<1>1. /\ retries[c] = 0 \/ c \notin known => Untouched(c)
      /\ c \in Listed => c \in known
      /\ Flying(c) /\ Phases(c)
  BY DEF Flight
<1>2. CASE Connects(c)
  <2>1. retries[c] = 0 /\ retries'[c] # 0
    <3>1. retries[c] <= 0 /\ retries' = [retries EXCEPT ![c] = @ + 1]
      BY <1>0, <1>2 DEF Connects
    <3>2. retries \in [Clients -> Nat]
      BY DEF Tries
    <3> QED BY <3>1, <3>2
  <2>2. Flying(c)' /\ Phases(c)' /\ c \in known'
    BY <1>0, <1>1, <1>2, <2>1, FlightConnects
  <2> QED BY <2>1, <2>2 DEF Flight
<1>3. CASE Idles(c)
  <2>1. Flying(c)' /\ Phases(c)'
    BY <1>1, <1>3, FlightIdles
  <2>2. Untouched(c) => Untouched(c)'
    <3>1. \A j \in Places : At(c, j)' = At(c, j)
      BY <1>3, AtPlaces DEF Places, Idles, SameBroker
    <3> QED BY <1>3, <3>1 DEF Untouched, Idles, SameBroker
  <2>3. (c \in known' <=> c \in known) /\ (retries'[c] = 0 => retries[c] = 0)
    BY <1>0, <1>3 DEF Idles
  <2> QED BY <1>1, <2>1, <2>2, <2>3 DEF Flight
<1>4. CASE ~Connects(c) /\ ~Idles(c)
  <2>1. ~Untouched(c)
    BY <1>0, <1>4, FirstOfAll
  <2>2. c \in known /\ retries'[c] # 0
    BY <1>0, <1>1, <2>1
  <2>3. Flying(c)' /\ Phases(c)' /\ c \in known'
    <3>1. CASE Asks(c)
      BY <1>0, <1>1, <2>2, <3>1, FlightAsks
    <3>2. CASE Tells(c)
      BY <1>1, <2>2, <3>2, FlightTells
    <3>3. CASE Pays(c)
      BY <1>1, <2>2, <3>3, FlightPays
    <3>4. CASE \E m \in ToClient : Delivers(c, m)
      BY <1>1, <2>2, <3>4, FlightDelivers DEF Delivers
    <3>5. CASE Forwards(c)
      BY <1>0, <1>1, <2>2, <3>5, FlightForwards DEF Forwards
    <3>6. CASE Publishes(c)
      BY <1>1, <2>2, <3>6, FlightPublishes DEF Publishes
    <3>7. CASE Receives(c)
      BY <1>1, <2>2, <3>7, FlightReceives DEF Receives
    <3>8. CASE Drops(c)
      BY <1>0, <1>1, <2>2, <3>8, FlightDrops DEF Drops
    <3>9. ~Misses(c) /\ ~Repeats(c)
      <4>1. ~(retries[c] <= 0)
        BY <1>0, <1>1, <2>1
      <4> QED BY <1>0, <4>1 DEF Misses, Repeats
    <3>10. CASE /\ SameClient(c) /\ SameBroker(c) /\ (c \in known' <=> c \in known)
                /\ Cr(c) # <<>> /\ Head(Cr(c)) \in Range(Cr(c)) /\ Head(Cr(c)) \in FromClient
                /\ \E up, down : UpMoves(c, Head(Cr(c)), up, down)
      BY <1>1, <2>2, <3>10, FlightHandlesUp
    <3>11. CASE /\ SameClient(c) /\ SameBroker(c) /\ (c \in known' <=> c \in known)
                /\ Br(c) # <<>> /\ Head(Br(c)) \in Range(Br(c)) /\ Head(Br(c)) \in FromBroker
                /\ \E down : DownMoves(c, Head(Br(c)), down)
      BY <1>1, <2>2, <3>11, FlightHandlesDown
    <3> QED BY <1>4, <3>1, <3>2, <3>3, <3>4, <3>5, <3>6, <3>7, <3>8, <3>9, <3>10, <3>11 DEF Effect
  <2> QED BY <2>2, <2>3 DEF Flight
<1> QED BY <1>2, <1>3, <1>4

LEMMA FlightKept ==
  ASSUME NEW c \in Clients, Flight(c), SameAt(c),
         Tries, Tries', retries'[c] >= retries[c]
  PROVE  Flight(c)'
<1>1. /\ UNCHANGED <<Cr(c), Bs(c), Br(c), Cs(c), owes[c], replies[c], link[c], asked[c], active[c]>>
      /\ SameNodeAt(c) /\ (c \in known' <=> c \in known) /\ setting' = setting
  BY DEF SameAt, SameBroker, SameClient
<1>2. \A j \in Places : At(c, j)' = At(c, j)
  BY <1>1, AtPlaces DEF Places
<1>3. Flying(c) => Flying(c)'
  BY <1>1, <1>2, FlySame
<1>4. (Phases(c) => Phases(c)') /\ (Untouched(c) => Untouched(c)')
  BY <1>1, <1>2 DEF Phases, Leaves, Untouched
<1>5. (Once' <=> Once) /\ (retries'[c] = 0 => retries[c] = 0)
  BY <1>1 DEF Once, Room, Tries
<1> QED BY <1>1, <1>3, <1>4, <1>5 DEF Flight

------------------------------------------------------------------------------
LEMMA StartShape ==
  ASSUME SessionInit
  PROVE  Shape
<1>1. /\ known = Listed /\ Listed \subseteq Clients
      /\ topics = [c \in Clients |-> NewTopics]
      /\ waitedPubAck = [c \in Clients |-> None] /\ waitedSubAck = [c \in Clients |-> None]
      /\ connect = [c \in Clients |-> [object |-> "null", flags |-> {}]]
      /\ sock = [c \in Clients |-> "none"]
      /\ msgs = [k \in Lanes |-> [c \in Clients |-> <<>>]]
      /\ ques = [q \in Queues |-> <<>>]
  <2>1. Init
    BY DEF SessionInit
  <2>2. Listed \subseteq Clients
    BY ListAssumption
  <2> QED BY <2>1, <2>2 DEF Init
<1>2. LaneShape
  <2>1. msgs \in [Lanes -> [Clients -> Seq(AnyMessage)]]
    BY <1>1
  <2>2. \A c \in Clients : Cr(c) = <<>> /\ Bs(c) = <<>> /\ Br(c) = <<>> /\ Cs(c) = <<>>
    BY <1>1 DEF Cr, Bs, Br, Cs, Lanes
  <2>3. /\ <<>> \in Seq(FromClient) /\ <<>> \in Seq(ToBroker)
        /\ <<>> \in Seq(FromBroker) /\ <<>> \in Seq(ToClient)
    OBVIOUS
  <2> QED BY <2>1, <2>2, <2>3 DEF LaneShape
<1>3. NodeShape
  <2>1. GoodTable(NewTopics) /\ NewTopics \in [entries : Seq(Entry), next : Nat]
    BY NewTopicsGood DEF GoodTable
  <2>2. "none" \in LinkStates
    BY DEF LinkStates
  <2> QED BY <1>1, <2>1, <2>2 DEF NodeShape
<1>4. ClientShape
  <2>1. active \in [Clients -> BOOLEAN] /\ requests \in [Clients -> Nat]
    BY DEF SessionInit
  <2>2. asked \in [Clients -> SUBSET {m \in FromClient : m.type \in DOMAIN AnswerOf}]
    BY DEF SessionInit
  <2>3. owes \in [Clients -> Seq({m \in FromClient : m.type \in {"WILLTOPIC", "WILLMSG", "REGACK", "PUBACK"}})]
    BY DEF SessionInit
  <2>4. names \in [Clients -> SUBSET ((1 .. IdRange - 1) \X LongNames)]
    BY DEF SessionInit
  <2> QED BY <2>1, <2>2, <2>3, <2>4 DEF ClientShape
<1>5. BrokerShape
  <2>1. link \in [Clients -> {"none", "live", "closing"}] /\ subs \in [Clients -> SUBSET Names]
    BY DEF SessionInit
  <2>2. stored \in [Clients -> SUBSET (Nat \X AnyName \X AnyName)] /\ published \in [Clients -> Nat]
    BY DEF SessionInit
  <2>3. replies \in [Clients -> Seq(FromBroker)]
    BY DEF SessionInit
  <2>4. setting \in SettingRecords
    BY SessionAssumption DEF SessionInit
  <2> QED BY <2>1, <2>2, <2>3, <2>4 DEF BrokerShape
<1>6. InStep
  <2>1. ques \in [Queues -> Seq(Events)]
    BY <1>1
  <2>2. ASSUME NEW k \in Lanes, NEW c \in Clients
        PROVE  Fits(ques[QueueOf(k)], Event(k, c), Len(msgs[k][c]))
    <3>1. QueueOf(k) \in Queues
      BY DEF QueueOf, Lanes, Queues
    <3>2. ques[QueueOf(k)] = <<>>
      BY <1>1, <3>1
    <3>3. 1 .. Len(<<>>) = {}
      OBVIOUS
    <3>4. [i \in {} |-> 0] \in [{} -> Nat]
      OBVIOUS
    <3>5. Fits(<<>>, Event(k, c), Len(msgs[k][c]))
      BY <3>3, <3>4 DEF Fits
    <3> QED BY <3>2, <3>5
  <2> QED BY <2>1, <2>2 DEF InStep
<1> QED BY <1>2, <1>3, <1>4, <1>5, <1>6 DEF Shape

LEMMA Start ==
  ASSUME SessionInit
  PROVE  IInv
<1>1. Shape
  BY StartShape
<1>0. Tries
  BY DEF SessionInit, Tries
<1> SUFFICES ASSUME NEW c \in Clients
             PROVE  Stored(c) /\ Owned(c) /\ OnePass(c) /\ Naming(c) /\ Learning(c) /\ Flight(c)
  BY <1>0, <1>1 DEF IInv
<1>2. /\ Cr(c) = <<>> /\ Bs(c) = <<>> /\ Br(c) = <<>> /\ Cs(c) = <<>>
      /\ connect[c].object = "null" /\ waitedSubAck[c] = None
  BY DEF SessionInit, Init, Cr, Bs, Br, Cs, Lanes
<1>3. /\ asked[c] = {} /\ owes[c] = <<>> /\ names[c] = {} /\ replies[c] = <<>> /\ stored[c] = {}
  BY DEF SessionInit
<1>4. Range(<<>>) = {} /\ Clear(<<>>) /\ Single(<<>>) /\ Len(<<>>) = 0
  BY NoMessage DEF Single
<1>5. Stored(c)
  BY <1>2, <1>3, <1>4 DEF Stored
<1>6. Owned(c)
  BY <1>2, <1>3, <1>4 DEF Owned
<1>7. OnePass(c)
  <2>1. \A p \in Places : Clear(At(c, p)) /\ Single(At(c, p))
    BY <1>2, <1>3, <1>4, AtPlaces DEF Places
  <2>2. "owes" \in Places
    BY DEF Places
  <2> QED BY <1>2, <1>4, <2>1, <2>2 DEF OnePass
<1>8. Naming(c)
  BY <1>2, <1>3, <1>4, NoneFact
  DEF Naming, NamesStand, RightNames, RenewsLast, Renewing, Announced, Numbered, AnswersStand
<1>9. Learning(c)
  <2>1. link[c] = "none" /\ ~active[c] /\ topics[c] = NewTopics
    BY DEF SessionInit, Init
  <2>2. \A n \in LongNames : ~HasName(topics[c], n)
    BY <2>1, NewTopicsEmpty
  <2> QED BY <1>2, <1>3, <1>4, <2>1, <2>2 DEF Learning, Fresh
<1>10. Flight(c)
  <2>1. link[c] = "none" /\ ~active[c] /\ (c \in Listed => c \in known)
    BY DEF SessionInit, Init
  <2>2. \A p \in Places : At(c, p) = <<>>
    BY <1>2, <1>3, AtPlaces DEF Places
  <2>3. \A p \in Places : Weight(c, p) = 0
    BY <2>2, CountShort DEF Weight
  <2>4. Flying(c)
    BY <1>3, <2>3 DEF Flying, Load, Places
  <2>5. Phases(c) /\ Untouched(c)
    BY <1>2, <1>3, <1>4, <2>1, <2>2 DEF Phases, Leaves, Untouched
  <2> QED BY <2>1, <2>4, <2>5 DEF Flight
<1> QED BY <1>5, <1>6, <1>7, <1>8, <1>9, <1>10

LEMMA Step ==
  ASSUME IInv, [Next]_vars
  PROVE  IInv'
<1>1. Shape /\ Shape'
  BY NextEffects DEF IInv
<1>0. Tries /\ Tries' /\ \A c \in Clients : retries'[c] >= retries[c]
  BY TriesStep DEF IInv
<1> SUFFICES ASSUME NEW d \in Clients
             PROVE  (Stored(d) /\ Owned(d) /\ OnePass(d) /\ Naming(d) /\ Learning(d) /\ Flight(d))'
  BY <1>0, <1>1 DEF IInv
<1>2. /\ Stored(d) /\ Owned(d) /\ OnePass(d) /\ Naming(d) /\ Learning(d) /\ Flight(d)
      /\ Tries /\ Tries' /\ retries'[d] >= retries[d]
  BY <1>0 DEF IInv
<1>3. CASE SameAt(d)
  <2>1. Learning(d)'
    BY <1>2, <1>3, LearningKept DEF SameAt, SameBroker, SameClient, Unchanging
  <2>2. Flight(d)'
    BY <1>2, <1>3, FlightKept
  <2> QED BY <1>2, <1>3, <2>1, <2>2, Kept
<1>4. ASSUME NEW c \in Clients, Frame(c), Effect(c)
      PROVE  (Stored(d) /\ Owned(d) /\ OnePass(d) /\ Naming(d) /\ Learning(d) /\ Flight(d))'
  <2>1. CASE d = c
    <3>1. setting' = setting /\ Effect(d)
      BY <1>4, <2>1 DEF Frame
    <3> QED BY <1>1, <1>2, <3>1, StoredStep, OwnedStep, OnePassStep, NamingStep,
               LearningStep, FlightStep
  <2>2. CASE d # c
    BY <1>3, <1>4, <2>2, FrameSame
  <2> QED BY <2>1, <2>2
<1>5. CASE UNCHANGED <<msgs, known, nodeVars, clientVars, brokerVars>>
  BY <1>3, <1>5, StillSame
<1> QED BY <1>1, <1>4, <1>5, NextEffects

THEOREM Invariant == Spec => []IInv
<1>1. SessionInit => IInv
  BY Start
<1>2. IInv /\ [Next]_vars => IInv'
  BY Step
<1> QED BY <1>1, <1>2, PTL DEF Spec
------------------------------------------------------------------------------
LEMMA MessageShapes ==
  ASSUME IInv, NEW c \in Clients
  PROVE  /\ \A k \in Lanes : msgs[k][c] \in Seq(Messages)
         /\ replies[c] \in Seq(Messages) /\ owes[c] \in Seq(Messages) /\ asked[c] \subseteq Messages
<1>1. Shape /\ Naming(c)
  BY DEF IInv
<1>2. \A m \in AnyMessage :
         m.type \in MessageTypes /\ m.name # PredefinedName => m \in Messages
  BY DEF AnyMessage, Messages, AnyName, FlagNames
<1>3. FromClient \subseteq Messages
  BY <1>2 DEF FromClient, MessageTypes
<1>4. FromBroker \subseteq Messages
  BY <1>2 DEF FromBroker, MessageTypes, UpTypes
<1>5. ToClient \subseteq Messages
  BY <1>2 DEF ToClient, MessageTypes, UpTypes
<1>6. Bs(c) \in Seq(Messages)
  <2>1. Bs(c) \in Seq(ToBroker) /\ DOMAIN Bs(c) = 1 .. Len(Bs(c)) /\ Len(Bs(c)) \in Nat
        /\ Range(Bs(c)) \subseteq ToBroker
    BY <1>1, LaneTypes, RangeType
  <2>2. ASSUME NEW m \in Range(Bs(c))
        PROVE  m \in Messages
    <3>1. m \in AnyMessage /\ m.type \in MessageTypes
      BY <2>1 DEF ToBroker, MessageTypes, UpTypes
    <3>2. m.name # PredefinedName
      BY <1>1, <2>1 DEF ToBroker, Naming, RightNames
    <3> QED BY <1>2, <3>1, <3>2
  <2>3. \A i \in 1 .. Len(Bs(c)) : Bs(c)[i] \in Messages
    BY <2>1, <2>2 DEF Range
  <2> QED BY <2>1, <2>3
<1>7. Cr(c) \in Seq(Messages) /\ Br(c) \in Seq(Messages) /\ Cs(c) \in Seq(Messages)
  BY <1>1, <1>3, <1>4, <1>5, LaneTypes, Widen
<1>8. replies[c] \in Seq(Messages) /\ owes[c] \in Seq(Messages)
  <2>1. OwedMessages \subseteq Messages
    BY <1>3 DEF OwedMessages
  <2> QED BY <1>1, <1>4, <2>1, LaneTypes, Widen
<1>9. asked[c] \subseteq Messages
  BY <1>1, <1>3 DEF Shape, ClientShape
<1>10. \A k \in Lanes : msgs[k][c] \in Seq(Messages)
  BY <1>6, <1>7 DEF Lanes, Cr, Bs, Br, Cs
<1> QED BY <1>8, <1>9, <1>10

LEMMA Types ==
  ASSUME IInv
  PROVE  TypeOK
<1>1. Shape
  BY DEF IInv
<1>2. ASSUME NEW c \in Clients
      PROVE  /\ topics[c].next \in BaseId .. IdRange - 1 /\ Len(topics[c].entries) <= MaxTopicCount
             /\ waitedPubAck[c] \in Messages \cup {None} /\ waitedSubAck[c] \in Messages \cup {None}
             /\ connect[c] \in [object : {"null", "held", "queued"}, flags : SUBSET {"clean", "will"}]
             /\ \A k \in Lanes : msgs[k][c] \in Seq(Messages)
             /\ replies[c] \in Seq(Messages) /\ owes[c] \in Seq(Messages)
             /\ asked[c] \subseteq Messages /\ names[c] \subseteq (1 .. IdRange - 1) \X Names
  <2>1. topics[c].next \in BaseId .. IdRange - 1 /\ Len(topics[c].entries) <= MaxTopicCount
    <3>1. GoodTable(topics[c])
      BY <1>1 DEF Shape, NodeShape
    <3>2. topics[c].next \in Nat /\ topics[c].next >= BaseId /\ topics[c].next <= IdRange - 1
      BY <3>1, TableTypes
    <3> QED BY <3>1, <3>2 DEF GoodTable
  <2>2. waitedPubAck[c] \in Messages \cup {None} /\ waitedSubAck[c] \in Messages \cup {None}
    <3>1. ToClient \subseteq Messages
      BY DEF ToClient, AnyMessage, Messages, MessageTypes, UpTypes, AnyName, FlagNames
    <3> QED BY <1>1, <3>1 DEF Shape, NodeShape
  <2>3. connect[c] \in [object : {"null", "held", "queued"}, flags : SUBSET {"clean", "will"}]
    BY <1>1 DEF Shape, NodeShape
  <2>4. names[c] \subseteq (1 .. IdRange - 1) \X Names
    BY <1>1 DEF Shape, ClientShape, Names
  <2> QED BY <2>1, <2>2, <2>3, <2>4, MessageShapes
<1>3. known \subseteq Clients /\ sock \in [Clients -> LinkStates]
  BY <1>1 DEF Shape, NodeShape
<1>4. link \in [Clients -> {"none", "live", "closing"}]
  BY <1>1 DEF Shape, BrokerShape
<1>5. \A q \in Queues : ques[q] \in Seq(Events)
  BY <1>1 DEF Shape, InStep
<1> QED BY <1>2, <1>3, <1>4, <1>5 DEF TypeOK

\* Every queue holds messages of both protocols, every table stays within its
\* bounds, and every event is of a client.
THEOREM TypeCorrect == Spec => []TypeOK
BY Invariant, Types, PTL

\* handlePuback() and handleSnPublish(): no client is told that a PUBLISH was
\* accepted that the broker has not taken, whatever is lost or repeated.
THEOREM PubAckTrue == Spec => []NoFalsePubAck
<1>1. IInv => NoFalsePubAck
  <2> SUFFICES ASSUME IInv, NEW c \in Clients, NEW i \in DOMAIN Cs(c),
                      Cs(c)[i].type = "PUBACK", Cs(c)[i].flags = {"accepted"}
               PROVE  \E s \in stored[c] : s[1] = Cs(c)[i].msgId
    BY DEF NoFalsePubAck, Cs
  <2>1. Cs(c)[i] \in Range(Cs(c)) /\ Stored(c)
    BY DEF Range, IInv
  <2> QED BY <2>1 DEF Stored, HasStored
<1> QED BY <1>1, Invariant, PTL

\* handleSnWillTopic() and handleSnWillMsg(): the CONNECT object they change is
\* not one that was queued for the broker, and deleted, before.
THEOREM ConnectObjectSafe == Spec => []ConnectObjectOwned
<1>1. IInv => ConnectObjectOwned
  <2> SUFFICES ASSUME IInv, NEW c \in Clients, Cr(c) # <<>>, Head(Cr(c)).type \in WillTypes
               PROVE  OwnedNow(c)
    BY DEF ConnectObjectOwned, Cr, WillTypes, OwnedNow
  <2>1. Cr(c) \in Seq(FromClient)
    BY LaneTypes DEF IInv
  <2>2. Len(Cr(c)) \in Nat /\ Len(Cr(c)) >= 1 /\ Head(Cr(c)) = Cr(c)[1]
    BY <2>1, RangeTail
  <2>3. OwnedAt(Cr(c), 1, OwnedNow(c))
    BY <2>2 DEF IInv, Owned
  <2> QED BY <2>3 DEF OwnedAt
<1> QED BY <1>1, Invariant, PTL

\* handleSnPublish(): the broker gets every PUBLISH under the name its client
\* meant by the topic id.
THEOREM NamesRightUp == Spec => [](Steady => RightNameUp)
<1>1. IInv => (Steady => RightNameUp)
  BY DEF IInv, Naming, RightNames, RightNameUp
<1> QED BY <1>1, Invariant, PTL

\* An id that a client was told is in its topic table, for the same name.
THEOREM IdsResolve == Spec => [](Steady => KnownIdsResolve)
<1>1. IInv => (Steady => KnownIdsResolve)
  <2> SUFFICES ASSUME IInv, Steady, NEW c \in Clients, NEW p \in names[c]
               PROVE  HasId(topics[c], p[1]) /\ GetTopicName(topics[c], p[1]) = p[2]
    BY DEF KnownIdsResolve
  <2>1. HasEntry(topics[c], p[2], p[1])
    BY DEF IInv, Naming, NamesStand, Stands
  <2>2. p[2] \in LongNames /\ GoodTable(topics[c])
    BY DEF IInv, Shape, NodeShape, ClientShape
  <2> QED BY <2>1, <2>2, SearchById
<1> QED BY <1>1, Invariant, PTL

\* handlePublish(): a client never takes the id of a PUBLISH for another name.
THEOREM NamesRightDown == Spec => [](Steady => RightNameDown)
<1>1. IInv => (Steady => RightNameDown)
  <2> SUFFICES ASSUME IInv, Steady, NEW c \in Clients, Cs(c) # <<>>, active[c],
                      NEW m, m = Head(Cs(c)), m.type = "PUBLISH", m.flags = {"normal"},
                      NEW p \in names[c], p[1] = m.id
               PROVE  p[2] = m.data
    BY DEF RightNameDown, Arrives, Cs
  <2>1. Shape /\ Owned(c) /\ Naming(c)
    BY DEF IInv
  <2>2. m \in Range(Cs(c)) /\ m \in ToClient
    BY <2>1, LaneTypes, RangeTail
  <2>3. m.data \in LongNames /\ p[2] \in LongNames /\ GoodTable(topics[c])
    BY <2>1, <2>2 DEF ToClient, Shape, NodeShape, ClientShape
  <2>4. ~Renewing(c)
    BY <2>1 DEF Owned, Renewing
  <2>5. HasEntry(topics[c], m.data, m.id)
    BY <2>1, <2>2, <2>4 DEF Naming, Announced, Current, NamesAnId, NameIn
  <2>6. HasEntry(topics[c], p[2], m.id)
    BY <2>1 DEF Naming, NamesStand, Stands
  <2> QED BY <2>3, <2>5, <2>6, OneName
<1> QED BY <1>1, Invariant, PTL

\* handlePublish(), "Send Register first": when nothing is lost and no CONNECT
\* repeated, a connected client gets a PUBLISH from the broker only under an id
\* that it was told, or that the SUBACK it waits for will tell.
THEOREM TopicsLearnt == Spec => []RegisteredFirst
<1>1. IInv => RegisteredFirst
  <2> SUFFICES ASSUME IInv, Orderly, NEW c \in Clients, Cs(c) # <<>>, active[c],
                      NEW m, m = Head(Cs(c)), m.type = "PUBLISH", m.flags = {"normal"}
               PROVE  \/ <<m.id, m.data>> \in names[c]
                      \/ \E r \in asked[c] : r.type = "SUBSCRIBE" /\ r.name = m.data
    BY DEF RegisteredFirst, Arrives, Cs
  <2>1. Learning(c) /\ ~Fresh(c) /\ On(c)
    BY DEF IInv, Fresh, On
  <2>2. InTime(names[c], asked[c], Cs(c), topics[c])
    BY <2>1 DEF Learning, Knows
  <2>3. 1 \in DOMAIN Cs(c) /\ Cs(c)[1] = m
    <3>1. Cs(c) \in Seq(ToClient)
      BY LaneTypes DEF IInv
    <3> QED BY <3>1, RangeTail
  <2>4. Learns(names[c], asked[c], Cs(c), 1, m.data, m.id)
    BY <2>2, <2>3 DEF InTime
  <2>5. 1 .. 1 - 1 = {}
    OBVIOUS
  <2> QED BY <2>4, <2>5 DEF Learns
<1> QED BY <1>1, Invariant, PTL

\* The messages that are counted are those on the course of what is asked for.
LEMMA TracesCounted ==
  ASSUME NEW r \in FromClient, r.type \in DOMAIN AnswerOf,
         r.msgId = 0 <=> r.type \in {"CONNECT", "PINGREQ"},
         NEW up \in BOOLEAN, NEW s \in Seq(AnyMessage),
         \A m \in Range(s) : m \in Loads(up) => OnCourse(r, up, m)
  PROVE  Cardinality(Traces(s, r, up)) = Count(Loads(up), s)
<1>1. r.type \in {"CONNECT", "REGISTER", "SUBSCRIBE", "UNSUBSCRIBE", "PUBLISH", "PINGREQ"}
  BY DEF AnswerOf
<1>2. ASSUME NEW i \in DOMAIN s
      PROVE  s[i] \in Loads(up) <=> s[i].type \in Course(r, up) /\ s[i].msgId = r.msgId
  <2>1. s[i] \in Range(s) /\ s[i] \in AnyMessage
    BY <1>2 DEF Range
  <2>2. s[i].type \in Course(r, up) /\ s[i].msgId = r.msgId => s[i] \in Loads(up)
    <3>1. CASE up
      BY <1>1, <2>1, <3>1 DEF Course, Loads, Asking
    <3>2. CASE ~up
      BY <1>1, <2>1, <3>2 DEF Course, Loads, Telling, AnswerOf
    <3> QED BY <3>1, <3>2
  <2> QED BY <2>1, <2>2 DEF OnCourse
<1>3. Traces(s, r, up) = {i \in DOMAIN s : s[i] \in Loads(up)}
  BY <1>2 DEF Traces
<1> QED BY <1>3 DEF Count

\* Three places in a row.
LEMMA TracesAt ==
  ASSUME Shape, NEW c \in Clients, NEW r \in FromClient, Follows(c, r), AllOnWay(c, r),
         NEW up \in BOOLEAN, NEW i \in Places, NEW j \in Places, NEW k \in Places,
         NEW x, NEW y, NEW z, x = At(c, i), y = At(c, j), z = At(c, k),
         (i \in Upward) = up, (j \in Upward) = up, (k \in Upward) = up
  PROVE  Cardinality(Traces(x \o y \o z, r, up)) = Weight(c, i) + Weight(c, j) + Weight(c, k)
<1>1. x \in Seq(AnyMessage) /\ y \in Seq(AnyMessage) /\ z \in Seq(AnyMessage)
  BY AtTypes
<1>2. x \o y \in Seq(AnyMessage) /\ (x \o y) \o z \in Seq(AnyMessage)
  BY <1>1
<1>3. PICK s \in Seq(AnyMessage) : s = x \o y
  BY <1>2
<1>4. Range(s) = Range(x) \cup Range(y)
  BY <1>1, <1>3, RangeConcat
<1>5. Range(s \o z) = Range(s) \cup Range(z) /\ s \o z \in Seq(AnyMessage)
  BY <1>1, RangeConcat
<1>6. \A m \in Range(x) \cup Range(y) \cup Range(z) : m \in Loads(up) => OnCourse(r, up, m)
  BY DEF AllOnWay, OnWay
<1>7. Cardinality(Traces(s \o z, r, up)) = Count(Loads(up), s \o z)
  BY <1>4, <1>5, <1>6, TracesCounted DEF Follows
<1>8. /\ Count(Loads(up), s \o z) = Count(Loads(up), s) + Count(Loads(up), z)
      /\ Count(Loads(up), s) = Count(Loads(up), x) + Count(Loads(up), y)
  <2>1. PICK T : T = Loads(up)
    OBVIOUS
  <2>2. Count(T, s \o z) = Count(T, s) + Count(T, z)
    BY <1>1, CountConcat
  <2>3. Count(T, x \o y) = Count(T, x) + Count(T, y)
    BY <1>1, CountConcat
  <2> QED BY <1>3, <2>1, <2>2, <2>3
<1>9. /\ Weight(c, i) = Count(Loads(up), x) /\ Weight(c, j) = Count(Loads(up), y)
      /\ Weight(c, k) = Count(Loads(up), z)
  BY DEF Weight
<1> QED BY <1>3, <1>7, <1>8, <1>9

\* InFlightOnce, while a client waits for one answer at a time, nothing is lost or
\* repeated, and the ClientList has room for every client: what a client waits for is
\* in exactly one place.
THEOREM AnsweredOnce == Spec => [](Once => InFlightOnce)
<1>1. IInv => (Once => InFlightOnce)
  <2> SUFFICES ASSUME IInv, Once, NEW c \in Clients, NEW r \in asked[c]
               PROVE  Cardinality(Traces(Cr(c) \o Bs(c) \o owes[c], r, TRUE))
                      + Cardinality(Traces(replies[c] \o Br(c) \o Cs(c), r, FALSE)) = 1
    BY DEF InFlightOnce, Cr, Bs, Br, Cs
  <2>1. Shape /\ Flying(c)
    BY DEF IInv, Flight
  <2>2. /\ asked[c] = {r} /\ (r.msgId = 0 <=> r.type \in {"CONNECT", "PINGREQ"})
        /\ Load(c) = 1 /\ AllOnWay(c, r)
    BY <2>1 DEF Flying
  <2>3. r \in FromClient /\ Follows(c, r)
    BY <2>1, <2>2 DEF Follows, Shape, ClientShape
  <2>4. Cardinality(Traces(Cr(c) \o Bs(c) \o owes[c], r, TRUE))
          = Weight(c, "clientRecv") + Weight(c, "brokerSend") + Weight(c, "owes")
    <3>1. PICK up \in BOOLEAN : up = TRUE
      OBVIOUS
    <3>2. PICK x, y, z : x = Cr(c) /\ y = Bs(c) /\ z = owes[c]
      OBVIOUS
    <3>3. PICK i \in Places, j \in Places, k \in Places :
            i = "clientRecv" /\ j = "brokerSend" /\ k = "owes"
      BY DEF Places
    <3>4. x = At(c, i) /\ y = At(c, j) /\ z = At(c, k)
      BY <3>2, <3>3, AtPlaces
    <3>5. (i \in Upward) = up /\ (j \in Upward) = up /\ (k \in Upward) = up
      BY <3>1, <3>3, UpAt
    <3>6. Cardinality(Traces(x \o y \o z, r, up)) = Weight(c, i) + Weight(c, j) + Weight(c, k)
      BY <2>1, <2>2, <2>3, <3>4, <3>5, TracesAt
    <3> QED BY <3>1, <3>2, <3>3, <3>6
  <2>5. Cardinality(Traces(replies[c] \o Br(c) \o Cs(c), r, FALSE))
          = Weight(c, "replies") + Weight(c, "brokerRecv") + Weight(c, "clientSend")
    <3>1. PICK up \in BOOLEAN : up = FALSE
      OBVIOUS
    <3>2. PICK x, y, z : x = replies[c] /\ y = Br(c) /\ z = Cs(c)
      OBVIOUS
    <3>3. PICK i \in Places, j \in Places, k \in Places :
            i = "replies" /\ j = "brokerRecv" /\ k = "clientSend"
      BY DEF Places
    <3>4. x = At(c, i) /\ y = At(c, j) /\ z = At(c, k)
      BY <3>2, <3>3, AtPlaces
    <3>5. (i \in Upward) = up /\ (j \in Upward) = up /\ (k \in Upward) = up
      BY <3>1, <3>3, UpAt
    <3>6. Cardinality(Traces(x \o y \o z, r, up)) = Weight(c, i) + Weight(c, j) + Weight(c, k)
      BY <2>1, <2>2, <2>3, <3>4, <3>5, TracesAt
    <3> QED BY <3>1, <3>2, <3>3, <3>6
  <2>6. \A p \in Places : Weight(c, p) \in Nat
    BY <2>1, LoadParts
  <2>7. /\ Weight(c, "clientRecv") \in Nat /\ Weight(c, "brokerSend") \in Nat /\ Weight(c, "owes") \in Nat
        /\ Weight(c, "replies") \in Nat /\ Weight(c, "brokerRecv") \in Nat /\ Weight(c, "clientSend") \in Nat
    BY <2>6 DEF Places
  <2>8. Weight(c, "clientRecv") + Weight(c, "brokerSend") + Weight(c, "owes")
        + Weight(c, "replies") + Weight(c, "brokerRecv") + Weight(c, "clientSend") = 1
    BY <2>2 DEF Load
  <2>9. (Weight(c, "clientRecv") + Weight(c, "brokerSend") + Weight(c, "owes"))
        + (Weight(c, "replies") + Weight(c, "brokerRecv") + Weight(c, "clientSend")) = 1
    BY <2>7, <2>8
  <2> QED BY <2>4, <2>5, <2>9
<1> QED BY <1>1, Invariant, PTL
=============================================================================
