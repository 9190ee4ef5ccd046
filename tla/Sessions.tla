------------------------------ MODULE Sessions ------------------------------
(***************************************************************************)
(* The gateway between the clients it is made for and an MQTT broker.  A   *)
(* client keeps to MQTT-SN: it connects first, has at most Window requests *)
(* unanswered, repeats a request that is not answered with the same        *)
(* message id, and takes as an answer only what it asked for.  The broker  *)
(* answers a connection's messages in their order and closes a connection  *)
(* that breaks the protocol.  Sending by a client and reading by           *)
(* ClientRecvTask are one step, and so are sending by ClientSendTask and   *)
(* reading by the client: the serial line keeps the order.                 *)
(***************************************************************************)
EXTENDS Gateway, Functions

CONSTANTS Window,    \* how many requests a client leaves unanswered
          Settings   \* what the clients, the line and the broker may do

(***************************************************************************)
(* A setting holds for a whole behaviour.  `kinds' are the request types,  *)
(* `flags' those of the CONNECTs and `idTypes' the topic id types of       *)
(* SUBSCRIBE and UNSUBSCRIBE that the clients use; they repeat a CONNECT   *)
(* that is not answered if `repeat'.  With `reliable', connections and     *)
(* frames are never lost.  With `wildcard', a session at the broker has    *)
(* subscribed to every name.  The bounds are on the requests of all        *)
(* clients, a client's repetitions and reconnections, the PUBLISHes of the *)
(* broker, and the clients connected at a time.                            *)
(***************************************************************************)
SettingRecords ==
  [kinds : SUBSET {"REGISTER", "PUBLISH", "SUBSCRIBE", "UNSUBSCRIBE", "PINGREQ",
                   "DISCONNECT", "SEARCHGW"},
   flags : SUBSET SUBSET {"clean", "will"},
   idTypes : SUBSET {"normal", "short", "predefined", "reserved"},
   repeat : BOOLEAN, reliable : BOOLEAN, wildcard : BOOLEAN,
   maxRequests : Nat, maxRetries : Nat, maxPublishes : Nat, maxClients : Nat]

ASSUME SessionAssumption == Window \in Nat \ {0} /\ Settings \subseteq SettingRecords

VARIABLES active,    \* is the client connected, as far as it knows
          asked,     \* its requests that are not answered
          owes,      \* the messages it has to send in reply
          names,     \* the <<id, name>> pairs it was told
          requests,  \* the requests it has made; the last one's message id
          retries,   \* its repetitions and reconnections
          link,      \* the broker's side of the connection: none, live, closing
          subs,      \* the names the broker has subscribed for it
          stored,    \* <<message id, name, data>> of the PUBLISHes the broker took
          replies,   \* sent by the broker, not read by the gateway
          published, \* the PUBLISHes the broker has sent to it
          setting    \* never changes

clientVars == <<active, asked, owes, names, requests, retries, setting>>
brokerVars == <<link, subs, stored, replies, published, setting>>
vars == <<gatewayVars, clientVars, brokerVars>>

Total(count) == FoldFunction(+, 0, count)

SessionInit ==
  /\ Init
  /\ active = [c \in Clients |-> FALSE]
  /\ asked = [c \in Clients |-> {}]
  /\ owes = [c \in Clients |-> <<>>]
  /\ names = [c \in Clients |-> {}]
  /\ requests = [c \in Clients |-> 0]
  /\ retries = [c \in Clients |-> 0]
  /\ link = [c \in Clients |-> "none"]
  /\ subs = [c \in Clients |-> {}]
  /\ stored = [c \in Clients |-> {}]
  /\ replies = [c \in Clients |-> <<>>]
  /\ published = [c \in Clients |-> 0]
  /\ setting \in Settings
-----------------------------------------------------------------------------
(* The clients.                                                            *)

\* A topic in a SUBSCRIBE or an UNSUBSCRIBE.
Filters(type) ==
  {[Message(type) EXCEPT !.name = n, !.data = n,
      !.flags = IF n \in LongNames THEN {"normal"} ELSE {"short"}] : n \in Names}
  \cup {[Message(type) EXCEPT !.id = PredefinedId, !.data = PredefinedName, !.flags = {t}] :
          t \in {"predefined", "reserved"}}

\* What a connected client may ask for.
Requests(c) ==
  {[Message("REGISTER") EXCEPT !.name = n] : n \in LongNames}
  \cup {[Message("PUBLISH") EXCEPT !.id = p[1], !.data = p[2]] : p \in names[c]}
  \cup {m \in Filters("SUBSCRIBE") \cup Filters("UNSUBSCRIBE") : m.flags \subseteq setting.idTypes}
  \cup {Message("PINGREQ")}

Connect(c, flags) ==
  /\ asked' = [asked EXCEPT ![c] = {[Message("CONNECT") EXCEPT !.flags = flags]}]
  /\ active' = [active EXCEPT ![c] = FALSE]
  /\ owes' = [owes EXCEPT ![c] = <<>>]
  /\ names' = IF "clean" \in flags THEN [names EXCEPT ![c] = {}] ELSE names
  /\ ClientRecv(c, [Message("CONNECT") EXCEPT !.flags = flags])
  /\ UNCHANGED <<requests, brokerVars>>

FirstConnect(c) ==
  /\ ~active[c] /\ asked[c] = {} /\ retries[c] <= setting.maxRetries
  /\ Cardinality({d \in Clients : active[d] \/ asked[d] # {}}) < setting.maxClients
  /\ \E flags \in setting.flags : Connect(c, flags)
  /\ retries' = [retries EXCEPT ![c] = @ + 1]

MayRepeat(c) == setting.repeat \/ \A r \in asked[c] : r.type # "CONNECT"

\* The client has started again, or gives up waiting.
Reconnect(c) ==
  /\ active[c] \/ (asked[c] # {} /\ MayRepeat(c))
  /\ retries[c] <= setting.maxRetries
  /\ \E flags \in setting.flags : Connect(c, flags)
  /\ retries' = [retries EXCEPT ![c] = @ + 1]

Ask(c) ==
  /\ active[c] /\ owes[c] = <<>> /\ Cardinality(asked[c]) < Window
  /\ Total(requests) < setting.maxRequests
  /\ requests' = [requests EXCEPT ![c] = @ + 1]
  /\ \E r \in Requests(c) :
       LET m == IF r.type = "PINGREQ" THEN r ELSE [r EXCEPT !.msgId = requests'[c]]
       IN r.type \in setting.kinds /\ asked' = [asked EXCEPT ![c] = @ \cup {m}] /\ ClientRecv(c, m)
  /\ UNCHANGED <<active, owes, names, retries, brokerVars>>

\* A PUBLISH with QoS 0 has no answer, and the broker does not answer DISCONNECT.
Tell(c) ==
  /\ active[c] /\ owes[c] = <<>> /\ asked[c] = {} /\ Total(requests) < setting.maxRequests
  /\ requests' = [requests EXCEPT ![c] = @ + 1]
  /\ \/ /\ "PUBLISH" \in setting.kinds
        /\ \E p \in names[c] :
             ClientRecv(c, [Message("PUBLISH") EXCEPT !.id = p[1], !.data = p[2]])
        /\ UNCHANGED active
     \/ /\ "DISCONNECT" \in setting.kinds
        /\ ClientRecv(c, Message("DISCONNECT"))
        /\ active' = [active EXCEPT ![c] = FALSE]
  /\ UNCHANGED <<asked, owes, names, retries, brokerVars>>

Search(c) ==
  /\ "SEARCHGW" \in setting.kinds /\ Total(requests) < setting.maxRequests
  /\ requests' = [requests EXCEPT ![c] = @ + 1]
  /\ ClientRecv(c, Message("SEARCHGW"))
  /\ UNCHANGED <<active, asked, owes, names, retries, brokerVars>>

\* The retry timer: the same message with the same id.
Retry(c) ==
  /\ retries[c] <= setting.maxRetries /\ MayRepeat(c)
  /\ retries' = [retries EXCEPT ![c] = @ + 1]
  /\ \E m \in asked[c] : ClientRecv(c, m)
  /\ UNCHANGED <<active, asked, owes, names, requests, brokerVars>>

\* The client sends what it owes.
Pay(c) ==
  /\ owes[c] # <<>>
  /\ ClientRecv(c, Head(owes[c]))
  /\ owes' = [owes EXCEPT ![c] = Tail(@)]
  /\ UNCHANGED <<active, asked, names, requests, retries, brokerVars>>

AnswerOf ==
  [CONNECT |-> "CONNACK", REGISTER |-> "REGACK", SUBSCRIBE |-> "SUBACK",
   UNSUBSCRIBE |-> "UNSUBACK", PUBLISH |-> "PUBACK", PINGREQ |-> "PINGRESP"]

\* The requests that m answers.
Answered(c, m) == {r \in asked[c] : AnswerOf[r.type] = m.type /\ r.msgId = m.msgId}

\* Until the CONNACK a REGISTER may still be of the session it gives up.
Renewing(c) == \E r \in asked[c] : r.type = "CONNECT" /\ "clean" \in r.flags

\* What m tells the client about topic ids.
Told(c, m) ==
  IF m.type = "REGISTER" THEN IF Renewing(c) THEN {} ELSE {<<m.id, m.name>>}
  ELSE {<<m.id, r.name>> : r \in {q \in Answered(c, m) :
          q.type \in {"REGISTER", "SUBSCRIBE"} /\ q.name \in LongNames /\ m.id # NoTopic}}

Owed(c, m) ==
  LET will == \E r \in asked[c] : r.type = "CONNECT" /\ "will" \in r.flags
  IN CASE m.type = "WILLTOPICREQ" /\ will -> <<Message("WILLTOPIC")>>
       [] m.type = "WILLMSGREQ" /\ will -> <<Message("WILLMSG")>>
       [] m.type = "REGISTER" -> <<Message("REGACK")>>
       [] m.type = "PUBLISH" /\ m.msgId # 0 -> <<[Message("PUBACK") EXCEPT !.msgId = m.msgId]>>
       [] OTHER -> <<>>

Deliver(c) ==
  LET m == Head(msgs["clientSend"][c])
      told == Told(c, m)
  IN /\ ClientSend(c)
     /\ asked' = [asked EXCEPT ![c] = @ \ Answered(c, m)]
     /\ names' = [names EXCEPT ![c] = {p \in @ : \A q \in told : p[1] # q[1]} \cup told]
     /\ owes' = [owes EXCEPT ![c] = @ \o Owed(c, m)]
     /\ active' = [active EXCEPT ![c] =
          IF m.type = "CONNACK" /\ Answered(c, m) # {} THEN m.flags = {"accepted"} ELSE @]
     /\ UNCHANGED <<requests, retries, brokerVars>>
\* The frame is lost on the air.
Miss(c) ==
  /\ ~setting.reliable
  /\ ClientSend(c)
  /\ UNCHANGED <<clientVars, brokerVars>>
-----------------------------------------------------------------------------
(* The broker.                                                             *)

Reply(m) ==
  CASE m.type = "CONNECT" -> <<Ack("CONNACK", 0, 0, "accepted")>>
    [] m.type = "PUBLISH" /\ m.msgId # 0 -> <<[Message("PUBACK") EXCEPT !.msgId = m.msgId]>>
    [] m.type = "SUBSCRIBE" -> <<[Message("SUBACK") EXCEPT !.msgId = m.msgId]>>
    [] m.type = "UNSUBSCRIBE" -> <<[Message("UNSUBACK") EXCEPT !.msgId = m.msgId]>>
    [] m.type = "PINGREQ" -> <<Message("PINGRESP")>>
    [] OTHER -> <<>>

\* CONNECT comes first and only once; DISCONNECT ends the connection.
Breaks(c, m) == (link[c] = "none") # (m.type = "CONNECT") \/ m.type = "DISCONNECT"

BrokerTakes(c, m) ==
  IF link[c] = "closing" \/ Breaks(c, m)
  THEN /\ link' = [link EXCEPT ![c] = "closing"]
       /\ UNCHANGED <<subs, stored, replies>>
  ELSE /\ link' = [link EXCEPT ![c] = "live"]
       /\ subs' = [subs EXCEPT ![c] =
            IF m.type = "SUBSCRIBE" THEN @ \cup {m.name}
            ELSE IF m.type = "UNSUBSCRIBE" THEN @ \ {m.name}
            ELSE IF m.type = "CONNECT" /\ "clean" \in m.flags THEN {} ELSE @]
       /\ stored' = IF m.type = "PUBLISH"
                    THEN [stored EXCEPT ![c] = @ \cup {<<m.msgId, m.name, m.data>>}] ELSE stored
       /\ replies' = [replies EXCEPT ![c] = @ \o Reply(m)]

Forward(c) ==
  \E fate \in {"sent", "lost"} :
    /\ setting.reliable => fate = "sent"
    /\ BrokerSend(c, fate)
    /\ IF fate = "sent" THEN BrokerTakes(c, Head(msgs["brokerSend"][c]))
       ELSE /\ link' = IF sock'[c] = "none" THEN [link EXCEPT ![c] = "none"] ELSE link
            /\ replies' = IF sock'[c] = "none" THEN [replies EXCEPT ![c] = <<>>] ELSE replies
            /\ UNCHANGED <<subs, stored>>
    /\ UNCHANGED <<clientVars, published>>

BrokerPublish(c) ==
  /\ link[c] = "live" /\ Total(published) < setting.maxPublishes
  /\ published' = [published EXCEPT ![c] = @ + 1]
  /\ \E n \in IF setting.wildcard THEN Names ELSE subs[c], qos \in {0, 1} :
       replies' = [replies EXCEPT ![c] = Append(@,
         [Message("PUBLISH") EXCEPT !.name = n, !.data = n,
                                    !.msgId = IF qos = 0 THEN 0 ELSE published'[c]])]
  /\ UNCHANGED <<gatewayVars, clientVars, link, subs, stored>>

Receive(c) ==
  /\ replies[c] # <<>>
  /\ BrokerRecv(c, Head(replies[c]))
  /\ replies' = [replies EXCEPT ![c] = Tail(@)]
  /\ UNCHANGED <<clientVars, link, subs, stored, published>>

Close(c) ==
  /\ link[c] = "closing"
  /\ PeerClose(c)
  /\ UNCHANGED <<clientVars, brokerVars>>

\* What the gateway has not read goes with the connection.
Break(c) ==
  /\ link[c] = "closing" \/ ~setting.reliable
  /\ Reset(c)
  /\ link' = [link EXCEPT ![c] = "closing"] /\ replies' = [replies EXCEPT ![c] = <<>>]
  /\ UNCHANGED <<clientVars, subs, stored, published>>
-----------------------------------------------------------------------------
Outside == UNCHANGED <<clientVars, brokerVars>>

Control == (\E c \in Clients : HandleUp(c) \/ HandleDown(c)) \/ HandleSearch

Next ==
  \/ \E c \in Clients :
       \/ FirstConnect(c) \/ Reconnect(c) \/ Ask(c) \/ Tell(c) \/ Search(c) \/ Retry(c) \/ Pay(c)
       \/ Deliver(c) \/ Miss(c) \/ Forward(c) \/ BrokerPublish(c) \/ Receive(c)
       \/ Close(c) \/ Break(c)
  \/ Control /\ Outside
  \/ (SendBroadcast \/ \E n \in 1 .. 2 : TimeOut(n)) /\ Outside

Spec == SessionInit /\ [][Next]_vars

(* Each task runs again and again, and the clients and the broker answer.  *)
Fairness ==
  /\ WF_vars(Control /\ Outside)
  /\ WF_vars(SendBroadcast /\ Outside)
  /\ \A c \in Clients :
       WF_vars(Deliver(c)) /\ WF_vars(Forward(c)) /\ WF_vars(Receive(c)) /\ WF_vars(Pay(c))

FairSpec == Spec /\ Fairness
-----------------------------------------------------------------------------
MessageTypes ==
  UpTypes \cup {"SEARCHGW", "WILLTOPICREQ", "WILLMSGREQ", "CONNACK", "SUBACK", "UNSUBACK", "PINGRESP"}

Messages ==
  [type : MessageTypes, msgId : Nat, id : 0 .. IdRange - 1,
   name : Names \cup {NoName}, data : Names \cup {NoName, PredefinedName},
   flags : SUBSET {"clean", "will", "normal", "short", "predefined", "reserved",
                   "accepted", "rejected", "congestion", "waiting"}]

Events == [type : Lanes, client : Clients] \cup {Broadcast}

TypeOK ==
  /\ known \subseteq Clients
  /\ \A c \in Clients :
       /\ topics[c].next \in BaseId .. IdRange - 1 /\ Len(topics[c].entries) <= MaxTopicCount
       /\ waitedPubAck[c] \in Messages \cup {None} /\ waitedSubAck[c] \in Messages \cup {None}
       /\ connect[c] \in [object : {"null", "held", "queued"}, flags : SUBSET {"clean", "will"}]
       /\ \A k \in Lanes : msgs[k][c] \in Seq(Messages)
       /\ replies[c] \in Seq(Messages) /\ owes[c] \in Seq(Messages)
       /\ asked[c] \subseteq Messages /\ names[c] \subseteq (1 .. IdRange - 1) \X Names
  /\ sock \in [Clients -> LinkStates]
  /\ link \in [Clients -> {"none", "live", "closing"}]
  /\ \A q \in Queues : ques[q] \in Seq(Events)

(* A PUBACK that accepts a PUBLISH is only on its way to a client when the *)
(* broker has taken that PUBLISH: handlePuback() does not let the late     *)
(* answer to an earlier, repeated PUBLISH pass for the one to this.        *)
NoFalsePubAck ==
  \A c \in Clients : \A i \in DOMAIN msgs["clientSend"][c] :
    LET m == msgs["clientSend"][c][i]
    IN m.type = "PUBACK" /\ m.flags = {"accepted"} => \E s \in stored[c] : s[1] = m.msgId

(* What the broker takes from a client is published under the name the     *)
(* client meant by the topic id, whatever was renamed, repeated or lost.   *)
RightNameUp == \A c \in Clients : \A s \in stored[c] : s[2] = s[3]

Arrives(c) == msgs["clientSend"][c] # <<>> /\ active[c]

\* Nothing is lost and no CONNECT repeated.
Orderly == setting.reliable /\ ~setting.repeat

(* A client that gets a PUBLISH never takes its topic id for another name. *)
RightNameDown ==
  \A c \in Clients : Arrives(c) =>
    LET m == Head(msgs["clientSend"][c])
    IN m.type = "PUBLISH" /\ m.flags = {"normal"} =>
         \A p \in names[c] : p[1] = m.id => p[2] = m.data

(* It knows the id, because the broker's PUBLISH on a new name is preceded *)
(* by a REGISTER ("Send Register first"), or is about to be told.          *)
RegisteredFirst ==
  Orderly => \A c \in Clients : Arrives(c) =>
    LET m == Head(msgs["clientSend"][c])
    IN m.type = "PUBLISH" /\ m.flags = {"normal"} =>
         \/ <<m.id, m.data>> \in names[c]
         \/ \E r \in asked[c] : r.type = "SUBSCRIBE" /\ r.name = m.data

(* The ids a connected client was told stand for the same names in the     *)
(* table of its ClientNode, unless a CONNECT is about to renew the table.  *)
KnownIdsResolve ==
  \A c \in Clients :
    active[c] /\ (\A i \in DOMAIN msgs["clientRecv"][c] : msgs["clientRecv"][c][i].type # "CONNECT")
      => \A p \in names[c] : HasId(topics[c], p[1]) /\ GetTopicName(topics[c], p[1]) = p[2]

(* A will is only ever added to a CONNECT object that still belongs to the *)
(* control task, never to one that was queued for the broker and deleted.  *)
ConnectObjectOwned ==
  \A c \in Clients : msgs["clientRecv"][c] # <<>> =>
    (Head(msgs["clientRecv"][c]).type \in {"WILLTOPIC", "WILLMSG"} => connect[c].object # "queued")

(* A request that is not answered is in exactly one place: on its way up,  *)
(* or its answer on its way down.  Nothing is forgotten and nothing is     *)
(* answered twice.                                                         *)
Course(r, up) ==
  IF r.type = "CONNECT"
  THEN IF up THEN {"CONNECT", "WILLTOPIC", "WILLMSG"} ELSE {"WILLTOPICREQ", "WILLMSGREQ", "CONNACK"}
  ELSE IF up THEN {r.type} ELSE {AnswerOf[r.type]}

Traces(s, r, up) == {i \in DOMAIN s : s[i].type \in Course(r, up) /\ s[i].msgId = r.msgId}

InFlightOnce ==
  \A c \in Clients : \A r \in asked[c] :
    Cardinality(Traces(msgs["clientRecv"][c] \o msgs["brokerSend"][c] \o owes[c], r, TRUE))
    + Cardinality(Traces(replies[c] \o msgs["brokerRecv"][c] \o msgs["clientSend"][c], r, FALSE)) = 1

(* Every request of a client that waits for one answer at a time is        *)
(* answered.                                                               *)
EveryRequestAnswered == \A c \in Clients : asked[c] # {} ~> asked[c] = {}

(* README, "Supported functions": UNSUBSCRIBE.  The broker is told which   *)
(* topic the client unsubscribes.                                          *)
UnsubscribeKeepsName ==
  \A c \in Clients : \A i \in DOMAIN msgs["brokerSend"][c] :
    LET m == msgs["brokerSend"][c][i]
    IN m.type = "UNSUBSCRIBE" /\ m.flags = {"normal"} => m.name = m.data
=============================================================================
