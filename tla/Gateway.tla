------------------------------- MODULE Gateway -------------------------------
(***************************************************************************)
(* The gateway between MQTT-SN clients and an MQTT broker: what each of    *)
(* its five tasks does with a message.  An action is one turn of a task's  *)
(* loop, from taking the event to deleting it; module Pipeline has the     *)
(* steps inside a turn, and module EventQue those inside a queue.          *)
(*                                                                         *)
(* The clients and the broker are not here: ClientRecv and BrokerRecv take *)
(* what they send as a parameter, and a module that EXTENDS this one says  *)
(* what they may send and what they do with what they receive.             *)
(***************************************************************************)
EXTENDS TopicTable, FiniteSets, SocketOutcomes

CONSTANTS Clients,
          NoName,          \* an empty topic name
          Listed,          \* the clients of the authorised client list
          ListRead,        \* TRUE when there is such a list
          MaxClientNodes,  \* MAX_CLIENT_NODES, 500
          MaxBroadcasts    \* bound on the broadcasts waiting to be sent

ASSUME ListAssumption ==
  /\ Listed \subseteq Clients /\ ListRead \in BOOLEAN /\ (~ListRead => Listed = {})
  /\ MaxClientNodes \in Nat /\ Cardinality(Listed) <= MaxClientNodes
  /\ MaxBroadcasts \in Nat
ASSUME NoNameAssumption == NoName \notin Names \cup {PredefinedName}

VARIABLES known,         \* the clients of the ClientList
          topics,        \* ClientNode::_topics
          waitedPubAck,  \* ClientNode::_waitedPubAck
          waitedSubAck,  \* ClientNode::_waitedSubAck
          connect,       \* ClientNode::_mqttConnect
          sock,          \* ClientNode::_socket
          msgs,          \* the four MessageQues of each ClientNode
          ques           \* the three EventQues

nodeVars == <<topics, waitedPubAck, waitedSubAck, connect>>
gatewayVars == <<known, nodeVars, sock, msgs, ques>>

(***************************************************************************)
(* One shape for the messages of both protocols.  `name' is the topic name *)
(* in the message, `id' the topic id.  `data' stands for the payload of a  *)
(* PUBLISH: the name of the topic its sender wrote it for.  It is also the *)
(* name a sender means by the id in an UNSUBSCRIBE.                        *)
(***************************************************************************)
Message(type) ==
  [type |-> type, msgId |-> 0, id |-> 0, name |-> NoName, data |-> NoName, flags |-> {}]

Ack(type, msgId, id, code) ==
  [Message(type) EXCEPT !.msgId = msgId, !.id = id, !.flags = {code}]

None == Message("none")

(***************************************************************************)
(* The messages the handlers make, as far as anything depends on them.     *)
(***************************************************************************)
MQTTPublish(m, name) ==
  [Message("PUBLISH") EXCEPT !.name = name, !.msgId = m.msgId, !.data = m.data]

MQTTSubscribe(m) == [Message("SUBSCRIBE") EXCEPT !.msgId = m.msgId, !.name = m.name]

\* `data' and `flags' stay with it to tell what was meant.
MQTTUnsubscribe(m, name) ==
  [Message("UNSUBSCRIBE") EXCEPT !.msgId = m.msgId, !.name = name, !.data = m.data,
                                 !.flags = m.flags]

MQTTConnect(flags) == [Message("CONNECT") EXCEPT !.flags = flags]

\* setWillQos() clears every flag but the QoS.
WillQosFlags(flags) == flags \ {"clean", "will"}

MQTTSnRegister(id, name) == [Message("REGISTER") EXCEPT !.id = id, !.name = name]

MQTTSnPublish(id, idType, msgId, data) ==
  [Message("PUBLISH") EXCEPT !.id = id, !.flags = {idType}, !.msgId = msgId, !.data = data]

\* What MQTTSnUnsubscribe::getTopicId() may return: a name leaves it 0; absorb()
\* reads a predefined id from the object's own buffer, allocated with calloc()
\* and two bytes too short.
UnsubscribedIds(m) == IF m.flags = {"predefined"} THEN {0, m.id} ELSE {0}

Lanes == {"clientRecv", "brokerRecv", "clientSend", "brokerSend"}
Queues == {"gateway", "clientSend", "brokerSend"}
NoClient == "broadcast"
Event(k, c) == [type |-> k, client |-> c]
Broadcast == [type |-> "broadcast", client |-> NoClient]

Init ==
  /\ known = Listed
  /\ topics = [c \in Clients |-> NewTopics]
  /\ waitedPubAck = [c \in Clients |-> None]
  /\ waitedSubAck = [c \in Clients |-> None]
  /\ connect = [c \in Clients |-> [object |-> "null", flags |-> {}]]
  /\ sock = [c \in Clients |-> "none"]
  /\ msgs = [k \in Lanes |-> [c \in Clients |-> <<>>]]
  /\ ques = [q \in Queues |-> <<>>]
-----------------------------------------------------------------------------
(* ClientRecvTask: a frame m of client c arrives.                          *)

\* The types it makes a message of; REGACK is dropped later, by the control task.
UpTypes ==
  {"CONNECT", "PUBLISH", "PUBACK", "PINGREQ", "DISCONNECT", "REGISTER", "REGACK",
   "UNSUBSCRIBE", "SUBSCRIBE", "WILLTOPIC", "WILLMSG"}

\* ClientList::createNode() adds the client.
MayJoin == ~ListRead /\ Cardinality(known) < MaxClientNodes

Accepts(c, m) ==
  IF c \in known THEN m.type \in UpTypes ELSE m.type = "CONNECT" /\ MayJoin

ClientRecv(c, m) ==
  /\ known' = IF Accepts(c, m) THEN known \cup {c} ELSE known
  /\ msgs' = IF Accepts(c, m) THEN [msgs EXCEPT !["clientRecv"][c] = Append(@, m)] ELSE msgs
  /\ ques' = IF Accepts(c, m)
             THEN [ques EXCEPT !["gateway"] = Append(@, Event("clientRecv", c))]
             ELSE IF m.type = "SEARCHGW"
             THEN [ques EXCEPT !["gateway"] = Append(@, Broadcast)]
             ELSE ques
  /\ UNCHANGED <<nodeVars, sock>>

(* BrokerRecvTask: a message m for client c is read from its socket.       *)
BrokerRecv(c, m) ==
  /\ sock[c] \in {"open", "halfClosed"}
  /\ msgs' = [msgs EXCEPT !["brokerRecv"][c] = Append(@, m)]
  /\ ques' = [ques EXCEPT !["gateway"] = Append(@, Event("brokerRecv", c))]
  /\ UNCHANGED <<known, nodeVars, sock>>

(* ClientSendTask: the frame goes out and the event is deleted.            *)
ClientSend(c) ==
  /\ ques["clientSend"] # <<>> /\ Head(ques["clientSend"]) = Event("clientSend", c)
  /\ msgs' = [msgs EXCEPT !["clientSend"][c] = Tail(@)]
  /\ ques' = [ques EXCEPT !["clientSend"] = Tail(@)]
  /\ UNCHANGED <<known, nodeVars, sock>>

SendBroadcast ==
  /\ ques["clientSend"] # <<>> /\ Head(ques["clientSend"]) = Broadcast
  /\ ques' = [ques EXCEPT !["clientSend"] = Tail(@)]
  /\ UNCHANGED <<known, nodeVars, sock, msgs>>

(* BrokerSendTask: the message goes out, or is lost with the event.        *)
BrokerSend(c, fate) ==
  /\ ques["brokerSend"] # <<>> /\ Head(ques["brokerSend"]) = Event("brokerSend", c)
  /\ \E out \in Outcomes(sock[c]) : fate = out[1] /\ sock' = [sock EXCEPT ![c] = out[2]]
  /\ msgs' = [msgs EXCEPT !["brokerSend"][c] = Tail(@)]
  /\ ques' = [ques EXCEPT !["brokerSend"] = Tail(@)]
  /\ UNCHANGED <<known, nodeVars>>

\* The broker closes the connection of c.
PeerClose(c) ==
  /\ sock[c] = "open" /\ sock' = [sock EXCEPT ![c] = "halfClosed"]
  /\ UNCHANGED <<known, nodeVars, msgs, ques>>

\* A reset arrives, of a connection that is closed or of one that breaks.
Reset(c) ==
  /\ sock[c] \in {"open", "halfClosed"} /\ sock' = [sock EXCEPT ![c] = "broken"]
  /\ UNCHANGED <<known, nodeVars, msgs, ques>>
-----------------------------------------------------------------------------
(* GatewayControlTask: the handlers.  Each takes the event at the front of *)
(* the gateway queue, and the message at the front of the client's.        *)

\* A handler for a message of lane k sends `up' to the broker and `down' to the client.
Emit(c, k, up, down) ==
  /\ msgs' = [msgs EXCEPT ![k][c] = Tail(@), !["brokerSend"][c] = @ \o up,
                          !["clientSend"][c] = @ \o down]
  /\ ques' = [ques EXCEPT
       !["gateway"] = Tail(@),
       !["brokerSend"] = @ \o [i \in DOMAIN up |-> Event("brokerSend", c)],
       !["clientSend"] = @ \o [i \in DOMAIN down |-> Event("clientSend", c)]]
  /\ UNCHANGED <<known, sock>>

Up(c, up, down) == Emit(c, "clientRecv", up, down)
Down(c, down) == Emit(c, "brokerRecv", <<>>, down)

\* handleSnPublish(): QoS 0 has no message id.  The test for a short topic
\* compares a Boolean with 2 and is never true.
SnPublish(c, m) ==
  LET found == HasId(topics[c], m.id) IN
     /\ m.type = "PUBLISH"
     /\ waitedPubAck' = IF found /\ m.msgId # 0
                        THEN [waitedPubAck EXCEPT ![c] = Ack("PUBACK", m.msgId, m.id, "accepted")]
                        ELSE waitedPubAck
     /\ Up(c, IF found THEN <<MQTTPublish(m, GetTopicName(topics[c], m.id))>> ELSE <<>>,
              IF ~found /\ m.msgId # 0 THEN <<Ack("PUBACK", m.msgId, m.id, "rejected")>> ELSE <<>>)
     /\ UNCHANGED <<topics, waitedSubAck, connect>>

\* handleSnSubscribe(): a predefined or reserved topic is answered here.
SnSubscribe(c, m, a) ==
  /\ m.type = "SUBSCRIBE"
  /\ IF m.flags \cap {"predefined", "reserved"} # {}
     THEN LET code == IF m.flags = {"predefined"} /\ m.id = PredefinedId
                      THEN "accepted" ELSE "rejected"
              suback == IF m.msgId # 0 THEN <<Ack("SUBACK", m.msgId, m.id, code)>> ELSE <<>>
              time == MQTTSnPublish(PredefinedId, "predefined", 0, PredefinedName)
          IN /\ Up(c, <<>>, suback \o IF code = "accepted" THEN <<time>> ELSE <<>>)
             /\ UNCHANGED <<topics, waitedSubAck>>
     ELSE /\ topics' = [topics EXCEPT ![c] = CreateTopic(@, m.name, a)]
          /\ waitedSubAck' =
               IF m.msgId # 0
               THEN [waitedSubAck EXCEPT
                       ![c] = Ack("SUBACK", m.msgId, CreatedId(topics[c], m.name), "waiting")]
               ELSE waitedSubAck
          /\ Up(c, <<MQTTSubscribe(m)>>, <<>>)
  /\ UNCHANGED <<waitedPubAck, connect>>

\* handleSnUnsubscribe()
SnUnsubscribe(c, m) ==
  /\ m.type = "UNSUBSCRIBE"
  /\ \E id \in UnsubscribedIds(m) :
       LET found == HasId(topics[c], id)
           named == m.flags = {"short"} \/ (m.flags = {"normal"} /\ found)
           here == m.flags = {"reserved"} \/ (m.flags = {"predefined"} /\ found)
           unsubscribe == MQTTUnsubscribe(m, IF named THEN m.name ELSE NoName)
           unsuback == IF m.msgId # 0 THEN <<Ack("UNSUBACK", m.msgId, 0, "accepted")>> ELSE <<>>
       IN Up(c, IF here THEN <<>> ELSE <<unsubscribe>>, IF here THEN unsuback ELSE <<>>)
  /\ UNCHANGED nodeVars

\* m is sent on under its MQTT name; only its message id is kept.
PassUp(c, m) == Up(c, <<[Message(m.type) EXCEPT !.msgId = m.msgId]>>, <<>>) /\ UNCHANGED nodeVars
PassDown(c, m) == Down(c, <<[Message(m.type) EXCEPT !.msgId = m.msgId]>>) /\ UNCHANGED nodeVars

\* Mutation: the gateway answers too.
SnPingReqAnswering(c, m) ==
  /\ m.type = "PINGREQ"
  /\ Up(c, <<Message("PINGREQ")>>, <<Message("PINGRESP")>>)
  /\ UNCHANGED nodeVars

\* handleSnPingReq()
SnPingReq(c, m) == m.type = "PINGREQ" /\ PassUp(c, m)

\* handleSnPubAck()
SnPubAck(c, m) == m.type = "PUBACK" /\ PassUp(c, m)

\* handleSnDisconnect(): nothing is sent to the client.
SnDisconnect(c, m) == m.type = "DISCONNECT" /\ PassUp(c, m)

\* "Irregular ClientRecvMessage": REGACK is dropped.
SnIrregular(c, m) == m.type = "REGACK" /\ Up(c, <<>>, <<>>) /\ UNCHANGED nodeVars

\* Mutation: the table is renewed whatever the clean session flag says.
SnConnectRenewing(c, m) ==
  LET new == [object |-> IF "will" \in m.flags THEN "held" ELSE "queued",
              flags |-> m.flags \cap {"clean"}]
  IN /\ m.type = "CONNECT"
     /\ connect' = [connect EXCEPT ![c] = new]
     /\ topics' = [topics EXCEPT ![c] = NewTopics]
     /\ IF "will" \in m.flags
        THEN Up(c, <<>>, <<Message("WILLTOPICREQ")>>)
        ELSE Up(c, <<MQTTConnect(new.flags)>>, <<>>)
     /\ UNCHANGED <<waitedPubAck, waitedSubAck>>

\* handleSnConnect(): the pointer to the CONNECT object is kept even when the
\* object is queued, and then deleted, at once ("queued").
SnConnect(c, m) ==
  LET new == [object |-> IF "will" \in m.flags THEN "held" ELSE "queued",
              flags |-> m.flags \cap {"clean"}]
  IN /\ m.type = "CONNECT"
     /\ connect' = [connect EXCEPT ![c] = new]
     /\ topics' = IF "clean" \in m.flags THEN [topics EXCEPT ![c] = NewTopics] ELSE topics
     /\ IF "will" \in m.flags
        THEN Up(c, <<>>, <<Message("WILLTOPICREQ")>>)
        ELSE Up(c, <<MQTTConnect(new.flags)>>, <<>>)
     /\ UNCHANGED <<waitedPubAck, waitedSubAck>>

\* handleSnWillTopic()
SnWillTopic(c, m) ==
  /\ m.type = "WILLTOPIC"
  /\ IF connect[c].object # "null"
     THEN /\ connect' = [connect EXCEPT ![c].flags = WillQosFlags(@)]
          /\ Up(c, <<>>, <<Message("WILLMSGREQ")>>)
     ELSE UNCHANGED connect /\ Up(c, <<>>, <<>>)
  /\ UNCHANGED <<topics, waitedPubAck, waitedSubAck>>

\* Mutation: setConnectMessage(NULL) is left out.
SnWillMsgKeeping(c, m) ==
  /\ m.type = "WILLMSG"
  /\ IF connect[c].object # "null"
     THEN /\ Up(c, <<MQTTConnect(connect[c].flags \cup {"will"})>>, <<>>)
          /\ connect' = [connect EXCEPT ![c].object = "queued"]
     ELSE Up(c, <<>>, <<Ack("CONNACK", 0, 0, "congestion")>>) /\ UNCHANGED connect
  /\ UNCHANGED <<topics, waitedPubAck, waitedSubAck>>

\* handleSnWillMsg()
SnWillMsg(c, m) ==
  /\ m.type = "WILLMSG"
  /\ IF connect[c].object # "null"
     THEN /\ Up(c, <<MQTTConnect(connect[c].flags \cup {"will"})>>, <<>>)
          /\ connect' = [connect EXCEPT ![c] = [object |-> "null", flags |-> {}]]
     ELSE Up(c, <<>>, <<Ack("CONNACK", 0, 0, "congestion")>>) /\ UNCHANGED connect
  /\ UNCHANGED <<topics, waitedPubAck, waitedSubAck>>

\* handleSnRegister(): accepted whatever createTopic() returned.
SnRegister(c, m, a) ==
  /\ m.type = "REGISTER"
  /\ topics' = [topics EXCEPT ![c] = CreateTopic(@, m.name, a)]
  /\ Up(c, <<>>, <<Ack("REGACK", m.msgId, CreatedId(topics[c], m.name), "accepted")>>)
  /\ UNCHANGED <<waitedPubAck, waitedSubAck, connect>>

\* Mutation: the message ids are not compared.
MqPubAckAny(c, m) ==
  LET waited == waitedPubAck[c] # None
  IN /\ m.type = "PUBACK"
     /\ waitedPubAck' = IF waited THEN [waitedPubAck EXCEPT ![c] = None] ELSE waitedPubAck
     /\ Down(c, IF waited THEN <<waitedPubAck[c]>> ELSE <<>>)
     /\ UNCHANGED <<topics, waitedSubAck, connect>>

\* handlePuback(): dropped when it is not the one waited for.
MqPubAck(c, m) ==
  LET waited == waitedPubAck[c] # None /\ waitedPubAck[c].msgId = m.msgId
  IN /\ m.type = "PUBACK"
     /\ waitedPubAck' = IF waited THEN [waitedPubAck EXCEPT ![c] = None] ELSE waitedPubAck
     /\ Down(c, IF waited THEN <<waitedPubAck[c]>> ELSE <<>>)
     /\ UNCHANGED <<topics, waitedSubAck, connect>>

\* Mutation: the SUBACK is dropped when it is the one waited for.
MqSubAckInverted(c, m) ==
  LET waited == waitedSubAck[c] # None /\ waitedSubAck[c].msgId # m.msgId
  IN /\ m.type = "SUBACK"
     /\ waitedSubAck' = IF waited THEN [waitedSubAck EXCEPT ![c] = None] ELSE waitedSubAck
     /\ Down(c, IF waited THEN <<[waitedSubAck[c] EXCEPT !.flags = {"accepted"}]>> ELSE <<>>)
     /\ UNCHANGED <<topics, waitedPubAck, connect>>

\* handleSuback()
MqSubAck(c, m) ==
  LET waited == waitedSubAck[c] # None /\ waitedSubAck[c].msgId = m.msgId
  IN /\ m.type = "SUBACK"
     /\ waitedSubAck' = IF waited THEN [waitedSubAck EXCEPT ![c] = None] ELSE waitedSubAck
     /\ Down(c, IF waited THEN <<[waitedSubAck[c] EXCEPT !.flags = {"accepted"}]>> ELSE <<>>)
     /\ UNCHANGED <<topics, waitedPubAck, connect>>

\* handlePingresp()
MqPingResp(c, m) == m.type = "PINGRESP" /\ PassDown(c, m)

\* handleUnsuback()
MqUnsubAck(c, m) == m.type = "UNSUBACK" /\ PassDown(c, m)

\* handleConnack()
MqConnAck(c, m) ==
  /\ m.type = "CONNACK"
  /\ Down(c, <<Ack("CONNACK", 0, 0, IF m.flags = {"accepted"} THEN "accepted" ELSE "rejected")>>)
  /\ UNCHANGED nodeVars

\* Mutation: the PUBLISH is posted before the REGISTER.
MqPublishFirst(c, m, a) ==
  LET short == m.name \in ShortNames
      new == ~short /\ ~HasName(topics[c], m.name)
      id == IF short THEN a ELSE CreatedId(topics[c], m.name)
      register == MQTTSnRegister(id, m.name)
      publish == MQTTSnPublish(id, IF short THEN "short" ELSE "normal", m.msgId, m.data)
  IN /\ m.type = "PUBLISH"
     /\ topics' = IF new THEN [topics EXCEPT ![c] = CreateTopic(@, m.name, a)] ELSE topics
     /\ Down(c, IF id = NoTopic THEN <<>>
                ELSE IF new THEN <<publish, register>> ELSE <<publish>>)
     /\ UNCHANGED <<waitedPubAck, waitedSubAck, connect>>

\* handlePublish(): a new name is registered with the client first; when the
\* table is full the message is dropped.  A short topic is sent with an id
\* read from the address of the string.
MqPublish(c, m, a) ==
  LET short == m.name \in ShortNames
      new == ~short /\ ~HasName(topics[c], m.name)
      id == IF short THEN a ELSE CreatedId(topics[c], m.name)
      register == MQTTSnRegister(id, m.name)
      publish == MQTTSnPublish(id, IF short THEN "short" ELSE "normal", m.msgId, m.data)
  IN /\ m.type = "PUBLISH"
     /\ topics' = IF new THEN [topics EXCEPT ![c] = CreateTopic(@, m.name, a)] ELSE topics
     /\ Down(c, IF id = NoTopic THEN <<>>
                ELSE IF new THEN <<register, publish>> ELSE <<publish>>)
     /\ UNCHANGED <<waitedPubAck, waitedSubAck, connect>>

HandleUp(c) ==
  LET m == Head(msgs["clientRecv"][c])
  IN /\ ques["gateway"] # <<>> /\ Head(ques["gateway"]) = Event("clientRecv", c)
     /\ \/ SnPublish(c, m) \/ SnUnsubscribe(c, m) \/ SnPingReq(c, m)
        \/ SnPubAck(c, m) \/ SnDisconnect(c, m) \/ SnIrregular(c, m)
        \/ SnConnect(c, m) \/ SnWillTopic(c, m) \/ SnWillMsg(c, m)
        \/ \E a \in AddressIds : SnSubscribe(c, m, a) \/ SnRegister(c, m, a)

HandleDown(c) ==
  LET m == Head(msgs["brokerRecv"][c])
  IN /\ ques["gateway"] # <<>> /\ Head(ques["gateway"]) = Event("brokerRecv", c)
     /\ \/ MqPubAck(c, m) \/ MqSubAck(c, m) \/ MqPingResp(c, m)
        \/ MqUnsubAck(c, m) \/ MqConnAck(c, m)
        \/ \E a \in AddressIds : MqPublish(c, m, a)

\* SEARCHGW is answered with GWINFO, to everyone.
HandleSearch ==
  /\ ques["gateway"] # <<>> /\ Head(ques["gateway"]) = Broadcast
  /\ ques' = [ques EXCEPT !["gateway"] = Tail(@), !["clientSend"] = Append(@, Broadcast)]
  /\ UNCHANGED <<known, nodeVars, sock, msgs>>

\* The wait timed out: ADVERTISE and the time go out when their timers are up.
TimeOut(n) ==
  /\ ques["gateway"] = <<>>
  /\ Len(SelectSeq(ques["clientSend"], LAMBDA e : e = Broadcast)) + n <= MaxBroadcasts
  /\ ques' = [ques EXCEPT !["clientSend"] = @ \o [i \in 1 .. n |-> Broadcast]]
  /\ UNCHANGED <<known, nodeVars, sock, msgs>>
=============================================================================
