------------------------------ MODULE Pipeline ------------------------------
(***************************************************************************)
(* How the five tasks hand messages to each other.  A message for a client *)
(* goes into a MessageQue of its ClientNode, and an Event that names the   *)
(* client, not the message, goes into the EventQue of the next task:       *)
(*                                                                         *)
(*   ClientRecvTask --+                         +--> ClientSendTask        *)
(*                    +--> GatewayControlTask --+                          *)
(*   BrokerRecvTask --+                         +--> BrokerSendTask        *)
(*                                                                         *)
(* The reader of an event takes the front message of the client's queue;   *)
(* deleting the event pops it.  This module keeps how many messages each   *)
(* queue holds and forgets what they say.  Each EventQue is the channel of *)
(* module EventChannel.                                                    *)
(***************************************************************************)
EXTENDS Integers, Sequences, FiniteSets

CONSTANTS Clients,     \* the clients of the ClientList
          NoClient,    \* the client of a broadcast event
          MaxPending   \* bound on the events posted and not taken

ASSUME ClientsAssumption == NoClient \notin Clients

VARIABLES ques,     \* the events in each EventQue
          msgs,     \* the number of messages in each MessageQue
          posting,  \* the event a task has made and not posted yet
          hand      \* the event a task has taken and not deleted yet

vars == <<ques, msgs, posting, hand>>

Tasks == {"CRT", "CST", "BRT", "BST", "GCT"}
Queues == {"gateway", "clientSend", "brokerSend"}

\* The message queues of a ClientNode, named as the types of their events.
Lanes == {"clientRecv", "brokerRecv", "clientSend", "brokerSend"}

Event(k, c) == [type |-> k, client |-> c]
Broadcast(q) == [type |-> q, client |-> NoClient]
NoEvent == [type |-> "none", client |-> NoClient]
LaneEvents == [type : Lanes, client : Clients]
Events == LaneEvents \cup {Broadcast(q) : q \in Queues}

\* The queue an event is posted to, and the task that reads it.
QueueOf(e) == IF e.type \in {"clientSend", "brokerSend"} THEN e.type ELSE "gateway"

Reader(q) ==
  CASE q = "gateway" -> "GCT" [] q = "clientSend" -> "CST" [] q = "brokerSend" -> "BST"

\* The message queues a task pushes to.
Fills(t) ==
  CASE t = "CRT" -> {"clientRecv"}
    [] t = "BRT" -> {"brokerRecv"}
    [] t = "GCT" -> {"clientSend", "brokerSend"}
    [] OTHER -> {}

HasRoom ==
  Len(ques["gateway"]) + Len(ques["clientSend"]) + Len(ques["brokerSend"]) < MaxPending

Init ==
  /\ ques = [q \in Queues |-> <<>>]
  /\ msgs = [k \in Lanes |-> [c \in Clients |-> 0]]
  /\ posting = [t \in Tasks |-> NoEvent]
  /\ hand = [t \in Tasks |-> NoEvent]
-----------------------------------------------------------------------------
\* setClientRecvMessage() and its three siblings: the message is queued
\* before its event is posted.
Push(t, k, c) ==
  /\ posting[t] = NoEvent /\ k \in Fills(t) /\ HasRoom
  /\ t = "GCT" => hand[t] # NoEvent
  /\ msgs' = [msgs EXCEPT ![k][c] = @ + 1]
  /\ posting' = [posting EXCEPT ![t] = Event(k, c)]
  /\ UNCHANGED <<ques, hand>>

\* Event::setEvent(): SEARCHGW upstream; GWINFO, ADVERTISE and the time
\* downstream.  The event carries its message.
MakeBroadcast(t, q) ==
  /\ <<t, q>> \in {<<"CRT", "gateway">>, <<"GCT", "clientSend">>}
  /\ posting[t] = NoEvent /\ HasRoom
  /\ posting' = [posting EXCEPT ![t] = Broadcast(q)]
  /\ UNCHANGED <<ques, msgs, hand>>

\* Mutation: the task posts in a branch that made no event.
PostNothing(t) ==
  /\ ques' = [ques EXCEPT ![QueueOf(posting[t])] = Append(@, posting[t])]
  /\ posting' = [posting EXCEPT ![t] = NoEvent]
  /\ UNCHANGED <<msgs, hand>>

\* EventQue::post()
Post(t) ==
  /\ posting[t] # NoEvent
  /\ ques' = [ques EXCEPT ![QueueOf(posting[t])] = Append(@, posting[t])]
  /\ posting' = [posting EXCEPT ![t] = NoEvent]
  /\ UNCHANGED <<msgs, hand>>

\* EventQue::wait() or timedwait()
Take(q) ==
  /\ hand[Reader(q)] = NoEvent /\ posting[Reader(q)] = NoEvent
  /\ ques[q] # <<>>
  /\ hand' = [hand EXCEPT ![Reader(q)] = Head(ques[q])]
  /\ ques' = [ques EXCEPT ![q] = Tail(@)]
  /\ UNCHANGED <<msgs, posting>>

\* Mutation: the destructor leaves the message of a finished event queued.
FinishKeepingMessage(t) ==
  /\ hand[t] # NoEvent /\ posting[t] = NoEvent
  /\ hand' = [hand EXCEPT ![t] = NoEvent]
  /\ UNCHANGED <<ques, msgs, posting>>

\* Mutation: the destructor pops the queue of the other direction.
FinishOtherQueue(t) ==
  /\ hand[t] # NoEvent /\ posting[t] = NoEvent
  /\ hand' = [hand EXCEPT ![t] = NoEvent]
  /\ IF hand[t] \in LaneEvents
     THEN msgs' = [msgs EXCEPT !["clientRecv"][hand[t].client] = IF @ > 0 THEN @ - 1 ELSE 0]
     ELSE UNCHANGED msgs
  /\ UNCHANGED <<ques, posting>>

\* delete ev: the destructor pops the message queue the event stands for.
Finish(t) ==
  /\ hand[t] # NoEvent /\ posting[t] = NoEvent
  /\ hand' = [hand EXCEPT ![t] = NoEvent]
  /\ IF hand[t] \in LaneEvents
     THEN msgs' = [msgs EXCEPT ![hand[t].type][hand[t].client] = IF @ > 0 THEN @ - 1 ELSE 0]
     ELSE UNCHANGED msgs
  /\ UNCHANGED <<ques, posting>>

Next ==
  \/ \E t \in Tasks, k \in Lanes, c \in Clients : Push(t, k, c)
  \/ \E t \in Tasks, q \in Queues : MakeBroadcast(t, q)
  \/ \E t \in Tasks : Post(t) \/ Finish(t)
  \/ \E q \in Queues : Take(q)

Spec == Init /\ [][Next]_vars
-----------------------------------------------------------------------------
TypeOK ==
  /\ ques \in [Queues -> Seq(Events)]
  /\ msgs \in [Lanes -> [Clients -> Nat]]
  /\ posting \in [Tasks -> Events \cup {NoEvent}]
  /\ hand \in [Tasks -> Events \cup {NoEvent}]

\* How many of an event a sequence holds.
Count(s, e) == Cardinality({i \in 1 .. Len(s) : s[i] = e})

\* The tasks at whose hands an event is.
In(f, e) == {t \in Tasks : f[t] = e}

(* Every message has one event and every event one message: a client's     *)
(* queue is as long as the events that name it are many, in the queue, in  *)
(* the hand that posts and in the hand that reads.  As both are first-in   *)
(* first-out, the reader handles the message the event was posted for.     *)
MessagesMatchEvents ==
  \A k \in Lanes, c \in Clients :
    msgs[k][c] = Count(ques[QueueOf(Event(k, c))], Event(k, c))
                 + Cardinality(In(posting, Event(k, c)))
                 + Cardinality(In(hand, Event(k, c)))

(* A task that holds an event finds the message: getMessage() never        *)
(* returns NULL, which no reader checks for.                               *)
NeverNull ==
  \A t \in Tasks : hand[t] \in LaneEvents => msgs[hand[t].type][hand[t].client] > 0
=============================================================================
