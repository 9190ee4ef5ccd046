---------------------------- MODULE BrokerSocket ----------------------------
(***************************************************************************)
(* The Socket of each ClientNode between the two threads that use it.      *)
(* BrokerSendTask ("S") opens it, connects, sends, and asks for it to be   *)
(* closed when a send fails; BrokerRecvTask ("R") selects, receives, and   *)
(* closes what it was asked to.  disconnect() sets _disconReq and waits on *)
(* a semaphore that isValid() raises after closing: the only handshake     *)
(* between the two.  isValid() closes for whoever calls it, and both do.   *)
(*                                                                         *)
(* The semaphore is a member of a node on the heap, and its constructor    *)
(* initialises another, temporary one (ProcessFramework.cpp:270-272): what *)
(* it holds in the beginning is a choice from InitialPermits.  A wait that *)
(* a permit from the beginning ends is a stray: disconnect() has returned  *)
(* although nobody closed the socket.  The properties say what holds until *)
(* the first stray, whatever the semaphores began with; the program goes   *)
(* on after it.                                                            *)
(*                                                                         *)
(* The kernel's side of a socket is modelled by what socket(), connect(),  *)
(* send(), select() and recv() return; a descriptor is free again after    *)
(* close(), and sem_post() leaves a full semaphore as it is.               *)
(***************************************************************************)
EXTENDS Integers, FiniteSets

CONSTANTS ClientCount,    \* the nodes in the ClientList, in its order
          Descriptors,    \* what socket() may return
          InitialPermits, \* what the uninitialised semaphores may hold
          MaxPermits      \* SEM_VALUE_MAX

ASSUME SocketAssumption ==
  /\ ClientCount \in Nat \ {0}
  /\ Descriptors \subseteq Nat \ {0}
  /\ MaxPermits \in Nat \ {0}
  /\ InitialPermits \subseteq 0 .. MaxPermits /\ InitialPermits # {}

Clients == 1 .. ClientCount
NoSock == -1
Threads == {"S", "R"}

VARIABLES sock,       \* Socket::_sock of each node
          disconReq,  \* the nodes with Socket::_disconReq set
          sem,        \* Socket::_sem
          pc,         \* where each thread stands
          hand,       \* the node it is dealing with
          ret,        \* where its isValid() goes on after closing
          fdset,      \* R's readfds
          conn,       \* the kernel's side of each descriptor
          pending,    \* the descriptors with data to be read
          owed,       \* the connections on which the broker has to answer
          failed,     \* the nodes whose last message found its connection broken
          fate,       \* what became of the last message
          initial,    \* what each semaphore held in the beginning
          strays      \* the nodes for which such a permit has ended a wait

sockVars == <<sock, disconReq, sem>>
netVars == <<conn, pending, owed>>
permits == <<initial, strays>>
history == <<failed, fate, initial, strays>>
vars == <<sockVars, pc, hand, ret, fdset, netVars, history>>

Init ==
  /\ sock = [c \in Clients |-> NoSock] /\ disconReq = {}
  /\ sem \in [Clients -> InitialPermits]
  /\ pc = [S |-> "idle", R |-> "scan"]
  /\ hand = [t \in Threads |-> 1] /\ ret = [t \in Threads |-> "idle"]
  /\ fdset = {}
  /\ conn = [d \in Descriptors |-> "closed"] /\ pending = {} /\ owed = {}
  /\ failed = {} /\ fate = "lost"
  /\ initial = sem /\ strays = {}

Goto(t, location) == pc' = [pc EXCEPT ![t] = location]

\* The kernel's side of the socket of c.
State(c) == IF sock[c] \in Descriptors THEN conn[sock[c]] ELSE "closed"
-----------------------------------------------------------------------------
(* Socket::isValid(), called by thread t: `yes' and `no' are where the     *)
(* caller goes on.                                                         *)
IsValid(t, yes, no) ==
  LET c == hand[t] IN
  /\ IF sock[c] = NoSock THEN Goto(t, no) /\ UNCHANGED ret
     ELSE IF c \notin disconReq THEN Goto(t, yes) /\ UNCHANGED ret
     ELSE Goto(t, "close") /\ ret' = [ret EXCEPT ![t] = no]
  /\ UNCHANGED <<sockVars, hand, fdset, netVars, history>>

Close(t) ==
  LET d == sock[hand[t]] IN
  /\ pc[t] = "close" /\ Goto(t, "forget")
  /\ conn' = [e \in Descriptors |-> IF e = d THEN "closed" ELSE conn[e]]
  /\ pending' = pending \ {d} /\ owed' = owed \ {d}
  /\ UNCHANGED <<sockVars, hand, ret, fdset, history>>

\* Mutation: the descriptor is not forgotten.
ForgetNot(t) ==
  /\ pc[t] = "forget" /\ Goto(t, "clear")
  /\ UNCHANGED <<sockVars, hand, ret, fdset, netVars, history>>

Forget(t) ==
  /\ pc[t] = "forget" /\ Goto(t, "clear")
  /\ sock' = [sock EXCEPT ![hand[t]] = NoSock]
  /\ UNCHANGED <<disconReq, sem, hand, ret, fdset, netVars, history>>

Clear(t) ==
  /\ pc[t] = "clear" /\ Goto(t, "raise")
  /\ disconReq' = disconReq \ {hand[t]}
  /\ UNCHANGED <<sock, sem, hand, ret, fdset, netVars, history>>

\* Mutation: the other thread is not woken.
RaiseNot(t) ==
  /\ pc[t] = "raise" /\ Goto(t, ret[t])
  /\ UNCHANGED <<sockVars, hand, ret, fdset, netVars, history>>

Raise(t) ==
  /\ pc[t] = "raise" /\ Goto(t, ret[t])
  /\ sem' = [sem EXCEPT ![hand[t]] = IF @ < MaxPermits THEN @ + 1 ELSE @]
  /\ UNCHANGED <<sock, disconReq, hand, ret, fdset, netVars, history>>

Closing(t) == Close(t) \/ Forget(t) \/ Clear(t) \/ Raise(t)
-----------------------------------------------------------------------------
(* BrokerSendTask.                                                         *)

TakeEvent(c) ==
  /\ pc["S"] = "idle" /\ Goto("S", "valid") /\ hand' = [hand EXCEPT !["S"] = c]
  /\ UNCHANGED <<sockVars, ret, fdset, netVars, history>>

SendValid == pc["S"] = "valid" /\ IsValid("S", "send", "create")

\* ::send(): it fails on a socket that is not connected or was reset, and
\* succeeds on one the broker has closed, for nothing.
Send ==
  LET c == hand["S"]
      state == State(c)
  IN /\ pc["S"] \in {"send", "sendNew"}
     /\ IF state \in {"up", "ended"}
        THEN Goto("S", "idle") /\ failed' = failed \ {c}
        ELSE Goto("S", "disconnect") /\ failed' = failed \cup {c}
     /\ owed' = IF state = "up" THEN owed \cup {sock[c]} ELSE owed
     /\ fate' = IF state = "up" THEN "sent" ELSE "lost"
     /\ UNCHANGED <<sockVars, hand, ret, fdset, conn, pending, permits>>

\* socket() returns a free descriptor, or fails.
Create ==
  LET c == hand["S"] IN
  /\ pc["S"] = "create" /\ Goto("S", "created")
  /\ failed' = failed \ {c}
  /\ \/ /\ sock' = [sock EXCEPT ![c] = NoSock]
        /\ UNCHANGED conn
     \/ \E d \in Descriptors :
          /\ conn[d] = "closed"
          /\ conn' = [conn EXCEPT ![d] = "fresh"]
          /\ sock' = [sock EXCEPT ![c] = d]
  /\ UNCHANGED <<disconReq, sem, hand, ret, fdset, pending, owed, fate, permits>>

\* The message is given up, and what there is of a socket stays.
GiveUp == Goto("S", "idle") /\ fate' = "lost"

CreateValid == pc["S"] = "created" /\ IsValid("S", "option", "giveUp")

ConnectValid == pc["S"] = "connect" /\ IsValid("S", "dial", "giveUp")

\* setsockopt() may fail.
SetOption ==
  /\ pc["S"] = "option"
  /\ (State(hand["S"]) # "closed" /\ Goto("S", "connect")) \/ Goto("S", "giveUp")
  /\ UNCHANGED <<sockVars, hand, ret, fdset, netVars, history>>

GivesUp ==
  /\ pc["S"] = "giveUp" /\ GiveUp
  /\ UNCHANGED <<sockVars, hand, ret, fdset, netVars, failed, permits>>

\* connect() takes its time, and blocks only S.
Dial ==
  LET c == hand["S"] IN
  /\ pc["S"] = "dial"
  /\ IF State(c) = "fresh"
     THEN Goto("S", "dialing") /\ conn' = [conn EXCEPT ![sock[c]] = "connecting"]
     ELSE Goto("S", "giveUp") /\ UNCHANGED conn
  /\ UNCHANGED <<sockVars, hand, ret, fdset, pending, owed, history>>

Connect ==
  LET c == hand["S"] IN
  /\ pc["S"] = "dialing"
  /\ \/ /\ State(c) = "connecting"
        /\ conn' = [conn EXCEPT ![sock[c]] = "up"] /\ Goto("S", "sendNew")
     \/ /\ conn' = IF State(c) = "connecting"
                   THEN [conn EXCEPT ![sock[c]] = "fresh"] ELSE conn
        /\ Goto("S", "giveUp")
  /\ UNCHANGED <<sockVars, hand, ret, fdset, pending, owed, history>>

\* Mutation: disconnect() does not wait for the socket to be closed.
RequestOnly ==
  LET c == hand["S"] IN
  /\ pc["S"] = "disconnect" /\ Goto("S", "idle")
  /\ disconReq' = IF sock[c] # NoSock THEN disconReq \cup {c} ELSE disconReq
  /\ UNCHANGED <<sock, sem, hand, ret, fdset, netVars, history>>

\* Socket::disconnect()
Request ==
  LET c == hand["S"] IN
  /\ pc["S"] = "disconnect"
  /\ IF sock[c] # NoSock
     THEN Goto("S", "wait") /\ disconReq' = disconReq \cup {c}
     ELSE Goto("S", "idle") /\ UNCHANGED disconReq
  /\ UNCHANGED <<sock, sem, hand, ret, fdset, netVars, history>>

\* Mutation: the semaphore is lowered without a permit.
WaitUnguarded ==
  LET c == hand["S"] IN
  /\ pc["S"] = "wait" /\ Goto("S", "idle")
  /\ sem' = [sem EXCEPT ![c] = @ - 1]
  /\ strays' = IF sem[c] <= initial[c] THEN strays \cup {c} ELSE strays
  /\ UNCHANGED <<sock, disconReq, hand, ret, fdset, netVars, failed, fate, initial>>

Wait ==
  LET c == hand["S"] IN
  /\ pc["S"] = "wait" /\ sem[c] > 0 /\ Goto("S", "idle")
  /\ sem' = [sem EXCEPT ![c] = @ - 1]
  /\ strays' = IF sem[c] <= initial[c] THEN strays \cup {c} ELSE strays
  /\ UNCHANGED <<sock, disconReq, hand, ret, fdset, netVars, failed, fate, initial>>

SendTask ==
  \/ SendValid \/ Send \/ Create \/ CreateValid \/ SetOption \/ ConnectValid
  \/ Dial \/ Connect \/ GivesUp \/ Request \/ Wait \/ Closing("S")
-----------------------------------------------------------------------------
(* BrokerRecvTask: one pass over the nodes to build the descriptor set,    *)
(* select(), and a second pass to receive.                                 *)

Rescan == Goto("R", "scan") /\ hand' = [hand EXCEPT !["R"] = 1]

ScanValid == pc["R"] = "scan" /\ IsValid("R", "getSock", "scanned")

GetSock ==
  /\ pc["R"] = "getSock" /\ Goto("R", "scanned")
  /\ fdset' = fdset \cup {sock[hand["R"]]}
  /\ UNCHANGED <<sockVars, hand, ret, netVars, history>>

Scanned ==
  /\ pc["R"] = "scanned"
  /\ IF hand["R"] < ClientCount
     THEN Goto("R", "scan") /\ hand' = [hand EXCEPT !["R"] = @ + 1]
     ELSE Goto("R", "select") /\ hand' = [hand EXCEPT !["R"] = 1]
  /\ UNCHANGED <<sockVars, ret, fdset, netVars, history>>

\* A socket that is not connected is readable: recv() has an error to tell.
Readable(d) == d \in pending \/ conn[d] \in {"fresh", "ended", "reset"}

Ready == {d \in fdset \cap Descriptors : Readable(d)}

BadDescriptor == \E d \in fdset : d \notin Descriptors \/ conn[d] = "closed"

\* select() fails on a closed descriptor, and may time out when none is ready.
Select ==
  /\ pc["R"] = "select"
  /\ IF BadDescriptor \/ Ready = {}
     THEN Rescan /\ fdset' = {}
     ELSE Goto("R", "look") /\ fdset' = Ready /\ UNCHANGED hand
  /\ UNCHANGED <<sockVars, ret, netVars, history>>

LookValid == pc["R"] = "look" /\ IsValid("R", "isSet", "looked")

\* Mutation: whether the descriptor was ready is not looked at.
IsSetAlways ==
  /\ pc["R"] = "isSet" /\ Goto("R", "recv")
  /\ UNCHANGED <<sockVars, hand, ret, fdset, netVars, history>>

IsSet ==
  /\ pc["R"] = "isSet"
  /\ Goto("R", IF sock[hand["R"]] \in fdset THEN "recv" ELSE "looked")
  /\ UNCHANGED <<sockVars, hand, ret, fdset, netVars, history>>

Blocks(c) == State(c) \in {"connecting", "up"} /\ sock[c] \notin pending

\* recv() blocks while there is nothing to tell; its 0 and -1 change nothing here.
Recv ==
  LET c == hand["R"] IN
  /\ pc["R"] = "recv" /\ ~Blocks(c) /\ Goto("R", "looked")
  /\ pending' = pending \ {sock[c]}
  /\ UNCHANGED <<sockVars, hand, ret, fdset, conn, owed, history>>

Looked ==
  /\ pc["R"] = "looked"
  /\ IF hand["R"] < ClientCount
     THEN Goto("R", "look") /\ hand' = [hand EXCEPT !["R"] = @ + 1] /\ UNCHANGED fdset
     ELSE Rescan /\ fdset' = {}
  /\ UNCHANGED <<sockVars, ret, netVars, history>>

RecvTask ==
  \/ ScanValid \/ GetSock \/ Scanned \/ Select \/ LookValid \/ IsSet \/ Recv
  \/ Looked \/ Closing("R")
-----------------------------------------------------------------------------
(* The broker.                                                             *)

PeerSends(d) ==
  /\ conn[d] = "up"
  /\ pending' = pending \cup {d} /\ owed' = owed \ {d}
  /\ UNCHANGED <<sockVars, pc, hand, ret, fdset, conn, history>>

PeerCloses(d) ==
  /\ conn[d] = "up" /\ conn' = [conn EXCEPT ![d] = "ended"]
  /\ owed' = owed \ {d}
  /\ UNCHANGED <<sockVars, pc, hand, ret, fdset, pending, history>>

PeerResets(d) ==
  /\ conn[d] \in {"up", "ended"} /\ conn' = [conn EXCEPT ![d] = "reset"]
  /\ pending' = pending \ {d} /\ owed' = owed \ {d}
  /\ UNCHANGED <<sockVars, pc, hand, ret, fdset, history>>

Answers(d) == d \in owed /\ (PeerSends(d) \/ PeerCloses(d) \/ PeerResets(d))
-----------------------------------------------------------------------------
Next ==
  \/ \E c \in Clients : TakeEvent(c)
  \/ SendTask \/ RecvTask
  \/ \E d \in Descriptors : PeerSends(d) \/ PeerCloses(d) \/ PeerResets(d)

Spec == Init /\ [][Next]_vars

(* Both threads are scheduled, and the broker answers what is sent to it,  *)
(* or its connection is closed or reset.                                   *)
Fairness ==
  /\ WF_vars(SendTask) /\ WF_vars(RecvTask)
  /\ \A d \in Descriptors : WF_vars(Answers(d))

FairSpec == Spec /\ Fairness
-----------------------------------------------------------------------------
SendPlaces ==
  {"idle", "valid", "send", "create", "created", "option", "connect", "dial",
   "dialing", "sendNew", "giveUp", "disconnect", "wait"}

RecvPlaces == {"scan", "getSock", "scanned", "select", "look", "isSet", "recv", "looked"}

ClosingPlaces == {"close", "forget", "clear", "raise"}

(* The bounds of the run: nothing is claimed of what follows a stray, and  *)
(* only the first node's semaphore may hold a permit in the beginning.     *)
RunBound == strays = {} /\ \A c \in Clients \ {1} : initial[c] = 0

PlacesOK ==
  /\ pc \in [Threads -> SendPlaces \cup RecvPlaces \cup ClosingPlaces]
  /\ pc["S"] \notin RecvPlaces /\ pc["R"] \notin SendPlaces
  /\ ret \in [Threads -> {"idle", "create", "giveUp", "scanned", "looked"}]

DataOK ==
  /\ sock \in [Clients -> Descriptors \cup {NoSock}]
  /\ disconReq \subseteq Clients
  /\ sem \in [Clients -> 0 .. MaxPermits] /\ initial \in [Clients -> InitialPermits]
  /\ strays \subseteq Clients
  /\ hand \in [Threads -> Clients]
  /\ fdset \subseteq Descriptors \cup {NoSock}
  /\ conn \in [Descriptors -> {"closed", "fresh", "connecting", "up", "ended", "reset"}]
  /\ pending \subseteq Descriptors /\ owed \subseteq Descriptors
  /\ failed \subseteq Clients /\ fate \in {"sent", "lost"}

TypeOK == PlacesOK /\ DataOK

(* No descriptor is lost, shared or used after it was closed: what is open *)
(* is the socket of exactly one node, and a node's socket is open, but for *)
(* the moment between close() and forgetting it.                           *)
Owned ==
  /\ \A c1, c2 \in Clients : sock[c1] = sock[c2] /\ c1 # c2 => sock[c1] = NoSock
  /\ \A d \in Descriptors : conn[d] # "closed" => \E c \in Clients : sock[c] = d
  /\ \A c \in Clients :
       sock[c] # NoSock /\ conn[sock[c]] = "closed" => pc["R"] = "forget" /\ hand["R"] = c

(* Until a stray permit ends a wait, every open descriptor has one owner.  *)
DescriptorsOwned == strays = {} => Owned

(* When disconnect() returns, the socket is closed and forgotten, and the  *)
(* next message of the client opens a new one, unless the permit that it   *)
(* took, or one before, was in a semaphore from the beginning.             *)
DisconnectCloses ==
  [][pc["S"] = "wait" /\ pc'["S"] = "idle" => sock[hand["S"]] = NoSock \/ strays' # {}]_vars

(* Two messages of a client in a row never find its connection broken: a   *)
(* failed send, also one after a failed connect(), is followed by a new    *)
(* connection, unless disconnect() has returned with a stray permit.       *)
FailsOnce ==
  [][pc["S"] = "send" /\ pc'["S"] = "disconnect" => hand["S"] \notin failed \/ strays # {}]_vars

(* Until a stray permit ends a wait, recv() blocks BrokerRecvTask, and     *)
(* with it all clients, only on a socket that has just been opened and     *)
(* whose client is to be answered, although the descriptor set may be      *)
(* older than the socket.                                                  *)
BlocksOnlyOnNew ==
  LET c == hand["R"] IN
  strays = {} /\ pc["R"] = "recv" /\ Blocks(c) =>
    \/ sock[c] \in owed
    \/ hand["S"] = c /\ pc["S"] \in {"dialing", "sendNew"}

(* The sending thread comes back from every message: disconnect() returns, *)
(* although the thread that has to close the socket may be blocked itself, *)
(* unless a stray permit has ended a wait.                                 *)
SenderReturns == pc["S"] # "idle" ~> pc["S"] = "idle" \/ strays # {}

(* The two threads implement the sockets that module Gateway builds on,    *)
(* until a stray permit ends a wait.                                       *)
Opening == {"created", "option", "connect", "dial", "dialing", "sendNew", "giveUp"}

LinkOf(c) ==
  IF hand["S"] = c /\ pc["S"] \in Opening \cup {"disconnect", "wait"} THEN "none"
  ELSE CASE State(c) = "closed" -> "none"
         [] State(c) \in {"fresh", "connecting", "reset"} -> "broken"
         [] State(c) = "up" -> "open"
         [] State(c) = "ended" -> "halfClosed"

Link == INSTANCE BrokerLink
          WITH link <- [c \in Clients |-> LinkOf(c)]
ImplementsLink == Link!Init /\ [][strays' # {} \/ Link!Next]_Link!vars
=============================================================================
