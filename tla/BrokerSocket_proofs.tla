------------------------ MODULE BrokerSocket_proofs ------------------------
(***************************************************************************)
(* Theorems about module BrokerSocket, for every number of clients, every  *)
(* set of descriptors and whatever the semaphores hold in the beginning.   *)
(*                                                                         *)
(* The heart is Solid, which holds until a stray permit ends a wait: there *)
(* is a request only while the sending thread waits for it, only the       *)
(* receiving thread closes, and only for that request, and a permit beyond *)
(* those of the beginning is there only after the socket is gone.          *)
(***************************************************************************)
EXTENDS BrokerSocket, TLAPS

Handshake ==
  /\ pc["S"] \notin ClosingPlaces
  /\ pc["R"] \in ClosingPlaces =>
       ret["R"] \in {"scanned", "looked"} /\ pc["S"] = "wait" /\ hand["R"] = hand["S"]
  /\ disconReq \subseteq {hand["S"]}
  /\ disconReq # {} => pc["S"] = "wait"
  /\ pc["R"] \in {"close", "forget", "clear"} => hand["R"] \in disconReq
  /\ pc["R"] = "raise" => disconReq = {}
  /\ pc["R"] \in {"clear", "raise"} => sock[hand["R"]] = NoSock
  /\ \A c \in disconReq : sock[c] = NoSock => pc["R"] = "clear"

\* A permit beyond those of the beginning stands for a socket that was closed.
Permits ==
  \A c \in Clients : sem[c] # initial[c] =>
    /\ sem[c] = initial[c] + 1 /\ sock[c] = NoSock
    /\ pc["S"] = "wait" /\ hand["S"] = c /\ disconReq = {}
    /\ pc["R"] \notin ClosingPlaces

Ownership ==
  /\ Owned
  /\ pc["R"] = "forget" => conn[sock[hand["R"]]] = "closed"
  /\ pc["S"] = "create" => sock[hand["S"]] = NoSock

\* A node whose last message failed has no socket, or is losing it.
Failures ==
  /\ \A c \in failed : \/ sock[c] = NoSock
                       \/ hand["S"] = c /\ pc["S"] \in {"disconnect", "wait"}
  /\ pc["S"] = "send" => sock[hand["S"]] # NoSock

Solid == Handshake /\ Permits /\ Ownership /\ Failures

\* Where isValid() goes on: each thread has its own callers of it.
Returns ==
  /\ ret["S"] \in {"idle", "create", "giveUp"}
  /\ ret["R"] \in {"idle", "scanned", "looked"}
  /\ pc["R"] \in ClosingPlaces => ret["R"] # "idle"

Typed == TypeOK /\ Returns

IInv == Typed /\ (strays = {} => Solid)

USE DEF NoSock

LEMMA InitIInv == ASSUME Init PROVE IInv
<1> USE SocketAssumption DEF Init, Threads
<1>1. 1 \in Clients
  BY DEF Clients
<1>2. TypeOK
  <2>1. sem \in [Clients -> 0 .. MaxPermits] /\ initial \in [Clients -> InitialPermits]
    OBVIOUS
  <2> QED BY <1>1, <2>1 DEF TypeOK, PlacesOK, DataOK, SendPlaces, RecvPlaces, ClosingPlaces
<1>3. Returns /\ Solid
  BY DEF Returns, Solid, Handshake, Permits, Ownership, Owned, Failures, ClosingPlaces
<1> QED BY <1>2, <1>3 DEF IInv, Typed

(* Every step keeps the types.                                             *)
LEMMA NextTyped == ASSUME Typed, [Next]_vars PROVE Typed'
<1> USE SocketAssumption
<1> USE DEF Typed, TypeOK, PlacesOK, DataOK, Returns, SendPlaces, RecvPlaces, ClosingPlaces,
            Threads, Goto, sockVars, netVars, history, permits
<1>a. 1 \in Clients /\ \A n \in Clients : n < ClientCount => n + 1 \in Clients
  BY DEF Clients
<1>1. ASSUME NEW c \in Clients, TakeEvent(c) PROVE Typed'
  BY <1>1 DEF TakeEvent
<1>2. CASE SendValid \/ CreateValid \/ ConnectValid
  <2>1. PlacesOK' /\ Returns'
    BY <1>2 DEF SendValid, CreateValid, ConnectValid, IsValid
  <2>2. DataOK'
    BY <1>2 DEF SendValid, CreateValid, ConnectValid, IsValid
  <2> QED BY <2>1, <2>2
<1>3. CASE Send
  <2>1. PlacesOK' /\ Returns'
    BY <1>3 DEF Send, State
  <2>2. owed' \subseteq Descriptors
    BY <1>3 DEF Send, State
  <2>3. DataOK'
    BY <1>3, <2>2 DEF Send
  <2> QED BY <2>1, <2>3
<1>4. CASE Create
  <2>1. PlacesOK' /\ Returns'
    BY <1>4 DEF Create
  <2>2. DataOK'
    BY <1>4 DEF Create
  <2> QED BY <2>1, <2>2
<1>5. CASE SetOption \/ GivesUp
  <2>1. PlacesOK' /\ Returns'
    BY <1>5 DEF SetOption, GivesUp, GiveUp, State
  <2>2. DataOK'
    BY <1>5 DEF SetOption, GivesUp, GiveUp, State
  <2> QED BY <2>1, <2>2
<1>6. CASE Dial \/ Connect
  <2>1. PlacesOK' /\ Returns'
    BY <1>6 DEF Dial, Connect, State
  <2>2. DataOK'
    BY <1>6 DEF Dial, Connect, State
  <2> QED BY <2>1, <2>2
<1>7. CASE Request
  <2>1. PlacesOK' /\ Returns'
    BY <1>7 DEF Request
  <2>2. DataOK'
    BY <1>7 DEF Request
  <2> QED BY <2>1, <2>2
<1>8. CASE Wait
  <2>1. PlacesOK' /\ Returns'
    BY <1>8 DEF Wait
  <2>2. DataOK'
    BY <1>8 DEF Wait
  <2> QED BY <2>1, <2>2
<1>9. ASSUME NEW t \in Threads, Closing(t) PROVE Typed'
  <2>1. CASE Close(t)
    BY <1>9, <2>1 DEF Close
  <2>2. CASE Forget(t)
    BY <1>9, <2>2 DEF Forget
  <2>3. CASE Clear(t)
    BY <1>9, <2>3 DEF Clear
  <2>4. CASE Raise(t)
    BY <1>9, <2>4 DEF Raise
  <2> QED BY <1>9, <2>1, <2>2, <2>3, <2>4 DEF Closing
<1>10. CASE ScanValid \/ LookValid
  <2>1. PlacesOK' /\ Returns'
    BY <1>10 DEF ScanValid, LookValid, IsValid
  <2>2. DataOK'
    BY <1>10 DEF ScanValid, LookValid, IsValid
  <2> QED BY <2>1, <2>2
<1>11. CASE GetSock \/ IsSet
  <2>1. PlacesOK'
    BY <1>11 DEF GetSock, IsSet
  <2>2. Returns'
    BY <1>11 DEF GetSock, IsSet
  <2>3. sock[hand["R"]] \in Descriptors \cup {NoSock}
    OBVIOUS
  <2>4. fdset' \subseteq fdset \cup {sock[hand["R"]]}
    BY <1>11 DEF GetSock, IsSet
  <2>5. DataOK'
    BY <1>11, <2>3, <2>4 DEF GetSock, IsSet
  <2> QED BY <2>1, <2>2, <2>5
<1>12. CASE Scanned
  <2>1. PlacesOK' /\ Returns'
    BY <1>12, <1>a DEF Scanned
  <2>2. DataOK'
    BY <1>12, <1>a DEF Scanned
  <2> QED BY <2>1, <2>2
<1>13. CASE Select
  <2>1. PlacesOK' /\ Returns'
    BY <1>13, <1>a DEF Select, Rescan, Ready
  <2>2. DataOK'
    BY <1>13, <1>a DEF Select, Rescan, Ready
  <2> QED BY <2>1, <2>2
<1>14. CASE Recv
  <2>1. PlacesOK' /\ Returns'
    BY <1>14 DEF Recv
  <2>2. DataOK'
    BY <1>14 DEF Recv
  <2> QED BY <2>1, <2>2
<1>15. CASE Looked
  <2>1. PlacesOK' /\ Returns'
    BY <1>15, <1>a DEF Looked, Rescan
  <2>2. hand' \in [Threads -> Clients]
    BY <1>15, <1>a DEF Looked, Rescan
  <2>3. fdset' \subseteq Descriptors \cup {NoSock}
    BY <1>15 DEF Looked, Rescan
  <2>4. DataOK'
    BY <1>15, <2>2, <2>3 DEF Looked, Rescan
  <2> QED BY <2>1, <2>4
<1>16. ASSUME NEW d \in Descriptors, PeerSends(d) \/ PeerCloses(d) \/ PeerResets(d)
       PROVE  Typed'
  BY <1>16 DEF PeerSends, PeerCloses, PeerResets
<1>17. CASE UNCHANGED vars
  BY <1>17 DEF vars
<1> QED
  BY <1>1, <1>2, <1>3, <1>4, <1>5, <1>6, <1>7, <1>8, <1>9, <1>10, <1>11, <1>12, <1>13,
     <1>14, <1>15, <1>16, <1>17 DEF Next, SendTask, RecvTask

\* The first stray is not forgotten.
LEMMA StrayStays == ASSUME [Next]_vars, strays' = {} PROVE strays = {}
<1> USE DEF history, permits
<1>1. CASE SendTask
  BY <1>1 DEF SendTask, SendValid, Send, Create, CreateValid, SetOption, ConnectValid, Dial,
     Connect, GivesUp, Request, Wait, Closing, Close, Forget, Clear, Raise, IsValid
<1>2. CASE RecvTask
  BY <1>2 DEF RecvTask, ScanValid, GetSock, Scanned, Select, LookValid, IsSet, Recv, Looked,
     Closing, Close, Forget, Clear, Raise, IsValid
<1>3. ASSUME NEW c \in Clients, TakeEvent(c) PROVE strays = {}
  BY <1>3 DEF TakeEvent
<1>4. ASSUME NEW d \in Descriptors, PeerSends(d) \/ PeerCloses(d) \/ PeerResets(d)
      PROVE  strays = {}
  BY <1>4 DEF PeerSends, PeerCloses, PeerResets
<1>5. CASE UNCHANGED vars
  BY <1>5 DEF vars
<1> QED BY <1>1, <1>2, <1>3, <1>4, <1>5 DEF Next

(* Every step but a stray keeps what the threads know of each other.       *)
LEMMA NextSolid ==
  ASSUME Typed, Typed', Solid, strays = {}, strays' = {}, [Next]_vars PROVE Solid'
<1> USE SocketAssumption
<1> USE DEF Typed, Returns, Solid, TypeOK, PlacesOK, DataOK, Handshake, Permits, Ownership,
            Owned, Failures, SendPlaces, RecvPlaces, ClosingPlaces, Threads, Goto,
            sockVars, netVars, history, permits
<1>1. ASSUME NEW c \in Clients, TakeEvent(c) PROVE Solid'
  BY <1>1 DEF TakeEvent
<1>2. CASE SendValid
  BY <1>2 DEF SendValid, IsValid
<1>3. CASE Send
  BY <1>3 DEF Send, State
<1>4. CASE Create
  BY <1>4 DEF Create
<1>5. CASE CreateValid
  BY <1>5 DEF CreateValid, IsValid
<1>6. CASE SetOption
  BY <1>6 DEF SetOption, State
<1>7. CASE ConnectValid
  BY <1>7 DEF ConnectValid, IsValid
<1>8. CASE Dial
  BY <1>8 DEF Dial, State
<1>9. CASE Connect
  BY <1>9 DEF Connect, State
<1>10. CASE GivesUp
  BY <1>10 DEF GivesUp, GiveUp
<1>11. CASE Request
  <2>1. Handshake' /\ Permits'
    BY <1>11 DEF Request
  <2>2. Ownership' /\ Failures'
    BY <1>11 DEF Request
  <2> QED BY <2>1, <2>2
<1>12. CASE Wait
  <2>1. hand["S"] \in Clients /\ sem[hand["S"]] # initial[hand["S"]]
    BY <1>12 DEF Wait
  <2>2. /\ sem[hand["S"]] = initial[hand["S"]] + 1 /\ sock[hand["S"]] = NoSock
        /\ disconReq = {} /\ pc["R"] \notin ClosingPlaces
    BY <2>1
  <2>3. Handshake' /\ Permits'
    BY <1>12, <2>2 DEF Wait
  <2>4. Ownership' /\ Failures'
    BY <1>12, <2>2 DEF Wait
  <2> QED BY <2>3, <2>4
<1>13. ~Closing("S")
  BY DEF Closing, Close, Forget, Clear, Raise
<1>14. CASE ScanValid
  BY <1>14 DEF ScanValid, IsValid
<1>15. CASE GetSock
  BY <1>15 DEF GetSock
<1>16. CASE Scanned
  <2>1. Handshake' /\ Permits'
    BY <1>16 DEF Scanned
  <2>2. Ownership' /\ Failures'
    BY <1>16 DEF Scanned
  <2> QED BY <2>1, <2>2
<1>17. CASE Select
  <2>1. Handshake' /\ Permits'
    BY <1>17 DEF Select, Rescan
  <2>2. Ownership' /\ Failures'
    BY <1>17 DEF Select, Rescan
  <2> QED BY <2>1, <2>2
<1>18. CASE LookValid
  <2>1. Handshake' /\ Permits'
    BY <1>18 DEF LookValid, IsValid
  <2>2. Ownership' /\ Failures'
    BY <1>18 DEF LookValid, IsValid
  <2> QED BY <2>1, <2>2
<1>19. CASE IsSet
  BY <1>19 DEF IsSet
<1>20. CASE Recv
  BY <1>20 DEF Recv
<1>21. CASE Looked
  BY <1>21 DEF Looked, Rescan
<1>22. CASE Close("R")
  BY <1>22 DEF Close
<1>23. CASE Forget("R")
  BY <1>23 DEF Forget
<1>24. CASE Clear("R")
  BY <1>24 DEF Clear
<1>25. CASE Raise("R")
  BY <1>25 DEF Raise
<1>26. ASSUME NEW d \in Descriptors, PeerSends(d) \/ PeerCloses(d) \/ PeerResets(d)
       PROVE  Solid'
  BY <1>26 DEF PeerSends, PeerCloses, PeerResets
<1>27. CASE UNCHANGED vars
  BY <1>27 DEF vars
<1> QED
  BY <1>1, <1>2, <1>3, <1>4, <1>5, <1>6, <1>7, <1>8, <1>9, <1>10, <1>11, <1>12, <1>13,
     <1>14, <1>15, <1>16, <1>17, <1>18, <1>19, <1>20, <1>21, <1>22, <1>23, <1>24, <1>25,
     <1>26, <1>27 DEF Next, SendTask, RecvTask, Closing

LEMMA AlwaysIInv == Spec => []IInv
<1>1. Init => IInv
  BY InitIInv
<1>2. IInv /\ [Next]_vars => IInv'
  BY NextTyped, NextSolid, StrayStays DEF IInv
<1> QED BY <1>1, <1>2, PTL DEF Spec

(* The types of the sockets' state and of the threads' places.             *)
THEOREM TypeCorrect == Spec => []TypeOK
<1>1. IInv => TypeOK
  BY DEF IInv, Typed
<1> QED BY <1>1, AlwaysIInv, PTL

(* A wait is ended by a stray permit only where a semaphore held one in    *)
(* the beginning: where all of them are zero, what the other theorems say  *)
(* holds for ever.                                                         *)
THEOREM ZeroNeverStrays == Spec => []((\A c \in Clients : initial[c] = 0) => strays = {})
<1> DEFINE Inv == (\A c \in Clients : initial[c] = 0) => strays = {}
<1>1. Init => Inv
  BY DEF Init
<1>2. ASSUME IInv, Inv, [Next]_vars PROVE Inv'
  <2> USE DEF history, permits
  <2>1. CASE Wait
    BY <1>2, <2>1 DEF Wait, IInv, Typed, TypeOK, PlacesOK, DataOK, Threads
  <2>2. CASE SendTask /\ ~Wait
    BY <1>2, <2>2 DEF SendTask, SendValid, Send, Create, CreateValid, SetOption, ConnectValid,
       Dial, Connect, GivesUp, Request, Closing, Close, Forget, Clear, Raise, IsValid
  <2>3. CASE RecvTask
    BY <1>2, <2>3 DEF RecvTask, ScanValid, GetSock, Scanned, Select, LookValid, IsSet, Recv,
       Looked, Closing, Close, Forget, Clear, Raise, IsValid
  <2>4. ASSUME NEW c \in Clients, TakeEvent(c) PROVE Inv'
    BY <1>2, <2>4 DEF TakeEvent
  <2>5. ASSUME NEW d \in Descriptors, PeerSends(d) \/ PeerCloses(d) \/ PeerResets(d)
        PROVE  Inv'
    BY <1>2, <2>5 DEF PeerSends, PeerCloses, PeerResets
  <2>6. CASE UNCHANGED vars
    BY <1>2, <2>6 DEF vars
  <2> QED BY <1>2, <2>1, <2>2, <2>3, <2>4, <2>5, <2>6 DEF Next
<1> QED BY <1>1, <1>2, AlwaysIInv, PTL DEF Spec

(* Until a stray, no descriptor is lost, shared or used after it was       *)
(* closed, whichever of the two threads calls isValid().                   *)
THEOREM DescriptorsAlwaysOwned == Spec => []DescriptorsOwned
<1>1. IInv => DescriptorsOwned
  BY DEF IInv, Solid, Ownership, DescriptorsOwned
<1> QED BY <1>1, AlwaysIInv, PTL

(* Until a stray, disconnect() returns only after the socket has been      *)
(* closed.                                                                 *)
THEOREM DisconnectAlwaysCloses == Spec => DisconnectCloses
<1>1. ASSUME IInv, [Next]_vars
      PROVE  [pc["S"] = "wait" /\ pc'["S"] = "idle" =>
                sock[hand["S"]] = NoSock \/ strays' # {}]_vars
  <2>1. SUFFICES ASSUME Next, pc["S"] = "wait", pc'["S"] = "idle", strays' = {}
                 PROVE  sock[hand["S"]] = NoSock
    BY <1>1
  <2>a. Solid /\ strays = {}
    BY <1>1, <2>1, StrayStays DEF IInv
  <2> USE DEF IInv, Typed, Solid, TypeOK, PlacesOK, DataOK, Threads, Goto,
              SendPlaces, RecvPlaces, ClosingPlaces
  <2>2. CASE SendTask
    <3>1. CASE Wait
      BY <1>1, <2>1, <2>a, <3>1 DEF Wait, Permits
    <3>2. ~Closing("S")
      BY <1>1, <2>a DEF Closing, Close, Forget, Clear, Raise, Handshake
    <3> QED BY <2>1, <2>2, <3>1, <3>2
            DEF SendTask, SendValid, Send, Create, CreateValid, SetOption, ConnectValid,
                Dial, Connect, GivesUp, Request
  <2>3. pc' # pc /\ pc'["S"] # pc["S"]
    BY <2>1
  <2>4. ~RecvTask
    BY <1>1, <2>3, <2>a DEF RecvTask, ScanValid, GetSock, Scanned, Select, LookValid, IsSet, Recv,
       Looked, Closing, Close, Forget, Clear, Raise, IsValid, Rescan
  <2>5. \A c \in Clients : ~TakeEvent(c)
    BY <2>1 DEF TakeEvent
  <2>6. \A d \in Descriptors : ~(PeerSends(d) \/ PeerCloses(d) \/ PeerResets(d))
    BY <2>3 DEF PeerSends, PeerCloses, PeerResets
  <2> QED BY <2>1, <2>2, <2>4, <2>5, <2>6 DEF Next
<1> QED BY <1>1, AlwaysIInv, PTL DEF Spec, DisconnectCloses

(* Until a stray, a message never finds broken the connection that the     *)
(* client's last message already found broken.                             *)
THEOREM FailsOnlyOnce == Spec => FailsOnce
<1>1. ASSUME IInv
      PROVE  [pc["S"] = "send" /\ pc'["S"] = "disconnect" =>
                hand["S"] \notin failed \/ strays # {}]_vars
  BY <1>1 DEF IInv, Solid, Failures
<1> QED BY <1>1, AlwaysIInv, PTL DEF Spec, FailsOnce
-----------------------------------------------------------------------------
(* What the sending thread knows of the kernel's side of its socket.       *)

Connections ==
  /\ \A d \in Descriptors :
       conn[d] = "connecting" <=> pc["S"] = "dialing" /\ sock[hand["S"]] = d
  /\ pc["S"] = "dialing" => sock[hand["S"]] # NoSock
  /\ pc["S"] \in {"created", "option", "connect", "dial", "giveUp"} /\ sock[hand["S"]] # NoSock
       => conn[sock[hand["S"]]] = "fresh"
  /\ pc["S"] = "sendNew" =>
       sock[hand["S"]] # NoSock /\ conn[sock[hand["S"]]] \in {"up", "ended", "reset"}

LEMMA NextConnections ==
  ASSUME TypeOK, Handshake, Ownership, Ownership', Connections, [Next]_vars
  PROVE  Connections'
<1> USE SocketAssumption
<1> USE DEF TypeOK, PlacesOK, DataOK, Handshake, Ownership,
            Owned, Connections,
            SendPlaces, RecvPlaces, ClosingPlaces, Threads, Goto, sockVars, netVars, history,
            permits
<1>1. ASSUME NEW c \in Clients, TakeEvent(c) PROVE Connections'
  BY <1>1 DEF TakeEvent
<1>2. CASE SendValid
  BY <1>2 DEF SendValid, IsValid
<1>3. CASE Send
  BY <1>3 DEF Send, State
<1>4. CASE Create
  BY <1>4 DEF Create
<1>5. CASE CreateValid
  BY <1>5 DEF CreateValid, IsValid
<1>6. CASE SetOption
  BY <1>6 DEF SetOption, State
<1>7. CASE ConnectValid
  BY <1>7 DEF ConnectValid, IsValid
<1>8. CASE Dial
  BY <1>8 DEF Dial, State
<1>9. CASE Connect
  BY <1>9 DEF Connect, State
<1>10. CASE GivesUp
  BY <1>10 DEF GivesUp, GiveUp
<1>11. CASE Request
  BY <1>11 DEF Request
<1>12. CASE Wait
  BY <1>12 DEF Wait
<1>13. ~Closing("S")
  BY DEF Closing, Close, Forget, Clear, Raise
<1>14. CASE ScanValid \/ GetSock \/ Scanned \/ Select \/ LookValid \/ IsSet \/ Recv \/ Looked
  <2>1. conn' = conn /\ sock' = sock /\ hand'["S"] = hand["S"] /\ pc'["S"] = pc["S"]
    BY <1>14 DEF ScanValid, GetSock, Scanned, Select, LookValid, IsSet, Recv, Looked,
                 IsValid, Rescan
  <2> QED BY <2>1
<1>15. CASE Close("R")
  BY <1>15 DEF Close
<1>16. CASE Forget("R")
  BY <1>16 DEF Forget
<1>17. CASE Clear("R") \/ Raise("R")
  BY <1>17 DEF Clear, Raise
<1>18. ASSUME NEW d \in Descriptors, PeerSends(d) \/ PeerCloses(d) \/ PeerResets(d)
       PROVE  Connections'
  BY <1>18 DEF PeerSends, PeerCloses, PeerResets
<1>19. CASE UNCHANGED vars
  BY <1>19 DEF vars
<1> QED
  BY <1>1, <1>2, <1>3, <1>4, <1>5, <1>6, <1>7, <1>8, <1>9, <1>10, <1>11, <1>12, <1>13,
     <1>14, <1>15, <1>16, <1>17, <1>18, <1>19 DEF Next, SendTask, RecvTask, Closing
-----------------------------------------------------------------------------
(* The blocking of BrokerRecvTask.                                         *)

Looking == {"look", "isSet", "recv"}

\* The second pass is in progress, and c's turn in it is not over.
InSecondPass ==
  \/ pc["R"] \in Looking \cup {"looked"}
  \/ pc["R"] \in ClosingPlaces /\ ret["R"] = "looked"

ToCome(c) ==
  \/ pc["R"] \in Looking /\ hand["R"] <= c
  \/ InSecondPass /\ hand["R"] < c

\* A descriptor of the set that has nothing to tell is a new connection.
Excused(c) ==
  \/ sock[c] \in owed
  \/ hand["S"] = c /\ pc["S"] \in {"dialing", "sendNew"}

OldReady ==
  /\ InSecondPass => fdset \subseteq Descriptors
  /\ pc["R"] = "recv" => sock[hand["R"]] \in fdset
  /\ \A c \in Clients :
       /\ ToCome(c)
       /\ sock[c] \in fdset /\ conn[sock[c]] \in {"connecting", "up"}
       /\ sock[c] \notin pending
       => Excused(c)

LEMMA NextOldReady ==
  ASSUME TypeOK, Handshake, Ownership, Ownership', Connections, OldReady, [Next]_vars
  PROVE  OldReady'
<1> USE SocketAssumption
<1> USE DEF TypeOK, PlacesOK, DataOK, Handshake, Ownership,
            Owned, Connections,
            OldReady, InSecondPass, Looking, ToCome, Excused,
            SendPlaces, RecvPlaces, ClosingPlaces, Threads, Goto, sockVars, netVars, history,
            permits
<1>a. Clients \subseteq Int
  BY DEF Clients
<1>1. ASSUME NEW c \in Clients, TakeEvent(c) PROVE OldReady'
  BY <1>1 DEF TakeEvent
<1>2. CASE SendValid
  BY <1>2 DEF SendValid, IsValid
<1>3. CASE Send
  BY <1>3 DEF Send, State
<1>4. CASE Create
  BY <1>4 DEF Create
<1>5. CASE CreateValid
  BY <1>5 DEF CreateValid, IsValid
<1>6. CASE SetOption
  BY <1>6 DEF SetOption, State
<1>7. CASE ConnectValid
  BY <1>7 DEF ConnectValid, IsValid
<1>8. CASE Dial
  BY <1>8 DEF Dial, State
<1>9. CASE Connect
  BY <1>9 DEF Connect, State
<1>10. CASE GivesUp
  BY <1>10 DEF GivesUp, GiveUp
<1>11. CASE Request
  BY <1>11 DEF Request
<1>12. CASE Wait
  BY <1>12 DEF Wait
<1>13. ~Closing("S")
  BY DEF Closing, Close, Forget, Clear, Raise
<1>14. CASE ScanValid
  BY <1>14 DEF ScanValid, IsValid
<1>15. CASE GetSock
  BY <1>15 DEF GetSock
<1>16. CASE Scanned
  BY <1>16 DEF Scanned
<1>17. CASE Select
  BY <1>17 DEF Select, Rescan, Ready, Readable
<1>18. CASE LookValid
  BY <1>18, <1>a DEF LookValid, IsValid
<1>19. CASE IsSet
  BY <1>19, <1>a DEF IsSet
<1>20. CASE Recv
  <2>1. /\ pc["R"] = "recv" /\ pc' = [pc EXCEPT !["R"] = "looked"]
        /\ hand' = hand /\ fdset' = fdset /\ sock' = sock /\ conn' = conn /\ owed' = owed
        /\ pending' = pending \ {sock[hand["R"]]}
    BY <1>20 DEF Recv
  <2>2. pc'["R"] = "looked" /\ pc'["S"] = pc["S"] /\ hand["R"] \in Clients
    BY <2>1
  <2>3. ASSUME NEW c \in Clients, ToCome(c)', sock'[c] \in fdset', sock'[c] \notin pending',
               conn'[sock'[c]] \in {"connecting", "up"}
        PROVE  Excused(c)'
    <3>1. hand["R"] < c
      BY <2>1, <2>2, <2>3
    <3>2. c # hand["R"] /\ ToCome(c)
      BY <2>1, <2>2, <3>1, <1>a
    <3>3. sock[c] # NoSock
      BY <2>1, <2>3
    <3>4. sock[c] # sock[hand["R"]]
      BY <2>2, <3>2, <3>3
    <3>5. Excused(c)
      BY <2>1, <2>3, <3>2, <3>4
    <3> QED BY <2>1, <2>2, <3>5
  <2>4. InSecondPass' => fdset' \subseteq Descriptors
    BY <2>1
  <2> QED BY <2>2, <2>3, <2>4
<1>21. CASE Looked
  <2>1. CASE hand["R"] < ClientCount
    <3>1. /\ pc["R"] = "looked" /\ pc' = [pc EXCEPT !["R"] = "look"]
          /\ hand' = [hand EXCEPT !["R"] = @ + 1] /\ fdset' = fdset
          /\ sock' = sock /\ conn' = conn /\ pending' = pending /\ owed' = owed
      BY <1>21, <2>1 DEF Looked
    <3>2. /\ pc'["R"] = "look" /\ pc'["S"] = pc["S"] /\ hand["R"] \in Clients
          /\ hand'["R"] = hand["R"] + 1 /\ hand'["S"] = hand["S"]
      BY <3>1
    <3>3. \A c \in Clients : ToCome(c)' => ToCome(c)
      <4> HIDE DEF OldReady, Connections
      <4>1. \A c \in Clients : hand["R"] \in Int /\ c \in Int
        BY <3>2, <1>a
      <4> QED BY <3>1, <3>2, <4>1
    <3>4. InSecondPass /\ fdset' \subseteq Descriptors
      BY <3>1
    <3>5. \A c \in Clients : Excused(c) => Excused(c)'
      BY <3>1, <3>2
    <3>6. ASSUME NEW c \in Clients, ToCome(c)', sock'[c] \in fdset', sock'[c] \notin pending',
                 conn'[sock'[c]] \in {"connecting", "up"}
          PROVE  Excused(c)'
      <4> HIDE DEF ToCome, Excused, InSecondPass
      <4> QED BY <3>1, <3>3, <3>5, <3>6 DEF OldReady
    <3> QED BY <3>2, <3>4, <3>6
  <2>2. CASE ~(hand["R"] < ClientCount)
    BY <1>21, <2>2 DEF Looked, Rescan
  <2> QED BY <2>1, <2>2
<1>22. CASE Close("R")
  BY <1>22, <1>a DEF Close
<1>23. CASE Forget("R")
  BY <1>23 DEF Forget
<1>24. CASE Clear("R")
  BY <1>24 DEF Clear
<1>25. CASE Raise("R")
  BY <1>25, <1>a DEF Raise
<1>26. ASSUME NEW d \in Descriptors, PeerSends(d) \/ PeerCloses(d) \/ PeerResets(d)
       PROVE  OldReady'
  BY <1>26 DEF PeerSends, PeerCloses, PeerResets
<1>27. CASE UNCHANGED vars
  BY <1>27 DEF vars
<1> QED
  BY <1>1, <1>2, <1>3, <1>4, <1>5, <1>6, <1>7, <1>8, <1>9, <1>10, <1>11, <1>12, <1>13,
     <1>14, <1>15, <1>16, <1>17, <1>18, <1>19, <1>20, <1>21, <1>22, <1>23, <1>24, <1>25,
     <1>26, <1>27 DEF Next, SendTask, RecvTask, Closing

Connected == IInv /\ (strays = {} => Connections /\ OldReady)

LEMMA AlwaysConnected == Spec => []Connected
<1>1. ASSUME Init PROVE Connected
  <2>1. IInv
    BY <1>1, InitIInv
  <2>2. Connections /\ OldReady
    BY <1>1 DEF Init, Connections, OldReady, InSecondPass, Looking, ToCome, ClosingPlaces
  <2> QED BY <2>1, <2>2 DEF Connected
<1>2. ASSUME Connected, IInv', [Next]_vars PROVE Connected'
  BY <1>2, StrayStays, NextConnections, NextOldReady DEF Connected, IInv, Typed, Solid
<1> QED BY <1>1, <1>2, AlwaysIInv, PTL DEF Spec

(* Until a stray, BrokerRecvTask blocks only on the new connection of a    *)
(* client that is about to be answered, however old its descriptor set is. *)
THEOREM BlocksOnlyOnNewConnections == Spec => []BlocksOnlyOnNew
<1>1. ASSUME Connected PROVE BlocksOnlyOnNew
  <2>1. SUFFICES ASSUME strays = {}, pc["R"] = "recv", Blocks(hand["R"])
                 PROVE  Excused(hand["R"])
    BY DEF BlocksOnlyOnNew, Excused
  <2>2. hand["R"] \in Clients /\ hand["R"] <= hand["R"]
    BY <1>1 DEF Connected, IInv, Typed, TypeOK, PlacesOK, DataOK, Threads, Clients
  <2>3. ToCome(hand["R"])
    BY <2>1, <2>2 DEF ToCome, Looking
  <2>4. /\ sock[hand["R"]] \in fdset /\ sock[hand["R"]] \notin pending
        /\ conn[sock[hand["R"]]] \in {"connecting", "up"}
    BY <1>1, <2>1 DEF Connected, OldReady, Blocks, State
  <2> QED BY <1>1, <2>1, <2>2, <2>3, <2>4 DEF Connected, OldReady
<1> QED BY <1>1, AlwaysConnected, PTL
-----------------------------------------------------------------------------
(* The sockets implement BrokerLink.                                       *)

\* A step that BrokerLink does not see.
Unseen == fate' = fate /\ \A c \in Clients : LinkOf(c)' = LinkOf(c)

\* The end of the sending thread's turn for h.
Seen(h, f, l) ==
  /\ fate' = f /\ LinkOf(h)' = l
  /\ \A c \in Clients \ {h} : LinkOf(c)' = LinkOf(c)

LEMMA UnseenStutters == ASSUME Unseen PROVE UNCHANGED Link!vars
<1>1. [c \in Clients |-> LinkOf(c)'] = [c \in Clients |-> LinkOf(c)]
  BY DEF Unseen
<1> QED BY <1>1 DEF Unseen, Link!vars

LEMMA SeenIsTurn ==
  ASSUME NEW h \in Clients, NEW f, NEW l, Seen(h, f, l), <<f, l>> \in Link!Outcomes(LinkOf(h))
  PROVE  Link!Next
<1>1. [c \in Clients |-> LinkOf(c)'] = [[c \in Clients |-> LinkOf(c)] EXCEPT ![h] = l]
  BY DEF Seen
<1>2. fate' = <<f, l>>[1] /\ l = <<f, l>>[2] /\ [c \in Clients |-> LinkOf(c)][h] = LinkOf(h)
  BY DEF Seen
<1>3. Link!Turn(h)
  BY <1>1, <1>2 DEF Link!Turn
<1> QED BY <1>3 DEF Link!Next

LEMMA PeerStep ==
  ASSUME NEW h \in Clients, NEW l, fate' = fate, Seen(h, fate, l),
         \/ LinkOf(h) = "open" /\ l = "halfClosed"
         \/ LinkOf(h) \in {"open", "halfClosed"} /\ l = "broken"
  PROVE  Link!Next
<1>1. [c \in Clients |-> LinkOf(c)'] = [[c \in Clients |-> LinkOf(c)] EXCEPT ![h] = l]
  BY DEF Seen
<1>2. [c \in Clients |-> LinkOf(c)][h] = LinkOf(h)
  OBVIOUS
<1>3. Link!PeerClose(h) \/ Link!Reset(h)
  BY <1>1, <1>2 DEF Link!PeerClose, Link!Reset
<1> QED BY <1>3 DEF Link!Next

LEMMA NextLink ==
  ASSUME IInv, IInv', strays = {}, strays' = {}, Connections, Connections', [Next]_vars
  PROVE  [Link!Next]_Link!vars
<1> USE SocketAssumption
<1> DEFINE h == hand["S"]
<1>a. h \in Clients
  BY DEF IInv, Typed, TypeOK, PlacesOK, DataOK, Threads
<1>b. ASSUME NEW f, NEW l, Seen(h, f, l), <<f, l>> \in Link!Outcomes(LinkOf(h))
      PROVE  [Link!Next]_Link!vars
  BY <1>a, <1>b, SeenIsTurn
<1>c. ASSUME Unseen PROVE [Link!Next]_Link!vars
  BY <1>c, UnseenStutters
<1> HIDE DEF h
<1> USE DEF IInv, Typed, Solid, TypeOK, PlacesOK, DataOK, Handshake, Ownership,
            Owned, Connections,
            LinkOf, State, Opening, SendPlaces, RecvPlaces, ClosingPlaces, Threads, Goto,
            sockVars, netVars, history, permits
<1>1. ASSUME NEW c \in Clients, TakeEvent(c) PROVE Unseen
  BY <1>1 DEF TakeEvent, Unseen
<1>2. CASE SendValid
  <2>1. Unseen
    BY <1>2 DEF SendValid, IsValid, Unseen
  <2> QED BY <1>c, <2>1
<1>3. CASE Send
  <2>1. CASE State(h) = "up"
    <3>1. Seen(h, "sent", "open")
      BY <1>3, <2>1 DEF Send, Seen, h
    <3>2. <<"sent", "open">> \in Link!Outcomes(LinkOf(h))
      BY <1>3, <2>1 DEF Send, Link!Outcomes, h
    <3> QED BY <1>b, <3>1, <3>2
  <2>2. CASE State(h) = "ended"
    <3>1. Seen(h, "lost", "halfClosed")
      BY <1>3, <2>2 DEF Send, Seen, h
    <3>2. <<"lost", "halfClosed">> \in Link!Outcomes(LinkOf(h))
      BY <1>3, <2>2 DEF Send, Link!Outcomes, h
    <3> QED BY <1>b, <3>1, <3>2
  <2>3. CASE State(h) \notin {"up", "ended"}
    <3>1. Seen(h, "lost", "none")
      BY <1>3, <2>3 DEF Send, Seen, h
    <3>2. <<"lost", "none">> \in Link!Outcomes(LinkOf(h))
      BY <1>3, <2>3 DEF Send, Link!Outcomes, Failures, h
    <3> QED BY <1>b, <3>1, <3>2
  <2> QED BY <2>1, <2>2, <2>3
<1>4. CASE Create
  <2>1. Unseen
    BY <1>4 DEF Create, Unseen
  <2> QED BY <1>c, <2>1
<1>5. CASE CreateValid \/ SetOption \/ ConnectValid
  <2>1. Unseen
    BY <1>5 DEF CreateValid, SetOption, ConnectValid, IsValid, Unseen
  <2> QED BY <1>c, <2>1
<1>6. CASE Dial \/ Connect
  <2>1. Unseen
    BY <1>6 DEF Dial, Connect, Unseen
  <2> QED BY <1>c, <2>1
<1>7. CASE GivesUp
  <2>1. CASE sock[h] = NoSock
    <3>1. Seen(h, "lost", "none")
      BY <1>7, <2>1 DEF GivesUp, GiveUp, Seen, h
    <3>2. <<"lost", "none">> \in Link!Outcomes(LinkOf(h))
      BY <1>7, <2>1 DEF GivesUp, Link!Outcomes, h
    <3> QED BY <1>b, <3>1, <3>2
  <2>2. CASE sock[h] # NoSock
    <3>1. Seen(h, "lost", "broken")
      BY <1>7, <2>2 DEF GivesUp, GiveUp, Seen, h
    <3>2. <<"lost", "broken">> \in Link!Outcomes(LinkOf(h))
      BY <1>7, <2>2 DEF GivesUp, Link!Outcomes, h
    <3> QED BY <1>b, <3>1, <3>2
  <2> QED BY <2>1, <2>2
<1>8. CASE Request \/ Wait
  <2>1. Unseen
    BY <1>8 DEF Request, Wait, Permits, Unseen
  <2> QED BY <1>c, <2>1
<1>9. ~Closing("S")
  BY DEF Closing, Close, Forget, Clear, Raise
<1>10. CASE \/ ScanValid \/ GetSock \/ Scanned \/ Select \/ LookValid \/ IsSet \/ Recv \/ Looked
            \/ Clear("R") \/ Raise("R")
  <2>1. /\ conn' = conn /\ sock' = sock /\ hand'["S"] = hand["S"] /\ pc'["S"] = pc["S"]
        /\ fate' = fate
    BY <1>10 DEF ScanValid, GetSock, Scanned, Select, LookValid, IsSet, Recv, Looked,
                 IsValid, Rescan, Clear, Raise
  <2>2. Unseen
    BY <2>1 DEF Unseen
  <2> QED BY <1>c, <2>2
<1>11. CASE Close("R")
  <2>1. Unseen
    BY <1>11 DEF Close, Unseen
  <2> QED BY <1>c, <2>1
<1>12. CASE Forget("R")
  <2>1. Unseen
    BY <1>12 DEF Forget, Unseen
  <2> QED BY <1>c, <2>1
<1>13. ASSUME NEW d \in Descriptors, PeerSends(d) PROVE Unseen
  BY <1>13 DEF PeerSends, Unseen
<1>14. ASSUME NEW d \in Descriptors, PeerCloses(d) \/ PeerResets(d)
       PROVE  [Link!Next]_Link!vars
  <2>1. PICK c \in Clients : sock[c] = d
    BY <1>14 DEF PeerCloses, PeerResets
  <2>2. CASE c = h /\ pc["S"] \in Opening \cup {"disconnect", "wait"}
    <3>1. Unseen
      BY <1>14, <2>1, <2>2 DEF PeerCloses, PeerResets, Unseen, h
    <3> QED BY <1>c, <3>1
  <2>3. CASE ~(c = h /\ pc["S"] \in Opening \cup {"disconnect", "wait"})
    <3>1. CASE PeerCloses(d)
      <4>1. Seen(c, fate, "halfClosed") /\ LinkOf(c) = "open" /\ fate' = fate
        BY <2>1, <2>3, <3>1 DEF PeerCloses, Seen, h
      <4> QED BY <4>1, PeerStep
    <3>2. CASE PeerResets(d)
      <4>1. Seen(c, fate, "broken") /\ LinkOf(c) \in {"open", "halfClosed"} /\ fate' = fate
        BY <2>1, <2>3, <3>2 DEF PeerResets, Seen, h
      <4> QED BY <4>1, PeerStep
    <3> QED BY <1>14, <3>1, <3>2
  <2> QED BY <2>2, <2>3
<1>15. CASE UNCHANGED vars
  <2>1. Unseen
    BY <1>15 DEF vars, Unseen
  <2> QED BY <1>c, <2>1
<1> QED
  BY <1>c, <1>1, <1>2, <1>3, <1>4, <1>5, <1>6, <1>7, <1>8, <1>9, <1>10, <1>11, <1>12, <1>13,
     <1>14, <1>15 DEF Next, SendTask, RecvTask, Closing

(* What the two threads do to a socket until a stray is, for every client, *)
(* what module Gateway takes a turn of BrokerSendTask for.                 *)
THEOREM LinkImplemented == Spec => ImplementsLink
<1>1. ASSUME Init PROVE Link!Init
  <2>1. \A c \in Clients : LinkOf(c) = "none"
    BY <1>1, SocketAssumption DEF Init, LinkOf, Opening, State
  <2> QED BY <1>1, <2>1 DEF Init, Link!Init
<1>2. ASSUME Connected, Connected', [Next]_vars PROVE [strays' # {} \/ Link!Next]_Link!vars
  <2>1. CASE strays' # {}
    BY <2>1
  <2>2. CASE strays' = {}
    BY <1>2, <2>2, StrayStays, NextLink DEF Connected
  <2> QED BY <2>1, <2>2
<1> QED BY <1>1, <1>2, AlwaysConnected, PTL DEF Spec, ImplementsLink
=============================================================================
