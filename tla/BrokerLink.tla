----------------------------- MODULE BrokerLink -----------------------------
(***************************************************************************)
(* What module Gateway takes for granted of the sockets: every turn of     *)
(* BrokerSendTask ends with one of the outcomes of SocketOutcomes, and in  *)
(* between only the broker changes the state of a connection.  Threads,    *)
(* descriptors and the closing of a socket by another thread are not seen. *)
(***************************************************************************)
EXTENDS SocketOutcomes

CONSTANT Clients

VARIABLES link,  \* the state of each client's connection
          fate   \* of the message of the last turn

vars == <<link, fate>>

Init == link = [c \in Clients |-> "none"] /\ fate = "lost"

Turn(c) ==
  \E out \in Outcomes(link[c]) :
    fate' = out[1] /\ link' = [link EXCEPT ![c] = out[2]]

PeerClose(c) ==
  /\ link[c] = "open" /\ link' = [link EXCEPT ![c] = "halfClosed"]
  /\ UNCHANGED fate

Reset(c) ==
  /\ link[c] \in {"open", "halfClosed"} /\ link' = [link EXCEPT ![c] = "broken"]
  /\ UNCHANGED fate

Next == \E c \in Clients : Turn(c) \/ PeerClose(c) \/ Reset(c)

Spec == Init /\ [][Next]_vars
=============================================================================
