--------------------------- MODULE SocketOutcomes ---------------------------
(***************************************************************************)
(* What BrokerSendTask's turn for one message leaves behind, by the state  *)
(* of the client's socket: whether the broker gets the message, and the    *)
(* state the next message finds.                                           *)
(***************************************************************************)

LinkStates == {"none", "open", "halfClosed", "broken"}

(* A socket is opened when there is none.  When connect() fails it stays   *)
(* valid but unconnected ("broken"); a send on it fails, and only then is  *)
(* it closed.  Sends after the broker has closed the connection            *)
(* ("halfClosed") succeed until its reset arrives, and their messages are  *)
(* lost.                                                                   *)
Outcomes(s) ==
  CASE s = "none"       -> {<<"sent", "open">>, <<"lost", "halfClosed">>,
                            <<"lost", "broken">>, <<"lost", "none">>}
    [] s = "open"       -> {<<"sent", "open">>, <<"lost", "none">>}
    [] s = "halfClosed" -> {<<"lost", "halfClosed">>, <<"lost", "broken">>}
    [] s = "broken"     -> {<<"lost", "none">>}
=============================================================================
