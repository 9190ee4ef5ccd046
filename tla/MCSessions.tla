----------------------------- MODULE MCSessions -----------------------------
(* The settings in which Sessions is model-checked.                        *)
EXTENDS Sessions

\* Frames and connections are lost, and everything is repeated.  No clean
\* session: a CONNECT keeps the topic table.
Lossy ==
  [kinds |-> {"REGISTER", "PUBLISH", "PINGREQ", "DISCONNECT"},
   flags |-> {{}, {"will"}}, idTypes |-> {"normal"},
   repeat |-> TRUE, reliable |-> FALSE, wildcard |-> FALSE,
   maxRequests |-> 4, maxRetries |-> 2, maxPublishes |-> 0, maxClients |-> 1]

\* PUBLISHes on any name while the client asks for topics.
Publishing ==
  [kinds |-> {"REGISTER", "SUBSCRIBE"},
   flags |-> {{"clean"}}, idTypes |-> {"normal"},
   repeat |-> FALSE, reliable |-> TRUE, wildcard |-> TRUE,
   maxRequests |-> 2, maxRetries |-> 1, maxPublishes |-> 2, maxClients |-> 1]

\* Connections break, and the client connects again with a clean session.
Reconnecting ==
  [kinds |-> {"REGISTER", "PUBLISH", "DISCONNECT"},
   flags |-> {{"clean"}}, idTypes |-> {"normal"},
   repeat |-> FALSE, reliable |-> FALSE, wildcard |-> TRUE,
   maxRequests |-> 3, maxRetries |-> 1, maxPublishes |-> 1, maxClients |-> 1]

\* Every request type of a client alone; nothing is lost.
Alone ==
  [kinds |-> {"REGISTER", "PUBLISH", "SUBSCRIBE", "UNSUBSCRIBE", "PINGREQ", "SEARCHGW"},
   flags |-> {{"clean", "will"}},
   idTypes |-> {"normal", "short", "predefined", "reserved"},
   repeat |-> TRUE, reliable |-> TRUE, wildcard |-> FALSE,
   maxRequests |-> 3, maxRetries |-> 0, maxPublishes |-> 1, maxClients |-> 1]

\* The same for two clients, with fewer requests.
Quiet == [Alone EXCEPT !.idTypes = {"normal"}, !.maxRequests = 2, !.maxClients = 2]

SafetySettings == {Lossy, Publishing, Reconnecting}
LiveSettings == {Quiet, Alone}
UnsubscribeSettings == {[Quiet EXCEPT !.kinds = {"SUBSCRIBE", "UNSUBSCRIBE"},
                                      !.flags = {{}}, !.idTypes = {"normal"}]}
=============================================================================
