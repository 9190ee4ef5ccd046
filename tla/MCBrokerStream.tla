--------------------------- MODULE MCBrokerStream ---------------------------
(* The messages of the instances: a short one, PUBLISHes whose length is   *)
(* the last of one digit and the first of two, one that the buffer cannot  *)
(* hold, and some of QoS 0.                                                *)
EXTENDS BrokerStream

Publish(topic, qos, payload) ==
  [type |-> "PUBLISH", topic |-> topic, qos |-> qos, payload |-> payload]
Short(type) == [type |-> type, topic |-> 0, qos |-> 0, payload |-> 0]

AllMessages == {Short("PUBACK"), Publish(8, 0, 1),
                Publish(8, 1, 115), Publish(8, 1, 116), Publish(400, 1, 255)}
Qos0Messages == {Short("PINGRESP"), Short("SUBACK"), Publish(8, 0, 10), Publish(8, 0, 1)}

(* The codec of RemainingLength is exact for every length it can hold.     *)
ASSUME CodecExact == \A len \in 0 .. 65535 : Decode(Encode(len)) = len
=============================================================================
