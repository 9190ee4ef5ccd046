------------------------ MODULE ClientStatus_proofs ------------------------
(***************************************************************************)
(* Theorems about module ClientStatus, for every set of durations, of      *)
(* messages and of clock ticks, and for every bound.                       *)
(*                                                                         *)
(* TalkingNeverLost needs to know, while a promise of up to 65 seconds is  *)
(* kept, where each thread can be in the chain of tests when the status is *)
(* Connecting or Active (Started, Answered), and what the timer says of    *)
(* the client's silence (Clock): no more seconds than the client was       *)
(* unheard, or the message that restarts the timer is on its way there     *)
(* (Restarting).                                                           *)
(***************************************************************************)
EXTENDS ClientStatus, TLAPS

UpTypes == {"none", "CONNECT", "DISCONNECT"} \cup Timed \cup Untimed \cup Will
DownTypes == {"none", "CONNACK", "PINGRESP", "PUBLISH"}

\* What the threads deal with.
Work ==
  /\ \A t \in Threads : Idle(t) <=> msg[t].type = "none"
  /\ \A t \in Threads : branch[t] = 1 => msg[t].type = "CONNECT"
  /\ \A t \in Threads : branch[t] = 2 => msg[t].type = "CONNACK"
  /\ msg["up"].type \in UpTypes /\ msg["down"].type \in DownTypes
  /\ ~Idle("up") => Len(due) < MaxDue

\* The client's messages find a branch while the status is another one.
Started == branch["up"] \in 1 .. 5 => status # "Connecting"

NotLost == status # "Lost" /\ found = "nothing"

Answered ==
  /\ branch["down"] = 2 => status \in {"Connecting", "Disconnected"} /\ branch["up"] \in {0, 1, 6}
  /\ msg["down"].type = "CONNACK" /\ status = "Connecting" =>
       test["down"] \in {1, 2} \/ branch["down"] = 2
  /\ client = "in" => status # "Connecting" /\ branch["down"] # 2

Restarting ==
  /\ status = "Active" /\ msg["up"].type \in Timed
  /\ test["up"] \in 1 .. 3 \/ branch["up"] = 3

Clock ==
  status \in {"Connecting", "Active"} \/ branch["down"] = 2 =>
    /\ keepAlive = kept * 1000 /\ limit = (keepAlive * 3) \div 2
    /\ elapsed <= kept
    /\ elapsed <= unheard \/ Restarting

Keeps == NotLost /\ Answered /\ Clock

IInv == TypeOK /\ Work /\ Started /\ (kept \in 0 .. 65 => Keeps)
-----------------------------------------------------------------------------
Message == [type : MessageTypes, duration : UInt16]

LEMMA WidthFact == Width16 \in Nat /\ Width16 > 65000
BY DEF Width16

LEMMA ZeroFact == 0 \in UInt16 /\ Durations \subseteq UInt16
BY WidthFact, StatusAssumption DEF UInt16

LEMMA ModRange == ASSUME NEW a \in Nat, NEW b \in Nat \ {0} PROVE a % b \in 0 .. b - 1
OBVIOUS

LEMMA HalfRange ==
  ASSUME NEW a \in Nat, NEW b \in Nat, a < b PROVE (a * 3) \div 2 \in 0 .. (3 * b) \div 2
OBVIOUS

LEMMA KeepAliveType == ASSUME NEW d \in UInt16 PROVE KeepAliveMsec(d) \in UInt16
BY WidthFact, ModRange DEF KeepAliveMsec, UInt16

(* Up to 65 seconds the 16 bits hold every millisecond.                    *)
LEMMA KeepAliveExact == ASSUME NEW d \in 0 .. 65 PROVE KeepAliveMsec(d) = d * 1000
BY WidthFact DEF KeepAliveMsec

LEMMA LimitType ==
  ASSUME NEW k \in UInt16 PROVE (k * 3) \div 2 \in 0 .. (3 * Width16) \div 2
BY WidthFact, HalfRange DEF UInt16

(* What a branch of updateStatus() leaves of the types.                    *)
LEMMA EffectType ==
  ASSUME TypeOK, NEW k \in 1 .. 6, NEW m \in Message, Effect(k, m)
  PROVE  /\ status' \in Statuses /\ keepAlive' \in UInt16
         /\ limit' \in 0 .. (3 * Width16) \div 2 /\ elapsed' \in 0 .. (limit' \div 1000) + 1
<1> USE DEF TypeOK, Statuses
<1>1. m.duration \in UInt16 /\ KeepAliveMsec(m.duration) \in UInt16
  BY KeepAliveType DEF Message
<1>2. /\ (keepAlive * 3) \div 2 \in 0 .. (3 * Width16) \div 2
      /\ (KeepAliveMsec(m.duration) * 3) \div 2 \in 0 .. (3 * Width16) \div 2
  BY <1>1, LimitType
<1> HIDE DEF KeepAliveMsec
<1>3. CASE k = 1
  BY <1>1, <1>2, <1>3 DEF Effect, SetKeepAlive, Start
<1>4. CASE k = 2
  BY <1>4 DEF Effect, NoTimer, timerVars
<1>5. CASE k = 3
  BY <1>1, <1>2, <1>5 DEF Effect, Start, NoTimer, timerVars, Timed
<1>6. CASE k \in {4, 5}
  BY <1>1, <1>2, <1>6 DEF Effect, SetKeepAlive, Start, NoTimer, timerVars
<1>7. CASE k = 6
  BY <1>7 DEF Effect, NoTimer, timerVars
<1> QED BY <1>3, <1>4, <1>5, <1>6, <1>7

LEMMA InitTypes == Init => TypeOK /\ Work
<1> USE StatusAssumption DEF Init, Threads, Idle, NoMessage, UpTypes, DownTypes, NoPromise
<1>1. Init => TypeOK
  <2>1. (0 \div 1000) + 1 = 1 /\ 0 \in 0 .. (3 * Width16) \div 2
    BY WidthFact, HalfRange
  <2> QED BY <2>1, ZeroFact DEF TypeOK, Statuses, MessageTypes
<1>2. Init => Work
  BY DEF Work
<1> QED BY <1>1, <1>2

LEMMA HoldsTypes ==
  ASSUME NEW k \in 1 .. 5, NEW type, Holds(k, type)
  PROVE  /\ k = 1 => type = "CONNECT" /\ status \in {"Disconnected", "Lost"}
         /\ k = 2 => type = "CONNACK" /\ status = "Connecting"
BY DEF Holds

\* What a thread that takes a message leaves of the types.
LEMMA TakeTypes ==
  ASSUME TypeOK, Work, NEW t \in Threads, NEW m \in Message, Take(t, m),
         m.type # "none", t = "up" => m.type \in UpTypes, t = "down" => m.type \in DownTypes
  PROVE  /\ test' \in [Threads -> 0 .. 5] /\ branch' = branch
         /\ \A u \in Threads : test'[u] = 0 \/ branch'[u] = 0
         /\ msg' \in [Threads -> Message]
         /\ \A u \in Threads : Idle(u)' <=> msg'[u].type = "none"
         /\ \A u \in Threads : branch'[u] = 1 => msg'[u].type = "CONNECT"
         /\ \A u \in Threads : branch'[u] = 2 => msg'[u].type = "CONNACK"
         /\ msg'["up"].type \in UpTypes /\ msg'["down"].type \in DownTypes
         /\ t = "down" => Idle("up")' = Idle("up")
BY DEF TypeOK, Work, Take, Idle, Message, Threads

LEMMA NextTypes == ASSUME TypeOK, Work, [Next]_vars PROVE TypeOK' /\ Work'
<1> USE StatusAssumption
<1>a. ASSUME NEW t \in Threads PROVE msg[t] \in Message
  BY DEF TypeOK, Message
<1>b. due # <<>> => /\ Head(due) \in {"CONNACK", "PINGRESP"}
                    /\ Tail(due) \in Seq({"CONNACK", "PINGRESP"})
                    /\ Len(Tail(due)) = Len(due) - 1
  BY DEF TypeOK
<1>1. ASSUME NEW t \in Threads, Test(t) PROVE TypeOK' /\ Work'
  <2> USE DEF TypeOK, Work, Idle, Threads, timerVars, clientVars
  <2>1. CASE Holds(test[t], msg[t].type)
    <3>1. test[t] \in 1 .. 5
      BY <1>1 DEF Test
    <3>2. /\ test[t] = 1 => msg[t].type = "CONNECT"
          /\ test[t] = 2 => msg[t].type = "CONNACK"
      BY <2>1, <3>1, HoldsTypes
    <3> QED BY <1>1, <2>1, <3>1, <3>2 DEF Test
  <2>2. CASE ~Holds(test[t], msg[t].type)
    BY <1>1, <2>2 DEF Test
  <2> QED BY <2>1, <2>2
<1>2. ASSUME NEW t \in Threads, Act(t) PROVE TypeOK' /\ Work'
  <2>1. /\ status' \in Statuses /\ keepAlive' \in UInt16
        /\ limit' \in 0 .. (3 * Width16) \div 2 /\ elapsed' \in 0 .. (limit' \div 1000) + 1
    <3>1. Effect(branch[t], msg[t]) /\ branch[t] \in 1 .. 6
      BY <1>2 DEF Act, TypeOK
    <3> QED BY <3>1, <1>a, EffectType
  <2>2. /\ due' \in Seq({"CONNACK", "PINGRESP"}) /\ Len(due') <= MaxDue
        /\ Len(due') <= Len(due) \/ t = "up"
    BY <1>2 DEF Act, Replies, TypeOK, Work, Idle, Threads
  <2>3. /\ test' = test /\ branch' = [branch EXCEPT ![t] = 0]
        /\ msg' = [msg EXCEPT ![t] = NoMessage]
        /\ client' \in {"in", "waiting", "asleep", "waking", client}
        /\ UNCHANGED <<found, published>>
        /\ branch[t] # 0
    BY <1>2 DEF Act, Hears
  <2>6. kept' \in UInt16 \cup {NoPromise} /\ unheard' \in UInt16
    BY <1>2, <1>a, ZeroFact DEF Act, Promise, TypeOK, Message
  <2>4. TypeOK'
    <3>1. NoMessage \in Message
      BY ZeroFact DEF NoMessage, Message, MessageTypes
    <3>2. msg' \in [Threads -> Message]
      BY <2>3, <3>1 DEF TypeOK, Message
    <3>3. branch' \in [Threads -> 0 .. 6] /\ \A u \in Threads : test'[u] = 0 \/ branch'[u] = 0
      BY <2>3 DEF TypeOK
    <3>4. /\ client' \in {"out", "waiting", "in", "asleep", "waking", "gone"}
          /\ test' \in [Threads -> 0 .. 5] /\ found' \in {"lost", "nothing"}
          /\ published' \in 0 .. MaxPublishes
      BY <2>3 DEF TypeOK
    <3> QED BY <2>1, <2>2, <2>6, <3>2, <3>3, <3>4 DEF TypeOK, Message
  <2>5. Work'
    BY <2>2, <2>3 DEF TypeOK, Work, Idle, Threads, NoMessage, UpTypes, DownTypes
  <2> QED BY <2>4, <2>5
<1>3. CASE Reply
  <2>1. Msg(Head(due), 0) \in Message /\ Msg(Head(due), 0).type \in DownTypes \ {"none"}
    BY ZeroFact, <1>b, <1>3 DEF Reply, Msg, Message, MessageTypes, DownTypes
  <2>2. Take("down", Msg(Head(due), 0))
    BY <1>3 DEF Reply
  <2> QED BY <1>3, <1>b, <2>1, <2>2, TakeTypes
          DEF Reply, TypeOK, Work, Message, Threads, timerVars, clientVars
<1>4. CASE Publish
  <2>1. Msg("PUBLISH", 0) \in Message /\ Msg("PUBLISH", 0).type \in DownTypes \ {"none"}
    BY ZeroFact DEF Msg, Message, MessageTypes, DownTypes, Timed
  <2>2. Take("down", Msg("PUBLISH", 0))
    BY <1>4 DEF Publish
  <2> QED BY <1>4, <2>1, <2>2, TakeTypes DEF Publish, TypeOK, Work, Message, Threads, timerVars
<1>5. CASE CheckTimeover \/ MarkLost \/ BrokerError
  <2>1. CASE CheckTimeover
    BY <2>1 DEF CheckTimeover, TypeOK, Work, Statuses, Idle, timerVars, threadVars, clientVars
  <2>2. CASE MarkLost
    BY <2>2 DEF MarkLost, TypeOK, Work, Statuses, Idle, timerVars, threadVars, clientVars
  <2>3. CASE BrokerError
    <3>1. due' \in Seq({"CONNACK", "PINGRESP"}) /\ Len(due') <= Len(due)
      <4>1. <<>> \in Seq({"CONNACK", "PINGRESP"}) /\ Len(<<>>) = 0 /\ Len(due) \in Nat
        BY DEF TypeOK
      <4>2. due' = due \/ due' = <<>>
        BY <2>3 DEF BrokerError
      <4>3. CASE due' = due
        BY <4>1, <4>3 DEF TypeOK
      <4>4. CASE due' = <<>>
        BY <4>1, <4>4
      <4> QED BY <4>2, <4>3, <4>4
    <3>2. Len(due') \in Nat /\ Len(due) \in Nat
      BY <3>1 DEF TypeOK
    <3>3. /\ status' = "Disconnected"
          /\ UNCHANGED <<keepAlive, limit, elapsed, test, branch, msg, found, client, kept,
                        unheard, published>>
      BY <2>3 DEF BrokerError, timerVars, threadVars, clientVars
    <3> QED BY <3>1, <3>2, <3>3 DEF TypeOK, Work, Statuses, Idle
  <2> QED BY <1>5, <2>1, <2>2, <2>3
<1>6. ASSUME NEW type \in UpTypes \ {"none"}, NEW d \in UInt16,
             NEW c \in {"out", "waiting", "in", "asleep", "waking"}, Says(Msg(type, d), c),
             kept' \in {kept, NoPromise}, unheard' \in {unheard, 0}
      PROVE  TypeOK' /\ Work'
  <2>1. Take("up", Msg(type, d))
    BY <1>6 DEF Says
  <2>2. Msg(type, d) \in Message /\ Msg(type, d).type = type
    BY DEF Msg, Message, MessageTypes, UpTypes
  <2>3. kept' \in UInt16 \cup {NoPromise} /\ unheard' \in UInt16
    BY <1>6, ZeroFact DEF TypeOK
  <2>4. test' \in [Threads -> 0 .. 5] /\ branch' = branch
    BY <2>1, <2>2, <1>6, TakeTypes DEF Threads
  <2> QED BY <1>6, <2>1, <2>2, <2>3, <2>4, TakeTypes
          DEF Says, TypeOK, Work, Message, Threads, timerVars
<1>7. CASE Connect
  <2>1. PICK d \in Durations : Says(Msg("CONNECT", d), "waiting")
    BY <1>7 DEF Connect
  <2> QED BY <1>7, <2>1, <1>6, ZeroFact DEF Connect, UpTypes
<1>8. CASE Talk
  <2>1. PICK type \in Timed \cup Untimed \cup Will, c \in {"in", "waiting"} : Says(Msg(type, 0), c)
    BY <1>8 DEF Talk
  <2>2. type \in UpTypes \ {"none"}
    BY DEF UpTypes, Timed, Untimed, Will
  <2>3. kept' = kept /\ unheard' \in {unheard, 0}
    BY <1>8 DEF Talk, Promise
  <2> QED BY <2>1, <2>2, <2>3, <1>6, ZeroFact
<1>9. CASE Leave
  <2>1. PICK d \in Durations \cup {0}, c \in {"out", "asleep"} : Says(Msg("DISCONNECT", d), c)
    BY <1>9 DEF Leave
  <2>2. kept' = NoPromise /\ unheard' = 0
    BY <1>9 DEF Leave, Promise
  <2> QED BY <2>1, <2>2, <1>6, ZeroFact DEF UpTypes
<1>10. CASE Wake
  <2>1. "PINGREQ" \in UpTypes \ {"none"}
    BY DEF UpTypes, Timed
  <2> QED BY <1>10, <2>1, <1>6, ZeroFact DEF Wake
<1>11. CASE Vanish
  BY <1>11, ZeroFact DEF Vanish, Promise, TypeOK, Work, Idle, timerVars, threadVars
<1>12. CASE Tick
  <2>1. PICK s \in Seconds :
          /\ elapsed' = IF elapsed + s > limit \div 1000 THEN (limit \div 1000) + 1
                        ELSE elapsed + s
          /\ IF unheard + s <= kept THEN Promise(kept, unheard + s) ELSE Promise(NoPromise, 0)
    BY <1>12 DEF Tick
  <2>2. s \in Nat /\ s > 0
    OBVIOUS
  <2>3. elapsed' \in 0 .. (limit' \div 1000) + 1
    <3>1. elapsed + s \in Nat /\ limit \div 1000 \in Nat
      BY <2>2, WidthFact DEF TypeOK, UInt16
    <3>2. elapsed' \in 0 .. (limit \div 1000) + 1
      BY <2>1, <3>1
    <3>3. limit' = limit
      BY <1>12 DEF Tick
    <3> QED BY <3>2, <3>3
  <2>4. kept' \in UInt16 \cup {NoPromise} /\ unheard' \in UInt16
    <3>1. unheard \in UInt16 /\ kept \in UInt16 \cup {NoPromise}
      BY DEF TypeOK
    <3>2. unheard + s <= kept => unheard + s \in UInt16
      BY <2>2, <3>1, WidthFact DEF UInt16, NoPromise
    <3> QED BY <2>1, <3>1, <3>2, ZeroFact DEF Promise
  <2> QED BY <1>12, <2>3, <2>4 DEF Tick, TypeOK, Work, Idle, threadVars
<1>13. CASE UNCHANGED vars
  BY <1>13 DEF vars, TypeOK, Work, Idle, timerVars, threadVars, clientVars
<1> QED
  BY <1>1, <1>2, <1>3, <1>4, <1>5, <1>7, <1>8, <1>9, <1>10, <1>11, <1>12, <1>13 DEF Next

-----------------------------------------------------------------------------
(* Only a CONNECT makes the status Connecting, only a CONNACK makes it      *)
(* Active, no message makes it Lost, and only two kinds of message in      *)
(* branch 3 touch the timer otherwise.                                     *)
LEMMA EffectStatus ==
  ASSUME TypeOK, NEW k \in 1 .. 6, NEW m \in Message, m.type # "CONNECT", k # 1,
         k = 2 => m.type = "CONNACK", Effect(k, m)
  PROVE  /\ status' = "Connecting" => status = "Connecting" /\ k # 2
         /\ status' = "Lost" => status = "Lost"
         /\ status' = "Active" => status = "Active" \/ k = 2
         /\ k = 2 => status' = "Active"
         /\ ~(k = 3 /\ m.type \in Timed \cup {"DISCONNECT"}) => UNCHANGED timerVars
         /\ k = 3 /\ m.type \in Timed =>
              status' = status /\ keepAlive' = keepAlive /\ Start(keepAlive)
         /\ k = 3 /\ m.type = "DISCONNECT" => status' \in {"Disconnected", "Asleep"}
         /\ m.type \in {"CONNACK", "PUBLISH"} /\ k # 2 => status' = status
         /\ k = 6 => status' = status
<1>1. CASE k = 2
  BY <1>1 DEF Effect, NoTimer
<1>2. CASE k = 3
  BY <1>2 DEF Effect, NoTimer, Timed
<1>3. CASE k \in {4, 5}
  BY <1>3 DEF Effect, NoTimer
<1>4. CASE k = 6
  BY <1>4 DEF Effect, NoTimer
<1> QED BY <1>1, <1>2, <1>3, <1>4

LEMMA MessageOf ==
  ASSUME TypeOK, Work, NEW t \in Threads, branch[t] # 0
  PROVE  /\ msg[t] \in Message /\ branch[t] \in 1 .. 6 /\ test[t] = 0
         /\ branch[t] = 1 => msg[t].type = "CONNECT"
         /\ branch[t] = 2 => msg[t].type = "CONNACK"
BY DEF TypeOK, Work, Message

LEMMA NextStarted == ASSUME TypeOK, Work, Started, [Next]_vars PROVE Started'
<1> USE DEF Started, Threads
<1>1. ASSUME NEW t \in Threads, Test(t) PROVE Started'
  <2>1. test[t] \in 1 .. 5 /\ status' = status
    BY <1>1 DEF Test, TypeOK
  <2>2. test[t] # 2 /\ Holds(test[t], msg[t].type) => status # "Connecting"
    BY <2>1 DEF Holds
  <2>3. t = "up" => ~Holds(2, msg[t].type)
    BY DEF Holds, Work, UpTypes, Timed, Untimed, Will
  <2> QED BY <1>1, <2>1, <2>2, <2>3 DEF Test, TypeOK
<1>2. CASE Act("up")
  BY <1>2 DEF Act, TypeOK
<1>3. CASE Act("down")
  <2>1. branch["down"] # 0 /\ branch'["up"] = branch["up"]
    BY <1>3 DEF Act, TypeOK
  <2>2. msg["down"].type # "CONNECT"
    BY DEF Work, DownTypes
  <2>3. status' = "Connecting" => status = "Connecting"
    BY <1>3, <2>1, <2>2, MessageOf, EffectStatus DEF Act
  <2> QED BY <2>1, <2>3
<1>4. CASE Reply \/ Publish \/ Connect \/ Talk \/ Leave \/ Wake
  BY <1>4 DEF Reply, Publish, Connect, Talk, Leave, Wake, Says, Take
<1>5. CASE CheckTimeover \/ MarkLost \/ BrokerError \/ Vanish \/ Tick \/ UNCHANGED vars
  BY <1>5 DEF CheckTimeover, MarkLost, BrokerError, Vanish, Tick, threadVars, vars
<1> QED BY <1>1, <1>2, <1>3, <1>4, <1>5 DEF Next
-----------------------------------------------------------------------------
\* The facts a step starts from that leaves the promise as it is.
Promised == TypeOK /\ Work /\ Started /\ Keeps /\ kept \in 0 .. 65 /\ kept' = kept

(* The timer is longer than the duration it was started for.               *)
LEMMA LongEnough ==
  ASSUME NEW d \in 0 .. 65
  PROVE  ((d * 1000) * 3) \div 2 >= d * 1000 /\ (((d * 1000) * 3) \div 2) \div 1000 >= d
OBVIOUS

\* A thread goes on to the next test, or leaves the chain for a branch.
LEMMA TestKeeps == ASSUME Promised, NEW t \in Threads, Test(t) PROVE Keeps'
<1> USE DEF Threads
<1>1. /\ UNCHANGED <<status, keepAlive, limit, elapsed, msg, found, client, kept, unheard>>
      /\ test[t] \in 1 .. 5 /\ branch[t] = 0
      /\ \A u \in Threads \ {t} : branch'[u] = branch[u] /\ test'[u] = test[u]
      /\ IF Holds(test[t], msg[t].type) THEN test'[t] = 0 /\ branch'[t] = test[t]
         ELSE IF test[t] < 5 THEN test'[t] = test[t] + 1 /\ branch'[t] = 0
         ELSE test'[t] = 0 /\ branch'[t] = 6
  BY DEF Promised, Test, TypeOK, timerVars, clientVars
<1>2. ~Holds(2, msg["up"].type)
  BY DEF Holds, Promised, Work, UpTypes, Timed, Untimed, Will
<1>3. branch'["down"] = 2 => branch["down"] = 2 \/ (status = "Connecting" /\ t = "down")
  BY <1>1 DEF Holds
<1>4. branch'["down"] = 2 =>
        status \in {"Connecting", "Disconnected"} /\ branch'["up"] \in {0, 1, 6}
  <2>1. CASE t = "down"
    <3>1. branch["up"] \in 0 .. 6
      BY DEF Promised, TypeOK
    <3> QED BY <1>1, <1>3, <2>1, <3>1 DEF Promised, Started, Keeps, Answered
  <2>2. CASE t = "up" /\ branch["down"] = 2
    <3>1. status \in {"Connecting", "Disconnected"}
      BY <2>2 DEF Promised, Keeps, Answered
    <3>2. test["up"] \in {3, 4, 5} => ~Holds(test["up"], msg["up"].type)
      BY <3>1 DEF Holds
    <3> QED BY <1>1, <1>2, <2>2, <3>1, <3>2
  <2> QED BY <1>1, <2>1, <2>2
<1>5. msg["down"].type = "CONNACK" /\ status = "Connecting" =>
        test'["down"] \in {1, 2} \/ branch'["down"] = 2
  <2>1. CASE t = "down" /\ msg["down"].type = "CONNACK" /\ status = "Connecting"
    <3>1. test["down"] \in {1, 2}
      BY <1>1, <2>1 DEF Promised, Keeps, Answered
    <3>2. ~Holds(1, "CONNACK") /\ Holds(2, "CONNACK")
      BY <2>1 DEF Holds
    <3> QED BY <1>1, <2>1, <3>1, <3>2
  <2> QED BY <1>1, <2>1 DEF Promised, Keeps, Answered
<1>6. Answered'
  BY <1>1, <1>3, <1>4, <1>5 DEF Promised, Keeps, Answered
<1>7. Restarting => Restarting'
  <2>1. status = "Active" =>
          Holds(3, msg["up"].type) /\ ~Holds(1, msg["up"].type) /\ ~Holds(2, msg["up"].type)
    BY DEF Holds
  <2> QED BY <1>1, <2>1 DEF Restarting
<1>8. Clock'
  BY <1>1, <1>3, <1>7 DEF Promised, Keeps, Clock
<1> QED BY <1>1, <1>6, <1>8 DEF Promised, Keeps, NotLost

\* The control task takes a message for the client.
LEMMA DownTaken ==
  ASSUME Promised, NEW m \in Message, Take("down", m),
         UNCHANGED <<status, timerVars, found, client, unheard>>
  PROVE  Keeps'
<1>1. /\ msg'["up"] = msg["up"] /\ test'["down"] = 1 /\ test'["up"] = test["up"]
      /\ branch' = branch /\ branch["down"] = 0
  BY DEF Promised, TypeOK, Take, Threads, Idle
<1> QED BY <1>1 DEF Promised, Keeps, NotLost, Answered, Clock, Restarting, timerVars

LEMMA ReplyKeeps == ASSUME Promised, Reply \/ Publish PROVE Keeps'
<1>1. CASE Reply
  <2>1. Head(due) \in {"CONNACK", "PINGRESP"}
    BY <1>1 DEF Reply, Promised, TypeOK
  <2>2. Msg(Head(due), 0) \in Message
    BY <2>1, ZeroFact DEF Msg, Message, MessageTypes
  <2> QED BY <1>1, <2>2, DownTaken DEF Reply, clientVars
<1>2. CASE Publish
  <2>1. Msg("PUBLISH", 0) \in Message
    BY ZeroFact DEF Msg, Message, MessageTypes, Timed
  <2> QED BY <1>2, <2>1, DownTaken DEF Publish
<1> QED BY <1>1, <1>2

\* What Act does whichever branch it is in.
Passed(t) ==
  /\ branch[t] \in 1 .. 6 /\ test[t] = 0 /\ msg[t] \in Message /\ Effect(branch[t], msg[t])
  /\ test' = test /\ found' = found
  /\ branch'[t] = 0 /\ msg'[t].type = "none"
  /\ \A u \in Threads \ {t} : branch'[u] = branch[u] /\ msg'[u] = msg[u]

LEMMA ActPassed == ASSUME TypeOK, Work, NEW t \in Threads, Act(t) PROVE Passed(t)
<1>1. branch[t] # 0
  BY DEF Act
<1> QED BY <1>1, MessageOf DEF Act, Passed, TypeOK, NoMessage

\* The gateway takes a CONNECT: the promise begins.
LEMMA TakesKeeps ==
  ASSUME TypeOK, Work, Act("up"), Takes("up"), kept' \in 0 .. 65 PROVE Keeps'
<1>1. /\ Passed("up") /\ client' = client
      /\ unheard' = 0 /\ kept' = (IF Undisturbed THEN msg["up"].duration ELSE NoPromise)
  BY ActPassed DEF Act, Promise, Threads
<1>2. Undisturbed /\ kept' = msg["up"].duration
  BY <1>1 DEF NoPromise
<1>3. SetKeepAlive(msg["up"].duration) /\ status' = "Connecting"
  BY <1>1 DEF Passed, Effect, Takes
<1>4. /\ keepAlive' = kept' * 1000 /\ limit' = (keepAlive' * 3) \div 2 /\ elapsed' = 0
  BY <1>2, <1>3, KeepAliveExact DEF SetKeepAlive, Start
<1>5. /\ msg'["down"].type # "CONNACK" /\ branch'["down"] # 2 /\ client' = "waiting"
      /\ found' = "nothing"
  BY <1>1, <1>2 DEF Undisturbed, Passed, Threads, Work
<1>6. Answered' /\ NotLost'
  BY <1>1, <1>3, <1>5 DEF NotLost, Answered
<1>7. Clock'
  <2>1. elapsed' <= kept' /\ elapsed' <= unheard'
    BY <1>1, <1>4
  <2> QED BY <1>4, <2>1 DEF Clock
<1> QED BY <1>6, <1>7 DEF Keeps

\* The client's message goes up, with what it does to the status and the timer.
LEMMA UpKeeps == ASSUME Promised, Act("up"), ~Takes("up") PROVE Keeps'
<1> DEFINE k == branch["up"]
           m == msg["up"]
<1>1. /\ Passed("up") /\ client' = client /\ unheard' = unheard
      /\ branch'["down"] = branch["down"] /\ msg'["down"] = msg["down"]
      /\ test'["down"] = test["down"] /\ branch'["up"] = 0
  BY ActPassed DEF Act, Threads, Promised, Passed
<1>2. k # 1 /\ k # 2
  BY DEF Promised, Work, Threads, Takes, UpTypes, Timed, Untimed, Will
<1>3. CASE m.type = "CONNECT"
  <2>1. k \in {3, 6}
    BY <1>1, <1>2, <1>3 DEF Passed, Takes
  <2>2. status' = status /\ UNCHANGED <<keepAlive, limit, elapsed>>
    BY <1>1, <1>3, <2>1 DEF Passed, Effect, Timed, NoTimer, timerVars
  <2>3. ~Restarting
    BY <1>3 DEF Restarting, Timed
  <2> QED BY <1>1, <2>2, <2>3 DEF Promised, Keeps, NotLost, Answered, Clock, Passed
<1>4. CASE m.type # "CONNECT"
  <2>1. /\ status' = "Connecting" => status = "Connecting"
        /\ status' = "Lost" => status = "Lost"
        /\ status' = "Active" => status = "Active"
        /\ ~(k = 3 /\ m.type \in Timed \cup {"DISCONNECT"}) => UNCHANGED timerVars
        /\ k = 3 /\ m.type \in Timed =>
             status' = status /\ keepAlive' = keepAlive /\ Start(keepAlive)
        /\ k = 3 /\ m.type = "DISCONNECT" => status' \in {"Disconnected", "Asleep"}
        /\ k = 6 => status' = status
    BY <1>1, <1>2, <1>4, EffectStatus DEF Passed, Promised
  <2>2. branch["down"] = 2 => k = 6
    BY <1>1, <1>2 DEF Promised, Keeps, Answered, Passed
  <2>3. NotLost' /\ Answered'
    BY <1>1, <2>1, <2>2 DEF Promised, Keeps, NotLost, Answered, Passed
  <2>4. Clock'
    <3>1. CASE k = 3 /\ m.type \in Timed
      <4>1. /\ status' = status /\ keepAlive' = keepAlive /\ elapsed' = 0
            /\ limit' = (keepAlive * 3) \div 2
        BY <2>1, <3>1 DEF Start
      <4>2. unheard \in Nat
        BY WidthFact DEF Promised, TypeOK, UInt16
      <4> QED BY <1>1, <4>1, <4>2 DEF Promised, Keeps, Clock
    <3>2. CASE k = 3 /\ m.type = "DISCONNECT"
      BY <1>1, <2>1, <2>2, <3>2 DEF Clock
    <3>3. CASE ~(k = 3 /\ m.type \in Timed \cup {"DISCONNECT"})
      <4>1. /\ UNCHANGED <<keepAlive, limit, elapsed>>
            /\ Restarting => FALSE
        BY <1>1, <2>1, <3>3 DEF timerVars, Restarting, Passed
      <4> QED BY <1>1, <2>1, <4>1 DEF Promised, Keeps, Clock
    <3> QED BY <3>1, <3>2, <3>3
  <2> QED BY <2>3, <2>4 DEF Keeps
<1> QED BY <1>3, <1>4

\* The control task's message goes down to the client.
LEMMA DownKeeps == ASSUME Promised, Act("down") PROVE Keeps'
<1> DEFINE k == branch["down"]
           m == msg["down"]
<1>1. /\ Passed("down") /\ unheard' = unheard
      /\ branch'["up"] = branch["up"] /\ msg'["up"] = msg["up"]
      /\ test'["up"] = test["up"] /\ branch'["down"] = 0 /\ msg'["down"].type = "none"
  BY ActPassed DEF Act, Takes, Threads, Promised, Passed
<1>2. /\ m.type \in {"CONNACK", "PINGRESP", "PUBLISH"} /\ k # 1
      /\ k = 2 => m.type = "CONNACK"
  BY <1>1 DEF Promised, Work, Threads, DownTypes, Idle, Passed
<1>3. client' = "in" => client = "in" \/ m.type = "CONNACK"
  BY DEF Act, Hears
<1>4. /\ status' = "Connecting" => status = "Connecting" /\ k # 2
      /\ status' = "Lost" => status = "Lost"
      /\ status' = "Active" => status = "Active" \/ k = 2
      /\ k = 2 => status' = "Active"
      /\ ~(k = 3 /\ m.type = "PUBLISH") => UNCHANGED <<keepAlive, limit, elapsed>>
      /\ k = 3 /\ m.type = "PUBLISH" =>
           /\ status' = status /\ keepAlive' = keepAlive
           /\ limit' = (keepAlive * 3) \div 2 /\ elapsed' = 0
  BY <1>1, <1>2, EffectStatus DEF Passed, Promised, Start, Timed, timerVars
<1>5. NotLost' /\ Answered'
  <2>1. m.type = "CONNACK" /\ status = "Connecting" => k = 2
    BY <1>1 DEF Promised, Keeps, Answered, Passed
  <2>2. client' = "in" => status' # "Connecting"
    BY <1>3, <1>4, <2>1 DEF Promised, Keeps, Answered
  <2> QED BY <1>1, <1>4, <2>2 DEF Promised, Keeps, NotLost, Answered, Passed
<1>6. Clock'
  <2>1. CASE k = 3 /\ m.type = "PUBLISH"
    <3>1. unheard \in Nat
      BY WidthFact DEF Promised, TypeOK, UInt16
    <3> QED BY <1>1, <1>4, <2>1, <3>1 DEF Promised, Keeps, Clock
  <2>2. CASE ~(k = 3 /\ m.type = "PUBLISH")
    <3>1. Restarting /\ status' = "Active" => Restarting'
      BY <1>1 DEF Restarting
    <3>2. Restarting => k # 2 /\ (status' = "Connecting" => FALSE)
      BY <1>4 DEF Restarting, Promised, Keeps, Answered
    <3> QED BY <1>1, <1>4, <2>2, <3>1, <3>2 DEF Promised, Keeps, Clock
  <2> QED BY <2>1, <2>2
<1> QED BY <1>5, <1>6 DEF Keeps

\* Time up is impossible, and so is a client that has been found lost.
LEMMA CheckKeeps == ASSUME Promised, CheckTimeover \/ MarkLost \/ BrokerError PROVE Keeps'
<1>1. ~MarkLost
  BY DEF MarkLost, Promised, Keeps, NotLost
<1>2. ~CheckTimeover
  <2> SUFFICES ASSUME CheckTimeover PROVE FALSE
    OBVIOUS
  <2>1. /\ elapsed <= kept /\ elapsed \in Int /\ limit = ((kept * 1000) * 3) \div 2
    BY DEF CheckTimeover, Promised, Keeps, Clock, TypeOK
  <2>2. limit >= kept * 1000 /\ kept \in 0 .. 65
    BY <2>1, LongEnough DEF Promised
  <2>3. elapsed * 1000 > limit
    BY DEF CheckTimeover, TimeUp
  <2> QED BY <2>1, <2>2, <2>3
<1>3. CASE BrokerError
  <2>1. /\ status' = "Disconnected"
        /\ UNCHANGED <<keepAlive, limit, elapsed, test, branch, msg, found, client, unheard>>
    BY <1>3 DEF BrokerError, timerVars, threadVars, clientVars
  <2>2. branch["down"] = 2 => ~Restarting
    BY DEF Promised, Keeps, Answered, Restarting
  <2> QED BY <2>1, <2>2 DEF Promised, Keeps, NotLost, Answered, Clock
<1> QED BY <1>1, <1>2, <1>3

\* The client speaks.  If it is in, an Active status will see what it says.
LEMMA SaysKeeps ==
  ASSUME Promised, NEW m, NEW c, Says(m, c), c = "in" => client = "in",
         \/ unheard' = unheard
         \/ unheard' = 0 /\ client = "in" /\ m.type \in Timed
  PROVE  Keeps'
<1>1. /\ Idle("up") /\ test'["up"] = 1 /\ branch' = branch /\ msg'["up"] = m
      /\ msg'["down"] = msg["down"] /\ test'["down"] = test["down"] /\ client' = c
      /\ UNCHANGED <<status, keepAlive, limit, elapsed, found>>
  BY DEF Says, Take, Promised, TypeOK, Threads, Idle, timerVars
<1>2. NotLost' /\ Answered'
  BY <1>1 DEF Promised, Keeps, NotLost, Answered
<1>3. ~Restarting
  BY <1>1 DEF Promised, Work, Threads, Restarting, Timed
<1>4. client = "in" /\ m.type \in Timed /\ status = "Active" => Restarting'
  BY <1>1 DEF Restarting
<1>5. Clock'
  <2>1. CASE unheard' = unheard
    BY <1>1, <1>3, <2>1 DEF Promised, Keeps, Clock
  <2>2. CASE unheard' = 0 /\ client = "in" /\ m.type \in Timed
    <3>1. status # "Connecting" /\ branch["down"] # 2
      BY <2>2 DEF Promised, Keeps, Answered
    <3> QED BY <1>1, <1>4, <2>2, <3>1 DEF Promised, Keeps, Clock
  <2> QED BY <2>1, <2>2
<1> QED BY <1>2, <1>5 DEF Keeps

LEMMA ClientKeeps == ASSUME Promised, Connect \/ Talk \/ Wake PROVE Keeps'
<1>1. CASE Connect
  <2>1. PICK d \in Durations : Says(Msg("CONNECT", d), "waiting")
    BY <1>1 DEF Connect
  <2> QED BY <1>1, <2>1, SaysKeeps DEF Connect
<1>2. CASE Talk
  <2>1. CASE /\ client = "in" /\ Promise(kept, 0)
             /\ \E type \in Sent \cap Timed : Says(Msg(type, 0), client)
    <3>1. PICK type \in Timed : Says(Msg(type, 0), client)
      BY <2>1
    <3>2. Msg(type, 0).type = type
      BY DEF Msg
    <3> QED BY <2>1, <3>1, <3>2, SaysKeeps DEF Promise
  <2>2. CASE unheard' = unheard /\ \E type \in Sent : Says(Msg(type, 0), client)
    <3>1. PICK type \in Sent : Says(Msg(type, 0), client)
      BY <2>2
    <3> QED BY <2>2, <3>1, SaysKeeps
  <2> QED BY <1>2, <2>1, <2>2 DEF Talk
<1>3. CASE Wake
  BY <1>3, SaysKeeps DEF Wake
<1> QED BY <1>1, <1>2, <1>3

\* The clock ticks for the client as for the timer.
LEMMA TickKeeps == ASSUME Promised, Tick PROVE Keeps'
<1>1. /\ Idle("up")
      /\ UNCHANGED <<status, keepAlive, limit, test, branch, msg, found, client>>
  BY DEF Tick, threadVars
<1>2. PICK s \in Seconds :
        /\ elapsed' = IF elapsed + s > limit \div 1000 THEN (limit \div 1000) + 1
                      ELSE elapsed + s
        /\ IF unheard + s <= kept THEN Promise(kept, unheard + s) ELSE Promise(NoPromise, 0)
  BY DEF Tick
<1>3. unheard + s <= kept /\ unheard' = unheard + s
  BY <1>2 DEF Promised, Promise, NoPromise
<1>4. NotLost' /\ Answered'
  BY <1>1 DEF Promised, Keeps, NotLost, Answered
<1>5. ~Restarting
  BY <1>1 DEF Promised, Work, Threads, Restarting, Timed
<1>6. Clock'
  <2> SUFFICES ASSUME status \in {"Connecting", "Active"} \/ branch["down"] = 2
               PROVE  /\ keepAlive = kept * 1000 /\ limit = (keepAlive * 3) \div 2
                      /\ elapsed' <= kept /\ elapsed' <= unheard'
    BY <1>1 DEF Clock, Promised
  <2>1. /\ keepAlive = kept * 1000 /\ limit = ((kept * 1000) * 3) \div 2 /\ elapsed <= unheard
    BY <1>5 DEF Promised, Keeps, Clock
  <2>2. limit \div 1000 >= kept /\ limit \div 1000 \in Int
    BY <2>1, LongEnough DEF Promised
  <2>3. elapsed \in Int /\ unheard \in Int /\ s \in Int /\ kept \in Int
    BY StatusAssumption, WidthFact DEF Promised, TypeOK, UInt16
  <2>4. elapsed + s <= kept
    BY <1>3, <2>1, <2>3
  <2>5. elapsed' = elapsed + s
    BY <1>2, <2>2, <2>3, <2>4
  <2> QED BY <1>3, <2>1, <2>3, <2>4, <2>5
<1> QED BY <1>4, <1>6 DEF Keeps

LEMMA NextKeeps == ASSUME IInv, [Next]_vars, kept' \in 0 .. 65 PROVE Keeps'
<1>a. CASE Act("up") /\ Takes("up")
  BY <1>a, TakesKeeps DEF IInv
<1>b. CASE ~(Act("up") /\ Takes("up"))
  <2>1. kept' = kept /\ kept \in 0 .. 65
    <3>1. ASSUME NEW t \in Threads, Act(t) PROVE kept' = kept
      BY <1>b, <3>1 DEF Act, Takes, Threads
    <3>2. CASE \E t \in Threads : Test(t)
      BY <3>2 DEF Test, clientVars
    <3>3. CASE Reply \/ Publish \/ CheckTimeover \/ MarkLost \/ BrokerError \/ UNCHANGED vars
      BY <3>3 DEF Reply, Publish, CheckTimeover, MarkLost, BrokerError, vars, clientVars
    <3>4. CASE Connect \/ Talk \/ Leave \/ Wake \/ Vanish \/ Tick
      BY <3>4 DEF Connect, Talk, Leave, Wake, Vanish, Tick, Promise, NoPromise
    <3> QED BY <3>1, <3>2, <3>3, <3>4 DEF Next
  <2>2. Promised
    BY <2>1 DEF IInv, Promised
  <2>3. ~Leave /\ ~Vanish
    BY DEF Leave, Vanish, Promise, NoPromise
  <2>4. ASSUME NEW t \in Threads, Act(t) PROVE Keeps'
    BY <1>b, <2>2, <2>4, UpKeeps, DownKeeps DEF Threads
  <2>5. CASE UNCHANGED vars
    <3>1. UNCHANGED <<status, keepAlive, limit, elapsed, test, branch, msg, found, client,
                      unheard>>
      BY <2>5 DEF vars, timerVars, threadVars, clientVars
    <3> QED BY <2>2, <3>1 DEF Promised, Keeps, NotLost, Answered, Clock, Restarting
  <2> QED
    BY <2>2, <2>3, <2>4, <2>5, TestKeeps, ReplyKeeps, CheckKeeps, ClientKeeps, TickKeeps DEF Next
<1> QED BY <1>a, <1>b

(* The types, in particular the width of the keep-alive and of the timer.  *)
THEOREM TypeCorrect == Spec => []TypeOK
<1>1. Init => TypeOK /\ Work
  BY InitTypes
<1>2. TypeOK /\ Work /\ [Next]_vars => (TypeOK /\ Work)'
  BY NextTypes
<1> QED BY <1>1, <1>2, PTL DEF Spec

(* A client that keeps to a duration of up to 65 seconds which the gateway *)
(* took for it is never taken for lost, however the threads interleave in  *)
(* updateStatus() and whatever else it sends.                              *)
THEOREM NeverTakenForLost == Spec => []TalkingNeverLost
<1>1. Init => IInv
  <2> SUFFICES ASSUME Init PROVE IInv
    OBVIOUS
  <2>1. Started /\ kept \notin 0 .. 65
    BY DEF Init, Started, Threads, NoPromise
  <2> QED BY <2>1, InitTypes DEF IInv
<1>2. IInv /\ [Next]_vars => IInv'
  BY NextTypes, NextStarted, NextKeeps DEF IInv
<1>3. IInv => TalkingNeverLost
  BY DEF IInv, Keeps, NotLost, TalkingNeverLost
<1> QED BY <1>1, <1>2, <1>3, PTL DEF Spec

LEMMA WidthBounds == Width16 \in Nat /\ 65 * 1000 < Width16 /\ Width16 < 66 * 1000
BY DEF Width16

LEMMA ModOnce ==
  ASSUME NEW a \in Nat, NEW b \in Nat, 0 < b, b <= a, a < b + b PROVE a % b = a - b
OBVIOUS

(* No longer duration would do: from 66 seconds on the timer, whose        *)
(* milliseconds setKeepAlive() has cut to 16 bits, is shorter than the     *)
(* duration, and a client that keeps to it can be taken for lost.          *)
THEOREM LongerNeverKept ==
  \A d \in UInt16 : d > 65 => (KeepAliveMsec(d) * 3) \div 2 < d * 1000
<1>a. SUFFICES ASSUME NEW d \in UInt16, d > 65
               PROVE  (KeepAliveMsec(d) * 3) \div 2 < d * 1000
  OBVIOUS
<1>1. d \in Nat /\ 66 <= d
  BY <1>a, WidthBounds DEF UInt16
<1>2. CASE d >= 99
  <2>1. ASSUME NEW k \in UInt16 PROVE (k * 3) \div 2 < 99 * 1000
    <3>1. k \in Nat /\ k < 66 * 1000
      BY WidthBounds DEF UInt16
    <3> QED BY <3>1
  <2>2. (KeepAliveMsec(d) * 3) \div 2 < 99 * 1000
    BY <2>1, KeepAliveType
  <2>3. KeepAliveMsec(d) \in Int
    BY KeepAliveType, WidthBounds DEF UInt16
  <2> HIDE DEF KeepAliveMsec
  <2> QED BY <1>1, <1>2, <2>2, <2>3
<1>3. CASE d < 99
  <2>1. KeepAliveMsec(d) = d * 1000 - Width16
    <3>1. d * 1000 \in Nat /\ Width16 <= d * 1000 /\ d * 1000 < Width16 + Width16
      BY <1>1, <1>3, WidthBounds
    <3> QED BY <3>1, WidthBounds, ModOnce DEF KeepAliveMsec
  <2>2. ((d * 1000 - Width16) * 3) \div 2 < d * 1000
    BY <1>1, <1>3, WidthBounds
  <2> QED BY <2>1, <2>2
<1> QED BY <1>1, <1>2, <1>3
=============================================================================
