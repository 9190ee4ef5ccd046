---------------------------- MODULE ClientStatus ----------------------------
(***************************************************************************)
(* The status of one ClientNode and its keep-alive timer.  Three threads   *)
(* change them without a lock: ClientRecvTask ("up") by every message from *)
(* the client, GatewayControlTask ("down") by every message to it and by   *)
(* the check it makes when a wait times out, and BrokerRecvTask by an      *)
(* error of the broker's connection.  updateStatus() is a chain of tests,  *)
(* each of which reads _status anew.                                       *)
(*                                                                         *)
(* The client sends every message that reaches updateStatus(), in any      *)
(* order that it may: it connects anew or again while it is connected,     *)
(* registers, publishes, sleeps, wakes up, is silent for any time, or      *)
(* falls silent for good.  A tick of the clock is much longer than a       *)
(* thread takes for a message.  Two history variables say whether the      *)
(* client keeps to the duration of its CONNECT: kept and unheard.          *)
(***************************************************************************)
EXTENDS Integers, Sequences

CONSTANTS Durations,      \* of CONNECT, in seconds
          Sent,           \* what a client sends that is connected or waits for the CONNACK
          Seconds,        \* that a tick of the clock may last
          MaxDue,         \* bound on the replies the control task has to make
          MaxPublishes    \* bound on the broker's PUBLISHes

Width16 == 256 * 256
UInt16 == 0 .. Width16 - 1

\* The messages that restart the timer, the others of a connected client, those of a will.
Timed == {"PINGREQ", "PUBLISH", "SUBSCRIBE", "UNSUBSCRIBE"}
Untimed == {"REGISTER", "REGACK", "PUBACK"}
Will == {"WILLTOPIC", "WILLMSG"}

ASSUME StatusAssumption ==
  /\ Durations \subseteq UInt16 /\ Sent \subseteq Timed \cup Untimed \cup Will
  /\ Seconds \subseteq Nat \ {0} /\ MaxDue \in Nat /\ MaxPublishes \in Nat

VARIABLES status,    \* ClientNode::_status
          keepAlive, \* ClientNode::_keepAliveMsec
          limit,     \* _keepAliveTimer: its _millis
          elapsed,   \* and the seconds since its _startTime, until the time is up
          test,      \* the test of the chain at which a thread stands, 0: none
          branch,    \* the branch it has taken, 0: none
          msg,       \* the message each thread deals with
          found,     \* what checkTimeover() has found: "lost" or "nothing"
          due,       \* the replies the control task will send
          client,    \* what the client is about
          kept,      \* the duration that the gateway took, while the client keeps to it
          unheard,   \* and the seconds since it sent what restarts the timer
          published  \* the PUBLISHes sent to the client

timerVars == <<keepAlive, limit, elapsed>>
threadVars == <<test, branch, msg>>
clientVars == <<client, kept, unheard, published>>
vars == <<status, timerVars, threadVars, found, due, clientVars>>

Threads == {"up", "down"}
NoPromise == -1
NoMessage == [type |-> "none", duration |-> 0]
Msg(type, d) == [type |-> type, duration |-> d]

Idle(t) == test[t] = 0 /\ branch[t] = 0

Init ==
  /\ status = "Disconnected"
  /\ keepAlive = 0 /\ limit = 0 /\ elapsed = 0
  /\ test = [t \in Threads |-> 0] /\ branch = [t \in Threads |-> 0]
  /\ msg = [t \in Threads |-> NoMessage]
  /\ found = "nothing" /\ due = <<>>
  /\ client = "out" /\ kept = NoPromise /\ unheard = 0 /\ published = 0
-----------------------------------------------------------------------------
(* updateStatus(), for a message: the chain of tests, then what it does.   *)

Take(t, m) ==
  /\ Idle(t) /\ (t = "down" => found = "nothing")
  /\ test' = [test EXCEPT ![t] = 1] /\ msg' = [msg EXCEPT ![t] = m]
  /\ UNCHANGED branch

\* The conditions of the chain, in its order.
Holds(k, type) ==
  \/ k = 1 /\ status \in {"Disconnected", "Lost"} /\ type = "CONNECT"
  \/ k = 2 /\ status = "Connecting" /\ type = "CONNACK"
  \/ k = 3 /\ status = "Active"
  \/ k = 4 /\ status = "Asleep"
  \/ k = 5 /\ status = "Awake"

Test(t) ==
  LET k == test[t] IN
  /\ k # 0
  /\ IF Holds(k, msg[t].type)
     THEN test' = [test EXCEPT ![t] = 0] /\ branch' = [branch EXCEPT ![t] = k]
     ELSE IF k < 5
     THEN test' = [test EXCEPT ![t] = k + 1] /\ UNCHANGED branch
     ELSE test' = [test EXCEPT ![t] = 0] /\ branch' = [branch EXCEPT ![t] = 6]
  /\ UNCHANGED <<status, timerVars, msg, found, due, clientVars>>

\* _keepAliveMsec has 16 bits.
KeepAliveMsec(d) == (d * 1000) % Width16

\* Mutation: the keep-alive is doubled.
StartDouble(msec) == limit' = msec * 2 /\ elapsed' = 0

\* Timer::start(_keepAliveMsec * 1.5)
Start(msec) == limit' = (msec * 3) \div 2 /\ elapsed' = 0

\* setKeepAlive()
SetKeepAlive(d) == keepAlive' = KeepAliveMsec(d) /\ Start(KeepAliveMsec(d))

NoTimer == UNCHANGED timerVars

\* Mutation: PINGREQ does not start the timer again.
EffectNoPing(k, m) ==
  CASE k = 1 -> SetKeepAlive(m.duration) /\ status' = "Connecting"
    [] k = 2 -> status' = "Active" /\ NoTimer
    [] k = 3 /\ m.type \in Timed \ {"PINGREQ"} ->
         Start(keepAlive) /\ UNCHANGED <<status, keepAlive>>
    [] k = 3 /\ m.type = "DISCONNECT" ->
         /\ status' = (IF m.duration = 0 THEN "Disconnected" ELSE "Asleep")
         /\ keepAlive' = IF m.duration = 0 THEN keepAlive ELSE KeepAliveMsec(m.duration)
         /\ UNCHANGED <<limit, elapsed>>
    [] k \in {4, 5} /\ m.type = "CONNECT" ->
         SetKeepAlive(m.duration) /\ status' = "Connecting"
    [] k = 4 /\ m.type = "PINGREQ" -> status' = "Awake" /\ NoTimer
    [] k = 5 /\ m.type = "DISCONNECT" -> status' = "Disconnected" /\ NoTimer
    [] k = 5 /\ m.type = "PINGRESP" -> status' = "Asleep" /\ NoTimer
    [] OTHER -> UNCHANGED status /\ NoTimer

\* What the branch does; getClientId() of a PINGREQ is never NULL.
Effect(k, m) ==
  CASE k = 1 -> SetKeepAlive(m.duration) /\ status' = "Connecting"
    [] k = 2 -> status' = "Active" /\ NoTimer
    [] k = 3 /\ m.type \in Timed -> Start(keepAlive) /\ UNCHANGED <<status, keepAlive>>
    [] k = 3 /\ m.type = "DISCONNECT" ->
         /\ status' = (IF m.duration = 0 THEN "Disconnected" ELSE "Asleep")
         /\ keepAlive' = IF m.duration = 0 THEN keepAlive ELSE KeepAliveMsec(m.duration)
         /\ UNCHANGED <<limit, elapsed>>
    [] k \in {4, 5} /\ m.type = "CONNECT" ->
         SetKeepAlive(m.duration) /\ status' = "Connecting"
    [] k = 4 /\ m.type = "PINGREQ" -> status' = "Awake" /\ NoTimer
    [] k = 5 /\ m.type = "DISCONNECT" -> status' = "Disconnected" /\ NoTimer
    [] k = 5 /\ m.type = "PINGRESP" -> status' = "Asleep" /\ NoTimer
    [] OTHER -> UNCHANGED status /\ NoTimer

Replies(type) ==
  CASE type = "CONNECT" -> Append(due, "CONNACK")
    [] type = "PINGREQ" -> Append(due, "PINGRESP")
    [] OTHER -> due

\* The gateway takes a CONNECT, and its timer starts.
Takes(t) == t = "up" /\ msg[t].type = "CONNECT" /\ branch[t] \in {1, 4, 5}

Promise(d, seconds) == kept' = d /\ unheard' = seconds

\* The promise counts from there, unless what was under way before interferes.
Undisturbed == found = "nothing" /\ client = "waiting" /\ msg["down"].type # "CONNACK"

\* A reply that goes down may get lost on the air.
Hears(type) ==
  CASE type = "CONNACK" /\ client = "waiting" -> {"in", "waiting"}
    [] type = "PINGRESP" /\ client = "waking" -> {"asleep", "waking"}
    [] OTHER -> {client}

\* The message goes on: up to the control task, which will reply, or down to the client.
Act(t) ==
  LET m == msg[t] IN
  /\ branch[t] # 0
  /\ Effect(branch[t], m)
  /\ branch' = [branch EXCEPT ![t] = 0] /\ msg' = [msg EXCEPT ![t] = NoMessage]
  /\ due' = IF t = "up" THEN Replies(m.type) ELSE due
  /\ client' \in IF t = "down" THEN Hears(m.type) ELSE {client}
  /\ IF Takes(t)
     THEN Promise(IF Undisturbed THEN m.duration ELSE NoPromise, 0)
     ELSE UNCHANGED <<kept, unheard>>
  /\ UNCHANGED <<test, found, published>>

Reply ==
  /\ due # <<>> /\ Take("down", Msg(Head(due), 0)) /\ due' = Tail(due)
  /\ UNCHANGED <<status, timerVars, found, clientVars>>

\* A PUBLISH from the broker passes through the same chain.
Publish ==
  /\ published < MaxPublishes /\ published' = published + 1
  /\ Take("down", Msg("PUBLISH", 0))
  /\ UNCHANGED <<status, timerVars, found, due, client, kept, unheard>>
-----------------------------------------------------------------------------
(* checkTimeover(), when a wait of the control task timed out.             *)

TimeUp == elapsed * 1000 > limit

CheckTimeover ==
  /\ Idle("down") /\ found = "nothing"
  /\ status = "Active" /\ TimeUp
  /\ found' = "lost"
  /\ UNCHANGED <<status, timerVars, threadVars, due, clientVars>>

\* Mutation: a lost client is found and left as it was.
MarkNot ==
  /\ found = "lost" /\ found' = "nothing"
  /\ UNCHANGED <<status, timerVars, threadVars, due, clientVars>>

MarkLost ==
  /\ found = "lost" /\ found' = "nothing"
  /\ status' = "Lost"
  /\ UNCHANGED <<timerVars, threadVars, due, clientVars>>

\* recvAndFireEvent(): updateStatus(Cstat_Disconnected); what the broker had to say is lost.
BrokerError ==
  /\ status' = "Disconnected" /\ due' \in {due, <<>>}
  /\ UNCHANGED <<timerVars, threadVars, found, clientVars>>
-----------------------------------------------------------------------------
(* The client.                                                             *)

Says(m, next) ==
  /\ Len(due) < MaxDue
  /\ Take("up", m)
  /\ client' = next
  /\ UNCHANGED <<status, timerVars, found, due, published>>

\* For the first time, again, or anew while it is connected.
Connect ==
  /\ client # "gone"
  /\ \E d \in Durations : Says(Msg("CONNECT", d), "waiting")
  /\ UNCHANGED <<kept, unheard>>

Talk ==
  \/ /\ client = "in"
     /\ \E type \in Sent \cap Timed : Says(Msg(type, 0), client)
     /\ Promise(kept, 0)
  \/ /\ client = "in"
     /\ \E type \in Sent \cap Untimed : Says(Msg(type, 0), client)
     /\ UNCHANGED <<kept, unheard>>
  \/ /\ client = "waiting"
     /\ \E type \in Sent \cap Will : Says(Msg(type, 0), client)
     /\ UNCHANGED <<kept, unheard>>

Leave ==
  /\ client \in {"waiting", "in", "asleep", "waking"}
  /\ \/ Says(Msg("DISCONNECT", 0), "out")
     \/ \E d \in Durations : Says(Msg("DISCONNECT", d), "asleep")
  /\ Promise(NoPromise, 0)

Wake ==
  /\ client \in {"asleep", "waking"}
  /\ Says(Msg("PINGREQ", 0), "waking")
  /\ UNCHANGED <<kept, unheard>>

Vanish ==
  /\ client' = "gone" /\ Promise(NoPromise, 0)
  /\ UNCHANGED <<status, timerVars, threadVars, found, due, published>>

Tick ==
  /\ Idle("up")
  /\ \E s \in Seconds :
       /\ elapsed' = IF elapsed + s > limit \div 1000 THEN (limit \div 1000) + 1 ELSE elapsed + s
       /\ IF unheard + s <= kept THEN Promise(kept, unheard + s) ELSE Promise(NoPromise, 0)
  /\ UNCHANGED <<status, keepAlive, limit, threadVars, found, due, client, published>>
-----------------------------------------------------------------------------
Next ==
  \/ \E t \in Threads : Test(t) \/ Act(t)
  \/ Reply \/ Publish \/ CheckTimeover \/ MarkLost \/ BrokerError
  \/ Connect \/ Talk \/ Leave \/ Wake \/ Vanish \/ Tick

Spec == Init /\ [][Next]_vars

(* The threads run, time passes, and the waits of the control task time    *)
(* out again and again.                                                    *)
Fairness ==
  /\ \A t \in Threads : WF_vars(Test(t)) /\ WF_vars(Act(t))
  /\ WF_vars(Reply) /\ WF_vars(Tick)
  /\ SF_vars(CheckTimeover) /\ WF_vars(MarkLost)

FairSpec == Spec /\ Fairness
-----------------------------------------------------------------------------
Statuses == {"Disconnected", "Connecting", "Active", "Asleep", "Awake", "Lost"}

MessageTypes == {"none", "CONNECT", "CONNACK", "PINGRESP", "DISCONNECT"} \cup Timed
                  \cup Untimed \cup Will

TypeOK ==
  /\ status \in Statuses
  /\ keepAlive \in UInt16
  /\ limit \in 0 .. (3 * Width16) \div 2 /\ elapsed \in 0 .. (limit \div 1000) + 1
  /\ test \in [Threads -> 0 .. 5] /\ branch \in [Threads -> 0 .. 6]
  /\ \A t \in Threads : test[t] = 0 \/ branch[t] = 0
  /\ msg \in [Threads -> [type : MessageTypes, duration : UInt16]]
  /\ found \in {"lost", "nothing"}
  /\ due \in Seq({"CONNACK", "PINGRESP"}) /\ Len(due) <= MaxDue
  /\ client \in {"out", "waiting", "in", "asleep", "waking", "gone"}
  /\ kept \in UInt16 \cup {NoPromise} /\ unheard \in UInt16
  /\ published \in 0 .. MaxPublishes

(* A client that lets no more than the duration which the gateway took     *)
(* pass between two messages that reach it and restart the timer is never  *)
(* taken for lost, whatever else it sends and whatever the three threads   *)
(* make of its status, from a CONNECT on that met nothing of an earlier    *)
(* one (Undisturbed).  updateStatus() restarts the timer for PINGREQ,      *)
(* PUBLISH, SUBSCRIBE and UNSUBSCRIBE only, not for a REGISTER, a REGACK,  *)
(* a PUBACK or a CONNECT while it is Active, which also keeps the old      *)
(* duration.  65 seconds is the longest duration whose milliseconds 16     *)
(* bits can hold; with 0, which promises nothing, the timer is up at once. *)
TalkingNeverLost == kept \in 1 .. 65 => status # "Lost"

(* A client that falls silent does not stay active for ever.               *)
SilentNoticed == client = "gone" /\ status = "Active" ~> status # "Active"
=============================================================================
