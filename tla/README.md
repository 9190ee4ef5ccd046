# A TLA+ model of TomyGateway

TomyGateway (`src/TomyGateway/src`) connects MQTT-SN clients, which speak over
XBee radios, with an MQTT broker, one TCP connection for each client.  It is one
process of five threads, written in C++.  This directory holds TLA+ models of
it, TLC runs over small instances, and TLAPS proofs.

All source names below are relative to `src/TomyGateway/src`.

## 1. The system

| part | state | operations | talks to |
|---|---|---|---|
| `EventQue` (`libmq/ProcessFramework.h`) | a `std::queue`, a mutex, a semaphore | `post`, `wait`, `timedwait` | every thread; three instances |
| `MessageQue`, `Event`, `ClientNode` queues (`GatewayResourcesProvider`) | four message queues for each client; an event names a client and a direction | `set…Message`, `get…Message`, destructor of `Event` pops the message | every thread |
| `ClientRecvTask` | - | turns frames into messages and events, creates client nodes | XBee → `gatewayEventQue` |
| `GatewayControlTask` | the timers for ADVERTISE and the time | the handlers of both protocols, 10 upward and 7 downward | `gatewayEventQue` → `clientSendQue`, `brokerSendQue` |
| `ClientSendTask` | - | unicast, broadcast | `clientSendQue` → XBee |
| `BrokerSendTask` | - | serialises, opens sockets, sends | `brokerSendQue` → sockets |
| `BrokerRecvTask` | a descriptor set | `select`, `recv`, splits into messages | sockets → `gatewayEventQue` |
| `ClientNode` session | topic table, the PUBACK and the SUBACK waited for, the CONNECT object | written by the handlers | `GatewayControlTask` only |
| `ClientNode` status | status, keep-alive timer | `updateStatus`, `checkTimeover` | `ClientRecvTask`, `GatewayControlTask`, `BrokerRecvTask`, no lock |
| `Topics` | entries name/id, last id given | `createTopic`, `getTopic`, `getTopicId` | `GatewayControlTask` |
| `ClientList` | nodes, an "authorised" flag | `createNode`, `getClient`, `authorize` | `ClientRecvTask` writes, all read |
| `Socket` | descriptor, disconnect request, semaphore | `create`, `connect`, `send`, `recv`, `isValid`, `disconnect` | `BrokerSendTask`, `BrokerRecvTask` |
| `XBee` (`libmq/ZBStack.cpp`) | reader position, checksum, frame buffer | `readPacket`, `receiveResponse`, `sendRequest` | the serial line |
| messages (`libmq/Messages.cpp`) | bytes | getters, setters, `absorb`, `serialize`, `deserialize` | all tasks |
| threads, `Exception`, `Timer`, `SerialPort` | | start, stop, I/O | |

What is hard in it:

* **The queue's semaphore is raised outside its mutex** (`ProcessFramework.h:291-297`),
  and a timed reader looks at the queue whether it got a permit or not.
* **An event does not carry its message.**  The two travel in different queues
  and meet again because every queue is first-in first-out.
* **An acknowledgement is prepared when the request goes up and sent when the
  broker's answer comes down**, with one place for each kind (`_waitedPubAck`,
  `_waitedSubAck`), while clients repeat requests and connections break.
* **Topic ids live in two places**, the gateway's table and the client; REGISTER,
  SUBSCRIBE and messages from the broker all add to the table, and a CONNECT with
  a clean session replaces it.
* **Connections are noticed broken late**: the first send after the broker has
  closed succeeds.
* **Two threads share a socket**: one asks for it to be closed and waits, the
  other closes it between two `select()`s, with a descriptor set that may be
  older than the sockets it names.
* **The client's status is read and written by three threads without a lock**,
  and its keep-alive is kept in 16 bits of milliseconds.
* **TCP does not keep the bounds of messages**, and what `recv()` returns is
  parsed as if it did.
* **The serial reader has to find its way back** after lost bytes.

`PROJECT.json` lists the hazards line by line, with the properties that cover
them or the reason why none does.

## 2. Modules

```
EventChannel        what a task is promised by an EventQue
   ^ implements
EventQue            post / wait / timedwait, one step per call     EventQue_proofs
TopicTable          class Topics as operators
   Topics           one table over time                            Topics_proofs
SocketOutcomes      what a turn of BrokerSendTask leaves behind
   Gateway          the turns of the five tasks (one message each)
      Sessions      Gateway + conforming clients + a broker        Sessions_proofs
         MCSessions   the settings for TLC
   BrokerLink       the connections as Gateway takes them
      ^ implements
   BrokerSocket     the sockets between the two broker tasks       BrokerSocket_proofs
BrokerStream        recv()ed bytes cut into messages               BrokerStream_proofs
   MCBrokerStream   messages for TLC
ClientStatus        status and keep-alive of a client              ClientStatus_proofs
Pipeline            the hand-over between the tasks                Pipeline_proofs
   MCPipeline       symmetry for TLC
XBee                frames on the serial line                      XBee_proofs
   MCXBee           frames for TLC
```

`Pipeline` takes each `EventQue` as the channel that `EventQue` is shown to
implement.  `Gateway` takes a whole turn of a task as one step: `Pipeline` is the
justification, for its invariants say that a task always finds the message its
event stands for, and that queues of events and messages stay in step.  It takes
a connection as one of four states with the outcomes of `SocketOutcomes`:
`BrokerSocket` is shown to implement that, thread by thread.

### EventChannel, EventQue
`Producers` are the threads that post and `Consumer` the one that reads; `call`
is chosen at the start and says whether it calls `wait()` or `timedwait()`.
`que`, `mutex` and `sem` are the members; `pc`/`cpc` the place in the code.
`std::queue::push` is two steps (read, write) so that the mutex has something to
protect; `front()` of an empty queue gives `Undefined`.  The process object is a
global, so that its semaphores start at zero although the default constructor
initialises another, temporary one (`ProcessFramework.cpp:270-272`).

### TopicTable, Topics
`TopicTable` has the table as a value, a record of its entries in order and the
last id given, and the calls of class `Topics` as operators on it; `Gateway` uses
them for the table of each client.  `Topics` keeps one such `table`, with what a
client was `given` by it.  A name of
two characters gets an id that the code reads from the address of the
`std::string` (`Topics.cpp:179-181`): a choice from `AddressIds`.  The assumption
`AddressAssumption` puts those ids above the ones given one after another: the
first byte read is the low byte of an aligned address.

### Pipeline
Counts the messages in each `MessageQue` and keeps the events in order.  A task
may push a message (`Push`), post its event (`Post`), take an event (`Take`) and
delete it (`Finish`); between any two of these steps all other tasks may run.

### Gateway
One operator for each handler (`SnPublish` is `handleSnPublish()`, `MqPubAck`
`handlePuback()`, and so on), `HandleUp`/`HandleDown`/`HandleSearch`/`TimeOut`
for the branches of `GatewayControlTask::run()`, and one action for each of the
other tasks.  Messages of both protocols have one record shape.  `data` in a
PUBLISH is the name of the topic its sender meant; it is what the properties
compare topic ids with.  The code's mistakes are in the model: the flag tests
with `&&`, the CONNECT object that is kept after it was queued, the topic id read
from an UNSUBSCRIBE's own buffer, the REGACK that accepts with id 0.

### Sessions
Closes the system.  A client connects first, leaves at most `Window` requests
unanswered, repeats an unanswered request with the same message id, and accepts
only answers to its requests.  The broker answers in order, stores what it is
sent, publishes to subscribers, and closes a connection that breaks the protocol
(a second CONNECT, anything before CONNECT) or ends with DISCONNECT.  These
definitions are external to the repository.  `setting` holds for a whole
behaviour and says what the clients, the line and the broker may do;
`MCSessions` has five of them: `Lossy` (frames to the client are lost,
connections fail at any send or are reset, requests are repeated), `Publishing`
(PUBLISHes of the broker on any name while the client asks for topics, nothing is
lost), `Reconnecting` (connections break and the client connects again with a
clean session, which replaces the topic table), `Alone` and `Quiet` (every
request type, one client or two, nothing is lost).  Until the CONNACK of a clean
session a client pays no heed to the ids in a REGISTER (`Renewing`), for it may
be of the session that it gives up.  `NoNameAssumption` keeps the marker for "no
name in this message" apart from the names.

### SocketOutcomes, BrokerLink, BrokerSocket
`BrokerSocket` has the two threads as `S` (`BrokerSendTask`) and `R`
(`BrokerRecvTask`), one step for each access to what they share: `sock`,
`disconReq` and `sem` are the members of `Socket`, `conn` and `pending` the
kernel's side of a descriptor, `fdset` the set that `R` gives to `select()`.
`IsValid` is `isValid()`, with its four steps when it closes; `Request` and
`Wait` are `disconnect()`; `Create` to `Connect` the two calls that open a
connection; `ScanValid` to `Looked` the two passes around `select()`.  A socket
that is not connected is readable and `recv()` has an error to tell, as in
Linux.  A send to a connection the broker has closed succeeds until its reset
arrives.  `failed` and `fate` are history, for the properties and the
refinement.  `BrokerLink` has nothing but the state of each connection and what
became of the last message; `LinkOf` maps the one to the other: a socket that is
being opened, or is to be closed, is not there.

A node and its `Socket` are on the heap, and `_sem` is a `Semaphore` whose
default constructor initialises a temporary one: what it holds is whatever the
memory held.  `InitialPermits` says so, and `MaxPermits` is `SEM_VALUE_MAX`.
`initial` remembers what each semaphore held, and a wait that such a permit ends
puts its node into `strays`.  The properties are about semaphores that hold
anything and say what is true until the first stray.  From then on `disconnect()`
has returned although nobody has closed the socket: both threads may close the same
one, the next message may find its connection broken again, and the sender may wait
for a permit that nobody raises.  The code does all that, no property denies it, and
the model goes on after a stray as the program does (only the run stops there).
`ZeroNeverStrays` is the one statement about memory that happened to be zero.

### BrokerStream
A message is what its length depends on, and positions count the bytes of the
stream: message `i` of `sent` is at `start[i]`.  `Recv` takes a part that may end
anywhere, and each turn of the loop is a step: `ParseMessage` where a message
starts, `ParseGarbled` where none does.  `Encode` and `Decode` are the remaining
length in its 16-bit arithmetic, `PacketLength` is what the loop advances by,
`PayloadRead` where `MQTTPublish::deserialize()` finds the payload.  What bytes
that are no message make up is a choice: of no known type, so that the loop
returns and drops the rest of the `recv()`; or messages of any length, of which
one garbled post stands for a row, and which end where a message starts or
beyond the part; or something that takes the parser out of its buffers.  A message
of more than 500 bytes never fits the buffer, and a payload of 256 bytes or more is
cut to its low 8 bits of length.

Nothing the parser reads is checked.  A byte 0x3x is a PUBLISH whose topic may be
given 65535 bytes (`Messages.cpp:1588`), to be read beyond the 500 bytes of `buffer`,
written into `sbuff[2500]` and from there into `_printBuf`
(`BrokerRecvTask.cpp:138`, `193-204`); and `RemainingLength::deserialize()` goes on
past `_digit[4]` while the top bits are set (`Messages.cpp:1044-1051`).  `Overrun` is
that: `memory` is `"overrun"`, the loop takes no further step, and nothing at all is
claimed of the gateway.  It is possible in `ParseGarbled`, whatever the bytes, and in
`ParseMessage` when a message is not within the buffer (`Fits`): one whose end is
missing may be read up to three digits, its topic and 255 bytes of payload, and the
length of a QoS 0 payload wraps around below two bytes.  What the properties say is
when that cannot happen, and what is right as long as it has not.  `clean` and
`begin`, where the last `recv()` began, are there for this.

### ClientStatus
`test` is where a thread stands in the chain of `updateStatus()`, each of whose
conditions reads `_status` anew; the assignments of the branch it takes are one
step, and so are the two reads in the first condition.  `CheckTimeover` and
`MarkLost` are the two halves of the check of a control task whose wait timed
out, so that the client may send something in between.  A PUBLISH from the
broker goes through the same chain and starts the timer of a client, even of one
that is silent: `MaxPublishes` bounds that.  A reply may be lost on the air
(`Hears`), and an error of the broker's connection takes what it had to say with it
(`BrokerError`).  `_status` decides nothing but the timer and what
`checkTimeover()` does; no other code reads it.

The client sends all that reaches `updateStatus()`: a CONNECT, for the first time,
again, or anew while it is `Active`, where the code keeps the old duration and lets
the timer run; a WILLTOPIC or WILLMSG while it waits for its CONNACK; what restarts
the timer (`Timed`: PINGREQ, PUBLISH, SUBSCRIBE, UNSUBSCRIBE); what falls through to
`default:` and does not (`Untimed`: REGISTER, REGACK, PUBACK); and a DISCONNECT with
or without a duration.  It need not keep any promise.  Whether it does is history:
`kept` is the duration of the CONNECT that the gateway took, as long as no more
seconds than that have passed since the client last sent what restarts the timer
(`unheard`), and `NoPromise` otherwise.  The difference is real: a client that sends
a PINGREQ at once, a REGISTER after 0.9 of its duration and the next message after
1.8 is lost at 1.5: TLC finds that as soon as a REGISTER counts in `unheard`.
`TalkingNeverLost` claims nothing of such a client.

The promise counts from the moment at which the gateway takes the CONNECT
(`Takes`), and only if what was under way before does not interfere
(`Undisturbed`): not if `checkTimeover()` has found the client lost and is about to
say so, if an earlier CONNACK is still going down, or if the client has gone on
without an answer.  These cases lose a client that keeps its promise: the old finding
is written over the new status, or a late CONNACK makes the client `Active` in the
middle of the next CONNECT.

### XBee
`SendRequest` is the byte sequence that `sendRequest()` writes; `ReadHeader`,
`ReadData`, `ReadChecksum` and `ReadExcess` are the branches of one turn of the
loop in `readPacket()`, the last two with what `receiveResponse()` does when it
returns.  Bytes are numbers, so that escaping and the checksum are the real ones;
the eleven bytes of address in front of a payload are part of the frame data.
Three peculiarities are in the model: the checksum is not started again by a
start byte, `_complete` is never cleared after the first good frame, and a bad
frame before that frees the buffer (`owned`, and `down` for the abort that a
second `free()` may cause).

## 3. Runs

| run (configuration) | what it asks | bounds |
|---|---|---|
| `que` (`EventQue.cfg`) | no lost wake-up, bounded stray permits, permits match events without time-outs, no pop of an empty queue, every event taken, FIFO channel implemented | 2 producers, 2 events, `wait()` and `timedwait()`, at most 3 pending (`MaxPending`, in the guard of `Call`): both producers can be inside `post()` with an event queued and a stray permit around |
| `topics` (`Topics.cfg`) | ids keep their meaning while a table fills up | 5 names for 4 free entries; real id constants |
| `pipeline` (`MCPipeline.cfg`) | one event per message, never a NULL message | 2 clients, a new message only while fewer than 2 events wait (`MaxPending`); every task can hold one and post one |
| `session_safety` (`SessionSafety.cfg`) | no false PUBACK, ids resolve to the right names in both directions, REGISTER first, the CONNECT object is owned | 1 client; `Lossy`: 4 requests, 3 connections or repetitions; `Publishing`: 2 requests, 2 broker messages on any name; `Reconnecting`: 3 requests, 1 broker message, 2 connections; a table of 3 entries for 3 names |
| `session_live` (`SessionLive.cfg`) | every kind of request answered, and in one place at a time | `Alone`: 3 requests, 1 broker message, 1 broadcast; `Quiet`: 2 clients on the authorised list, 2 requests |
| `unsubscribe_name` (`UnsubscribeName.cfg`) | a statement of the documentation that the code breaks | 2 requests of a client |
| `xbee` (`XBee.cfg`) | frames arrive whole and in order; the reader stays in its buffer and recovers after lost bytes | 4 frames of two kinds, up to 2 lost bytes, anywhere; a buffer of 20 bytes that the longer kind fills (`MAX_FRAME_DATA_SIZE` is 128), so that two merged frames exceed it; every escaped byte occurs, also as the checksum |
| `xbee_checksum` (`XBeeChecksum.cfg`) | a statement of the code's log that does not hold | as `xbee`, 1 lost byte |
| `broker_socket` (`BrokerSocket.cfg`) | until a stray permit ends a wait: no descriptor lost, shared or used closed; a broken connection found once; `recv()` blocks only on a new socket; the sender always returns; the connections of `Gateway` implemented | 2 clients, 2 descriptors: one that was closed for a client can be opened for the other while `select()` still names it; the first semaphore starts with 0 or 1 permits. `CONSTRAINT RunBound` ends a behaviour at its first stray, of which no property claims anything (`SenderReturns` is then fulfilled) |
| `client_status` (`ClientStatus.cfg`) | a client that keeps its promise is never lost, a silent one is noticed | 1 client, durations of 60 s and 65 s (the longest that 16 bits hold), ticks of 60 s, so that one tick is within the duration, two are beyond the timer; PINGREQ, REGISTER and WILLTOPIC, one message for each kind; 1 reply due, 1 PUBLISH |
| `broker_stream` (`BrokerStream.cfg`) | what is received whole is posted whole and once, in order, with its payload, and memory is overrun only after a split message or a QoS 0 payload below two bytes | 3 messages; lengths on both sides of the second length digit (127, 128), one beyond the buffer and one of QoS 0 with one byte; a part ends with a message, in its first 3 bytes, or with the buffer. An assumption of `MCBrokerStream` evaluates the codec for all 65536 lengths |
| `publish_qos0` (`PublishQos0.cfg`) | a statement of the documentation that the code breaks | 2 messages |

Ids in the session runs are small (`BaseId = 2`, `IdRange = 16`), because only
their identity matters there; `topics` has the real ones.  The session runs set
`CHECK_DEADLOCK FALSE`: clients make a bounded number of requests and then the
gateway rests; `xbee`, `xbee_checksum`, `broker_stream` and `publish_qos0` do so
for the same reason.  `Recovers` asks for two whole frames after the last loss:
TLC shows one is not enough, for an escape that lost its byte swallows the next
start byte.

`KnownIdsResolve`, `RightNameUp` and `RightNameDown` hold for clients that do not
repeat a CONNECT with a clean session: `Lossy` has repetition without clean
sessions, `Publishing` and `Reconnecting` clean sessions without repetition.  With
both TLC finds a behaviour against each of the three (of 16, 27 and 19 steps): the
second copy of the CONNECT replaces the table after the first was answered and
topics were registered, so that the client's ids stand for nothing, or later for
another name.  No document of the project says what should happen then.  The
theorems about these three have the same hypothesis (`Steady`); `NoFalsePubAck` and
`ConnectObjectOwned` need none.

`RegisteredFirst` is about a line and connections that lose nothing and clients
that repeat no CONNECT (`Orderly`).  `InFlightOnce` is about clients that wait for
one answer at a time, where nothing is lost and nothing repeated, and that the
`ClientList` has room for (`Once`): a request of a client without a node is dropped.

`TalkingNeverLost` is about a `kept` duration of 1 to 65 seconds.  66 seconds are 464
milliseconds in 16 bits, and a client that talks is lost at the next check:
`LongerNeverKept` proves that from there on the timer is always shorter than the
duration, so that the bound is exact.  With a duration of 0 a client of MQTT promises
nothing, and the code gives it a timer that is up at once.

### Findings

* `unsubscribe_name`: the README names UNSUBSCRIBE among the supported functions,
  but an UNSUBSCRIBE by topic name reaches the broker with an empty name.  So does
  one of the predefined topic, which the comment at `GatewayControlTask.cpp:413`
  says is answered by the gateway.
* `xbee_checksum`: the reader logs "CheckSum OK" (`ZBStack.cpp:454`) and hands on a
  frame whose checksum was wrong, once it has accepted any frame before.
* `publish_qos0`: the README promises QoS 0 and 1, but a PUBLISH of QoS 0 from the
  broker loses the first two bytes of its payload: they are read as a message id.
  `Gateway` takes a payload as data, so that only `BrokerStream` sees this.

Met on the way, with no document that says otherwise: the control task passes
`TIMEOUT_PERIOD`, 10 and commented "10 sec" (`GatewayDefines.h:59`), to a
`timedwait()` that counts milliseconds; and it answers a DISCONNECT with nothing.

## 4. Fairness

`EventQue`: weak fairness of each thread, for the scheduler runs them all, and
strong fairness of taking the mutex, which other threads release again and again.
`Sessions`: weak fairness of the control task, of each sending and receiving
turn and of the client's replies; none for new requests, losses, time-outs or the
broker's own messages.  `EveryRequestAnswered` is stated for a reliable line and
connection only: the gateway repeats nothing, so nothing can be promised
otherwise.  `XBee`: the reading thread takes what is on the line.

`BrokerSocket`: weak fairness of both threads, and of a broker that has been sent
something: it answers, or its connection is closed or reset.  `SenderReturns`
needs the latter, for `R` may be blocked in `recv()` while `S` waits in
`disconnect()`; `BlocksOnlyOnNew` is why nothing else can block it.
`ClientStatus`: weak fairness of the threads and of time, strong fairness of
`CheckTimeover`, whose guard messages under way disable again and again: a wait
of the control task times out now and then (10 ms, against durations in
seconds).  That is a property of the traffic, not of the code: where events come
without a pause no wait ever times out, and a silent client of such a gateway stays
active.  `SilentNoticed` does not cover that case.

## 5. Proofs

All proofs hold for any value of the constants under the named assumptions of
the modules (finite set of producers, distinct marker values, ids in range, frames
that fit the buffer).

* `EventQue_proofs`.  `LockInv` is mutual exclusion (who is
  between lock and unlock holds the mutex, so that the queue a producer read is
  the queue it extends); `ReaderInv` says what the reader knows at each step.
  `NoLostWakeup` is not inductive without them: a push must be one step in effect,
  and a reader about to pop must know that there is an event.  `CountInv` counts
  permits, producers that have pushed and not yet posted, and the reader's
  permit against the events, from both sides: `StrayInv` bounds the permits left
  over.  `IInv` is the conjunction.  `ChannelImplemented` is a step simulation:
  `PushWrite` maps to `Post`, `Pop` to `Take`, `MakeTimeout` to `TimeOut`, `Handle`
  to `Consume` and everything else to a stutter.
* `Topics_proofs`.  The first half has lemmas about the operators of `TopicTable`,
  for any table that is `GoodTable`: what `createTopic()` keeps and adds, that no
  entry it leaves changes its name or id, and that both look-ups find an entry
  that is unique; `Sessions_proofs` uses them too.  `NamesUnique` needs that entries are only added for new names.
  `ToldIdsResolve` rests on `IdsInv`: ids given one after another are unique, lie
  between `BaseId` and the last id given, and the last id given is bounded by
  `BaseId` plus the number of entries, so that it never wraps around.
* `Pipeline_proofs`.  `MessagesMatchEvents` is inductive together with `TypeOK` and
  `RouteInv`, which says that a queue only holds the events that belong in it;
  lemmas say how the count of an event in a sequence changes with `Append` and
  `Tail`.  `NeverNull` follows.
* `XBee_proofs`, for any frames that fit the buffer.  `WithinBuffer` needs nothing
  of the bytes on the line, so that it holds however a frame is garbled: the reader's
  position is set back to the start or to a place at most one past the limit, and the
  size of a response comes from a position within it.  The other three need to know
  what a frame looks like on the line.  `Sums` and `SendFrom` are recursive functions,
  as the loop of `sendRequest()` is; `SumsLoop` and `SendFromLoop` say that they exist
  and what they are step by step.  Both are by induction, which is proved first
  (`Induction`): the library states it for an operator, which the provers cannot
  instantiate, so that it is derived for a set from the well-founded order of the
  finite subsets.  `SendFrom(body)[k]` is what is on the line when the reader stands
  at byte `k` (`TakeSent`: it takes the byte that was sent, with its escape, and
  never finds a start byte in it).  `InStep`, for `DeliveredInOrder`: as long as
  nothing is lost, the reader stands between two frames or at byte `k` of one, has
  kept what came before and summed it up (`Kept`, `SumsStep`; `SumsEnd`: the sum of a
  whole frame is 255), and at most one frame more is behind it.  `Recovering`, for
  `Recovers`, has two stages.  Of the first whole frame behind a loss it only says
  that the line is what is left of it from some byte on, or from the middle of an
  escaped one when the reader waits for a start byte (`FirstBehind`): hence, when the
  second is sent, at most one byte is before it, and that byte is no escape.  So its
  start byte is not swallowed and the second frame is read in step (`SecondBehind`).

* `BrokerSocket_proofs`, for any number of clients and descriptors and whatever the
  semaphores hold in the beginning.  `Solid` is what holds until the first stray.  The
  handshake is one token that is in one of four places: `Handshake` says that a
  request to disconnect stands only while `S` waits for that very node, `Permits`
  that a semaphore holds more than in the beginning only then and only after the
  socket is forgotten.  So only `R` closes, and only what `S` does not touch;
  `Ownership` adds the kernel's side of it, that a descriptor is open exactly while
  some node has it.  `Failures` and `Connections` relate the history to the state of
  the connection, and `OldReady` says of a descriptor that `select()` found ready that
  it still has something to tell or belongs to a socket opened since.  From these
  follow `DescriptorsOwned`, `DisconnectCloses`, `FailsOnce`, `BlocksOnlyOnNew`, and
  `ImplementsLink` as a step simulation.  `strays` never shrinks (`StrayStays`), so
  that each step proof may assume `Solid` before a step that is not a stray, and a
  step that is one is claimed nothing of.  `ZeroNeverStrays`: where all semaphores
  start at zero there is no stray, and all of this holds for ever.
* `ClientStatus_proofs`, for any durations, messages, ticks of the clock and bounds.
  `Work` and `Started` hold of every client.  While a promise of up to 65 seconds is
  kept, `Answered` says what a thread that has a CONNACK in hand may find, and `Clock`
  what the timer shows in the states in which it matters: no more seconds than the
  client was unheard, half a duration short of the limit, or the message that starts
  it again is on its way there (`Restarting`).  `NotLost` follows step by step:
  `CheckTimeover` finds nothing, so that there is no finding that a message of the
  client could be too late for.  The step at which a promise begins is `TakesKeeps`.
  Nothing is claimed of a client that does not keep its promise.

* `BrokerStream_proofs`, for any messages below 64 KB, any buffer and any cut of the
  stream.  `CodecExact` is `decode(encode(len)) = len` for all lengths of 16 bits, in
  one, two or three digits; with it the loop advances over a message that it parses
  by exactly its length.  `StreamInv` says that messages follow one another without a
  gap, `ReaderInv` where the loop stands in what was received, `PostedInv` that what
  was posted lies before what will be parsed next (`Reached`), and `CleanInv` that
  each message that was received whole is posted, whole and once (`Done`), or still
  ahead in a loop that stands at the start of a message (`Pending`).  The last is
  what makes the first half of `Resynchronises` inductive: a loop that has started
  right stays right.  For the second half, `ReadWithin` is that of a message received
  whole nothing beyond its end is read, but for a QoS 0 length that wraps around;
  `OutsideInv` says that a loop that stands within a message has a split message
  behind it, and `OverrunInv` that one or the other is what an overrun comes from
  (`OverrunKeeps`).
* `Sessions_proofs`, for any clients, names, sizes of the table, settings and bounds:
  the whole gateway with its clients and broker.  The inductive invariant has seven
  layers, each proved with those before it.  `Shape` types every queue by the kind
  of messages that may be in it and counts an event for each message (so that a
  handler finds the message of its event).  `Stored`: a PUBACK of the broker,
  wherever it is, is for a PUBLISH the broker has stored; from it follows
  `NoFalsePubAck`.  `Owned` follows the CONNECT object along the queue of messages
  that are to be handled: whether the control task will own it when it comes to
  each of them (`OwnedAt`); a WILLTOPIC or WILLMSG anywhere on its way has a CONNECT
  with a will before it.  `OnePass`: when CONNECTs are not repeated, the CONNECT, or
  what it led to, is in one place of one queue.  `Naming` says of every id, told to
  the client, waited for in an acknowledgement, or in a message on its way, that it
  stands for its name in the table of the moment, and that after a CONNECT that
  will renew the table nothing of the old one follows; it needs `OnePass`, for a
  renewal is harmless only while no answer of the new session is under way.
  `Learning` is about behaviours in which nothing is lost and no CONNECT repeated.
  Until the broker has taken a CONNECT the client has asked for no topic, its table
  is empty and nothing names an id (`Fresh`).  From its CONNACK on, each entry of the
  table, and each id in a PUBLISH on its way, is one that the client was told, that a
  REGISTER or REGACK tells it before it reads that far, or that the SUBACK it waits
  for will tell (`InTime`).  An entry enters the table in the same step as the message
  that tells it; three facts keep it so: a request of the client that is handled again
  is still waited for, or adds nothing (`Waits`), an answer without an id means that
  the table is full (`NoRoom`), and nothing with an id comes before the CONNACK
  (`Ahead`).  Hence `RegisteredFirst`, for all settings.
  `Flight` is about `Once` behaviours.  The places of a client are the six queues
  that a request and its answer pass: on the way up what the client owes, `clientRecv`
  and `brokerSend`, on the way down `replies`, `brokerRecv` and `clientSend`.  `Load` adds up the messages in them
  that ask for an answer (on the way up) or are one (on the way down): it is 0 when
  the client waits for nothing and 1 when it waits for a request, and then that
  message is on the course of the request (`Flying`).  `OnWay` says what that takes: once the
  control task has handed on a PUBLISH or SUBSCRIBE it waits for the answer under
  that message id, for an answer it does not wait for is dropped; and a will is asked
  for only while the CONNECT object is there.  `Phases` orders the connection:
  before the broker has the CONNECT nothing else is on its way, and it is
  closed only after the DISCONNECT of a client that waits for nothing, so that
  no request is left on a closed connection.  A client that has not connected has
  sent nothing (`Untouched`), so that each client gets its node from its first
  CONNECT.  A step of the gateway takes one message and adds at most one of that
  count (`MovesOne`), hence `InFlightOnce`.  TLC checked `Flight` on instances of
  one and two clients before it was proved.

Every invariant that a passing run checks is a theorem.  Only model-checked is
liveness, which with `ENABLED` is out of the prover's reach: `EveryEventTaken`,
`EveryRequestAnswered`, `EveryFrameDelivered`, `SenderReturns` and `SilentNoticed`.

## 6. Not modelled

`handleDisconnect()` (no MQTT DISCONNECT is ever made from what the broker
sends), `ClientList::erase()`, `Topics::match()` and the wildcard functions,
`bind()`, `listen()` and `accept()` of `Socket` (none of them is ever called), the
message id of the time PUBLISH (QoS 0, nobody looks at it), the byte layouts of
messages other than the broker's PUBLISH, thread start and stop, terminal
settings, the file of authorised clients, log output, memory that is not freed.

## 7. Plan

Next: the escape that `XBee` keeps for the next call, should the serial port ever be
read without blocking.
