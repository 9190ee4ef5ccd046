------------------------------ MODULE EventQue ------------------------------
(***************************************************************************)
(* EventQue<T> of libmq/ProcessFramework.h: a std::queue guarded by a      *)
(* Mutex and signalled by a Semaphore, shared by the threads that post and *)
(* the one thread that reads.  The gateway has three of them:              *)
(*    gatewayEventQue   posted by ClientRecvTask and BrokerRecvTask,       *)
(*                      read by GatewayControlTask with timedwait()        *)
(*    clientSendQue, brokerSendQue                                         *)
(*                      posted by GatewayControlTask, read with wait()     *)
(* post() pushes under the mutex and raises the semaphore after releasing  *)
(* it; a reader that timed out can take the event in between, so permits   *)
(* and events need not agree.  A push is a read and a write of the queue.  *)
(***************************************************************************)
EXTENDS Integers, Sequences, FiniteSets

CONSTANTS Producers,     \* the threads that call post()
          Consumer,      \* the thread that calls wait() or timedwait()
          Events,        \* what is posted
          NoEvent,       \* no event at hand
          TimeoutEvent,  \* new T() with setTimeout()
          Undefined,     \* front() of an empty std::queue
          Nobody,        \* the mutex is free
          MaxPending     \* bound on the events posted and not yet taken

ASSUME ProducersAssumption == IsFiniteSet(Producers) /\ Consumer \notin Producers
ASSUME ThreadsAssumption == Nobody \notin Producers \cup {Consumer}
ASSUME EventsAssumption ==
  /\ {NoEvent, TimeoutEvent, Undefined} \cap Events = {}
  /\ NoEvent # TimeoutEvent /\ NoEvent # Undefined /\ TimeoutEvent # Undefined

VARIABLES que,        \* _que
          mutex,      \* the thread that holds _mutex
          sem,        \* the value of _sem
          pc,         \* where each producer stands in post()
          ev,         \* the event each producer is posting
          view,       \* the queue a producer read when its push began
          cpc,        \* where the consumer stands in wait() / timedwait()
          permit,     \* whether the consumer's sem_(timed)wait got a permit
          got,        \* the event the consumer has in hand
          call        \* which of wait() and timedwait() the consumer calls

vars == <<que, mutex, sem, pc, ev, view, cpc, permit, got, call>>
prodVars == <<pc, ev, view>>
consVars == <<cpc, permit, got, call>>

Steps == {"idle", "lock", "push", "store", "unlock", "post"}

Inside == {p \in Producers : pc[p] # "idle"}

\* Pushed, and the semaphore not raised yet.
Pushed == {p \in Producers : pc[p] \in {"unlock", "post"}}

Init ==
  /\ que = <<>> /\ mutex = Nobody /\ sem = 0
  /\ pc = [p \in Producers |-> "idle"]
  /\ ev = [p \in Producers |-> NoEvent]
  /\ view = [p \in Producers |-> <<>>]
  /\ cpc = "idle" /\ permit = FALSE /\ got = NoEvent
  /\ call \in {"wait", "timedwait"}
-----------------------------------------------------------------------------
(* post(T* ev), one step per call it makes.                                *)

Call(p, e) ==
  /\ pc[p] = "idle" /\ Len(que) + Cardinality(Inside) < MaxPending
  /\ pc' = [pc EXCEPT ![p] = "lock"]
  /\ ev' = [ev EXCEPT ![p] = e]
  /\ UNCHANGED <<que, mutex, sem, view, consVars>>

\* Mutation: the mutex does not exclude.
LockUnguarded(p) ==
  /\ pc[p] = "lock"
  /\ mutex' = p
  /\ pc' = [pc EXCEPT ![p] = "push"]
  /\ UNCHANGED <<que, sem, ev, view, consVars>>

Lock(p) ==
  /\ pc[p] = "lock" /\ mutex = Nobody
  /\ mutex' = p
  /\ pc' = [pc EXCEPT ![p] = "push"]
  /\ UNCHANGED <<que, sem, ev, view, consVars>>

PushRead(p) ==
  /\ pc[p] = "push"
  /\ view' = [view EXCEPT ![p] = que]
  /\ pc' = [pc EXCEPT ![p] = "store"]
  /\ UNCHANGED <<que, mutex, sem, ev, consVars>>

PushWrite(p) ==
  /\ pc[p] = "store"
  /\ que' = Append(view[p], ev[p])
  /\ pc' = [pc EXCEPT ![p] = "unlock"]
  /\ UNCHANGED <<mutex, sem, ev, view, consVars>>

Unlock(p) ==
  /\ pc[p] = "unlock"
  /\ mutex' = Nobody
  /\ pc' = [pc EXCEPT ![p] = "post"]
  /\ UNCHANGED <<que, sem, ev, view, consVars>>

\* Mutation: the semaphore is raised only for the first event of the queue.
SemPostIfFirst(p) ==
  /\ pc[p] = "post"
  /\ sem' = IF Len(que) <= 1 THEN sem + 1 ELSE sem
  /\ pc' = [pc EXCEPT ![p] = "idle"]
  /\ ev' = [ev EXCEPT ![p] = NoEvent]
  /\ view' = [view EXCEPT ![p] = <<>>]
  /\ UNCHANGED <<que, mutex, consVars>>

SemPost(p) ==
  /\ pc[p] = "post"
  /\ sem' = sem + 1
  /\ pc' = [pc EXCEPT ![p] = "idle"]
  /\ ev' = [ev EXCEPT ![p] = NoEvent]
  /\ view' = [view EXCEPT ![p] = <<>>]
  /\ UNCHANGED <<que, mutex, consVars>>

Produce(p) ==
  Lock(p) \/ PushRead(p) \/ PushWrite(p) \/ Unlock(p) \/ SemPost(p)
-----------------------------------------------------------------------------
(* wait() and timedwait(): they differ in the semaphore call and in what   *)
(* they do with an empty queue.                                            *)

\* Mutation: the reader does not wait for a permit.
SemWaitUnguarded ==
  /\ cpc = "idle" /\ got = NoEvent
  /\ sem' = sem - 1 /\ permit' = TRUE
  /\ cpc' = "lock"
  /\ UNCHANGED <<que, mutex, got, prodVars, call>>

SemWait ==
  /\ cpc = "idle" /\ got = NoEvent /\ sem > 0
  /\ sem' = sem - 1 /\ permit' = TRUE
  /\ cpc' = "lock"
  /\ UNCHANGED <<que, mutex, got, prodVars, call>>

\* Mutation: the reader gives up although the semaphore could be taken.
SemTimedOutEarly ==
  /\ call = "timedwait"
  /\ cpc = "idle" /\ got = NoEvent /\ sem < 6
  /\ permit' = FALSE
  /\ cpc' = "lock"
  /\ UNCHANGED <<que, mutex, sem, got, prodVars, call>>

\* sem_timedwait fails with ETIMEDOUT, and its result is not looked at.
SemTimedOut ==
  /\ call = "timedwait"
  /\ cpc = "idle" /\ got = NoEvent /\ sem = 0
  /\ permit' = FALSE
  /\ cpc' = "lock"
  /\ UNCHANGED <<que, mutex, sem, got, prodVars, call>>

ConsumerLock ==
  /\ cpc = "lock" /\ mutex = Nobody
  /\ mutex' = Consumer
  /\ cpc' = IF call = "timedwait" /\ que = <<>> THEN "timeout" ELSE "front"
  /\ UNCHANGED <<que, sem, permit, got, prodVars, call>>

MakeTimeout ==
  /\ cpc = "timeout"
  /\ got' = TimeoutEvent
  /\ cpc' = "unlock" /\ permit' = FALSE
  /\ UNCHANGED <<que, mutex, sem, prodVars, call>>

\* front() and pop() of an empty std::queue are undefined.
Pop ==
  /\ cpc = "front"
  /\ got' = IF que = <<>> THEN Undefined ELSE Head(que)
  /\ que' = IF que = <<>> THEN <<>> ELSE Tail(que)
  /\ cpc' = "unlock" /\ permit' = FALSE
  /\ UNCHANGED <<mutex, sem, prodVars, call>>

ConsumerUnlock ==
  /\ cpc = "unlock"
  /\ mutex' = Nobody
  /\ cpc' = "idle"
  /\ UNCHANGED <<que, sem, permit, got, prodVars, call>>

\* The reader handles the event, deletes it and calls wait() again.
Handle ==
  /\ cpc = "idle" /\ got # NoEvent
  /\ got' = NoEvent
  /\ UNCHANGED <<que, mutex, sem, cpc, permit, prodVars, call>>

Consume ==
  \/ SemWait \/ SemTimedOut \/ ConsumerLock \/ MakeTimeout \/ Pop
  \/ ConsumerUnlock \/ Handle
-----------------------------------------------------------------------------
Next ==
  \/ \E p \in Producers : Produce(p) \/ \E e \in Events : Call(p, e)
  \/ Consume

Spec == Init /\ [][Next]_vars

(* Every thread is scheduled; a thread that keeps finding the mutex free   *)
(* some of the time gets it in the end.                                    *)
Fairness ==
  /\ \A p \in Producers : WF_vars(Produce(p)) /\ SF_vars(Lock(p))
  /\ WF_vars(Consume) /\ SF_vars(ConsumerLock)

FairSpec == Spec /\ Fairness
-----------------------------------------------------------------------------
TypeOK ==
  /\ que \in Seq(Events)
  /\ mutex \in Producers \cup {Consumer, Nobody}
  /\ sem \in Nat
  /\ pc \in [Producers -> Steps]
  /\ ev \in [Producers -> Events \cup {NoEvent}]
  /\ view \in [Producers -> Seq(Events)]
  /\ cpc \in {"idle", "lock", "timeout", "front", "unlock"}
  /\ permit \in BOOLEAN
  /\ got \in Events \cup {NoEvent, TimeoutEvent, Undefined}
  /\ call \in {"wait", "timedwait"}

\* What the consumer may still take: a pass through the lock to pop().
Ticket == IF cpc \in {"lock", "timeout", "front"} THEN 1 ELSE 0

\* The permit it took for that pass; none after a timeout.
Permit == IF permit THEN 1 ELSE 0

(* No event is stranded: every event in the queue is matched by a permit,  *)
(* by a producer about to raise the semaphore, or by the consumer on its   *)
(* way to pop().  A consumer asleep on sem_wait with an event waiting for  *)
(* it would be the lost wake-up of post() / wait().                        *)
NoLostWakeup == Len(que) <= sem + Cardinality(Pushed) + Ticket

(* wait() never reads an empty queue: with an untimed reader permits and   *)
(* events agree exactly, counting those on their way.                      *)
PermitsMatchEvents ==
  call = "wait" => Len(que) = sem + Cardinality(Pushed) + Ticket

(* front() is never called on an empty queue.                              *)
NeverPopsEmpty == got # Undefined

(* A reader that times out between push() and sem_post() takes the event   *)
(* and leaves its permit behind, so that a later timedwait() returns a     *)
(* Timeout at once.  Those stray permits never pile up beyond one for each *)
(* producer and one more.                                                  *)
StrayPermitsBounded ==
  sem + Cardinality(Pushed) + Permit <= Len(que) + Cardinality(Producers) + 1

(* An event pushed by a post() is taken in the end.                        *)
EveryEventTaken ==
  \A e \in Events : (\E i \in DOMAIN que : que[i] = e) ~> (got = e)

(* The queue implements the channel its users rely on.                     *)
Channel == INSTANCE EventChannel WITH channel <- que, hand <- got
ImplementsChannel == Channel!Spec
=============================================================================
