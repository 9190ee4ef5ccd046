--------------------------- MODULE EventQue_proofs ---------------------------
(***************************************************************************)
(* The event queue keeps its promises for any number of posting threads,   *)
(* any events, and both kinds of reader.                                   *)
(*                                                                         *)
(* NoLostWakeup and PermitsMatchEvents count permits, posting threads and  *)
(* events.  They are not inductive: a push must append exactly one event   *)
(* to the queue as it is, which needs the mutex (LockInv), and a pop must  *)
(* know which permit it spends (ReaderInv).                                *)
(***************************************************************************)
EXTENDS EventQue, FiniteSetTheorems, TLAPS

\* The mutex is held by the thread that is between lock() and unlock(), and
\* the queue does not change between the two halves of a push.
LockInv ==
  /\ \A p \in Producers : pc[p] \in {"push", "store", "unlock"} <=> mutex = p
  /\ cpc \in {"timeout", "front", "unlock"} <=> mutex = Consumer
  /\ \A p \in Producers : pc[p] = "store" => view[p] = que
  /\ \A p \in Producers : pc[p] # "idle" => ev[p] \in Events

\* What the reader knows at each step of wait() and timedwait().
ReaderInv ==
  /\ cpc = "timeout" => call = "timedwait" /\ que = <<>>
  /\ cpc = "front" /\ call = "timedwait" => que # <<>>
  /\ cpc \in {"idle", "unlock"} => ~permit
  /\ cpc \in {"lock", "front"} /\ call = "wait" => permit
  /\ cpc \in {"lock", "timeout", "front"} => got = NoEvent

\* A reader that timed out started with no permit to spare.
StrayInv ==
  /\ StrayPermitsBounded
  /\ cpc \in {"lock", "front"} /\ ~permit =>
       sem + Cardinality(Pushed) <= Len(que) + Cardinality(Producers)

CountInv == NoLostWakeup /\ PermitsMatchEvents /\ StrayInv

IInv == TypeOK /\ LockInv /\ ReaderInv /\ CountInv /\ NeverPopsEmpty
------------------------------------------------------------------------------
USE DEF prodVars, consVars, Steps

LEMMA InitInv == Init => IInv
<1> SUFFICES ASSUME Init PROVE IInv
  OBVIOUS
<1> USE DEF Init
<1>1. TypeOK
  <2>1. <<>> \in Seq(Events)
    OBVIOUS
  <2>2. view \in [Producers -> Seq(Events)]
    BY <2>1
  <2> QED BY <2>1, <2>2 DEF TypeOK
<1>2. LockInv /\ ReaderInv /\ NeverPopsEmpty
  BY ThreadsAssumption, EventsAssumption DEF LockInv, ReaderInv, NeverPopsEmpty
<1>3. Pushed = {}
  BY DEF Pushed
<1>4. Cardinality(Pushed) = 0 /\ Cardinality(Producers) \in Nat
  BY <1>3, FS_EmptySet, FS_CardinalityType, ProducersAssumption
<1>5. CountInv
  BY <1>4 DEF CountInv, NoLostWakeup, PermitsMatchEvents, StrayInv,
              StrayPermitsBounded, Ticket, Permit
<1> QED BY <1>1, <1>2, <1>5 DEF IInv

(* Types, the mutex and the reader's knowledge, one step per action.        *)
LEMMA NextLockInv ==
  ASSUME TypeOK, LockInv, ReaderInv, Next
  PROVE  TypeOK' /\ LockInv' /\ ReaderInv'
<1> USE ThreadsAssumption, ProducersAssumption, EventsAssumption
<1> USE DEF TypeOK, LockInv, ReaderInv
<1>1. ASSUME NEW p \in Producers, NEW e \in Events, Call(p, e)
      PROVE  TypeOK' /\ LockInv' /\ ReaderInv'
  BY <1>1 DEF Call
<1>2. ASSUME NEW p \in Producers, Lock(p)
      PROVE  TypeOK' /\ LockInv' /\ ReaderInv'
  BY <1>2 DEF Lock
<1>3. ASSUME NEW p \in Producers, PushRead(p)
      PROVE  TypeOK' /\ LockInv' /\ ReaderInv'
  BY <1>3 DEF PushRead
<1>4. ASSUME NEW p \in Producers, PushWrite(p)
      PROVE  TypeOK' /\ LockInv' /\ ReaderInv'
  <2>1. que' \in Seq(Events)
    BY <1>4 DEF PushWrite
  <2>2. mutex = p /\ cpc \notin {"timeout", "front", "unlock"}
    BY <1>4 DEF PushWrite
  <2> QED BY <1>4, <2>1, <2>2 DEF PushWrite
<1>5. ASSUME NEW p \in Producers, Unlock(p)
      PROVE  TypeOK' /\ LockInv' /\ ReaderInv'
  BY <1>5 DEF Unlock
<1>6. ASSUME NEW p \in Producers, SemPost(p)
      PROVE  TypeOK' /\ LockInv' /\ ReaderInv'
  BY <1>6 DEF SemPost
<1>7. CASE SemWait
  BY <1>7 DEF SemWait
<1>8. CASE SemTimedOut
  BY <1>8 DEF SemTimedOut
<1>9. CASE ConsumerLock
  BY <1>9 DEF ConsumerLock
<1>10. CASE MakeTimeout
  BY <1>10 DEF MakeTimeout
<1>11. CASE Pop
  <2>1. mutex = Consumer /\ \A p \in Producers : pc[p] # "store"
    BY <1>11 DEF Pop
  <2>2. que # <<>> => Head(que) \in Events /\ Tail(que) \in Seq(Events)
    OBVIOUS
  <2>3. que' \in Seq(Events) /\ got' \in Events \cup {Undefined}
    BY <1>11, <2>2 DEF Pop
  <2> QED BY <1>11, <2>1, <2>3 DEF Pop
<1>12. CASE ConsumerUnlock
  BY <1>12 DEF ConsumerUnlock
<1>13. CASE Handle
  BY <1>13 DEF Handle
<1> QED
  BY <1>1, <1>2, <1>3, <1>4, <1>5, <1>6, <1>7, <1>8, <1>9, <1>10, <1>11,
     <1>12, <1>13 DEF Next, Produce, Consume

(* How the set of producers that have pushed and not yet posted grows.      *)
LEMMA PushedFacts ==
  /\ IsFiniteSet(Pushed) /\ Cardinality(Pushed) \in Nat
  /\ Cardinality(Producers) \in Nat
  /\ Cardinality(Pushed) <= Cardinality(Producers)
<1>1. Pushed \subseteq Producers
  BY DEF Pushed
<1> QED BY <1>1, ProducersAssumption, FS_Subset, FS_CardinalityType

LEMMA PushedSame ==
  ASSUME \A p \in Producers :
           pc'[p] \in {"unlock", "post"} <=> pc[p] \in {"unlock", "post"}
  PROVE  Pushed' = Pushed
BY DEF Pushed

LEMMA PushedGrows ==
  ASSUME NEW p \in Producers, pc \in [Producers -> Steps], pc[p] = "store",
         pc' = [pc EXCEPT ![p] = "unlock"]
  PROVE  Cardinality(Pushed') = Cardinality(Pushed) + 1
<1>1. p \notin Pushed /\ Pushed' = Pushed \cup {p}
  BY DEF Pushed
<1> QED BY <1>1, PushedFacts, FS_AddElement

LEMMA PushedShrinks ==
  ASSUME NEW p \in Producers, pc \in [Producers -> Steps], pc[p] = "post",
         pc' = [pc EXCEPT ![p] = "idle"]
  PROVE  Cardinality(Pushed') = Cardinality(Pushed) - 1
<1>1. p \in Pushed /\ Pushed' = Pushed \ {p}
  BY DEF Pushed
<1> QED BY <1>1, PushedFacts, FS_RemoveElement

(* Permits, posting producers and events stay in step.                      *)
LEMMA NextCountInv ==
  ASSUME TypeOK, LockInv, ReaderInv, CountInv, Next
  PROVE  CountInv'
<1> USE DEF CountInv, NoLostWakeup, PermitsMatchEvents, StrayInv,
            StrayPermitsBounded, Ticket, Permit
<1>0. /\ Len(que) \in Nat /\ sem \in Nat /\ Cardinality(Pushed) \in Nat
      /\ Cardinality(Producers) \in Nat
      /\ Cardinality(Pushed) <= Cardinality(Producers)
      /\ pc \in [Producers -> Steps]
  <2>1. pc \in [Producers -> Steps]
    BY DEF TypeOK
  <2>2. Len(que) \in Nat /\ sem \in Nat
    BY DEF TypeOK
  <2> QED BY <2>1, <2>2, PushedFacts
<1>1. ASSUME NEW p \in Producers, NEW e \in Events, Call(p, e)
      PROVE  CountInv'
  <2>1. Pushed' = Pushed
    BY <1>0, <1>1, PushedSame DEF Call
  <2> QED BY <1>0, <1>1, <2>1 DEF Call
<1>2. ASSUME NEW p \in Producers, Lock(p) \/ PushRead(p) \/ Unlock(p)
      PROVE  CountInv'
  <2>1. Pushed' = Pushed
    BY <1>0, <1>2, PushedSame DEF Lock, PushRead, Unlock
  <2> QED BY <1>0, <1>2, <2>1 DEF Lock, PushRead, Unlock
<1>3. ASSUME NEW p \in Producers, PushWrite(p)
      PROVE  CountInv'
  <2>1. que \in Seq(Events) /\ view[p] = que /\ cpc \in {"idle", "lock"}
    BY <1>3, ThreadsAssumption, ProducersAssumption
       DEF PushWrite, TypeOK, LockInv
  <2>2. que' = Append(que, ev[p])
    BY <1>3, <2>1 DEF PushWrite
  <2>3. Len(que') = Len(que) + 1
    BY <2>1, <2>2
  <2>4. Cardinality(Pushed') = Cardinality(Pushed) + 1
    BY <1>0, <1>3, PushedGrows DEF PushWrite
  <2>5. sem' = sem /\ cpc' = cpc /\ permit' = permit /\ call' = call
    BY <1>3 DEF PushWrite
  <2>6. cpc \in {"idle", "lock"}
    BY <2>1
  <2>7. Ticket \in Nat /\ Permit \in Nat /\ Ticket' = Ticket /\ Permit' = Permit
    BY <2>5
  <2> HIDE DEF Ticket, Permit
  <2>8. NoLostWakeup' /\ PermitsMatchEvents'
    BY <1>0, <2>3, <2>4, <2>5, <2>7
  <2>9. StrayPermitsBounded'
    BY <1>0, <2>3, <2>4, <2>5, <2>7
  <2>10. StrayInv'
    BY <1>0, <2>3, <2>4, <2>5, <2>6, <2>9
  <2> QED BY <2>8, <2>10
<1>4. ASSUME NEW p \in Producers, SemPost(p)
      PROVE  CountInv'
  <2>1. Cardinality(Pushed') = Cardinality(Pushed) - 1
    BY <1>0, <1>4, PushedShrinks DEF SemPost
  <2> QED BY <1>0, <1>4, <2>1 DEF SemPost
<1>5. ASSUME Consume, UNCHANGED que
      PROVE  CountInv'
  <2>1. pc' = pc
    BY <1>5 DEF Consume, SemWait, SemTimedOut, ConsumerLock, MakeTimeout, Pop,
                ConsumerUnlock, Handle
  <2>2. Pushed' = Pushed
    BY <2>1, PushedSame
  <2>3. CASE SemWait \/ SemTimedOut
    BY <1>0, <1>5, <2>2, <2>3 DEF SemWait, SemTimedOut, ReaderInv
  <2>4. CASE ConsumerLock \/ MakeTimeout \/ ConsumerUnlock \/ Handle
    <3>1. que = <<>> => Len(que) = 0
      OBVIOUS
    <3> QED BY <1>0, <1>5, <2>2, <2>4, <3>1
            DEF ConsumerLock, MakeTimeout, ConsumerUnlock, Handle, ReaderInv
  <2>5. CASE Pop
    <3>1. que = <<>>
      BY <1>5, <2>5 DEF Pop, TypeOK
    <3>2. Len(que) = 0
      BY <3>1
    <3> QED BY <1>0, <1>5, <2>2, <2>5, <3>1, <3>2 DEF Pop, ReaderInv
  <2> QED BY <1>5, <2>3, <2>4, <2>5 DEF Consume
<1>6. CASE Pop /\ que # <<>>
  <2>1. Pushed' = Pushed
    BY <1>6, PushedSame DEF Pop
  <2>2. Len(que') = Len(que) - 1
    BY <1>6 DEF Pop, TypeOK
  <2> QED BY <1>0, <1>6, <2>1, <2>2 DEF Pop, ReaderInv
<1>7. CASE Pop /\ que = <<>>
  BY <1>5, <1>7 DEF Pop, Consume
<1>8. ASSUME Consume, ~Pop
      PROVE  UNCHANGED que
  BY <1>8 DEF Consume, SemWait, SemTimedOut, ConsumerLock, MakeTimeout,
              ConsumerUnlock, Handle
<1> QED
  BY <1>1, <1>2, <1>3, <1>4, <1>5, <1>6, <1>7, <1>8 DEF Next, Produce

LEMMA NextInv == IInv /\ [Next]_vars => IInv'
<1> SUFFICES ASSUME IInv, [Next]_vars PROVE IInv'
  OBVIOUS
<1>1. CASE Next
  <2>1. TypeOK' /\ LockInv' /\ ReaderInv'
    BY <1>1, NextLockInv DEF IInv
  <2>2. CountInv'
    BY <1>1, NextCountInv DEF IInv
  <2>3. NeverPopsEmpty'
    <3>1. CASE Pop
      <4>1. que # <<>>
        <5>1. cpc = "front" /\ (call = "timedwait" => que # <<>>)
          BY <1>1, <3>1 DEF IInv, ReaderInv, Pop
        <5>2. call = "wait" => Len(que) = sem + Cardinality(Pushed) + 1
          BY <5>1 DEF IInv, CountInv, PermitsMatchEvents, Ticket
        <5>3. call = "wait" => Len(que) > 0
          BY <5>2, PushedFacts DEF IInv, TypeOK
        <5> QED BY <5>1, <5>3 DEF IInv, TypeOK
      <4>2. Head(que) \in Events
        BY <4>1 DEF IInv, TypeOK
      <4> QED BY <3>1, <4>1, <4>2, EventsAssumption DEF Pop, NeverPopsEmpty
    <3>2. CASE MakeTimeout
      BY <3>2, EventsAssumption
         DEF MakeTimeout, NeverPopsEmpty
    <3>3. CASE Handle
      BY <3>3, EventsAssumption DEF Handle, NeverPopsEmpty
    <3>4. ASSUME ~Pop, ~MakeTimeout, ~Handle
          PROVE  got' = got
      BY <1>1, <3>4 DEF Next, Produce, Consume, Call, Lock, PushRead,
         PushWrite, Unlock, SemPost, SemWait, SemTimedOut, ConsumerLock,
         ConsumerUnlock
    <3> QED BY <3>1, <3>2, <3>3, <3>4 DEF IInv, NeverPopsEmpty
  <2> QED BY <2>1, <2>2, <2>3 DEF IInv
<1>2. CASE UNCHANGED vars
  <2>1. Pushed' = Pushed
    BY <1>2, PushedSame DEF vars
  <2> QED BY <1>2, <2>1 DEF vars, IInv, TypeOK, LockInv, ReaderInv, CountInv,
       NoLostWakeup, PermitsMatchEvents, StrayInv, StrayPermitsBounded,
       NeverPopsEmpty, Ticket, Permit
<1> QED BY <1>1, <1>2
------------------------------------------------------------------------------
(* The variables of an event queue keep their types: the semaphore never    *)
(* goes below zero, the mutex has one holder and the queue holds events.    *)
THEOREM TypeCorrect == Spec => []TypeOK
<1>1. IInv => TypeOK
  BY DEF IInv
<1> QED BY InitInv, NextInv, <1>1, PTL DEF Spec

(* post() and wait() lose no wake-up: each event in the queue has a permit, *)
(* a producer about to raise one, or a consumer already on its way to it.   *)
THEOREM NoLostWakeupHolds == Spec => []NoLostWakeup
<1>1. IInv => NoLostWakeup
  BY DEF IInv, CountInv
<1> QED BY InitInv, NextInv, <1>1, PTL DEF Spec

(* Permits and events agree when the reader never times out.                *)
THEOREM PermitsMatchEventsHolds == Spec => []PermitsMatchEvents
<1>1. IInv => PermitsMatchEvents
  BY DEF IInv, CountInv
<1> QED BY InitInv, NextInv, <1>1, PTL DEF Spec

(* Neither wait() nor timedwait() calls front() on an empty queue.          *)
THEOREM NeverPopsEmptyHolds == Spec => []NeverPopsEmpty
<1>1. IInv => NeverPopsEmpty
  BY DEF IInv
<1> QED BY InitInv, NextInv, <1>1, PTL DEF Spec

(* The permits that timedwait() leaves behind when it takes an event early  *)
(* stay bounded by the number of producers plus one.                        *)
THEOREM StrayPermitsBoundedHolds == Spec => []StrayPermitsBounded
<1>1. IInv => StrayPermitsBounded
  BY DEF IInv, CountInv, StrayInv
<1> QED BY InitInv, NextInv, <1>1, PTL DEF Spec
------------------------------------------------------------------------------
LEMMA InitChannel == Init => Channel!Init
BY DEF Init, Channel!Init

LEMMA NextChannel == IInv /\ IInv' /\ [Next]_vars => [Channel!Next]_Channel!vars
<1> SUFFICES ASSUME IInv, IInv', [Next]_vars
             PROVE  [Channel!Next]_Channel!vars
  OBVIOUS
<1> USE DEF Channel!Next, Channel!vars
<1>1. ASSUME UNCHANGED <<que, got, call>>
      PROVE  [Channel!Next]_Channel!vars
  BY <1>1
<1>2. ASSUME NEW p \in Producers, PushWrite(p)
      PROVE  Channel!Next
  <2>1. view[p] = que /\ ev[p] \in Events
    BY <1>2 DEF PushWrite, IInv, LockInv
  <2>2. Channel!Post(ev[p])
    BY <1>2, <2>1 DEF PushWrite, Channel!Post
  <2> QED BY <2>1, <2>2
<1>3. CASE MakeTimeout
  <2>1. Channel!TimeOut
    BY <1>3 DEF MakeTimeout, Channel!TimeOut, IInv, ReaderInv
  <2> QED BY <2>1
<1>4. CASE Pop
  <2>1. que # <<>>
    BY <1>4 DEF Pop, IInv, NeverPopsEmpty
  <2>2. Channel!Take
    BY <1>4, <2>1 DEF Pop, Channel!Take, IInv, ReaderInv
  <2> QED BY <2>2
<1>5. CASE Handle
  BY <1>5 DEF Handle, Channel!Consume
<1>6. ASSUME Next, ~MakeTimeout, ~Pop, ~Handle,
             \A p \in Producers : ~PushWrite(p)
      PROVE  UNCHANGED <<que, got, call>>
  BY <1>6 DEF Next, Produce, Consume, Call, Lock, PushRead, Unlock, SemPost,
     SemWait, SemTimedOut, ConsumerLock, ConsumerUnlock
<1>7. CASE UNCHANGED vars
  BY <1>7 DEF vars
<1> QED BY <1>1, <1>2, <1>3, <1>4, <1>5, <1>6, <1>7

(* The event queue implements a first-in first-out channel: events come out *)
(* once each, in the order they were pushed, and a Timeout only while the   *)
(* channel is empty, whatever the interleaving of its threads.              *)
THEOREM ChannelImplemented == Spec => ImplementsChannel
<1> USE DEF ImplementsChannel, Channel!Spec
<1> QED BY InitInv, NextInv, InitChannel, NextChannel, PTL DEF Spec
==============================================================================
