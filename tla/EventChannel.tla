---------------------------- MODULE EventChannel ----------------------------
(***************************************************************************)
(* What a task of the gateway is promised by an EventQue: a first-in       *)
(* first-out channel of events.  post(ev) appends; wait() hands over the   *)
(* oldest event; timedwait() may also hand over a Timeout event, but only  *)
(* while the channel is empty.  No permits, locks or threads are visible.  *)
(***************************************************************************)
EXTENDS Sequences

CONSTANTS Events,        \* the events that are posted
          NoEvent,       \* the reader's hand is empty
          TimeoutEvent   \* the event that timedwait() makes up

VARIABLES channel,       \* the events posted and not yet taken
          hand,          \* what the last wait() or timedwait() returned
          call           \* which of wait() and timedwait() the reader calls

vars == <<channel, hand, call>>

Init == channel = <<>> /\ hand = NoEvent /\ call \in {"wait", "timedwait"}

Post(e) == channel' = Append(channel, e) /\ UNCHANGED <<hand, call>>

Take ==
  /\ hand = NoEvent /\ channel # <<>>
  /\ hand' = Head(channel)
  /\ channel' = Tail(channel)
  /\ UNCHANGED call

TimeOut ==
  /\ call = "timedwait" /\ hand = NoEvent /\ channel = <<>>
  /\ hand' = TimeoutEvent
  /\ UNCHANGED <<channel, call>>

Consume == hand # NoEvent /\ hand' = NoEvent /\ UNCHANGED <<channel, call>>

Next == (\E e \in Events : Post(e)) \/ Take \/ TimeOut \/ Consume

Spec == Init /\ [][Next]_vars
=============================================================================
