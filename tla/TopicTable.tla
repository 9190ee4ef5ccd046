----------------------------- MODULE TopicTable -----------------------------
(***************************************************************************)
(* The topic table of one client (class Topics of libmq/Topics.cpp) as     *)
(* operators on a value: the entries in the order they were created, the   *)
(* predefined topic first, and the last id given to a long name.           *)
(*                                                                         *)
(* A two-character name is a "short" name.  The code takes its id from the *)
(* first two bytes of the std::string object that holds the name, which    *)
(* are bytes of an address; that id is a choice from AddressIds.           *)
(***************************************************************************)
EXTENDS Integers, Sequences

CONSTANTS LongNames,       \* topic names that are not two characters long
          ShortNames,      \* topic names of two characters
          PredefinedName,  \* MQTTSN_TOPIC_PREDEFINED_TIME, "$GW/01"
          PredefinedId,    \* MQTTSN_TOPICID_PREDEFINED_TIME, 1
          BaseId,          \* MQTTSN_TOPICID_NORMAL, 256
          IdRange,         \* ids are uint16_t: 2^16
          MaxTopicCount,   \* MAX_TOPIC_COUNT, 50
          AddressIds       \* ids read from the address of a std::string

Names == LongNames \cup ShortNames

ASSUME NamesAssumption ==
  LongNames \cap ShortNames = {} /\ PredefinedName \notin Names
ASSUME IdsAssumption ==
  /\ PredefinedId \in Nat \ {0} /\ BaseId \in Nat /\ PredefinedId <= BaseId
  /\ MaxTopicCount \in Nat \ {0}
  /\ IdRange \in Nat /\ BaseId + MaxTopicCount < IdRange
\* The high byte of the id is the low byte of an address, a multiple of four and
\* in practice not zero, so that these ids are above those given one after another.
ASSUME AddressAssumption ==
  AddressIds \subseteq BaseId + MaxTopicCount + 1 .. IdRange - 1

NoTopic == 0

\* A Topic: its name and its id.
Entry == [name : Names \cup {PredefinedName}, id : 0 .. IdRange - 1]

\* Mutation: _nextTopicId is left at zero.
NewTopicsUnset ==
  [entries |-> <<[name |-> PredefinedName, id |-> PredefinedId]>>, next |-> 0]

\* Topics::Topics()
NewTopics ==
  [entries |-> <<[name |-> PredefinedName, id |-> PredefinedId]>>, next |-> BaseId]

Index(t) == 1 .. Len(t.entries)

WithName(t, name) == {i \in Index(t) : t.entries[i].name = name}
WithId(t, id) == {i \in Index(t) : t.entries[i].id = id}

HasName(t, name) == WithName(t, name) # {}
HasId(t, id) == WithId(t, id) # {}

\* The loops of getTopic() stop at the first match.
First(S) == CHOOSE i \in S : \A j \in S : i <= j

\* Topics::getTopicId()
GetTopicId(t, name) ==
  IF HasName(t, name) THEN t.entries[First(WithName(t, name))].id ELSE NoTopic

\* The name of the Topic that getTopic(id) finds, for an id of the table.
GetTopicName(t, id) == t.entries[First(WithId(t, id))].name

\* Topics::getNextTopicId()
NextTopicId(n) ==
  LET m == (n + 1) % IdRange IN IF m < BaseId THEN BaseId ELSE m

\* Mutation: the last id given is not stored.
ExtendSameId(t, name, id, next) ==
  [entries |-> Append(t.entries, [name |-> name, id |-> id]), next |-> t.next]

Extend(t, name, id, next) ==
  [entries |-> Append(t.entries, [name |-> name, id |-> id]), next |-> next]

(* Topics::createTopic(): the table after the call and the id that it      *)
(* returns.  For a new short name the entry gets the address a, and the   *)
(* caller the id last given to a long name.                                *)
IsFull(t) == Len(t.entries) >= MaxTopicCount

\* Mutation: getTopic() before the insertion is left out.
CreateTopicTwice(t, name, a) ==
  LET next == IF name \in ShortNames THEN t.next ELSE NextTopicId(t.next)
      id == IF name \in ShortNames THEN a ELSE next
  IN IF IsFull(t) THEN t ELSE Extend(t, name, id, next)

CreateTopic(t, name, a) ==
  LET next == IF name \in ShortNames THEN t.next ELSE NextTopicId(t.next)
      id == IF name \in ShortNames THEN a ELSE next
  IN IF HasName(t, name) \/ IsFull(t) THEN t ELSE Extend(t, name, id, next)

CreatedId(t, name) ==
  IF HasName(t, name) THEN GetTopicId(t, name)
  ELSE IF IsFull(t) THEN NoTopic
  ELSE IF name \in ShortNames THEN t.next ELSE NextTopicId(t.next)
=============================================================================
