---------------------------- MODULE Topics_proofs ----------------------------
(***************************************************************************)
(* First what the operators of TopicTable keep and return, for tables of   *)
(* any size over any names.  Looking an id up is a search from the front   *)
(* of the table, so that it rests on which ids each kind of entry can      *)
(* have, and on no two long names sharing one.  Sessions_proofs uses these *)
(* lemmas for the tables of all clients.  Then that a table over time      *)
(* keeps the ids it hands out: it stays good, and every pair given is one  *)
(* of its entries.                                                         *)
(***************************************************************************)
EXTENDS Topics, WellFoundedInduction, TLAPS

HasEntry(t, name, id) == \E i \in Index(t) : t.entries[i] = [name |-> name, id |-> id]

\* Long names have ids above the base and up to the last one given.
IdsFit(t) ==
  /\ BaseId <= t.next /\ t.next < BaseId + Len(t.entries)
  /\ \A i \in Index(t) :
       LET e == t.entries[i]
       IN /\ e.name = PredefinedName => e.id = PredefinedId
          /\ e.name \in LongNames => BaseId < e.id /\ e.id <= t.next
          /\ e.name \in ShortNames => e.id \in AddressIds

NamesDiffer(t) ==
  \A i, j \in Index(t) : t.entries[i].name = t.entries[j].name => i = j

IdsDiffer(t) ==
  \A i, j \in Index(t) :
    /\ t.entries[i].name \in LongNames /\ t.entries[j].name \in LongNames
    /\ t.entries[i].id = t.entries[j].id
    => i = j

GoodTable(t) ==
  /\ t \in [entries : Seq(Entry), next : Nat]
  /\ Len(t.entries) >= 1 /\ Len(t.entries) <= MaxTopicCount
  /\ IdsFit(t) /\ NamesDiffer(t) /\ IdsDiffer(t)
------------------------------------------------------------------------------
USE NamesAssumption, IdsAssumption, AddressAssumption
USE DEF Index

LEMMA TableTypes ==
  ASSUME NEW t, GoodTable(t)
  PROVE  /\ t.entries \in Seq(Entry) /\ t.next \in Nat /\ Len(t.entries) \in Nat
         /\ t.next >= BaseId /\ t.next <= IdRange - 1
         /\ \A i \in Index(t) : /\ t.entries[i] \in Entry
                                /\ t.entries[i].id \in 0 .. IdRange - 1
                                /\ t.entries[i].id \in Nat
                                /\ t.entries[i].name \in Names \cup {PredefinedName}
<1>1. /\ t.entries \in Seq(Entry) /\ t.next \in Nat
      /\ Len(t.entries) \in Nat /\ Len(t.entries) <= MaxTopicCount
      /\ BaseId <= t.next /\ t.next < BaseId + Len(t.entries)
  BY DEF GoodTable, IdsFit
<1>2. \A i \in Index(t) : t.entries[i] \in Entry
  BY <1>1
<1>3. \A e \in Entry : e.id \in 0 .. IdRange - 1 /\ e.name \in Names \cup {PredefinedName}
  BY DEF Entry
<1> QED BY <1>1, <1>2, <1>3

LEMMA NextIdFact ==
  ASSUME NEW n \in Nat, BaseId <= n, n + 1 < IdRange
  PROVE  NextTopicId(n) = n + 1
<1>1. (n + 1) % IdRange = n + 1
  OBVIOUS
<1> QED BY <1>1 DEF NextTopicId

\* The first of a set with one member is that member.
LEMMA FirstOfOne ==
  ASSUME NEW k \in Int
  PROVE  First({k}) = k
BY DEF First

\* Names are found where they are.
LEMMA SearchByName ==
  ASSUME NEW t, GoodTable(t), NEW name, NEW id, HasEntry(t, name, id)
  PROVE  HasName(t, name) /\ GetTopicId(t, name) = id
<1>1. PICK i \in Index(t) : t.entries[i] = [name |-> name, id |-> id]
  BY DEF HasEntry
<1>2. t.entries[i].name = name /\ t.entries[i].id = id
  BY <1>1
<1>3. WithName(t, name) = {i}
  BY <1>2 DEF WithName, GoodTable, NamesDiffer
<1> QED BY <1>2, <1>3, FirstOfOne DEF HasName, GetTopicId

\* So are ids of long names.
LEMMA SearchById ==
  ASSUME NEW t, GoodTable(t), NEW name \in LongNames, NEW id, HasEntry(t, name, id)
  PROVE  HasId(t, id) /\ GetTopicName(t, id) = name
<1>1. PICK i \in Index(t) : t.entries[i] = [name |-> name, id |-> id]
  BY DEF HasEntry
<1>2. t.entries[i].name = name /\ t.entries[i].id = id
  BY <1>1
<1>3. ASSUME NEW j \in Index(t), t.entries[j].id = id
      PROVE  j = i
  <2>0. /\ t.next \in Nat /\ id \in Nat /\ t.entries[j].name \in Names \cup {PredefinedName}
        /\ Len(t.entries) \in Nat /\ Len(t.entries) <= MaxTopicCount
    BY <1>2, TableTypes DEF GoodTable
  <2>1. BaseId < id /\ id < BaseId + MaxTopicCount
    BY <1>2, <2>0 DEF GoodTable, IdsFit
  <2>2. t.entries[j].name # PredefinedName
    BY <1>3, <2>0, <2>1 DEF GoodTable, IdsFit
  <2>3. t.entries[j].name \notin ShortNames
    BY <1>3, <2>0, <2>1 DEF GoodTable, IdsFit
  <2>4. t.entries[j].name \in LongNames
    BY <2>0, <2>2, <2>3 DEF Names
  <2> QED BY <1>2, <1>3, <2>4 DEF GoodTable, IdsDiffer
<1>4. WithId(t, id) = {i}
  BY <1>2, <1>3 DEF WithId
<1> QED BY <1>2, <1>4, FirstOfOne DEF HasId, GetTopicName

\* A search that finds something finds an entry with that id.
LEMMA FirstOfSome ==
  ASSUME NEW S, S \subseteq Nat, S # {}
  PROVE  First(S) \in S
<1> DEFINE R == OpToRel(<, Nat)
<1>1. IsWellFoundedOn(R, Nat)
  BY NatLessThanWellFounded
<1>2. \A i, j \in Nat : <<i, j>> \in R <=> i < j
  BY DEF OpToRel
<1> HIDE DEF R
<1>3. \E i \in S : \A j \in S : <<j, i>> \notin R
  BY <1>1, WFMin
<1>4. PICK i \in S : \A j \in S : <<j, i>> \notin R
  BY <1>3
<1>5. ASSUME NEW j \in S
      PROVE  i <= j
  <2>1. i \in Nat /\ j \in Nat /\ ~(j < i)
    BY <1>2, <1>4
  <2> QED BY <2>1
<1> QED BY <1>5 DEF First

LEMMA FoundName ==
  ASSUME NEW t, GoodTable(t), NEW id, HasId(t, id)
  PROVE  /\ GetTopicName(t, id) \in Names \cup {PredefinedName}
         /\ GetTopicName(t, id) = PredefinedName => id = PredefinedId
<1>1. WithId(t, id) \subseteq Index(t) /\ WithId(t, id) \subseteq Nat /\ WithId(t, id) # {}
  BY DEF WithId, HasId
<1> DEFINE i == First(WithId(t, id))
<1>2. i \in WithId(t, id)
  BY <1>1, FirstOfSome
<1>3. i \in Index(t) /\ t.entries[i].id = id
  BY <1>1, <1>2 DEF WithId
<1>4. GetTopicName(t, id) = t.entries[i].name
  BY DEF GetTopicName
<1> HIDE DEF i
<1>5. t.entries[i].name \in Names \cup {PredefinedName}
  BY <1>3, TableTypes
<1>6. t.entries[i].name = PredefinedName => t.entries[i].id = PredefinedId
  BY <1>3 DEF GoodTable, IdsFit
<1> QED BY <1>3, <1>4, <1>5, <1>6

\* A long name has an id above the base.
LEMMA LongIds ==
  ASSUME NEW t, GoodTable(t), NEW name \in LongNames, NEW id, HasEntry(t, name, id)
  PROVE  id > BaseId /\ id \in 0 .. IdRange - 1
<1>1. PICK i \in Index(t) : t.entries[i] = [name |-> name, id |-> id]
  BY DEF HasEntry
<1>2. t.entries[i].name = name /\ t.entries[i].id = id
  BY <1>1
<1>3. id \in 0 .. IdRange - 1
  BY <1>2, TableTypes
<1> QED BY <1>2, <1>3 DEF GoodTable, IdsFit

\* An id stands for one long name at most.
LEMMA OneName ==
  ASSUME NEW t, GoodTable(t), NEW id,
         NEW m \in LongNames, HasEntry(t, m, id), NEW n \in LongNames, HasEntry(t, n, id)
  PROVE  m = n
<1>1. GetTopicName(t, id) = m /\ GetTopicName(t, id) = n
  BY SearchById
<1> QED BY <1>1

\* A name that is in the table has an entry with an id, and only one.
LEMMA NamedEntry ==
  ASSUME NEW t, GoodTable(t), NEW name
  PROVE  /\ HasName(t, name) <=> \E id : HasEntry(t, name, id)
         /\ \A i, j : HasEntry(t, name, i) /\ HasEntry(t, name, j) => i = j
<1>1. ASSUME HasName(t, name)
      PROVE  \E id : HasEntry(t, name, id)
  <2>1. PICK i \in Index(t) : t.entries[i].name = name
    BY <1>1 DEF HasName, WithName
  <2>2. t.entries[i] = [name |-> name, id |-> t.entries[i].id]
    BY <2>1, TableTypes DEF Entry
  <2> QED BY <2>2 DEF HasEntry
<1>2. ASSUME NEW id, HasEntry(t, name, id)
      PROVE  HasName(t, name) /\ GetTopicId(t, name) = id
  BY <1>2, SearchByName
<1> QED BY <1>1, <1>2
------------------------------------------------------------------------------
LEMMA NewTopicsGood ==
  GoodTable(NewTopics)
<1> DEFINE e == [name |-> PredefinedName, id |-> PredefinedId]
<1>1. NewTopics = [entries |-> <<e>>, next |-> BaseId]
  BY DEF NewTopics
<1>2. e \in Entry /\ e.name = PredefinedName /\ e.id = PredefinedId
  BY DEF Entry
<1> HIDE DEF e
<1>3. /\ NewTopics.entries = <<e>> /\ NewTopics.next = BaseId
      /\ NewTopics.entries \in Seq(Entry) /\ Len(NewTopics.entries) = 1
      /\ NewTopics.entries[1] = e
      /\ NewTopics \in [entries : Seq(Entry), next : Nat]
  BY <1>1, <1>2
<1>4. \A i \in Index(NewTopics) : i = 1 /\ NewTopics.entries[i] = e
  BY <1>3
<1>5. IdsFit(NewTopics)
  BY <1>2, <1>3, <1>4 DEF IdsFit, Names
<1> QED BY <1>3, <1>4, <1>5 DEF GoodTable, NamesDiffer, IdsDiffer

\* u is the table t after the insertion of e.
Extended(t, e, next, u) ==
  /\ u \in [entries : Seq(Entry), next : Nat] /\ u.next = next
  /\ Len(u.entries) = Len(t.entries) + 1
  /\ \A i \in Index(t) : u.entries[i] = t.entries[i]
  /\ u.entries[Len(t.entries) + 1] = e
  /\ Index(u) = Index(t) \cup {Len(t.entries) + 1}
  /\ Len(t.entries) + 1 \notin Index(t)

LEMMA ExtendFacts ==
  ASSUME NEW t, GoodTable(t), NEW e \in Entry, NEW next \in Nat
  PROVE  Extended(t, e, next, Extend(t, e.name, e.id, next))
<1> DEFINE u == Extend(t, e.name, e.id, next)
<1>1. e = [name |-> e.name, id |-> e.id]
  BY DEF Entry
<1>2. u = [entries |-> Append(t.entries, e), next |-> next]
  BY <1>1 DEF Extend
<1>3. t.entries \in Seq(Entry) /\ Len(t.entries) \in Nat
  BY DEF GoodTable
<1>4. /\ Append(t.entries, e) \in Seq(Entry)
      /\ Len(Append(t.entries, e)) = Len(t.entries) + 1
      /\ \A i \in Index(t) : Append(t.entries, e)[i] = t.entries[i]
      /\ Append(t.entries, e)[Len(t.entries) + 1] = e
  BY <1>3
<1> HIDE DEF u
<1>5. /\ u.entries = Append(t.entries, e) /\ u.next = next
      /\ u \in [entries : Seq(Entry), next : Nat]
  BY <1>2, <1>4
<1>6. Extended(t, e, next, u)
  BY <1>3, <1>4, <1>5 DEF Extended
<1> QED BY <1>6 DEF u

\* A new entry keeps the table good when its name is new and its id fits its
\* kind: a long name takes the next id, a short one an address.
LEMMA ExtendGood ==
  ASSUME NEW t, GoodTable(t), ~IsFull(t), NEW e \in Entry, e.name \in Names,
         ~HasName(t, e.name), NEW next \in Nat,
         \/ e.name \in LongNames /\ e.id = t.next + 1 /\ next = e.id
         \/ e.name \in ShortNames /\ e.id \in AddressIds /\ next = t.next
  PROVE  GoodTable(Extend(t, e.name, e.id, next))
<1> DEFINE u == Extend(t, e.name, e.id, next)
<1>0. Extended(t, e, next, u)
  BY ExtendFacts
<1> HIDE DEF u
<1> DEFINE k == Len(t.entries) + 1
<1>1. /\ u \in [entries : Seq(Entry), next : Nat] /\ u.next = next
      /\ Len(u.entries) = k
      /\ \A i \in Index(t) : u.entries[i] = t.entries[i]
      /\ u.entries[k] = e
      /\ Index(u) = Index(t) \cup {k}
      /\ k \notin Index(t)
  BY <1>0 DEF Extended
<1>2. /\ t.next \in Nat /\ Len(t.entries) \in Nat /\ Len(t.entries) < MaxTopicCount
      /\ BaseId <= t.next /\ t.next < BaseId + Len(t.entries)
  BY DEF GoodTable, IdsFit, IsFull
<1>3. \A i \in Index(t) : t.entries[i].id \in Nat /\ t.entries[i].name # e.name
  BY TableTypes DEF HasName, WithName
<1>4. e.id \in Nat
  BY DEF Entry
<1>5. IdsFit(u)
  <2>1. BaseId <= u.next /\ u.next < BaseId + Len(u.entries) /\ t.next <= u.next
    <3>1. next = t.next + 1 \/ next = t.next
      OBVIOUS
    <3>2. BaseId \in Nat
      BY IdsAssumption
    <3>3. u.next = next /\ Len(u.entries) = Len(t.entries) + 1
      BY <1>1
    <3> QED BY <1>2, <3>1, <3>2, <3>3
  <2>2. ASSUME NEW i \in Index(t)
        PROVE  LET x == u.entries[i]
               IN /\ x.name = PredefinedName => x.id = PredefinedId
                  /\ x.name \in LongNames => BaseId < x.id /\ x.id <= u.next
                  /\ x.name \in ShortNames => x.id \in AddressIds
    <3>1. u.entries[i] = t.entries[i] /\ t.entries[i].id \in Nat
      BY <1>1, <1>3
    <3>2. LET x == t.entries[i]
          IN /\ x.name = PredefinedName => x.id = PredefinedId
             /\ x.name \in LongNames => BaseId < x.id /\ x.id <= t.next
             /\ x.name \in ShortNames => x.id \in AddressIds
      BY DEF GoodTable, IdsFit
    <3>3. t.next \in Nat /\ u.next \in Nat /\ t.next <= u.next
      BY <1>1, <1>2, <2>1
    <3> QED BY <3>1, <3>2, <3>3
  <2>3. LET x == u.entries[k]
        IN /\ x.name = PredefinedName => x.id = PredefinedId
           /\ x.name \in LongNames => BaseId < x.id /\ x.id <= u.next
           /\ x.name \in ShortNames => x.id \in AddressIds
    BY <1>1, <1>2, <1>4 DEF Names
  <2> QED BY <1>1, <2>1, <2>2, <2>3 DEF IdsFit
<1>6. NamesDiffer(u)
  BY <1>1, <1>3 DEF GoodTable, NamesDiffer
<1>7. IdsDiffer(u)
  <2>1. ASSUME NEW i \in Index(t), t.entries[i].name \in LongNames
        PROVE  t.entries[i].id <= t.next
    BY <2>1 DEF GoodTable, IdsFit
  <2>2. ASSUME NEW i \in Index(t), t.entries[i].name \in LongNames, e.name \in LongNames
        PROVE  t.entries[i].id # e.id
    <3>1. e.id = t.next + 1
      BY <2>2, NamesAssumption
    <3> QED BY <2>1, <2>2, <3>1, <1>2, <1>3
  <2>3. \A i, j \in Index(t) :
           /\ u.entries[i].name \in LongNames /\ u.entries[j].name \in LongNames
           /\ u.entries[i].id = u.entries[j].id
           => i = j
    BY <1>1 DEF GoodTable, IdsDiffer
  <2> QED BY <1>1, <2>2, <2>3 DEF IdsDiffer
<1>8. Len(u.entries) >= 1 /\ Len(u.entries) <= MaxTopicCount
  BY <1>1, <1>2
<1> QED BY <1>1, <1>5, <1>6, <1>7, <1>8 DEF GoodTable, u

(* createTopic() in its three cases: the name is known, the table is full, *)
(* or a new entry is made.  The table stays good and keeps its entries,    *)
(* and a long name that gets an id has it in the table.                    *)
LEMMA CreateFacts ==
  ASSUME NEW t, GoodTable(t), NEW name \in Names, NEW a \in AddressIds,
         NEW u, u = CreateTopic(t, name, a)
  PROVE  /\ GoodTable(u)
         /\ \A n, id : HasEntry(t, n, id) => HasEntry(u, n, id)
         /\ CreatedId(t, name) \in 0 .. IdRange - 1
         /\ name \in LongNames /\ CreatedId(t, name) # NoTopic
              => HasEntry(u, name, CreatedId(t, name))
<1>1. CASE HasName(t, name)
  <2>1. u = t /\ CreatedId(t, name) = GetTopicId(t, name)
    BY <1>1 DEF CreateTopic, CreatedId
  <2>2. PICK i \in Index(t) : t.entries[i].name = name
    BY <1>1 DEF HasName, WithName
  <2>3. t.entries[i] = [name |-> name, id |-> t.entries[i].id]
        /\ t.entries[i].id \in 0 .. IdRange - 1
    BY <2>2, TableTypes DEF Entry
  <2>4. HasEntry(t, name, t.entries[i].id)
    BY <2>3 DEF HasEntry
  <2>5. GetTopicId(t, name) = t.entries[i].id
    BY <2>4, SearchByName
  <2> QED BY <2>1, <2>3, <2>4, <2>5
<1>2. CASE ~HasName(t, name) /\ IsFull(t)
  <2>1. u = t /\ CreatedId(t, name) = NoTopic
    BY <1>2 DEF CreateTopic, CreatedId
  <2> QED BY <2>1 DEF NoTopic
<1>3. CASE ~HasName(t, name) /\ ~IsFull(t)
  <2> DEFINE next == IF name \in ShortNames THEN t.next ELSE t.next + 1
             id == IF name \in ShortNames THEN a ELSE t.next + 1
             e == [name |-> name, id |-> id]
  <2>1. /\ t.next \in Nat /\ BaseId <= t.next /\ Len(t.entries) \in Nat
        /\ t.next + 1 < IdRange
    BY <1>3 DEF GoodTable, IdsFit, IsFull
  <2>2. NextTopicId(t.next) = t.next + 1
    BY <2>1, NextIdFact
  <2>3. u = Extend(t, e.name, e.id, next) /\ CreatedId(t, name) = next
    BY <1>3, <2>2 DEF CreateTopic, CreatedId
  <2>4. id \in 0 .. IdRange - 1 /\ next \in 0 .. IdRange - 1 /\ next \in Nat
    BY <2>1
  <2>5. e \in Entry /\ e.name = name /\ e.id = id
    BY <2>4 DEF Entry
  <2>6. \/ e.name \in LongNames /\ e.id = t.next + 1 /\ next = e.id
        \/ e.name \in ShortNames /\ e.id \in AddressIds /\ next = t.next
    BY <2>5 DEF Names
  <2> HIDE DEF e, id, next
  <2>7. GoodTable(u)
    BY <1>3, <2>3, <2>4, <2>5, <2>6, ExtendGood
  <2>8. Extended(t, e, next, u)
    BY <2>3, <2>4, <2>5, ExtendFacts
  <2>9. /\ \A i \in Index(t) : u.entries[i] = t.entries[i]
        /\ u.entries[Len(t.entries) + 1] = e
        /\ Index(u) = Index(t) \cup {Len(t.entries) + 1}
    BY <2>8 DEF Extended
  <2>10. \A n, x : HasEntry(t, n, x) => HasEntry(u, n, x)
    BY <2>9 DEF HasEntry
  <2>11. ASSUME name \in LongNames
         PROVE  HasEntry(u, name, CreatedId(t, name))
    BY <2>3, <2>5, <2>6, <2>9, <2>11 DEF HasEntry, e
  <2> QED BY <2>3, <2>4, <2>7, <2>10, <2>11
<1> QED BY <1>1, <1>2, <1>3

(* What createTopic() adds: one entry at most, for a name that is new to a *)
(* table that is not full.  Without an id there was no room for the name.  *)
LEMMA CreateNew ==
  ASSUME NEW t, GoodTable(t), NEW name \in Names, NEW a \in AddressIds,
         NEW u, u = CreateTopic(t, name, a)
  PROVE  /\ \A n \in LongNames : \A id : HasEntry(u, n, id) =>
              \/ HasEntry(t, n, id)
              \/ n = name /\ ~HasName(t, n) /\ ~IsFull(t) /\ id = CreatedId(t, name)
         /\ IsFull(t) => u = t
         /\ name \in LongNames /\ CreatedId(t, name) = NoTopic => IsFull(t) /\ ~HasName(t, name)
<1>1. CASE HasName(t, name)
  <2>1. u = t /\ CreatedId(t, name) = GetTopicId(t, name)
    BY <1>1 DEF CreateTopic, CreatedId
  <2>2. PICK id : HasEntry(t, name, id)
    BY <1>1, NamedEntry
  <2>3. name \in LongNames => CreatedId(t, name) # NoTopic
    <3>1. ASSUME name \in LongNames
          PROVE  id > BaseId /\ id \in 0 .. IdRange - 1
      BY <2>2, <3>1, LongIds
    <3>2. CreatedId(t, name) = id
      BY <2>1, <2>2, SearchByName
    <3> QED BY <3>1, <3>2 DEF NoTopic
  <2> QED BY <2>1, <2>3
<1>2. CASE ~HasName(t, name) /\ IsFull(t)
  <2>1. u = t
    BY <1>2 DEF CreateTopic
  <2> QED BY <1>2, <2>1
<1>3. CASE ~HasName(t, name) /\ ~IsFull(t)
  <2> DEFINE next == IF name \in ShortNames THEN t.next ELSE t.next + 1
             id == IF name \in ShortNames THEN a ELSE t.next + 1
             e == [name |-> name, id |-> id]
  <2>1. /\ t.next \in Nat /\ BaseId <= t.next /\ Len(t.entries) \in Nat
        /\ t.next + 1 < IdRange
    BY <1>3 DEF GoodTable, IdsFit, IsFull
  <2>2. NextTopicId(t.next) = t.next + 1
    BY <2>1, NextIdFact
  <2>3. u = Extend(t, e.name, e.id, next) /\ CreatedId(t, name) = next
    BY <1>3, <2>2 DEF CreateTopic, CreatedId
  <2>4. id \in 0 .. IdRange - 1 /\ next \in Nat
    BY <2>1
  <2>5. e \in Entry /\ e.name = name /\ e.id = id
    BY <2>4 DEF Entry
  <2>6. name \in LongNames => id = next /\ next # NoTopic
    BY <2>1 DEF NoTopic, Names
  <2> HIDE DEF e, id, next
  <2>7. Extended(t, e, next, u)
    BY <2>3, <2>4, <2>5, ExtendFacts
  <2>8. /\ \A i \in Index(t) : u.entries[i] = t.entries[i]
        /\ u.entries[Len(t.entries) + 1] = e
        /\ Index(u) = Index(t) \cup {Len(t.entries) + 1}
    BY <2>7 DEF Extended
  <2>9. ASSUME NEW n \in LongNames, NEW x, HasEntry(u, n, x)
        PROVE  HasEntry(t, n, x) \/ (n = name /\ x = CreatedId(t, name))
    <3>1. PICK i \in Index(u) : u.entries[i] = [name |-> n, id |-> x]
      BY <2>9 DEF HasEntry
    <3>2. CASE i \in Index(t)
      BY <2>8, <3>1, <3>2 DEF HasEntry
    <3>3. CASE i = Len(t.entries) + 1
      <4>1. e = [name |-> n, id |-> x]
        BY <2>8, <3>1, <3>3
      <4>2. e.name = n /\ e.id = x
        BY <4>1
      <4> QED BY <2>3, <2>5, <2>6, <4>2
    <3> QED BY <2>8, <3>1, <3>2, <3>3
  <2> QED BY <1>3, <2>3, <2>6, <2>9
<1> QED BY <1>1, <1>2, <1>3

\* A new table has no long name.
LEMMA NewTopicsEmpty ==
  ASSUME NEW n \in LongNames
  PROVE  ~HasName(NewTopics, n) /\ \A id : ~HasEntry(NewTopics, n, id)
<1>1. NewTopics.entries = <<[name |-> PredefinedName, id |-> PredefinedId]>>
  BY DEF NewTopics
<1>2. \A i \in Index(NewTopics) : NewTopics.entries[i].name = PredefinedName
  BY <1>1
<1>3. ~HasName(NewTopics, n)
  BY <1>2 DEF HasName, WithName, Names
<1> QED BY <1>3, NewTopicsGood, NamedEntry
------------------------------------------------------------------------------
(* One table over time.                                                    *)

GivenInv ==
  /\ given \subseteq LongNames \X (0 .. IdRange - 1)
  /\ \A pair \in given : HasEntry(table, pair[1], pair[2])

TableInv == GoodTable(table) /\ GivenInv
------------------------------------------------------------------------------
LEMMA TableInitInv ==
  TableInit => TableInv
BY NewTopicsGood DEF TableInit, TableInv, GivenInv

LEMMA TableNextInv ==
  TableInv /\ [TableNext]_tableVars => TableInv'
<1> SUFFICES ASSUME TableInv, [TableNext]_tableVars
             PROVE  TableInv'
  OBVIOUS
<1>1. ASSUME NEW name \in Names, NEW a \in AddressIds, Create(name, a)
      PROVE  TableInv'
  <2>1. /\ GoodTable(table')
        /\ \A n, id : HasEntry(table, n, id) => HasEntry(table', n, id)
        /\ CreatedId(table, name) \in 0 .. IdRange - 1
        /\ name \in LongNames /\ CreatedId(table, name) # NoTopic
             => HasEntry(table', name, CreatedId(table, name))
    BY <1>1, CreateFacts DEF TableInv, Create
  <2>2. given' \subseteq LongNames \X (0 .. IdRange - 1)
    BY <1>1, <2>1 DEF TableInv, GivenInv, Create
  <2>3. \A pair \in given' : HasEntry(table', pair[1], pair[2])
    <3>1. CASE name \in LongNames /\ CreatedId(table, name) # NoTopic
      <4>1. given' = given \cup {<<name, CreatedId(table, name)>>}
        BY <1>1, <3>1 DEF Create
      <4> QED BY <2>1, <3>1, <4>1 DEF TableInv, GivenInv
    <3>2. CASE ~(name \in LongNames /\ CreatedId(table, name) # NoTopic)
      <4>1. given' = given
        BY <1>1, <3>2 DEF Create
      <4> QED BY <2>1, <4>1 DEF TableInv, GivenInv
    <3> QED BY <3>1, <3>2
  <2> QED BY <2>1, <2>2, <2>3 DEF TableInv, GivenInv
<1>2. CASE Renew
  BY <1>2, NewTopicsGood DEF Renew, TableInv, GivenInv
<1>3. CASE UNCHANGED tableVars
  BY <1>3 DEF tableVars, TableInv, GivenInv
<1> QED BY <1>1, <1>2, <1>3 DEF TableNext

(* The ids stay below the range of 16 bits, the last one given too.        *)
THEOREM TableTypeCorrect == TableSpec => []TableTypeOK
<1>1. TableInv => TableTypeOK
  BY TableTypes DEF TableInv, GivenInv, TableTypeOK
<1> QED BY TableInitInv, TableNextInv, <1>1, PTL DEF TableSpec

(* No table grows beyond its limit or holds a name twice, whatever is      *)
(* registered, subscribed or published.                                    *)
THEOREM NamesUniqueHolds == TableSpec => []NamesUnique
<1>1. TableInv => NamesUnique
  BY DEF TableInv, GoodTable, NamesDiffer, NamesUnique
<1> QED BY TableInitInv, TableNextInv, <1>1, PTL DEF TableSpec

(* An id given to a client keeps its meaning until the session is renewed, *)
(* for every number of topics below the id range.                          *)
THEOREM ToldIdsResolveHolds == TableSpec => []ToldIdsResolve
<1>1. TableInv => ToldIdsResolve
  <2> SUFFICES ASSUME TableInv, NEW pair \in given
               PROVE  /\ HasId(table, pair[2])
                      /\ GetTopicName(table, pair[2]) = pair[1]
                      /\ GetTopicId(table, pair[1]) = pair[2]
    BY DEF ToldIdsResolve
  <2>1. HasEntry(table, pair[1], pair[2]) /\ pair[1] \in LongNames /\ GoodTable(table)
    BY DEF TableInv, GivenInv
  <2> QED BY <2>1, SearchByName, SearchById
<1> QED BY TableInitInv, TableNextInv, <1>1, PTL DEF TableSpec
==============================================================================
