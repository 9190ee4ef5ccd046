------------------------------- MODULE Topics -------------------------------
(***************************************************************************)
(* One client's topic table over time.  GatewayControlTask is its only     *)
(* user: it creates topics for REGISTER, SUBSCRIBE and downstream PUBLISH, *)
(* and replaces the table at a CONNECT with a clean session.  Every id it  *)
(* returns is given to the client, which keeps using it, as `given` says.  *)
(***************************************************************************)
EXTENDS TopicTable

VARIABLES table,   \* ClientNode::_topics
          given    \* <<name, id>> for each long name an id was returned for

tableVars == <<table, given>>

TableInit == table = NewTopics /\ given = {}

Create(name, a) ==
  /\ table' = CreateTopic(table, name, a)
  /\ given' = IF name \in LongNames /\ CreatedId(table, name) # NoTopic
              THEN given \cup {<<name, CreatedId(table, name)>>}
              ELSE given

\* delete topics; topics = new Topics()
Renew == table' = NewTopics /\ given' = {}

TableNext == (\E name \in Names, a \in AddressIds : Create(name, a)) \/ Renew

TableSpec == TableInit /\ [][TableNext]_tableVars
-----------------------------------------------------------------------------
TableTypeOK ==
  /\ table.entries \in Seq(Entry) /\ table.next \in BaseId .. IdRange - 1
  /\ given \subseteq LongNames \X (0 .. IdRange - 1)

(* The table never outgrows MAX_TOPIC_COUNT, and no name is in it twice:   *)
(* getTopic() would only ever find the first.                              *)
NamesUnique ==
  /\ Len(table.entries) <= MaxTopicCount
  /\ \A i, j \in Index(table) :
       table.entries[i].name = table.entries[j].name => i = j

(* Every id a client was given for a long name still stands for that name, *)
(* in both directions: a PUBLISH with the id goes to that name, and one on *)
(* the name comes back with the id.                                        *)
ToldIdsResolve ==
  \A pair \in given :
    /\ HasId(table, pair[2])
    /\ GetTopicName(table, pair[2]) = pair[1]
    /\ GetTopicId(table, pair[1]) = pair[2]
=============================================================================
