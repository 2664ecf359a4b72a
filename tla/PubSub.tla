------------------------------- MODULE PubSub -------------------------------
(***************************************************************************)
(* What the server promises, without connections, descriptors, rounds and  *)
(* queues: one session per id, held by a process that was started with it; *)
(* subscriptions only that process changes and that outlive the session;   *)
(* every datagram forwarded to exactly those who are in session and        *)
(* subscribed when it is received, before anything changes.                *)
(***************************************************************************)
CONSTANTS
  Procs, Nobody,
  Ids, IdOf,
  Topics, Patterns,
  Numbers,              \* datagrams are told apart by a number
  IsSubscribed(_, _)    \* do these subscriptions match this topic

VARIABLES
  serving,              \* has the server not ended
  session,              \* the process in session under each id, or Nobody
  topics,               \* the subscriptions of each id
  outgoing              \* the copies of the last datagram that are still to be sent

serviceVars == <<serving, session, topics, outgoing>>

ServiceInit ==
  /\ serving = TRUE
  /\ session = [id \in Ids |-> Nobody]
  /\ topics = [id \in Ids |-> {}]
  /\ outgoing = {}

Idle == serving /\ outgoing = {}

Admit(p) ==
  /\ Idle
  /\ session[IdOf[p]] = Nobody
  /\ session' = [session EXCEPT ![IdOf[p]] = p]
  /\ UNCHANGED <<serving, topics, outgoing>>

Leave(p) ==
  /\ Idle
  /\ session[IdOf[p]] = p
  /\ session' = [session EXCEPT ![IdOf[p]] = Nobody]
  /\ UNCHANGED <<serving, topics, outgoing>>

Change(p, topic) ==
  /\ Idle
  /\ session[IdOf[p]] = p
  /\ \E new \in {topics[IdOf[p]] \cup {topic}, topics[IdOf[p]] \ {topic}} :
       topics' = [topics EXCEPT ![IdOf[p]] = new]
  /\ UNCHANGED <<serving, session, outgoing>>

Subscribed(topic) ==
  {id \in Ids : session[id] # Nobody /\ IsSubscribed(topics[id], topic)}

Forward(topic, n) ==
  /\ Idle
  /\ outgoing' = {[to |-> session[id], topic |-> topic, n |-> n] : id \in Subscribed(topic)}
  /\ UNCHANGED <<serving, session, topics>>

Send ==
  /\ \E copy \in outgoing : outgoing' = outgoing \ {copy}
  /\ UNCHANGED <<serving, session, topics>>

Close ==
  /\ serving
  /\ serving' = FALSE
  /\ session' = [id \in Ids |-> Nobody]
  /\ topics' = [id \in Ids |-> {}]
  /\ outgoing' = {}

ServiceNext ==
  \/ \E p \in Procs : \/ Admit(p)
                      \/ Leave(p)
                      \/ \E topic \in Patterns : Change(p, topic)
  \/ \E topic \in Topics, n \in Numbers : Forward(topic, n)
  \/ Send
  \/ Close

ServiceSpec == ServiceInit /\ [][ServiceNext]_serviceVars
=============================================================================
