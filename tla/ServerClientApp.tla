-------------------------- MODULE ServerClientApp --------------------------
(***************************************************************************)
(* The whole application: the server, the subscriber processes, the users  *)
(* at both consoles and the UDP clients.  The server and the subscribers   *)
(* share only the connections of Sockets.                                  *)
(***************************************************************************)
EXTENDS Server, Subscriber

CONSTANTS
  Lines,          \* lines typed to the server's console
  ConsoleCap,     \* bound: lines typed and not read yet
  MaxDatagrams    \* bound: datagrams that ever arrive at the UDP socket

ASSUME AppAssumption ==
  /\ IsFiniteSet(Ids)
  /\ IdOf \in [Procs -> Ids]
  /\ SubTopics \subseteq Patterns
  /\ ConsoleCap \in Nat
  /\ MaxDatagrams \in Nat

VARIABLE arrived  \* the number of datagrams that have arrived

vars == <<socketVars, serverVars, subscriberVars, arrived>>

Init ==
  /\ SocketsInit
  /\ ServerInit
  /\ SubscriberInit
  /\ arrived = 0

ServerStep == ServerNext /\ UNCHANGED <<subscriberVars, arrived>>

ProcStep(p) == SubscriberStep(p) /\ UNCHANGED <<serverVars, arrived>>

TypeConsole ==
  /\ \E line \in Lines : TypeLine(line, ConsoleCap)
  /\ UNCHANGED <<socketVars, subscriberVars, arrived>>

SendDatagram ==
  /\ arrived < MaxDatagrams
  /\ arrived' = arrived + 1
  /\ \E topic \in Topics, valid \in BOOLEAN :
       ArriveDatagram(topic, valid, arrived + 1)
  /\ UNCHANGED <<socketVars, subscriberVars>>

UserOf(p) == UserStep(p, Running) /\ UNCHANGED <<serverVars, arrived>>

(* The server has ended and so have the subscribers.                       *)
Finished ==
  /\ ~ Running
  /\ \A p \in Procs : At(p, "off")
  /\ UNCHANGED vars

Next ==
  \/ ServerStep
  \/ \E p \in Procs : ProcStep(p) \/ UserOf(p)
  \/ TypeConsole
  \/ SendDatagram
  \/ Finished

Spec == Init /\ [][Next]_vars

(* The server's thread runs when it can, and so does each subscriber's.    *)
(* Nobody must type, kill, start a process or send a datagram.             *)
Fairness ==
  /\ WF_vars(ServerStep)
  /\ \A p \in Procs : WF_vars(ProcStep(p))

FairSpec == Spec /\ Fairness
=============================================================================
