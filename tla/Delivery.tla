------------------------------ MODULE Delivery ------------------------------
(***************************************************************************)
(* The way of a datagram through the server to the clients' screens: it is *)
(* converted (Payload), its topic is compared with the subscriptions       *)
(* (Wildcards), and one tcp_message is sent byte by byte to each client    *)
(* that wants it (Framing).  Each action of ServerClientApp that moves a   *)
(* whole message is here the sequence of pieces it stands for.             *)
(***************************************************************************)
EXTENDS Framing, Wildcards, Payload, Protocols

CONSTANTS
  Datagrams,      \* what UDP clients send: a topic and a payload
  Bursts,         \* sequences of them as they may come to its UDP socket
  Subscriptions,  \* what each client may be subscribed to from earlier sessions
  Patterns,       \* what each client may subscribe to, or leave, now
  Text(_, _),     \* the bytes of a formatted message, with the final NUL
  Mortal,         \* bound: the clients whose process may end by itself
  MaxPosted       \* bound: the messages one client is sent

ASSUME DeliveryAssumption ==
  /\ \A d \in Datagrams :
       /\ d.topic \in Seq(STRING)
       /\ d.data_type \in Byte /\ d.sign \in Byte /\ d.power \in Nat
       /\ d.number \in uint32_t
       /\ interpret_udp_payload(d) # Unsupported =>
            LET text == Text(d.topic, interpret_udp_payload(d))
            IN  text \in Seq(Byte) /\ Len(text) \in Lengths \ {0}
  /\ Bursts \subseteq Seq(Datagrams)
  /\ Subscriptions \subseteq [Clients -> SUBSET Seq(STRING)]
  /\ Patterns \in [Clients -> SUBSET Seq(STRING)]
  /\ MaxPosted \in Nat

VARIABLES
  udpq,               \* the datagrams the server has not received yet
  phase,              \* "poll", "fanout" (sending a message) or "ended"
  todo,               \* the clients the message has still to be sent to
  subscribed_topics,  \* the subscriptions of each client
  connected,          \* the clients the server holds for connected
  alive,              \* the clients whose process runs
  log                 \* history: each datagram, the subscriptions it met and its recipients

serverVars   == <<udpq, phase, todo, subscribed_topics, connected, log>>
deliveryVars == <<serverVars, alive, framingVars>>

DeliveryInit ==
  /\ FramingInit
  /\ phase = "poll"
  /\ todo = {}
  /\ udpq \in Bursts
  /\ subscribed_topics \in Subscriptions
  /\ connected = Clients
  /\ alive = Clients
  /\ log = <<>>

(* A message is ready for send_efficient().                                *)
Prepare(command, payload, clients) ==
  /\ msg' = [command |-> command, len |-> Memory(Len(payload)), payload |-> payload]
  /\ todo' = clients
  /\ phase' = "fanout"
  /\ UNCHANGED <<to, stage, left, posted, stream, receiverVars>>

(* Mutant: the wildcards are not tried.                                    *)
RecipientsLiteral(topic) == {c \in connected : topic \in subscribed_topics[c]}

Recipients(topic) == {c \in connected : IsSubscribed(subscribed_topics[c], topic)}

Log(d, clients) ==
  log' = Append(log, [datagram |-> d, subscribed |-> subscribed_topics, to |-> clients])

(* manage_udp_message(); a data type that is not supported is dropped.     *)
ManageUdpMessage ==
  LET d == Head(udpq)
      content == interpret_udp_payload(d)
  IN  /\ phase = "poll"
      /\ udpq # <<>>
      /\ udpq' = Tail(udpq)
      /\ \A c \in Clients : Len(posted[c]) < MaxPosted
      /\ \/ /\ content # Unsupported
            /\ Prepare(MSG_FROM_UDP, Text(d.topic, content), Recipients(d.topic))
            /\ Log(d, Recipients(d.topic))
         \/ /\ content = Unsupported
            /\ Log(d, {})
            /\ UNCHANGED <<phase, todo, framingVars>>
      /\ UNCHANGED <<subscribed_topics, connected, alive>>

(* A request arrives and is answered; the answer has no payload.           *)
Answer(command, subscribed) ==
  IF command = SUBSCRIBE_REQ
  THEN IF subscribed THEN SUBSCRIBE_FAIL ELSE SUBSCRIBE_SUCC
  ELSE IF subscribed THEN UNSUBSCRIBE_SUCC ELSE UNSUBSCRIBE_FAIL

ManageRequest(c, command, topic) ==
  /\ phase = "poll"
  /\ c \in connected \cap alive
  /\ Len(posted[c]) < MaxPosted
  /\ Prepare(Answer(command, topic \in subscribed_topics[c]), <<>>, {c})
  /\ subscribed_topics' = [subscribed_topics EXCEPT ![c] =
                             IF command = SUBSCRIBE_REQ THEN @ \cup {topic} ELSE @ \ {topic}]
  /\ UNCHANGED <<udpq, connected, alive, log>>

(* The loop over the clients, whose order is that of a hash table.         *)
NextRecipient(c) ==
  /\ phase = "fanout"
  /\ c \in todo
  /\ StartSend(c)
  /\ todo' = todo \ {c}
  /\ UNCHANGED <<udpq, phase, subscribed_topics, connected, alive, log>>

FanoutOver ==
  /\ phase = "fanout"
  /\ to = NoClient
  /\ todo = {}
  /\ phase' = "poll"
  /\ UNCHANGED <<udpq, todo, subscribed_topics, connected, alive, log, framingVars>>

SendBytes ==
  /\ phase = "fanout"
  /\ SendStep
  /\ UNCHANGED <<serverVars, alive>>

(* The server's process ends, wherever it is: by a signal, or by the DIE   *)
(* after a send() to a client that is gone.                                *)
ServerEnds ==
  /\ phase # "ended"
  /\ phase' = "ended"
  /\ UNCHANGED <<udpq, todo, subscribed_topics, connected, log, alive, framingVars>>

(* Mutant: an error of send() is not an end.                               *)
SendRetries == to \notin alive \cup {NoClient} /\ UNCHANGED deliveryVars

SendFails == to \notin alive \cup {NoClient} /\ ServerEnds

DisconnectClient(c) ==
  /\ phase = "poll"
  /\ c \in connected \ alive
  /\ connected' = connected \ {c}
  /\ UNCHANGED <<udpq, phase, todo, subscribed_topics, log, alive, framingVars>>

ReceiveBytes(c) ==
  /\ c \in alive
  /\ ReceiveStep(c)
  /\ UNCHANGED <<serverVars, alive>>

(* The user exits or kills the process, or recv_efficient() returns 0 or   *)
(* -1 although a message has begun.                                        *)
ClientEnds(c) ==
  /\ c \in alive
  /\ alive' = alive \ {c}
  /\ UNCHANGED <<serverVars, framingVars>>

EndOfFile(c) ==
  /\ phase = "ended"
  /\ stream[c] = <<>>
  /\ ClientEnds(c)

ServerStep ==
  \/ \E c \in Clients : NextRecipient(c)
  \/ FanoutOver
  \/ SendBytes
  \/ SendFails

ClientStep(c) == ReceiveBytes(c) \/ EndOfFile(c)

DeliveryNext ==
  \/ ManageUdpMessage
  \/ \E c \in Clients : \/ \E command \in {SUBSCRIBE_REQ, UNSUBSCRIBE_REQ} :
                             \E topic \in Patterns[c] : ManageRequest(c, command, topic)
                        \/ DisconnectClient(c)
                        \/ ClientStep(c)
                        \/ c \in Mortal /\ ClientEnds(c)
  \/ ServerStep
  \/ ServerEnds
  \/ phase = "ended" /\ alive = {} /\ UNCHANGED deliveryVars

DeliverySpec == DeliveryInit /\ [][DeliveryNext]_deliveryVars

(* Every thread that can run does run; users and UDP clients need not act. *)
DeliveryFairSpec ==
  /\ DeliverySpec
  /\ WF_deliveryVars(ServerStep)
  /\ \A c \in Clients : WF_deliveryVars(ClientStep(c))
=============================================================================
