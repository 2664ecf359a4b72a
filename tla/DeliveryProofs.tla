--------------------------- MODULE DeliveryProofs ---------------------------
(***************************************************************************)
(* Proofs about the way of a datagram to the clients, for any number of    *)
(* clients, any datagrams, subscriptions and texts, any capacity of a      *)
(* connection, and processes that end anywhere.                            *)
(***************************************************************************)
EXTENDS FramingProofs, WildcardProofs

(* The inductive invariant: no message is prepared while one is sent.      *)
DeliveryInv ==
  /\ FramingInv
  /\ udpq \in Seq(Datagrams)
  /\ phase \in {"poll", "fanout", "ended"}
  /\ todo \subseteq Clients
  /\ connected \subseteq Clients
  /\ alive \subseteq Clients
  /\ phase = "poll" => to = NoClient

LEMMA InvTypes ==
  ASSUME DeliveryInv
  PROVE  DeliveryTypeOK /\ LengthKept
  BY DEF DeliveryInv, DeliveryTypeOK, FramingTypeOK, FramingInv, SenderInv, SenderTypes,
         ReceiverInv, ReceiverTypes, StreamTypes

LEMMA CommandBytes ==
  MSG_FROM_UDP \in Byte /\ Answers \subseteq Byte
  BY BaseFacts DEF MSG_FROM_UDP, Answers, SUBSCRIBE_FAIL, SUBSCRIBE_SUCC,
                   UNSUBSCRIBE_FAIL, UNSUBSCRIBE_SUCC

LEMMA DeliveryInitInv == DeliveryInit => DeliveryInv /\ Mail!MailboxInit
  <1> SUFFICES ASSUME DeliveryInit PROVE DeliveryInv /\ Mail!MailboxInit
    OBVIOUS
  <1>1. FramingInit
    BY DEF DeliveryInit
  <1>2. FramingInv /\ Mail!MailboxInit
    BY <1>1, FramingInitInv
  <1>3. udpq \in Seq(Datagrams)
    BY DeliveryAssumption DEF DeliveryInit
  <1> QED
    BY <1>1, <1>2, <1>3 DEF DeliveryInit, FramingInit, DeliveryInv

(* What a step does to the messages: nothing, or a step of Mailboxes.      *)
Same == UNCHANGED <<posted, delivered>>

LEMMA DeliveryStepInv ==
  ASSUME DeliveryInv, [DeliveryNext]_deliveryVars
  PROVE  DeliveryInv' /\ (Same \/ Mail!MailboxNext)
  <1>1. /\ FramingInv /\ udpq \in Seq(Datagrams)
        /\ phase \in {"poll", "fanout", "ended"}
        /\ todo \subseteq Clients /\ connected \subseteq Clients /\ alive \subseteq Clients
        /\ phase = "poll" => to = NoClient
    BY DEF DeliveryInv
  <1>2. ASSUME UNCHANGED framingVars, udpq' \in Seq(Datagrams),
               phase' \in {"poll", "fanout", "ended"},
               todo' \subseteq Clients, connected' \subseteq Clients, alive' \subseteq Clients,
               phase' = "poll" => to = NoClient
        PROVE  DeliveryInv' /\ Same
    <2>1. to' = to
      BY <1>2 DEF framingVars, senderVars
    <2> QED
      BY <1>1, <1>2, <2>1, FramingStutters DEF DeliveryInv, Same
  <1>3. ASSUME NEW command \in Byte, NEW payload \in Seq(Byte), Len(payload) \in Lengths,
               NEW clients \in SUBSET Clients, Prepare(command, payload, clients),
               phase = "poll", udpq' \in Seq(Datagrams), UNCHANGED <<connected, alive>>
        PROVE  DeliveryInv' /\ Same
    <2>1. /\ msg' = [command |-> command, len |-> Memory(Len(payload)), payload |-> payload]
          /\ UNCHANGED <<to, stage, left, posted, stream, receiverVars>>
          /\ todo' = clients /\ phase' = "fanout"
      BY <1>3 DEF Prepare
    <2>2. FramingInv' /\ UNCHANGED <<posted, delivered>>
      BY <1>1, <1>3, <2>1, NewMessageInv
    <2> QED
      BY <1>1, <1>3, <2>1, <2>2 DEF DeliveryInv, Same
  <1>4. CASE ManageUdpMessage
    <2> DEFINE dgram   == Head(udpq)
               content == interpret_udp_payload(dgram)
               text    == Text(dgram.topic, content)
    <2>1. /\ phase = "poll" /\ udpq # <<>> /\ udpq' = Tail(udpq)
          /\ UNCHANGED <<subscribed_topics, connected, alive>>
      BY <1>4 DEF ManageUdpMessage
    <2>2. dgram \in Datagrams /\ Tail(udpq) \in Seq(Datagrams)
      BY <1>1, <2>1
    <2>3. CASE content # Unsupported /\ Prepare(MSG_FROM_UDP, text, Recipients(dgram.topic))
      <3>1. text \in Seq(Byte) /\ Len(text) \in Lengths
        BY <2>2, <2>3, DeliveryAssumption
      <3>2. Recipients(dgram.topic) \in SUBSET Clients
        BY <1>1 DEF Recipients
      <3> HIDE DEF text, dgram
      <3> QED
        BY <1>3, <2>1, <2>2, <2>3, <3>1, <3>2, CommandBytes
    <2>4. CASE UNCHANGED <<phase, todo, framingVars>>
      BY <1>1, <1>2, <2>1, <2>2, <2>4
    <2> QED
      BY <1>4, <2>3, <2>4 DEF ManageUdpMessage
  <1>5. ASSUME NEW c \in Clients, NEW command, NEW topic, ManageRequest(c, command, topic)
        PROVE  DeliveryInv' /\ Same
    <2>1. /\ phase = "poll" /\ UNCHANGED <<udpq, connected, alive>>
          /\ Prepare(Answer(command, topic \in subscribed_topics[c]), <<>>, {c})
      BY <1>5 DEF ManageRequest
    <2>2. <<>> \in Seq(Byte) /\ Len(<<>>) = 0 /\ {c} \in SUBSET Clients
      OBVIOUS
    <2>3. Len(<<>>) \in Lengths
      BY <2>2, BaseFacts
    <2>4. Answer(command, topic \in subscribed_topics[c]) \in Byte
      BY CommandBytes DEF Answer, Answers
    <2> QED
      BY <1>1, <1>3, <2>1, <2>2, <2>3, <2>4
  <1>6. ASSUME NEW c \in Clients, NextRecipient(c)
        PROVE  DeliveryInv' /\ Mail!MailboxNext
    <2>1. /\ phase = "fanout" /\ StartSend(c) /\ todo' = todo \ {c}
          /\ UNCHANGED <<udpq, phase, connected, alive>>
      BY <1>6 DEF NextRecipient
    <2>2. FramingInv' /\ Mail!Post(c)
      BY <1>1, <2>1, StartSendInv
    <2> QED
      BY <1>1, <2>1, <2>2 DEF DeliveryInv, Mail!MailboxNext
  <1>7. ASSUME FanoutOver PROVE DeliveryInv' /\ Same
    BY <1>1, <1>2, <1>7 DEF FanoutOver
  <1>8. ASSUME SendBytes PROVE DeliveryInv' /\ Same
    <2>1. phase = "fanout" /\ SendStep /\ UNCHANGED <<udpq, phase, todo, connected, alive>>
      BY <1>8 DEF SendBytes, serverVars
    <2>2. FramingInv' /\ Same
      BY <1>1, <2>1, SendStepInv DEF Same
    <2> QED
      BY <1>1, <2>1, <2>2 DEF DeliveryInv
  <1>9. ASSUME ServerEnds PROVE DeliveryInv' /\ Same
    BY <1>1, <1>2, <1>9 DEF ServerEnds
  <1>10. ASSUME NEW c \in Clients, DisconnectClient(c) PROVE DeliveryInv' /\ Same
    BY <1>1, <1>2, <1>10 DEF DisconnectClient
  <1>11. ASSUME NEW c \in Clients, ReceiveBytes(c)
         PROVE  DeliveryInv' /\ (Same \/ Mail!MailboxNext)
    <2>1. ReceiveStep(c) /\ UNCHANGED <<udpq, phase, todo, connected, alive>>
      BY <1>11 DEF ReceiveBytes, serverVars
    <2>2. FramingInv' /\ UNCHANGED posted /\ (UNCHANGED delivered \/ Mail!Collect(c))
      BY <1>1, <2>1, ReceiveStepInv
    <2>3. UNCHANGED to
      BY <1>1, <2>1, ReceiveTypes DEF FramingInv, senderVars
    <2> QED
      BY <1>1, <2>1, <2>2, <2>3 DEF DeliveryInv, Same, Mail!MailboxNext
  <1>12. ASSUME NEW c \in Clients, ClientEnds(c) PROVE DeliveryInv' /\ Same
    BY <1>1, <1>2, <1>12 DEF ClientEnds, serverVars
  <1>13. CASE UNCHANGED deliveryVars
    BY <1>1, <1>2, <1>13 DEF deliveryVars, serverVars
  <1>14. ASSUME NEW c \in Clients, ClientStep(c)
         PROVE  DeliveryInv' /\ (Same \/ Mail!MailboxNext)
    BY <1>11, <1>12, <1>14 DEF ClientStep, EndOfFile
  <1>15. CASE ServerStep
    BY <1>6, <1>7, <1>8, <1>9, <1>15 DEF ServerStep, SendFails
  <1> QED
    BY <1>4, <1>5, <1>9, <1>10, <1>12, <1>13, <1>14, <1>15 DEF DeliveryNext

THEOREM DeliveryInvariant == DeliverySpec => []DeliveryInv
  <1>1. DeliveryInit => DeliveryInv
    BY DeliveryInitInv
  <1>2. DeliveryInv /\ [DeliveryNext]_deliveryVars => DeliveryInv'
    BY DeliveryStepInv
  <1> QED
    BY <1>1, <1>2, PTL DEF DeliverySpec

(* Every variable has its type: no byte is out of range, and no length     *)
(* needs more than its two bytes.                                          *)
THEOREM DeliveryTypes == DeliverySpec => []DeliveryTypeOK
  BY DeliveryInvariant, InvTypes, PTL

(* The structure that is sent has its length in host order whenever it is  *)
(* not the length that is being sent, for every recipient of one message.  *)
THEOREM LengthIsKept == DeliverySpec => []LengthKept
  BY DeliveryInvariant, InvTypes, PTL

(* Clients receive the messages they were sent, whole and in order,        *)
(* however send() and recv() cut them and whichever process ends: the byte *)
(* by byte protocol implements Mailboxes.                                  *)
THEOREM FramesImplementMailboxes == DeliverySpec => KeepsFrames
  <1>1. DeliveryInit => Mail!MailboxInit
    BY DeliveryInitInv
  <1>2. DeliveryInv /\ [DeliveryNext]_deliveryVars => [Mail!MailboxNext]_(Mail!mailboxVars)
    BY DeliveryStepInv DEF Same, Mail!mailboxVars
  <1> QED
    BY <1>1, <1>2, DeliveryInvariant, PTL DEF DeliverySpec, KeepsFrames, Mail!MailboxSpec

(* The number of an INT is printed as it was sent if an int can hold it.   *)
THEOREM NumbersPrintAsSent ==
  \A d \in Datagrams : Representable(d) => interpret_udp_payload(d) = TrueContent(d)
  <1> SUFFICES ASSUME NEW d \in Datagrams, Representable(d)
               PROVE  interpret_udp_payload(d) = TrueContent(d)
    OBVIOUS
  <1>1. CASE d.data_type # 0
    BY <1>1 DEF TrueContent
  <1>2. CASE d.data_type = 0
    <2> DEFINE x == d.number
    <2>1. x \in Int /\ x >= 0 /\ x < 2 * Half /\ Half \in Nat /\ Half > 0
      BY DeliveryAssumption, PayloadAssumption DEF uint32_t
    <2>2. /\ interpret_udp_payload(d) = INT(d)
          /\ TrueContent(d).num \in (- Half)..(Half - 1)
      BY <1>2 DEF interpret_udp_payload, Representable
    <2>3. TrueContent(d).num = IF d.sign = 1 THEN - x ELSE x
      BY <1>2 DEF TrueContent
    <2>4. AsInt(IF d.sign = 1 THEN Negated(x) ELSE x) = IF d.sign = 1 THEN - x ELSE x
      <3> HIDE DEF x
      <3>1. CASE d.sign = 1
        <4>1. - x = 0 - x /\ x <= Half
          BY <2>1, <2>2, <2>3, <3>1
        <4>2. AsInt(Negated(x)) = 0 - x
          <5>1. CASE x = 0
            <6>1. Negated(x) = 0 /\ AsInt(0) = 0
              BY <2>1, <5>1 DEF Negated, AsInt
            <6>2. 0 - x = 0
              BY <5>1
            <6> QED
              BY <6>1, <6>2
          <5>2. CASE x # 0
            BY <2>1, <4>1, <5>2 DEF AsInt, Negated
          <5> QED
            BY <5>1, <5>2
        <4> QED
          BY <3>1, <4>1, <4>2
      <3>2. CASE d.sign # 1
        BY <2>1, <2>2, <2>3, <3>2 DEF AsInt
      <3> QED
        BY <3>1, <3>2
    <2> QED
      BY <1>2, <2>2, <2>4 DEF INT, TrueContent
  <1> QED
    BY <1>1, <1>2

-----------------------------------------------------------------------------
(* What the server decided of each datagram.  A client that runs is one    *)
(* the server holds for connected, so nobody who asked is passed over.     *)
Entries == [datagram   : Datagrams,
            subscribed : [Clients -> SUBSET Seq(STRING)],
            to         : SUBSET Clients]

Asked(e, c) == IsSubscribed(e.subscribed[c], e.datagram.topic)

DecisionsInv ==
  /\ log \in Seq(Entries)
  /\ subscribed_topics \in [Clients -> SUBSET Seq(STRING)]
  /\ alive \subseteq connected
  /\ \A k \in DOMAIN log : \A c \in Clients :
       /\ c \in log[k].to =>
            Asked(log[k], c) /\ interpret_udp_payload(log[k].datagram) # Unsupported
       /\ c \notin log[k].to =>
            \/ ~ Asked(log[k], c)
            \/ interpret_udp_payload(log[k].datagram) = Unsupported
            \/ c \notin alive

LEMMA DecisionsKept ==
  ASSUME DecisionsInv, UNCHANGED <<log, subscribed_topics>>,
         alive' \subseteq alive, alive' \subseteq connected'
  PROVE  DecisionsInv'
  BY DEF DecisionsInv

LEMMA DecisionsGrow ==
  ASSUME DecisionsInv, NEW d \in Datagrams, NEW clients \in SUBSET Clients, Log(d, clients),
         UNCHANGED <<subscribed_topics, connected, alive>>,
         clients = IF interpret_udp_payload(d) = Unsupported THEN {} ELSE Recipients(d.topic)
  PROVE  DecisionsInv'
<1> DEFINE e == [datagram |-> d, subscribed |-> subscribed_topics, to |-> clients]
<1>1. log' = Append(log, e)
  BY DEF Log
<1>2. /\ log \in Seq(Entries) /\ subscribed_topics \in [Clients -> SUBSET Seq(STRING)]
      /\ alive \subseteq connected
  BY DEF DecisionsInv
<1>3. e \in Entries /\ e.datagram = d /\ e.subscribed = subscribed_topics /\ e.to = clients
  BY <1>2 DEF Entries
<1>4. ASSUME NEW c \in Clients
      PROVE  /\ c \in e.to => Asked(e, c) /\ interpret_udp_payload(e.datagram) # Unsupported
             /\ c \notin e.to => \/ ~ Asked(e, c)
                                 \/ interpret_udp_payload(e.datagram) = Unsupported
                                 \/ c \notin alive
  <2> HIDE DEF e
  <2> QED
    BY <1>2, <1>3 DEF Asked, Recipients
<1> HIDE DEF e
<1>5. /\ log' \in Seq(Entries) /\ DOMAIN log' = 1..(Len(log) + 1) /\ DOMAIN log = 1..Len(log)
      /\ log'[Len(log) + 1] = e
      /\ \A k \in DOMAIN log : log'[k] = log[k]
  BY <1>1, <1>2, <1>3
<1>6. ASSUME NEW k \in DOMAIN log', NEW c \in Clients
      PROVE  /\ c \in log'[k].to =>
                  Asked(log'[k], c) /\ interpret_udp_payload(log'[k].datagram) # Unsupported
             /\ c \notin log'[k].to => \/ ~ Asked(log'[k], c)
                                       \/ interpret_udp_payload(log'[k].datagram) = Unsupported
                                       \/ c \notin alive
  <2>1. CASE k \in DOMAIN log
    BY <1>5, <2>1 DEF DecisionsInv
  <2>2. CASE k = Len(log) + 1
    BY <1>4, <1>5, <2>2
  <2> QED
    BY <1>2, <1>5, <2>1, <2>2
<1>7. UNCHANGED <<subscribed_topics, connected, alive>>
  OBVIOUS
<1> QED
  BY <1>2, <1>5, <1>6, <1>7 DEF DecisionsInv, Asked

LEMMA DecisionsStep ==
  ASSUME DeliveryInv, DecisionsInv, [DeliveryNext]_deliveryVars
  PROVE  DecisionsInv'
<1>1. ASSUME UNCHANGED <<log, subscribed_topics, connected>>, alive' \subseteq alive
      PROVE  DecisionsInv'
  BY <1>1, DecisionsKept DEF DecisionsInv
<1>2. CASE ManageUdpMessage
  <2> DEFINE d == Head(udpq)
  <2>1. d \in Datagrams
    BY <1>2 DEF ManageUdpMessage, DeliveryInv
  <2>2. UNCHANGED <<subscribed_topics, connected, alive>>
    BY <1>2 DEF ManageUdpMessage
  <2>3. \/ interpret_udp_payload(d) # Unsupported /\ Log(d, Recipients(d.topic))
        \/ interpret_udp_payload(d) = Unsupported /\ Log(d, {})
    BY <1>2 DEF ManageUdpMessage
  <2>4. Recipients(d.topic) \in SUBSET Clients
    BY DEF Recipients, DeliveryInv
  <2> HIDE DEF d
  <2> QED
    BY <2>1, <2>2, <2>3, <2>4, DecisionsGrow
<1>3. ASSUME NEW c \in Clients, NEW command, NEW topic \in Patterns[c],
             ManageRequest(c, command, topic)
      PROVE  DecisionsInv'
  <2>1. topic \in Seq(STRING)
    BY DeliveryAssumption
  <2>2. /\ UNCHANGED <<connected, alive, log>>
        /\ subscribed_topics' = [subscribed_topics EXCEPT ![c] =
                                   IF command = SUBSCRIBE_REQ THEN @ \cup {topic} ELSE @ \ {topic}]
    BY <1>3 DEF ManageRequest
  <2>3. subscribed_topics' \in [Clients -> SUBSET Seq(STRING)]
    BY <2>1, <2>2 DEF DecisionsInv
  <2> QED
    BY <2>2, <2>3 DEF DecisionsInv
<1>4. ASSUME NEW c \in Clients, DisconnectClient(c) PROVE DecisionsInv'
  BY <1>4, DecisionsKept DEF DisconnectClient, DecisionsInv
<1>5. ASSUME NEW c \in Clients, ClientEnds(c) PROVE DecisionsInv'
  BY <1>1, <1>5 DEF ClientEnds, serverVars
<1>6. ASSUME NEW c \in Clients, ClientStep(c) PROVE DecisionsInv'
  BY <1>1, <1>5, <1>6 DEF ClientStep, EndOfFile, ReceiveBytes, serverVars
<1>7. ServerEnds => DecisionsInv'
  BY <1>1 DEF ServerEnds
<1>8. CASE ServerStep
  BY <1>1, <1>7, <1>8 DEF ServerStep, NextRecipient, FanoutOver, SendBytes, SendFails, serverVars
<1>9. CASE UNCHANGED deliveryVars
  BY <1>1, <1>9 DEF deliveryVars, serverVars
<1> QED
  BY <1>2, <1>3, <1>4, <1>5, <1>6, <1>7, <1>8, <1>9 DEF DeliveryNext

THEOREM DecisionsInvariant == DeliverySpec => []DecisionsInv
<1>1. DeliveryInit => DecisionsInv
  BY DeliveryAssumption DEF DeliveryInit, DecisionsInv
<1>2. DeliveryInv /\ DecisionsInv /\ [DeliveryNext]_deliveryVars => DecisionsInv'
  BY DecisionsStep
<1> QED
  BY <1>1, <1>2, DeliveryInvariant, PTL DEF DeliverySpec

(* A datagram is sent only to clients that a wildcard, or the topic        *)
(* itself, gave a reason to (compare_token_vectors() may be greedy, it is  *)
(* not wrong).                                                             *)
THEOREM NobodyElse == DeliverySpec => []OnlyWhoAsked
<1>1. ASSUME DecisionsInv PROVE OnlyWhoAsked
  <2> SUFFICES ASSUME NEW k \in DOMAIN log, NEW c \in log[k].to
               PROVE  Wants(log[k], c, 0) # {}
    BY DEF OnlyWhoAsked, Range
  <2>1. log[k] \in Entries
    BY <1>1 DEF DecisionsInv
  <2>2. c \in Clients
    BY <2>1 DEF Entries
  <2>3. Asked(log[k], c)
    BY <1>1, <2>2 DEF DecisionsInv
  <2>4. /\ log[k].datagram.topic \in Seq(STRING)
        /\ log[k].subscribed[c] \in SUBSET Seq(STRING)
    BY <2>1, <2>2, DeliveryAssumption DEF Entries
  <2> QED
    BY <2>3, <2>4, SubscribedSound DEF Asked, Wants
<1> QED
  BY <1>1, DecisionsInvariant, PTL

(* A datagram is sent to every client that runs and has a subscription     *)
(* that stands for it, if its stars have no choice.                        *)
THEOREM NobodyPassedOver == DeliverySpec => []EveryoneWhoAsked
<1>1. ASSUME DecisionsInv PROVE EveryoneWhoAsked
  <2> SUFFICES ASSUME NEW k \in DOMAIN log, NEW c \in Clients \ log[k].to,
                      NEW p \in Wants(log[k], c, 1),
                      Unambiguous(Levels(p), Levels(log[k].datagram.topic))
               PROVE  \/ interpret_udp_payload(log[k].datagram) = Unsupported
                      \/ c \notin alive
    BY DEF EveryoneWhoAsked, Range
  <2>1. log[k] \in Entries
    BY <1>1 DEF DecisionsInv
  <2>2. /\ log[k].datagram.topic \in Seq(STRING)
        /\ log[k].subscribed[c] \in SUBSET Seq(STRING)
    BY <2>1, DeliveryAssumption DEF Entries
  <2>3. Asked(log[k], c)
    BY <2>2, SubscribedComplete DEF Asked, Wants
  <2> QED
    BY <1>1, <2>3 DEF DecisionsInv
<1> QED
  BY <1>1, DecisionsInvariant, PTL

-----------------------------------------------------------------------------
(* Which datagram each message is.  The messages posted to c that carry a  *)
(* datagram are, one by one, the decisions for c, except for the decision  *)
(* the server is still carrying out when c is among those left to do.      *)
Due(c, k) ==
  phase = "fanout" /\ msg.command = MSG_FROM_UDP /\ c \in todo /\ k = Len(log)

Carries(payload, k) ==
  payload = Text(log[k].datagram.topic, interpret_udp_payload(log[k].datagram))

Assigned(c, of) ==
  /\ of \in [Udp(posted[c]) -> SentTo(c)]
  /\ InOrder(of, SentTo(c))
  /\ \A i \in DOMAIN of : Carries(posted[c][i].payload, of[i])
  /\ phase # "ended" =>
       \A k \in SentTo(c) : (\E i \in DOMAIN of : of[i] = k) <=> ~ Due(c, k)

Fanout ==
  phase = "fanout" /\ msg.command = MSG_FROM_UDP =>
    log # <<>> /\ todo \subseteq log[Len(log)].to /\ Carries(msg.payload, Len(log))

PrintInv == Fanout /\ \A c \in Clients : \E of : Assigned(c, of)

LEMMA StructureKept ==
  ASSUME FramingInv, SendStep \/ \E c \in Clients : StartSend(c)
  PROVE  msg'.command = msg.command /\ msg'.payload = msg.payload
<1>1. msg \in [command : Byte, len : uint16_t, payload : Seq(Byte)]
  BY DEF FramingInv, SenderInv, SenderTypes
<1>2. ASSUME NEW l, msg' = [msg EXCEPT !.len = l]
      PROVE  msg'.command = msg.command /\ msg'.payload = msg.payload
  BY <1>1, <1>2
<1>3. ASSUME SendStep PROVE msg' = msg \/ \E l : msg' = [msg EXCEPT !.len = l]
  BY <1>3 DEF SendStep, SendPiece, CommandSent, LenSent, PayloadSent, AfterLen
<1>4. ASSUME NEW c \in Clients, StartSend(c) PROVE \E l : msg' = [msg EXCEPT !.len = l]
  BY <1>4 DEF StartSend
<1> QED
  BY <1>2, <1>3, <1>4

(* Nothing is posted and nothing decided.                                  *)
LEMMA PrintKept ==
  ASSUME PrintInv, UNCHANGED <<posted, log>>,
         \A k : \A c \in Clients : phase' # "ended" => phase # "ended" /\ (Due(c, k)' <=> Due(c, k)),
         Fanout'
  PROVE  PrintInv'
<1>1. ASSUME NEW c \in Clients PROVE \E of : Assigned(c, of)'
  <2>1. PICK of : Assigned(c, of)
    BY DEF PrintInv
  <2>2. SentTo(c)' = SentTo(c) /\ Udp(posted[c])' = Udp(posted[c])
    BY DEF SentTo, Udp
  <2>3. Assigned(c, of)'
    BY <2>1, <2>2 DEF Assigned, Carries
  <2> QED
    BY <2>3
<1> QED
  BY <1>1 DEF PrintInv

(* A datagram is decided on, and is due to whom it is for.                 *)
LEMMA PrintDecided ==
  ASSUME PrintInv, phase = "poll", posted \in [Clients -> Seq(TcpMessages)], UNCHANGED posted,
         log \in Seq(Entries), NEW e \in Entries, log' = Append(log, e),
         \/ phase' = "poll" /\ e.to = {}
         \/ /\ phase' = "fanout" /\ msg'.command = MSG_FROM_UDP /\ todo' = e.to
            /\ msg'.payload = Text(e.datagram.topic, interpret_udp_payload(e.datagram))
  PROVE  PrintInv'
<1> DEFINE n == Len(log) + 1
<1>1. /\ n \in Nat /\ DOMAIN log = 1..(n - 1) /\ DOMAIN log' = 1..n /\ Len(log') = n
      /\ log'[n] = e /\ \A k \in 1..(n - 1) : log'[k] = log[k]
      /\ log' # <<>>
  OBVIOUS
<1> HIDE DEF n
<1>2. Fanout'
  BY <1>1 DEF Fanout, Carries
<1>3. ASSUME NEW c \in Clients PROVE \E of : Assigned(c, of)'
  <2>1. PICK of : Assigned(c, of)
    BY DEF PrintInv
  <2>2. /\ of \in [Udp(posted[c]) -> SentTo(c)]
        /\ \A i, j \in DOMAIN of : i < j => of[i] < of[j]
        /\ \A i \in DOMAIN of : \A k \in SentTo(c) : k < of[i] => \E j \in DOMAIN of : of[j] = k
        /\ \A i \in DOMAIN of : Carries(posted[c][i].payload, of[i])
        /\ \A k \in SentTo(c) : \E i \in DOMAIN of : of[i] = k
    BY <2>1 DEF Assigned, InOrder, Due
  <2>3. /\ SentTo(c) \subseteq 1..(n - 1)
        /\ SentTo(c)' = IF c \in e.to THEN SentTo(c) \cup {n} ELSE SentTo(c)
    BY <1>1 DEF SentTo
  <2>4. Udp(posted[c])' = Udp(posted[c])
    BY DEF Udp
  <2>5. \A i \in DOMAIN of : of[i] \in SentTo(c) /\ of[i] \in 1..(n - 1)
    BY <2>2, <2>3
  <2>6. of \in [Udp(posted[c])' -> SentTo(c)']
    BY <2>2, <2>3, <2>4
  <2>7. InOrder(of, SentTo(c)')
    BY <1>1, <2>2, <2>3, <2>5 DEF InOrder
  <2>8. ASSUME NEW i \in DOMAIN of PROVE Carries(posted[c][i].payload, of[i])'
    BY <1>1, <2>2, <2>5 DEF Carries
  <2>9. ASSUME NEW k \in SentTo(c)' PROVE (\E i \in DOMAIN of : of[i] = k) <=> ~ Due(c, k)'
    <3>1. CASE k \in SentTo(c)
      <4>1. k # n
        BY <1>1, <2>3, <3>1
      <4> QED
        BY <1>1, <2>2, <3>1, <4>1 DEF Due
    <3>2. CASE k = n /\ c \in e.to
      <4>1. \A i \in DOMAIN of : of[i] # n
        BY <1>1, <2>5
      <4> QED
        BY <1>1, <3>2, <4>1 DEF Due
    <3> QED
      BY <2>3, <2>9, <3>1, <3>2
  <2>10. Assigned(c, of)'
    BY <2>6, <2>7, <2>8, <2>9 DEF Assigned
  <2> QED
    BY <2>10
<1> QED
  BY <1>2, <1>3 DEF PrintInv

(* A message is posted: the datagram that was due, or an answer.           *)
LEMMA PrintPosted ==
  ASSUME DeliveryInv, PrintInv, log \in Seq(Entries), NEW c \in Clients, NextRecipient(c)
  PROVE  PrintInv'
<1> DEFINE m == [command |-> msg.command, payload |-> msg.payload]
           n == Len(posted[c]) + 1
           N == Len(log)
<1>1. /\ posted \in [Clients -> Seq(TcpMessages)] /\ FramingInv
      /\ msg.command \in Byte /\ msg.payload \in Seq(Byte)
  BY DEF DeliveryInv, FramingInv, SenderInv, SenderTypes
<1>2. /\ StartSend(c) /\ phase = "fanout" /\ c \in todo /\ todo' = todo \ {c}
      /\ UNCHANGED <<phase, log>>
      /\ posted' = [posted EXCEPT ![c] = Append(@, m)]
  BY DEF NextRecipient, StartSend
<1>3. msg'.command = msg.command /\ msg'.payload = msg.payload
  BY <1>1, <1>2, StructureKept
<1>4. m \in TcpMessages /\ m.command = msg.command /\ m.payload = msg.payload
  BY <1>1 DEF TcpMessages
<1> HIDE DEF m
<1>5. /\ n \in Nat /\ n >= 1 /\ DOMAIN posted[c] = 1..(n - 1) /\ DOMAIN posted'[c] = 1..n
      /\ posted'[c][n] = m /\ \A i \in 1..(n - 1) : posted'[c][i] = posted[c][i]
      /\ \A d \in Clients \ {c} : posted'[d] = posted[d]
  BY <1>1, <1>2, <1>4
<1> HIDE DEF n
<1>6. N \in Nat /\ DOMAIN log = 1..N
  OBVIOUS
<1>7. Fanout'
  BY <1>2, <1>3 DEF PrintInv, Fanout, Carries
<1>8. ASSUME NEW d \in Clients \ {c} PROVE \E of : Assigned(d, of)'
  <2>1. PICK of : Assigned(d, of)
    BY DEF PrintInv
  <2>2. SentTo(d)' = SentTo(d) /\ Udp(posted[d])' = Udp(posted[d])
    BY <1>2, <1>5 DEF SentTo, Udp
  <2>3. \A k : Due(d, k)' <=> Due(d, k)
    BY <1>2, <1>3 DEF Due
  <2>4. Assigned(d, of)'
    BY <1>2, <1>5, <2>1, <2>2, <2>3 DEF Assigned, Carries
  <2> QED
    BY <2>4
<1>9. \E of : Assigned(c, of)'
  <2>1. PICK of : Assigned(c, of)
    BY DEF PrintInv
  <2>2. /\ of \in [Udp(posted[c]) -> SentTo(c)]
        /\ \A i, j \in DOMAIN of : i < j => of[i] < of[j]
        /\ \A i \in DOMAIN of : \A k \in SentTo(c) : k < of[i] => \E j \in DOMAIN of : of[j] = k
        /\ \A i \in DOMAIN of : Carries(posted[c][i].payload, of[i])
        /\ \A k \in SentTo(c) : (\E i \in DOMAIN of : of[i] = k) <=> ~ Due(c, k)
    BY <1>2, <2>1 DEF Assigned, InOrder
  <2>3. /\ SentTo(c)' = SentTo(c) /\ SentTo(c) \subseteq 1..N
        /\ Udp(posted[c]) \subseteq 1..(n - 1)
        /\ Udp(posted[c])' = IF msg.command = MSG_FROM_UDP THEN Udp(posted[c]) \cup {n}
                                                          ELSE Udp(posted[c])
    <3>1. SentTo(c)' = SentTo(c) /\ SentTo(c) \subseteq 1..N
      BY <1>2, <1>6 DEF SentTo
    <3>2. Udp(posted[c]) = {i \in 1..(n - 1) : posted[c][i].command = MSG_FROM_UDP}
      BY <1>5 DEF Udp
    <3>3. Udp(posted[c])' = {i \in 1..n : posted'[c][i].command = MSG_FROM_UDP}
      BY <1>5 DEF Udp
    <3>4. 1..n = 1..(n - 1) \cup {n} /\ n \notin 1..(n - 1)
      BY <1>5
    <3> QED
      BY <1>4, <1>5, <3>1, <3>2, <3>3, <3>4
  <2>4. \A k : ~ Due(c, k)'
    BY <1>2 DEF Due
  <2>5. CASE msg.command # MSG_FROM_UDP
    <3>1. Udp(posted[c])' = Udp(posted[c]) /\ \A k : ~ Due(c, k)
      BY <2>3, <2>5 DEF Due
    <3>2. \A i \in DOMAIN of : Carries(posted[c][i].payload, of[i])'
      BY <1>2, <1>5, <2>2, <2>3 DEF Carries
    <3>3. Assigned(c, of)'
      BY <2>2, <2>3, <2>4, <3>1, <3>2 DEF Assigned, InOrder
    <3> QED
      BY <3>3
  <2>6. CASE msg.command = MSG_FROM_UDP
    <3>1. \A k : Due(c, k) <=> k = N
      BY <1>2, <2>6 DEF Due
    <3>2. N \in SentTo(c) /\ Carries(msg.payload, N)
      <4>1. log # <<>> /\ c \in log[N].to /\ Carries(msg.payload, N)
        BY <1>2, <2>6 DEF PrintInv, Fanout
      <4>2. N # 0
        BY <4>1
      <4> QED
        BY <1>6, <4>1, <4>2 DEF SentTo
    <3>3. n \notin Udp(posted[c])
      BY <1>5, <2>3
    <3>4. PICK more : /\ more \in [Udp(posted[c])' -> SentTo(c)']
                      /\ DOMAIN more = DOMAIN of \cup {n} /\ DOMAIN of = Udp(posted[c])
                      /\ more[n] = N
                      /\ \A i \in DOMAIN of : more[i] = of[i]
      <4> DEFINE f == [i \in Udp(posted[c]) \cup {n} |-> IF i = n THEN N ELSE of[i]]
      <4>1. /\ f \in [Udp(posted[c])' -> SentTo(c)']
            /\ DOMAIN f = DOMAIN of \cup {n} /\ DOMAIN of = Udp(posted[c])
            /\ f[n] = N
            /\ \A i \in DOMAIN of : f[i] = of[i]
        BY <2>2, <2>3, <2>6, <3>2, <3>3
      <4> QED
        BY <4>1, Zenon
    <3>5. \A i \in DOMAIN of : of[i] \in SentTo(c) /\ of[i] < N /\ i < n /\ i \in Nat
      <4>1. \A i \in DOMAIN of : of[i] # N /\ of[i] \in SentTo(c)
        BY <2>2, <3>1, <3>2
      <4> QED
        BY <1>5, <1>6, <2>2, <2>3, <4>1
    <3>6. ASSUME NEW i \in DOMAIN more, NEW j \in DOMAIN more, i < j PROVE more[i] < more[j]
      <4>1. CASE i = n
        BY <1>5, <3>4, <3>5, <3>6, <4>1
      <4>2. CASE i \in DOMAIN of /\ j = n
        BY <3>4, <3>5, <4>2
      <4>3. CASE i \in DOMAIN of /\ j \in DOMAIN of
        BY <2>2, <3>4, <3>6, <4>3
      <4> QED
        BY <3>4, <4>1, <4>2, <4>3
    <3>7. ASSUME NEW k \in SentTo(c) PROVE \E j \in DOMAIN more : more[j] = k
      <4>1. CASE k = N
        BY <3>4, <4>1
      <4>2. CASE k # N
        <5>1. PICK j \in DOMAIN of : of[j] = k
          BY <2>2, <3>1, <4>2
        <5> QED
          BY <3>4, <5>1
      <4> QED
        BY <4>1, <4>2
    <3>8. \A i \in DOMAIN more : Carries(posted[c][i].payload, more[i])'
      <4>1. \A i \in DOMAIN of : posted'[c][i] = posted[c][i]
        BY <1>5, <2>3, <3>4
      <4>2. posted'[c][n].payload = msg.payload
        BY <1>4, <1>5
      <4>3. ASSUME NEW i \in DOMAIN more PROVE Carries(posted[c][i].payload, more[i])'
        <5>1. CASE i = n
          BY <1>2, <3>2, <3>4, <4>2, <5>1 DEF Carries
        <5>2. CASE i \in DOMAIN of
          BY <1>2, <2>2, <3>4, <4>1, <5>2 DEF Carries
        <5> QED
          BY <3>4, <5>1, <5>2
      <4> QED
        BY <4>3
    <3>9. InOrder(more, SentTo(c)')
      BY <2>3, <3>6, <3>7 DEF InOrder
    <3>10. Assigned(c, more)'
      BY <2>3, <2>4, <3>4, <3>7, <3>8, <3>9 DEF Assigned
    <3> QED
      BY <3>10
  <2> QED
    BY <2>5, <2>6
<1> QED
  BY <1>7, <1>8, <1>9 DEF PrintInv

LEMMA PrintStep ==
  ASSUME DeliveryInv, DecisionsInv, PrintInv, [DeliveryNext]_deliveryVars
  PROVE  PrintInv'
<1>1. /\ FramingInv /\ posted \in [Clients -> Seq(TcpMessages)]
      /\ udpq \in Seq(Datagrams) /\ log \in Seq(Entries)
      /\ subscribed_topics \in [Clients -> SUBSET Seq(STRING)]
  BY DEF DeliveryInv, FramingInv, SenderInv, SenderTypes, DecisionsInv
<1>2. ASSUME UNCHANGED <<posted, log, phase, todo>>,
             msg'.command = msg.command, msg'.payload = msg.payload
      PROVE  PrintInv'
  <2>1. \A k : \A c \in Clients : Due(c, k)' <=> Due(c, k)
    BY <1>2 DEF Due
  <2>2. Fanout'
    BY <1>2 DEF PrintInv, Fanout, Carries
  <2> QED
    BY <1>2, <2>1, <2>2, PrintKept
<1>3. CASE ManageUdpMessage
  <2> DEFINE d == Head(udpq)
             content == interpret_udp_payload(d)
             e(clients) == [datagram |-> d, subscribed |-> subscribed_topics, to |-> clients]
  <2>1. phase = "poll" /\ udpq # <<>> /\ d \in Datagrams
    BY <1>1, <1>3 DEF ManageUdpMessage
  <2>2. ASSUME NEW clients \in SUBSET Clients
        PROVE  e(clients) \in Entries /\ e(clients).datagram = d /\ e(clients).to = clients
    BY <1>1, <2>1 DEF Entries
  <2>3. ASSUME content # Unsupported, Log(d, Recipients(d.topic)),
               Prepare(MSG_FROM_UDP, Text(d.topic, content), Recipients(d.topic))
        PROVE  PrintInv'
    <3> DEFINE r == Recipients(d.topic)
               text == Text(d.topic, content)
    <3>1. r \in SUBSET Clients
      BY DEF Recipients, DeliveryInv
    <3>2. log' = Append(log, e(r))
      BY <2>3 DEF Log
    <3>3. /\ msg' = [command |-> MSG_FROM_UDP, len |-> Memory(Len(text)), payload |-> text]
          /\ todo' = r /\ phase' = "fanout" /\ UNCHANGED posted
      BY <2>3 DEF Prepare
    <3>4. msg'.command = MSG_FROM_UDP /\ msg'.payload = text
      BY <3>3
    <3>5. e(r) \in Entries /\ e(r).datagram = d /\ e(r).to = r
      BY <2>2, <3>1
    <3>6. msg'.payload = Text(e(r).datagram.topic, interpret_udp_payload(e(r).datagram))
      BY <3>4, <3>5
    <3> HIDE DEF r, text, e, content, d
    <3> QED
      BY <1>1, <2>1, <3>2, <3>3, <3>4, <3>5, <3>6, PrintDecided
  <2>4. ASSUME content = Unsupported, Log(d, {}), UNCHANGED <<phase, todo, framingVars>>
        PROVE  PrintInv'
    <3>1. log' = Append(log, e({}))
      BY <2>4 DEF Log
    <3>2. e({}) \in Entries /\ e({}).to = {}
      BY <2>2
    <3>3. phase' = "poll" /\ UNCHANGED posted
      BY <2>1, <2>4 DEF framingVars, senderVars
    <3> HIDE DEF e
    <3> QED
      BY <1>1, <2>1, <3>1, <3>2, <3>3, PrintDecided
  <2> QED
    BY <1>3, <2>3, <2>4 DEF ManageUdpMessage
<1>4. ASSUME NEW c \in Clients, NEW command, NEW topic, ManageRequest(c, command, topic)
      PROVE  PrintInv'
  <2>1. /\ phase = "poll" /\ phase' = "fanout" /\ UNCHANGED <<posted, log>>
        /\ msg'.command = Answer(command, topic \in subscribed_topics[c])
    BY <1>4 DEF ManageRequest, Prepare
  <2>2. msg'.command # MSG_FROM_UDP
    BY <2>1 DEF Answer, MSG_FROM_UDP, SUBSCRIBE_FAIL, SUBSCRIBE_SUCC,
                UNSUBSCRIBE_FAIL, UNSUBSCRIBE_SUCC
  <2>3. \A k : \A b \in Clients : ~ Due(b, k) /\ ~ Due(b, k)'
    BY <2>1, <2>2 DEF Due
  <2>4. Fanout'
    BY <2>2 DEF Fanout
  <2> QED
    BY <2>1, <2>3, <2>4, PrintKept
<1>5. ASSUME NEW c \in Clients, NextRecipient(c) PROVE PrintInv'
  BY <1>1, <1>5, PrintPosted
<1>6. ASSUME FanoutOver PROVE PrintInv'
  <2>1. todo = {} /\ phase = "fanout" /\ phase' = "poll" /\ UNCHANGED <<posted, log>>
    BY <1>6 DEF FanoutOver, framingVars, senderVars
  <2>2. \A k : \A b \in Clients : ~ Due(b, k) /\ ~ Due(b, k)'
    BY <2>1 DEF Due
  <2>3. Fanout'
    BY <2>1 DEF Fanout
  <2> QED
    BY <2>1, <2>2, <2>3, PrintKept
<1>7. ASSUME SendBytes PROVE PrintInv'
  <2>1. SendStep /\ UNCHANGED <<phase, todo, log>>
    BY <1>7 DEF SendBytes, serverVars
  <2>2. UNCHANGED posted
    BY <1>1, <2>1, SendStepInv
  <2>3. msg'.command = msg.command /\ msg'.payload = msg.payload
    BY <1>1, <2>1, StructureKept
  <2> QED
    BY <1>2, <2>1, <2>2, <2>3
<1>8. ASSUME ServerEnds PROVE PrintInv'
  <2>1. phase' = "ended" /\ UNCHANGED <<posted, log>>
    BY <1>8 DEF ServerEnds, framingVars, senderVars
  <2>2. Fanout'
    BY <2>1 DEF Fanout
  <2> QED
    BY <2>1, <2>2, PrintKept
<1>9. ASSUME UNCHANGED <<posted, log, phase, todo, msg>> PROVE PrintInv'
  BY <1>2, <1>9
<1>10. ASSUME NEW c \in Clients, DisconnectClient(c) PROVE PrintInv'
  BY <1>9, <1>10 DEF DisconnectClient, framingVars, senderVars
<1>11. ASSUME NEW c \in Clients, ReceiveBytes(c) PROVE PrintInv'
  <2>1. ReceiveStep(c) /\ UNCHANGED <<phase, todo, log>>
    BY <1>11 DEF ReceiveBytes, serverVars
  <2>2. UNCHANGED <<posted, msg>>
    BY <1>1, <2>1, ReceiveTypes DEF FramingInv, senderVars
  <2> QED
    BY <1>9, <2>1, <2>2
<1>12. ASSUME NEW c \in Clients, ClientEnds(c) PROVE PrintInv'
  BY <1>9, <1>12 DEF ClientEnds, serverVars, framingVars, senderVars
<1>13. ASSUME NEW c \in Clients, ClientStep(c) PROVE PrintInv'
  BY <1>11, <1>12, <1>13 DEF ClientStep, EndOfFile
<1>14. CASE ServerStep
  BY <1>5, <1>6, <1>7, <1>8, <1>14 DEF ServerStep, SendFails
<1>15. CASE UNCHANGED deliveryVars
  BY <1>9, <1>15 DEF deliveryVars, serverVars, framingVars, senderVars
<1> QED
  BY <1>3, <1>4, <1>8, <1>10, <1>12, <1>13, <1>14, <1>15 DEF DeliveryNext

THEOREM PrintInvariant == DeliverySpec => []PrintInv
<1>1. ASSUME DeliveryInit PROVE PrintInv
  <2>1. Fanout
    BY <1>1 DEF DeliveryInit, Fanout
  <2>2. ASSUME NEW c \in Clients PROVE \E of : Assigned(c, of)
    <3>1. posted[c] = <<>> /\ log = <<>>
      BY <1>1 DEF DeliveryInit, FramingInit
    <3>2. Udp(posted[c]) = {} /\ SentTo(c) = {}
      BY <3>1 DEF Udp, SentTo
    <3> DEFINE none == [i \in {} |-> i]
    <3>3. none \in [Udp(posted[c]) -> SentTo(c)] /\ DOMAIN none = {}
      BY <3>2
    <3> HIDE DEF none
    <3>4. Assigned(c, none)
      BY <3>2, <3>3 DEF Assigned, InOrder
    <3> QED
      BY <3>4
  <2> QED
    BY <2>1, <2>2 DEF PrintInv
<1>2. DeliveryInv /\ DecisionsInv /\ PrintInv /\ [DeliveryNext]_deliveryVars => PrintInv'
  BY PrintStep
<1> QED
  BY <1>1, <1>2, DeliveryInvariant, DecisionsInvariant, PTL DEF DeliverySpec

(* What a client prints is what it was sent, in the order the datagrams    *)
(* came in, and no number is changed that an int can hold.                 *)
THEOREM PrintedAsSent == DeliverySpec => []PrintsWhatWasSent
<1>1. ASSUME DeliveryInv, DecisionsInv, PrintInv PROVE PrintsWhatWasSent
  <2> SUFFICES ASSUME NEW c \in Clients
               PROVE  \E of \in [Udp(delivered[c]) -> SentTo(c)] :
                        /\ InOrder(of, SentTo(c))
                        /\ \A k \in DOMAIN of :
                             LET d == log[of[k]].datagram
                             IN  Representable(d) =>
                                   delivered[c][k].payload = Text(d.topic, TrueContent(d))
    BY DEF PrintsWhatWasSent
  <2>1. PICK of : Assigned(c, of)
    BY <1>1 DEF PrintInv
  <2>2. /\ of \in [Udp(posted[c]) -> SentTo(c)]
        /\ \A i, j \in DOMAIN of : i < j => of[i] < of[j]
        /\ \A i \in DOMAIN of : \A k \in SentTo(c) : k < of[i] => \E j \in DOMAIN of : of[j] = k
        /\ \A i \in DOMAIN of : Carries(posted[c][i].payload, of[i])
    BY <2>1 DEF Assigned, InOrder
  <2>3. /\ posted[c] \in Seq(TcpMessages) /\ delivered[c] \in Seq(TcpMessages)
        /\ Len(delivered[c]) <= Len(posted[c])
        /\ \A i \in DOMAIN delivered[c] : delivered[c][i] = posted[c][i]
    <3>1. Copied(c)
      BY <1>1 DEF DeliveryInv, FramingInv, FramesKept, Journal
    <3>2. posted[c] \in Seq(TcpMessages)
      BY <1>1 DEF DeliveryInv, FramingInv, SenderInv, SenderTypes
    <3>3. delivered[c] \in Seq(TcpMessages)
      BY <1>1 DEF DeliveryInv, FramingInv, ReceiverInv, ReceiverTypes
    <3> QED
      BY <3>1, <3>2, <3>3 DEF Copied
  <2>4. /\ Udp(delivered[c]) \subseteq Udp(posted[c])
        /\ \A j \in Udp(posted[c]), i \in Udp(delivered[c]) : j < i => j \in Udp(delivered[c])
        /\ Udp(posted[c]) \subseteq Nat
    BY <2>3 DEF Udp
  <2> DEFINE printed == [i \in Udp(delivered[c]) |-> of[i]]
  <2>5. /\ printed \in [Udp(delivered[c]) -> SentTo(c)]
        /\ DOMAIN printed = Udp(delivered[c])
        /\ \A i \in Udp(delivered[c]) : printed[i] = of[i]
    BY <2>2, <2>4
  <2> HIDE DEF printed
  <2>6. DOMAIN of = Udp(posted[c]) /\ SentTo(c) \subseteq Nat
    BY <1>1, <2>2 DEF SentTo, DecisionsInv
  <2>7. ASSUME NEW i \in DOMAIN printed, NEW k \in SentTo(c), k < printed[i]
        PROVE  \E j \in DOMAIN printed : printed[j] = k
    <3>1. PICK j \in DOMAIN of : of[j] = k
      BY <2>2, <2>4, <2>5, <2>7
    <3>2. i \in DOMAIN of /\ of[j] < of[i]
      BY <2>4, <2>5, <2>6, <2>7, <3>1
    <3>3. ~ (i < j) /\ i # j
      <4>1. of[i] \in Nat /\ of[j] \in Nat
        BY <2>2, <2>6, <3>2
      <4> QED
        BY <2>2, <3>2, <4>1
    <3>4. j < i
      BY <2>4, <2>6, <3>2, <3>3
    <3> QED
      BY <2>4, <2>5, <2>6, <3>1, <3>4
  <2>8. InOrder(printed, SentTo(c))
    BY <2>2, <2>4, <2>5, <2>6, <2>7 DEF InOrder
  <2>9. ASSUME NEW k \in DOMAIN printed, Representable(log[printed[k]].datagram)
        PROVE  delivered[c][k].payload =
                 Text(log[printed[k]].datagram.topic, TrueContent(log[printed[k]].datagram))
    <3>1. /\ k \in DOMAIN of /\ printed[k] = of[k] /\ k \in DOMAIN delivered[c]
          /\ of[k] \in DOMAIN log
      BY <2>2, <2>4, <2>5, <2>6 DEF Udp, SentTo
    <3>2. log[of[k]].datagram \in Datagrams
      <4>1. log[of[k]] \in Entries
        BY <1>1, <3>1 DEF DecisionsInv
      <4> QED
        BY <4>1 DEF Entries
    <3>3. interpret_udp_payload(log[of[k]].datagram) = TrueContent(log[of[k]].datagram)
      BY <2>9, <3>1, <3>2, NumbersPrintAsSent
    <3> QED
      BY <2>2, <2>3, <3>1, <3>3 DEF Carries
  <2> QED
    BY <2>5, <2>8, <2>9
<1> QED
  BY <1>1, DeliveryInvariant, DecisionsInvariant, PrintInvariant, PTL
=============================================================================
