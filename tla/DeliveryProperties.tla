------------------------- MODULE DeliveryProperties -------------------------
(***************************************************************************)
(* What is checked of the way of a datagram to the clients.                *)
(***************************************************************************)
EXTENDS Delivery

TcpMessages == [command : Byte, payload : Seq(Byte)]

FramingTypeOK ==
  /\ msg \in [command : Byte, len : uint16_t, payload : Seq(Byte)]
  /\ to \in Clients \cup {NoClient}
  /\ stage \in {"none", "command", "len", "payload"}
  /\ left \in Seq(Byte)
  /\ stream \in [Clients -> Seq(Byte)]
  /\ field \in [Clients -> {"command", "len", "payload"}]
  /\ got \in [Clients -> Seq(Byte)]
  /\ struct \in [Clients -> [command : Byte, len : uint16_t]]
  /\ posted \in [Clients -> Seq(TcpMessages)]
  /\ delivered \in [Clients -> Seq(TcpMessages)]

DeliveryTypeOK ==
  /\ FramingTypeOK
  /\ phase \in {"poll", "fanout", "ended"}
  /\ todo \subseteq Clients
  /\ connected \subseteq Clients
  /\ alive \subseteq Clients

-----------------------------------------------------------------------------
(* Clients receive the messages the server sends them, whole and in order, *)
(* in however many pieces they travel, however many recipients the one     *)
(* structure has, and wherever either process ends (send_efficient(),      *)
(* recv_efficient()).                                                      *)
Mail == INSTANCE Mailboxes WITH Messages <- TcpMessages

KeepsFrames == Mail!MailboxSpec

(* "the overall message structure is left unmodified" by send_efficient()  *)
(* (protocols.h:72-74): its length is that of its payload in host order,   *)
(* except while the length itself is being sent, when it is in network     *)
(* order.                                                                  *)
LengthKept ==
  /\ stage \in {"none", "payload"} => msg.len = Memory(Len(msg.payload))
  /\ stage \in {"command", "len"} => msg.len = htons(Memory(Len(msg.payload)))

-----------------------------------------------------------------------------
(* What README.md:135-139 says of wildcards: the levels of the topic can   *)
(* be divided among those of the pattern, one for each, except that a star *)
(* takes any number of them, at least min; a plus takes whatever it is.    *)
Matches(min, pattern, topic) ==
  \E at \in [1..(Len(pattern) + 1) -> 1..(Len(topic) + 1)] :
    /\ at[1] = 1
    /\ at[Len(pattern) + 1] = Len(topic) + 1
    /\ \A i \in 1..Len(pattern) :
         IF pattern[i] = star_str
         THEN at[i + 1] >= at[i] + min
         ELSE at[i + 1] = at[i] + 1 /\ pattern[i] \in {plus_str, topic[at[i]]}

(* Each star is the last level, or before one that is no wildcard and that *)
(* the topic has at most once: then the first match is the only one.       *)
Unambiguous(pattern, topic) ==
  \A i \in DOMAIN pattern : pattern[i] = star_str /\ i < Len(pattern) =>
    /\ pattern[i + 1] \notin {star_str, plus_str}
    /\ \A j, k \in DOMAIN topic : topic[j] = pattern[i + 1] /\ topic[k] = pattern[i + 1] => j = k

Levels(topic) == tokenize_topic(topic)

(* A datagram is sent to nobody who did not ask for it, whatever wildcards *)
(* the subscriptions have; and to everyone connected who did ask, if no    *)
(* star of the subscription has a choice (send_msg_if_subscribed(),        *)
(* check_wildcard_topic(), compare_token_vectors()).                       *)
Wants(e, c, min) ==
  {p \in e.subscribed[c] : Matches(min, Levels(p), Levels(e.datagram.topic))}

OnlyWhoAsked ==
  \A e \in Range(log) : \A c \in e.to : Wants(e, c, 0) # {}

EveryoneWhoAsked ==
  \A e \in Range(log) : \A c \in Clients \ e.to :
    \A p \in Wants(e, c, 1) :
      \/ ~ Unambiguous(Levels(p), Levels(e.datagram.topic))
      \/ interpret_udp_payload(e.datagram) = Unsupported
      \/ c \notin alive

-----------------------------------------------------------------------------
(* The number a UDP client sent, and whether "%d" of 32 bits can print it. *)
TrueContent(d) ==
  IF d.data_type = 0
  THEN [kind |-> "INT", num |-> IF d.sign = 1 THEN - d.number ELSE d.number,
        minus |-> FALSE, decimals |-> 0]
  ELSE interpret_udp_payload(d)

Representable(d) == d.data_type = 0 => TrueContent(d).num \in (- Half)..(Half - 1)

(* The datagrams a client prints are those that were sent to it, in the    *)
(* order in which they came to the server, none twice and none left out    *)
(* before another, each with its topic and the number its sender meant, if *)
(* an int can hold it (manage_udp_message(), interpret_udp_payload(),      *)
(* manage_tcp_data()).                                                     *)
SentTo(c) == {k \in DOMAIN log : c \in log[k].to}
Udp(s)    == {k \in DOMAIN s : s[k].command = MSG_FROM_UDP}

InOrder(of, sent) ==
  /\ \A i, j \in DOMAIN of : i < j => of[i] < of[j]
  /\ \A i \in DOMAIN of : \A k \in sent : k < of[i] => \E j \in DOMAIN of : of[j] = k

PrintsWhatWasSent ==
  \A c \in Clients :
    \E of \in [Udp(delivered[c]) -> SentTo(c)] :
      /\ InOrder(of, SentTo(c))
      /\ \A k \in DOMAIN of :
           LET d == log[of[k]].datagram
           IN  Representable(d) => delivered[c][k].payload = Text(d.topic, TrueContent(d))

(* The server is done with a message after a while, and every message      *)
(* reaches its client, unless one of the two processes ends: a short       *)
(* send() or recv() is always followed by another (send_efficient(),       *)
(* recv_efficient()).                                                      *)
FanoutEnds == phase = "fanout" ~> phase # "fanout"

EveryMessageArrives ==
  \A c \in Clients :
    posted[c] # delivered[c] ~>
      posted[c] = delivered[c] \/ c \notin alive \/ phase = "ended"
=============================================================================
