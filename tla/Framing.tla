------------------------------ MODULE Framing -------------------------------
(***************************************************************************)
(* Messages over TCP byte by byte (protocols.cpp): send_efficient() and    *)
(* recv_efficient() move the three fields of a tcp_message in as many      *)
(* pieces as the kernel likes, and the length changes its byte order in    *)
(* place.  One thread, the server, sends one message at a time to one or   *)
(* more clients; each client receives on its own connection.               *)
(***************************************************************************)
EXTENDS Integers, Sequences, SequencesExt

CONSTANTS
  Clients,
  NoClient,
  Base,       \* values of a byte
  Capacity    \* bytes a connection holds before send() blocks

ASSUME FramingAssumption ==
  /\ NoClient \notin Clients
  /\ Base \in Nat /\ Base > 9     \* the commands are the bytes 0 to 9
  /\ Capacity \in Nat \ {0}

(* A uint16_t is its two bytes in memory, the low one first.               *)
Byte     == 0..(Base - 1)
uint16_t == Byte \X Byte
Lengths  == 0..(Base * Base - 1)

VARIABLES
  msg,        \* the structure being sent: command, len, payload
  to,         \* the client send_efficient() is sending it to
  stage,      \* the field it is sending
  left,       \* the bytes of that field it has not sent
  stream,     \* the bytes on each connection
  field,      \* the field each client's recv_efficient() is receiving
  got,        \* the bytes of that field it has
  struct,     \* the command and len it has filled in
  posted,     \* history: the messages each client was to be sent
  delivered   \* the messages recv_efficient() has returned to each client

senderVars   == <<msg, to, stage, left, posted>>
receiverVars == <<field, got, struct, delivered>>
framingVars  == <<senderVars, receiverVars, stream>>

(* Mutant: a length is a single byte.                                      *)
MemoryOfByte(n) == <<n, 0>>

Memory(n) == <<n % Base, n \div Base>>
Value(b)  == b[1] + b[2] * Base
htons(b)  == <<b[2], b[1]>>
ntohs(b)  == htons(b)

FramingInit ==
  /\ msg = [command |-> 0, len |-> Memory(0), payload |-> <<>>]
  /\ to = NoClient
  /\ stage = "none"
  /\ left = <<>>
  /\ stream = [c \in Clients |-> <<>>]
  /\ field = [c \in Clients |-> "command"]
  /\ got = [c \in Clients |-> <<>>]
  /\ struct = [c \in Clients |-> [command |-> 0, len |-> Memory(0)]]
  /\ posted = [c \in Clients |-> <<>>]
  /\ delivered = [c \in Clients |-> <<>>]

-----------------------------------------------------------------------------
(* send_efficient(): the length goes to network order for as long as it is *)
(* being sent.                                                             *)
StartSend(c) ==
  /\ to = NoClient
  /\ to' = c
  /\ msg' = [msg EXCEPT !.len = htons(@)]
  /\ stage' = "command"
  /\ left' = <<msg.command>>
  /\ posted' = [posted EXCEPT ![c] =
                  Append(@, [command |-> msg.command, payload |-> msg.payload])]
  /\ UNCHANGED <<stream, receiverVars>>

(* One send() takes n bytes.                                               *)
Put(n) ==
  /\ to # NoClient
  /\ Len(stream[to]) + n <= Capacity
  /\ stream' = [stream EXCEPT ![to] = @ \o SubSeq(left, 1, n)]
  /\ UNCHANGED <<posted, receiverVars>>

SendPiece(n) ==
  /\ n < Len(left)
  /\ Put(n)
  /\ left' = SubSeq(left, n + 1, Len(left))
  /\ UNCHANGED <<msg, to, stage>>

CommandSent ==
  /\ stage = "command"
  /\ Put(Len(left))
  /\ stage' = "len"
  /\ left' = msg.len
  /\ UNCHANGED <<msg, to>>

Return ==
  /\ to' = NoClient
  /\ stage' = "none"
  /\ left' = <<>>

(* Mutant: the length stays in network order for the next recipient.       *)
AfterLenSwapped(m) == m

(* "Set len back to host order"                                            *)
AfterLen(m) == [m EXCEPT !.len = ntohs(@)]

LenSent ==
  /\ stage = "len"
  /\ Put(Len(left))
  /\ msg' = AfterLen(msg)
  /\ \/ /\ Value(msg'.len) > 0
        /\ stage' = "payload"
        /\ left' = msg.payload
        /\ UNCHANGED to
     \/ /\ Value(msg'.len) = 0
        /\ Return

PayloadSent ==
  /\ stage = "payload"
  /\ Put(Len(left))
  /\ Return
  /\ UNCHANGED msg

SendStep ==
  \/ \E n \in 1..Capacity : SendPiece(n)
  \/ CommandSent
  \/ LenSent
  \/ PayloadSent

-----------------------------------------------------------------------------
(* recv_efficient()                                                        *)
Size(c) ==
  IF field[c] = "command" THEN 1 ELSE IF field[c] = "len" THEN 2 ELSE Value(struct[c].len)

(* One recv() returns n bytes.                                             *)
Take(c, n) ==
  /\ n <= Len(stream[c])
  /\ stream' = [stream EXCEPT ![c] = SubSeq(@, n + 1, Len(@))]
  /\ UNCHANGED senderVars

Missing(c) == Size(c) - Len(got[c])

(* Mutant: every recv() fills the buffer from its start.                   *)
ArrivedFirst(c, n) == SubSeq(stream[c], 1, n) \o got[c]

Arrived(c, n) == got[c] \o SubSeq(stream[c], 1, n)

ReceivePiece(c, n) ==
  /\ n < Missing(c)
  /\ Take(c, n)
  /\ got' = [got EXCEPT ![c] = Arrived(c, n)]
  /\ UNCHANGED <<field, struct, delivered>>

NextField(c, f) ==
  /\ field' = [field EXCEPT ![c] = f]
  /\ got' = [got EXCEPT ![c] = <<>>]

ReceivedCommand(c) ==
  /\ field[c] = "command"
  /\ Take(c, 1)
  /\ struct' = [struct EXCEPT ![c].command = Arrived(c, 1)[1]]
  /\ NextField(c, "len")
  /\ UNCHANGED delivered

Deliver(c, command, payload) ==
  delivered' = [delivered EXCEPT ![c] =
                  Append(@, [command |-> command, payload |-> payload])]

ReceivedLen(c) ==
  /\ field[c] = "len"
  /\ Take(c, Missing(c))
  /\ struct' = [struct EXCEPT ![c].len = ntohs(Arrived(c, Missing(c)))]
  /\ \/ /\ Value(struct'[c].len) > 0
        /\ NextField(c, "payload")
        /\ UNCHANGED delivered
     \/ /\ Value(struct'[c].len) = 0
        /\ NextField(c, "command")
        /\ Deliver(c, struct[c].command, <<>>)

ReceivedPayload(c) ==
  /\ field[c] = "payload"
  /\ Take(c, Missing(c))
  /\ NextField(c, "command")
  /\ Deliver(c, struct[c].command, Arrived(c, Missing(c)))
  /\ UNCHANGED struct

ReceiveStep(c) ==
  \/ \E n \in 1..Capacity : ReceivePiece(c, n)
  \/ ReceivedCommand(c)
  \/ ReceivedLen(c)
  \/ ReceivedPayload(c)
=============================================================================
