--------------------------- MODULE FramingProofs ----------------------------
(***************************************************************************)
(* Proofs about messages over TCP byte by byte, for any number of clients, *)
(* any byte, any capacity of a connection and any messages: the inductive  *)
(* invariant FramingInv and its preservation by each step of               *)
(* send_efficient() and recv_efficient().                                  *)
(***************************************************************************)
EXTENDS DeliveryProperties, TLAPS

LEMMA BaseFacts == Base \in Nat /\ Base > 9 /\ 0..9 \subseteq Byte /\ 0 \in Lengths
  <1>1. Base \in Nat /\ Base > 9
    BY FramingAssumption
  <1>2. Base * Base - 1 >= 0 /\ Base * Base - 1 \in Int
    BY <1>1, SMT
  <1> QED
    BY <1>1, <1>2, SMT DEF Byte, Lengths

LEMMA SmallQuotient ==
  ASSUME NEW b \in Nat, b > 0, NEW n \in Nat, n < b * b
  PROVE  /\ n % b \in 0..(b - 1)
         /\ n \div b \in 0..(b - 1)
         /\ (n % b) + (n \div b) * b = n
  <1>1. /\ n % b \in 0..(b - 1)
        /\ n = b * (n \div b) + (n % b)
        /\ n \div b \in Int
    BY SMT
  <1> DEFINE q == n \div b
             r == n % b
  <1> HIDE DEF q, r
  <1>2. q \in Int /\ r \in 0..(b - 1) /\ n = b * q + r
    BY <1>1 DEF q, r
  <1>3. q < b
    <2> SUFFICES ASSUME q >= b PROVE FALSE
      BY <1>2
    <2>1. b * q >= b * b
      BY <1>2, SMT
    <2>2. b * q \in Int /\ b * b \in Int
      BY <1>2, SMT
    <2> QED
      BY <2>1, <2>2, <1>2, SMT
  <1>4. q >= 0
    <2> SUFFICES ASSUME q <= -1 PROVE FALSE
      BY <1>2
    <2>1. b * q <= b * (-1)
      BY <1>2, SMT
    <2>2. b * q \in Int /\ b * (-1) = - b
      BY <1>2, SMT
    <2> QED
      BY <2>1, <2>2, <1>2, SMT
  <1>5. b * q = q * b
    BY <1>2, SMT
  <1> QED
    BY <1>2, <1>3, <1>4, <1>5 DEF q, r

(* A length is two bytes, and they say what it is.                         *)
LEMMA MemoryOfLength ==
  ASSUME NEW n \in Lengths
  PROVE  Memory(n) \in uint16_t /\ Value(Memory(n)) = n /\ n \in Nat
  <1>1. n \in Nat /\ n < Base * Base
    <2>1. Base * Base \in Int
      BY BaseFacts, SMT
    <2> QED
      BY <2>1, BaseFacts, SMT DEF Lengths
  <1>2. /\ n % Base \in Byte
        /\ n \div Base \in Byte
        /\ (n % Base) + (n \div Base) * Base = n
    BY <1>1, BaseFacts, SmallQuotient DEF Byte
  <1> QED
    BY <1>1, <1>2 DEF Memory, Value, uint16_t

LEMMA TwoBytes ==
  ASSUME NEW b \in uint16_t
  PROVE  /\ b \in Seq(Byte) /\ Len(b) = 2
         /\ b[1] \in Byte /\ b[2] \in Byte /\ b = <<b[1], b[2]>>
         /\ htons(b) \in uint16_t /\ ntohs(b) \in uint16_t
         /\ ntohs(htons(b)) = b
         /\ Value(b) \in Nat
  <1>1. PICK x \in Byte, y \in Byte : b = <<x, y>>
    BY DEF uint16_t
  <1>2. x \in Nat /\ y \in Nat /\ y * Base \in Nat
    <2>1. x \in Nat /\ y \in Nat
      BY BaseFacts DEF Byte
    <2> QED
      BY <2>1, BaseFacts, SMT
  <1> QED
    BY <1>1, <1>2 DEF uint16_t, htons, ntohs, Value

-----------------------------------------------------------------------------
(* The sender: its types, the length that changes its byte order in place, *)
(* and that every length fits its two bytes.                               *)
SenderTypes ==
  /\ msg \in [command : Byte, len : uint16_t, payload : Seq(Byte)]
  /\ to \in Clients \cup {NoClient}
  /\ stage \in {"none", "command", "len", "payload"}
  /\ left \in Seq(Byte)
  /\ posted \in [Clients -> Seq(TcpMessages)]

SenderInv ==
  /\ SenderTypes
  /\ LengthKept
  /\ to = NoClient <=> stage = "none"
  /\ Len(msg.payload) \in Lengths
  /\ \A c \in Clients : \A k \in 1..Len(posted[c]) : Len(posted[c][k].payload) \in Lengths

(* The receivers: no more is received of a field than it has.              *)
ReceiverTypes ==
  /\ field \in [Clients -> {"command", "len", "payload"}]
  /\ got \in [Clients -> Seq(Byte)]
  /\ struct \in [Clients -> [command : Byte, len : uint16_t]]
  /\ delivered \in [Clients -> Seq(TcpMessages)]

ReceiverInv ==
  /\ ReceiverTypes
  /\ \A c \in Clients : Len(got[c]) < Size(c)

StreamTypes == stream \in [Clients -> Seq(Byte)]

LEMMA PieceTypes ==
  ASSUME NEW s \in Seq(Byte), NEW n \in 0..Len(s)
  PROVE  /\ SubSeq(s, 1, n) \in Seq(Byte) /\ Len(SubSeq(s, 1, n)) = n
         /\ SubSeq(s, n + 1, Len(s)) \in Seq(Byte)
         /\ Len(SubSeq(s, n + 1, Len(s))) = Len(s) - n
         /\ \A i \in 1..n : SubSeq(s, 1, n)[i] = s[i]
         /\ \A i \in 1..(Len(s) - n) : SubSeq(s, n + 1, Len(s))[i] = s[n + i]
  <1> Len(s) \in Nat
    OBVIOUS
  <1> \A i \in 1..Len(s) : s[i] \in Byte
    OBVIOUS
  <1> QED
    BY SMT

LEMMA ConcatTypes ==
  ASSUME NEW s \in Seq(Byte), NEW t \in Seq(Byte)
  PROVE  /\ s \o t \in Seq(Byte) /\ Len(s \o t) = Len(s) + Len(t)
         /\ \A i \in 1..Len(s) : (s \o t)[i] = s[i]
         /\ \A i \in 1..Len(t) : (s \o t)[Len(s) + i] = t[i]
         /\ \A i \in (Len(s) + 1)..(Len(s) + Len(t)) : (s \o t)[i] = t[i - Len(s)]
  BY SMT

LEMMA TwoBytesArrived ==
  ASSUME NEW s \in Seq(Byte), Len(s) = 2
  PROVE  ntohs(s) \in uint16_t
  <1>1. s[1] \in Byte /\ s[2] \in Byte
    <2>1. \A i \in 1..Len(s) : s[i] \in Byte
      OBVIOUS
    <2> QED
      BY <2>1
  <1> QED
    BY <1>1 DEF ntohs, htons, uint16_t

LEMMA PutTypes ==
  ASSUME SenderTypes, StreamTypes, NEW n \in 0..Len(left), Put(n)
  PROVE  to \in Clients /\ StreamTypes'
  <1>1. to \in Clients
    BY DEF SenderTypes, Put
  <1>2. stream[to] \o SubSeq(left, 1, n) \in Seq(Byte)
    BY <1>1, PieceTypes, ConcatTypes DEF SenderTypes, StreamTypes
  <1> QED
    BY <1>1, <1>2 DEF Put, StreamTypes

-----------------------------------------------------------------------------
LEMMA StartSendTypes ==
  ASSUME SenderInv, NEW c \in Clients, StartSend(c)
  PROVE  SenderInv'
  <1> DEFINE m == [command |-> msg.command, payload |-> msg.payload]
  <1>1. msg.len \in uint16_t /\ msg.command \in Byte /\ msg.payload \in Seq(Byte)
    BY DEF SenderInv, SenderTypes
  <1>2. m \in TcpMessages
    BY <1>1 DEF TcpMessages
  <1>3. /\ posted' = [posted EXCEPT ![c] = Append(@, m)]
        /\ to = NoClient /\ to' = c /\ stage' = "command" /\ left' = <<msg.command>>
        /\ msg' = [msg EXCEPT !.len = htons(@)]
    BY DEF StartSend
  <1>4. c # NoClient
    BY FramingAssumption
  <1>5. msg' \in [command : Byte, len : uint16_t, payload : Seq(Byte)]
    BY <1>1, <1>3, TwoBytes DEF SenderInv, SenderTypes
  <1>6. /\ msg'.payload = msg.payload
        /\ msg'.len = htons(msg.len)
    BY <1>3 DEF SenderInv, SenderTypes
  <1>7. msg.len = Memory(Len(msg.payload))
    BY <1>3 DEF SenderInv, LengthKept
  <1>8. posted[c] \in Seq(TcpMessages)
    BY DEF SenderInv, SenderTypes
  <1>9. posted' \in [Clients -> Seq(TcpMessages)]
    BY <1>2, <1>3, <1>8, SMT DEF SenderInv, SenderTypes
  <1>10. ASSUME NEW d \in Clients, NEW k \in 1..Len(posted'[d])
         PROVE  Len(posted'[d][k].payload) \in Lengths
    <2>1. CASE d # c
      BY <1>3, <1>10, <2>1 DEF SenderInv, SenderTypes
    <2>2. CASE d = c
      <3>1. posted'[c] = Append(posted[c], m)
        BY <1>3 DEF SenderInv, SenderTypes
      <3>2. CASE k \in 1..Len(posted[c])
        <4>1. posted'[d][k] = posted[c][k]
          BY <1>8, <2>2, <3>1, <3>2, SMT
        <4> QED
          BY <3>2, <4>1 DEF SenderInv
      <3>3. CASE k = Len(posted[c]) + 1
        <4>1. posted'[d][k] = m
          BY <1>8, <2>2, <3>1, <3>3, SMT
        <4> QED
          BY <4>1 DEF SenderInv
      <3> QED
        BY <1>8, <1>10, <2>2, <3>1, <3>2, <3>3, SMT
    <2> QED
      BY <2>1, <2>2
  <1>11. <<msg.command>> \in Seq(Byte)
    BY <1>1
  <1>12. LengthKept'
    BY <1>3, <1>6, <1>7 DEF LengthKept
  <1>13. SenderTypes'
    BY <1>3, <1>5, <1>9, <1>11 DEF SenderTypes
  <1> HIDE DEF m
  <1> QED
    BY <1>3, <1>4, <1>6, <1>10, <1>12, <1>13 DEF SenderInv

LEMMA SendTypes ==
  ASSUME SenderInv, StreamTypes, SendStep
  PROVE  SenderInv' /\ StreamTypes'
  <1> USE FramingAssumption
  <1>1. /\ left \in Seq(Byte) /\ Len(left) \in Nat
        /\ msg.len \in uint16_t /\ msg.payload \in Seq(Byte)
    BY DEF SenderInv, SenderTypes
  <1>2. ASSUME NEW n \in 1..Capacity, SendPiece(n)
        PROVE  SenderInv' /\ StreamTypes'
    <2>1. n \in 0..Len(left) /\ Put(n)
      BY <1>1, <1>2 DEF SendPiece
    <2>2. /\ left' = SubSeq(left, n + 1, Len(left))
          /\ UNCHANGED <<msg, to, stage, posted>>
      BY <1>2 DEF SendPiece, Put
    <2>3. left' \in Seq(Byte)
      BY <1>1, <2>1, <2>2, PieceTypes
    <2> QED
      BY <2>1, <2>2, <2>3, PutTypes DEF SenderInv, SenderTypes, LengthKept
  <1>3. ASSUME Put(Len(left)) PROVE to # NoClient /\ StreamTypes' /\ UNCHANGED posted
    <2>1. Len(left) \in 0..Len(left) /\ SenderTypes
      BY <1>1 DEF SenderInv
    <2> QED
      BY <1>3, <2>1, PutTypes DEF Put
  <1>4. ASSUME CommandSent PROVE SenderInv' /\ StreamTypes'
    <2>1. /\ left' = msg.len /\ stage = "command" /\ stage' = "len"
          /\ UNCHANGED <<msg, to>>
          /\ Put(Len(left))
      BY <1>4 DEF CommandSent
    <2>2. left' \in Seq(Byte)
      BY <1>1, <2>1, TwoBytes
    <2> QED
      BY <1>3, <2>1, <2>2 DEF SenderInv, SenderTypes, LengthKept
  <1>5. ASSUME LenSent PROVE SenderInv' /\ StreamTypes'
    <2>1. /\ stage = "len" /\ Put(Len(left))
          /\ msg' = [msg EXCEPT !.len = ntohs(@)]
      BY <1>5 DEF LenSent, AfterLen
    <2>2. /\ msg' \in [command : Byte, len : uint16_t, payload : Seq(Byte)]
          /\ msg'.payload = msg.payload
          /\ msg'.len = ntohs(msg.len)
      BY <1>1, <2>1, TwoBytes DEF SenderInv, SenderTypes
    <2>3. msg'.len = Memory(Len(msg'.payload))
      <3>1. msg.len = htons(Memory(Len(msg.payload)))
        BY <2>1 DEF SenderInv, LengthKept
      <3>2. Memory(Len(msg.payload)) \in uint16_t
        BY MemoryOfLength DEF SenderInv
      <3> QED
        BY <2>2, <3>1, <3>2, TwoBytes
    <2>4. \/ stage' = "payload" /\ left' = msg.payload /\ to' = to
          \/ to' = NoClient /\ stage' = "none" /\ left' = <<>>
      BY <1>5 DEF LenSent, Return
    <2>5. left' \in Seq(Byte)
      <3>1. <<>> \in Seq(Byte)
        OBVIOUS
      <3> QED
        BY <1>1, <2>4, <3>1, Zenon
    <2>6. SenderTypes' /\ (to' = NoClient <=> stage' = "none")
      BY <1>3, <2>1, <2>2, <2>4, <2>5 DEF SenderInv, SenderTypes
    <2>7. LengthKept'
      BY <2>3, <2>4 DEF LengthKept
    <2> QED
      BY <1>3, <2>1, <2>2, <2>6, <2>7 DEF SenderInv
  <1>6. ASSUME PayloadSent PROVE SenderInv' /\ StreamTypes'
    <2>1. /\ stage = "payload" /\ Put(Len(left))
          /\ to' = NoClient /\ stage' = "none" /\ left' = <<>> /\ UNCHANGED msg
      BY <1>6 DEF PayloadSent, Return
    <2>2. left' \in Seq(Byte)
      BY <2>1
    <2> QED
      BY <1>3, <2>1, <2>2 DEF SenderInv, SenderTypes, LengthKept
  <1> QED
    BY <1>2, <1>4, <1>5, <1>6 DEF SendStep

-----------------------------------------------------------------------------
LEMMA SizeTypes ==
  ASSUME ReceiverTypes, NEW c \in Clients
  PROVE  /\ Size(c) \in Nat
         /\ got[c] \in Seq(Byte) /\ Len(got[c]) \in Nat
         /\ struct[c].command \in Byte /\ struct[c].len \in uint16_t
  <1>1. struct[c] \in [command : Byte, len : uint16_t]
    BY DEF ReceiverTypes
  <1> QED
    BY <1>1, TwoBytes DEF Size, ReceiverTypes

(* What a receiver has of a field after n more bytes of its connection.    *)
LEMMA TakeTypes ==
  ASSUME ReceiverTypes, StreamTypes, NEW c \in Clients, NEW n \in Nat, Take(c, n)
  PROVE  /\ n \in 0..Len(stream[c]) /\ stream[c] \in Seq(Byte)
         /\ Arrived(c, n) \in Seq(Byte)
         /\ Len(Arrived(c, n)) = Len(got[c]) + n
         /\ \A i \in 1..Len(got[c]) : Arrived(c, n)[i] = got[c][i]
         /\ \A i \in (Len(got[c]) + 1)..(Len(got[c]) + n) :
              Arrived(c, n)[i] = stream[c][i - Len(got[c])]
         /\ stream' = [stream EXCEPT ![c] = SubSeq(stream[c], n + 1, Len(stream[c]))]
         /\ SubSeq(stream[c], n + 1, Len(stream[c])) \in Seq(Byte)
         /\ StreamTypes'
         /\ UNCHANGED senderVars
  <1>1. n \in 0..Len(stream[c]) /\ stream[c] \in Seq(Byte) /\ got[c] \in Seq(Byte)
    BY DEF Take, StreamTypes, ReceiverTypes
  <1>2. SubSeq(stream[c], 1, n) \in Seq(Byte) /\ Len(SubSeq(stream[c], 1, n)) = n
    BY <1>1, PieceTypes
  <1>3. /\ Arrived(c, n) \in Seq(Byte)
        /\ Len(Arrived(c, n)) = Len(got[c]) + n
        /\ \A i \in 1..Len(got[c]) : Arrived(c, n)[i] = got[c][i]
        /\ \A i \in (Len(got[c]) + 1)..(Len(got[c]) + n) :
             Arrived(c, n)[i] = SubSeq(stream[c], 1, n)[i - Len(got[c])]
    <2> DEFINE piece == SubSeq(stream[c], 1, n)
    <2>1. Arrived(c, n) = got[c] \o piece
      BY DEF Arrived
    <2>2. piece \in Seq(Byte) /\ Len(piece) = n
      BY <1>2
    <2> HIDE DEF piece
    <2>3. /\ got[c] \o piece \in Seq(Byte)
          /\ Len(got[c] \o piece) = Len(got[c]) + n
          /\ \A i \in 1..Len(got[c]) : (got[c] \o piece)[i] = got[c][i]
          /\ \A i \in (Len(got[c]) + 1)..(Len(got[c]) + n) :
               (got[c] \o piece)[i] = piece[i - Len(got[c])]
      BY <1>1, <2>2, ConcatTypes
    <2> QED
      BY <2>1, <2>3 DEF piece
  <1>4. ASSUME NEW i \in (Len(got[c]) + 1)..(Len(got[c]) + n)
        PROVE  Arrived(c, n)[i] = stream[c][i - Len(got[c])]
    <2>1. Len(got[c]) \in Nat
      BY <1>1
    <2>2. i - Len(got[c]) \in 1..n
      BY <1>4, <2>1, SMT
    <2> QED
      BY <1>1, <1>3, <2>2, PieceTypes
  <1>5. /\ stream' = [stream EXCEPT ![c] = SubSeq(stream[c], n + 1, Len(stream[c]))]
        /\ UNCHANGED senderVars
    BY DEF Take
  <1>6. SubSeq(stream[c], n + 1, Len(stream[c])) \in Seq(Byte)
    BY <1>1, PieceTypes
  <1>7. StreamTypes'
    BY <1>5, <1>6 DEF StreamTypes
  <1> QED
    BY <1>1, <1>3, <1>4, <1>5, <1>6, <1>7

LEMMA ReceiveTypes ==
  ASSUME ReceiverInv, StreamTypes, NEW c \in Clients, ReceiveStep(c)
  PROVE  ReceiverInv' /\ StreamTypes' /\ UNCHANGED senderVars
  <1>1. ReceiverTypes /\ Len(got[c]) < Size(c)
    BY DEF ReceiverInv
  <1>2. /\ Size(c) \in Nat /\ got[c] \in Seq(Byte) /\ Len(got[c]) \in Nat
        /\ struct[c].command \in Byte /\ struct[c].len \in uint16_t
    BY <1>1, SizeTypes
  <1>3. Missing(c) \in Nat \ {0} /\ Len(got[c]) + Missing(c) = Size(c)
    BY <1>1, <1>2 DEF Missing
  <1>4. <<>> \in Seq(Byte) /\ Len(<<>>) = 0
    OBVIOUS
  <1>5. ASSUME NEW n \in 1..Capacity, ReceivePiece(c, n)
        PROVE  ReceiverInv' /\ StreamTypes' /\ UNCHANGED senderVars
    <2>1. n \in Nat /\ n < Missing(c) /\ Take(c, n)
      BY <1>5, FramingAssumption DEF ReceivePiece
    <2>2. /\ got' = [got EXCEPT ![c] = Arrived(c, n)]
          /\ UNCHANGED <<field, struct, delivered>>
      BY <1>5 DEF ReceivePiece
    <2>3. /\ Arrived(c, n) \in Seq(Byte) /\ Len(Arrived(c, n)) = Len(got[c]) + n
          /\ StreamTypes' /\ UNCHANGED senderVars
      BY <1>1, <2>1, TakeTypes
    <2>4. Len(Arrived(c, n)) < Size(c)
      BY <1>2, <1>3, <2>1, <2>3
    <2>5. ReceiverTypes'
      BY <1>1, <2>2, <2>3 DEF ReceiverTypes
    <2>6. ASSUME NEW d \in Clients PROVE Len(got'[d]) < Size(d)'
      <3>1. Size(d)' = Size(d)
        BY <2>2 DEF Size
      <3>2. CASE d = c
        BY <1>1, <2>2, <2>4, <3>1, <3>2 DEF ReceiverTypes
      <3>3. CASE d # c
        <4>1. got'[d] = got[d]
          BY <2>2, <3>3 DEF ReceiverTypes
        <4> QED
          BY <3>1, <4>1 DEF ReceiverInv
      <3> QED
        BY <3>2, <3>3
    <2> QED
      BY <2>3, <2>5, <2>6 DEF ReceiverInv
  <1>6. ASSUME NEW f \in {"command", "len", "payload"}, NextField(c, f),
               struct' = [struct EXCEPT ![c] = struct'[c]],
               struct'[c] \in [command : Byte, len : uint16_t],
               f = "payload" => Value(struct'[c].len) > 0,
               delivered' \in [Clients -> Seq(TcpMessages)]
        PROVE  ReceiverInv'
    <2>1. /\ field' = [field EXCEPT ![c] = f]
          /\ got' = [got EXCEPT ![c] = <<>>]
      BY <1>6 DEF NextField
    <2>2. ReceiverTypes'
      BY <1>1, <1>4, <1>6, <2>1 DEF ReceiverTypes
    <2>3. ASSUME NEW d \in Clients PROVE Len(got'[d]) < Size(d)'
      <3>1. CASE d = c
        <4>1. field'[c] = f /\ got'[c] = <<>>
          BY <1>1, <2>1 DEF ReceiverTypes
        <4>2. Len(got'[c]) = 0
          BY <1>4, <4>1
        <4> QED
          BY <1>6, <3>1, <4>1, <4>2 DEF Size
      <3>2. CASE d # c
        <4>1. got'[d] = got[d] /\ field'[d] = field[d] /\ struct'[d] = struct[d]
          BY <1>1, <1>6, <2>1, <3>2 DEF ReceiverTypes
        <4>2. Size(d)' = Size(d)
          BY <4>1 DEF Size
        <4> QED
          BY <4>1, <4>2 DEF ReceiverInv
      <3> QED
        BY <3>1, <3>2
    <2> QED
      BY <2>2, <2>3 DEF ReceiverInv
  <1>7. struct \in [Clients -> [command : Byte, len : uint16_t]]
    BY <1>1 DEF ReceiverTypes
  <1>8. delivered \in [Clients -> Seq(TcpMessages)]
    BY <1>1 DEF ReceiverTypes
  <1>9. ASSUME NEW command \in Byte, NEW payload \in Seq(Byte), Deliver(c, command, payload)
        PROVE  delivered' \in [Clients -> Seq(TcpMessages)]
    <2> DEFINE m == [command |-> command, payload |-> payload]
    <2>1. m \in TcpMessages
      BY DEF TcpMessages
    <2>2. delivered' = [delivered EXCEPT ![c] = Append(@, m)]
      BY <1>9 DEF Deliver
    <2> HIDE DEF m
    <2>3. Append(delivered[c], m) \in Seq(TcpMessages)
      BY <1>8, <2>1
    <2> QED
      BY <1>8, <2>2, <2>3
  <1>10. ASSUME ReceivedCommand(c)
         PROVE  ReceiverInv' /\ StreamTypes' /\ UNCHANGED senderVars
    <2>1. /\ field[c] = "command" /\ Take(c, 1) /\ NextField(c, "len")
          /\ struct' = [struct EXCEPT ![c].command = Arrived(c, 1)[1]]
          /\ UNCHANGED delivered
      BY <1>10 DEF ReceivedCommand
    <2>2. 1 \in Nat
      OBVIOUS
    <2>3. /\ Arrived(c, 1) \in Seq(Byte) /\ Len(Arrived(c, 1)) = Len(got[c]) + 1
          /\ StreamTypes' /\ UNCHANGED senderVars
      BY <1>1, <2>1, <2>2, TakeTypes
    <2>4. Arrived(c, 1)[1] \in Byte
      BY <1>2, <2>3
    <2>5. /\ struct' = [struct EXCEPT ![c] = struct'[c]]
          /\ struct'[c] \in [command : Byte, len : uint16_t]
      BY <1>7, <2>1, <2>4
    <2> QED
      BY <1>6, <1>8, <2>1, <2>3, <2>5
  <1>11. ASSUME ReceivedLen(c)
         PROVE  ReceiverInv' /\ StreamTypes' /\ UNCHANGED senderVars
    <2> DEFINE arrived == Arrived(c, Missing(c))
    <2>1. /\ field[c] = "len" /\ Take(c, Missing(c))
          /\ struct' = [struct EXCEPT ![c].len = ntohs(arrived)]
      BY <1>11 DEF ReceivedLen
    <2>2. /\ arrived \in Seq(Byte) /\ Len(arrived) = Len(got[c]) + Missing(c)
          /\ StreamTypes' /\ UNCHANGED senderVars
      BY <1>1, <1>3, <2>1, TakeTypes
    <2>3. Len(arrived) = 2
      BY <1>3, <2>1, <2>2 DEF Size
    <2>4. ntohs(arrived) \in uint16_t
      BY <2>2, <2>3, TwoBytesArrived
    <2>5. /\ struct' = [struct EXCEPT ![c] = struct'[c]]
          /\ struct'[c] \in [command : Byte, len : uint16_t]
      <3> HIDE DEF arrived
      <3> QED
        BY <1>7, <2>1, <2>4
    <2>6. CASE Value(struct'[c].len) > 0 /\ NextField(c, "payload") /\ UNCHANGED delivered
      BY <1>6, <1>8, <2>2, <2>5, <2>6
    <2>7. CASE NextField(c, "command") /\ Deliver(c, struct[c].command, <<>>)
      <3>1. delivered' \in [Clients -> Seq(TcpMessages)]
        BY <1>2, <1>4, <1>9, <2>7
      <3> QED
        BY <1>6, <2>2, <2>5, <2>7, <3>1
    <2> QED
      BY <1>11, <2>6, <2>7 DEF ReceivedLen
  <1>12. ASSUME ReceivedPayload(c)
         PROVE  ReceiverInv' /\ StreamTypes' /\ UNCHANGED senderVars
    <2> DEFINE arrived == Arrived(c, Missing(c))
    <2>1. /\ Take(c, Missing(c)) /\ NextField(c, "command") /\ UNCHANGED struct
          /\ Deliver(c, struct[c].command, arrived)
      BY <1>12 DEF ReceivedPayload
    <2>2. /\ arrived \in Seq(Byte)
          /\ StreamTypes' /\ UNCHANGED senderVars
      BY <1>1, <1>3, <2>1, TakeTypes
    <2>3. delivered' \in [Clients -> Seq(TcpMessages)]
      BY <1>2, <1>9, <2>1, <2>2
    <2>4. /\ struct' = [struct EXCEPT ![c] = struct'[c]]
          /\ struct'[c] \in [command : Byte, len : uint16_t]
      BY <1>7, <2>1
    <2> QED
      BY <1>6, <2>1, <2>2, <2>3, <2>4
  <1> QED
    BY <1>5, <1>10, <1>11, <1>12 DEF ReceiveStep

-----------------------------------------------------------------------------
(* The bytes of a connection since its beginning are a tape: message k of  *)
(* those posted to c lies on it from ends[k - 1] + 1 to ends[k].  Nothing  *)
(* here is counted by recursion, so no fact about it needs an induction.   *)
Header(m) == htons(Memory(Len(m.payload)))

Wire(m, tape, at) ==
  /\ tape[at + 1] = m.command
  /\ tape[at + 2] = Header(m)[1]
  /\ tape[at + 3] = Header(m)[2]
  /\ \A i \in 1..Len(m.payload) : tape[at + 3 + i] = m.payload[i]

Tape(messages, tape, ends) ==
  /\ ends \in [Nat -> Nat]
  /\ \A k \in 0..Len(messages) : ends[k] <= ends[Len(messages)]
  /\ \A k \in 1..Len(messages) :
       /\ ends[k] = ends[k - 1] + 3 + Len(messages[k].payload)
       /\ Wire(messages[k], tape, ends[k - 1])

(* What the sender has still to send to c is the end of the tape.          *)
Unsent(c) ==
  IF to # c THEN 0
  ELSE IF stage = "command" THEN Len(left) + 2 + Len(msg.payload)
  ELSE IF stage = "len" THEN Len(left) + Len(msg.payload)
  ELSE Len(left)

Sending(c, tape, ends) ==
  to = c =>
    /\ Len(posted[c]) > 0
    /\ posted[c][Len(posted[c])] = [command |-> msg.command, payload |-> msg.payload]
    /\ \A i \in 1..Len(left) : left[i] = tape[ends[Len(posted[c])] - Unsent(c) + i]

(* What c has received is its beginning, and the connection is between.    *)
Copied(c) ==
  /\ Len(delivered[c]) <= Len(posted[c])
  /\ \A k \in 1..Len(delivered[c]) : delivered[c][k] = posted[c][k]

At(c, ends) ==
  ends[Len(delivered[c])] + Len(got[c])
    + IF field[c] = "command" THEN 0 ELSE IF field[c] = "len" THEN 1 ELSE 3

InTransit(c, tape, ends) ==
  /\ At(c, ends) + Len(stream[c]) = ends[Len(posted[c])] - Unsent(c)
  /\ \A i \in 1..Len(stream[c]) : stream[c][i] = tape[At(c, ends) + i]

Partial(c, tape, ends) ==
  /\ field[c] # "command" =>
       /\ Len(delivered[c]) < Len(posted[c])
       /\ struct[c].command = posted[c][Len(delivered[c]) + 1].command
  /\ field[c] = "payload" =>
       struct[c].len = Memory(Len(posted[c][Len(delivered[c]) + 1].payload))
  /\ \A i \in 1..Len(got[c]) : got[c][i] = tape[At(c, ends) - Len(got[c]) + i]

Journal(c, tape, ends) ==
  /\ Tape(posted[c], tape, ends)
  /\ Sending(c, tape, ends)
  /\ Copied(c)
  /\ InTransit(c, tape, ends)
  /\ Partial(c, tape, ends)

FramesKept == \A c \in Clients : \E tape, ends : Journal(c, tape, ends)

(* The inductive invariant.                                                *)
FramingInv == SenderInv /\ ReceiverInv /\ StreamTypes /\ FramesKept

-----------------------------------------------------------------------------
(* Nothing happens to c.                                                   *)
LEMMA JournalFrame ==
  ASSUME NEW c \in Clients, NEW tape, NEW ends, Journal(c, tape, ends),
         posted'[c] = posted[c], delivered'[c] = delivered[c], stream'[c] = stream[c],
         field'[c] = field[c], got'[c] = got[c], struct'[c] = struct[c],
         \/ to # c /\ to' # c
         \/ UNCHANGED <<msg, to, stage, left>>
  PROVE  Journal(c, tape, ends)'
  <1>1. Unsent(c)' = Unsent(c)
    BY DEF Unsent
  <1>2. At(c, ends)' = At(c, ends)
    BY DEF At
  <1>3. Tape(posted[c], tape, ends)'
    BY DEF Journal, Tape
  <1>4. Sending(c, tape, ends)'
    BY <1>1 DEF Journal, Sending
  <1>5. Copied(c)'
    BY DEF Journal, Copied
  <1>6. InTransit(c, tape, ends)'
    BY <1>1, <1>2 DEF Journal, InTransit
  <1>7. Partial(c, tape, ends)'
    BY <1>2 DEF Journal, Partial
  <1> QED
    BY <1>3, <1>4, <1>5, <1>6, <1>7 DEF Journal

LEMMA WireStays ==
  ASSUME NEW m \in TcpMessages, NEW tape, NEW other, NEW at \in Nat, NEW e \in Nat,
         Wire(m, tape, at), at + 3 + Len(m.payload) <= e,
         \A i \in Nat : i <= e => other[i] = tape[i]
  PROVE  Wire(m, other, at)
  <1>1. Len(m.payload) \in Nat
    BY DEF TcpMessages
  <1>2. at + 1 \in Nat /\ at + 1 <= e /\ at + 2 \in Nat /\ at + 2 <= e
        /\ at + 3 \in Nat /\ at + 3 <= e
    <2> DEFINE n == Len(m.payload)
    <2> HIDE DEF n
    <2>1. n \in Nat /\ at + 3 + n <= e
      BY <1>1 DEF n
    <2>2. at + 1 <= e /\ at + 2 <= e /\ at + 3 <= e
      BY <2>1
    <2>3. at + 1 \in Nat /\ at + 2 \in Nat /\ at + 3 \in Nat
      OBVIOUS
    <2> QED
      BY <2>2, <2>3
  <1>3. ASSUME NEW i \in 1..Len(m.payload) PROVE at + 3 + i \in Nat /\ at + 3 + i <= e
    <2> DEFINE n == Len(m.payload)
    <2>1. n \in Nat /\ at + 3 + n <= e /\ i \in 1..n
      BY <1>1, <1>3
    <2> HIDE DEF n
    <2> QED
      BY <2>1
  <1> QED
    BY <1>2, <1>3 DEF Wire

LEMMA JournalTypes ==
  ASSUME SenderTypes, ReceiverTypes, StreamTypes,
         NEW c \in Clients, NEW tape, NEW ends, Journal(c, tape, ends)
  PROVE  /\ posted[c] \in Seq(TcpMessages) /\ Len(posted[c]) \in Nat
         /\ delivered[c] \in Seq(TcpMessages) /\ Len(delivered[c]) \in Nat
         /\ got[c] \in Seq(Byte) /\ Len(got[c]) \in Nat
         /\ stream[c] \in Seq(Byte) /\ Len(stream[c]) \in Nat
         /\ left \in Seq(Byte) /\ Len(left) \in Nat
         /\ msg.payload \in Seq(Byte) /\ Len(msg.payload) \in Nat
         /\ Unsent(c) \in Nat
         /\ \A k \in Nat : ends[k] \in Nat
         /\ At(c, ends) \in Nat
         /\ At(c, ends) >= ends[Len(delivered[c])] + Len(got[c])
  <1>1. /\ posted[c] \in Seq(TcpMessages) /\ Len(posted[c]) \in Nat
        /\ delivered[c] \in Seq(TcpMessages) /\ Len(delivered[c]) \in Nat
        /\ got[c] \in Seq(Byte) /\ Len(got[c]) \in Nat
        /\ stream[c] \in Seq(Byte) /\ Len(stream[c]) \in Nat
        /\ left \in Seq(Byte) /\ Len(left) \in Nat
    BY DEF SenderTypes, ReceiverTypes, StreamTypes
  <1>2. msg.payload \in Seq(Byte) /\ Len(msg.payload) \in Nat
    BY DEF SenderTypes
  <1>3. Unsent(c) \in Nat
    <2> DEFINE l == Len(left)
               p == Len(msg.payload)
    <2>1. l \in Nat /\ p \in Nat
      BY <1>1, <1>2
    <2>2. Unsent(c) \in {0, l + 2 + p, l + p, l}
      BY DEF Unsent
    <2> HIDE DEF l, p
    <2> QED
      BY <2>1, <2>2
  <1>4. \A k \in Nat : ends[k] \in Nat
    BY DEF Journal, Tape
  <1>5. ends[Len(delivered[c])] \in Nat
    BY <1>1, <1>4
  <1>6. /\ At(c, ends) \in Nat
        /\ At(c, ends) >= ends[Len(delivered[c])] + Len(got[c])
    <2> DEFINE e == ends[Len(delivered[c])]
               g == Len(got[c])
    <2>1. e \in Nat /\ g \in Nat
      BY <1>1, <1>5
    <2>2. At(c, ends) \in {e + g + 0, e + g + 1, e + g + 3}
      BY DEF At
    <2> HIDE DEF e, g
    <2>3. At(c, ends) \in Nat /\ At(c, ends) >= e + g
      BY <2>1, <2>2
    <2> QED
      BY <2>3 DEF e, g
  <1> QED
    BY <1>1, <1>2, <1>3, <1>4, <1>6

(* A message is appended to the tape.                                      *)
LEMMA TapeGrows ==
  ASSUME NEW messages \in Seq(TcpMessages), NEW m \in TcpMessages,
         NEW tape, NEW ends, Tape(messages, tape, ends)
  PROVE  \E other, more :
           /\ Tape(Append(messages, m), other, more)
           /\ \A k \in 0..Len(messages) : more[k] = ends[k]
           /\ more[Len(messages) + 1] = ends[Len(messages)] + 3 + Len(m.payload)
           /\ \A i \in Nat : i <= ends[Len(messages)] => other[i] = tape[i]
  <1> DEFINE n == Len(messages)
             e == ends[n]
             w == Len(m.payload)
             h == Header(m)
             other == [i \in Nat |-> IF i <= e THEN tape[i]
                                     ELSE IF i = e + 1 THEN m.command
                                     ELSE IF i = e + 2 THEN h[1]
                                     ELSE IF i = e + 3 THEN h[2]
                                     ELSE m.payload[i - e - 3]]
             more  == [k \in Nat |-> IF k = n + 1 THEN e + 3 + w ELSE ends[k]]
             longer == Append(messages, m)
  <1>1. n \in Nat /\ w \in Nat
    BY DEF TcpMessages
  <1>2. ends \in [Nat -> Nat] /\ (\A k \in 0..n : ends[k] <= e)
    BY DEF Tape
  <1>3. e \in Nat
    BY <1>1, <1>2
  <1>4. /\ Len(longer) = n + 1
        /\ \A k \in 1..n : longer[k] = messages[k]
        /\ longer[n + 1] = m
    BY SMT
  <1> HIDE DEF n, e, w, h, longer
  <1>5. more \in [Nat -> Nat]
    BY <1>1, <1>2, <1>3
  <1>6. (\A k \in 0..n : more[k] = ends[k]) /\ more[n + 1] = e + 3 + w
    BY <1>1
  <1>7. \A i \in Nat : i <= e => other[i] = tape[i]
    OBVIOUS
  <1>8. Wire(m, other, e)
    <2>1. /\ e + 1 \in Nat /\ ~(e + 1 <= e)
          /\ e + 2 \in Nat /\ ~(e + 2 <= e) /\ e + 2 # e + 1
          /\ e + 3 \in Nat /\ ~(e + 3 <= e) /\ e + 3 # e + 1 /\ e + 3 # e + 2
      BY <1>3
    <2>2. other[e + 1] = m.command /\ other[e + 2] = h[1] /\ other[e + 3] = h[2]
      <3>1. other[e + 1] = m.command
        BY <2>1
      <3>2. other[e + 2] = h[1]
        BY <2>1
      <3>3. other[e + 3] = h[2]
        BY <2>1
      <3> QED
        BY <3>1, <3>2, <3>3
    <2>3. ASSUME NEW i \in 1..w PROVE other[e + 3 + i] = m.payload[i]
      <3> DEFINE p == e + 3 + i
      <3>1. /\ p \in Nat /\ ~(p <= e)
            /\ p # e + 1 /\ p # e + 2 /\ p # e + 3
            /\ p - e - 3 = i
        BY <1>1, <1>3, <2>3
      <3> HIDE DEF p
      <3>2. other[p] = m.payload[p - e - 3]
        BY <3>1
      <3> HIDE DEF other
      <3>3. other[p] = m.payload[i]
        BY <3>1, <3>2
      <3> QED
        BY <3>3 DEF p
    <2> HIDE DEF other
    <2> QED
      BY <2>2, <2>3 DEF Wire, h, w
  <1> HIDE DEF other, more
  <1>9. \A k \in 0..(n + 1) : more[k] <= more[n + 1]
    <2> TAKE k \in 0..(n + 1)
    <2>1. CASE k = n + 1
      BY <1>1, <1>3, <1>6, <2>1
    <2>2. CASE k \in 0..n
      <3>1. more[k] = ends[k] /\ ends[k] <= e
        BY <1>2, <1>6, <2>2
      <3>2. k \in Nat
        BY <1>1, <2>2
      <3>3. ends[k] \in Nat
        BY <1>2, <3>2
      <3> QED
        BY <1>1, <1>3, <1>6, <3>1, <3>3
    <2> QED
      BY <1>1, <2>1, <2>2
  <1>10. ASSUME NEW k \in 1..(n + 1)
         PROVE  /\ more[k] = more[k - 1] + 3 + Len(longer[k].payload)
                /\ Wire(longer[k], other, more[k - 1])
    <2>1. CASE k = n + 1
      <3>1. k - 1 = n /\ n \in 0..n
        BY <1>1, <2>1
      <3>2. more[k - 1] = e
        BY <1>6, <3>1 DEF e
      <3> QED
        BY <1>4, <1>6, <1>8, <2>1, <3>2 DEF w
    <2>2. CASE k \in 1..n
      <3>1. k - 1 \in 0..n /\ k \in 0..n
        BY <1>1, <2>2
      <3>2. more[k] = ends[k] /\ more[k - 1] = ends[k - 1] /\ longer[k] = messages[k]
        BY <1>4, <1>6, <2>2, <3>1
      <3>3. /\ ends[k] = ends[k - 1] + 3 + Len(messages[k].payload)
            /\ Wire(messages[k], tape, ends[k - 1])
        BY <2>2 DEF Tape, n
      <3>4. ends[k] <= e /\ ends[k - 1] \in Nat
        BY <1>1, <1>2, <3>1
      <3>5. messages[k] \in TcpMessages
        BY <2>2 DEF n
      <3>6. Wire(messages[k], other, ends[k - 1])
        BY <1>3, <1>7, <3>3, <3>4, <3>5, WireStays
      <3> QED
        BY <3>2, <3>3, <3>6
    <2> QED
      BY <1>1, <2>1, <2>2
  <1>11. Tape(longer, other, more)
    BY <1>4, <1>5, <1>9, <1>10 DEF Tape
  <1> QED
    BY <1>6, <1>7, <1>11 DEF n, e, w, longer

LEMMA StartSendJournal ==
  ASSUME SenderInv, ReceiverTypes, StreamTypes, NEW c \in Clients, StartSend(c),
         NEW tape, NEW ends, Journal(c, tape, ends)
  PROVE  \E other, more : Journal(c, other, more)'
  <1> DEFINE m == [command |-> msg.command, payload |-> msg.payload]
             n == Len(posted[c])
             e == ends[n]
             w == Len(msg.payload)
             d == Len(delivered[c])
  <1>1. SenderTypes
    BY DEF SenderInv
  <1>2. /\ posted' = [posted EXCEPT ![c] = Append(@, m)]
        /\ to = NoClient /\ to' = c /\ stage' = "command" /\ left' = <<msg.command>>
        /\ msg' = [msg EXCEPT !.len = htons(@)]
        /\ UNCHANGED <<stream, field, got, struct, delivered>>
    BY DEF StartSend, receiverVars
  <1>3. m \in TcpMessages
    BY <1>1 DEF SenderTypes, TcpMessages
  <1>4. posted'[c] = Append(posted[c], m)
    BY <1>1, <1>2 DEF SenderTypes
  <1>5. /\ posted[c] \in Seq(TcpMessages) /\ n \in Nat /\ d \in Nat
        /\ w \in Nat /\ e \in Nat
        /\ Len(stream[c]) \in Nat /\ Len(got[c]) \in Nat
        /\ At(c, ends) \in Nat /\ At(c, ends) >= ends[d] + Len(got[c])
        /\ ends[d] \in Nat
    BY <1>1, JournalTypes
  <1>6. msg'.payload = msg.payload /\ msg'.command = msg.command
    BY <1>1, <1>2 DEF SenderTypes
  <1>7. Tape(posted[c], tape, ends)
    BY DEF Journal
  <1>8. PICK other, more :
          /\ Tape(posted'[c], other, more)
          /\ \A k \in 0..n : more[k] = ends[k]
          /\ more[n + 1] = e + 3 + Len(m.payload)
          /\ \A i \in Nat : i <= e => other[i] = tape[i]
    <2>0. posted[c] \in Seq(TcpMessages)
      BY <1>5
    <2> HIDE DEF m, n, e, w, d
    <2>1. \E other, more :
            /\ Tape(Append(posted[c], m), other, more)
            /\ \A k \in 0..Len(posted[c]) : more[k] = ends[k]
            /\ more[Len(posted[c]) + 1] = ends[Len(posted[c])] + 3 + Len(m.payload)
            /\ \A i \in Nat : i <= ends[Len(posted[c])] => other[i] = tape[i]
      BY <1>3, <1>7, <2>0, TapeGrows
    <2> QED
      BY <1>4, <2>1 DEF n, e
  <1>9. m.payload = msg.payload /\ m.command = msg.command
    OBVIOUS
  <1>10. more[n + 1] = e + 3 + w
    BY <1>8, <1>9
  <1>11. /\ Len(posted'[c]) = n + 1
         /\ \A k \in 1..n : posted'[c][k] = posted[c][k]
         /\ posted'[c][n + 1] = m
    <2> HIDE DEF m
    <2> QED
      BY <1>3, <1>4, <1>5
  <1> HIDE DEF m, n, e, w, d
  <1>12. d <= n /\ \A k \in 1..d : delivered[c][k] = posted[c][k]
    BY DEF Journal, Copied, n, d
  <1>13. Unsent(c) = 0
    BY <1>2, FramingAssumption DEF Unsent
  <1>14. Unsent(c)' = 3 + w
    <2>1. Len(left') = 1
      BY <1>2
    <2>2. Unsent(c)' = Len(left') + 2 + Len(msg'.payload)
      BY <1>2 DEF Unsent
    <2> QED
      BY <1>5, <1>6, <2>1, <2>2 DEF w
  <1>15. At(c, more)' = At(c, ends)
    <2>1. d \in 0..n
      BY <1>5, <1>12
    <2>2. more[d] = ends[d]
      BY <1>8, <2>1
    <2> QED
      BY <1>2, <2>2 DEF At, d
  <1>16. At(c, ends) + Len(stream[c]) = e
    <2>1. At(c, ends) + Len(stream[c]) = e - Unsent(c)
      BY DEF Journal, InTransit, e, n
    <2> QED
      BY <1>5, <1>13, <2>1
  <1>17. Sending(c, other, more)'
    <2>1. other[e + 1] = m.command
      <3>1. n + 1 \in 1..Len(posted'[c]) /\ n \in 0..n /\ (n + 1) - 1 = n
        <4>1. n + 1 \in 1..(n + 1) /\ n \in 0..n /\ (n + 1) - 1 = n
          BY <1>5
        <4> QED
          BY <1>11, <4>1
      <3>2. Wire(m, other, more[n])
        BY <1>8, <1>11, <3>1 DEF Tape
      <3>3. more[n] = e
        BY <1>8, <3>1 DEF e
      <3> QED
        BY <3>2, <3>3 DEF Wire
    <2>2. more[n + 1] - Unsent(c)' + 1 = e + 1
      BY <1>5, <1>10, <1>14
    <2>3. \A i \in 1..Len(left') : i = 1 /\ left'[i] = msg.command
      BY <1>2
    <2>4. \A i \in 1..Len(left') : left'[i] = other[more[n + 1] - Unsent(c)' + i]
      BY <1>9, <2>1, <2>2, <2>3
    <2>5. n + 1 > 0
      BY <1>5
    <2> QED
      BY <1>6, <1>11, <2>4, <2>5 DEF Sending, m
  <1>18. Copied(c)'
    BY <1>2, <1>5, <1>11, <1>12 DEF Copied, d
  <1>19. InTransit(c, other, more)'
    <2>1. At(c, ends) + Len(stream[c]) = more[n + 1] - Unsent(c)'
      BY <1>5, <1>10, <1>14, <1>16
    <2>2. ASSUME NEW i \in 1..Len(stream[c])
          PROVE  stream[c][i] = other[At(c, ends) + i]
      <3>1. stream[c][i] = tape[At(c, ends) + i]
        BY DEF Journal, InTransit
      <3>2. At(c, ends) + i \in Nat /\ At(c, ends) + i <= e
        BY <1>5, <1>16, <2>2
      <3> QED
        BY <1>8, <3>1, <3>2
    <2> QED
      BY <1>2, <1>11, <1>15, <2>1, <2>2 DEF InTransit
  <1>20. Partial(c, other, more)'
    <2>1. ASSUME field[c] # "command"
          PROVE  d < n /\ struct[c].command = posted[c][d + 1].command
                 /\ posted'[c][d + 1] = posted[c][d + 1]
      <3>1. d < n /\ struct[c].command = posted[c][d + 1].command
        BY <2>1 DEF Journal, Partial, d, n
      <3> QED
        BY <1>5, <1>11, <3>1
    <2>2. field[c] = "payload" => struct[c].len = Memory(Len(posted[c][d + 1].payload))
      BY DEF Journal, Partial, d
    <2>3. ASSUME NEW i \in 1..Len(got[c])
          PROVE  got[c][i] = other[At(c, ends) - Len(got[c]) + i]
      <3>1. got[c][i] = tape[At(c, ends) - Len(got[c]) + i]
        BY DEF Journal, Partial
      <3>2. /\ At(c, ends) - Len(got[c]) + i \in Nat
            /\ At(c, ends) - Len(got[c]) + i <= e
        <4> DEFINE a == At(c, ends)
                   g == Len(got[c])
                   s == Len(stream[c])
                   b == ends[d]
        <4>1. a \in Nat /\ g \in Nat /\ s \in Nat /\ b \in Nat /\ a >= b + g /\ a + s = e
          BY <1>5, <1>16
        <4>2. i \in 1..g
          BY <2>3
        <4> HIDE DEF a, g, s, b
        <4>3. a - g + i \in Nat /\ a - g + i <= e
          BY <1>5, <4>1, <4>2
        <4> QED
          BY <4>3 DEF a, g
      <3> QED
        BY <1>8, <3>1, <3>2
    <2>4. d < n + 1 \/ ~ (d < n)
      BY <1>5
    <2>5. field[c] # "command" =>
            /\ d < Len(posted'[c])
            /\ struct[c].command = posted'[c][d + 1].command
      BY <1>11, <2>1, <2>4
    <2>6. field[c] = "payload" => struct[c].len = Memory(Len(posted'[c][d + 1].payload))
      BY <2>1, <2>2
    <2> QED
      BY <1>2, <1>15, <2>3, <2>5, <2>6 DEF Partial, d
  <1> QED
    BY <1>8, <1>17, <1>18, <1>19, <1>20 DEF Journal

(* The message being sent is the last one on the tape.                     *)
LEMMA LastOnTape ==
  ASSUME SenderTypes, ReceiverTypes, StreamTypes, NEW c \in Clients, to = c,
         NEW tape, NEW ends, Journal(c, tape, ends)
  PROVE  LET b == ends[Len(posted[c]) - 1]
         IN  /\ b \in Nat
             /\ ends[Len(posted[c])] = b + 3 + Len(msg.payload)
             /\ tape[b + 2] = htons(Memory(Len(msg.payload)))[1]
             /\ tape[b + 3] = htons(Memory(Len(msg.payload)))[2]
             /\ \A i \in 1..Len(msg.payload) : tape[b + 3 + i] = msg.payload[i]
  <1> DEFINE n == Len(posted[c])
  <1>1. /\ n > 0
        /\ posted[c][n] = [command |-> msg.command, payload |-> msg.payload]
    BY DEF Journal, Sending
  <1>2. n \in Nat /\ n \in 1..n /\ n - 1 \in Nat
    BY <1>1, JournalTypes
  <1>3. posted[c][n].payload = msg.payload
    BY <1>1
  <1>4. /\ ends[n] = ends[n - 1] + 3 + Len(posted[c][n].payload)
        /\ Wire(posted[c][n], tape, ends[n - 1])
    BY <1>2 DEF Journal, Tape
  <1>5. ends[n - 1] \in Nat
    BY <1>2, JournalTypes
  <1> HIDE DEF n
  <1>6. /\ ends[n] = ends[n - 1] + 3 + Len(msg.payload)
        /\ tape[ends[n - 1] + 2] = htons(Memory(Len(msg.payload)))[1]
        /\ tape[ends[n - 1] + 3] = htons(Memory(Len(msg.payload)))[2]
        /\ \A i \in 1..Len(msg.payload) : tape[ends[n - 1] + 3 + i] = msg.payload[i]
    BY <1>3, <1>4 DEF Wire, Header
  <1> QED
    BY <1>5, <1>6 DEF n

(* Bytes move from the sender to the connection.                           *)
LEMMA PutJournal ==
  ASSUME SenderTypes, ReceiverTypes, StreamTypes, NEW c \in Clients, to = c,
         NEW tape, NEW ends, Journal(c, tape, ends),
         NEW n \in 0..Len(left), Put(n), Unsent(c)' = Unsent(c) - n
  PROVE  /\ Tape(posted[c], tape, ends)' /\ Copied(c)'
         /\ InTransit(c, tape, ends)' /\ Partial(c, tape, ends)'
  <1> DEFINE e == ends[Len(posted[c])]
             u == Unsent(c)
             a == At(c, ends)
             s == Len(stream[c])
             piece == SubSeq(left, 1, n)
  <1>1. /\ stream' = [stream EXCEPT ![c] = stream[c] \o piece]
        /\ UNCHANGED <<posted, field, got, struct, delivered>>
    BY DEF Put, receiverVars
  <1>2. /\ e \in Nat /\ u \in Nat /\ a \in Nat /\ s \in Nat /\ n \in Nat
        /\ stream[c] \in Seq(Byte) /\ left \in Seq(Byte)
    BY JournalTypes
  <1>3. /\ piece \in Seq(Byte) /\ Len(piece) = n
        /\ \A i \in 1..n : piece[i] = left[i]
    BY <1>2, PieceTypes
  <1>4. /\ a + s = e - u
        /\ \A i \in 1..s : stream[c][i] = tape[a + i]
        /\ \A i \in 1..Len(left) : left[i] = tape[e - u + i]
    BY DEF Journal, InTransit, Sending
  <1>5. At(c, ends)' = a
    BY <1>1 DEF At
  <1>6. Tape(posted[c], tape, ends)' /\ Copied(c)' /\ Partial(c, tape, ends)'
    BY <1>1, <1>5 DEF Journal, Tape, Copied, Partial
  <1>7. Unsent(c)' = u - n
    OBVIOUS
  <1>8. \A i \in 1..n : i \in 1..Len(left)
    BY <1>2
  <1>9. stream'[c] = stream[c] \o piece
    BY <1>1 DEF StreamTypes
  <1> HIDE DEF e, u, a, s, piece
  <1>10. /\ Len(stream'[c]) = s + n
         /\ \A i \in 1..s : stream'[c][i] = stream[c][i]
         /\ \A i \in (s + 1)..(s + n) : stream'[c][i] = piece[i - s]
    <2>1. stream[c] \in Seq(Byte) /\ piece \in Seq(Byte)
      BY <1>2, <1>3
    <2>2. LET t == stream[c] \o piece
          IN  /\ Len(t) = Len(stream[c]) + Len(piece)
              /\ \A i \in 1..Len(stream[c]) : t[i] = stream[c][i]
              /\ \A i \in (Len(stream[c]) + 1)..(Len(stream[c]) + Len(piece)) :
                   t[i] = piece[i - Len(stream[c])]
      BY <2>1, ConcatTypes
    <2> QED
      BY <1>3, <1>9, <2>2 DEF s
  <1>11. a + Len(stream'[c]) = e - Unsent(c)'
    <2>1. a + (s + n) = e - (u - n)
      BY <1>2, <1>4
    <2> QED
      BY <1>7, <1>10, <2>1
  <1>12. ASSUME NEW i \in 1..Len(stream'[c]) PROVE stream'[c][i] = tape[a + i]
    <2>1. i \in 1..(s + n)
      BY <1>10
    <2>2. CASE i \in 1..s
      BY <1>4, <1>10, <2>2
    <2>3. CASE i \in (s + 1)..(s + n)
      <3>1. i - s \in 1..n
        BY <1>2, <2>3
      <3>2. stream'[c][i] = left[i - s]
        BY <1>3, <1>10, <2>3, <3>1
      <3>3. left[i - s] = tape[e - u + (i - s)]
        BY <1>4, <1>8, <3>1
      <3>4. e - u + (i - s) = a + i
        BY <1>2, <1>4, <2>1
      <3> QED
        BY <3>2, <3>3, <3>4
    <2> QED
      BY <1>2, <2>1, <2>2, <2>3
  <1>13. posted' = posted
    BY <1>1
  <1>14. InTransit(c, tape, ends)'
    BY <1>5, <1>11, <1>12, <1>13 DEF InTransit, e
  <1> QED
    BY <1>6, <1>14

LEMMA SendJournal ==
  ASSUME SenderInv, ReceiverTypes, StreamTypes, NEW c \in Clients, to = c, SendStep,
         NEW tape, NEW ends, Journal(c, tape, ends)
  PROVE  Journal(c, tape, ends)'
  <1> DEFINE e == ends[Len(posted[c])]
             u == Unsent(c)
             w == Len(msg.payload)
             l == Len(left)
             b == ends[Len(posted[c]) - 1]
  <1>1. SenderTypes
    BY DEF SenderInv
  <1>2. /\ e \in Nat /\ u \in Nat /\ w \in Nat /\ l \in Nat
        /\ left \in Seq(Byte) /\ msg.payload \in Seq(Byte)
    BY <1>1, JournalTypes
  <1>3. to # NoClient /\ c # NoClient
    BY FramingAssumption
  <1>4. stage # "none"
    BY <1>3 DEF SenderInv
  <1>5. msg.len \in uint16_t /\ w \in Lengths
    BY <1>1 DEF SenderInv, SenderTypes
  <1>6. /\ b \in Nat /\ e = b + 3 + w
        /\ tape[b + 2] = htons(Memory(w))[1]
        /\ tape[b + 3] = htons(Memory(w))[2]
        /\ \A i \in 1..w : tape[b + 3 + i] = msg.payload[i]
    BY <1>1, LastOnTape
  <1> HIDE DEF b
  <1>7. /\ Len(posted[c]) > 0
        /\ posted[c][Len(posted[c])] = [command |-> msg.command, payload |-> msg.payload]
        /\ \A i \in 1..l : left[i] = tape[e - u + i]
    BY DEF Journal, Sending
  <1>8. ASSUME NEW n \in 0..l, Put(n), Unsent(c)' = u - n, Sending(c, tape, ends)'
        PROVE  Journal(c, tape, ends)'
    BY <1>1, <1>8, PutJournal DEF Journal
  <1>9. ASSUME UNCHANGED posted, msg'.command = msg.command, msg'.payload = msg.payload,
               \A i \in 1..Len(left') : left'[i] = tape[e - Unsent(c)' + i]
        PROVE  Sending(c, tape, ends)'
    BY <1>7, <1>9 DEF Sending
  <1>10. l \in 0..l
    BY <1>2
  <1>11. ASSUME NEW n \in 1..Capacity, SendPiece(n)
         PROVE  Journal(c, tape, ends)'
    <2>1. n \in 0..l /\ Put(n)
      BY <1>2, <1>11, FramingAssumption DEF SendPiece
    <2>2. left' = SubSeq(left, n + 1, Len(left)) /\ UNCHANGED <<msg, to, stage, posted>>
      BY <1>11 DEF SendPiece, Put
    <2>3. /\ Len(left') = l - n
          /\ \A i \in 1..(l - n) : left'[i] = left[n + i]
      BY <1>2, <2>1, <2>2, PieceTypes
    <2>4. Unsent(c)' = u - n
      <3>1. CASE stage = "command"
        <4>1. u = l + 2 + w
          BY <3>1 DEF Unsent
        <4>2. Unsent(c)' = Len(left') + 2 + w
          BY <2>2, <3>1 DEF Unsent
        <4> HIDE DEF u, l, w
        <4> QED
          BY <1>2, <2>1, <2>3, <4>1, <4>2
      <3>2. CASE stage = "len"
        <4>1. u = l + w
          BY <3>2 DEF Unsent
        <4>2. Unsent(c)' = Len(left') + w
          BY <2>2, <3>2 DEF Unsent
        <4> HIDE DEF u, l, w
        <4> QED
          BY <1>2, <2>1, <2>3, <4>1, <4>2
      <3>3. CASE stage = "payload"
        <4>1. u = l
          BY <3>3 DEF Unsent
        <4>2. Unsent(c)' = Len(left')
          BY <2>2, <3>3 DEF Unsent
        <4> QED
          BY <2>3, <4>1, <4>2
      <3> QED
        BY <1>1, <1>4, <3>1, <3>2, <3>3 DEF SenderTypes
    <2>5. ASSUME NEW i \in 1..Len(left') PROVE left'[i] = tape[e - Unsent(c)' + i]
      <3> HIDE DEF e, u, l
      <3>1. i \in 1..(l - n) /\ n + i \in 1..l
        BY <1>2, <2>1, <2>3, <2>5
      <3>2. left'[i] = tape[e - u + (n + i)]
        BY <1>7, <2>3, <3>1
      <3>3. e - u + (n + i) = e - Unsent(c)' + i
        BY <1>2, <2>1, <2>4, <3>1
      <3> QED
        BY <3>2, <3>3
    <2>6. Sending(c, tape, ends)'
      BY <1>9, <2>2, <2>5
    <2> QED
      BY <1>8, <2>1, <2>4, <2>6
  <1>12. ASSUME CommandSent PROVE Journal(c, tape, ends)'
    <2>1. /\ stage = "command" /\ Put(l) /\ stage' = "len" /\ left' = msg.len
          /\ UNCHANGED <<msg, to, posted>>
      BY <1>12 DEF CommandSent, Put
    <2>2. /\ Len(left') = 2
          /\ left'[1] = htons(Memory(w))[1] /\ left'[2] = htons(Memory(w))[2]
      BY <1>5, <2>1, TwoBytes DEF SenderInv, LengthKept
    <2>3. u = l + 2 + w
      BY <2>1 DEF Unsent
    <2>4. Unsent(c)' = 2 + w
      BY <2>1, <2>2 DEF Unsent
    <2> HIDE DEF e, u, w, l
    <2>5. Unsent(c)' = u - l
      BY <1>2, <2>3, <2>4
    <2>6. /\ e - Unsent(c)' + 1 = b + 2
          /\ e - Unsent(c)' + 2 = b + 3
      BY <1>2, <1>6, <2>4
    <2>7. \A i \in 1..Len(left') : i = 1 \/ i = 2
      BY <2>2
    <2>8. \A i \in 1..Len(left') : left'[i] = tape[e - Unsent(c)' + i]
      BY <1>6, <2>2, <2>6, <2>7
    <2>9. Sending(c, tape, ends)'
      BY <1>9, <2>1, <2>8
    <2> QED
      BY <1>8, <1>10, <2>1, <2>5, <2>9
  <1>13. ASSUME LenSent PROVE Journal(c, tape, ends)'
    <2>1. /\ stage = "len" /\ Put(l) /\ UNCHANGED posted
          /\ msg' = [msg EXCEPT !.len = ntohs(@)]
      BY <1>13 DEF LenSent, AfterLen, Put
    <2>2. msg'.command = msg.command /\ msg'.payload = msg.payload
          /\ msg'.len = ntohs(msg.len)
      BY <1>1, <2>1 DEF SenderTypes
    <2>3. msg'.len = Memory(w)
      BY <1>5, <2>1, <2>2, MemoryOfLength, TwoBytes DEF SenderInv, LengthKept
    <2>4. Value(msg'.len) = w
      BY <1>5, <2>3, MemoryOfLength
    <2>5. u = l + w
      BY <2>1 DEF Unsent
    <2>6. CASE Value(msg'.len) > 0 /\ stage' = "payload" /\ left' = msg.payload /\ to' = to
      <3>1. Unsent(c)' = w /\ Len(left') = w
        BY <2>2, <2>6 DEF Unsent
      <3>2. \A i \in 1..Len(left') : left'[i] = tape[b + 3 + i]
        BY <1>6, <2>6
      <3> HIDE DEF e, u, w, l
      <3>3. Unsent(c)' = u - l
        BY <1>2, <2>5, <3>1
      <3>4. e - Unsent(c)' = b + 3
        BY <1>2, <1>6, <3>1
      <3>5. \A i \in 1..Len(left') : left'[i] = tape[e - Unsent(c)' + i]
        BY <3>2, <3>4
      <3>6. Sending(c, tape, ends)'
        BY <1>9, <2>1, <2>2, <3>5
      <3> QED
        BY <1>8, <1>10, <2>1, <3>3, <3>6
    <2>7. CASE Value(msg'.len) = 0 /\ to' = NoClient
      <3>1. Unsent(c)' = 0 /\ Sending(c, tape, ends)'
        BY <1>3, <2>7 DEF Unsent, Sending
      <3> HIDE DEF e, u, w, l
      <3>2. Unsent(c)' = u - l
        BY <1>2, <2>4, <2>5, <2>7, <3>1
      <3> QED
        BY <1>8, <1>10, <2>1, <3>1, <3>2
    <2> QED
      BY <1>13, <2>6, <2>7 DEF LenSent, Return
  <1>14. ASSUME PayloadSent PROVE Journal(c, tape, ends)'
    <2>1. stage = "payload" /\ Put(l) /\ to' = NoClient
      BY <1>14 DEF PayloadSent, Return
    <2>2. u = l
      BY <2>1 DEF Unsent
    <2>3. Unsent(c)' = 0 /\ Sending(c, tape, ends)'
      BY <1>3, <2>1 DEF Unsent, Sending
    <2> HIDE DEF e, u, w, l
    <2>4. Unsent(c)' = u - l
      BY <1>2, <2>2, <2>3
    <2> QED
      BY <1>8, <1>10, <2>1, <2>3, <2>4
  <1> QED
    BY <1>11, <1>12, <1>13, <1>14 DEF SendStep

-----------------------------------------------------------------------------
(* A client takes n bytes from its connection.                             *)
LEMMA TakeJournal ==
  ASSUME SenderTypes, ReceiverTypes, StreamTypes, NEW c \in Clients,
         NEW tape, NEW ends, Journal(c, tape, ends),
         NEW n \in Nat, Take(c, n)
  PROVE  /\ Tape(posted[c], tape, ends)' /\ Sending(c, tape, ends)'
         /\ At(c, ends)' = At(c, ends) + n => InTransit(c, tape, ends)'
         /\ \A i \in 1..(Len(got[c]) + n) :
              Arrived(c, n)[i] = tape[At(c, ends) - Len(got[c]) + i]
         /\ n > 0 => Len(delivered[c]) < Len(posted[c])
  <1> DEFINE e == ends[Len(posted[c])]
             u == Unsent(c)
             a == At(c, ends)
             s == Len(stream[c])
             g == Len(got[c])
             d == Len(delivered[c])
  <1>1. /\ e \in Nat /\ u \in Nat /\ a \in Nat /\ s \in Nat /\ g \in Nat /\ d \in Nat
        /\ stream[c] \in Seq(Byte)
        /\ ends[d] \in Nat /\ a >= ends[d] + g
    BY JournalTypes
  <1>2. /\ n \in 0..Len(stream[c])
        /\ \A i \in 1..g : Arrived(c, n)[i] = got[c][i]
        /\ \A i \in (g + 1)..(g + n) : Arrived(c, n)[i] = stream[c][i - g]
        /\ stream' = [stream EXCEPT ![c] = SubSeq(stream[c], n + 1, Len(stream[c]))]
        /\ UNCHANGED senderVars
    BY TakeTypes
  <1>3. stream'[c] = SubSeq(stream[c], n + 1, Len(stream[c]))
    BY <1>2 DEF StreamTypes
  <1>4. Len(stream'[c]) = s - n /\ \A i \in 1..(s - n) : stream'[c][i] = stream[c][n + i]
    <2> HIDE DEF e, u, a, g, d
    <2>1. /\ Len(SubSeq(stream[c], n + 1, Len(stream[c]))) = Len(stream[c]) - n
          /\ \A i \in 1..(Len(stream[c]) - n) :
               SubSeq(stream[c], n + 1, Len(stream[c]))[i] = stream[c][n + i]
      BY <1>1, <1>2, PieceTypes
    <2> QED
      BY <1>3, <2>1
  <1>5. /\ a + s = e - u
        /\ \A i \in 1..s : stream[c][i] = tape[a + i]
        /\ \A i \in 1..g : got[c][i] = tape[a - g + i]
        /\ d <= Len(posted[c])
    BY DEF Journal, InTransit, Partial, Copied
  <1>6. UNCHANGED <<msg, to, stage, left, posted>>
    BY <1>2 DEF senderVars
  <1>7. Unsent(c)' = u
    BY <1>6 DEF Unsent
  <1>8. Tape(posted[c], tape, ends)' /\ Sending(c, tape, ends)'
    BY <1>6, <1>7 DEF Journal, Tape, Sending
  <1>9. n \in 0..s
    BY <1>2
  <1> HIDE DEF e, u, a, s, g, d
  <1>10. ASSUME At(c, ends)' = a + n PROVE InTransit(c, tape, ends)'
    <2>1. (a + n) + Len(stream'[c]) = e - u
      BY <1>1, <1>4, <1>5, <1>9
    <2>2. ASSUME NEW i \in 1..Len(stream'[c]) PROVE stream'[c][i] = tape[(a + n) + i]
      <3>1. i \in 1..(s - n) /\ n + i \in 1..s
        BY <1>1, <1>4, <1>9, <2>2
      <3>2. stream'[c][i] = tape[a + (n + i)]
        BY <1>4, <1>5, <3>1
      <3>3. a + (n + i) = (a + n) + i
        BY <1>1, <3>1
      <3> QED
        BY <3>2, <3>3
    <2> QED
      BY <1>6, <1>7, <1>10, <2>1, <2>2 DEF InTransit, e
  <1>11. ASSUME NEW i \in 1..(g + n) PROVE Arrived(c, n)[i] = tape[a - g + i]
    <2>1. CASE i \in 1..g
      BY <1>2, <1>5, <2>1
    <2>2. CASE i \in (g + 1)..(g + n)
      <3>1. i - g \in 1..s
        BY <1>1, <1>9, <2>2
      <3>2. Arrived(c, n)[i] = tape[a + (i - g)]
        BY <1>2, <1>5, <2>2, <3>1
      <3>3. a + (i - g) = a - g + i
        BY <1>1, <1>11
      <3> QED
        BY <3>2, <3>3
    <2> QED
      BY <1>1, <1>11, <2>1, <2>2
  <1>12. ASSUME n > 0 PROVE d < Len(posted[c])
    <2>1. d # Len(posted[c])
      <3> SUFFICES ASSUME d = Len(posted[c]) PROVE FALSE
        OBVIOUS
      <3>1. ends[d] = e
        BY DEF e
      <3> QED
        BY <1>1, <1>5, <1>9, <1>12, <3>1
    <2>2. Len(posted[c]) \in Nat
      BY JournalTypes
    <2> QED
      BY <1>1, <1>5, <2>1, <2>2
  <1> QED
    BY <1>8, <1>10, <1>11, <1>12 DEF a, g, d

(* The next message on the tape, and the length a client has read of it.   *)
LEMMA NextOnTape ==
  ASSUME SenderInv, ReceiverTypes, StreamTypes, NEW c \in Clients,
         NEW tape, NEW ends, Journal(c, tape, ends),
         Len(delivered[c]) < Len(posted[c])
  PROVE  LET d == Len(delivered[c])
             m == posted[c][d + 1]
         IN  /\ m \in TcpMessages /\ Len(m.payload) \in Lengths
             /\ ends[d + 1] = ends[d] + 3 + Len(m.payload)
             /\ Wire(m, tape, ends[d])
  <1> DEFINE d == Len(delivered[c])
  <1>1. SenderTypes
    BY DEF SenderInv
  <1>2. d \in Nat /\ posted[c] \in Seq(TcpMessages) /\ Len(posted[c]) \in Nat
    BY <1>1, JournalTypes
  <1>3. d + 1 \in 1..Len(posted[c]) /\ (d + 1) - 1 = d
    BY <1>2
  <1> HIDE DEF d
  <1>4. posted[c][d + 1] \in TcpMessages
    BY <1>2, <1>3
  <1>5. Len(posted[c][d + 1].payload) \in Lengths
    BY <1>3 DEF SenderInv
  <1>6. /\ ends[d + 1] = ends[d] + 3 + Len(posted[c][d + 1].payload)
        /\ Wire(posted[c][d + 1], tape, ends[d])
    BY <1>3 DEF Journal, Tape
  <1> QED
    BY <1>4, <1>5, <1>6 DEF d

(* c has the whole of the next message.                                    *)
Collects(c) ==
  /\ Len(delivered[c]) < Len(posted[c])
  /\ delivered' = [delivered EXCEPT ![c] = Append(@, posted[c][Len(@) + 1])]

LEMMA DeliverJournal ==
  ASSUME SenderInv, ReceiverTypes, StreamTypes, NEW c \in Clients,
         NEW tape, NEW ends, Journal(c, tape, ends),
         Len(delivered[c]) < Len(posted[c]), NEW n \in Nat, Take(c, n),
         n + At(c, ends) = ends[Len(delivered[c]) + 1],
         NEW command, NEW payload, Deliver(c, command, payload), NextField(c, "command"),
         command = posted[c][Len(delivered[c]) + 1].command,
         payload = posted[c][Len(delivered[c]) + 1].payload
  PROVE  Journal(c, tape, ends)' /\ Collects(c)
  <1> DEFINE d == Len(delivered[c])
             m == posted[c][d + 1]
  <1>1. SenderTypes
    BY DEF SenderInv
  <1>2. /\ d \in Nat /\ Len(posted[c]) \in Nat
        /\ delivered[c] \in Seq(TcpMessages) /\ posted[c] \in Seq(TcpMessages)
        /\ At(c, ends) \in Nat /\ ends[d + 1] \in Nat
    BY <1>1, JournalTypes
  <1>3. m \in TcpMessages
    BY NextOnTape
  <1>4. [command |-> command, payload |-> payload] = m
    BY <1>3 DEF TcpMessages
  <1>5. delivered' = [delivered EXCEPT ![c] = Append(@, m)]
    BY <1>4 DEF Deliver
  <1>6. Collects(c)
    BY <1>5 DEF Collects
  <1>7. /\ field' = [field EXCEPT ![c] = "command"]
        /\ got' = [got EXCEPT ![c] = <<>>]
    BY DEF NextField
  <1>8. field'[c] = "command" /\ Len(got'[c]) = 0
    BY <1>7 DEF ReceiverTypes
  <1>9. delivered'[c] = Append(delivered[c], m)
    BY <1>5 DEF ReceiverTypes
  <1>10. posted' = posted
    BY <1>1, TakeTypes DEF senderVars
  <1>11. d < Len(posted[c]) /\ \A k \in 1..d : delivered[c][k] = posted[c][k]
    BY DEF Journal, Copied
  <1> HIDE DEF m
  <1>12. /\ Len(delivered'[c]) = d + 1
         /\ \A k \in 1..d : delivered'[c][k] = delivered[c][k]
         /\ delivered'[c][d + 1] = m
    BY <1>2, <1>3, <1>9
  <1>13. At(c, ends)' = At(c, ends) + n
    <2>1. At(c, ends)' = ends[Len(delivered'[c])] + Len(got'[c]) + 0
      BY <1>8 DEF At
    <2>2. At(c, ends)' = ends[d + 1]
      BY <1>2, <1>8, <1>12, <2>1
    <2>3. ends[d + 1] = n + At(c, ends)
      OBVIOUS
    <2> QED
      BY <1>2, <2>2, <2>3
  <1>14. /\ Tape(posted[c], tape, ends)' /\ Sending(c, tape, ends)'
         /\ InTransit(c, tape, ends)'
    BY <1>1, <1>13, TakeJournal
  <1> HIDE DEF d
  <1>15. Copied(c)'
    <2>1. d + 1 <= Len(posted[c])
      BY <1>2, <1>11
    <2>2. ASSUME NEW k \in 1..(d + 1) PROVE delivered'[c][k] = posted[c][k]
      <3>1. CASE k \in 1..d
        BY <1>11, <1>12, <3>1
      <3>2. CASE k = d + 1
        BY <1>12, <3>2 DEF m
      <3> QED
        BY <1>2, <2>2, <3>1, <3>2
    <2> QED
      BY <1>10, <1>12, <2>1, <2>2 DEF Copied
  <1>16. Partial(c, tape, ends)'
    BY <1>8 DEF Partial
  <1> QED
    BY <1>6, <1>14, <1>15, <1>16 DEF Journal

LEMMA ReceiveJournal ==
  ASSUME SenderInv, ReceiverInv, StreamTypes, NEW c \in Clients, ReceiveStep(c),
         NEW tape, NEW ends, Journal(c, tape, ends)
  PROVE  Journal(c, tape, ends)' /\ (UNCHANGED delivered \/ Collects(c))
  <1> DEFINE d == Len(delivered[c])
             m == posted[c][d + 1]
             g == Len(got[c])
             a == At(c, ends)
             n == Missing(c)
  <1>1. SenderTypes /\ ReceiverTypes /\ g < Size(c)
    BY DEF SenderInv, ReceiverInv
  <1>2. /\ d \in Nat /\ g \in Nat /\ a \in Nat /\ ends[d] \in Nat
        /\ got[c] \in Seq(Byte)
        /\ \A k \in Nat : ends[k] \in Nat
    BY <1>1, JournalTypes
  <1>3. Size(c) \in Nat /\ struct[c] \in [command : Byte, len : uint16_t]
    BY <1>1, SizeTypes DEF ReceiverTypes
  <1>4. n \in Nat /\ n > 0 /\ g + n = Size(c)
    BY <1>1, <1>2, <1>3 DEF Missing
  <1>5. ASSUME NEW x \in Nat, Take(c, x)
        PROVE  /\ Tape(posted[c], tape, ends)' /\ Sending(c, tape, ends)'
               /\ At(c, ends)' = a + x => InTransit(c, tape, ends)'
               /\ \A i \in 1..(g + x) : Arrived(c, x)[i] = tape[a - g + i]
               /\ x > 0 => d < Len(posted[c])
               /\ Arrived(c, x) \in Seq(Byte) /\ Len(Arrived(c, x)) = g + x
               /\ UNCHANGED <<msg, to, stage, left, posted>>
    <2> HIDE DEF d, m, g, a, n
    <2>1. /\ Tape(posted[c], tape, ends)' /\ Sending(c, tape, ends)'
          /\ At(c, ends)' = At(c, ends) + x => InTransit(c, tape, ends)'
          /\ \A i \in 1..(Len(got[c]) + x) :
               Arrived(c, x)[i] = tape[At(c, ends) - Len(got[c]) + i]
          /\ x > 0 => Len(delivered[c]) < Len(posted[c])
      BY <1>1, <1>5, TakeJournal
    <2>2. /\ Arrived(c, x) \in Seq(Byte) /\ Len(Arrived(c, x)) = Len(got[c]) + x
          /\ UNCHANGED senderVars
      BY <1>1, <1>5, TakeTypes
    <2> QED
      BY <2>1, <2>2 DEF senderVars, d, g, a
  <1>6. ASSUME d < Len(posted[c])
        PROVE  /\ m \in TcpMessages /\ Len(m.payload) \in Lengths
               /\ ends[d + 1] = ends[d] + 3 + Len(m.payload)
               /\ Wire(m, tape, ends[d])
    BY <1>1, <1>6, NextOnTape
  <1>7. ASSUME UNCHANGED <<posted, delivered>> PROVE Copied(c)'
    BY <1>7 DEF Journal, Copied
  <1>8. field[c] # "command" => d < Len(posted[c]) /\ struct[c].command = m.command
    BY DEF Journal, Partial
  <1>9. field[c] = "payload" => struct[c].len = Memory(Len(m.payload))
    BY DEF Journal, Partial
  <1> HIDE DEF m, n
  <1>10. ASSUME NEW x \in 1..Capacity, ReceivePiece(c, x)
         PROVE  Journal(c, tape, ends)' /\ UNCHANGED delivered
    <2>1. x \in Nat /\ Take(c, x)
      BY <1>10, FramingAssumption DEF ReceivePiece
    <2>2. /\ got' = [got EXCEPT ![c] = Arrived(c, x)]
          /\ UNCHANGED <<field, struct, delivered>>
      BY <1>10 DEF ReceivePiece
    <2>3. got'[c] = Arrived(c, x)
      BY <1>1, <2>2 DEF ReceiverTypes
    <2>4. Len(got'[c]) = g + x
      BY <1>5, <2>1, <2>3
    <2>5. At(c, ends)' = a + x
      <3> DEFINE k == IF field[c] = "command" THEN 0 ELSE IF field[c] = "len" THEN 1 ELSE 3
      <3>1. k \in Nat
        OBVIOUS
      <3>2. a = ends[d] + g + k
        BY DEF At
      <3>3. At(c, ends)' = ends[d] + Len(got'[c]) + k
        BY <2>2 DEF At
      <3> HIDE DEF k, a, g, d
      <3> QED
        BY <1>2, <2>1, <2>4, <3>1, <3>2, <3>3
    <2>6. ASSUME NEW i \in 1..Len(got'[c])
          PROVE  got'[c][i] = tape[At(c, ends)' - Len(got'[c]) + i]
      <3>1. got'[c][i] = tape[a - g + i]
        BY <1>5, <2>1, <2>3, <2>4, <2>6
      <3> HIDE DEF a, g, d
      <3>2. At(c, ends)' - Len(got'[c]) + i = a - g + i
        BY <1>2, <2>1, <2>4, <2>5, <2>6
      <3> QED
        BY <3>1, <3>2
    <2>7. Partial(c, tape, ends)'
      <3>1. UNCHANGED posted
        BY <1>5, <2>1
      <3> QED
        BY <2>2, <2>6, <3>1 DEF Journal, Partial
    <2>8. Copied(c)'
      BY <1>5, <1>7, <2>1, <2>2
    <2> QED
      BY <1>5, <2>1, <2>2, <2>5, <2>7, <2>8 DEF Journal
  <1>11. ASSUME ReceivedCommand(c)
         PROVE  Journal(c, tape, ends)' /\ UNCHANGED delivered
    <2>1. /\ field[c] = "command" /\ Take(c, 1) /\ NextField(c, "len")
          /\ struct' = [struct EXCEPT ![c].command = Arrived(c, 1)[1]]
          /\ UNCHANGED delivered
      BY <1>11 DEF ReceivedCommand
    <2>2. /\ 1 \in Nat /\ 1 > 0
      OBVIOUS
    <2>3. d < Len(posted[c]) /\ UNCHANGED posted
      BY <1>5, <2>1, <2>2
    <2>4. g = 0
      BY <1>1, <1>2, <2>1 DEF Size
    <2>5. a = ends[d]
      <3>1. a = ends[d] + g + 0
        BY <2>1 DEF At
      <3> QED
        BY <1>2, <2>4, <3>1
    <2>6. Arrived(c, 1)[1] = m.command
      <3>1. Arrived(c, 1)[1] = tape[a - g + 1]
        <4>1. 1 \in 1..(g + 1)
          BY <2>4
        <4> QED
          BY <1>5, <2>1, <2>2, <4>1
      <3>2. tape[ends[d] + 1] = m.command
        BY <1>6, <2>3 DEF Wire
      <3> HIDE DEF a, g, d
      <3>3. a - g + 1 = ends[d] + 1
        BY <1>2, <2>4, <2>5
      <3> QED
        BY <3>1, <3>2, <3>3
    <2>7. field'[c] = "len" /\ Len(got'[c]) = 0
      BY <1>1, <2>1 DEF NextField, ReceiverTypes
    <2>8. struct'[c].command = m.command
      BY <1>1, <2>1, <2>6 DEF ReceiverTypes
    <2>9. At(c, ends)' = a + 1
      <3>1. At(c, ends)' = ends[d] + 0 + 1
        BY <2>1, <2>7 DEF At
      <3> HIDE DEF a, d
      <3> QED
        BY <1>2, <2>5, <3>1
    <2>10. Partial(c, tape, ends)'
      BY <2>1, <2>3, <2>7, <2>8 DEF Partial, m
    <2>11. Copied(c)'
      BY <1>7, <2>1, <2>3
    <2> QED
      BY <1>5, <2>1, <2>2, <2>9, <2>10, <2>11 DEF Journal
  <1>12. ASSUME ReceivedLen(c)
         PROVE  Journal(c, tape, ends)' /\ (UNCHANGED delivered \/ Collects(c))
    <2> DEFINE arrived == Arrived(c, n)
               w == Len(m.payload)
    <2>1. /\ field[c] = "len" /\ Take(c, n)
          /\ struct' = [struct EXCEPT ![c].len = ntohs(arrived)]
      BY <1>12 DEF ReceivedLen, n
    <2>2. /\ d < Len(posted[c]) /\ struct[c].command = m.command
      BY <1>8, <2>1
    <2>3. /\ m \in TcpMessages /\ w \in Lengths
          /\ ends[d + 1] = ends[d] + 3 + w
          /\ tape[ends[d] + 2] = Header(m)[1]
          /\ tape[ends[d] + 3] = Header(m)[2]
      BY <1>6, <2>2 DEF Wire
    <2>4. g + n = 2
      BY <1>4, <2>1 DEF Size
    <2>5. a = ends[d] + g + 1
      BY <2>1 DEF At
    <2>6. arrived \in Seq(Byte) /\ Len(arrived) = 2
      BY <1>4, <1>5, <2>1, <2>4
    <2>7. arrived[1] = Header(m)[1] /\ arrived[2] = Header(m)[2]
      <3>1. \A i \in 1..2 : arrived[i] = tape[a - g + i]
        BY <1>4, <1>5, <2>1, <2>4
      <3>2. arrived[1] = tape[a - g + 1] /\ arrived[2] = tape[a - g + 2]
        BY <3>1
      <3> HIDE DEF arrived, a, g, d
      <3>3. a - g + 1 = ends[d] + 2 /\ a - g + 2 = ends[d] + 3
        BY <1>2, <2>5
      <3> QED
        BY <2>3, <3>2, <3>3
    <2>8. Memory(w) \in uint16_t /\ Value(Memory(w)) = w /\ w \in Nat
      BY <2>3, MemoryOfLength
    <2>9. ntohs(arrived) = Memory(w)
      <3>1. ntohs(arrived) = <<arrived[2], arrived[1]>>
        BY DEF ntohs, htons
      <3>2. ntohs(arrived) = <<Header(m)[2], Header(m)[1]>>
        BY <2>7, <3>1
      <3>3. ntohs(Header(m)) = <<Header(m)[2], Header(m)[1]>>
        BY DEF ntohs, htons
      <3>4. ntohs(Header(m)) = Memory(w)
        BY <2>8, TwoBytes DEF Header
      <3> QED
        BY <3>2, <3>3, <3>4
    <2>10. struct'[c].len = Memory(w) /\ struct'[c].command = m.command
      <3> HIDE DEF arrived
      <3> QED
        BY <1>1, <2>1, <2>2, <2>9 DEF ReceiverTypes
    <2>11. CASE Value(struct'[c].len) > 0 /\ NextField(c, "payload") /\ UNCHANGED delivered
      <3>1. UNCHANGED posted
        BY <1>4, <1>5, <2>1
      <3>2. field'[c] = "payload" /\ Len(got'[c]) = 0
        BY <1>1, <2>11 DEF NextField, ReceiverTypes
      <3>3. At(c, ends)' = a + n
        <4>1. At(c, ends)' = ends[d] + 0 + 3
          BY <2>11, <3>2 DEF At
        <4> DEFINE b == ends[d]
        <4>2. a = b + g + 1 /\ b \in Nat
          BY <1>2, <2>5
        <4> HIDE DEF a, g, d, b
        <4>3. a + n = b + 0 + 3
          BY <1>2, <1>4, <2>4, <4>2
        <4> QED
          BY <4>1, <4>3 DEF b
      <3>4. Partial(c, tape, ends)'
        BY <2>2, <2>10, <2>11, <3>1, <3>2 DEF Partial, m
      <3>5. Copied(c)'
        BY <1>7, <2>11, <3>1
      <3> QED
        BY <1>4, <1>5, <2>1, <2>11, <3>3, <3>4, <3>5 DEF Journal
    <2>12. CASE /\ Value(struct'[c].len) = 0 /\ NextField(c, "command")
                /\ Deliver(c, struct[c].command, <<>>)
      <3>1. w = 0
        BY <2>8, <2>10, <2>12
      <3>2. m.payload = <<>>
        BY <2>3, <3>1 DEF TcpMessages
      <3>3. n + a = ends[d + 1]
        <4> DEFINE b == ends[d]
        <4>1. ends[d + 1] = b + 3 + 0 /\ a = b + g + 1 /\ b \in Nat
          BY <1>2, <2>3, <2>5, <3>1
        <4> HIDE DEF a, g, d, w, b
        <4>2. n + a = b + 3 + 0
          BY <1>2, <1>4, <2>4, <4>1
        <4> QED
          BY <4>1, <4>2
      <3> QED
        BY <1>1, <1>4, <2>1, <2>2, <2>12, <3>2, <3>3, DeliverJournal DEF m
    <2> QED
      BY <1>12, <2>11, <2>12 DEF ReceivedLen, n
  <1>13. ASSUME ReceivedPayload(c)
         PROVE  Journal(c, tape, ends)' /\ Collects(c)
    <2> DEFINE arrived == Arrived(c, n)
               w == Len(m.payload)
    <2>1. /\ field[c] = "payload" /\ Take(c, n) /\ NextField(c, "command")
          /\ Deliver(c, struct[c].command, arrived)
      BY <1>13 DEF ReceivedPayload, n
    <2>2. /\ d < Len(posted[c]) /\ struct[c].command = m.command
          /\ struct[c].len = Memory(w)
      BY <1>8, <1>9, <2>1
    <2>3. /\ m \in TcpMessages /\ w \in Lengths
          /\ ends[d + 1] = ends[d] + 3 + w
          /\ \A i \in 1..w : tape[ends[d] + 3 + i] = m.payload[i]
      BY <1>6, <2>2 DEF Wire
    <2>4. w \in Nat /\ Value(Memory(w)) = w
      BY <2>3, MemoryOfLength
    <2>5. g + n = w
      BY <1>4, <2>1, <2>2, <2>4 DEF Size
    <2>6. a = ends[d] + g + 3
      BY <2>1 DEF At
    <2>7. /\ arrived \in Seq(Byte) /\ Len(arrived) = w
          /\ \A i \in 1..w : arrived[i] = tape[a - g + i]
      BY <1>4, <1>5, <2>1, <2>5
    <2>8. ASSUME NEW i \in 1..w PROVE arrived[i] = m.payload[i]
      <3>1. arrived[i] = tape[a - g + i]
        BY <2>7
      <3> HIDE DEF arrived, a, g, d, w
      <3>2. a - g + i = ends[d] + 3 + i
        <4> DEFINE b == ends[d]
        <4>1. a = b + g + 3 /\ b \in Nat
          BY <1>2, <2>6
        <4> HIDE DEF b
        <4>2. a - g + i = b + 3 + i
          BY <1>2, <2>4, <2>8, <4>1
        <4> QED
          BY <4>2 DEF b
      <3> QED
        BY <2>3, <3>1, <3>2
    <2>9. arrived = m.payload
      <3>1. m.payload \in Seq(Byte)
        BY <2>3 DEF TcpMessages
      <3> HIDE DEF arrived
      <3> QED
        BY <2>7, <2>8, <3>1
    <2>10. n + a = ends[d + 1]
      <3> DEFINE b == ends[d]
      <3>1. ends[d + 1] = b + 3 + w /\ a = b + g + 3 /\ b \in Nat
        BY <1>2, <2>3, <2>6
      <3> HIDE DEF a, g, d, w, b
      <3>2. n + a = b + 3 + w
        BY <1>2, <1>4, <2>4, <2>5, <3>1
      <3> QED
        BY <3>1, <3>2
    <2> HIDE DEF arrived
    <2> QED
      BY <1>1, <1>4, <2>1, <2>2, <2>9, <2>10, DeliverJournal DEF m
  <1> QED
    BY <1>10, <1>11, <1>12, <1>13 DEF ReceiveStep

-----------------------------------------------------------------------------
(* Each step keeps the invariant, and is a step of Mailboxes or a stutter. *)
LEMMA FramingInitInv ==
  ASSUME FramingInit
  PROVE  FramingInv /\ Mail!MailboxInit
  <1>1. Memory(0) \in uint16_t /\ 0 \in Byte /\ Len(<<>>) = 0 /\ 0 \in Lengths
    BY BaseFacts, MemoryOfLength
  <1>2. <<>> \in Seq(Byte) /\ <<>> \in Seq(TcpMessages)
    OBVIOUS
  <1>3. /\ msg \in [command : Byte, len : uint16_t, payload : Seq(Byte)]
        /\ msg.payload = <<>> /\ msg.len = Memory(0)
    BY <1>1, <1>2 DEF FramingInit
  <1>4. SenderTypes
    BY <1>1, <1>2, <1>3 DEF FramingInit, SenderTypes
  <1>5. Len(msg.payload) = 0
    BY <1>1, <1>3
  <1>6. SenderInv
    <2>1. \A c \in Clients : Len(posted[c]) = 0
      BY <1>1 DEF FramingInit
    <2>2. LengthKept /\ (to = NoClient <=> stage = "none")
      BY <1>3, <1>5 DEF FramingInit, LengthKept
    <2>3. Len(msg.payload) \in Lengths
      BY <1>1, <1>5
    <2> QED
      BY <1>4, <2>1, <2>2, <2>3 DEF SenderInv
  <1>7. ReceiverInv /\ StreamTypes
    BY <1>1, <1>2 DEF FramingInit, ReceiverInv, ReceiverTypes, StreamTypes, Size
  <1>8. ASSUME NEW c \in Clients PROVE \E tape, ends : Journal(c, tape, ends)
    <2> DEFINE tape == [i \in Nat |-> 0]
               ends == [k \in Nat |-> 0]
    <2>1. /\ posted[c] = <<>> /\ delivered[c] = <<>> /\ stream[c] = <<>> /\ got[c] = <<>>
          /\ field[c] = "command" /\ to # c
      BY FramingAssumption DEF FramingInit
    <2>2. /\ Len(posted[c]) = 0 /\ Len(delivered[c]) = 0 /\ Len(stream[c]) = 0
          /\ Len(got[c]) = 0
      BY <1>1, <2>1
    <2>3. ends \in [Nat -> Nat] /\ ends[0] = 0
      OBVIOUS
    <2> HIDE DEF tape, ends
    <2>4. Unsent(c) = 0 /\ At(c, ends) = 0
      <3>1. At(c, ends) = 0 + 0 + 0
        BY <2>1, <2>2, <2>3 DEF At
      <3> QED
        BY <2>1, <3>1 DEF Unsent
    <2>5. Tape(posted[c], tape, ends)
      BY <2>2, <2>3 DEF Tape
    <2>6. InTransit(c, tape, ends) /\ Partial(c, tape, ends)
      BY <2>1, <2>2, <2>3, <2>4 DEF InTransit, Partial
    <2>7. Sending(c, tape, ends) /\ Copied(c)
      BY <2>1, <2>2 DEF Sending, Copied
    <2> QED
      BY <2>5, <2>6, <2>7 DEF Journal
  <1>9. Mail!MailboxInit
    BY DEF FramingInit, Mail!MailboxInit
  <1> QED
    BY <1>6, <1>7, <1>8, <1>9 DEF FramingInv, FramesKept

LEMMA StartSendInv ==
  ASSUME FramingInv, NEW c \in Clients, StartSend(c)
  PROVE  FramingInv' /\ Mail!Post(c)
  <1>1. SenderInv /\ ReceiverInv /\ ReceiverTypes /\ StreamTypes /\ SenderTypes
    BY DEF FramingInv, ReceiverInv, SenderInv
  <1>2. SenderInv'
    BY <1>1, StartSendTypes
  <1>3. /\ UNCHANGED <<stream, field, got, struct, delivered>>
        /\ to = NoClient /\ to' = c
    BY DEF StartSend, receiverVars
  <1>4. ReceiverInv' /\ StreamTypes'
    BY <1>1, <1>3 DEF ReceiverInv, ReceiverTypes, StreamTypes, Size
  <1>5. posted' = [posted EXCEPT ![c] =
                     Append(@, [command |-> msg.command, payload |-> msg.payload])]
    BY DEF StartSend
  <1>6. ASSUME NEW d \in Clients PROVE \E tape, ends : Journal(d, tape, ends)'
    <2>1. PICK tape, ends : Journal(d, tape, ends)
      BY DEF FramingInv, FramesKept
    <2>2. CASE d = c
      BY <1>1, <2>1, <2>2, StartSendJournal
    <2>3. CASE d # c
      <3>1. posted'[d] = posted[d] /\ to # d /\ to' # d
        BY <1>1, <1>3, <1>5, <2>3, FramingAssumption DEF SenderTypes
      <3>2. Journal(d, tape, ends)'
        BY <1>3, <2>1, <3>1, JournalFrame
      <3> QED
        BY <3>2
    <2> QED
      BY <2>2, <2>3
  <1>7. Mail!Post(c)
    <2> DEFINE m == [command |-> msg.command, payload |-> msg.payload]
    <2>1. m \in TcpMessages /\ posted[c] \in Seq(TcpMessages)
      BY <1>1 DEF SenderTypes, TcpMessages
    <2>2. posted'[c] = Append(posted[c], m)
      BY <1>1, <1>5 DEF SenderTypes
    <2> HIDE DEF m
    <2>3. posted'[c] # <<>> /\ posted'[c][Len(posted'[c])] = m
      BY <2>1, <2>2
    <2> QED
      BY <1>3, <1>5, <2>1, <2>3 DEF Mail!Post, Mail!Last, m
  <1> QED
    BY <1>2, <1>4, <1>6, <1>7 DEF FramingInv, FramesKept

LEMMA SendStepInv ==
  ASSUME FramingInv, SendStep
  PROVE  FramingInv' /\ UNCHANGED <<posted, delivered>>
  <1>1. SenderInv /\ ReceiverInv /\ ReceiverTypes /\ StreamTypes /\ SenderTypes
    BY DEF FramingInv, ReceiverInv, SenderInv
  <1>2. SenderInv' /\ StreamTypes'
    BY <1>1, SendTypes
  <1>3. \E n : Put(n)
    BY DEF SendStep, SendPiece, CommandSent, LenSent, PayloadSent
  <1>4. PICK n : Put(n)
    BY <1>3
  <1>5. /\ UNCHANGED <<posted, field, got, struct, delivered>>
        /\ to # NoClient
        /\ stream' = [stream EXCEPT ![to] = @ \o SubSeq(left, 1, n)]
    BY <1>4 DEF Put, receiverVars
  <1>6. to' \in {to, NoClient}
    BY DEF SendStep, SendPiece, CommandSent, LenSent, PayloadSent, Return
  <1>7. ReceiverInv'
    BY <1>1, <1>5 DEF ReceiverInv, ReceiverTypes, Size
  <1>8. ASSUME NEW c \in Clients PROVE \E tape, ends : Journal(c, tape, ends)'
    <2>1. PICK tape, ends : Journal(c, tape, ends)
      BY DEF FramingInv, FramesKept
    <2>2. CASE to = c
      <3>1. Journal(c, tape, ends)'
        BY <1>1, <2>1, <2>2, SendJournal
      <3> QED
        BY <3>1
    <2>3. CASE to # c
      <3>1. stream'[c] = stream[c] /\ to' # c
        BY <1>1, <1>5, <1>6, <2>3, FramingAssumption DEF StreamTypes
      <3>2. Journal(c, tape, ends)'
        BY <1>5, <2>1, <2>3, <3>1, JournalFrame
      <3> QED
        BY <3>2
    <2> QED
      BY <2>2, <2>3
  <1> QED
    BY <1>2, <1>5, <1>7, <1>8 DEF FramingInv, FramesKept

LEMMA ReceiveStepInv ==
  ASSUME FramingInv, NEW c \in Clients, ReceiveStep(c)
  PROVE  FramingInv' /\ UNCHANGED posted /\ (UNCHANGED delivered \/ Mail!Collect(c))
  <1>1. SenderInv /\ ReceiverInv /\ StreamTypes /\ ReceiverTypes
    BY DEF FramingInv, ReceiverInv
  <1>2. ReceiverInv' /\ StreamTypes' /\ UNCHANGED senderVars
    BY <1>1, ReceiveTypes
  <1>3. UNCHANGED <<msg, to, stage, left, posted>>
    BY <1>2 DEF senderVars
  <1>4. SenderInv'
    BY <1>1, <1>3 DEF SenderInv, SenderTypes, LengthKept
  <1>5. UNCHANGED delivered \/ Mail!Collect(c)
    <2>1. PICK tape, ends : Journal(c, tape, ends)
      BY DEF FramingInv, FramesKept
    <2>2. UNCHANGED delivered \/ Collects(c)
      BY <1>1, <2>1, ReceiveJournal
    <2> QED
      BY <1>3, <2>2 DEF Collects, Mail!Collect
  <1>6. ASSUME NEW d \in Clients, d # c
        PROVE  /\ field'[d] = field[d] /\ got'[d] = got[d] /\ struct'[d] = struct[d]
               /\ delivered'[d] = delivered[d] /\ stream'[d] = stream[d]
    <2>1. \E n : stream' = [stream EXCEPT ![c] = SubSeq(@, n + 1, Len(@))]
      BY DEF ReceiveStep, ReceivePiece, ReceivedCommand, ReceivedLen, ReceivedPayload, Take
    <2>2. stream'[d] = stream[d]
      BY <1>1, <1>6, <2>1 DEF StreamTypes
    <2>3. delivered'[d] = delivered[d]
      BY <1>1, <1>5, <1>6 DEF Mail!Collect, ReceiverTypes
    <2>4. field'[d] = field[d] /\ got'[d] = got[d] /\ struct'[d] = struct[d]
      <3>1. CASE \E n \in 1..Capacity : ReceivePiece(c, n)
        BY <1>1, <1>6, <3>1 DEF ReceivePiece, ReceiverTypes
      <3>2. CASE ReceivedCommand(c)
        BY <1>1, <1>6, <3>2 DEF ReceivedCommand, NextField, ReceiverTypes
      <3>3. CASE ReceivedLen(c)
        BY <1>1, <1>6, <3>3 DEF ReceivedLen, NextField, ReceiverTypes
      <3>4. CASE ReceivedPayload(c)
        BY <1>1, <1>6, <3>4 DEF ReceivedPayload, NextField, ReceiverTypes
      <3> QED
        BY <3>1, <3>2, <3>3, <3>4 DEF ReceiveStep
    <2> QED
      BY <2>2, <2>3, <2>4
  <1>7. ASSUME NEW d \in Clients PROVE \E tape, ends : Journal(d, tape, ends)'
    <2>1. PICK tape, ends : Journal(d, tape, ends)
      BY DEF FramingInv, FramesKept
    <2>2. Journal(d, tape, ends)'
      <3>1. CASE d = c
        BY <1>1, <2>1, <3>1, ReceiveJournal
      <3>2. CASE d # c
        BY <1>3, <1>6, <2>1, <3>2, JournalFrame
      <3> QED
        BY <3>1, <3>2
    <2> QED
      BY <2>2
  <1> QED
    BY <1>2, <1>3, <1>4, <1>5, <1>7 DEF FramingInv, FramesKept

LEMMA FramingStutters ==
  ASSUME FramingInv, UNCHANGED framingVars
  PROVE  FramingInv' /\ UNCHANGED <<posted, delivered>>
  <1>1. UNCHANGED <<msg, to, stage, left, posted, field, got, struct, delivered, stream>>
    BY DEF framingVars, senderVars, receiverVars
  <1>2. SenderInv' /\ ReceiverInv' /\ StreamTypes'
    BY <1>1 DEF FramingInv, SenderInv, SenderTypes, LengthKept, ReceiverInv, ReceiverTypes,
                Size, StreamTypes
  <1>3. ASSUME NEW c \in Clients PROVE \E tape, ends : Journal(c, tape, ends)'
    <2>1. PICK tape, ends : Journal(c, tape, ends)
      BY DEF FramingInv, FramesKept
    <2>2. Journal(c, tape, ends)'
      BY <1>1, <2>1, JournalFrame
    <2> QED
      BY <2>2
  <1> QED
    BY <1>1, <1>2, <1>3 DEF FramingInv, FramesKept

(* Another message takes the place of one that is sent.                    *)
LEMMA NewMessageInv ==
  ASSUME FramingInv, to = NoClient,
         NEW command \in Byte, NEW payload \in Seq(Byte), Len(payload) \in Lengths,
         msg' = [command |-> command, len |-> Memory(Len(payload)), payload |-> payload],
         UNCHANGED <<to, stage, left, posted, stream, receiverVars>>
  PROVE  FramingInv' /\ UNCHANGED <<posted, delivered>>
  <1>1. UNCHANGED <<to, stage, left, posted, field, got, struct, delivered, stream>>
    BY DEF receiverVars
  <1>2. /\ Memory(Len(payload)) \in uint16_t
        /\ msg'.payload = payload /\ msg'.len = Memory(Len(payload))
    BY MemoryOfLength
  <1>3. stage = "none"
    BY DEF FramingInv, SenderInv
  <1>4. msg' \in [command : Byte, len : uint16_t, payload : Seq(Byte)]
    BY <1>2
  <1>5. SenderTypes' /\ LengthKept'
    BY <1>1, <1>2, <1>3, <1>4 DEF FramingInv, SenderInv, SenderTypes, LengthKept
  <1>6. SenderInv'
    BY <1>1, <1>2, <1>5 DEF FramingInv, SenderInv
  <1>7. ReceiverInv' /\ StreamTypes'
    BY <1>1 DEF FramingInv, ReceiverInv, ReceiverTypes, Size, StreamTypes
  <1>8. ASSUME NEW c \in Clients PROVE \E tape, ends : Journal(c, tape, ends)'
    <2>1. PICK tape, ends : Journal(c, tape, ends)
      BY DEF FramingInv, FramesKept
    <2>2. to # c /\ to' # c
      BY <1>1, FramingAssumption
    <2>3. Journal(c, tape, ends)'
      BY <1>1, <2>1, <2>2, JournalFrame
    <2> QED
      BY <2>3
  <1> QED
    BY <1>1, <1>6, <1>7, <1>8 DEF FramingInv, FramesKept
=============================================================================
