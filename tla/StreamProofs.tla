---------------------------- MODULE StreamProofs ----------------------------
(***************************************************************************)
(* Proofs about what a subscriber finds on its connection: that it never   *)
(* waits for nothing, that the datagrams come in order and once, and that  *)
(* answers and datagrams tell one story.                                   *)
(***************************************************************************)
EXTENDS SessionProofs

Sends == [fd : Fds, msg : DownMessages]

-----------------------------------------------------------------------------
(* A stream is what is in the queue, then what is coming.                  *)
Shape(s, down, messages, mine) ==
  /\ Len(down) \in Nat /\ DOMAIN down = 1..Len(down) /\ mine \subseteq Nat \ {0}
  /\ DOMAIN s = 1..Len(down) \cup {Len(down) + k : k \in mine}
  /\ DOMAIN s \subseteq Nat \ {0}
  /\ \A j \in 1..Len(down) : s[j] = down[j]
  /\ \A k \in mine : s[Len(down) + k] = messages[k].msg
  /\ \A j \in DOMAIN s : s[j] \in DownMessages

LEMMA JoinedShape ==
  ASSUME NEW down \in Seq(DownMessages), NEW messages \in Seq(Sends),
         NEW mine \in SUBSET (DOMAIN messages)
  PROVE  Shape(Joined(down, messages, mine), down, messages, mine)
<1> DEFINE n == Len(down)
           s == Joined(down, messages, mine)
<1>1. n \in Nat /\ DOMAIN down = 1..n /\ mine \subseteq Nat \ {0}
  BY LenProperties
<1>2. \A k \in mine : n + k \in Nat \ {0} /\ n + k > n /\ (n + k) - n = k
  BY <1>1
<1>3. s = [j \in 1..n \cup {n + k : k \in mine} |->
             IF j <= n THEN down[j] ELSE messages[j - n].msg]
  BY DEF Joined
<1> HIDE DEF s, n
<1>4. DOMAIN s = 1..n \cup {n + k : k \in mine}
  BY <1>3
<1>5. \A j \in 1..n : s[j] = down[j]
  BY <1>1, <1>3
<1>6. \A k \in mine : s[n + k] = messages[k].msg
  BY <1>1, <1>2, <1>3
<1>7. \A k \in mine : messages[k].msg \in DownMessages
  <2>1. \A k \in mine : messages[k] \in Sends
    BY ElementOfSeq, LenProperties
  <2> QED
    BY <2>1 DEF Sends
<1>8. \A j \in 1..n : down[j] \in DownMessages
  BY <1>1
<1>9. \A j \in DOMAIN s : j \in Nat \ {0} /\ s[j] \in DownMessages
  BY <1>1, <1>2, <1>4, <1>5, <1>6, <1>7, <1>8
<1> QED
  BY <1>1, <1>4, <1>5, <1>6, <1>9 DEF n, s, Shape

(* A stream that is part of another: f tells where its messages were.  It  *)
(* is the end of it if nothing after one of them is left out.              *)
Keeps(f, s1, s) ==
  /\ f \in [DOMAIN s1 -> DOMAIN s]
  /\ \A i, j \in DOMAIN s1 : i < j => f[i] < f[j]
  /\ \A i \in DOMAIN s1 : s1[i] = s[f[i]]

KeepsEnd(f, s1, s) ==
  /\ Keeps(f, s1, s)
  /\ \A i \in DOMAIN s1 : \A k \in DOMAIN s : f[i] < k => \E j \in DOMAIN s1 : f[j] = k

(* A stream that is another and one message more.                          *)
Longer(s1, s, m) ==
  \E x \in Nat :
    /\ DOMAIN s1 = DOMAIN s \cup {x} /\ s1[x] = m
    /\ \A j \in DOMAIN s : j < x /\ s1[j] = s[j]

LEMMA SameEnd ==
  ASSUME NEW s1, NEW s, DOMAIN s1 = DOMAIN s, \A j \in DOMAIN s : s1[j] = s[j]
  PROVE  \E f : KeepsEnd(f, s1, s)
<1> DEFINE f == [j \in DOMAIN s1 |-> j]
<1>1. f \in [DOMAIN s1 -> DOMAIN s] /\ \A j \in DOMAIN s1 : f[j] = j
  OBVIOUS
<1> HIDE DEF f
<1>2. KeepsEnd(f, s1, s)
  BY <1>1 DEF Keeps, KeepsEnd
<1> QED
  BY <1>2

(* The subscriber receives the first message.                              *)
LEMMA FirstTaken ==
  ASSUME NEW down \in Seq(DownMessages), NEW messages, NEW mine, NEW s, NEW s1,
         Shape(s, down, messages, mine), Shape(s1, Tail(down), messages, mine), down # <<>>
  PROVE  /\ 1 \in DOMAIN s /\ s[1] = Head(down)
         /\ \E f : KeepsEnd(f, s1, s) /\ \A j \in DOMAIN s1 : 1 < f[j]
<1> DEFINE n == Len(down)
<1>1. /\ n \in Nat \ {0} /\ Len(Tail(down)) = n - 1
      /\ Head(down) = down[1] /\ \A j \in 1..(n - 1) : Tail(down)[j] = down[j + 1]
  BY LenProperties, EmptySeq, HeadTailProperties
<1>2. /\ mine \subseteq Nat \ {0} /\ DOMAIN s = 1..n \cup {n + k : k \in mine}
      /\ DOMAIN s \subseteq Nat
      /\ \A j \in 1..n : s[j] = down[j]
      /\ \A k \in mine : s[n + k] = messages[k].msg
  BY DEF Shape
<1>3. /\ DOMAIN s1 = 1..(n - 1) \cup {(n - 1) + k : k \in mine}
      /\ DOMAIN s1 \subseteq Nat \ {0}
      /\ \A j \in 1..(n - 1) : s1[j] = Tail(down)[j]
      /\ \A k \in mine : s1[(n - 1) + k] = messages[k].msg
  BY <1>1 DEF Shape
<1>4. \A j \in DOMAIN s1 : j \in Nat /\ j + 1 \in Nat /\ 1 < j + 1
  BY <1>3
<1> HIDE DEF n
<1> DEFINE f == [j \in DOMAIN s1 |-> j + 1]
<1>5. \A j \in DOMAIN s1 : f[j] = j + 1
  OBVIOUS
<1>6. f \in [DOMAIN s1 -> Nat]
  BY <1>4
<1> HIDE DEF f
<1>7. \A k \in mine : ((n - 1) + k) + 1 = n + k
  BY <1>1, <1>2
<1>8. \A j \in DOMAIN s1 : j + 1 \in DOMAIN s /\ s1[j] = s[j + 1]
  <2>1. ASSUME NEW j \in 1..(n - 1) PROVE j + 1 \in DOMAIN s /\ s1[j] = s[j + 1]
    BY <1>1, <1>2, <1>3, <2>1
  <2>2. ASSUME NEW k \in mine, NEW j, j = (n - 1) + k
        PROVE  j + 1 \in DOMAIN s /\ s1[j] = s[j + 1]
    BY <1>2, <1>3, <1>7, <2>2
  <2> QED
    BY <1>3, <2>1, <2>2
<1>9. f \in [DOMAIN s1 -> DOMAIN s]
  BY <1>5, <1>6, <1>8
<1>10. \A k \in DOMAIN s : k > 1 => \E j \in DOMAIN s1 : j + 1 = k
  <2>1. ASSUME NEW k \in 1..n, k > 1 PROVE \E j \in DOMAIN s1 : j + 1 = k
    <3>1. k - 1 \in 1..(n - 1) /\ (k - 1) + 1 = k
      BY <1>1, <2>1
    <3> QED
      BY <1>3, <3>1
  <2>2. ASSUME NEW k \in mine PROVE \E j \in DOMAIN s1 : j + 1 = n + k
    BY <1>3, <1>7
  <2> QED
    BY <1>2, <2>1, <2>2
<1>11. \A j \in DOMAIN s1 : 1 < f[j]
  BY <1>5, <1>4
<1>12. \A i, j \in DOMAIN s1 : i < j => f[i] < f[j]
  BY <1>5, <1>4
<1>13. ASSUME NEW i \in DOMAIN s1, NEW k \in DOMAIN s, f[i] < k
       PROVE  \E j \in DOMAIN s1 : f[j] = k
  <2>1. k > 1
    <3>1. k \in Nat
      BY <1>2
    <3> QED
      BY <1>5, <1>13, <1>4, <3>1
  <2> QED
    BY <1>5, <1>10, <2>1
<1>14. KeepsEnd(f, s1, s)
  BY <1>5, <1>8, <1>9, <1>12, <1>13 DEF Keeps, KeepsEnd
<1>15. 1 \in DOMAIN s /\ s[1] = Head(down)
  BY <1>1, <1>2
<1> QED
  BY <1>11, <1>14, <1>15

(* The first of the messages that are coming leaves for another client, or *)
(* for this one.                                                           *)
LEMMA FirstSent ==
  ASSUME NEW down \in Seq(DownMessages), NEW messages \in Seq(Sends), messages # <<>>,
         NEW mine \in SUBSET (DOMAIN messages), NEW mine1,
         mine1 = {k \in DOMAIN Tail(messages) : k + 1 \in mine},
         NEW down1, down1 = IF 1 \in mine THEN Append(down, Head(messages).msg) ELSE down,
         NEW s, NEW s1, Shape(s, down, messages, mine), Shape(s1, down1, Tail(messages), mine1)
  PROVE  \E f : KeepsEnd(f, s1, s)
<1> DEFINE n == Len(down)
           N == Len(messages)
<1>1. /\ N \in Nat \ {0} /\ DOMAIN messages = 1..N /\ DOMAIN Tail(messages) = 1..(N - 1)
      /\ Head(messages) = messages[1]
      /\ \A k \in 1..(N - 1) : Tail(messages)[k] = messages[k + 1]
  BY LenProperties, EmptySeq, HeadTailProperties
<1>2. /\ n \in Nat /\ mine \subseteq Nat \ {0}
      /\ DOMAIN s = 1..n \cup {n + k : k \in mine}
      /\ DOMAIN s \subseteq Nat
      /\ \A j \in 1..n : s[j] = down[j]
      /\ \A k \in mine : s[n + k] = messages[k].msg
  BY DEF Shape
<1>3. /\ DOMAIN s1 = 1..Len(down1) \cup {Len(down1) + k : k \in mine1}
      /\ \A j \in 1..Len(down1) : s1[j] = down1[j]
      /\ \A k \in mine1 : s1[Len(down1) + k] = Tail(messages)[k].msg
  BY DEF Shape
<1> HIDE DEF N
<1>4. \A k : k \in mine1 <=> k \in Nat \ {0} /\ k + 1 \in mine
  BY <1>1
<1>5. \A k \in mine1 : Tail(messages)[k] = messages[k + 1]
  BY <1>1
<1>6. CASE 1 \in mine
  <2>1. /\ Len(down1) = n + 1 /\ down1[n + 1] = messages[1].msg
        /\ \A j \in 1..n : down1[j] = down[j]
    BY <1>1, <1>6, AppendProperties, ElementOfSeq
  <2> HIDE DEF n
  <2>2. \A k \in mine1 : (n + 1) + k = n + (k + 1)
    BY <1>2, <1>4
  <2>3. DOMAIN s1 = DOMAIN s
    <3>1. \A j : j \in DOMAIN s1 => j \in DOMAIN s
      <4>1. n + 1 \in DOMAIN s
        BY <1>2, <1>6
      <4>2. \A j \in 1..(n + 1) : j \in 1..n \/ j = n + 1
        BY <1>2
      <4>3. \A k \in mine1 : (n + 1) + k \in DOMAIN s
        BY <1>2, <1>4, <2>2
      <4> QED
        BY <1>2, <1>3, <2>1, <4>1, <4>2, <4>3
    <3>2. \A k \in mine : n + k \in DOMAIN s1
      <4>1. ASSUME NEW k \in mine, k # 1 PROVE n + k \in DOMAIN s1
        <5>1. (k - 1) + 1 = k /\ k - 1 \in Nat \ {0}
          BY <1>2, <4>1
        <5>2. k - 1 \in mine1
          BY <1>4, <4>1, <5>1
        <5>3. (n + 1) + (k - 1) = n + k
          BY <1>2
        <5> QED
          BY <1>3, <2>1, <5>2, <5>3
      <4>2. n + 1 \in DOMAIN s1
        BY <1>2, <1>3, <2>1
      <4> QED
        BY <4>1, <4>2
    <3>3. \A j \in 1..n : j \in DOMAIN s1
      BY <1>2, <1>3, <2>1
    <3> QED
      BY <1>2, <3>1, <3>2, <3>3
  <2>4. ASSUME NEW j \in DOMAIN s1 PROVE s1[j] = s[j]
    <3>1. CASE j \in 1..n
      BY <1>2, <1>3, <2>1, <3>1
    <3>2. CASE j = n + 1
      BY <1>2, <1>3, <1>6, <2>1, <3>2
    <3>3. ASSUME NEW k \in mine1, j = (n + 1) + k PROVE s1[j] = s[j]
      <4>1. s1[j] = messages[k + 1].msg
        BY <1>3, <1>5, <2>1, <3>3
      <4>2. s[n + (k + 1)] = messages[k + 1].msg
        BY <1>2, <1>4, <3>3
      <4> QED
        BY <2>2, <3>3, <4>1, <4>2
    <3>4. j \in 1..n \/ j = n + 1 \/ \E k \in mine1 : j = (n + 1) + k
      BY <1>2, <1>3, <2>1
    <3> QED
      BY <3>1, <3>2, <3>3, <3>4
  <2> QED
    BY <2>3, <2>4, SameEnd
<1>7. CASE 1 \notin mine
  <2>1. down1 = down /\ Len(down1) = n
    BY <1>7
  <2> HIDE DEF n
  <2> DEFINE f == [j \in DOMAIN s1 |-> IF j <= n THEN j ELSE j + 1]
  <2>2. DOMAIN s1 \subseteq Nat
    BY <1>2, <1>3, <1>4, <2>1
  <2>3. \A j \in DOMAIN s1 : f[j] = IF j <= n THEN j ELSE j + 1
    OBVIOUS
  <2>4. f \in [DOMAIN s1 -> Nat]
    BY <2>2
  <2> HIDE DEF f
  <2>5. ASSUME NEW j \in DOMAIN s1 PROVE f[j] \in DOMAIN s /\ s1[j] = s[f[j]]
    <3>1. CASE j \in 1..n
      BY <1>2, <1>3, <2>1, <2>3, <3>1
    <3>2. ASSUME NEW k \in mine1, j = n + k PROVE f[j] \in DOMAIN s /\ s1[j] = s[f[j]]
      <4>1. f[j] = n + (k + 1) /\ k + 1 \in mine
        BY <1>2, <1>4, <2>3, <3>2
      <4>2. s1[j] = messages[k + 1].msg
        BY <1>3, <1>5, <2>1, <3>2
      <4> QED
        BY <1>2, <4>1, <4>2
    <3> QED
      BY <1>3, <2>1, <3>1, <3>2
  <2>6. f \in [DOMAIN s1 -> DOMAIN s]
    BY <2>4, <2>5
  <2>7. \A i, j \in DOMAIN s1 : i < j => f[i] < f[j]
    BY <1>2, <2>2, <2>3
  <2>8. ASSUME NEW k \in DOMAIN s PROVE \E j \in DOMAIN s1 : f[j] = k
    <3>1. CASE k \in 1..n
      BY <1>2, <1>3, <2>1, <2>3, <3>1
    <3>2. ASSUME NEW i \in mine, k = n + i PROVE \E j \in DOMAIN s1 : f[j] = k
      <4>1. i - 1 \in Nat \ {0} /\ (i - 1) + 1 = i /\ i # 1
        BY <1>2, <1>7
      <4>2. i - 1 \in mine1
        BY <1>4, <4>1
      <4>3. n + (i - 1) \in DOMAIN s1
        BY <1>3, <2>1, <4>2
      <4>4. f[n + (i - 1)] = n + i
        <5>1. ~ (n + (i - 1) <= n) /\ (n + (i - 1)) + 1 = n + i
          <6>1. n \in Nat /\ i \in Nat
            BY <1>2
          <6> QED
            BY <4>1, <6>1
        <5> QED
          BY <2>3, <4>3, <5>1
      <4> QED
        BY <3>2, <4>3, <4>4
    <3> QED
      BY <1>2, <3>1, <3>2
  <2>9. KeepsEnd(f, s1, s)
    BY <2>5, <2>6, <2>7, <2>8 DEF Keeps, KeepsEnd
  <2> QED
    BY <2>9
<1> QED
  BY <1>6, <1>7

LEMMA NothingComing ==
  ASSUME NEW down, NEW messages, NEW messages1, NEW s, NEW s1,
         Shape(s, down, messages, {}), Shape(s1, down, messages1, {})
  PROVE  \E f : KeepsEnd(f, s1, s)
BY SameEnd DEF Shape

(* What was coming will not come.                                          *)
LEMMA RestDropped ==
  ASSUME NEW down, NEW messages, NEW messages1, NEW mine, NEW s, NEW s1,
         Shape(s, down, messages, mine), Shape(s1, down, messages1, {})
  PROVE  \E f : Keeps(f, s1, s)
<1> DEFINE f == [j \in DOMAIN s1 |-> j]
<1>1. DOMAIN s1 = 1..Len(down) /\ 1..Len(down) \subseteq DOMAIN s
  BY DEF Shape
<1>2. f \in [DOMAIN s1 -> DOMAIN s] /\ \A j \in DOMAIN s1 : f[j] = j
  BY <1>1
<1> HIDE DEF f
<1>3. \A j \in DOMAIN s1 : s1[j] = s[j]
  BY <1>1 DEF Shape
<1>4. Keeps(f, s1, s)
  BY <1>2, <1>3 DEF Keeps
<1> QED
  BY <1>4

(* A message is added, to what is coming or to the queue.                  *)
LEMMA MessageAdded ==
  ASSUME NEW down, NEW messages, NEW messages1, NEW k \in Nat \ {0}, NEW s, NEW s1,
         Shape(s, down, messages, {}), Shape(s1, down, messages1, {k})
  PROVE  Longer(s1, s, messages1[k].msg)
<1> DEFINE x == Len(down) + k
<1>1. /\ x \in Nat /\ DOMAIN s = 1..Len(down) /\ DOMAIN s1 = 1..Len(down) \cup {x}
      /\ s1[x] = messages1[k].msg
      /\ \A j \in DOMAIN s : j < x /\ s1[j] = s[j]
  BY DEF Shape
<1> HIDE DEF x
<1> QED
  BY <1>1 DEF Longer

LEMMA MessageQueued ==
  ASSUME NEW down \in Seq(DownMessages), NEW m \in DownMessages,
         NEW messages, NEW messages1, NEW s, NEW s1,
         Shape(s, down, messages, {}), Shape(s1, Append(down, m), messages1, {})
  PROVE  Longer(s1, s, m)
<1> DEFINE x == Len(down) + 1
           longer == Append(down, m)
<1>1. /\ Len(down) \in Nat /\ x \in Nat /\ Len(longer) = x /\ longer[x] = m
      /\ \A j \in 1..Len(down) : longer[j] = down[j] /\ j < x
      /\ 1..x = 1..Len(down) \cup {x}
  BY AppendProperties, LenProperties
<1> HIDE DEF longer
<1>2. DOMAIN s = 1..Len(down) /\ \A j \in DOMAIN s : s[j] = down[j]
  BY DEF Shape
<1>3. DOMAIN s1 = 1..x /\ \A j \in DOMAIN s1 : s1[j] = longer[j]
  <2>1. Shape(s1, longer, messages1, {})
    BY DEF longer
  <2> QED
    BY <1>1, <2>1 DEF Shape
<1> HIDE DEF x
<1> QED
  BY <1>1, <1>2, <1>3 DEF Longer

-----------------------------------------------------------------------------
(* The streams of the application.                                         *)
LEMMA Streams ==
  AppInv => /\ outbox \in Seq(Sends)
            /\ \A c \in Conns :
                 /\ conn[c] \in Connections /\ conn[c].down \in Seq(DownMessages)
                 /\ Coming(c) \in SUBSET (DOMAIN outbox)
                 /\ Shape(Stream(c), conn[c].down, outbox, Coming(c))
<1>1. AppInv => outbox \in Seq(Sends)
  BY DEF AppInv, ConnectionInv, MessageTypes, Sends
<1>2. ASSUME AppInv, NEW c \in Conns
      PROVE  /\ conn[c] \in Connections /\ conn[c].down \in Seq(DownMessages)
             /\ Coming(c) \in SUBSET (DOMAIN outbox)
             /\ Shape(Stream(c), conn[c].down, outbox, Coming(c))
  <2>1. outbox \in Seq(Sends) /\ conn[c] \in Connections
    BY <1>1, <1>2 DEF AppInv, ConnectionInv, MessageTypes
  <2>2. conn[c].down \in Seq(DownMessages)
    BY <2>1 DEF Connections
  <2>3. Coming(c) \in SUBSET (DOMAIN outbox)
    BY DEF Coming
  <2> QED
    BY <2>1, <2>2, <2>3, JoinedShape DEF Stream
<1> QED
  BY <1>1, <1>2

LEMMA StreamsNext ==
  AppInv' => /\ outbox' \in Seq(Sends)
             /\ \A c \in Conns :
                  /\ conn'[c] \in Connections /\ conn'[c].down \in Seq(DownMessages)
                  /\ Coming(c)' \in SUBSET (DOMAIN outbox')
                  /\ Shape(Stream(c)', conn'[c].down, outbox', Coming(c)')
<1>1. (/\ outbox \in Seq(Sends)
       /\ \A c \in Conns :
            /\ conn[c] \in Connections /\ conn[c].down \in Seq(DownMessages)
            /\ Coming(c) \in SUBSET (DOMAIN outbox)
            /\ Shape(Stream(c), conn[c].down, outbox, Coming(c)))' <=>
      /\ outbox' \in Seq(Sends)
      /\ \A c \in Conns :
           /\ conn'[c] \in Connections /\ conn'[c].down \in Seq(DownMessages)
           /\ Coming(c)' \in SUBSET (DOMAIN outbox')
           /\ Shape(Stream(c)', conn'[c].down, outbox', Coming(c)')
  OBVIOUS
<1> QED
  BY <1>1, Streams, PTL

(* What a step of the server is to a connection whose subscriber runs.     *)
Quiet(c) ==
  /\ conn'[c] = conn[c]
  /\ Coming(c)' = Coming(c)
  /\ outbox' = outbox \/ Coming(c)' = {}

Closed(c) ==
  /\ conn'[c].downEnd # "open"
  /\ outbox' = <<>>
  /\ \/ conn'[c].down = conn[c].down
     \/ \E m \in DownMessages : /\ m.command # MSG_FROM_UDP
                                /\ outbox = <<>>
                                /\ conn'[c].down = Append(conn[c].down, m)

Answered(c) ==
  /\ outbox = <<>>
  /\ \E fd, m : /\ outbox' = <<[fd |-> fd, msg |-> m]>>
                /\ fdtab'[fd] = c /\ m.command # MSG_FROM_UDP
  /\ conn[c].up # <<>>
  /\ conn'[c] = [conn[c] EXCEPT !.up = Tail(@)]

LEMMA HaltIsClosed ==
  ASSUME AppInv, NEW how, Halt(how), NEW c \in Conns,
         conn[c].owner \in Procs, conn[c].upEnd = "open"
  PROVE  Closed(c)
<1>1. PICK reset \in SUBSET Conns :
        conn' = [d \in Conns |-> IF HeldByServer(conn[d])
                 THEN ServerClosed(conn[d], IF d \in reset THEN "rst" ELSE "fin")
                 ELSE conn[d]]
  BY DEF Halt, AfterServerExit
<1>2. outbox' = <<>> /\ conn[c] \in Connections
  BY DEF Halt, AppInv, ConnectionInv, MessageTypes
<1>3. CASE HeldByServer(conn[c])
  <2>1. PICK e \in {"fin", "rst"} : conn'[c] = ServerClosed(conn[c], e)
    BY <1>1, <1>3
  <2>2. conn'[c] = [conn[c] EXCEPT !.downEnd = e, !.up = <<>>]
    BY <2>1 DEF ServerClosed
  <2>3. conn'[c].downEnd = e /\ conn'[c].down = conn[c].down
    BY <1>2, <2>2 DEF Connections
  <2> QED
    BY <1>2, <2>1, <2>3 DEF Closed
<1>4. CASE ~ HeldByServer(conn[c])
  <2>1. conn[c].downEnd # "open"
    BY <1>4, SocketsAssumption DEF SocketsAssumption, HeldByServer
  <2> QED
    BY <1>1, <1>2, <1>4, <2>1 DEF Closed
<1> QED
  BY <1>3, <1>4

LEMMA NoneComing ==
  ASSUME NEW c
  PROVE  /\ outbox = <<>> => Coming(c) = {}
         /\ outbox' = <<>> => Coming(c)' = {}
         /\ \A fd, m : outbox' = <<[fd |-> fd, msg |-> m]>> /\ fdtab'[fd] # c =>
              Coming(c)' = {}
         /\ \A fd, m : outbox' = <<[fd |-> fd, msg |-> m]>> /\ fdtab'[fd] = c =>
              Coming(c)' = {1} /\ outbox'[1].msg = m
<1>1. outbox = <<>> => Coming(c) = {}
  BY DEF Coming
<1>2. outbox' = <<>> => Coming(c)' = {}
  BY DEF Coming
<1>3. ASSUME NEW fd, NEW m, outbox' = <<[fd |-> fd, msg |-> m]>>
      PROVE  /\ fdtab'[fd] # c => Coming(c)' = {}
             /\ fdtab'[fd] = c => Coming(c)' = {1} /\ outbox'[1].msg = m
  <2>1. DOMAIN outbox' = {1} /\ outbox'[1] = [fd |-> fd, msg |-> m]
    BY <1>3
  <2> QED
    BY <2>1 DEF Coming
<1> QED
  BY <1>1, <1>2, <1>3

(* The server takes a message, and answers on that connection only.        *)
LEMMA AnswerMoves ==
  ASSUME AppInv, NEW c0 \in Conns, conn[c0].up # <<>>, conn' = Received(c0),
         NEW fd, fdtab'[fd] = c0, NEW m, m.command # MSG_FROM_UDP,
         outbox = <<>>, outbox' = <<[fd |-> fd, msg |-> m]>>, NEW c \in Conns
  PROVE  (c # c0 => Quiet(c)) /\ (c = c0 => Answered(c))
<1>1. conn \in [Conns -> Connections]
  BY DEF AppInv, ConnectionInv, MessageTypes
<1>2. CASE c = c0
  <2>1. conn'[c] = [conn[c] EXCEPT !.up = Tail(@)]
    BY <1>1, <1>2 DEF Received
  <2> QED
    BY <1>2, <2>1 DEF Answered
<1>3. CASE c # c0
  <2>1. conn'[c] = conn[c]
    BY <1>1, <1>3 DEF Received
  <2> QED
    BY <1>3, <2>1, NoneComing DEF Quiet
<1> QED
  BY <1>2, <1>3

LEMMA CloseMoves ==
  ASSUME AppInv, outbox = <<>>, outbox' = outbox, NEW c0,
         \E new : conn' = [conn EXCEPT ![c0] = new], NEW c \in Conns, c # c0
  PROVE  Quiet(c)
<1>1. conn'[c] = conn[c]
  BY DEF AppInv, ConnectionInv, MessageTypes
<1> QED
  BY <1>1, NoneComing DEF Quiet

LEMMA DenyMoves ==
  ASSUME AppInv, SessionInv, NEW id \in Ids, DenyClient(id), NEW c \in Conns
  PROVE  /\ c # fdtab[newfd] => Quiet(c)
         /\ c = fdtab[newfd] /\ conn[c].upEnd = "open" => Closed(c)
<1> DEFINE c0 == fdtab[newfd]
           denied == Reply(CONNECT_DENIED, <<>>, 0)
           k == Received(c0)[c0]
           told == IF k.upEnd = "open" THEN [k EXCEPT !.down = Append(k.down, denied)]
                   ELSE k
<1>1. c0 \in Conns /\ conn[c0].up # <<>>
  BY ArrivedId DEF DenyClient
<1>2. /\ outbox = <<>> /\ outbox' = <<>>
      /\ \E new \in AfterServerClose(told) : conn' = [conn EXCEPT ![c0] = new]
  BY DEF DenyClient, IdArrived, AfterDenial
<1>3. PICK new \in AfterServerClose(told) : conn' = [conn EXCEPT ![c0] = new]
  BY <1>2
<1>4. PICK e \in Closings : new = ServerClosed(told, e)
  BY DEF AfterServerClose, Closings
<1>5. conn \in [Conns -> Connections]
  BY DEF AppInv, ConnectionInv, MessageTypes
<1>6. CASE c # c0
  BY <1>2, <1>3, <1>6, CloseMoves
<1>7. CASE c = c0 /\ conn[c].upEnd = "open"
  <2>1. /\ k \in Connections /\ k.down = conn[c].down /\ k.upEnd = "open"
    BY <1>1, <1>5, <1>7, ReceivedFacts
  <2>2. denied \in DownMessages /\ denied.command = CONNECT_DENIED
    BY ReplyFacts, ZeroDatagrams DEF Reply
  <2> HIDE DEF k, denied
  <2> DEFINE longer == Append(k.down, denied)
  <2>3. told = [k EXCEPT !.down = longer] /\ longer = Append(conn[c].down, denied)
    BY <2>1
  <2>4. longer \in Seq(DownMessages)
    BY <2>1, <2>2, AppendProperties DEF Connections
  <2> HIDE DEF told, longer
  <2>5. /\ told \in Connections /\ told.upEnd = "open"
        /\ told.down = Append(conn[c].down, denied)
    BY <2>1, <2>3, <2>4 DEF Connections
  <2>6. new = [told EXCEPT !.downEnd = e, !.up = <<>>]
    BY <1>4, <2>5 DEF ServerClosed
  <2>7. new.down = told.down /\ new.downEnd = e
    BY <2>5, <2>6 DEF Connections
  <2>8. conn'[c] = new
    BY <1>3, <1>5, <1>7
  <2>9. denied.command # MSG_FROM_UDP
    BY <2>2 DEF CONNECT_DENIED, MSG_FROM_UDP
  <2> QED
    BY <1>2, <1>4, <2>2, <2>5, <2>7, <2>8, <2>9 DEF Closed, Closings
<1> QED
  BY <1>6, <1>7

LEMMA ServerMoves ==
  ASSUME AppInv, SessionInv, ServerNext, NEW c \in Conns,
         conn[c].owner \in Procs, conn[c].upEnd = "open"
  PROVE  Quiet(c) \/ Closed(c) \/ Answered(c) \/ SendNext \/ ManageUdpMessage
<1>1. ASSUME UNCHANGED <<conn, fdtab, outbox>>
      PROVE  Quiet(c)
  BY <1>1 DEF Quiet, Coming
<1>2. CASE Poll \/ CheckStdinData
  BY <1>1, <1>2, HaltIsClosed DEF Poll, CheckStdinData, socketVars
<1>3. CASE SendFails \/ AcceptFails \/ DenialFails \/ NoIdArrives
           \/ \E i \in DOMAIN poll_fds : RecvFails(i)
  BY <1>3, HaltIsClosed DEF SendFails, AcceptFails, DenialFails, NoIdArrives, RecvFails
<1>4. CASE Accept
  <2>1. outbox = <<>> /\ outbox' = <<>> /\ conn' = conn
    BY <1>4 DEF Accept, AtAccept, AtLoop
  <2> QED
    BY <2>1, NoneComing DEF Quiet
<1>5. ASSUME NEW id \in Ids, RegisterClient(id) \/ ReconnectClient(id)
      PROVE  Quiet(c) \/ Answered(c)
  <2>1. IdArrived(id) /\ AdmitClient(id)
    BY <1>5 DEF RegisterClient, ReconnectClient
  <2>2. fdtab[newfd] \in Conns /\ conn[fdtab[newfd]].up # <<>>
    BY <2>1, ArrivedId
  <2>3. /\ conn' = Received(fdtab[newfd]) /\ fdtab' = fdtab /\ outbox = <<>>
        /\ outbox' = <<[fd |-> newfd, msg |-> Reply(CONNECT_ACCEPTED, <<>>, 0)]>>
    BY <2>1 DEF AdmitClient, IdArrived
  <2>4. Reply(CONNECT_ACCEPTED, <<>>, 0).command # MSG_FROM_UDP
    BY DEF Reply, CONNECT_ACCEPTED, MSG_FROM_UDP
  <2> QED
    BY <2>2, <2>3, <2>4, AnswerMoves
<1>6. ASSUME NEW id \in Ids, DenyClient(id)
      PROVE  Quiet(c) \/ Closed(c)
  BY <1>6, DenyMoves
<1>7. ASSUME NEW i \in DOMAIN poll_fds, NEW id \in Ids, ManageSubscribeUnsubscribe(i, id)
      PROVE  Quiet(c) \/ Answered(c)
  <2> DEFINE fd == poll_fds[i]
             req == Head(conn[fdtab[fd]].up)
             answer == Reply(AnswerTo(req.command, req.payload \in subscribed_topics[id]),
                             req.payload, 0)
  <2>1. fdtab[fd] \in Conns /\ conn' = Received(fdtab[fd]) /\ conn[fdtab[fd]].up # <<>>
    BY <1>7, RequestTaken DEF ManageSubscribeUnsubscribe
  <2>2. fdtab' = fdtab /\ outbox = <<>> /\ outbox' = <<[fd |-> fd, msg |-> answer]>>
    BY <1>7 DEF ManageSubscribeUnsubscribe, AtClient, AtLoop
  <2>3. answer.command # MSG_FROM_UDP
    BY DEF Reply, AnswerTo, MSG_FROM_UDP, SUBSCRIBE_SUCC, SUBSCRIBE_FAIL,
           UNSUBSCRIBE_SUCC, UNSUBSCRIBE_FAIL
  <2> HIDE DEF answer, req
  <2> QED
    BY <2>1, <2>2, <2>3, AnswerMoves
<1>8. ASSUME NEW i \in DOMAIN poll_fds, NEW id \in Ids, DisconnectClient(i, id)
      PROVE  Quiet(c)
  <2>1. /\ outbox = <<>> /\ outbox' = <<>> /\ c # fdtab[poll_fds[i]]
        /\ \E new : conn' = [conn EXCEPT ![fdtab[poll_fds[i]]] = new]
    BY <1>8 DEF DisconnectClient, AtClient, AtLoop
  <2> QED
    BY <2>1, CloseMoves
<1> QED
  BY <1>2, <1>3, <1>4, <1>5, <1>6, <1>7, <1>8 DEF ServerNext

(* A datagram is forwarded once to a connection, if to its client at all.  *)
Forwarding(c) ==
  /\ UNCHANGED <<conn, fdtab>>
  /\ outbox = <<>>
  /\ udpq # <<>> /\ udpq' = Tail(udpq)
  /\ \/ Coming(c)' = {}
     \/ \E k \in Nat \ {0} :
          /\ Coming(c)' = {k}
          /\ outbox'[k].msg = Reply(MSG_FROM_UDP, Head(udpq).topic, Head(udpq).n)
          /\ \E id \in Recipients(Head(udpq).topic) : c = fdtab[curr_fd[id]]

LEMMA ForwardMoves ==
  ASSUME AppInv, AppInv', SessionInv, ManageUdpMessage, NEW c \in Conns
  PROVE  Forwarding(c)
<1> DEFINE d == Head(udpq)
           send(id) == [fd |-> curr_fd[id], msg |-> Reply(MSG_FROM_UDP, d.topic, d.n)]
<1>1. /\ UNCHANGED <<conn, fdtab>> /\ outbox = <<>>
      /\ udpq # <<>> /\ udpq' = Tail(udpq)
  BY DEF ManageUdpMessage, socketVars, AtLoop, AppInv, RoundInv
<1>2. d \in Datagrams
  BY <1>1, HeadTailProperties DEF AppInv, ConnectionInv, MessageTypes
<1>3. outbox' = <<>> \/ outbox' \in FanOut(d)
  BY DEF ManageUdpMessage
<1>4. CASE outbox' = <<>>
  BY <1>1, <1>4, NoneComing DEF Forwarding
<1>5. ASSUME outbox' \in FanOut(d), Coming(c)' # {}
      PROVE  \E k \in Nat \ {0} :
               /\ Coming(c)' = {k}
               /\ outbox'[k].msg = Reply(MSG_FROM_UDP, d.topic, d.n)
               /\ \E id \in Recipients(d.topic) : c = fdtab[curr_fd[id]]
  <2>1. Range(outbox') = {send(id) : id \in Recipients(d.topic)}
    BY <1>2, <1>5, FanOutElements
  <2>2. IsInjective(outbox')
    <3> DEFINE S == {send(id) : id \in Recipients(d.topic)}
    <3>1. outbox' \in {g \in [1..Cardinality(S) -> S] :
                        \A i, j \in 1..Cardinality(S) : i # j => g[i] # g[j]}
      BY <1>5 DEF FanOut, SetToSeqs
    <3> HIDE DEF S
    <3> QED
      BY <3>1 DEF IsInjective
  <2>3. \A k \in DOMAIN outbox' : \E id \in Recipients(d.topic) : outbox'[k] = send(id)
    BY <2>1 DEF Range
  <2>4. \A k : k \in Coming(c)' <=> k \in DOMAIN outbox' /\ fdtab[outbox'[k].fd] = c
    BY <1>1 DEF Coming
  <2>5. PICK k \in DOMAIN outbox' : fdtab[outbox'[k].fd] = c
    BY <1>5, <2>4
  <2>6. PICK id \in Recipients(d.topic) : outbox'[k] = send(id)
    BY <2>3
  <2>7. \A j \in Recipients(d.topic) :
          j \in Ids /\ is_connected[j] /\ curr_fd[j] \in Fds /\ fdtab[curr_fd[j]] \in Conns
    BY Recorded DEF Recipients, AppInv, RegistryInv, RegistryTypes
  <2>8. ASSUME NEW j \in DOMAIN outbox', fdtab[outbox'[j].fd] = c
        PROVE  j = k
    <3>1. PICK other \in Recipients(d.topic) : outbox'[j] = send(other)
      BY <2>3
    <3>2. fdtab[curr_fd[other]] = fdtab[curr_fd[id]]
      BY <2>5, <2>6, <2>8, <3>1
    <3>3. other = id
      BY <2>7, <3>2, OneConnectionPerId
    <3> QED
      BY <2>2, <2>6, <3>1, <3>3 DEF IsInjective
  <2>9. Coming(c)' = {k}
    BY <2>4, <2>5, <2>8
  <2>10. k \in Nat \ {0}
    BY StreamsNext, LenProperties
  <2> QED
    BY <2>5, <2>6, <2>9, <2>10
<1> QED
  BY <1>1, <1>3, <1>4, <1>5 DEF Forwarding

(* What a step of the server does to the stream of a running subscriber.   *)
Kept(c)    == \E f : KeepsEnd(f, Stream(c)', Stream(c))
Cut(c)     == \E f : Keeps(f, Stream(c)', Stream(c))
Added(c, m) == Longer(Stream(c)', Stream(c), m)

LEMMA QuietStream ==
  ASSUME AppInv, AppInv', NEW c \in Conns, Quiet(c)
  PROVE  Kept(c)
<1>1. /\ Shape(Stream(c), conn[c].down, outbox, Coming(c))
      /\ Shape(Stream(c)', conn[c].down, outbox', Coming(c))
  BY Streams, StreamsNext DEF Quiet
<1>2. CASE Coming(c) = {}
  BY <1>1, <1>2, NothingComing DEF Kept
<1>3. CASE outbox' = outbox
  BY <1>1, <1>3, SameEnd DEF Shape, Kept
<1> QED
  BY <1>2, <1>3 DEF Quiet

LEMMA ClosedStream ==
  ASSUME AppInv, AppInv', NEW c \in Conns, Closed(c)
  PROVE  Cut(c) \/ \E m \in DownMessages : m.command # MSG_FROM_UDP /\ Added(c, m)
<1>1. /\ Shape(Stream(c), conn[c].down, outbox, Coming(c))
      /\ Shape(Stream(c)', conn'[c].down, outbox', {})
      /\ conn[c].down \in Seq(DownMessages)
  BY Streams, StreamsNext, NoneComing DEF Closed
<1>2. CASE conn'[c].down = conn[c].down
  BY <1>1, <1>2, RestDropped DEF Cut
<1>3. ASSUME NEW m \in DownMessages, m.command # MSG_FROM_UDP, outbox = <<>>,
             conn'[c].down = Append(conn[c].down, m)
      PROVE  Added(c, m)
  <2>1. Shape(Stream(c), conn[c].down, outbox, {})
    BY <1>1, <1>3, NoneComing
  <2>2. Shape(Stream(c)', Append(conn[c].down, m), outbox', {})
    BY <1>1, <1>3
  <2> QED
    BY <1>1, <2>1, <2>2, MessageQueued DEF Added
<1> QED
  BY <1>2, <1>3 DEF Closed

LEMMA AnsweredStream ==
  ASSUME AppInv, AppInv', NEW c \in Conns, Answered(c)
  PROVE  \E fd, m : /\ outbox' = <<[fd |-> fd, msg |-> m]>>
                    /\ fdtab'[fd] = c /\ m.command # MSG_FROM_UDP /\ Added(c, m)
<1>1. PICK fd, m : /\ outbox' = <<[fd |-> fd, msg |-> m]>>
                   /\ fdtab'[fd] = c /\ m.command # MSG_FROM_UDP
  BY DEF Answered
<1>2. Coming(c) = {} /\ Coming(c)' = {1} /\ outbox'[1].msg = m
  BY <1>1, NoneComing DEF Answered
<1>3. conn'[c].down = conn[c].down
  BY Streams DEF Answered, Connections
<1>4. /\ Shape(Stream(c), conn[c].down, outbox, {})
      /\ Shape(Stream(c)', conn[c].down, outbox', {1})
  BY <1>2, <1>3, Streams, StreamsNext
<1>5. Longer(Stream(c)', Stream(c), outbox'[1].msg)
  BY <1>4, MessageAdded
<1> QED
  BY <1>1, <1>2, <1>5 DEF Added

LEMMA ForwardStream ==
  ASSUME AppInv, AppInv', NEW c \in Conns, Forwarding(c)
  PROVE  \/ Kept(c)
         \/ /\ Added(c, Reply(MSG_FROM_UDP, Head(udpq).topic, Head(udpq).n))
            /\ \E id \in Recipients(Head(udpq).topic) : c = fdtab[curr_fd[id]]
<1>1. /\ Shape(Stream(c), conn[c].down, outbox, {})
      /\ Shape(Stream(c)', conn[c].down, outbox', Coming(c)')
  BY Streams, StreamsNext, NoneComing DEF Forwarding
<1>2. CASE Coming(c)' = {}
  BY <1>1, <1>2, NothingComing DEF Kept
<1>3. ASSUME NEW k \in Nat \ {0}, Coming(c)' = {k}
      PROVE  Added(c, outbox'[k].msg)
  <2>1. Shape(Stream(c)', conn[c].down, outbox', {k})
    BY <1>1, <1>3
  <2> QED
    BY <1>1, <2>1, MessageAdded DEF Added
<1> QED
  BY <1>2, <1>3 DEF Forwarding

LEMMA SentStream ==
  ASSUME AppInv, AppInv', SendNext, NEW c \in Conns, conn[c].upEnd = "open"
  PROVE  /\ Kept(c)
         /\ conn'[c] = [conn[c] EXCEPT !.down = conn'[c].down]
         /\ conn'[c].down \in {conn[c].down, Append(conn[c].down, Head(outbox).msg)}
         /\ 1 \in Coming(c) => conn'[c].down = Append(conn[c].down, Head(outbox).msg)
         /\ Coming(c) # {} => 1 \in Coming(c) \/ Coming(c)' # {}
<1> DEFINE o == Head(outbox)
<1>1. /\ outbox # <<>> /\ outbox' = Tail(outbox) /\ fdtab' = fdtab
      /\ conn' = AfterSendDown(fdtab[o.fd], o.msg)
  BY DEF SendNext
<1>2. /\ outbox \in Seq(Sends) /\ Len(outbox) \in Nat \ {0} /\ DOMAIN outbox = 1..Len(outbox)
      /\ o = outbox[1] /\ o \in Sends /\ DOMAIN Tail(outbox) = 1..(Len(outbox) - 1)
      /\ \A k \in 1..(Len(outbox) - 1) : Tail(outbox)[k] = outbox[k + 1]
  BY <1>1, Streams, LenProperties, EmptySeq, HeadTailProperties
<1>3. 1 \in Coming(c) <=> fdtab[o.fd] = c
  BY <1>2 DEF Coming
<1>4. Coming(c)' = {k \in DOMAIN Tail(outbox) : k + 1 \in Coming(c)}
  <2>1. \A k \in 1..(Len(outbox) - 1) : k + 1 \in DOMAIN outbox
    BY <1>2
  <2> QED
    BY <1>1, <1>2, <2>1 DEF Coming
<1>5. conn \in [Conns -> Connections] /\ conn[c] \in Connections
  BY DEF AppInv, ConnectionInv, MessageTypes
<1>6. conn'[c] = IF 1 \in Coming(c) THEN [conn[c] EXCEPT !.down = Append(@, o.msg)]
                 ELSE conn[c]
  BY <1>1, <1>3, <1>5 DEF AfterSendDown
<1>7. conn'[c].down = IF 1 \in Coming(c) THEN Append(conn[c].down, o.msg) ELSE conn[c].down
  BY <1>5, <1>6 DEF Connections
<1>8. Kept(c)
  <2>1. /\ Shape(Stream(c), conn[c].down, outbox, Coming(c))
        /\ Shape(Stream(c)', conn'[c].down, Tail(outbox), Coming(c)')
        /\ Coming(c) \in SUBSET (DOMAIN outbox) /\ conn[c].down \in Seq(DownMessages)
    BY <1>1, Streams, StreamsNext
  <2> QED
    BY <1>1, <1>2, <1>4, <1>7, <2>1, FirstSent DEF Kept
<1>9. conn'[c] = [conn[c] EXCEPT !.down = conn'[c].down]
  BY <1>5, <1>6, <1>7 DEF Connections
<1>10. ASSUME NEW k \in Coming(c), k # 1
       PROVE  k - 1 \in Coming(c)'
  <2>1. k \in 1..Len(outbox)
    BY <1>2 DEF Coming
  <2>2. k - 1 \in 1..(Len(outbox) - 1) /\ (k - 1) + 1 = k
    BY <1>2, <1>10, <2>1
  <2> QED
    BY <1>2, <1>4, <2>2
<1> QED
  BY <1>7, <1>8, <1>9, <1>10

-----------------------------------------------------------------------------
(* The steps of the processes, as far as the other processes can tell.     *)
Apart(p) ==
  /\ spc'[p] = spc[p] /\ sock'[p] = sock[p] /\ asked'[p] = asked[p]
  /\ tcp_ready'[p] = tcp_ready[p] /\ last'[p] = last[p]
  /\ ~ At(p, "off") => conn'[sock[p]] = conn[sock[p]]

LEMMA OthersApart ==
  ASSUME AppInv, NEW q \in Procs, ProcStep(q) \/ UserOf(q), NEW p \in Procs \ {q}
  PROVE  Apart(p)
<1>1. conn \in [Conns -> Connections] /\ ProcTypes
  BY DEF AppInv, ConnectionInv, MessageTypes
<1>2. ~ At(p, "off") =>
        sock[p] \in Conns /\ conn[sock[p]].owner = p /\ sock[q] # sock[p]
  BY RunningSocket DEF AppInv
<1>3. ASSUME NEW c \in Conns, conn[c] = FreeConn
      PROVE  ~ At(p, "off") => sock[p] # c
  BY <1>2, <1>3, FreeConnFacts, SocketsAssumption DEF SocketsAssumption
<1>4. CASE End(q)
  BY <1>1, <1>2, <1>4 DEF End, Goto, Apart, ProcTypes
<1>5. CASE Prepare(q, Running)
  BY <1>1, <1>2, <1>3, <1>5 DEF Prepare, Goto, Apart, ProcTypes
<1>6. CASE SendId(q) \/ SendRequest(q)
  BY <1>1, <1>2, <1>6 DEF SendId, SendRequest, AfterSendUp, Goto, Apart, ProcTypes
<1>7. CASE Accepted(q) \/ RecvAnswer(q) \/ RecvTcp(q)
  <2>1. Take(q) \/ UNCHANGED conn
    BY <1>7 DEF Accepted, RecvAnswer, RecvTcp
  <2>2. \A d \in Conns : d # sock[q] => conn'[d] = conn[d]
    BY <1>1, <2>1 DEF Take
  <2> QED
    <3>1. CASE Accepted(q)
      BY <1>1, <1>2, <3>1, <2>2 DEF Accepted, Goto, Apart, ProcTypes
    <3>2. CASE RecvAnswer(q)
      BY <1>1, <1>2, <3>2, <2>2 DEF RecvAnswer, Goto, Apart, ProcTypes
    <3>3. CASE RecvTcp(q)
      <4>1. last'[p] = last[p]
        BY <1>1, <3>3 DEF RecvTcp, ProcTypes
      <4> QED
        BY <1>1, <1>2, <3>3, <2>2, <4>1 DEF RecvTcp, Goto, Apart, ProcTypes
    <3> QED
      BY <1>7, <3>1, <3>2, <3>3
<1>8. CASE \E command \in {SUBSCRIBE_REQ, UNSUBSCRIBE_REQ}, topic \in SubTopics :
             TypeRequest(q, command, topic)
  BY <1>1, <1>8 DEF TypeRequest, socketVars, Goto, Apart, ProcTypes
<1> QED
  BY <1>4, <1>5, <1>6, <1>7, <1>8
     DEF ProcStep, UserOf, SubscriberStep, UserStep, ServerGone, RecvDies, Denied,
         ServerClosedIt, Exit, Kill

(* What a running process does to itself, by cases.                        *)
OwnSteps(p) ==
  \/ ~ At(p, "off") /\ End(p)
  \/ Prepare(p, Running)
  \/ SendId(p) \/ Accepted(p) \/ SendRequest(p) \/ RecvAnswer(p) \/ RecvTcp(p)
  \/ \E command \in {SUBSCRIBE_REQ, UNSUBSCRIBE_REQ}, topic \in SubTopics :
       TypeRequest(p, command, topic)

LEMMA OwnCases ==
  ASSUME NEW p \in Procs, ProcStep(p) \/ UserOf(p)
  PROVE  OwnSteps(p) /\ UNCHANGED <<serverVars, arrived>>
BY DEF OwnSteps, ProcStep, UserOf, SubscriberStep, UserStep, ServerGone, RecvDies,
       Denied, ServerClosedIt, Exit, Kill, At

-----------------------------------------------------------------------------
(* A blocking recv() always has something to wait for.                     *)
Waits(p) ==
  /\ At(p, "sending") /\ tcp_ready[p] => DownReadable(sock[p])
  /\ At(p, "awaitAnswer") => Something(sock[p], IF tcp_ready[p] THEN 1 ELSE 0)
  /\ spc[p] \in {"awaitAccept", "tcp"} => Something(sock[p], 0)

LEMMA EveryoneWaits == WaitInv <=> \A p \in Procs : Waits(p)
BY DEF WaitInv, Waits

LEMMA ServerKeepsSomething ==
  ASSUME AppInv, AppInv', SessionInv, ServerNext, NEW c \in Conns,
         conn[c].owner \in Procs, conn[c].upEnd = "open"
  PROVE  /\ DownReadable(c) => DownReadable(c)'
         /\ \A r \in {0, 1} : Something(c, r) => Something(c, r)'
<1>1. /\ conn[c] \in Connections /\ conn'[c] \in Connections
      /\ conn[c].down \in Seq(DownMessages) /\ conn'[c].down \in Seq(DownMessages)
      /\ Len(conn[c].down) \in Nat /\ Len(conn'[c].down) \in Nat
  BY Streams, StreamsNext, LenProperties
<1>2. CASE Quiet(c)
  BY <1>2 DEF Quiet, DownReadable, Something
<1>3. CASE Closed(c)
  BY <1>3 DEF Closed, DownReadable, Something
<1>4. CASE Answered(c)
  <2>1. conn'[c].down = conn[c].down /\ conn'[c].downEnd = conn[c].downEnd
    BY <1>1, <1>4 DEF Answered, Connections
  <2>2. Coming(c)' # {}
    BY <1>4, NoneComing DEF Answered
  <2> QED
    BY <2>1, <2>2 DEF DownReadable, Something
<1>5. CASE SendNext
  <2> DEFINE o == Head(outbox)
  <2>7. o.msg \in DownMessages
    <3>1. outbox \in Seq(Sends) /\ outbox # <<>>
      BY <1>5, Streams DEF SendNext
    <3>2. o \in Sends
      BY <3>1, HeadTailProperties
    <3> QED
      BY <3>2 DEF Sends
  <2>1. conn'[c].downEnd = conn[c].downEnd /\ conn'[c].up = conn[c].up
    BY <1>1, <1>5, SentStream DEF Connections
  <2>2. CASE conn'[c].down = conn[c].down
    <3>1. Coming(c) # {} => Coming(c)' # {}
      <4>1. Head(outbox).msg \in DownMessages
        BY <2>7
      <4>2. Len(Append(conn[c].down, Head(outbox).msg)) # Len(conn[c].down)
        BY <1>1, <4>1, AppendProperties
      <4> QED
        BY <1>5, <2>2, <4>2, SentStream
    <3> QED
      BY <2>1, <2>2, <3>1 DEF DownReadable, Something
  <2>3. CASE conn'[c].down = Append(conn[c].down, Head(outbox).msg)
    <3>1. Head(outbox).msg \in DownMessages
      BY <2>7
    <3>2. Len(conn'[c].down) = Len(conn[c].down) + 1
      BY <1>1, <2>3, <3>1, AppendProperties
    <3>3. conn'[c].down # <<>>
      BY <1>1, <3>2, EmptySeq
    <3> QED
      BY <1>1, <2>1, <3>2, <3>3 DEF DownReadable, Something
  <2> QED
    BY <1>5, <2>2, <2>3, SentStream
<1>6. CASE Forwarding(c)
  <2>1. Coming(c) = {} /\ conn' = conn
    BY <1>6, NoneComing DEF Forwarding
  <2> QED
    BY <2>1 DEF DownReadable, Something
<1> QED
  BY <1>2, <1>3, <1>4, <1>5, <1>6, ServerMoves, ForwardMoves

LEMMA SameWait ==
  ASSUME NEW p \in Procs, Waits(p), Apart(p), ~ At(p, "off"), UNCHANGED <<outbox, fdtab>>
  PROVE  Waits(p)'
<1>1. Coming(sock[p])' = Coming(sock'[p])
  BY DEF Apart, Coming
<1> QED
  BY <1>1 DEF Waits, Apart, At, DownReadable, Something, Coming

LEMMA SentUp ==
  ASSUME conn \in [Conns -> Connections], NEW c \in Conns, NEW m \in UpMessages,
         conn' = AfterSendUp(c, m)
  PROVE  /\ conn'[c].down = conn[c].down /\ conn'[c].downEnd = conn[c].downEnd
         /\ conn'[c].downEnd = "open" => conn'[c].up # <<>>
<1>1. conn[c] \in Connections /\ conn[c].up \in Seq(UpMessages)
  BY DEF Connections
<1>2. CASE conn[c].downEnd # "open"
  BY <1>2 DEF AfterSendUp
<1>3. CASE conn[c].downEnd = "open"
  <2>1. conn'[c] = [conn[c] EXCEPT !.up = Append(@, m)]
    BY <1>3 DEF AfterSendUp
  <2>2. conn'[c].up = Append(conn[c].up, m)
    BY <1>1, <2>1 DEF Connections
  <2>3. Append(conn[c].up, m) # <<>>
    BY <1>1, AppendProperties, LenProperties, EmptySeq
  <2> QED
    BY <1>1, <2>1, <2>2, <2>3 DEF Connections
<1> QED
  BY <1>2, <1>3

LEMMA OwnWait ==
  ASSUME AppInv, NEW p \in Procs, Waits(p), OwnSteps(p), UNCHANGED serverVars
  PROVE  Waits(p)'
<1>1. ProcTypes /\ conn \in [Conns -> Connections] /\ outbox' = outbox
  BY DEF AppInv, ConnectionInv, MessageTypes, serverVars
<1>2. ASSUME ~ At(p, "off")
      PROVE  /\ sock[p] \in Conns /\ conn[sock[p]] \in Connections
             /\ conn[sock[p]].up \in Seq(UpMessages)
             /\ conn[sock[p]].down \in Seq(DownMessages)
             /\ Len(conn[sock[p]].down) \in Nat
  BY <1>2, RunningSocket, LenProperties DEF AppInv
<1>3. CASE ~ At(p, "off") /\ End(p)
  BY <1>1, <1>3 DEF End, Goto, Waits, At, ProcTypes
<1>4. CASE Prepare(p, Running)
  BY <1>1, <1>4 DEF Prepare, Goto, Waits, At, ProcTypes
<1>5. CASE SendId(p)
  <2>1. ~ At(p, "off") /\ Request(CONNECT_REQ, IdOf[p]) \in UpMessages
    BY <1>5, RequestFacts, AppAssumption DEF SendId, At, AppAssumption
  <2>2. /\ spc'[p] = "awaitAccept" /\ sock' = sock
        /\ conn' = AfterSendUp(sock[p], Request(CONNECT_REQ, IdOf[p]))
    BY <1>1, <1>5 DEF SendId, Goto, ProcTypes
  <2>3. Something(sock[p], 0)'
    <3>1. /\ conn'[sock[p]].down = conn[sock[p]].down
          /\ conn'[sock[p]].downEnd = "open" => conn'[sock[p]].up # <<>>
      BY <1>1, <1>2, <2>1, <2>2, SentUp
    <3> QED
      BY <1>2, <2>1, <2>2, <3>1 DEF Something
  <2> QED
    BY <2>2, <2>3 DEF Waits, At
<1>6. CASE SendRequest(p)
  <2>1. ~ At(p, "off") /\ At(p, "sending") /\ asked[p] \in UpMessages
    <3>1. At(p, "sending") /\ ~ At(p, "off")
      BY <1>6 DEF SendRequest, At
    <3>2. asked[p].command # CONNECT_REQ
      BY <3>1 DEF AppInv, ConnectionInv, RequestsInv
    <3>3. asked \in [Procs -> UpMessages \cup {NoRequest}]
      BY DEF AppInv, ConnectionInv, MessageTypes
    <3>4. asked[p] \in UpMessages \cup {NoRequest}
      BY <3>3
    <3> QED
      BY <3>1, <3>2, <3>4, RequestFacts
  <2>2. /\ spc'[p] = "awaitAnswer" /\ sock' = sock /\ tcp_ready' = tcp_ready
        /\ conn' = AfterSendUp(sock[p], asked[p])
    BY <1>1, <1>6 DEF SendRequest, Goto, ProcTypes
  <2>3. Something(sock[p], IF tcp_ready[p] THEN 1 ELSE 0)'
    <3>1. /\ conn'[sock[p]].down = conn[sock[p]].down
          /\ conn'[sock[p]].downEnd = conn[sock[p]].downEnd
          /\ conn'[sock[p]].downEnd = "open" => conn'[sock[p]].up # <<>>
      BY <1>1, <1>2, <2>1, <2>2, SentUp
    <3>2. tcp_ready[p] => conn[sock[p]].downEnd # "open" \/ Len(conn[sock[p]].down) >= 1
      BY <1>2, <2>1, EmptySeq DEF Waits, DownReadable
    <3> QED
      BY <1>2, <2>1, <2>2, <3>1, <3>2 DEF Something
  <2> QED
    BY <2>2, <2>3 DEF Waits, At
<1>7. CASE RecvAnswer(p)
  <2>1. ~ At(p, "off") /\ Something(sock[p], IF tcp_ready[p] THEN 1 ELSE 0)
    BY <1>7 DEF RecvAnswer, At, Waits
  <2>2. /\ spc'[p] = IF tcp_ready[p] THEN "tcp" ELSE "poll"
        /\ sock' = sock /\ fdtab' = fdtab
        /\ (Incoming(p) /\ Take(p)) \/ (EndOfFile(p) /\ conn' = conn)
    BY <1>1, <1>7 DEF RecvAnswer, AfterStdin, Goto, ProcTypes
  <2>3. Coming(sock[p])' = Coming(sock[p])
    BY <1>1, <2>2 DEF Coming
  <2>4. ASSUME tcp_ready[p]
        PROVE  Something(sock[p], 0)'
    <3>1. CASE EndOfFile(p) /\ conn' = conn
      BY <2>2, <3>1 DEF EndOfFile, Something
    <3>2. CASE Incoming(p) /\ Take(p)
      <4>1. /\ conn'[sock[p]].down = Tail(conn[sock[p]].down)
            /\ conn'[sock[p]].downEnd = conn[sock[p]].downEnd
            /\ conn'[sock[p]].up = conn[sock[p]].up
        BY <1>1, <1>2, <2>1, <3>2 DEF Take, Connections
      <4>2. Len(conn'[sock[p]].down) = Len(conn[sock[p]].down) - 1
        BY <1>2, <2>1, <3>2, <4>1, HeadTailProperties DEF Incoming
      <4> QED
        BY <1>2, <2>1, <2>2, <2>3, <2>4, <4>1, <4>2 DEF Something
    <3> QED
      BY <2>2, <3>1, <3>2
  <2> QED
    BY <2>2, <2>4 DEF Waits, At
<1>8. CASE Accepted(p) \/ RecvTcp(p)
  <2>1. spc'[p] = "poll"
    BY <1>1, <1>8 DEF Accepted, RecvTcp, Goto, ProcTypes
  <2> QED
    BY <2>1 DEF Waits, At
<1>9. ASSUME NEW command \in {SUBSCRIBE_REQ, UNSUBSCRIBE_REQ}, NEW topic \in SubTopics,
             TypeRequest(p, command, topic)
      PROVE  Waits(p)'
  <2>1. /\ spc'[p] = "sending" /\ sock' = sock /\ conn' = conn
        /\ tcp_ready'[p] = DownReadable(sock[p])
    BY <1>1, <1>9 DEF TypeRequest, Goto, socketVars, ProcTypes
  <2> QED
    BY <2>1 DEF Waits, At, DownReadable
<1> QED
  BY <1>3, <1>4, <1>5, <1>6, <1>7, <1>8, <1>9 DEF OwnSteps

LEMMA WaitNext ==
  ASSUME AppInv, AppInv', SessionInv, WaitInv, [Next]_vars
  PROVE  WaitInv'
<1> SUFFICES ASSUME NEW p \in Procs
             PROVE  Waits(p)'
  BY DEF WaitInv, Waits
<1>1. Waits(p)
  BY EveryoneWaits
<1>2. CASE ServerStep
  <2>1. UNCHANGED <<spc, sock, tcp_ready>> /\ ServerNext
    BY <1>2 DEF ServerStep, subscriberVars
  <2>2. ASSUME ~ At(p, "off")
        PROVE  /\ DownReadable(sock[p]) => DownReadable(sock[p])'
               /\ \A r \in {0, 1} : Something(sock[p], r) => Something(sock[p], r)'
    <3> DEFINE c == sock[p]
    <3>1. c \in Conns /\ conn[c].owner \in Procs /\ conn[c].upEnd = "open"
      BY <2>2, RunningSocket DEF AppInv
    <3>2. PICK d \in Conns : d = c
      BY <3>1
    <3>3. /\ DownReadable(d) => DownReadable(d)'
          /\ \A r \in {0, 1} : Something(d, r) => Something(d, r)'
      BY <2>1, <3>1, <3>2, ServerKeepsSomething
    <3> QED
      BY <2>1, <3>2, <3>3 DEF DownReadable, Something, Coming
  <2> QED
    BY <1>1, <2>1, <2>2 DEF Waits, At
<1>3. ASSUME NEW q \in Procs, ProcStep(q) \/ UserOf(q)
      PROVE  Waits(p)'
  <2>1. OwnSteps(q) /\ UNCHANGED serverVars
    BY <1>3, OwnCases
  <2>2. CASE q = p
    BY <1>1, <2>1, <2>2, OwnWait
  <2>3. CASE q # p
    <3>1. Apart(p)
      BY <1>3, <2>3, OthersApart
    <3>2. UNCHANGED <<outbox, fdtab>>
      BY <1>3, Untouched DEF RegistryUntouched
    <3>3. CASE At(p, "off")
      BY <3>1, <3>3 DEF Apart, Waits, At
    <3> QED
      BY <1>1, <3>1, <3>2, <3>3, SameWait
  <2> QED
    BY <2>2, <2>3
<1>4. CASE TypeConsole \/ SendDatagram \/ UNCHANGED vars
  <2>1. UNCHANGED <<conn, fdtab, spc, sock, tcp_ready>> /\ outbox' = outbox
    BY <1>4, Untouched
       DEF TypeConsole, SendDatagram, vars, socketVars, subscriberVars, RegistryUntouched
  <2> QED
    BY <1>1, <2>1 DEF Waits, At, DownReadable, Something, Coming
<1> QED
  BY <1>2, <1>3, <1>4 DEF Next, Finished

THEOREM WaitInvariant == Spec => []WaitInv
<1>1. Init => WaitInv
  BY DEF Init, SubscriberInit, WaitInv, At
<1>2. AppInv /\ AppInv' /\ SessionInv /\ WaitInv /\ [Next]_vars => WaitInv'
  BY WaitNext
<1> QED
  BY <1>1, <1>2, AppInvariant, SessionInvariant, PTL DEF Spec

(* Whatever poll() said before the line was handled, the recv() after it   *)
(* has a message to return, or the end of the connection, or will have.    *)
THEOREM NobodyStuck == Spec => []NeverWaitsForNothing
<1>1. AppInv /\ WaitInv => NeverWaitsForNothing
  <2> SUFFICES ASSUME AppInv, WaitInv, NEW p \in Procs,
                      spc[p] \in {"awaitAccept", "awaitAnswer", "tcp"}
               PROVE  LET c == sock[p]
                      IN  \/ conn[c].downEnd # "open"
                          \/ conn[c].down # <<>> \/ Coming(c) # {} \/ conn[c].up # <<>>
    BY DEF NeverWaitsForNothing
  <2>1. \E r \in {0, 1} : Something(sock[p], r)
    BY DEF WaitInv, At
  <2>2. Len(<<>>) = 0
    OBVIOUS
  <2> QED
    BY <2>1, <2>2 DEF Something
<1> QED
  BY <1>1, AppInvariant, WaitInvariant, PTL

-----------------------------------------------------------------------------
(* The datagrams of a stream, in order, once, and after the last printed.  *)
Rising(s, floor) ==
  /\ \A j \in UdpAt(s) : floor < s[j].n
  /\ \A i, j \in UdpAt(s) : i < j => s[i].n < s[j].n

LEMMA RisingKept ==
  ASSUME NEW s, NEW s1, NEW f, Keeps(f, s1, s), NEW floor, Rising(s, floor)
  PROVE  /\ Rising(s1, floor)
         /\ \A j \in UdpAt(s1) : \E k \in UdpAt(s) : s1[j].n = s[k].n
<1>1. \A j \in UdpAt(s1) : j \in DOMAIN s1 /\ f[j] \in UdpAt(s) /\ s1[j] = s[f[j]]
  BY DEF Keeps, UdpAt
<1>2. \A i, j \in DOMAIN s1 : i < j => f[i] < f[j]
  BY DEF Keeps
<1> QED
  BY <1>1, <1>2 DEF Rising

LEMMA RisingLonger ==
  ASSUME NEW s, NEW s1, NEW m, Longer(s1, s, m), DOMAIN s \subseteq Nat,
         NEW floor, Rising(s, floor),
         m.command = MSG_FROM_UDP =>
           floor < m.n /\ \A j \in UdpAt(s) : s[j].n < m.n
  PROVE  /\ Rising(s1, floor)
         /\ \A j \in UdpAt(s1) :
              \/ m.command = MSG_FROM_UDP /\ s1[j].n = m.n
              \/ \E k \in UdpAt(s) : s1[j].n = s[k].n
<1>1. PICK x \in Nat : /\ DOMAIN s1 = DOMAIN s \cup {x} /\ s1[x] = m
                       /\ \A j \in DOMAIN s : j < x /\ s1[j] = s[j]
  BY DEF Longer
<1>2. \A j \in UdpAt(s1) :
        \/ j = x /\ m.command = MSG_FROM_UDP /\ s1[j] = m
        \/ j \in UdpAt(s) /\ s1[j] = s[j] /\ j < x
  BY <1>1 DEF UdpAt
<1>3. \A j \in UdpAt(s) : j \in Nat
  BY DEF UdpAt
<1>4. ASSUME NEW i \in UdpAt(s1), NEW j \in UdpAt(s1), i < j
      PROVE  s1[i].n < s1[j].n
  <2>1. ~ (i = x /\ j = x) /\ ~ (i = x /\ j \in UdpAt(s) /\ j < x)
    BY <1>3, <1>4
  <2> QED
    BY <1>2, <1>4, <2>1 DEF Rising
<1>5. \A j \in UdpAt(s1) : floor < s1[j].n
  BY <1>2 DEF Rising
<1> QED
  BY <1>2, <1>4, <1>5 DEF Rising

(* What waits at the UDP socket is newer than everything sent on before.   *)
QueueRises ==
  \A k \in DOMAIN udpq :
    udpq[k].n <= arrived /\ \A i \in DOMAIN udpq : i < k => udpq[i].n < udpq[k].n

StillBehind(n) == n <= arrived' /\ \A k \in DOMAIN udpq' : n < udpq'[k].n

QueueMoves ==
  \/ udpq' \in {udpq, <<>>} /\ arrived' = arrived
  \/ udpq # <<>> /\ udpq' = Tail(udpq) /\ arrived' = arrived
  \/ /\ arrived' = arrived + 1
     /\ \E topic \in Topics, valid \in BOOLEAN :
          udpq' = Append(udpq, [topic |-> topic, valid |-> valid, n |-> arrived + 1])

LEMMA QueueNext ==
  ASSUME AppInv, AppInv', QueueRises, QueueMoves
  PROVE  /\ QueueRises'
         /\ \A n \in 0..MaxDatagrams : Behind(n) => StillBehind(n)
         /\ udpq # <<>> /\ udpq' = Tail(udpq) =>
              /\ Head(udpq) \in Datagrams /\ StillBehind(Head(udpq).n)
              /\ \A n \in 0..MaxDatagrams : Behind(n) => n < Head(udpq).n
<1>1. /\ udpq \in Seq(Datagrams) /\ arrived \in Nat
      /\ Len(udpq) \in Nat /\ DOMAIN udpq = 1..Len(udpq)
      /\ \A k \in DOMAIN udpq : udpq[k].n \in Nat
  <2>1. udpq \in Seq(Datagrams) /\ arrived \in 0..MaxDatagrams
    BY DEF AppInv, ConnectionInv, MessageTypes
  <2>2. \A k \in DOMAIN udpq : udpq[k] \in Datagrams
    BY <2>1, ElementOfSeq, LenProperties
  <2> QED
    BY <2>1, <2>2, LenProperties DEF Datagrams
<1>2. CASE /\ udpq' \in {udpq, <<>>} /\ arrived' = arrived
           /\ ~ (udpq # <<>> /\ udpq' = Tail(udpq))
  <2>1. QueueRises'
    BY <1>2 DEF QueueRises
  <2>2. \A n \in 0..MaxDatagrams : Behind(n) => StillBehind(n)
    BY <1>2 DEF Behind, StillBehind
  <2> QED
    BY <1>2, <2>1, <2>2
<1>3. CASE udpq # <<>> /\ udpq' = Tail(udpq) /\ arrived' = arrived
  <2>1. /\ Len(udpq) \in Nat \ {0} /\ DOMAIN udpq' = 1..(Len(udpq) - 1)
        /\ Head(udpq) = udpq[1] /\ udpq[1] \in Datagrams
        /\ \A k \in 1..(Len(udpq) - 1) : udpq'[k] = udpq[k + 1]
    BY <1>1, <1>3, LenProperties, EmptySeq, HeadTailProperties
  <2>2. \A k \in DOMAIN udpq' :
          k \in Nat /\ 1 < k + 1 /\ k + 1 \in DOMAIN udpq /\ udpq'[k] = udpq[k + 1]
    BY <1>1, <2>1
  <2>3. 1 \in DOMAIN udpq
    BY <1>1, <2>1
  <2>4. QueueRises'
    <3>1. \A i, k \in DOMAIN udpq' : i < k => i + 1 < k + 1
      BY <2>2
    <3> QED
      BY <1>3, <2>2, <3>1 DEF QueueRises
  <2>5. \A n \in 0..MaxDatagrams : Behind(n) => StillBehind(n)
    BY <1>3, <2>2 DEF Behind, StillBehind
  <2>6. StillBehind(Head(udpq).n)
    BY <1>3, <2>1, <2>2, <2>3 DEF QueueRises, StillBehind
  <2>7. \A n \in 0..MaxDatagrams : Behind(n) => n < Head(udpq).n
    BY <2>1, <2>3 DEF Behind
  <2> QED
    BY <2>1, <2>4, <2>5, <2>6, <2>7
<1>4. ASSUME NEW topic \in Topics, NEW valid \in BOOLEAN, arrived' = arrived + 1,
             udpq' = Append(udpq, [topic |-> topic, valid |-> valid, n |-> arrived + 1])
      PROVE  /\ QueueRises'
             /\ \A n \in 0..MaxDatagrams : Behind(n) => StillBehind(n)
             /\ ~ (udpq # <<>> /\ udpq' = Tail(udpq))
  <2> DEFINE d == [topic |-> topic, valid |-> valid, n |-> arrived + 1]
  <2>1. d \in Datagrams
    <3>1. arrived' \in 0..MaxDatagrams
      BY DEF AppInv, ConnectionInv, MessageTypes
    <3>2. arrived + 1 \in 1..MaxDatagrams
      BY <1>1, <1>4, <3>1
    <3> QED
      BY <3>2 DEF Datagrams
  <2>2. d.n = arrived + 1
    OBVIOUS
  <2> HIDE DEF d
  <2>3. /\ DOMAIN udpq' = 1..(Len(udpq) + 1) /\ udpq'[Len(udpq) + 1] = d
        /\ \A k \in 1..Len(udpq) : udpq'[k] = udpq[k]
        /\ Len(udpq') = Len(udpq) + 1
    <3>1. udpq' = Append(udpq, d)
      BY <1>4 DEF d
    <3> QED
      BY <1>1, <2>1, <3>1, AppendProperties, LenProperties
  <2>4. \A k \in DOMAIN udpq' :
          \/ k \in DOMAIN udpq /\ udpq'[k] = udpq[k] /\ k < Len(udpq) + 1
          \/ k = Len(udpq) + 1 /\ udpq'[k].n = arrived + 1
    BY <1>1, <2>2, <2>3
  <2>5. \A k \in DOMAIN udpq : udpq[k].n < arrived + 1
    BY <1>1 DEF QueueRises
  <2>6. QueueRises'
    <3>1. ASSUME NEW k \in DOMAIN udpq' PROVE udpq'[k].n <= arrived'
      BY <1>1, <1>4, <2>4, <2>5
    <3>2. ASSUME NEW k \in DOMAIN udpq', NEW i \in DOMAIN udpq', i < k
          PROVE  udpq'[i].n < udpq'[k].n
      <4>1. CASE k \in DOMAIN udpq
        <5>1. i \in DOMAIN udpq
          BY <1>1, <2>4, <3>2, <4>1
        <5> QED
          BY <1>1, <2>3, <3>2, <4>1, <5>1 DEF QueueRises
      <4>2. CASE k = Len(udpq) + 1
        <5>1. i # Len(udpq) + 1
          BY <1>1, <3>2, <4>2
        <5> QED
          BY <2>4, <2>5, <4>2, <5>1, <2>2, <2>3
      <4> QED
        BY <2>4, <4>1, <4>2
    <3> QED
      BY <3>1, <3>2 DEF QueueRises
  <2>7. ASSUME NEW n \in 0..MaxDatagrams, Behind(n) PROVE StillBehind(n)
    <3>1. n \in Nat /\ n <= arrived /\ \A k \in DOMAIN udpq : n < udpq[k].n
      BY <2>7 DEF Behind
    <3>2. n <= arrived' /\ n < arrived + 1
      BY <1>1, <1>4, <3>1
    <3> QED
      BY <2>4, <3>1, <3>2 DEF StillBehind
  <2>8. ~ (udpq # <<>> /\ udpq' = Tail(udpq))
    <3>1. udpq # <<>> => Len(Tail(udpq)) = Len(udpq) - 1
      BY <1>1, HeadTailProperties
    <3>2. Len(udpq) + 1 # Len(udpq) - 1
      <4>1. \A n \in Nat : n + 1 # n - 1
        OBVIOUS
      <4> QED
        BY <1>1, <4>1
    <3> QED
      BY <2>3, <3>1, <3>2
  <2> QED
    BY <2>6, <2>7, <2>8
<1> QED
  BY <1>2, <1>3, <1>4 DEF QueueMoves

LEMMA QueueOnlyMoves ==
  ASSUME AppInv, [Next]_vars
  PROVE  QueueMoves
<1>1. CASE ServerStep
  <2>1. arrived' = arrived /\ ServerNext
    BY <1>1 DEF ServerStep
  <2>2. ASSUME NEW how, Halt(how) PROVE udpq' = <<>>
    BY <2>2 DEF Halt
  <2>3. CASE ManageUdpMessage
    BY <2>1, <2>3 DEF ManageUdpMessage, AppInv, RoundInv, QueueMoves
  <2>4. CASE ~ ManageUdpMessage
    <3>1. udpq' \in {udpq, <<>>}
      BY <2>1, <2>2, <2>4
         DEF ServerNext, Poll, CheckStdinData, SendNext, SendFails, Accept, AcceptFails,
             RegisterClient, ReconnectClient, AdmitClient, DenyClient, DenialFails,
             NoIdArrives, ManageSubscribeUnsubscribe, DisconnectClient, RecvFails
    <3> QED
      BY <2>1, <3>1 DEF QueueMoves
  <2> QED
    BY <2>3, <2>4
<1>2. CASE SendDatagram
  BY <1>2 DEF SendDatagram, ArriveDatagram, QueueMoves
<1>3. CASE \/ \E p \in Procs : ProcStep(p) \/ UserOf(p)
           \/ TypeConsole \/ UNCHANGED vars
  BY <1>3 DEF ProcStep, UserOf, TypeConsole, TypeLine, vars, serverVars, QueueMoves
<1> QED
  BY <1>1, <1>2, <1>3 DEF Next, Finished

NumbersOf(c, floor) ==
  /\ Rising(Stream(c), floor)
  /\ \A j \in UdpAt(Stream(c)) : Behind(Stream(c)[j].n)

NumbersAfter(c, floor) ==
  /\ Rising(Stream(c)', floor)
  /\ \A j \in UdpAt(Stream(c)') : StillBehind((Stream(c)')[j].n)

Numbers(p) ==
  /\ Behind(last[p])
  /\ sock[p] # NoConn => NumbersOf(sock[p], last[p])

LEMMA NumbersParts == NumbersInv <=> QueueRises /\ \A p \in Procs : Numbers(p)
BY DEF NumbersInv, InOrderOnce, QueueRises, Numbers, NumbersOf, Rising

LEMMA NumbersFrom ==
  ASSUME NEW p \in Procs, NEW c, sock'[p] = c, StillBehind(last'[p]),
         NumbersAfter(c, last'[p])
  PROVE  Numbers(p)'
BY DEF Numbers, NumbersOf, NumbersAfter, StillBehind, Behind, Stream, Coming

LEMMA StreamNumbers ==
  ASSUME AppInv, AppInv', QueueRises, QueueMoves, NEW c \in Conns,
         NEW floor \in 0..MaxDatagrams, NumbersOf(c, floor),
         \/ Cut(c)
         \/ \E m \in DownMessages : m.command # MSG_FROM_UDP /\ Added(c, m)
         \/ /\ udpq # <<>> /\ udpq' = Tail(udpq) /\ Behind(floor)
            /\ \E topic : Added(c, Reply(MSG_FROM_UDP, topic, Head(udpq).n))
  PROVE  NumbersAfter(c, floor)
<1> DEFINE s == Stream(c)
           s1 == Stream(c)'
<1>1. /\ DOMAIN s \subseteq Nat
      /\ \A j \in UdpAt(s) : s[j].n \in 0..MaxDatagrams
  BY Streams DEF Shape, UdpAt, DownMessages
<1>2. /\ Rising(s, floor)
      /\ \A j \in UdpAt(s) : StillBehind(s[j].n)
  BY <1>1, QueueNext DEF NumbersOf
<1>3. CASE Cut(c)
  BY <1>2, <1>3, RisingKept DEF Cut, NumbersAfter
<1>4. ASSUME NEW m, m.command # MSG_FROM_UDP, Added(c, m)
      PROVE  NumbersAfter(c, floor)
  BY <1>1, <1>2, <1>4, RisingLonger DEF Added, NumbersAfter
<1>5. ASSUME NEW topic, Added(c, Reply(MSG_FROM_UDP, topic, Head(udpq).n)),
             udpq # <<>>, udpq' = Tail(udpq), Behind(floor)
      PROVE  NumbersAfter(c, floor)
  <2> DEFINE m == Reply(MSG_FROM_UDP, topic, Head(udpq).n)
  <2>1. m.n = Head(udpq).n
    BY DEF Reply
  <2>2. floor < m.n /\ \A j \in UdpAt(s) : s[j].n < m.n
    BY <1>1, <1>5, <2>1, QueueNext DEF NumbersOf
  <2>3. StillBehind(m.n)
    BY <1>5, <2>1, QueueNext
  <2>4. Longer(s1, s, m)
    BY <1>5 DEF Added
  <2> HIDE DEF m, s, s1
  <2>5. /\ Rising(s1, floor)
        /\ \A j \in UdpAt(s1) : s1[j].n = m.n \/ \E k \in UdpAt(s) : s1[j].n = s[k].n
    BY <1>1, <1>2, <2>2, <2>4, RisingLonger
  <2>6. \A j \in UdpAt(s1) : StillBehind(s1[j].n)
    BY <1>2, <2>3, <2>5
  <2> QED
    BY <2>5, <2>6 DEF NumbersAfter, s1
<1> QED
  BY <1>3, <1>4, <1>5

LEMMA ServerStream ==
  ASSUME AppInv, AppInv', SessionInv, ServerNext, NEW c \in Conns,
         conn[c].owner \in Procs, conn[c].upEnd = "open"
  PROVE  \/ Cut(c)
         \/ \E m \in DownMessages : m.command # MSG_FROM_UDP /\ Added(c, m)
         \/ /\ udpq # <<>> /\ udpq' = Tail(udpq)
            /\ \E topic : Added(c, Reply(MSG_FROM_UDP, topic, Head(udpq).n))
<1>1. Kept(c) => Cut(c)
  BY DEF Kept, Cut, KeepsEnd
<1>2. CASE Quiet(c)
  BY <1>1, <1>2, QuietStream
<1>3. CASE Closed(c)
  BY <1>3, ClosedStream
<1>4. CASE Answered(c)
  <2>1. PICK fd, m : /\ outbox' = <<[fd |-> fd, msg |-> m]>>
                     /\ m.command # MSG_FROM_UDP /\ Added(c, m)
    BY <1>4, AnsweredStream
  <2>2. m \in DownMessages
    <3>1. outbox' \in Seq(Sends) /\ outbox'[1] = [fd |-> fd, msg |-> m] /\ Len(outbox') = 1
      BY <2>1, StreamsNext
    <3>2. 1 \in 1..Len(outbox')
      BY <3>1
    <3>3. [fd |-> fd, msg |-> m] \in Sends
      BY <3>1, <3>2, ElementOfSeq
    <3> QED
      BY <3>3 DEF Sends
  <2> QED
    BY <2>1, <2>2
<1>5. CASE SendNext
  BY <1>1, <1>5, SentStream
<1>6. CASE ManageUdpMessage
  <2>1. Forwarding(c)
    BY <1>6, ForwardMoves
  <2> QED
    BY <1>1, <2>1, ForwardStream DEF Forwarding
<1> QED
  BY <1>2, <1>3, <1>4, <1>5, <1>6, ServerMoves

LEMMA SameStream ==
  ASSUME AppInv, AppInv', NEW c \in Conns, conn'[c].down = conn[c].down,
         UNCHANGED <<outbox, fdtab>>
  PROVE  Kept(c)
<1>1. /\ Shape(Stream(c), conn[c].down, outbox, Coming(c))
      /\ Shape(Stream(c)', conn[c].down, outbox, Coming(c))
  <2>1. Coming(c)' = Coming(c)
    BY DEF Coming
  <2> QED
    BY <2>1, Streams, StreamsNext
<1> QED
  BY <1>1, SameEnd DEF Shape, Kept

LEMMA TakenStream ==
  ASSUME AppInv, AppInv', NEW p \in Procs, ~ At(p, "off"), Incoming(p), Take(p),
         UNCHANGED <<outbox, fdtab>>, NEW c, c = sock[p]
  PROVE  /\ 1 \in DOMAIN Stream(c) /\ Stream(c)[1] = FirstIn(p)
         /\ \E f : /\ KeepsEnd(f, Stream(c)', Stream(c))
                   /\ \A j \in DOMAIN Stream(c)' : 1 < f[j]
<1>1. c \in Conns /\ conn[c].down # <<>>
  BY RunningSocket DEF AppInv, Incoming
<1>2. conn'[c].down = Tail(conn[c].down)
  BY <1>1 DEF Take, AppInv, ConnectionInv, MessageTypes, Connections
<1>3. Coming(c)' = Coming(c)
  BY DEF Coming
<1>4. /\ Shape(Stream(c), conn[c].down, outbox, Coming(c))
      /\ Shape(Stream(c)', Tail(conn[c].down), outbox, Coming(c))
      /\ conn[c].down \in Seq(DownMessages)
  BY <1>1, <1>2, <1>3, Streams, StreamsNext
<1> QED
  BY <1>1, <1>4, FirstTaken DEF FirstIn

(* A subscriber reads its stream, or leaves it as it is.                   *)
LEMMA NumbersAsBefore ==
  ASSUME AppInv, AppInv', QueueRises, QueueMoves, NEW p \in Procs, Numbers(p),
         ~ At(p, "off"), sock'[p] = sock[p], last'[p] = last[p],
         conn'[sock[p]].down = conn[sock[p]].down, UNCHANGED <<outbox, fdtab>>
  PROVE  Numbers(p)'
<1>1. PICK c \in Conns : c = sock[p]
  BY RunningSocket DEF AppInv
<1>2. c # NoConn
  BY SocketsAssumption DEF SocketsAssumption
<1>3. last[p] \in 0..MaxDatagrams
  BY DEF AppInv, ConnectionInv, ProcTypes
<1>4. Cut(c)
  BY <1>1, SameStream DEF Kept, Cut, KeepsEnd
<1>5. NumbersOf(c, last[p]) /\ Behind(last[p])
  BY <1>1, <1>2 DEF Numbers
<1>6. NumbersAfter(c, last[p]) /\ StillBehind(last[p])
  BY <1>3, <1>4, <1>5, StreamNumbers, QueueNext
<1> QED
  BY <1>1, <1>6, NumbersFrom

LEMMA NumbersTaken ==
  ASSUME AppInv, AppInv', QueueRises, QueueMoves, NEW p \in Procs, Numbers(p),
         ~ At(p, "off"), Incoming(p), Take(p), sock'[p] = sock[p],
         last'[p] = last[p] \/ last'[p] = IF FirstIn(p).command = MSG_FROM_UDP
                                          THEN FirstIn(p).n ELSE last[p],
         UNCHANGED <<outbox, fdtab>>
  PROVE  Numbers(p)'
<1>1. PICK c \in Conns : c = sock[p]
  BY RunningSocket DEF AppInv
<1>2. c # NoConn
  BY SocketsAssumption DEF SocketsAssumption
<1>3. last[p] \in 0..MaxDatagrams
  BY DEF AppInv, ConnectionInv, ProcTypes
<1> DEFINE s == Stream(c)
           s1 == Stream(c)'
<1>4. PICK f : KeepsEnd(f, s1, s) /\ \A j \in DOMAIN s1 : 1 < f[j]
  BY <1>1, TakenStream
<1>5. NumbersOf(c, last[p]) /\ Behind(last[p])
  BY <1>1, <1>2 DEF Numbers
<1>6. NumbersAfter(c, last[p]) /\ StillBehind(last[p])
  <2>1. Cut(c)
    BY <1>4 DEF Cut, KeepsEnd
  <2> QED
    BY <1>3, <1>5, <2>1, StreamNumbers, QueueNext
<1>7. CASE last'[p] = last[p]
  BY <1>1, <1>6, <1>7, NumbersFrom
<1>8. CASE FirstIn(p).command = MSG_FROM_UDP /\ last'[p] = FirstIn(p).n
  <2>1. 1 \in UdpAt(s) /\ s[1].n = last'[p] /\ s[1].n \in 0..MaxDatagrams
    <3>1. 1 \in DOMAIN s /\ s[1] = FirstIn(p)
      BY <1>1, TakenStream
    <3>2. s[1] \in DownMessages
      BY <3>1, Streams DEF Shape
    <3> QED
      BY <1>8, <3>1, <3>2 DEF UdpAt, DownMessages
  <2>2. Rising(s1, last'[p])
    <3>1. \A j \in UdpAt(s1) : f[j] \in UdpAt(s) /\ s1[j] = s[f[j]] /\ 1 < f[j]
      BY <1>4 DEF KeepsEnd, Keeps, UdpAt
    <3>2. \A j \in UdpAt(s1) : last'[p] < s1[j].n
      BY <1>5, <2>1, <3>1 DEF NumbersOf, Rising
    <3>3. Rising(s1, last[p])
      BY <1>6 DEF NumbersAfter
    <3> QED
      BY <3>2, <3>3 DEF Rising
  <2>3. StillBehind(last'[p])
    BY <1>5, <2>1, QueueNext DEF NumbersOf
  <2>4. NumbersAfter(c, last'[p])
    BY <1>6, <2>2 DEF NumbersAfter
  <2> QED
    BY <1>1, <2>3, <2>4, NumbersFrom
<1> QED
  BY <1>7, <1>8

(* A connection that does not exist has nothing on it and nothing coming.  *)
LEMMA FreeStream ==
  ASSUME AppInv, AppInv', SessionInv, NEW p \in Procs, Prepare(p, Running),
         UNCHANGED serverVars
  PROVE  \E c \in Conns : sock'[p] = c /\ UdpAt(Stream(c)') = {}
<1>1. PICK c \in Conns : /\ conn[c] = FreeConn /\ conn' = [conn EXCEPT ![c].owner = p]
                         /\ sock' = [sock EXCEPT ![p] = c]
  BY DEF Prepare
<1>2. sock'[p] = c /\ conn'[c].down = <<>>
  <2>1. conn'[c] = [FreeConn EXCEPT !.owner = p]
    BY <1>1 DEF AppInv, ConnectionInv, MessageTypes
  <2>2. conn'[c].down = <<>>
    BY <2>1 DEF FreeConn
  <2> QED
    BY <1>1, <2>2 DEF AppInv, ConnectionInv, ProcTypes
<1>3. Coming(c)' = {}
  <2>1. \A k \in DOMAIN outbox : outbox[k].fd \in ClientFds
    BY DEF SessionInv, OutboxInv
  <2>2. \A fd \in ClientFds : HeldByServer(conn[fdtab[fd]])
    BY Recorded, SocketsAssumption
       DEF AppInv, ConnectionInv, Descriptors, SocketsAssumption
  <2>3. \A fd \in ClientFds : fdtab[fd] # c
    BY <1>1, <2>2, FreeConnFacts
  <2>4. outbox' = outbox /\ fdtab' = fdtab
    BY DEF serverVars, Prepare
  <2> QED
    BY <2>1, <2>3, <2>4 DEF Coming
<1>4. Shape(Stream(c)', <<>>, outbox', {})
  BY <1>2, <1>3, StreamsNext
<1>5. DOMAIN Stream(c)' = {}
  BY <1>4 DEF Shape
<1> QED
  BY <1>2, <1>5 DEF UdpAt

LEMMA OwnNumbers ==
  ASSUME AppInv, AppInv', SessionInv, QueueRises, QueueMoves,
         NEW p \in Procs, Numbers(p), OwnSteps(p), UNCHANGED <<serverVars, arrived>>
  PROVE  Numbers(p)'
<1>1. /\ ProcTypes /\ conn \in [Conns -> Connections] /\ outbox' = outbox
      /\ last[p] \in 0..MaxDatagrams
  BY DEF AppInv, ConnectionInv, MessageTypes, ProcTypes, serverVars
<1>2. StillBehind(last[p])
  BY <1>1, QueueNext DEF Numbers
<1>3. CASE ~ At(p, "off") /\ End(p)
  <2>1. sock'[p] = NoConn /\ last' = last
    BY <1>1, <1>3 DEF End, ProcTypes
  <2> QED
    BY <1>2, <2>1 DEF Numbers, StillBehind, Behind
<1>4. CASE Prepare(p, Running)
  <2>1. PICK c \in Conns : sock'[p] = c /\ UdpAt(Stream(c)') = {}
    BY <1>4, FreeStream
  <2>2. last' = last
    BY <1>4 DEF Prepare
  <2>3. NumbersAfter(c, last[p])
    BY <2>1 DEF NumbersAfter, Rising
  <2> QED
    BY <1>2, <2>1, <2>2, <2>3, NumbersFrom
<1>5. CASE \/ SendId(p) \/ SendRequest(p)
           \/ \E command \in {SUBSCRIBE_REQ, UNSUBSCRIBE_REQ}, topic \in SubTopics :
                TypeRequest(p, command, topic)
  <2>1. ~ At(p, "off") /\ UNCHANGED <<sock, last, fdtab>>
    BY <1>5 DEF SendId, SendRequest, TypeRequest, At, socketVars
  <2>2. sock[p] \in Conns
    BY <2>1, RunningSocket DEF AppInv
  <2>3. conn'[sock[p]].down = conn[sock[p]].down
    <3>1. CASE \E m : conn' = AfterSendUp(sock[p], m)
      BY <1>1, <2>2, <3>1 DEF AfterSendUp, Connections
    <3> QED
      BY <1>5, <3>1 DEF SendId, SendRequest, TypeRequest, socketVars
  <2> QED
    BY <1>1, <2>1, <2>3, NumbersAsBefore
<1>6. CASE Accepted(p) \/ RecvAnswer(p) \/ RecvTcp(p)
  <2>1. ~ At(p, "off") /\ UNCHANGED <<sock, fdtab>>
    BY <1>6 DEF Accepted, RecvAnswer, RecvTcp, At
  <2>2. last'[p] = last[p] \/ last'[p] = IF FirstIn(p).command = MSG_FROM_UDP
                                        THEN FirstIn(p).n ELSE last[p]
    BY <1>1, <1>6 DEF Accepted, RecvAnswer, RecvTcp, ProcTypes
  <2>3. CASE Incoming(p) /\ Take(p)
    BY <1>1, <2>1, <2>2, <2>3, NumbersTaken
  <2>4. CASE ~ (Incoming(p) /\ Take(p))
    <3>1. UNCHANGED <<conn, last>>
      BY <1>6, <2>4 DEF Accepted, RecvAnswer, RecvTcp
    <3> QED
      BY <1>1, <2>1, <3>1, NumbersAsBefore
  <2> QED
    BY <2>3, <2>4
<1> QED
  BY <1>3, <1>4, <1>5, <1>6 DEF OwnSteps

LEMMA NumbersNext ==
  ASSUME AppInv, AppInv', SessionInv, NumbersInv, [Next]_vars
  PROVE  NumbersInv'
<1>1. QueueRises /\ QueueMoves /\ \A p \in Procs : Numbers(p)
  BY QueueOnlyMoves, NumbersParts
<1>2. QueueRises'
  BY <1>1, QueueNext
<1>3. ASSUME NEW p \in Procs
      PROVE  Numbers(p)'
  <2>0. last[p] \in 0..MaxDatagrams /\ (At(p, "off") <=> sock[p] = NoConn)
    BY DEF AppInv, ConnectionInv, ProcTypes, Sessions
  <2>1. StillBehind(last[p])
    BY <1>1, <2>0, QueueNext DEF Numbers
  <2>2. ASSUME At(p, "off"), sock'[p] = sock[p], last'[p] = last[p]
        PROVE  Numbers(p)'
    BY <2>0, <2>1, <2>2 DEF Numbers, StillBehind, Behind
  <2>3. CASE ServerStep
    <3>1. ServerNext /\ sock' = sock /\ last' = last
      BY <2>3 DEF ServerStep, subscriberVars
    <3>2. CASE ~ At(p, "off")
      <4>1. PICK c \in Conns : c = sock[p]
        BY <3>2, RunningSocket DEF AppInv
      <4>2. c # NoConn /\ conn[c].owner \in Procs /\ conn[c].upEnd = "open"
        BY <3>2, <4>1, RunningSocket, SocketsAssumption DEF AppInv, SocketsAssumption
      <4>3. NumbersOf(c, last[p]) /\ Behind(last[p])
        BY <1>1, <4>1, <4>2 DEF Numbers
      <4>4. NumbersAfter(c, last[p])
        BY <1>1, <2>0, <3>1, <4>2, <4>3, ServerStream, StreamNumbers
      <4> QED
        BY <2>1, <3>1, <4>1, <4>4, NumbersFrom
    <3> QED
      BY <2>2, <3>1, <3>2
  <2>4. ASSUME NEW q \in Procs, ProcStep(q) \/ UserOf(q)
        PROVE  Numbers(p)'
    <3>1. OwnSteps(q) /\ UNCHANGED <<serverVars, arrived>>
      BY <2>4, OwnCases
    <3>2. CASE q = p
      BY <1>1, <3>1, <3>2, OwnNumbers
    <3>3. CASE q # p
      <4>1. Apart(p)
        BY <2>4, <3>3, OthersApart
      <4>2. UNCHANGED <<outbox, fdtab>>
        BY <2>4, Untouched DEF RegistryUntouched
      <4> QED
        BY <1>1, <2>2, <4>1, <4>2, NumbersAsBefore DEF Apart
    <3> QED
      BY <3>2, <3>3
  <2>5. CASE TypeConsole \/ SendDatagram \/ UNCHANGED vars
    <3>1. UNCHANGED <<conn, fdtab, outbox, sock, last>>
      BY <2>5, Untouched
         DEF TypeConsole, SendDatagram, vars, socketVars, subscriberVars, RegistryUntouched
    <3> QED
      BY <1>1, <2>2, <3>1, NumbersAsBefore
  <2> QED
    BY <2>3, <2>4, <2>5 DEF Next, Finished
<1>4. NumbersInv' <=> QueueRises' /\ \A p \in Procs : Numbers(p)'
  BY DEF NumbersInv, InOrderOnce, QueueRises, Numbers, NumbersOf, Rising
<1> QED
  BY <1>2, <1>3, <1>4

LEMMA NumbersInitially == Init => NumbersInv
<1> SUFFICES ASSUME Init
             PROVE  NumbersInv
  OBVIOUS
<1>1. udpq = <<>> /\ arrived = 0
  BY DEF Init, ServerInit
<1>2. \A p \in Procs : sock[p] = NoConn /\ last[p] = 0
  BY DEF Init, SubscriberInit
<1> QED
  BY <1>1, <1>2, NumbersParts DEF QueueRises, Numbers, Behind

THEOREM NumbersInvariant == Spec => []NumbersInv
<1>1. AppInv /\ AppInv' /\ SessionInv /\ NumbersInv /\ [Next]_vars => NumbersInv'
  BY NumbersNext
<1> QED
  BY <1>1, NumbersInitially, AppInvariant, SessionInvariant, PTL DEF Spec

(* A subscriber gets every datagram at most once and in order, and prints  *)
(* no datagram that came before the one it printed last.                   *)
THEOREM DatagramsInOrder == Spec => []InOrderOnce
<1>1. NumbersInv => InOrderOnce
  BY DEF NumbersInv
<1> QED
  BY <1>1, NumbersInvariant, PTL

-----------------------------------------------------------------------------
(* What a stream tells about a position is not changed by what is read     *)
(* before it.                                                              *)
LEMMA StoryKept ==
  ASSUME NEW s, NEW s1, NEW f, KeepsEnd(f, s1, s),
         DOMAIN s \subseteq Nat, DOMAIN s1 \subseteq Nat,
         NEW now, OneStory(s, now)
  PROVE  OneStory(s1, now)
<1>1. /\ \A j \in DOMAIN s1 : j \in Nat /\ f[j] \in DOMAIN s /\ f[j] \in Nat /\ s1[j] = s[f[j]]
      /\ \A i, j \in DOMAIN s1 : i < j => f[i] < f[j]
      /\ \A i \in DOMAIN s1 : \A k \in DOMAIN s : f[i] < k => \E j \in DOMAIN s1 : f[j] = k
  BY DEF KeepsEnd, Keeps
<1>2. \A i, j \in DOMAIN s1 :
        (i < j <=> f[i] < f[j]) /\ (i <= j <=> f[i] <= f[j])
  <2> SUFFICES ASSUME NEW i \in DOMAIN s1, NEW j \in DOMAIN s1
               PROVE  (i < j <=> f[i] < f[j]) /\ (i <= j <=> f[i] <= f[j])
    OBVIOUS
  <2>1. i \in Nat /\ j \in Nat /\ f[i] \in Nat /\ f[j] \in Nat
    BY <1>1
  <2>2. i < j \/ j < i \/ i = j
    BY <2>1
  <2> QED
    BY <1>1, <2>1, <2>2
<1>3. ASSUME NEW j \in DOMAIN s1, NEW t
      PROVE  /\ \A k \in Later(s1, j, t) : f[k] \in Later(s, f[j], t) /\ k \in DOMAIN s1
             /\ \A k \in Later(s, f[j], t) : \E i \in Later(s1, j, t) : f[i] = k
  <2>1. \A k \in Later(s1, j, t) : f[k] \in Later(s, f[j], t) /\ k \in DOMAIN s1
    BY <1>1 DEF Later
  <2>2. ASSUME NEW k \in Later(s, f[j], t)
        PROVE  \E i \in Later(s1, j, t) : f[i] = k
    <3>1. k \in DOMAIN s /\ f[j] < k /\ About(s[k], t)
      BY <1>1 DEF Later
    <3>2. PICK i \in DOMAIN s1 : f[i] = k
      BY <1>1, <3>1
    <3>3. i > j
      BY <1>1, <1>2, <3>1, <3>2
    <3> QED
      BY <1>1, <3>1, <3>2, <3>3 DEF Later
  <2> QED
    BY <2>1, <2>2
<1>4. ASSUME NEW j \in DOMAIN s1, NEW t
      PROVE  HeldAt(s1, j, t, now) <=> HeldAt(s, f[j], t, now)
  <2>1. Later(s1, j, t) = {} <=> Later(s, f[j], t) = {}
    BY <1>3
  <2>2. ASSUME NEW k \in Later(s1, j, t), HeldBefore(s1[k]), \A i \in Later(s1, j, t) : k <= i
        PROVE  HeldAt(s, f[j], t, now)
    <3>1. f[k] \in Later(s, f[j], t) /\ HeldBefore(s[f[k]])
      BY <1>1, <1>3, <2>2
    <3>2. ASSUME NEW i \in Later(s, f[j], t) PROVE f[k] <= i
      <4>1. PICK h \in Later(s1, j, t) : f[h] = i
        BY <1>3
      <4>2. h \in DOMAIN s1 /\ k \in DOMAIN s1 /\ k <= h
        BY <1>3, <2>2
      <4> QED
        BY <1>2, <4>1, <4>2
    <3> QED
      BY <3>1, <3>2 DEF HeldAt
  <2>3. ASSUME NEW k \in Later(s, f[j], t), HeldBefore(s[k]),
               \A i \in Later(s, f[j], t) : k <= i
        PROVE  HeldAt(s1, j, t, now)
    <3>1. PICK h \in Later(s1, j, t) : f[h] = k
      BY <1>3
    <3>2. h \in DOMAIN s1 /\ HeldBefore(s1[h])
      BY <1>1, <1>3, <2>3, <3>1
    <3>3. ASSUME NEW i \in Later(s1, j, t) PROVE h <= i
      <4>1. i \in DOMAIN s1 /\ f[h] <= f[i]
        BY <1>3, <2>3, <3>1
      <4> QED
        BY <1>2, <3>2, <4>1
    <3> QED
      BY <3>1, <3>2, <3>3 DEF HeldAt
  <2> QED
    BY <2>1, <2>2, <2>3 DEF HeldAt
<1>5. ASSUME NEW j \in DOMAIN s1
      PROVE  {t \in Patterns : HeldAt(s1, j, t, now)} = {t \in Patterns : HeldAt(s, f[j], t, now)}
  BY <1>4
<1> QED
  BY <1>1, <1>4, <1>5 DEF OneStory

(* What is added at its end is told from there on.                         *)
LEMMA HeldAtEnd ==
  ASSUME NEW s, NEW s1, NEW x \in Nat, NEW m,
         DOMAIN s1 = DOMAIN s \cup {x}, s1[x] = m,
         \A j \in DOMAIN s : j < x /\ s1[j] = s[j],
         DOMAIN s \subseteq Nat, NEW t
  PROVE  /\ \A now : HeldAt(s1, x, t, now) <=> t \in now
         /\ \A j \in DOMAIN s : \A now, now1 :
              \/ ~ About(m, t) /\ (t \in now1 <=> t \in now)
              \/ About(m, t) /\ (HeldBefore(m) <=> t \in now)
              => (HeldAt(s1, j, t, now1) <=> HeldAt(s, j, t, now))
<1>1. Later(s1, x, t) = {}
  BY DEF Later
<1>2. ASSUME NEW j \in DOMAIN s
      PROVE  Later(s1, j, t) = IF About(m, t) THEN Later(s, j, t) \cup {x} ELSE Later(s, j, t)
  BY <1>2 DEF Later
<1>3. \A j \in DOMAIN s : \A k \in Later(s, j, t) : k < x /\ s1[k] = s[k] /\ k \in Nat
  BY DEF Later
<1>4. ASSUME NEW j \in DOMAIN s, NEW now, NEW now1, ~ About(m, t), t \in now1 <=> t \in now
      PROVE  HeldAt(s1, j, t, now1) <=> HeldAt(s, j, t, now)
  <2>1. Later(s1, j, t) = Later(s, j, t)
    BY <1>2, <1>4
  <2> QED
    BY <1>3, <1>4, <2>1 DEF HeldAt
<1>5. ASSUME NEW j \in DOMAIN s, NEW now, NEW now1, About(m, t), HeldBefore(m) <=> t \in now
      PROVE  HeldAt(s1, j, t, now1) <=> HeldAt(s, j, t, now)
  <2>1. Later(s1, j, t) = Later(s, j, t) \cup {x}
    BY <1>2, <1>5
  <2>2. CASE Later(s, j, t) = {}
    <3>1. HeldAt(s1, j, t, now1) <=> HeldBefore(m)
      <4>1. Later(s1, j, t) = {x}
        BY <2>1, <2>2
      <4> QED
        BY <4>1 DEF HeldAt
    <3>2. HeldAt(s, j, t, now) <=> t \in now
      BY <2>2 DEF HeldAt
    <3> QED
      BY <1>5, <3>1, <3>2
  <2>3. CASE Later(s, j, t) # {}
    <3>1. PICK l \in Later(s, j, t) : TRUE
      BY <2>3
    <3>2. \A k \in Later(s1, j, t) :
            (\A i \in Later(s1, j, t) : k <= i)
              <=> k \in Later(s, j, t) /\ \A i \in Later(s, j, t) : k <= i
      <4>1. ~ (x <= l)
        BY <1>3, <3>1
      <4>2. \A k \in Later(s, j, t) : k <= x
        BY <1>3
      <4> QED
        BY <2>1, <3>1, <4>1, <4>2
    <3> QED
      BY <1>3, <2>1, <2>3, <3>2 DEF HeldAt
  <2> QED
    BY <2>2, <2>3
<1>6. \A now : HeldAt(s1, x, t, now) <=> t \in now
  BY <1>1 DEF HeldAt
<1> QED
  BY <1>4, <1>5, <1>6

LEMMA StoryLonger ==
  ASSUME NEW s, NEW s1, NEW m, Longer(s1, s, m), DOMAIN s \subseteq Nat,
         NEW now, NEW now1, now1 \subseteq Patterns, OneStory(s, now),
         \A t :
           \/ ~ About(m, t) /\ (t \in now1 <=> t \in now)
           \/ About(m, t) /\ (HeldBefore(m) <=> t \in now),
         m.command \in Answers => (HeldAfter(m) <=> m.topic \in now1),
         m.command = MSG_FROM_UDP => IsSubscribed(now1, m.topic)
  PROVE  OneStory(s1, now1)
<1>1. PICK x \in Nat : /\ DOMAIN s1 = DOMAIN s \cup {x} /\ s1[x] = m
                       /\ \A j \in DOMAIN s : j < x /\ s1[j] = s[j]
  BY DEF Longer
<1>2. ASSUME NEW t
      PROVE  /\ HeldAt(s1, x, t, now1) <=> t \in now1
             /\ \A j \in DOMAIN s : HeldAt(s1, j, t, now1) <=> HeldAt(s, j, t, now)
  BY <1>1, HeldAtEnd
<1>3. {t \in Patterns : HeldAt(s1, x, t, now1)} = now1
  BY <1>2
<1>4. \A j \in DOMAIN s :
        {t \in Patterns : HeldAt(s1, j, t, now1)} = {t \in Patterns : HeldAt(s, j, t, now)}
  BY <1>2
<1>5. ASSUME NEW j \in DOMAIN s
      PROVE  /\ s1[j].command \in Answers => (HeldAfter(s1[j]) <=> HeldAt(s1, j, s1[j].topic, now1))
             /\ s1[j].command = MSG_FROM_UDP =>
                  IsSubscribed({t \in Patterns : HeldAt(s1, j, t, now1)}, s1[j].topic)
  BY <1>1, <1>2, <1>4 DEF OneStory
<1>6. /\ m.command \in Answers => (HeldAfter(m) <=> HeldAt(s1, x, m.topic, now1))
      /\ m.command = MSG_FROM_UDP =>
           IsSubscribed({t \in Patterns : HeldAt(s1, x, t, now1)}, m.topic)
  BY <1>2, <1>3
<1> QED
  BY <1>1, <1>5, <1>6 DEF OneStory

(* The answer to a request tells what was held before it, and what is held *)
(* after it.                                                               *)
LEMMA AnswerTells ==
  ASSUME NEW topics, NEW command \in {SUBSCRIBE_REQ, UNSUBSCRIBE_REQ}, NEW topic,
         NEW m, m = Reply(AnswerTo(command, topic \in topics), topic, 0),
         NEW after, after = TopicsAfter(topics, command, topic)
  PROVE  /\ m.command \in Answers /\ m.topic = topic /\ m.command # MSG_FROM_UDP
         /\ HeldBefore(m) <=> topic \in topics
         /\ HeldAfter(m) <=> topic \in after
         /\ \A t : t # topic => (t \in after <=> t \in topics)
BY DEF Reply, AnswerTo, TopicsAfter, HeldBefore, HeldAfter, Answers, SUBSCRIBE_REQ,
       UNSUBSCRIBE_REQ, SUBSCRIBE_SUCC, SUBSCRIBE_FAIL, UNSUBSCRIBE_SUCC,
       UNSUBSCRIBE_FAIL, MSG_FROM_UDP

-----------------------------------------------------------------------------
(* The story of a client over the server's steps.                          *)
StoryAfter(c, topics) == conn'[c].upEnd = "open" => OneStory(Stream(c)', topics)

Story(id) ==
  is_connected[id] =>
    LET c == fdtab[curr_fd[id]]
    IN  conn[c].upEnd = "open" => OneStory(Stream(c), subscribed_topics[id])

(* A connection that is accepted and not registered has nothing on it.     *)
Fresh(c) == HeldByServer(conn[c]) /\ ~ Registered(c) => conn[c].down = <<>>

LEMMA StoryParts ==
  AppInv => (StoryInv <=> (\A id \in Ids : Story(id)) /\ (\A c \in Conns : Fresh(c)))
BY DEF StoryInv, StreamMatchesSubscriptions, Story, Fresh, Connected, AppInv, RegistryInv,
       RegistryTypes

LEMMA StoryPartsNext ==
  AppInv' => (StoryInv' <=> (\A id \in Ids : Story(id)') /\ (\A c \in Conns : Fresh(c)'))
<1>1. ((\A id \in Ids : Story(id)) /\ (\A c \in Conns : Fresh(c)))' <=>
      (\A id \in Ids : Story(id)') /\ (\A c \in Conns : Fresh(c)')
  OBVIOUS
<1> QED
  BY <1>1, StoryParts, PTL

LEMMA StoryTo ==
  ASSUME NEW id, NEW c, c = fdtab'[curr_fd'[id]], StoryAfter(c, subscribed_topics'[id])
  PROVE  Story(id)'
BY DEF Story, StoryAfter, Stream, Coming

SameSession(id, c) ==
  /\ is_connected[id]
  /\ c = fdtab[curr_fd[id]] /\ c = fdtab'[curr_fd'[id]]

LEMMA StoryStays ==
  ASSUME AppInv, AppInv', NEW id \in Ids, NEW c \in Conns, SameSession(id, c), Story(id),
         subscribed_topics'[id] = subscribed_topics[id],
         conn'[c].upEnd = "open" => conn[c].upEnd = "open" /\ Kept(c)
  PROVE  Story(id)'
<1>1. ASSUME conn'[c].upEnd = "open"
      PROVE  OneStory(Stream(c)', subscribed_topics[id])
  <2>1. OneStory(Stream(c), subscribed_topics[id])
    BY <1>1 DEF Story, SameSession
  <2>2. DOMAIN Stream(c) \subseteq Nat /\ DOMAIN Stream(c)' \subseteq Nat
    BY Streams, StreamsNext DEF Shape
  <2> QED
    BY <1>1, <2>1, <2>2, StoryKept DEF Kept
<1>2. StoryAfter(c, subscribed_topics'[id])
  BY <1>1 DEF StoryAfter
<1> QED
  BY <1>2, StoryTo DEF SameSession

LEMMA StoryQuiet ==
  ASSUME AppInv, AppInv', NEW id \in Ids, NEW c \in Conns, SameSession(id, c), Story(id),
         subscribed_topics'[id] = subscribed_topics[id], Quiet(c)
  PROVE  Story(id)'
BY StoryStays, QuietStream DEF Quiet

LEMMA StoryAdmitted ==
  ASSUME AppInv, AppInv', SessionInv, NEW id \in Ids, IdArrived(id), AdmitClient(id),
         Fresh(fdtab[newfd])
  PROVE  Story(id)'
<1> DEFINE accepted == Reply(CONNECT_ACCEPTED, <<>>, 0)
<1>1. newfd # NoFd
  BY DEF IdArrived, AppInv, RegistryInv
<1>2. PICK c \in Conns : c = fdtab[newfd]
  BY <1>1, Recorded
<1>3. /\ conn[c].up # <<>> /\ conn[c].down = <<>>
  BY <1>1, <1>2, ArrivedId, Recorded DEF Fresh
<1>4. /\ conn' = Received(c) /\ fdtab' = fdtab /\ outbox = <<>>
      /\ outbox' = <<[fd |-> newfd, msg |-> accepted]>>
      /\ curr_fd' = [curr_fd EXCEPT ![id] = newfd]
  BY <1>2 DEF AdmitClient, IdArrived
<1>5. conn'[c].down = <<>>
  BY <1>3, <1>4, ReceivedFacts DEF AppInv, ConnectionInv, MessageTypes
<1>6. Coming(c)' = {1} /\ outbox'[1].msg = accepted
  BY <1>2, <1>4, NoneComing
<1>7. Shape(Stream(c)', <<>>, outbox', {1})
  BY <1>5, <1>6, StreamsNext
<1>8. \A j \in DOMAIN Stream(c)' : (Stream(c)')[j] = accepted
  <2>1. DOMAIN Stream(c)' = {1} /\ (Stream(c)')[1] = outbox'[1].msg
    BY <1>7 DEF Shape
  <2> QED
    BY <1>6, <2>1
<1>9. accepted.command \notin Answers /\ accepted.command # MSG_FROM_UDP
  BY DEF Reply, CONNECT_ACCEPTED, Answers, MSG_FROM_UDP, SUBSCRIBE_SUCC, SUBSCRIBE_FAIL,
         UNSUBSCRIBE_SUCC, UNSUBSCRIBE_FAIL
<1>10. StoryAfter(c, subscribed_topics'[id])
  BY <1>8, <1>9 DEF StoryAfter, OneStory
<1>11. c = fdtab'[curr_fd'[id]]
  BY <1>2, <1>4 DEF AppInv, RegistryInv, RegistryTypes
<1> QED
  BY <1>10, <1>11, StoryTo

LEMMA StoryAnswered ==
  ASSUME AppInv, AppInv', SessionInv, NEW i \in DOMAIN poll_fds, NEW id \in Ids,
         ManageSubscribeUnsubscribe(i, id), Story(id)
  PROVE  Story(id)'
<1> DEFINE fd == poll_fds[i]
<1>1. PICK c \in Conns : c = fdtab[fd]
  BY RequestTaken
<1> DEFINE req == Head(conn[c].up)
           m == Reply(AnswerTo(req.command, req.payload \in subscribed_topics[id]),
                      req.payload, 0)
<1>2. /\ conn' = Received(c) /\ conn[c].up # <<>>
      /\ is_connected[id] /\ curr_fd[id] = fd
      /\ req.payload \in Patterns /\ req.command # CONNECT_REQ
      /\ conn[c].owner \in Procs
  BY <1>1, RequestTaken DEF TakenFrom
<1>3. /\ fdtab' = fdtab /\ curr_fd' = curr_fd /\ outbox = <<>>
      /\ outbox' = <<[fd |-> fd, msg |-> m]>>
      /\ subscribed_topics' = [subscribed_topics EXCEPT
           ![id] = TopicsAfter(subscribed_topics[id], req.command, req.payload)]
  BY <1>1 DEF ManageSubscribeUnsubscribe, AtClient, AtLoop
<1>4. req.command \in {SUBSCRIBE_REQ, UNSUBSCRIBE_REQ}
  <2>1. conn[c].up \in Seq(UpMessages)
    BY DEF AppInv, ConnectionInv, MessageTypes, Connections
  <2>2. req \in UpMessages
    BY <1>2, <2>1, HeadTailProperties
  <2> QED
    BY <1>2, <2>2, RequestFacts
<1>5. /\ subscribed_topics \in [Ids -> SUBSET Patterns]
      /\ subscribed_topics'[id] = TopicsAfter(subscribed_topics[id], req.command, req.payload)
      /\ subscribed_topics'[id] \subseteq Patterns
  BY <1>3 DEF AppInv, ConnectionInv, MessageTypes
<1>6. conn'[c].upEnd = conn[c].upEnd
  BY <1>2, ReceivedFacts DEF AppInv, ConnectionInv, MessageTypes
<1> HIDE DEF fd, req
<1>7. /\ m.command \in Answers /\ m.topic = req.payload /\ m.command # MSG_FROM_UDP
      /\ HeldBefore(m) <=> req.payload \in subscribed_topics[id]
      /\ HeldAfter(m) <=> req.payload \in subscribed_topics'[id]
      /\ \A t : t # req.payload =>
           (t \in subscribed_topics'[id] <=> t \in subscribed_topics[id])
  <2>1. PICK answer : answer = m
    OBVIOUS
  <2>2. PICK topics : topics = subscribed_topics[id]
    OBVIOUS
  <2>3. PICK after : after = subscribed_topics'[id]
    OBVIOUS
  <2>4. PICK command \in {SUBSCRIBE_REQ, UNSUBSCRIBE_REQ} : command = req.command
    BY <1>4
  <2>5. PICK topic : topic = req.payload
    OBVIOUS
  <2>6. answer = Reply(AnswerTo(command, topic \in topics), topic, 0)
    BY <2>1, <2>2, <2>4, <2>5
  <2>7. after = TopicsAfter(topics, command, topic)
    BY <1>5, <2>2, <2>3, <2>4, <2>5
  <2> HIDE DEF m
  <2>8. /\ answer.command \in Answers /\ answer.topic = topic
        /\ answer.command # MSG_FROM_UDP
        /\ HeldBefore(answer) <=> topic \in topics
        /\ HeldAfter(answer) <=> topic \in after
        /\ \A t : t # topic => (t \in after <=> t \in topics)
    BY <2>6, <2>7, AnswerTells
  <2> QED
    BY <2>1, <2>2, <2>3, <2>5, <2>8
<1> HIDE DEF m
<1>8. Added(c, m)
  <2>1. Answered(c)
    BY <1>1, <1>2, <1>3, <1>7, AnswerMoves
  <2>2. Added(c, m)
    BY <1>3, <2>1, AnsweredStream
  <2> QED
    BY <2>2
<1>9. ASSUME conn'[c].upEnd = "open"
      PROVE  OneStory(Stream(c)', subscribed_topics'[id])
  <2>1. OneStory(Stream(c), subscribed_topics[id])
    BY <1>1, <1>2, <1>6, <1>9 DEF Story
  <2>2. DOMAIN Stream(c) \subseteq Nat
    BY Streams DEF Shape
  <2>3. \A t :
          \/ ~ About(m, t) /\ (t \in subscribed_topics'[id] <=> t \in subscribed_topics[id])
          \/ About(m, t) /\ (HeldBefore(m) <=> t \in subscribed_topics[id])
    BY <1>7 DEF About
  <2> QED
    BY <1>5, <1>7, <1>8, <2>1, <2>2, <2>3, StoryLonger DEF Added
<1>10. StoryAfter(c, subscribed_topics'[id])
  BY <1>9 DEF StoryAfter
<1> QED
  BY <1>1, <1>2, <1>3, <1>10, StoryTo

LEMMA StoryForwarded ==
  ASSUME AppInv, AppInv', SessionInv, NEW id \in Ids, NEW c \in Conns,
         SameSession(id, c), Story(id), subscribed_topics' = subscribed_topics,
         Forwarding(c)
  PROVE  Story(id)'
<1> DEFINE d == Head(udpq)
           m == Reply(MSG_FROM_UDP, d.topic, d.n)
<1>1. conn' = conn
  BY DEF Forwarding
<1>2. CASE Kept(c)
  BY <1>1, <1>2, StoryStays
<1>3. ASSUME Added(c, m), NEW other \in Recipients(d.topic), c = fdtab[curr_fd[other]]
      PROVE  Story(id)'
  <2>1. other = id
    <3>1. other \in Ids /\ is_connected[other]
      BY DEF Recipients, AppInv, RegistryInv, RegistryTypes
    <3> QED
      BY <1>3, <3>1, OneConnectionPerId DEF SameSession
  <2>2. IsSubscribed(subscribed_topics[id], d.topic)
    BY <2>1 DEF Recipients
  <2>3. m.command = MSG_FROM_UDP /\ m.command \notin Answers /\ m.topic = d.topic
    BY DEF Reply, MSG_FROM_UDP, Answers, SUBSCRIBE_SUCC, SUBSCRIBE_FAIL, UNSUBSCRIBE_SUCC,
           UNSUBSCRIBE_FAIL
  <2> HIDE DEF m
  <2>4. ASSUME conn'[c].upEnd = "open"
        PROVE  OneStory(Stream(c)', subscribed_topics[id])
    <3>1. OneStory(Stream(c), subscribed_topics[id])
      BY <1>1, <2>4 DEF Story, SameSession
    <3>2. DOMAIN Stream(c) \subseteq Nat
      BY Streams DEF Shape
    <3>3. subscribed_topics[id] \subseteq Patterns
      BY DEF AppInv, ConnectionInv, MessageTypes
    <3>4. \A t : ~ About(m, t)
      BY <2>3 DEF About
    <3> QED
      BY <1>3, <2>2, <2>3, <3>1, <3>2, <3>3, <3>4, StoryLonger DEF Added
  <2>5. StoryAfter(c, subscribed_topics'[id])
    BY <2>4 DEF StoryAfter
  <2> QED
    BY <2>5, StoryTo DEF SameSession
<1> QED
  BY <1>2, <1>3, ForwardStream

(* A step that is about somebody else's connection.                        *)
LEMMA StoryElsewhere ==
  ASSUME AppInv, AppInv', NEW id \in Ids, Story(id), is_connected'[id] => is_connected[id],
         is_connected[id] =>
           /\ curr_fd'[id] = curr_fd[id]
           /\ fdtab'[curr_fd[id]] = fdtab[curr_fd[id]]
           /\ subscribed_topics'[id] = subscribed_topics[id]
           /\ Quiet(fdtab[curr_fd[id]])
  PROVE  Story(id)'
<1>1. CASE ~ is_connected'[id]
  BY <1>1 DEF Story
<1>2. CASE is_connected[id]
  <2>1. PICK c \in Conns : c = fdtab[curr_fd[id]]
    BY <1>2, Recorded
  <2>2. SameSession(id, c)
    BY <1>2, <2>1 DEF SameSession
  <2> QED
    BY <1>2, <2>1, <2>2, StoryQuiet
<1> QED
  BY <1>1, <1>2

LEMMA StoryHalt ==
  ASSUME NEW how, Halt(how), NEW id \in Ids
  PROVE  Story(id)'
BY DEF Halt, Story

LEMMA StoryHandshake ==
  ASSUME AppInv, AppInv', SessionInv, NEW who \in Ids,
         RegisterClient(who) \/ ReconnectClient(who) \/ DenyClient(who),
         Fresh(fdtab[newfd]), NEW id \in Ids, Story(id)
  PROVE  Story(id)'
<1>1. /\ newfd # NoFd /\ newfd \in Fds /\ fdtab[newfd] \in Conns
      /\ conn[fdtab[newfd]].up # <<>> /\ outbox = <<>>
  BY ArrivedId DEF RegisterClient, ReconnectClient, DenyClient, IdArrived, AppInv,
                   RegistryInv
<1>2. is_connected[id] =>
        /\ curr_fd[id] \in Fds /\ curr_fd[id] # newfd
        /\ fdtab[curr_fd[id]] \in Conns /\ fdtab[curr_fd[id]] # fdtab[newfd]
  BY <1>1, Recorded
<1>3. /\ is_connected \in [Ids -> BOOLEAN] /\ curr_fd \in [Ids -> Fds \cup {NoFd}]
      /\ fdtab \in [Fds -> Conns \cup {NoConn}]
  BY DEF AppInv, RegistryInv, RegistryTypes
<1>4. CASE DenyClient(who)
  <2>1. /\ is_connected' = is_connected /\ curr_fd' = curr_fd
        /\ subscribed_topics' = subscribed_topics
        /\ fdtab' = [fdtab EXCEPT ![newfd] = NoConn]
    BY <1>4 DEF DenyClient, AfterClose, registryVars
  <2>2. is_connected[id] => /\ Quiet(fdtab[curr_fd[id]])
                            /\ fdtab'[curr_fd[id]] = fdtab[curr_fd[id]]
    BY <1>2, <1>3, <1>4, <2>1, DenyMoves
  <2> QED
    BY <2>1, <2>2, StoryElsewhere
<1>5. CASE RegisterClient(who) \/ ReconnectClient(who)
  <2>1. IdArrived(who) /\ AdmitClient(who)
    BY <1>5 DEF RegisterClient, ReconnectClient
  <2>2. CASE who = id
    BY <2>1, <2>2, StoryAdmitted
  <2>3. CASE who # id
    <3>1. /\ is_connected'[id] = is_connected[id] /\ curr_fd'[id] = curr_fd[id]
          /\ fdtab' = fdtab /\ conn' = Received(fdtab[newfd])
          /\ outbox' = <<[fd |-> newfd, msg |-> Reply(CONNECT_ACCEPTED, <<>>, 0)]>>
      BY <1>3, <2>1, <2>3 DEF AdmitClient
    <3>2. subscribed_topics' = subscribed_topics
      BY <1>5, NothingCleared DEF ReconnectClient
    <3>3. Reply(CONNECT_ACCEPTED, <<>>, 0).command # MSG_FROM_UDP
      BY DEF Reply, CONNECT_ACCEPTED, MSG_FROM_UDP
    <3>4. is_connected[id] => Quiet(fdtab[curr_fd[id]])
      BY <1>1, <1>2, <3>1, <3>3, AnswerMoves
    <3> QED
      BY <3>1, <3>2, <3>4, StoryElsewhere
  <2> QED
    BY <2>2, <2>3
<1> QED
  BY <1>4, <1>5

LEMMA StoryRequest ==
  ASSUME AppInv, AppInv', SessionInv, NEW i \in DOMAIN poll_fds, NEW who \in Ids,
         ManageSubscribeUnsubscribe(i, who), NEW id \in Ids, Story(id)
  PROVE  Story(id)'
<1>1. CASE who = id
  BY <1>1, StoryAnswered
<1>2. CASE who # id
  <2> DEFINE fd == poll_fds[i]
             req == Head(conn[fdtab[fd]].up)
             answer == Reply(AnswerTo(req.command, req.payload \in subscribed_topics[who]),
                             req.payload, 0)
  <2>1. /\ fdtab[fd] \in Conns /\ conn' = Received(fdtab[fd])
        /\ conn[fdtab[fd]].up # <<>> /\ is_connected[who] /\ curr_fd[who] = fd
    BY RequestTaken DEF ManageSubscribeUnsubscribe
  <2>2. /\ fdtab' = fdtab /\ outbox = <<>> /\ outbox' = <<[fd |-> fd, msg |-> answer]>>
        /\ is_connected' = is_connected /\ curr_fd' = curr_fd
    BY DEF ManageSubscribeUnsubscribe, AtClient, AtLoop
  <2>3. subscribed_topics'[id] = subscribed_topics[id]
    BY <1>2 DEF ManageSubscribeUnsubscribe, AppInv, ConnectionInv, MessageTypes
  <2>4. answer.command # MSG_FROM_UDP
    BY DEF Reply, AnswerTo, MSG_FROM_UDP, SUBSCRIBE_SUCC, SUBSCRIBE_FAIL,
           UNSUBSCRIBE_SUCC, UNSUBSCRIBE_FAIL
  <2>5. is_connected[id] =>
          fdtab[curr_fd[id]] \in Conns /\ fdtab[curr_fd[id]] # fdtab[fd]
    BY <1>2, <2>1, Recorded, OneConnectionPerId
  <2> HIDE DEF answer, req, fd
  <2>6. is_connected[id] => Quiet(fdtab[curr_fd[id]])
    BY <2>1, <2>2, <2>4, <2>5, AnswerMoves
  <2> QED
    BY <2>2, <2>3, <2>6, StoryElsewhere
<1> QED
  BY <1>1, <1>2

LEMMA StoryDisconnected ==
  ASSUME AppInv, AppInv', NEW i \in DOMAIN poll_fds, NEW who \in Ids,
         DisconnectClient(i, who), NEW id \in Ids, Story(id)
  PROVE  Story(id)'
<1> DEFINE fd == poll_fds[i]
<1>1. /\ outbox = <<>> /\ outbox' = outbox /\ subscribed_topics' = subscribed_topics
      /\ \E new : conn' = [conn EXCEPT ![fdtab[fd]] = new]
      /\ fdtab' = [fdtab EXCEPT ![fd] = NoConn]
      /\ is_connected' = [is_connected EXCEPT ![who] = FALSE]
      /\ curr_fd' = [curr_fd EXCEPT ![who] = NoFd]
      /\ curr_fd[who] = fd /\ fd \in ClientFds
  BY PolledFdsFacts
     DEF DisconnectClient, AtClient, AtLoop, AfterClose, FdsWithout, get_client_from_fd,
         AppInv
<1>2. /\ is_connected \in [Ids -> BOOLEAN] /\ curr_fd \in [Ids -> Fds \cup {NoFd}]
      /\ fdtab \in [Fds -> Conns \cup {NoConn}]
  BY DEF AppInv, RegistryInv, RegistryTypes
<1>3. CASE who = id
  BY <1>1, <1>2, <1>3 DEF Story
<1>4. CASE who # id
  <2>1. is_connected[who]
    BY <1>1, SocketsAssumption, Recorded
       DEF AppInv, RegistryInv, PollSetMatchesRegistry, SocketsAssumption, NoFd
  <2>2. is_connected[id] =>
          /\ curr_fd[id] \in Fds /\ curr_fd[id] # fd
          /\ fdtab[curr_fd[id]] \in Conns /\ fdtab[curr_fd[id]] # fdtab[fd]
    BY <1>1, <1>4, <2>1, Recorded, OneConnectionPerId
  <2> HIDE DEF fd
  <2>3. is_connected[id] => Quiet(fdtab[curr_fd[id]])
    BY <1>1, <2>2, CloseMoves
  <2>4. /\ is_connected'[id] = is_connected[id] /\ curr_fd'[id] = curr_fd[id]
        /\ is_connected[id] => fdtab'[curr_fd[id]] = fdtab[curr_fd[id]]
    BY <1>1, <1>2, <1>4, <2>2
  <2> QED
    BY <1>1, <2>3, <2>4, StoryElsewhere
<1> QED
  BY <1>3, <1>4

LEMMA StoryAccept ==
  ASSUME AppInv, AppInv', Accept, NEW id \in Ids, Story(id)
  PROVE  Story(id)'
<1>1. PICK fd \in Fds : fdtab[fd] = NoConn /\ fdtab' = [fdtab EXCEPT ![fd] = Head(backlog)]
  BY DEF Accept, IsNextFd
<1>2. /\ outbox = <<>> /\ outbox' = outbox /\ conn' = conn /\ UNCHANGED registryVars
  BY DEF Accept, AtAccept, AtLoop
<1>3. is_connected[id] =>
        /\ curr_fd[id] \in Fds /\ curr_fd[id] # fd /\ fdtab[curr_fd[id]] \in Conns
  BY <1>1, Recorded, SocketsAssumption DEF SocketsAssumption
<1>4. fdtab \in [Fds -> Conns \cup {NoConn}]
  BY DEF AppInv, RegistryInv, RegistryTypes
<1>5. is_connected[id] => /\ fdtab'[curr_fd[id]] = fdtab[curr_fd[id]]
                          /\ Quiet(fdtab[curr_fd[id]])
  BY <1>1, <1>2, <1>3, <1>4, NoneComing DEF Quiet
<1> QED
  BY <1>2, <1>5, StoryElsewhere DEF registryVars

LEMMA StoryServer ==
  ASSUME AppInv, AppInv', SessionInv, ServerNext, \A c \in Conns : Fresh(c),
         NEW id \in Ids, Story(id)
  PROVE  Story(id)'
<1>1. ASSUME UNCHANGED <<socketVars, registryVars, outbox>>
      PROVE  Story(id)'
  BY <1>1, StoryElsewhere DEF Quiet, Coming, socketVars, registryVars
<1>2. CASE Poll \/ CheckStdinData
  BY <1>1, <1>2, StoryHalt DEF Poll, CheckStdinData
<1>3. CASE SendFails \/ AcceptFails \/ DenialFails \/ NoIdArrives
           \/ \E i \in DOMAIN poll_fds : RecvFails(i)
  BY <1>3, StoryHalt DEF SendFails, AcceptFails, DenialFails, NoIdArrives, RecvFails
<1>4. CASE Accept
  BY <1>4, StoryAccept
<1>5. ASSUME NEW who \in Ids, RegisterClient(who) \/ ReconnectClient(who) \/ DenyClient(who)
      PROVE  Story(id)'
  <2>1. fdtab[newfd] \in Conns
    BY <1>5, ArrivedId DEF RegisterClient, ReconnectClient, DenyClient
  <2> QED
    BY <1>5, <2>1, StoryHandshake
<1>6. ASSUME NEW i \in DOMAIN poll_fds, NEW who \in Ids,
             ManageSubscribeUnsubscribe(i, who) \/ DisconnectClient(i, who)
      PROVE  Story(id)'
  BY <1>6, StoryRequest, StoryDisconnected
<1>7. CASE SendNext \/ ManageUdpMessage
  <2>1. UNCHANGED <<fdtab, registryVars>>
    BY <1>7 DEF SendNext, ManageUdpMessage, socketVars
  <2>2. CASE ~ is_connected[id]
    BY <2>1, <2>2 DEF Story, registryVars
  <2>3. ASSUME is_connected[id], NEW c \in Conns, c = fdtab[curr_fd[id]]
        PROVE  Story(id)'
    <3>1. SameSession(id, c) /\ subscribed_topics' = subscribed_topics
      BY <2>1, <2>3 DEF SameSession, registryVars
    <3>2. CASE ManageUdpMessage
      BY <3>1, <3>2, ForwardMoves, StoryForwarded
    <3>3. CASE SendNext
      <4>1. ASSUME conn'[c].upEnd = "open"
            PROVE  conn[c].upEnd = "open"
        <5>1. conn \in [Conns -> Connections]
          BY DEF AppInv, ConnectionInv, MessageTypes
        <5>2. conn' = AfterSendDown(fdtab[Head(outbox).fd], Head(outbox).msg)
          BY <3>3 DEF SendNext
        <5>3. CASE conn' = conn
          BY <4>1, <5>3
        <5>4. CASE \E d, new : conn[d].upEnd = "open" /\ conn' = [conn EXCEPT ![d].down = new]
          <6>1. PICK d, new : conn[d].upEnd = "open" /\ conn' = [conn EXCEPT ![d].down = new]
            BY <5>4
          <6>2. CASE c = d
            BY <6>1, <6>2
          <6>3. CASE c # d
            BY <4>1, <5>1, <6>1, <6>3
          <6> QED
            BY <6>2, <6>3
        <5> QED
          BY <5>2, <5>3, <5>4 DEF AfterSendDown
      <4> QED
        BY <3>1, <3>3, <4>1, SentStream, StoryStays
    <3> QED
      BY <1>7, <3>2, <3>3
  <2> QED
    BY <2>2, <2>3, Recorded
<1> QED
  BY <1>2, <1>3, <1>4, <1>5, <1>6, <1>7 DEF ServerNext

(* The steps of the subscribers: a connection is closed or new, or read.   *)
Left(c) ==
  /\ conn'[c].down = <<>>
  /\ HeldByServer(conn[c]) => conn'[c].upEnd # "open"

Reads(c) ==
  /\ conn'[c].owner = conn[c].owner /\ conn'[c].upEnd = conn[c].upEnd
  /\ conn'[c].downEnd = conn[c].downEnd
  /\ DownShrinks(c) /\ Kept(c)

LEMMA ReadsNothing ==
  ASSUME AppInv, AppInv', UNCHANGED <<outbox, fdtab>>, NEW c \in Conns,
         conn'[c].owner = conn[c].owner, conn'[c].upEnd = conn[c].upEnd,
         conn'[c].downEnd = conn[c].downEnd, conn'[c].down = conn[c].down
  PROVE  Reads(c)
BY SameStream DEF Reads, DownShrinks

LEMMA OwnReads ==
  ASSUME AppInv, AppInv', NEW p \in Procs, OwnSteps(p), UNCHANGED serverVars,
         NEW c \in Conns
  PROVE  Left(c) \/ Reads(c)
<1>1. UNCHANGED <<outbox, fdtab>>
  BY DEF OwnSteps, serverVars, End, Prepare, SendId, Accepted, SendRequest, RecvAnswer,
         RecvTcp, TypeRequest, socketVars
<1>2. conn \in [Conns -> Connections] /\ conn[c] \in Connections
  BY DEF AppInv, ConnectionInv, MessageTypes
<1>3. CASE ~ At(p, "off") /\ End(p)
  <2>1. PICK d \in Conns : d = sock[p]
    BY <1>3, RunningSocket DEF AppInv
  <2>2. PICK new \in AfterClientClose(conn[d]) : conn' = [conn EXCEPT ![d] = new]
    BY <1>3, <2>1 DEF End
  <2>3. CASE c = d
    <3>1. conn'[c] = new /\ new.down = <<>>
      BY <1>2, <2>2, <2>3, ClientClosedDown
    <3>2. ASSUME HeldByServer(conn[c])
          PROVE  new.upEnd # "open"
      <4>1. PICK e \in Closings : new = [conn[c] EXCEPT !.upEnd = e, !.down = <<>>]
        BY <2>2, <2>3, <3>2 DEF HeldByServer, AfterClientClose, Closings
      <4> QED
        BY <1>2, <4>1 DEF Connections, Closings
    <3> QED
      BY <3>1, <3>2 DEF Left
  <2>4. CASE c # d
    <3>1. conn'[c] = conn[c]
      BY <1>2, <2>2, <2>4
    <3> QED
      BY <1>1, <3>1, ReadsNothing
  <2> QED
    BY <2>3, <2>4
<1>4. CASE Prepare(p, Running)
  <2>1. PICK d \in Conns : conn[d] = FreeConn /\ conn' = [conn EXCEPT ![d].owner = p]
    BY <1>4 DEF Prepare
  <2>2. CASE c = d
    <3>1. conn'[c] = [FreeConn EXCEPT !.owner = p]
      BY <1>2, <2>1, <2>2
    <3>2. conn'[c].down = <<>> /\ ~ HeldByServer(conn[c])
      BY <2>1, <2>2, <3>1, FreeConnFacts DEF FreeConn
    <3> QED
      BY <3>2 DEF Left
  <2>3. CASE c # d
    <3>1. conn'[c] = conn[c]
      BY <1>2, <2>1, <2>3
    <3> QED
      BY <1>1, <3>1, ReadsNothing
  <2> QED
    BY <2>2, <2>3
<1>5. CASE SendId(p) \/ SendRequest(p)
  <2>1. PICK d, new : conn' = conn \/ conn' = [conn EXCEPT ![d].up = new]
    BY <1>5 DEF SendId, SendRequest, AfterSendUp
  <2>2. CASE conn'[c] = conn[c]
    BY <1>1, <2>2, ReadsNothing
  <2>3. CASE conn'[c] = [conn[c] EXCEPT !.up = new]
    <3>1. /\ conn'[c].owner = conn[c].owner /\ conn'[c].upEnd = conn[c].upEnd
          /\ conn'[c].downEnd = conn[c].downEnd /\ conn'[c].down = conn[c].down
      BY <1>2, <2>3 DEF Connections
    <3> QED
      BY <1>1, <3>1, ReadsNothing
  <2> QED
    BY <1>2, <2>1, <2>2, <2>3
<1>6. CASE \E command \in {SUBSCRIBE_REQ, UNSUBSCRIBE_REQ}, topic \in SubTopics :
             TypeRequest(p, command, topic)
  BY <1>1, <1>6, ReadsNothing DEF TypeRequest, socketVars
<1>7. CASE Accepted(p) \/ RecvAnswer(p) \/ RecvTcp(p)
  <2>1. PICK d \in Conns : d = sock[p]
    BY <1>7, RunningSocket DEF AppInv, Accepted, RecvAnswer, RecvTcp, At
  <2>2. CASE conn'[c] = conn[c]
    BY <1>1, <2>2, ReadsNothing
  <2>3. CASE c = d /\ Incoming(p) /\ Take(p)
    <3>1. conn'[c] = [conn[c] EXCEPT !.down = Tail(conn[c].down)]
      BY <1>2, <2>1, <2>3 DEF Take
    <3>2. /\ conn'[c].owner = conn[c].owner /\ conn'[c].upEnd = conn[c].upEnd
          /\ conn'[c].downEnd = conn[c].downEnd
          /\ conn'[c].down = Tail(conn[c].down) /\ conn[c].down # <<>>
      BY <1>2, <2>1, <2>3, <3>1 DEF Connections, Incoming
    <3>3. Kept(c)
      <4>1. ~ At(p, "off")
        BY <1>7 DEF Accepted, RecvAnswer, RecvTcp, At
      <4> QED
        BY <1>1, <2>1, <2>3, <4>1, TakenStream DEF Kept
    <3> QED
      BY <3>2, <3>3 DEF Reads, DownShrinks
  <2>4. conn' = conn \/ (Incoming(p) /\ Take(p))
    BY <1>7 DEF Accepted, RecvAnswer, RecvTcp
  <2>5. Take(p) /\ c # d => conn'[c] = conn[c]
    BY <1>2, <2>1 DEF Take
  <2> QED
    BY <2>2, <2>3, <2>4, <2>5
<1> QED
  BY <1>3, <1>4, <1>5, <1>6, <1>7 DEF OwnSteps

LEMMA StoryClient ==
  ASSUME AppInv, AppInv', RegistryUntouched, NEW id \in Ids, Story(id),
         \A c \in Conns : Left(c) \/ Reads(c)
  PROVE  Story(id)'
<1>1. CASE ~ is_connected[id]
  BY <1>1 DEF Story, RegistryUntouched
<1>2. CASE is_connected[id]
  <2>1. PICK c \in Conns : c = fdtab[curr_fd[id]] /\ HeldByServer(conn[c])
    BY <1>2, Recorded
  <2>2. SameSession(id, c) /\ subscribed_topics'[id] = subscribed_topics[id]
    BY <1>2, <2>1 DEF SameSession, RegistryUntouched
  <2>3. conn'[c].upEnd = "open" => conn[c].upEnd = "open" /\ Kept(c)
    BY <2>1 DEF Left, Reads
  <2> QED
    BY <2>2, <2>3, StoryStays
<1> QED
  BY <1>1, <1>2

-----------------------------------------------------------------------------
(* A connection has nothing on it until its client is registered.          *)
LEMMA FreshStays ==
  ASSUME AppInv, NEW c \in Conns, Fresh(c),
         HeldByServer(conn'[c]) /\ ~ Registered(c)' =>
           /\ HeldByServer(conn[c]) /\ ~ Registered(c)
           /\ conn[c].down = <<>> => conn'[c].down = <<>>
  PROVE  Fresh(c)'
BY DEF Fresh, HeldByServer

LEMMA FreshClient ==
  ASSUME AppInv, RegistryUntouched, NEW c \in Conns, Fresh(c), Left(c) \/ Reads(c)
  PROVE  Fresh(c)'
<1>1. CASE Left(c)
  BY <1>1 DEF Left, Fresh
<1>2. CASE Reads(c)
  <2>1. conn \in [Conns -> Connections]
    BY DEF AppInv, ConnectionInv, MessageTypes
  <2>2. HeldByServer(conn'[c]) <=> HeldByServer(conn[c])
    BY <1>2 DEF Reads, HeldByServer
  <2>3. conn[c].down = <<>> => conn'[c].down = <<>>
    BY <1>2, <2>1, ConfirmationsKept DEF Reads
  <2> QED
    BY <2>2, <2>3, SameRegistered, FreshStays
<1> QED
  BY <1>1, <1>2

LEMMA ClosedNotHeld ==
  ASSUME NEW k \in Connections, NEW e \in Closings
  PROVE  ~ HeldByServer(ServerClosed(k, e))
<1>1. CASE k.upEnd # "open"
  BY <1>1, FreeConnFacts DEF ServerClosed
<1>2. CASE k.upEnd = "open"
  <2>1. ServerClosed(k, e) = [k EXCEPT !.downEnd = e, !.up = <<>>]
    BY <1>2 DEF ServerClosed
  <2>2. ServerClosed(k, e).downEnd = e
    BY <2>1 DEF Connections
  <2> QED
    BY <2>2 DEF HeldByServer, Closings
<1> QED
  BY <1>1, <1>2

LEMMA FreshHalt ==
  ASSUME AppInv, NEW how, Halt(how), NEW c \in Conns
  PROVE  Fresh(c)'
<1>1. PICK reset \in SUBSET Conns :
        conn' = [d \in Conns |-> IF HeldByServer(conn[d])
                 THEN ServerClosed(conn[d], IF d \in reset THEN "rst" ELSE "fin")
                 ELSE conn[d]]
  BY DEF Halt, AfterServerExit
<1>2. conn[c] \in Connections
  BY DEF AppInv, ConnectionInv, MessageTypes
<1>3. ~ HeldByServer(conn'[c])
  <2>1. CASE HeldByServer(conn[c])
    <3>1. PICK e \in Closings : conn'[c] = ServerClosed(conn[c], e)
      BY <1>1, <2>1 DEF Closings
    <3> QED
      BY <1>2, <3>1, ClosedNotHeld
  <2>2. CASE ~ HeldByServer(conn[c])
    BY <1>1, <2>2
  <2> QED
    BY <2>1, <2>2
<1> QED
  BY <1>3 DEF Fresh, HeldByServer

(* The server closes one connection, and every other keeps its descriptor. *)
LEMMA FreshClosed ==
  ASSUME AppInv, NEW d \in Conns, NEW k \in Connections,
         \E new \in AfterServerClose(k) : conn' = [conn EXCEPT ![d] = new],
         NEW c \in Conns, Fresh(c), c # d => (Registered(c) => Registered(c)')
  PROVE  Fresh(c)'
<1>1. PICK e \in Closings : conn' = [conn EXCEPT ![d] = ServerClosed(k, e)]
  BY DEF AfterServerClose, Closings
<1>2. conn \in [Conns -> Connections]
  BY DEF AppInv, ConnectionInv, MessageTypes
<1>3. CASE c = d
  <2>1. conn'[c] = ServerClosed(k, e)
    BY <1>1, <1>2, <1>3
  <2>2. ~ HeldByServer(conn'[c])
    BY <2>1, ClosedNotHeld
  <2> QED
    BY <2>2 DEF Fresh, HeldByServer
<1>4. CASE c # d
  <2>1. conn'[c] = conn[c]
    BY <1>1, <1>2, <1>4
  <2> QED
    BY <1>4, <2>1, FreshStays
<1> QED
  BY <1>3, <1>4

(* The server receives on one connection.                                  *)
LEMMA FreshReceived ==
  ASSUME AppInv, NEW d \in Conns, conn[d].up # <<>>, conn' = Received(d),
         NEW c \in Conns, Fresh(c), Registered(c) => Registered(c)'
  PROVE  Fresh(c)'
<1>1. conn \in [Conns -> Connections]
  BY DEF AppInv, ConnectionInv, MessageTypes
<1>2. conn'[c].down = conn[c].down
  BY <1>1, ReceivedFacts
<1>3. HeldByServer(conn'[c]) <=> HeldByServer(conn[c])
  BY <1>1, ReceivedFacts DEF HeldByServer
<1> QED
  BY <1>2, <1>3, FreshStays

LEMMA FreshServer ==
  ASSUME AppInv, SessionInv, ServerNext, NEW c \in Conns, Fresh(c)
  PROVE  Fresh(c)'
<1>1. /\ conn \in [Conns -> Connections] /\ fdtab \in [Fds -> Conns \cup {NoConn}]
      /\ poll_fds \in Seq(Fds)
  BY DEF AppInv, ConnectionInv, MessageTypes, RegistryInv, RegistryTypes
<1>2. ASSUME conn' = conn, UNCHANGED <<poll_fds, fdtab>>
      PROVE  Fresh(c)'
  BY <1>2 DEF Fresh, Registered, ClientFds, HeldByServer
<1>3. CASE Poll \/ CheckStdinData \/ ManageUdpMessage
  BY <1>2, <1>3, FreshHalt
     DEF Poll, CheckStdinData, ManageUdpMessage, socketVars, pollVars
<1>4. CASE SendFails \/ AcceptFails \/ DenialFails \/ NoIdArrives
           \/ \E i \in DOMAIN poll_fds : RecvFails(i)
  BY <1>4, FreshHalt DEF SendFails, AcceptFails, DenialFails, NoIdArrives, RecvFails
<1>5. CASE Accept
  <2>1. PICK fd \in Fds : fdtab[fd] = NoConn /\ fdtab' = [fdtab EXCEPT ![fd] = Head(backlog)]
    BY <1>5 DEF Accept, IsNextFd
  <2>2. conn' = conn /\ poll_fds' = poll_fds
    BY <1>5 DEF Accept, pollVars
  <2>3. \A other \in ClientFds : other \in Fds /\ other # fd
    BY <2>1, Recorded, SocketsAssumption DEF SocketsAssumption
  <2>4. Registered(c) => Registered(c)'
    BY <1>1, <2>1, <2>2, <2>3 DEF Registered, ClientFds
  <2> QED
    BY <2>2, <2>4, FreshStays
<1>6. ASSUME NEW who \in Ids, RegisterClient(who) \/ ReconnectClient(who)
      PROVE  Fresh(c)'
  <2>1. IdArrived(who) /\ AdmitClient(who)
    BY <1>6 DEF RegisterClient, ReconnectClient
  <2>2. /\ fdtab[newfd] \in Conns /\ conn[fdtab[newfd]].up # <<>> /\ newfd \in Fds
    BY <2>1, ArrivedId
  <2>3. /\ conn' = Received(fdtab[newfd]) /\ fdtab' = fdtab
        /\ poll_fds' = Append(poll_fds, newfd)
    BY <2>1 DEF AdmitClient
  <2>4. Registered(c) => Registered(c)'
    <3>1. ClientFds' = ClientFds \cup {newfd}
      BY <1>1, <2>2, <2>3, AppendRange DEF ClientFds
    <3> QED
      BY <2>3, <3>1 DEF Registered
  <2> QED
    BY <2>2, <2>3, <2>4, FreshReceived
<1>7. ASSUME NEW who \in Ids, DenyClient(who)
      PROVE  Fresh(c)'
  <2> DEFINE d == fdtab[newfd]
             denied == Reply(CONNECT_DENIED, <<>>, 0)
             k == Received(d)[d]
             told == IF k.upEnd = "open" THEN [k EXCEPT !.down = Append(k.down, denied)]
                     ELSE k
  <2>1. d \in Conns /\ conn[d].up # <<>> /\ newfd \in Fds /\ newfd \notin ClientFds
    BY <1>7, ArrivedId DEF DenyClient
  <2>2. /\ \E new \in AfterServerClose(told) : conn' = [conn EXCEPT ![d] = new]
        /\ fdtab' = [fdtab EXCEPT ![newfd] = NoConn] /\ poll_fds' = poll_fds
    BY <1>7 DEF DenyClient, AfterDenial, AfterClose, pollVars
  <2>3. told \in Connections
    <3>1. k \in Connections
      BY <1>1, <2>1, ReceivedFacts
    <3>2. denied \in DownMessages
      BY ReplyFacts, ZeroDatagrams
    <3> HIDE DEF k, denied
    <3>3. Append(k.down, denied) \in Seq(DownMessages)
      BY <3>1, <3>2, AppendProperties DEF Connections
    <3> DEFINE longer == Append(k.down, denied)
    <3>4. [k EXCEPT !.down = longer] \in Connections
      BY <3>1, <3>3, DownReplaced
    <3> QED
      BY <3>1, <3>4
  <2>4. Registered(c) => Registered(c)'
    <3>1. \A fd \in ClientFds : fd \in Fds /\ fdtab'[fd] = fdtab[fd]
      BY <1>1, <2>1, <2>2, Recorded
    <3> QED
      BY <2>2, <3>1 DEF Registered, ClientFds
  <2> HIDE DEF told
  <2> QED
    BY <2>1, <2>2, <2>3, <2>4, FreshClosed
<1>8. ASSUME NEW i \in DOMAIN poll_fds, NEW who \in Ids, ManageSubscribeUnsubscribe(i, who)
      PROVE  Fresh(c)'
  <2>1. PICK d \in Conns : conn[d].up # <<>> /\ conn' = Received(d)
    BY <1>8, RequestTaken DEF TakenFrom
  <2>2. Registered(c) => Registered(c)'
    BY <1>8 DEF ManageSubscribeUnsubscribe, pollVars, Registered, ClientFds
  <2> QED
    BY <2>1, <2>2, FreshReceived
<1>9. ASSUME NEW i \in DOMAIN poll_fds, NEW who \in Ids, DisconnectClient(i, who)
      PROVE  Fresh(c)'
  <2> DEFINE fd == poll_fds[i]
             d  == fdtab[fd]
  <2>1. fd \in ClientFds /\ fd \in Fds /\ d \in Conns /\ conn[d] \in Connections
    BY <1>1, PolledFdsFacts, Recorded DEF AppInv
  <2>2. /\ \E new \in AfterServerClose(conn[d]) : conn' = [conn EXCEPT ![d] = new]
        /\ fdtab' = [fdtab EXCEPT ![fd] = NoConn] /\ poll_fds' = RemoveAt(poll_fds, i)
    BY <1>9 DEF DisconnectClient, AfterClose
  <2>3. ClientFds' = ClientFds \ {fd}
    BY <1>1, <2>2, RemoveAtRange
       DEF ClientFds, AppInv, RegistryInv, PollSetMatchesRegistry
  <2>4. c # d /\ Registered(c) => Registered(c)'
    <3>1. \A other \in ClientFds \ {fd} : fdtab'[other] = fdtab[other]
      BY <1>1, <2>2, Recorded
    <3> QED
      BY <2>3, <3>1 DEF Registered
  <2> HIDE DEF d, fd
  <2> QED
    BY <2>1, <2>2, <2>4, FreshClosed
<1>10. CASE SendNext
  <2> DEFINE fd == Head(outbox).fd
  <2>1. /\ outbox # <<>> /\ UNCHANGED <<fdtab, poll_fds>>
        /\ conn' = AfterSendDown(fdtab[fd], Head(outbox).msg)
    BY <1>10 DEF SendNext, pollVars
  <2>2. fd \in ClientFds
    <3>1. outbox \in Seq(Sends)
      BY Streams
    <3>2. Len(outbox) \in Nat \ {0} /\ Head(outbox) = outbox[1] /\ DOMAIN outbox = 1..Len(outbox)
      BY <2>1, <3>1, LenProperties, EmptySeq, HeadTailProperties
    <3>3. 1 \in DOMAIN outbox
      BY <3>2
    <3> QED
      BY <3>2, <3>3 DEF SessionInv, OutboxInv
  <2>3. Registered(c)' <=> Registered(c)
    BY <2>1 DEF Registered, ClientFds
  <2>4. CASE c = fdtab[fd]
    BY <2>2, <2>3, <2>4 DEF Fresh, Registered
  <2>5. CASE c # fdtab[fd]
    <3>1. conn'[c] = conn[c]
      BY <1>1, <2>1, <2>5 DEF AfterSendDown
    <3> QED
      BY <2>3, <3>1, FreshStays
  <2> QED
    BY <2>4, <2>5
<1> QED
  BY <1>3, <1>4, <1>5, <1>6, <1>7, <1>8, <1>9, <1>10 DEF ServerNext

-----------------------------------------------------------------------------
LEMMA StoryNext ==
  ASSUME AppInv, AppInv', SessionInv, StoryInv, [Next]_vars
  PROVE  StoryInv'
<1>1. (\A id \in Ids : Story(id)) /\ (\A c \in Conns : Fresh(c))
  BY StoryParts
<1>2. CASE ServerStep
  <2>1. ServerNext
    BY <1>2 DEF ServerStep
  <2>2. \A id \in Ids : Story(id)'
    BY <1>1, <2>1, StoryServer
  <2>3. \A c \in Conns : Fresh(c)'
    BY <1>1, <2>1, FreshServer
  <2> QED
    BY <2>2, <2>3, StoryPartsNext
<1>3. CASE \/ \E p \in Procs : ProcStep(p) \/ UserOf(p)
           \/ TypeConsole \/ SendDatagram \/ UNCHANGED vars
  <2>1. RegistryUntouched
    BY <1>3, Untouched
  <2>2. \A c \in Conns : Left(c) \/ Reads(c)
    <3>1. ASSUME NEW p \in Procs, ProcStep(p) \/ UserOf(p)
          PROVE  \A c \in Conns : Left(c) \/ Reads(c)
      BY <3>1, OwnCases, OwnReads
    <3>2. CASE TypeConsole \/ SendDatagram \/ UNCHANGED vars
      <4>1. conn' = conn
        BY <3>2 DEF TypeConsole, SendDatagram, vars, socketVars
      <4> QED
        BY <2>1, <4>1, ReadsNothing DEF RegistryUntouched
    <3> QED
      BY <1>3, <3>1, <3>2
  <2>3. \A id \in Ids : Story(id)'
    BY <1>1, <2>1, <2>2, StoryClient
  <2>4. \A c \in Conns : Fresh(c)'
    BY <1>1, <2>1, <2>2, FreshClient
  <2> QED
    BY <2>3, <2>4, StoryPartsNext
<1> QED
  BY <1>2, <1>3 DEF Next, Finished

LEMMA StoryInitially == Init => StoryInv
<1> SUFFICES ASSUME Init
             PROVE  StoryInv
  OBVIOUS
<1>1. StreamMatchesSubscriptions
  BY DEF Init, ServerInit, StreamMatchesSubscriptions, Connected
<1>2. \A c \in Conns : conn[c].down = <<>>
  BY DEF Init, SocketsInit, FreeConn
<1> QED
  BY <1>1, <1>2 DEF StoryInv

THEOREM StoryInvariant == Spec => []StoryInv
<1>1. AppInv /\ AppInv' /\ SessionInv /\ StoryInv /\ [Next]_vars => StoryInv'
  BY StoryNext
<1> QED
  BY <1>1, StoryInitially, AppInvariant, SessionInvariant, PTL DEF Spec

(* The answers and the datagrams a client reads tell one story of its      *)
(* subscriptions, the one the server's registry ends with.                 *)
THEOREM StreamsTellOneStory == Spec => []StreamMatchesSubscriptions
<1>1. StoryInv => StreamMatchesSubscriptions
  BY DEF StoryInv
<1> QED
  BY <1>1, StoryInvariant, PTL
=============================================================================
