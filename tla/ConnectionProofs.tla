-------------------------- MODULE ConnectionProofs --------------------------
(***************************************************************************)
(* Proofs about the connections, what travels on them and the processes at *)
(* their ends; type correctness of the whole application.                  *)
(***************************************************************************)
EXTENDS RegistryProofs

(* Records.                                                                *)
LEMMA FreeConnFacts ==
  /\ FreeConn \in Connections
  /\ FreeConn.owner = NoProc /\ FreeConn.up = <<>> /\ ~ HeldByServer(FreeConn)
BY DEF FreeConn, Connections, Ends, HeldByServer

LEMMA UpReplaced ==
  ASSUME NEW k \in Connections, NEW s \in Seq(UpMessages)
  PROVE  LET new == [k EXCEPT !.up = s]
         IN  /\ new \in Connections /\ new.up = s /\ new.down = k.down
             /\ new.owner = k.owner /\ new.upEnd = k.upEnd /\ new.downEnd = k.downEnd
BY DEF Connections

LEMMA DownReplaced ==
  ASSUME NEW k \in Connections, NEW s \in Seq(DownMessages)
  PROVE  LET new == [k EXCEPT !.down = s]
         IN  /\ new \in Connections /\ new.down = s /\ new.up = k.up
             /\ new.owner = k.owner /\ new.upEnd = k.upEnd /\ new.downEnd = k.downEnd
BY DEF Connections

(* What closing an end leaves: a free name, or a half-closed connection    *)
(* the other end still has.                                                *)
LEMMA ClientCloseFacts ==
  ASSUME NEW k \in Connections, NEW new \in AfterClientClose(k)
  PROVE  /\ new \in Connections
         /\ \/ k.downEnd # "open" /\ new = FreeConn
            \/ /\ k.downEnd = "open" /\ new.downEnd = "open"
               /\ new.owner = k.owner /\ new.up = k.up
<1>1. CASE k.downEnd # "open"
  BY <1>1, FreeConnFacts DEF AfterClientClose
<1>2. CASE k.downEnd = "open"
  <2>1. PICK e \in Closings : new = [k EXCEPT !.upEnd = e, !.down = <<>>]
    BY <1>2 DEF AfterClientClose, Closings
  <2>2. e \in Ends /\ <<>> \in Seq(DownMessages)
    BY DEF Closings, Ends
  <2> QED
    BY <1>2, <2>1, <2>2 DEF Connections
<1> QED
  BY <1>1, <1>2

LEMMA ServerClosedFacts ==
  ASSUME NEW k \in Connections, NEW e \in Closings
  PROVE  LET new == ServerClosed(k, e)
         IN  /\ new \in Connections /\ new.up = <<>>
             /\ \/ k.upEnd # "open" /\ new = FreeConn
                \/ k.upEnd = "open" /\ new.upEnd = "open" /\ new.owner = k.owner
<1>1. CASE k.upEnd # "open"
  BY <1>1, FreeConnFacts DEF ServerClosed
<1>2. CASE k.upEnd = "open"
  <2>1. e \in Ends /\ <<>> \in Seq(UpMessages)
    BY DEF Closings, Ends
  <2> QED
    BY <1>2, <2>1 DEF ServerClosed, Connections
<1> QED
  BY <1>1, <1>2

LEMMA ReplyFacts ==
  ASSUME NEW command \in {CONNECT_ACCEPTED, CONNECT_DENIED, MSG_FROM_UDP} \cup Answers,
         NEW topic \in Patterns \cup Topics \cup {<<>>}, NEW n \in 0..MaxDatagrams
  PROVE  Reply(command, topic, n) \in DownMessages
BY DEF Reply, DownMessages

LEMMA ZeroDatagrams == 0 \in 0..MaxDatagrams
BY AppAssumption DEF AppAssumption

LEMMA RequestFacts ==
  /\ \A id \in Ids : Request(CONNECT_REQ, id) \in UpMessages
  /\ \A command \in {SUBSCRIBE_REQ, UNSUBSCRIBE_REQ}, topic \in SubTopics :
       /\ Request(command, topic) \in UpMessages
       /\ Request(command, topic).command # CONNECT_REQ
  /\ NoRequest.command = CONNECT_REQ
  /\ \A m \in UpMessages : m.command # CONNECT_REQ =>
       m.command \in {SUBSCRIBE_REQ, UNSUBSCRIBE_REQ} /\ m.payload \in SubTopics
BY DEF Request, UpMessages, NoRequest, CONNECT_REQ, SUBSCRIBE_REQ, UNSUBSCRIBE_REQ

-----------------------------------------------------------------------------
(* The two ends of a connection keep what they hold in a step that closes  *)
(* nothing and opens nothing.                                              *)
SameHolders ==
  /\ \A c \in Conns : /\ conn'[c].owner = conn[c].owner
                      /\ conn'[c].upEnd = conn[c].upEnd
                      /\ conn'[c].downEnd = conn[c].downEnd
  /\ UNCHANGED <<backlog, fdtab, sock>>
  /\ \A p \in Procs : At(p, "off")' <=> At(p, "off")

LEMMA HoldersKept ==
  ASSUME RegistryTypes, ProcTypes, Descriptors, Sessions, SameHolders
  PROVE  Descriptors' /\ Sessions'
<1>1. \A k \in DOMAIN backlog : backlog[k] \in Conns
  BY ElementOfSeq, LenProperties DEF RegistryTypes
<1>2. \A fd \in Fds : fdtab[fd] # NoConn => fdtab[fd] \in Conns
  BY DEF RegistryTypes
<1>3. \A p \in Procs : sock[p] # NoConn => sock[p] \in Conns
  BY DEF ProcTypes
<1>4. Descriptors'
  BY <1>1, <1>2 DEF SameHolders, Descriptors, HeldByServer
<1>5. Sessions'
  BY <1>3 DEF SameHolders, Sessions
<1> QED
  BY <1>4, <1>5

(* Receiving from a connection, or losing what it holds, adds no message   *)
(* to it, and a step that registers nobody and moves no subscriber to a    *)
(* send leaves the requests in order.                                      *)
NothingSent ==
  /\ \A c \in Conns :
       \/ conn'[c].up = conn[c].up
       \/ conn'[c].up = <<>>
       \/ conn[c].up # <<>> /\ conn'[c].up = Tail(conn[c].up)
  /\ \A c \in Conns : Registered(c)' => Registered(c)
  /\ \A p \in Procs :
       /\ At(p, "sending")' => At(p, "sending") /\ asked'[p] = asked[p]
       /\ At(p, "connected")' =>
            At(p, "connected") /\ sock[p] \in Conns /\ sock'[p] = sock[p]

LEMMA ShorterQueue ==
  ASSUME NEW s \in Seq(UpMessages), s # <<>>
  PROVE  /\ Tail(s) \in Seq(UpMessages)
         /\ Head(s) \in UpMessages
         /\ Head(s) = s[1] /\ 1 \in DOMAIN s
         /\ \A k \in DOMAIN Tail(s) : k \in Nat \ {0} /\ k + 1 \in DOMAIN s /\ Tail(s)[k] = s[k + 1]
<1>1. Len(s) \in Nat \ {0} /\ DOMAIN s = 1..Len(s)
  BY LenProperties, EmptySeq
<1>2. Tail(s) \in Seq(UpMessages) /\ Len(Tail(s)) = Len(s) - 1
  BY HeadTailProperties
<1>3. DOMAIN Tail(s) = 1..(Len(s) - 1)
  BY <1>2, LenProperties
<1> QED
  BY <1>1, <1>2, <1>3, HeadTailProperties

LEMMA RequestsKept ==
  ASSUME conn \in [Conns -> Connections], RequestsInv, NothingSent
  PROVE  RequestsInv'
<1>1. ASSUME NEW p \in Procs
      PROVE  /\ At(p, "sending")' => asked'[p].command # CONNECT_REQ
             /\ At(p, "connected")' => conn'[sock'[p]].up = <<>> /\ ~ Registered(sock[p])'
  BY DEF RequestsInv, NothingSent
<1>2. ASSUME NEW c \in Conns, NEW k \in DOMAIN conn'[c].up,
             conn'[c].up[k].command = CONNECT_REQ
      PROVE  k = 1 /\ ~ Registered(c)'
  <2>1. conn[c].up \in Seq(UpMessages)
    BY DEF Connections
  <2>2. CASE conn'[c].up = conn[c].up
    BY <1>2, <2>2 DEF RequestsInv, NothingSent
  <2>3. CASE conn'[c].up = <<>>
    BY <2>3
  <2>4. CASE conn[c].up # <<>> /\ conn'[c].up = Tail(conn[c].up)
    <3>1. k \in Nat \ {0} /\ k + 1 \in DOMAIN conn[c].up
          /\ conn'[c].up[k] = conn[c].up[k + 1]
      BY <2>1, <2>4, ShorterQueue
    <3>2. k + 1 = 1
      BY <1>2, <3>1 DEF RequestsInv
    <3> QED
      BY <3>1, <3>2
  <2> QED
    BY <2>2, <2>3, <2>4 DEF NothingSent
<1> QED
  BY <1>1, <1>2 DEF RequestsInv

-----------------------------------------------------------------------------
(* A step that does not touch the connections nor the processes.           *)
LEMMA ConnectionKept ==
  ASSUME ConnectionInv,
         UNCHANGED <<conn, backlog, fdtab, poll_fds, subscribed_topics>>,
         UNCHANGED subscriberVars,
         console' \in Seq(Lines), buffered' \in 0..Len(console'),
         udpq' \in Seq(Datagrams),
         outbox' \in Seq([fd : Fds, msg : DownMessages]),
         arrived' \in 0..MaxDatagrams
  PROVE  ConnectionInv'
<1>1. UNCHANGED <<spc, sock, asked, tcp_ready, last>>
  BY DEF subscriberVars
<1>2. MessageTypes' /\ ProcTypes'
  BY <1>1 DEF ConnectionInv, MessageTypes, ProcTypes
<1>3. Descriptors' /\ Sessions'
  BY <1>1 DEF ConnectionInv, Descriptors, Sessions, At
<1>4. RequestsInv'
  BY <1>1 DEF ConnectionInv, RequestsInv, Registered, ClientFds, At
<1> QED
  BY <1>2, <1>3, <1>4 DEF ConnectionInv

LEMMA ConnectionInitially == Init => ConnectionInv
<1> SUFFICES ASSUME Init PROVE ConnectionInv
  OBVIOUS
<1> USE DEF Init, SocketsInit, ServerInit, SubscriberInit
<1>1. MessageTypes
  BY FreeConnFacts, ZeroDatagrams DEF MessageTypes
<1>2. ProcTypes
  BY ZeroDatagrams DEF ProcTypes
<1>3. Descriptors
  BY SocketsAssumption DEF Descriptors, SocketsAssumption, IsInjective, Range
<1>4. Sessions
  BY DEF Sessions, At
<1>5. RequestsInv
  BY FreeConnFacts DEF RequestsInv, At
<1> QED
  BY <1>1, <1>2, <1>3, <1>4, <1>5 DEF ConnectionInv

(* The kernel closes what the server held, and nothing else changes.       *)
LEMMA ConnectionHalt ==
  ASSUME ConnectionInv, NEW how, Halt(how), UNCHANGED <<subscriberVars, arrived>>
  PROVE  ConnectionInv'
<1> USE DEF Halt
<1>1. UNCHANGED <<spc, sock, asked, tcp_ready, last>>
  BY DEF subscriberVars
<1>2. PICK reset \in SUBSET Conns :
        conn' = [c \in Conns |-> IF HeldByServer(conn[c])
                 THEN ServerClosed(conn[c], IF c \in reset THEN "rst" ELSE "fin")
                 ELSE conn[c]]
  BY DEF AfterServerExit
<1>3. ASSUME NEW c \in Conns
      PROVE  /\ conn'[c] \in Connections
             /\ conn'[c].up = conn[c].up \/ conn'[c].up = <<>>
             /\ conn[c].upEnd = "open" =>
                  conn'[c].upEnd = "open" /\ conn'[c].owner = conn[c].owner
  <2>1. conn[c] \in Connections
    BY DEF ConnectionInv, MessageTypes
  <2>2. CASE HeldByServer(conn[c])
    <3>1. PICK e \in Closings : conn'[c] = ServerClosed(conn[c], e)
      BY <1>2, <2>2 DEF Closings
    <3> QED
      BY <2>1, <3>1, ServerClosedFacts
  <2>3. CASE ~ HeldByServer(conn[c])
    BY <1>2, <2>1, <2>3
  <2> QED
    BY <2>2, <2>3
<1>4. MessageTypes'
  <2>1. conn' \in [Conns -> Connections]
    BY <1>2, <1>3
  <2> QED
    BY <1>1, <2>1 DEF ConnectionInv, MessageTypes
<1>5. ProcTypes'
  BY <1>1 DEF ConnectionInv, ProcTypes
<1>6. Descriptors'
  BY SocketsAssumption DEF Descriptors, SocketsAssumption, IsInjective, Range
<1>7. Sessions'
  <2>1. \A p \in Procs : sock[p] # NoConn => sock[p] \in Conns
    BY DEF ConnectionInv, ProcTypes
  <2> QED
    BY <1>1, <1>3, <2>1 DEF ConnectionInv, Sessions, At
<1>8. RequestsInv'
  <2>1. \A c : ~ Registered(c)'
    BY DEF Registered, ClientFds, Range
  <2>2. \A p \in Procs : At(p, "connected") => sock[p] \in Conns
    BY DEF ConnectionInv, Sessions, At, ProcTypes
  <2>3. NothingSent
    BY <1>1, <1>3, <2>1, <2>2 DEF NothingSent, At
  <2> QED
    BY <2>3, RequestsKept DEF ConnectionInv, MessageTypes
<1> QED
  BY <1>4, <1>5, <1>6, <1>7, <1>8 DEF ConnectionInv

-----------------------------------------------------------------------------
(* The server's steps.                                                     *)
LEMMA QueueStep ==
  ASSUME conn \in [Conns -> Connections], NEW c \in Conns, NEW new \in Connections,
         new.owner = conn[c].owner, new.upEnd = conn[c].upEnd,
         new.downEnd = conn[c].downEnd,
         conn' = [conn EXCEPT ![c] = new],
         UNCHANGED <<backlog, fdtab, sock>>,
         \A p \in Procs : At(p, "off")' <=> At(p, "off")
  PROVE  /\ conn' \in [Conns -> Connections]
         /\ conn'[c] = new /\ \A d \in Conns \ {c} : conn'[d] = conn[d]
         /\ SameHolders
<1>1. /\ conn' \in [Conns -> Connections]
      /\ conn'[c] = new /\ \A d \in Conns \ {c} : conn'[d] = conn[d]
  OBVIOUS
<1> QED
  BY <1>1 DEF SameHolders

LEMMA ReceivedFacts ==
  ASSUME conn \in [Conns -> Connections], NEW c \in Conns, conn[c].up # <<>>
  PROVE  /\ Received(c) \in [Conns -> Connections]
         /\ Received(c)[c].up = Tail(conn[c].up)
         /\ Received(c)[c].down = conn[c].down
         /\ \A d \in Conns \ {c} : Received(c)[d] = conn[d]
         /\ \A d \in Conns : /\ Received(c)[d].owner = conn[d].owner
                             /\ Received(c)[d].upEnd = conn[d].upEnd
                             /\ Received(c)[d].downEnd = conn[d].downEnd
<1>1. conn[c] \in Connections /\ conn[c].up \in Seq(UpMessages)
  BY DEF Connections
<1>2. Tail(conn[c].up) \in Seq(UpMessages)
  BY <1>1, ShorterQueue
<1> DEFINE new == [conn[c] EXCEPT !.up = Tail(conn[c].up)]
<1>3. /\ new \in Connections /\ new.up = Tail(conn[c].up) /\ new.down = conn[c].down
      /\ new.owner = conn[c].owner /\ new.upEnd = conn[c].upEnd
      /\ new.downEnd = conn[c].downEnd
  BY <1>1, <1>2, UpReplaced
<1>4. Received(c) = [conn EXCEPT ![c] = new]
  BY DEF Received
<1> HIDE DEF new
<1> QED
  BY <1>3, <1>4

(* The connection an open descriptor refers to.                            *)
LEMMA OpenFds ==
  ASSUME RegistryInv
  PROVE  /\ \A fd \in ClientFds : fd \in Fds /\ fdtab[fd] \in Conns /\ Registered(fdtab[fd])
         /\ newfd # NoFd => newfd \in Fds /\ fdtab[newfd] \in Conns
         /\ \A id \in Ids : is_connected[id] => curr_fd[id] \in ClientFds
<1>1. \A fd \in ClientFds : fd \in Fds
  BY PolledFdsFacts
<1> QED
  BY <1>1 DEF RegistryInv, RegistryTypes, PollSetMatchesRegistry, Connected, Registered

LEMMA ConnectionSendNext ==
  ASSUME RegistryInv, ConnectionInv, SendNext, UNCHANGED <<subscriberVars, arrived>>
  PROVE  ConnectionInv'
<1> DEFINE c == fdtab[Head(outbox).fd]
           m == Head(outbox).msg
<1>1. UNCHANGED <<spc, sock, asked, tcp_ready, last, backlog, fdtab, console, buffered,
                  udpq, subscribed_topics, poll_fds>>
  BY DEF SendNext, subscriberVars, registryVars, pollVars
<1>2. outbox' \in Seq([fd : Fds, msg : DownMessages]) /\ m \in DownMessages
  <2>1. outbox \in Seq([fd : Fds, msg : DownMessages]) /\ outbox # <<>>
    BY DEF SendNext, ConnectionInv, MessageTypes
  <2>2. Head(outbox) \in [fd : Fds, msg : DownMessages]
        /\ Tail(outbox) \in Seq([fd : Fds, msg : DownMessages])
    BY <2>1, HeadTailProperties
  <2> QED
    BY <2>2 DEF SendNext
<1>3. conn' = AfterSendDown(c, m)
  BY DEF SendNext
<1> HIDE DEF c, m
<1>4. CASE c \in Conns /\ conn[c].upEnd = "open"
  <2> DEFINE new == [conn[c] EXCEPT !.down = Append(conn[c].down, m)]
  <2>1. conn[c] \in Connections /\ conn[c].down \in Seq(DownMessages)
    BY <1>4 DEF ConnectionInv, MessageTypes, Connections
  <2>2. Append(conn[c].down, m) \in Seq(DownMessages)
    BY <1>2, <2>1, AppendProperties
  <2>3. /\ new \in Connections /\ new.up = conn[c].up
        /\ new.owner = conn[c].owner /\ new.upEnd = conn[c].upEnd
        /\ new.downEnd = conn[c].downEnd
    BY <2>1, <2>2, DownReplaced
  <2>4. conn' = [conn EXCEPT ![c] = new]
    BY <1>3, <1>4 DEF AfterSendDown
  <2> HIDE DEF new
  <2>5. /\ conn' \in [Conns -> Connections]
        /\ conn'[c] = new /\ \A d \in Conns \ {c} : conn'[d] = conn[d]
        /\ SameHolders
    BY <1>1, <1>4, <2>3, <2>4, QueueStep DEF ConnectionInv, MessageTypes, At
  <2>6. Descriptors' /\ Sessions'
    BY <2>5, HoldersKept DEF ConnectionInv, RegistryInv
  <2>7. NothingSent
    <3>1. \A d \in Conns : conn'[d].up = conn[d].up
      BY <2>3, <2>5
    <3> QED
      BY <1>1, <3>1 DEF NothingSent, Registered, ClientFds, At, ConnectionInv,
                        Sessions, ProcTypes
  <2>8. RequestsInv'
    BY <2>7, RequestsKept DEF ConnectionInv, MessageTypes
  <2> QED
    BY <1>1, <1>2, <2>5, <2>6, <2>8 DEF ConnectionInv, MessageTypes, ProcTypes
<1>5. CASE ~ (c \in Conns /\ conn[c].upEnd = "open")
  <2>1. conn' = conn
    BY <1>3, <1>5 DEF AfterSendDown, ConnectionInv, MessageTypes
  <2> QED
    BY <1>1, <1>2, <2>1, ConnectionKept DEF ConnectionInv, MessageTypes, subscriberVars
<1> QED
  BY <1>4, <1>5

LEMMA FunctionIsSeq ==
  ASSUME NEW S, NEW n \in Nat, NEW s \in [1..n -> S]
  PROVE  s \in Seq(S)
<1>1. s = [i \in 1..n |-> s[i]] /\ \A i \in 1..n : s[i] \in S
  OBVIOUS
<1> QED
  BY <1>1, IsASeq

LEMMA FanOutTypes ==
  ASSUME RegistryInv, ConnectionInv, NEW d \in Datagrams, NEW s \in FanOut(d)
  PROVE  s \in Seq([fd : Fds, msg : DownMessages])
<1> DEFINE send(id) == [fd |-> curr_fd[id], msg |-> Reply(MSG_FROM_UDP, d.topic, d.n)]
           S == {send(id) : id \in Recipients(d.topic)}
<1>1. Recipients(d.topic) \subseteq Ids
  BY DEF Recipients, RegistryInv, RegistryTypes
<1>2. S \subseteq [fd : Fds, msg : DownMessages]
  <2>1. Reply(MSG_FROM_UDP, d.topic, d.n) \in DownMessages
    <3>1. d.topic \in Topics /\ d.n \in 0..MaxDatagrams
      BY AppAssumption DEF Datagrams, AppAssumption
    <3> QED
      BY <3>1, ReplyFacts
  <2>2. \A id \in Recipients(d.topic) : curr_fd[id] \in Fds
    BY <1>1, OpenFds DEF Recipients
  <2> QED
    BY <2>1, <2>2
<1>3. IsFiniteSet(S)
  <2> DEFINE f == [id \in Recipients(d.topic) |-> send(id)]
  <2>1. IsFiniteSet(Recipients(d.topic))
    BY <1>1, FS_Subset, AppAssumption DEF AppAssumption
  <2>2. f \in Surjection(Recipients(d.topic), S)
    BY DEF Surjection
  <2> QED
    BY <2>1, <2>2, FS_Surjection
<1>4. Cardinality(S) \in Nat
  BY <1>3, FS_CardinalityType
<1>5. s \in [1..Cardinality(S) -> S]
  BY DEF FanOut, SetToSeqs
<1> HIDE DEF S
<1>6. s \in [1..Cardinality(S) -> [fd : Fds, msg : DownMessages]]
  BY <1>2, <1>5
<1> QED
  BY <1>4, <1>6, FunctionIsSeq

LEMMA ConnectionAccept ==
  ASSUME RegistryInv, ConnectionInv, Accept, UNCHANGED <<subscriberVars, arrived>>
  PROVE  ConnectionInv'
<1>1. UNCHANGED <<spc, sock, asked, tcp_ready, last, conn, console, buffered, udpq, outbox,
                  subscribed_topics, poll_fds>>
  BY DEF Accept, subscriberVars, registryVars, pollVars
<1>2. PICK fd \in Fds : IsNextFd(fd) /\ fdtab' = [fdtab EXCEPT ![fd] = Head(backlog)]
  BY DEF Accept
<1>3. backlog # <<>> /\ backlog \in Seq(Conns) /\ backlog' = Tail(backlog)
  BY DEF Accept, AtAccept, RegistryInv, RegistryTypes
<1>4. Len(backlog) \in Nat \ {0} /\ DOMAIN backlog = 1..Len(backlog)
  BY <1>3, LenProperties, EmptySeq
<1>5. /\ Head(backlog) = backlog[1] /\ 1 \in DOMAIN backlog /\ backlog[1] \in Conns
      /\ backlog' \in Seq(Conns) /\ Len(backlog') = Len(backlog) - 1
      /\ \A k \in 1..(Len(backlog) - 1) : backlog'[k] = backlog[k + 1]
  BY <1>3, <1>4, HeadTailProperties, ElementOfSeq
<1>6. /\ DOMAIN backlog' = 1..(Len(backlog) - 1)
      /\ \A k \in DOMAIN backlog' :
           k + 1 \in DOMAIN backlog /\ k + 1 # 1 /\ backlog'[k] = backlog[k + 1]
  BY <1>4, <1>5, LenProperties
<1>7. /\ fdtab'[fd] = backlog[1] /\ fdtab[fd] = NoConn
      /\ \A x \in Fds \ {fd} : fdtab'[x] = fdtab[x]
  BY <1>2, <1>5 DEF RegistryInv, RegistryTypes, IsNextFd
<1>8. Descriptors'
  <2>1. \A x \in Fds : fdtab'[x] # NoConn => HeldByServer(conn'[fdtab'[x]])
    BY <1>1, <1>5, <1>7 DEF ConnectionInv, Descriptors
  <2>2. \A k \in DOMAIN backlog' : HeldByServer(conn'[backlog'[k]])
    BY <1>1, <1>6 DEF ConnectionInv, Descriptors
  <2>3. \A x \in Fds : fdtab[x] # backlog[1]
    BY <1>5 DEF ConnectionInv, Descriptors, Range
  <2>4. \A x, y \in Fds : fdtab'[x] = fdtab'[y] /\ fdtab'[x] # NoConn => x = y
    BY <1>7, <2>3 DEF ConnectionInv, Descriptors
  <2>5. IsInjective(backlog')
    <3>1. \A j, k \in DOMAIN backlog' : backlog'[j] = backlog'[k] => j + 1 = k + 1
      BY <1>6 DEF ConnectionInv, Descriptors, IsInjective
    <3> QED
      BY <1>4, <1>6, <3>1 DEF IsInjective
  <2>6. \A x \in Fds : fdtab'[x] \notin Range(backlog')
    BY <1>5, <1>6, <1>7 DEF ConnectionInv, Descriptors, IsInjective, Range
  <2> QED
    BY <2>1, <2>2, <2>4, <2>5, <2>6 DEF Descriptors
<1>9. Sessions'
  BY <1>1 DEF ConnectionInv, Sessions, At
<1>10. RequestsInv'
  <2>1. \A c \in Conns : Registered(c)' => Registered(c)
    BY <1>1, <1>7, OpenFds DEF Registered, ClientFds, RegistryInv
  <2>2. NothingSent
    BY <1>1, <2>1 DEF NothingSent, At, ConnectionInv, Sessions, ProcTypes
  <2> QED
    BY <2>2, RequestsKept DEF ConnectionInv, MessageTypes
<1> QED
  BY <1>1, <1>8, <1>9, <1>10 DEF ConnectionInv, MessageTypes, ProcTypes

(* A recv() of the server.                                                 *)
LEMMA ServerReceives ==
  ASSUME RegistryInv, ConnectionInv, NEW c \in Conns, conn[c].up # <<>>,
         conn' = Received(c), UNCHANGED <<backlog, fdtab, subscriberVars>>
  PROVE  /\ conn' \in [Conns -> Connections] /\ Descriptors' /\ Sessions'
         /\ Head(conn[c].up) \in UpMessages
         /\ \A k \in DOMAIN conn'[c].up : conn'[c].up[k].command # CONNECT_REQ
         /\ \A d \in Conns \ {c} : conn'[d] = conn[d]
<1>1. conn \in [Conns -> Connections] /\ conn[c].up \in Seq(UpMessages)
  BY DEF ConnectionInv, MessageTypes, Connections
<1>2. SameHolders /\ conn' \in [Conns -> Connections]
  BY <1>1, ReceivedFacts DEF SameHolders, subscriberVars, At
<1>3. Descriptors' /\ Sessions'
  BY <1>2, HoldersKept DEF ConnectionInv, RegistryInv
<1>4. conn'[c].up = Tail(conn[c].up) /\ \A d \in Conns \ {c} : conn'[d] = conn[d]
  BY <1>1, ReceivedFacts
<1>5. ASSUME NEW k \in DOMAIN conn'[c].up
      PROVE  conn'[c].up[k].command # CONNECT_REQ
  <2>1. k \in Nat \ {0} /\ k + 1 \in DOMAIN conn[c].up /\ conn'[c].up[k] = conn[c].up[k + 1]
    BY <1>1, <1>4, ShorterQueue
  <2> QED
    BY <2>1 DEF ConnectionInv, RequestsInv
<1> QED
  BY <1>1, <1>2, <1>3, <1>4, <1>5, ShorterQueue

(* The id is received before the connection enters the poll set.           *)
LEMMA ConnectionAdmit ==
  ASSUME RegistryInv, ConnectionInv, NEW id \in Ids, IdArrived(id), AdmitClient(id),
         subscribed_topics' \in [Ids -> SUBSET Patterns],
         UNCHANGED <<subscriberVars, arrived>>
  PROVE  ConnectionInv'
<1> DEFINE c == fdtab[newfd]
<1>1. newfd \in Fds /\ c \in Conns /\ conn[c].up # <<>>
  BY OpenFds DEF IdArrived, RegistryInv
<1>2. /\ conn' = Received(c) /\ UNCHANGED <<backlog, fdtab, console, buffered, udpq>>
      /\ poll_fds' = Append(poll_fds, newfd)
      /\ outbox' = <<[fd |-> newfd, msg |-> Reply(CONNECT_ACCEPTED, <<>>, 0)]>>
      /\ UNCHANGED <<spc, sock, asked, tcp_ready, last>>
  BY DEF AdmitClient, subscriberVars
<1> HIDE DEF c
<1>3. /\ conn' \in [Conns -> Connections] /\ Descriptors' /\ Sessions'
      /\ \A k \in DOMAIN conn'[c].up : conn'[c].up[k].command # CONNECT_REQ
      /\ \A d \in Conns \ {c} : conn'[d] = conn[d]
  BY <1>1, <1>2, ServerReceives
<1>4. outbox' \in Seq([fd : Fds, msg : DownMessages])
  <2>1. Reply(CONNECT_ACCEPTED, <<>>, 0) \in DownMessages
    BY ReplyFacts, ZeroDatagrams
  <2> QED
    BY <1>1, <1>2, <2>1
<1>5. MessageTypes' /\ ProcTypes'
  BY <1>2, <1>3, <1>4 DEF ConnectionInv, MessageTypes, ProcTypes
<1>6. \A d : Registered(d)' => Registered(d) \/ d = c
  BY <1>1, <1>2, AppendRange DEF Registered, ClientFds, RegistryInv, RegistryTypes, c
<1>7. RequestsInv'
  <2>1. ASSUME NEW p \in Procs
        PROVE  /\ At(p, "sending")' => asked'[p].command # CONNECT_REQ
               /\ At(p, "connected")' => conn'[sock'[p]].up = <<>> /\ ~ Registered(sock[p])'
    <3>1. At(p, "connected") => sock[p] \in Conns \ {c}
      BY <1>1 DEF ConnectionInv, RequestsInv, Sessions, ProcTypes, At
    <3> QED
      BY <1>2, <1>3, <1>6, <3>1 DEF ConnectionInv, RequestsInv, At
  <2>2. ASSUME NEW d \in Conns, NEW k \in DOMAIN conn'[d].up,
               conn'[d].up[k].command = CONNECT_REQ
        PROVE  k = 1 /\ ~ Registered(d)'
    BY <1>3, <1>6, <2>2 DEF ConnectionInv, RequestsInv
  <2> QED
    BY <2>1, <2>2 DEF RequestsInv
<1> QED
  BY <1>3, <1>5, <1>7 DEF ConnectionInv

(* A close() of the server on one of its descriptors.                      *)
LEMMA ServerCloses ==
  ASSUME RegistryInv, ConnectionInv, NEW fd \in Fds, fdtab[fd] \in Conns,
         NEW k \in Connections, k.owner = conn[fdtab[fd]].owner,
         k.upEnd = conn[fdtab[fd]].upEnd,
         NEW new \in AfterServerClose(k),
         conn' = [conn EXCEPT ![fdtab[fd]] = new],
         fdtab' = [fdtab EXCEPT ![fd] = NoConn],
         ClientFds' \subseteq ClientFds, UNCHANGED <<backlog, subscriberVars>>
  PROVE  conn' \in [Conns -> Connections] /\ Descriptors' /\ Sessions' /\ RequestsInv'
<1> DEFINE c == fdtab[fd]
<1>1. UNCHANGED <<spc, sock, asked, tcp_ready, last>>
  BY DEF subscriberVars
<1>2. PICK e \in Closings : new = ServerClosed(k, e)
  BY DEF AfterServerClose, Closings
<1>3. /\ new \in Connections /\ new.up = <<>>
      /\ conn[c].upEnd = "open" => new.upEnd = "open" /\ new.owner = conn[c].owner
  BY <1>2, ServerClosedFacts
<1>4. /\ conn' \in [Conns -> Connections] /\ conn'[c] = new
      /\ \A d \in Conns \ {c} : conn'[d] = conn[d]
  BY <1>3 DEF ConnectionInv, MessageTypes
<1>5. fdtab'[fd] = NoConn /\ \A x \in Fds \ {fd} : fdtab'[x] = fdtab[x] /\ fdtab[x] # c
  BY SocketsAssumption
     DEF SocketsAssumption, RegistryInv, RegistryTypes, ConnectionInv, Descriptors
<1>6. \A j \in DOMAIN backlog : backlog[j] \in Conns \ {c}
  <2>1. backlog \in Seq(Conns)
    BY DEF RegistryInv, RegistryTypes
  <2>2. \A j \in DOMAIN backlog : backlog[j] # c
    BY DEF ConnectionInv, Descriptors, Range
  <2> QED
    BY <2>1, <2>2, ElementOfSeq, LenProperties
<1>7. \A x \in Fds : fdtab[x] # NoConn => fdtab[x] \in Conns
  BY DEF RegistryInv, RegistryTypes
<1> HIDE DEF c
<1>8. Descriptors'
  <2>1. \A x \in Fds : fdtab'[x] # NoConn => HeldByServer(conn'[fdtab'[x]])
    BY <1>4, <1>5, <1>7 DEF ConnectionInv, Descriptors
  <2>2. \A j \in DOMAIN backlog : HeldByServer(conn'[backlog[j]])
    BY <1>4, <1>6 DEF ConnectionInv, Descriptors
  <2>3. \A x, y \in Fds : fdtab'[x] = fdtab'[y] /\ fdtab'[x] # NoConn => x = y
    BY <1>5 DEF ConnectionInv, Descriptors
  <2>4. \A x \in Fds : fdtab'[x] \notin Range(backlog)
    BY <1>5, <1>6, SocketsAssumption
       DEF ConnectionInv, Descriptors, Range, SocketsAssumption
  <2> QED
    BY <2>1, <2>2, <2>3, <2>4 DEF ConnectionInv, Descriptors
<1>9. Sessions'
  BY <1>1, <1>3, <1>4 DEF ConnectionInv, Sessions, ProcTypes, At
<1>10. RequestsInv'
  <2>1. \A d \in Conns : Registered(d)' => Registered(d)
    BY <1>5, OpenFds, SocketsAssumption DEF Registered, SocketsAssumption
  <2>2. NothingSent
    BY <1>1, <1>3, <1>4, <2>1 DEF NothingSent, At, ConnectionInv, Sessions, ProcTypes
  <2> QED
    BY <2>2, RequestsKept DEF ConnectionInv, MessageTypes
<1> QED
  BY <1>4, <1>8, <1>9, <1>10

LEMMA ConnectionDeny ==
  ASSUME RegistryInv, ConnectionInv, NEW id \in Ids, DenyClient(id),
         UNCHANGED <<subscriberVars, arrived>>
  PROVE  ConnectionInv'
<1> DEFINE c == fdtab[newfd]
           denied == Reply(CONNECT_DENIED, <<>>, 0)
           k == Received(c)[c]
           told == IF k.upEnd = "open" THEN [k EXCEPT !.down = Append(k.down, denied)]
                   ELSE k
<1>1. newfd \in Fds /\ c \in Conns /\ conn[c].up # <<>>
  BY OpenFds DEF DenyClient, IdArrived, RegistryInv
<1>2. /\ UNCHANGED <<backlog, console, buffered, udpq, outbox, poll_fds,
                   subscribed_topics>>
      /\ UNCHANGED <<spc, sock, asked, tcp_ready, last>>
      /\ fdtab' = [fdtab EXCEPT ![newfd] = NoConn]
  BY DEF DenyClient, AfterClose, registryVars, pollVars, subscriberVars
<1>3. PICK new \in AfterServerClose(told) : conn' = [conn EXCEPT ![c] = new]
  BY DEF DenyClient, AfterDenial
<1>4. k \in Connections /\ k.owner = conn[c].owner /\ k.upEnd = conn[c].upEnd
  BY <1>1, ReceivedFacts DEF ConnectionInv, MessageTypes
<1> HIDE DEF k
<1>5. told \in Connections /\ told.owner = conn[c].owner /\ told.upEnd = conn[c].upEnd
  <2>1. denied \in DownMessages
    BY ReplyFacts, ZeroDatagrams
  <2>2. k.down \in Seq(DownMessages)
    BY <1>4 DEF Connections
  <2>3. Append(k.down, denied) \in Seq(DownMessages)
    BY <2>1, <2>2, AppendProperties
  <2> QED
    BY <1>4, <2>3, DownReplaced
<1> HIDE DEF told
<1>6. ClientFds' = ClientFds
  BY <1>2 DEF ClientFds
<1>7. conn' \in [Conns -> Connections] /\ Descriptors' /\ Sessions' /\ RequestsInv'
  BY <1>1, <1>2, <1>3, <1>5, <1>6, ServerCloses
<1> QED
  BY <1>2, <1>7 DEF ConnectionInv, MessageTypes, ProcTypes

LEMMA ConnectionDisconnect ==
  ASSUME RegistryInv, ConnectionInv, NEW i \in DOMAIN poll_fds, NEW id \in Ids,
         DisconnectClient(i, id), UNCHANGED <<subscriberVars, arrived>>
  PROVE  ConnectionInv'
<1> DEFINE fd == poll_fds[i]
<1>1. fd \in Fds /\ fdtab[fd] \in Conns
  BY PolledFdsFacts, OpenFds
<1>2. /\ UNCHANGED <<backlog, console, buffered, udpq, outbox, subscribed_topics>>
      /\ UNCHANGED <<spc, sock, asked, tcp_ready, last>>
      /\ fdtab' = [fdtab EXCEPT ![fd] = NoConn]
      /\ poll_fds' = RemoveAt(poll_fds, i)
  BY DEF DisconnectClient, AfterClose, subscriberVars
<1>3. PICK new \in AfterServerClose(conn[fdtab[fd]]) :
        conn' = [conn EXCEPT ![fdtab[fd]] = new]
  BY DEF DisconnectClient
<1>4. conn[fdtab[fd]] \in Connections
  BY <1>1 DEF ConnectionInv, MessageTypes
<1>5. ClientFds' \subseteq ClientFds
  BY <1>2, PolledFdsFacts, RemoveAtRange DEF ClientFds, RegistryInv, PollSetMatchesRegistry
<1> HIDE DEF fd
<1>6. conn' \in [Conns -> Connections] /\ Descriptors' /\ Sessions' /\ RequestsInv'
  BY <1>1, <1>2, <1>3, <1>4, <1>5, ServerCloses
<1> QED
  BY <1>2, <1>6 DEF ConnectionInv, MessageTypes, ProcTypes

(* In the loop of run() the message received is a request about a topic.   *)
LEMMA ConnectionRequest ==
  ASSUME RegistryInv, ConnectionInv, NEW i \in DOMAIN poll_fds, NEW id \in Ids,
         ManageSubscribeUnsubscribe(i, id), UNCHANGED <<subscriberVars, arrived>>
  PROVE  ConnectionInv'
<1> DEFINE fd == poll_fds[i]
           c == fdtab[fd]
           req == Head(conn[c].up)
           answer == Reply(AnswerTo(req.command, req.payload \in subscribed_topics[id]),
                           req.payload, 0)
<1>1. fd \in Fds /\ c \in Conns /\ Registered(c) /\ conn[c].up # <<>>
  BY PolledFdsFacts, OpenFds DEF ManageSubscribeUnsubscribe
<1>2. /\ conn' = Received(c) /\ UNCHANGED <<backlog, fdtab, console, buffered, udpq, poll_fds>>
      /\ subscribed_topics' = [subscribed_topics EXCEPT
           ![id] = TopicsAfter(subscribed_topics[id], req.command, req.payload)]
      /\ outbox' = <<[fd |-> fd, msg |-> answer]>>
      /\ UNCHANGED <<spc, sock, asked, tcp_ready, last>>
  BY DEF ManageSubscribeUnsubscribe, pollVars, subscriberVars
<1>3. /\ conn' \in [Conns -> Connections] /\ Descriptors' /\ Sessions'
      /\ req \in UpMessages
      /\ \A d \in Conns \ {c} : conn'[d] = conn[d]
  BY <1>1, <1>2, ServerReceives DEF subscriberVars
<1>4. conn[c].up \in Seq(UpMessages)
  BY <1>1 DEF ConnectionInv, MessageTypes, Connections
<1>5. req.payload \in Patterns
  <2>1. req = conn[c].up[1] /\ 1 \in DOMAIN conn[c].up
    BY <1>1, <1>4, ShorterQueue
  <2>2. req.command # CONNECT_REQ
    BY <1>1, <2>1 DEF ConnectionInv, RequestsInv
  <2> QED
    BY <1>3, <2>2, RequestFacts, AppAssumption DEF AppAssumption
<1>6. answer \in DownMessages
  BY <1>5, ReplyFacts, ZeroDatagrams DEF AnswerTo, Answers
<1>7. conn'[c].up = Tail(conn[c].up)
  BY <1>1, <1>2, ReceivedFacts DEF ConnectionInv, MessageTypes
<1> HIDE DEF answer, req, c, fd
<1>8. outbox' \in Seq([fd : Fds, msg : DownMessages])
  BY <1>1, <1>2, <1>6
<1>9. subscribed_topics' \in [Ids -> SUBSET Patterns]
  BY <1>2, <1>5 DEF TopicsAfter, ConnectionInv, MessageTypes
<1>10. MessageTypes' /\ ProcTypes'
  BY <1>2, <1>3, <1>8, <1>9 DEF ConnectionInv, MessageTypes, ProcTypes
<1>11. NothingSent
  <2>1. \A d \in Conns : Registered(d)' => Registered(d)
    BY <1>2 DEF Registered, ClientFds
  <2>2. \A d \in Conns :
          \/ conn'[d].up = conn[d].up
          \/ conn[d].up # <<>> /\ conn'[d].up = Tail(conn[d].up)
    BY <1>1, <1>3, <1>7
  <2>3. \A p \in Procs : At(p, "connected") => sock[p] \in Conns
    BY DEF ConnectionInv, Sessions, ProcTypes, At
  <2> QED
    BY <1>2, <2>1, <2>2, <2>3 DEF NothingSent, At
<1>12. RequestsInv'
  BY <1>11, RequestsKept DEF ConnectionInv, MessageTypes
<1> QED
  BY <1>3, <1>10, <1>12 DEF ConnectionInv

LEMMA ConnectionServerStep ==
  ASSUME RegistryInv, RoundInv, ConnectionInv, ServerNext,
         UNCHANGED <<subscriberVars, arrived>>
  PROVE  ConnectionInv'
<1>1. CASE Poll
  BY <1>1, ConnectionKept
     DEF Poll, socketVars, registryVars, pollVars, ConnectionInv, MessageTypes
<1>2. CASE CheckStdinData
  <2>1. CASE Halt("stopped")
    BY <2>1, ConnectionHalt
  <2>2. CASE ~ Halt("stopped")
    <3>1. /\ UNCHANGED <<conn, backlog, fdtab, poll_fds, subscribed_topics, udpq, outbox>>
          /\ console' = Tail(console)
          /\ \E n \in LinesRead : buffered' = n - 1
      BY <1>2, <2>2 DEF CheckStdinData, socketVars, registryVars, pollVars
    <3>2. console # <<>> /\ console \in Seq(Lines)
      <4>1. Len(console) > buffered /\ console \in Seq(Lines) /\ buffered \in Nat
        BY <1>2 DEF CheckStdinData, RoundInv, ConnectionInv, MessageTypes
      <4> QED
        BY <4>1, LenProperties, EmptySeq
    <3>3. /\ console' \in Seq(Lines) /\ Len(console') = Len(console) - 1
          /\ Len(console) \in Nat \ {0}
      BY <3>1, <3>2, HeadTailProperties, LenProperties, EmptySeq
    <3>4. LinesRead \subseteq 1..Len(console)
      BY <3>3 DEF LinesRead, ConnectionInv, MessageTypes
    <3>5. buffered' \in 0..Len(console')
      BY <3>1, <3>3, <3>4
    <3> QED
      BY <3>1, <3>3, <3>5, ConnectionKept DEF ConnectionInv, MessageTypes
  <2> QED
    BY <2>1, <2>2
<1>3. CASE ManageUdpMessage
  <2>1. UNCHANGED <<conn, backlog, fdtab, poll_fds, subscribed_topics, console, buffered>>
    BY <1>3 DEF ManageUdpMessage, socketVars, registryVars, pollVars
  <2>2. udpq # <<>> /\ udpq \in Seq(Datagrams)
    BY <1>3 DEF ManageUdpMessage, RoundInv, ConnectionInv, MessageTypes
  <2>3. Head(udpq) \in Datagrams /\ udpq' \in Seq(Datagrams)
    BY <1>3, <2>2, HeadTailProperties DEF ManageUdpMessage
  <2>4. outbox' \in Seq([fd : Fds, msg : DownMessages])
    <3>1. outbox' \in FanOut(Head(udpq)) \/ outbox' = <<>>
      BY <1>3 DEF ManageUdpMessage
    <3>2. ASSUME outbox' \in FanOut(Head(udpq))
          PROVE  outbox' \in Seq([fd : Fds, msg : DownMessages])
      BY <2>3, <3>2, FanOutTypes
    <3>3. <<>> \in Seq([fd : Fds, msg : DownMessages])
      OBVIOUS
    <3> QED
      BY <3>1, <3>2, <3>3
  <2> QED
    BY <2>1, <2>3, <2>4, ConnectionKept DEF ConnectionInv, MessageTypes
<1>4. CASE SendNext
  BY <1>4, ConnectionSendNext
<1>5. CASE SendFails \/ AcceptFails \/ DenialFails \/ NoIdArrives
  BY <1>5, ConnectionHalt DEF SendFails, AcceptFails, DenialFails, NoIdArrives
<1>6. CASE Accept
  BY <1>6, ConnectionAccept
<1>7. ASSUME NEW id \in Ids, RegisterClient(id)
      PROVE  ConnectionInv'
  <2>1. subscribed_topics' \in [Ids -> SUBSET Patterns]
    BY <1>7 DEF RegisterClient, ConnectionInv, MessageTypes
  <2> QED
    BY <1>7, <2>1, ConnectionAdmit DEF RegisterClient
<1>8. ASSUME NEW id \in Ids, ReconnectClient(id)
      PROVE  ConnectionInv'
  <2>1. subscribed_topics' \in [Ids -> SUBSET Patterns]
    BY <1>8 DEF ReconnectClient, ConnectionInv, MessageTypes
  <2> QED
    BY <1>8, <2>1, ConnectionAdmit DEF ReconnectClient
<1>9. ASSUME NEW id \in Ids, DenyClient(id)
      PROVE  ConnectionInv'
  BY <1>9, ConnectionDeny
<1>10. ASSUME NEW i \in DOMAIN poll_fds, NEW id \in Ids,
              ManageSubscribeUnsubscribe(i, id) \/ DisconnectClient(i, id)
       PROVE  ConnectionInv'
  BY <1>10, ConnectionRequest, ConnectionDisconnect
<1>11. ASSUME NEW i \in DOMAIN poll_fds, RecvFails(i)
       PROVE  ConnectionInv'
  BY <1>11, ConnectionHalt DEF RecvFails
<1> QED
  BY <1>1, <1>2, <1>3, <1>4, <1>5, <1>6, <1>7, <1>8, <1>9, <1>10, <1>11 DEF ServerNext

-----------------------------------------------------------------------------
(* The subscribers' steps.                                                 *)
ServerUntouched ==
  UNCHANGED <<console, buffered, udpq, outbox, poll_fds, subscribed_topics, arrived>>

LEMMA RunningSocket ==
  ASSUME ConnectionInv, NEW p \in Procs, ~ At(p, "off")
  PROVE  /\ sock[p] \in Conns /\ conn[sock[p]] \in Connections
         /\ conn[sock[p]].up \in Seq(UpMessages)
         /\ conn[sock[p]].down \in Seq(DownMessages)
         /\ conn[sock[p]].owner = p /\ conn[sock[p]].upEnd = "open"
         /\ \A q \in Procs \ {p} : sock[q] # sock[p]
<1>1. sock[p] \in Conns
  BY DEF ConnectionInv, Sessions, ProcTypes
<1>2. conn[sock[p]].owner = p /\ conn[sock[p]].upEnd = "open"
  BY <1>1, SocketsAssumption DEF ConnectionInv, Sessions, SocketsAssumption
<1>3. \A q \in Procs \ {p} : sock[q] # sock[p]
  BY <1>1, <1>2, SocketsAssumption DEF ConnectionInv, Sessions, SocketsAssumption
<1> QED
  BY <1>1, <1>2, <1>3 DEF ConnectionInv, MessageTypes, Connections

LEMMA ConnectionEnd ==
  ASSUME RegistryInv, ConnectionInv, NEW p \in Procs, ~ At(p, "off"), End(p),
         ServerUntouched
  PROVE  ConnectionInv'
<1> DEFINE c == sock[p]
<1>1. /\ c \in Conns /\ conn[c] \in Connections /\ conn[c].owner = p
      /\ \A q \in Procs \ {p} : sock[q] # c
  BY RunningSocket
<1>2. PICK new \in AfterClientClose(conn[c]) : conn' = [conn EXCEPT ![c] = new]
  BY DEF End
<1>3. /\ new \in Connections /\ (new.up = conn[c].up \/ new.up = <<>>)
      /\ HeldByServer(conn[c]) => HeldByServer(new)
  BY <1>1, <1>2, ClientCloseFacts, FreeConnFacts DEF HeldByServer
<1>4. /\ conn' \in [Conns -> Connections] /\ conn'[c] = new
      /\ \A d \in Conns \ {c} : conn'[d] = conn[d]
  BY <1>1, <1>2, <1>3 DEF ConnectionInv, MessageTypes
<1>5. /\ spc'[p] = "off" /\ sock'[p] = NoConn
      /\ \A q \in Procs \ {p} : spc'[q] = spc[q] /\ sock'[q] = sock[q] /\ asked'[q] = asked[q]
      /\ UNCHANGED <<backlog, fdtab, last>>
  BY DEF End, Goto, ConnectionInv, ProcTypes, MessageTypes
<1> HIDE DEF c
<1>6. ProcTypes'
  BY DEF End, Goto, ConnectionInv, ProcTypes
<1>7. MessageTypes'
  <2>1. asked' \in [Procs -> UpMessages \cup {NoRequest}]
    BY DEF End, ConnectionInv, MessageTypes
  <2> QED
    BY <1>4, <2>1 DEF ServerUntouched, ConnectionInv, MessageTypes
<1>8. Descriptors'
  <2>1. \A k \in DOMAIN backlog : backlog[k] \in Conns
    BY ElementOfSeq, LenProperties DEF RegistryInv, RegistryTypes
  <2>2. \A d \in Conns : HeldByServer(conn[d]) => HeldByServer(conn'[d])
    BY <1>3, <1>4
  <2>3. \A fd \in Fds : fdtab[fd] # NoConn => fdtab[fd] \in Conns
    BY DEF RegistryInv, RegistryTypes
  <2> QED
    BY <1>5, <2>1, <2>2, <2>3 DEF ConnectionInv, Descriptors
<1>9. Sessions'
  BY <1>1, <1>4, <1>5 DEF ConnectionInv, Sessions, ProcTypes, At
<1>10. NothingSent
  <2>1. \A d \in Conns : Registered(d)' => Registered(d)
    BY <1>5 DEF ServerUntouched, Registered, ClientFds
  <2>2. \A d \in Conns : conn'[d].up = conn[d].up \/ conn'[d].up = <<>>
    BY <1>3, <1>4
  <2>3. \A q \in Procs : At(q, "connected") => sock[q] \in Conns
    BY DEF ConnectionInv, Sessions, ProcTypes, At
  <2> QED
    BY <1>5, <2>1, <2>2, <2>3 DEF NothingSent, At
<1>11. RequestsInv'
  BY <1>10, RequestsKept DEF ConnectionInv, MessageTypes
<1> QED
  BY <1>6, <1>7, <1>8, <1>9, <1>11 DEF ConnectionInv

LEMMA ConnectionPrepare ==
  ASSUME RegistryInv, ConnectionInv, NEW p \in Procs, Prepare(p, Running),
         ServerUntouched
  PROVE  ConnectionInv'
<1>1. PICK c \in Conns : /\ conn[c] = FreeConn
                         /\ conn' = [conn EXCEPT ![c].owner = p]
                         /\ backlog' = Append(backlog, c)
                         /\ sock' = [sock EXCEPT ![p] = c]
  BY DEF Prepare
<1>2. UNCHANGED <<fdtab, asked, tcp_ready, last>> /\ spc' = [spc EXCEPT ![p] = "connected"]
  BY DEF Prepare, Goto
<1>3. /\ conn'[c] \in Connections /\ conn'[c].owner = p /\ conn'[c].upEnd = "open"
      /\ conn'[c].up = <<>> /\ HeldByServer(conn'[c])
      /\ \A d \in Conns \ {c} : conn'[d] = conn[d]
      /\ conn' \in [Conns -> Connections]
  <2>1. conn'[c] = [FreeConn EXCEPT !.owner = p]
    BY <1>1 DEF ConnectionInv, MessageTypes
  <2>2. /\ conn'[c] \in Connections /\ conn'[c].owner = p /\ conn'[c].upEnd = "open"
        /\ conn'[c].up = <<>> /\ conn'[c].downEnd = "open"
    BY <2>1, FreeConnFacts DEF FreeConn, Connections
  <2>3. p # NoProc
    BY SocketsAssumption DEF SocketsAssumption
  <2>4. conn' = [conn EXCEPT ![c] = conn'[c]]
    BY <1>1 DEF ConnectionInv, MessageTypes
  <2> QED
    BY <2>2, <2>3, <2>4 DEF ConnectionInv, MessageTypes, HeldByServer
<1>4. ~ HeldByServer(conn[c]) /\ (\A fd \in Fds : fdtab[fd] # c) /\ c \notin Range(backlog)
  <2>1. ~ HeldByServer(conn[c])
    BY <1>1, FreeConnFacts
  <2>2. c # NoConn
    BY SocketsAssumption DEF SocketsAssumption
  <2> QED
    BY <2>1, <2>2 DEF ConnectionInv, Descriptors, Range
<1>5. backlog \in Seq(Conns) /\ \A k \in DOMAIN backlog : backlog[k] \in Conns \ {c}
  BY <1>4, ElementOfSeq, LenProperties DEF RegistryInv, RegistryTypes, Range
<1>6. /\ DOMAIN backlog' = 1..(Len(backlog) + 1) /\ Len(backlog) \in Nat
      /\ DOMAIN backlog = 1..Len(backlog)
      /\ \A k \in DOMAIN backlog : backlog'[k] = backlog[k]
      /\ backlog'[Len(backlog) + 1] = c
      /\ IsInjective(backlog') /\ Range(backlog') = Range(backlog) \cup {c}
  <2>1. /\ backlog' \in Seq(Conns) /\ Len(backlog') = Len(backlog) + 1
        /\ \A k \in 1..Len(backlog) : backlog'[k] = backlog[k]
        /\ backlog'[Len(backlog) + 1] = c
    BY <1>1, <1>5, AppendProperties
  <2>2. IsInjective(backlog') /\ Range(backlog') = Range(backlog) \cup {c}
    BY <1>1, <1>4, <1>5, AppendRange DEF ConnectionInv, Descriptors
  <2> QED
    BY <1>5, <2>1, <2>2, LenProperties
<1>7. Descriptors'
  <2>1. \A k \in DOMAIN backlog' : HeldByServer(conn'[backlog'[k]])
    BY <1>3, <1>5, <1>6 DEF ConnectionInv, Descriptors
  <2>2. \A fd \in Fds : fdtab[fd] # NoConn => fdtab[fd] \in Conns \ {c}
    BY <1>4 DEF RegistryInv, RegistryTypes
  <2>3. \A fd \in Fds : fdtab[fd] # NoConn => HeldByServer(conn'[fdtab[fd]])
    BY <1>3, <2>2 DEF ConnectionInv, Descriptors
  <2>4. \A fd \in Fds : fdtab[fd] \notin Range(backlog')
    BY <1>4, <1>6 DEF ConnectionInv, Descriptors
  <2> QED
    BY <1>2, <1>6, <2>1, <2>3, <2>4 DEF ConnectionInv, Descriptors
<1>8. /\ spc'[p] = "connected" /\ sock'[p] = c
      /\ \A q \in Procs \ {p} : spc'[q] = spc[q] /\ sock'[q] = sock[q]
  BY <1>1, <1>2 DEF ConnectionInv, ProcTypes
<1>9. \A q \in Procs : sock[q] # c
  BY <1>1, FreeConnFacts, SocketsAssumption DEF ConnectionInv, Sessions, SocketsAssumption
<1>10. Sessions'
  BY <1>3, <1>8, <1>9, SocketsAssumption
     DEF ConnectionInv, Sessions, ProcTypes, At, SocketsAssumption
<1>11. MessageTypes' /\ ProcTypes'
  BY <1>1, <1>2, <1>3 DEF ServerUntouched, ConnectionInv, MessageTypes, ProcTypes
<1>12. RequestsInv'
  <2>1. \A d : Registered(d)' <=> Registered(d)
    BY <1>2 DEF ServerUntouched, Registered, ClientFds
  <2>2. ~ Registered(c)
    BY <1>4, OpenFds DEF Registered
  <2>3. ASSUME NEW q \in Procs
        PROVE  /\ At(q, "sending")' => asked'[q].command # CONNECT_REQ
               /\ At(q, "connected")' => conn'[sock'[q]].up = <<>> /\ ~ Registered(sock[q])'
    <3>1. CASE q = p
      BY <1>3, <1>8, <2>1, <2>2, <3>1 DEF At
    <3>2. CASE q # p
      <4>1. At(q, "connected") => sock[q] \in Conns \ {c}
        BY <1>9 DEF ConnectionInv, Sessions, ProcTypes, At
      <4> QED
        BY <1>2, <1>3, <1>8, <2>1, <3>2, <4>1 DEF ConnectionInv, RequestsInv, At
    <3> QED
      BY <3>1, <3>2
  <2>4. ASSUME NEW d \in Conns, NEW k \in DOMAIN conn'[d].up,
               conn'[d].up[k].command = CONNECT_REQ
        PROVE  k = 1 /\ ~ Registered(d)'
    <3>1. d # c
      BY <1>3
    <3> QED
      BY <1>3, <2>1, <2>4, <3>1 DEF ConnectionInv, RequestsInv
  <2> QED
    BY <2>3, <2>4 DEF RequestsInv
<1> QED
  BY <1>7, <1>10, <1>11, <1>12 DEF ConnectionInv

(* A send of a subscriber.  Only its first message is an identification.   *)
LEMMA ConnectionSend ==
  ASSUME RegistryInv, ConnectionInv, NEW p \in Procs, ~ At(p, "off"),
         NEW m \in UpMessages, conn' = AfterSendUp(sock[p], m),
         m.command = CONNECT_REQ =>
           conn[sock[p]].up = <<>> /\ ~ Registered(sock[p]),
         NEW place \in {"awaitAccept", "awaitAnswer"}, Goto(p, place),
         UNCHANGED <<backlog, fdtab, sock, asked, tcp_ready, last>>, ServerUntouched
  PROVE  ConnectionInv'
<1> DEFINE c == sock[p]
           new == IF conn[c].downEnd = "open"
                  THEN [conn[c] EXCEPT !.up = Append(conn[c].up, m)] ELSE conn[c]
<1>1. /\ c \in Conns /\ conn[c] \in Connections /\ conn[c].up \in Seq(UpMessages)
      /\ \A q \in Procs \ {p} : sock[q] # c
  BY RunningSocket
<1>2. Append(conn[c].up, m) \in Seq(UpMessages)
  BY <1>1, AppendProperties
<1>3. /\ new \in Connections /\ new.owner = conn[c].owner
      /\ new.upEnd = conn[c].upEnd /\ new.downEnd = conn[c].downEnd
      /\ (new.up = conn[c].up \/ new.up = Append(conn[c].up, m))
  BY <1>1, <1>2, UpReplaced
<1>4. conn' = [conn EXCEPT ![c] = new]
  BY <1>1 DEF AfterSendUp, ConnectionInv, MessageTypes
<1> HIDE DEF new, c
<1>5. /\ spc'[p] = place
      /\ \A q \in Procs \ {p} : spc'[q] = spc[q]
  BY DEF Goto, ConnectionInv, ProcTypes
<1>6. \A q \in Procs : At(q, "off")' <=> At(q, "off")
  BY <1>5 DEF At
<1>7. /\ conn' \in [Conns -> Connections]
      /\ conn'[c] = new /\ \A d \in Conns \ {c} : conn'[d] = conn[d]
      /\ SameHolders
  BY <1>1, <1>3, <1>4, <1>6, QueueStep DEF ConnectionInv, MessageTypes
<1>8. Descriptors' /\ Sessions'
  BY <1>7, HoldersKept DEF ConnectionInv, RegistryInv
<1>9. MessageTypes' /\ ProcTypes'
  BY <1>7 DEF ServerUntouched, Goto, ConnectionInv, MessageTypes, ProcTypes
<1>10. \A d : Registered(d)' <=> Registered(d)
  BY DEF ServerUntouched, Registered, ClientFds
<1>11. RequestsInv'
  <2>1. ASSUME NEW q \in Procs
        PROVE  /\ At(q, "sending")' => asked'[q].command # CONNECT_REQ
               /\ At(q, "connected")' => conn'[sock'[q]].up = <<>> /\ ~ Registered(sock[q])'
    <3>1. CASE q = p
      BY <1>5, <3>1 DEF At
    <3>2. CASE q # p
      <4>1. At(q, "connected") => sock[q] \in Conns \ {c}
        BY <1>1, <3>2 DEF ConnectionInv, Sessions, ProcTypes, At
      <4> QED
        BY <1>5, <1>7, <1>10, <3>2, <4>1 DEF ConnectionInv, RequestsInv, At
    <3> QED
      BY <3>1, <3>2
  <2>2. ASSUME NEW d \in Conns, NEW k \in DOMAIN conn'[d].up,
               conn'[d].up[k].command = CONNECT_REQ
        PROVE  k = 1 /\ ~ Registered(d)'
    <3>1. CASE d # c \/ new.up = conn[c].up
      BY <1>1, <1>7, <1>10, <2>2, <3>1 DEF ConnectionInv, RequestsInv
    <3>2. CASE d = c /\ new.up = Append(conn[c].up, m)
      <4>1. /\ Len(conn[c].up) \in Nat /\ DOMAIN conn[c].up = 1..Len(conn[c].up)
            /\ DOMAIN new.up = 1..(Len(conn[c].up) + 1)
            /\ \A j \in 1..Len(conn[c].up) : new.up[j] = conn[c].up[j]
            /\ new.up[Len(conn[c].up) + 1] = m
        BY <1>1, <1>2, <3>2, AppendProperties, LenProperties
      <4>2. CASE k \in DOMAIN conn[c].up
        BY <1>1, <1>7, <1>10, <2>2, <3>2, <4>1, <4>2 DEF ConnectionInv, RequestsInv
      <4>3. CASE k \notin DOMAIN conn[c].up
        <5>1. k = Len(conn[c].up) + 1 /\ m.command = CONNECT_REQ
          BY <1>7, <2>2, <3>2, <4>1, <4>3
        <5>2. conn[c].up = <<>> /\ ~ Registered(c)
          BY <5>1 DEF c
        <5> QED
          BY <1>10, <3>2, <4>1, <5>1, <5>2
      <4> QED
        BY <4>2, <4>3
    <3> QED
      BY <1>3, <3>1, <3>2
  <2> QED
    BY <2>1, <2>2 DEF RequestsInv
<1> QED
  BY <1>8, <1>9, <1>11 DEF ConnectionInv

(* A recv() of a subscriber; at the end of the connection it takes nothing.*)
LEMMA ConnectionReceive ==
  ASSUME RegistryInv, ConnectionInv, NEW p \in Procs, ~ At(p, "off"),
         (Incoming(p) /\ Take(p)) \/ UNCHANGED conn,
         NEW place \in {"poll", "tcp"}, Goto(p, place),
         UNCHANGED <<backlog, fdtab, sock>>, ServerUntouched,
         asked' = asked \/ asked' = [asked EXCEPT ![p] = NoRequest],
         tcp_ready' \in [Procs -> BOOLEAN], last' \in [Procs -> 0..MaxDatagrams]
  PROVE  ConnectionInv'
<1> DEFINE c == sock[p]
           new == IF conn' = conn THEN conn[c]
                  ELSE [conn[c] EXCEPT !.down = Tail(conn[c].down)]
<1>1. /\ c \in Conns /\ conn[c] \in Connections /\ conn[c].down \in Seq(DownMessages)
  BY RunningSocket
<1>2. conn' # conn => Tail(conn[c].down) \in Seq(DownMessages)
  BY <1>1, HeadTailProperties DEF Incoming
<1>3. /\ new \in Connections /\ new.owner = conn[c].owner /\ new.up = conn[c].up
      /\ new.upEnd = conn[c].upEnd /\ new.downEnd = conn[c].downEnd
  BY <1>1, <1>2, DownReplaced
<1>4. conn' = [conn EXCEPT ![c] = new]
  BY <1>1 DEF Take, ConnectionInv, MessageTypes
<1> HIDE DEF new, c
<1>5. /\ spc'[p] = place
      /\ \A q \in Procs \ {p} : spc'[q] = spc[q] /\ asked'[q] = asked[q]
  BY DEF Goto, ConnectionInv, ProcTypes, MessageTypes
<1>6. \A q \in Procs : At(q, "off")' <=> At(q, "off")
  BY <1>5 DEF At
<1>7. /\ conn' \in [Conns -> Connections]
      /\ conn'[c] = new /\ \A d \in Conns \ {c} : conn'[d] = conn[d]
      /\ SameHolders
  BY <1>1, <1>3, <1>4, <1>6, QueueStep DEF ConnectionInv, MessageTypes
<1>8. Descriptors' /\ Sessions'
  BY <1>7, HoldersKept DEF ConnectionInv, RegistryInv
<1>9. MessageTypes' /\ ProcTypes'
  BY <1>7 DEF ServerUntouched, Goto, ConnectionInv, MessageTypes, ProcTypes
<1>10. NothingSent
  <2>1. \A d \in Conns : Registered(d)' => Registered(d)
    BY DEF ServerUntouched, Registered, ClientFds
  <2>2. \A d \in Conns : conn'[d].up = conn[d].up
    BY <1>3, <1>7
  <2>3. \A q \in Procs : At(q, "connected") => sock[q] \in Conns
    BY DEF ConnectionInv, Sessions, ProcTypes, At
  <2> QED
    BY <1>5, <2>1, <2>2, <2>3 DEF NothingSent, At
<1>11. RequestsInv'
  BY <1>10, RequestsKept DEF ConnectionInv, MessageTypes
<1> QED
  BY <1>8, <1>9, <1>11 DEF ConnectionInv

LEMMA ConnectionTypeRequest ==
  ASSUME RegistryInv, ConnectionInv, NEW p \in Procs,
         NEW command \in {SUBSCRIBE_REQ, UNSUBSCRIBE_REQ}, NEW topic \in SubTopics,
         TypeRequest(p, command, topic), ServerUntouched
  PROVE  ConnectionInv'
<1>1. /\ UNCHANGED <<conn, backlog, fdtab, sock, last>>
      /\ asked' = [asked EXCEPT ![p] = Request(command, topic)]
      /\ tcp_ready' = [tcp_ready EXCEPT ![p] = DownReadable(sock[p])]
      /\ spc' = [spc EXCEPT ![p] = "sending"] /\ At(p, "poll")
  BY DEF TypeRequest, Goto, socketVars
<1>2. /\ Request(command, topic) \in UpMessages
      /\ Request(command, topic).command # CONNECT_REQ
  BY RequestFacts
<1>3. /\ spc'[p] = "sending" /\ asked'[p] = Request(command, topic)
      /\ \A q \in Procs \ {p} : spc'[q] = spc[q] /\ asked'[q] = asked[q]
  BY <1>1 DEF ConnectionInv, ProcTypes, MessageTypes
<1>4. MessageTypes'
  BY <1>1, <1>2 DEF ServerUntouched, ConnectionInv, MessageTypes
<1>5. DownReadable(sock[p]) \in BOOLEAN
  BY DEF DownReadable
<1>6. ProcTypes'
  BY <1>1, <1>5 DEF ConnectionInv, ProcTypes
<1>7. SameHolders
  BY <1>1, <1>3 DEF SameHolders, At
<1>8. Descriptors' /\ Sessions'
  BY <1>7, HoldersKept DEF ConnectionInv, RegistryInv
<1>9. \A d : Registered(d)' <=> Registered(d)
  BY <1>1 DEF ServerUntouched, Registered, ClientFds
<1>10. RequestsInv'
  BY <1>1, <1>2, <1>3, <1>9 DEF ConnectionInv, RequestsInv, At
<1> QED
  BY <1>4, <1>6, <1>8, <1>10 DEF ConnectionInv

LEMMA ConnectionProcStep ==
  ASSUME RegistryInv, ConnectionInv, NEW p \in Procs, SubscriberStep(p), ServerUntouched
  PROVE  ConnectionInv'
<1>1. CASE SendId(p)
  <2>1. Request(CONNECT_REQ, IdOf[p]) \in UpMessages
    BY RequestFacts, AppAssumption DEF AppAssumption
  <2>2. conn[sock[p]].up = <<>> /\ ~ Registered(sock[p])
    BY <1>1 DEF SendId, ConnectionInv, RequestsInv
  <2>3. ~ At(p, "off")
    BY <1>1 DEF SendId, At
  <2> QED
    BY <1>1, <2>1, <2>2, <2>3, ConnectionSend DEF SendId
<1>2. CASE SendRequest(p)
  <2>1. asked[p] \in UpMessages /\ asked[p].command # CONNECT_REQ
    BY <1>2, RequestFacts DEF SendRequest, ConnectionInv, RequestsInv, MessageTypes
  <2>2. ~ At(p, "off")
    BY <1>2 DEF SendRequest, At
  <2> QED
    BY <1>2, <2>1, <2>2, ConnectionSend DEF SendRequest
<1>3. CASE Accepted(p)
  <2>1. ~ At(p, "off")
    BY <1>3 DEF Accepted, At
  <2> QED
    BY <1>3, <2>1, ConnectionReceive DEF Accepted, ConnectionInv, ProcTypes
<1>4. CASE RecvAnswer(p)
  <2>1. ~ At(p, "off")
    BY <1>4 DEF RecvAnswer, At
  <2>2. AfterStdin(p) \in {"poll", "tcp"}
    BY DEF AfterStdin
  <2>3. tcp_ready' \in [Procs -> BOOLEAN] /\ last' \in [Procs -> 0..MaxDatagrams]
    BY <1>4 DEF RecvAnswer, ConnectionInv, ProcTypes
  <2> QED
    BY <1>4, <2>1, <2>2, <2>3, ConnectionReceive DEF RecvAnswer
<1>5. CASE RecvTcp(p)
  <2>1. ~ At(p, "off")
    BY <1>5 DEF RecvTcp, At
  <2>2. FirstIn(p) \in DownMessages
    BY <1>5, <2>1, RunningSocket, HeadTailProperties DEF RecvTcp, Incoming, FirstIn
  <2>3. FirstIn(p).n \in 0..MaxDatagrams
    BY <2>2 DEF DownMessages
  <2>4. tcp_ready' \in [Procs -> BOOLEAN] /\ last' \in [Procs -> 0..MaxDatagrams]
    BY <1>5, <2>3 DEF RecvTcp, ConnectionInv, ProcTypes
  <2> QED
    BY <1>5, <2>1, <2>4, ConnectionReceive DEF RecvTcp
<1>6. CASE ServerGone(p) \/ RecvDies(p) \/ Denied(p) \/ ServerClosedIt(p)
  <2>1. ~ At(p, "off") /\ End(p)
    BY <1>6 DEF ServerGone, RecvDies, Denied, ServerClosedIt, At
  <2> QED
    BY <2>1, ConnectionEnd
<1> QED
  BY <1>1, <1>2, <1>3, <1>4, <1>5, <1>6 DEF SubscriberStep

LEMMA ConnectionUserStep ==
  ASSUME RegistryInv, ConnectionInv, NEW p \in Procs, UserStep(p, Running),
         ServerUntouched
  PROVE  ConnectionInv'
<1>1. CASE Prepare(p, Running)
  BY <1>1, ConnectionPrepare
<1>2. CASE Exit(p) \/ Kill(p)
  <2>1. ~ At(p, "off") /\ End(p)
    BY <1>2 DEF Exit, Kill, At
  <2> QED
    BY <2>1, ConnectionEnd
<1>3. ASSUME NEW command \in {SUBSCRIBE_REQ, UNSUBSCRIBE_REQ}, NEW topic \in SubTopics,
             TypeRequest(p, command, topic)
      PROVE  ConnectionInv'
  BY <1>3, ConnectionTypeRequest
<1> QED
  BY <1>1, <1>2, <1>3 DEF UserStep

-----------------------------------------------------------------------------
LEMMA ConnectionNext ==
  ASSUME RegistryInv, RoundInv, ConnectionInv, [Next]_vars
  PROVE  ConnectionInv'
<1>1. CASE ServerStep
  BY <1>1, ConnectionServerStep DEF ServerStep
<1>2. ASSUME NEW p \in Procs, ProcStep(p) \/ UserOf(p)
      PROVE  ConnectionInv'
  <2>1. ServerUntouched
    BY <1>2 DEF ProcStep, UserOf, ServerUntouched, serverVars, registryVars, pollVars
  <2> QED
    BY <1>2, <2>1, ConnectionProcStep, ConnectionUserStep DEF ProcStep, UserOf
<1>3. CASE TypeConsole
  <2>1. PICK line \in Lines : console' = Append(console, line)
    BY <1>3 DEF TypeConsole, TypeLine
  <2>2. /\ console' \in Seq(Lines) /\ Len(console') = Len(console) + 1
        /\ Len(console) \in Nat
    BY <2>1, AppendProperties, LenProperties DEF ConnectionInv, MessageTypes
  <2>3. /\ UNCHANGED <<conn, backlog, fdtab, poll_fds, subscribed_topics, udpq, outbox,
                       buffered>>
        /\ UNCHANGED <<subscriberVars, arrived>>
    BY <1>3 DEF TypeConsole, TypeLine, socketVars, registryVars, pollVars
  <2>4. buffered' \in 0..Len(console')
    BY <2>2, <2>3 DEF ConnectionInv, MessageTypes
  <2> QED
    BY <2>2, <2>3, <2>4, ConnectionKept DEF ConnectionInv, MessageTypes
<1>4. CASE SendDatagram
  <2>1. PICK topic \in Topics, valid \in BOOLEAN :
          ArriveDatagram(topic, valid, arrived + 1)
    BY <1>4 DEF SendDatagram
  <2>2. /\ arrived' \in 0..MaxDatagrams
        /\ [topic |-> topic, valid |-> valid, n |-> arrived + 1] \in Datagrams
    BY <1>4, AppAssumption
       DEF SendDatagram, ConnectionInv, MessageTypes, Datagrams, AppAssumption
  <2>3. udpq' \in Seq(Datagrams)
    BY <2>1, <2>2, AppendProperties DEF ConnectionInv, MessageTypes, ArriveDatagram
  <2>4. /\ UNCHANGED <<conn, backlog, fdtab, poll_fds, subscribed_topics, console,
                       buffered, outbox>>
        /\ UNCHANGED subscriberVars
    BY <1>4, <2>1 DEF SendDatagram, ArriveDatagram, socketVars, registryVars, pollVars
  <2> QED
    BY <2>2, <2>3, <2>4, ConnectionKept DEF ConnectionInv, MessageTypes
<1>5. CASE UNCHANGED vars
  BY <1>5, ConnectionKept
     DEF vars, socketVars, serverVars, registryVars, pollVars, subscriberVars,
         ConnectionInv, MessageTypes
<1> QED
  BY <1>1, <1>2, <1>3, <1>4, <1>5 DEF Next, Finished

-----------------------------------------------------------------------------
(* A client poll() reported can still be read when the loop comes to it:   *)
(* what was on its connection, or its end, is still there.                 *)
ReadyInv == \A fd \in ClientFds \cap revents : UpReadable(fdtab[fd])

(* The connection of a client in the poll set is open at the server's end  *)
(* and no other descriptor's.                                              *)
LEMMA ClientConnection ==
  ASSUME RegistryInv, ConnectionInv, NEW fd \in ClientFds
  PROVE  /\ fd \in Fds /\ fdtab[fd] \in Conns /\ conn[fdtab[fd]] \in Connections
         /\ HeldByServer(conn[fdtab[fd]])
         /\ \A x \in Fds \ {fd} : fdtab[x] # fdtab[fd]
<1>1. fd \in Fds /\ fdtab[fd] \in Conns
  BY OpenFds
<1>2. fdtab[fd] # NoConn
  BY <1>1, SocketsAssumption DEF SocketsAssumption
<1> QED
  BY <1>1, <1>2 DEF ConnectionInv, Descriptors, MessageTypes

(* A step that reports nothing new, admits nobody and takes nothing from   *)
(* the connections of the clients that are still reported.                 *)
LEMMA ReadyKept ==
  ASSUME ReadyInv, revents' \subseteq revents, ClientFds' \subseteq ClientFds,
         \A fd \in ClientFds' \cap revents' :
           /\ fdtab'[fd] = fdtab[fd]
           /\ conn'[fdtab[fd]].up = conn[fdtab[fd]].up
           /\ conn'[fdtab[fd]].upEnd = conn[fdtab[fd]].upEnd
  PROVE  ReadyInv'
BY DEF ReadyInv, UpReadable

LEMMA ReadyAdmit ==
  ASSUME RegistryInv, RoundInv, ConnectionInv, ReadyInv, NEW id \in Ids, IdArrived(id),
         AdmitClient(id)
  PROVE  ReadyInv'
<1>1. /\ conn' = Received(fdtab[newfd]) /\ UNCHANGED <<fdtab, revents>>
      /\ poll_fds' = Append(poll_fds, newfd)
  BY DEF AdmitClient, ReventsWithEntry
<1>2. newfd \in Fds /\ fdtab[newfd] \in Conns /\ conn[fdtab[newfd]].up # <<>>
  BY OpenFds DEF IdArrived, RegistryInv
<1>3. newfd \notin revents
  BY <1>2, FdFacts DEF RoundInv, RoundTypes, PolledFds, RegistryInv
<1>4. ASSUME NEW fd \in ClientFds' \cap revents'
      PROVE  UpReadable(fdtab[fd])'
  <2>1. fd \in ClientFds \cap revents /\ fd # newfd
    BY <1>1, <1>2, <1>3, AppendRange DEF ClientFds, RegistryInv, RegistryTypes
  <2>2. fdtab[fd] \in Conns /\ fdtab[fd] # fdtab[newfd]
    BY <1>2, <2>1, ClientConnection
  <2>3. conn'[fdtab[fd]] = conn[fdtab[fd]]
    BY <1>1, <1>2, <2>2, ReceivedFacts DEF ConnectionInv, MessageTypes
  <2> QED
    BY <1>1, <2>1, <2>3 DEF ReadyInv, UpReadable
<1> QED
  BY <1>4 DEF ReadyInv

(* The one connection a handler takes from is that of the descriptor whose *)
(* revents it clears.                                                      *)
LEMMA ReadyClient ==
  ASSUME RegistryInv, ConnectionInv, ReadyInv, NEW i \in DOMAIN poll_fds, NEW id \in Ids,
         ManageSubscribeUnsubscribe(i, id) \/ DisconnectClient(i, id)
  PROVE  ReadyInv'
<1> DEFINE fd == poll_fds[i]
           c == fdtab[fd]
<1>1. fd \in ClientFds /\ fd \in Fds /\ c \in Conns
  BY PolledFdsFacts, OpenFds
<1>2. /\ revents' = revents \ {fd}
      /\ ClientFds' \subseteq ClientFds
      /\ \A x \in Fds \ {fd} : fdtab'[x] = fdtab[x]
      /\ \A d \in Conns \ {c} : conn'[d] = conn[d]
  <2>1. CASE ManageSubscribeUnsubscribe(i, id)
    <3>1. /\ revents' = revents \ {fd} /\ UNCHANGED <<poll_fds, fdtab>>
          /\ conn' = Received(c) /\ conn[c].up # <<>>
      BY <2>1 DEF ManageSubscribeUnsubscribe, pollVars
    <3> QED
      BY <1>1, <3>1, ReceivedFacts DEF ClientFds, ConnectionInv, MessageTypes
  <2>2. CASE DisconnectClient(i, id)
    <3>1. /\ revents' = revents \ {fd} /\ poll_fds' = RemoveAt(poll_fds, i)
          /\ fdtab' = [fdtab EXCEPT ![fd] = NoConn]
      BY <2>2 DEF DisconnectClient, AfterClose
    <3>2. PICK new \in AfterServerClose(conn[c]) : conn' = [conn EXCEPT ![c] = new]
      BY <2>2 DEF DisconnectClient
    <3>3. ClientFds' \subseteq ClientFds
      BY <3>1, PolledFdsFacts, RemoveAtRange
         DEF ClientFds, RegistryInv, PollSetMatchesRegistry
    <3>4. \A x \in Fds \ {fd} : fdtab'[x] = fdtab[x]
      BY <3>1 DEF RegistryInv, RegistryTypes
    <3>5. \A d \in Conns \ {c} : conn'[d] = conn[d]
      BY <3>2 DEF ConnectionInv, MessageTypes
    <3> QED
      BY <3>1, <3>3, <3>4, <3>5
  <2> QED
    BY <2>1, <2>2
<1> HIDE DEF fd, c
<1>3. ASSUME NEW x \in ClientFds' \cap revents'
      PROVE  fdtab'[x] = fdtab[x] /\ conn'[fdtab[x]] = conn[fdtab[x]]
  <2>1. x \in ClientFds /\ x # fd
    BY <1>2
  <2>2. x \in Fds /\ fdtab[x] \in Conns /\ fdtab[x] # c
    BY <1>1, <2>1, ClientConnection DEF c
  <2> QED
    BY <1>2, <2>1, <2>2
<1> QED
  BY <1>2, <1>3, ReadyKept

LEMMA ReadyServerStep ==
  ASSUME RegistryInv, RoundInv, ConnectionInv, ReadyInv, ServerNext
  PROVE  ReadyInv'
<1> USE DEF pollVars, socketVars
<1>1. CASE Poll
  <2>1. revents' = ReadyFds /\ UNCHANGED <<poll_fds, conn, fdtab>>
    BY <1>1 DEF Poll
  <2>2. \A fd \in ClientFds : fd \in Fds
    BY PolledFdsFacts
  <2> QED
    BY <2>1, <2>2, FdFacts DEF ReadyInv, ReadyFds, Readable, UpReadable, ClientFds,
                               STDIN_FILENO, udp_sockfd, tcp_sockfd
<1>2. ASSUME NEW how, Halt(how) PROVE ReadyInv'
  BY <1>2 DEF Halt, ReadyInv
<1>3. CASE CheckStdinData \/ ManageUdpMessage
  <2>1. CASE Halt("stopped")
    BY <1>2, <2>1
  <2>2. CASE revents' \subseteq revents /\ UNCHANGED <<poll_fds, conn, fdtab>>
    BY <2>2, ReadyKept DEF ClientFds
  <2> QED
    BY <1>3, <2>1, <2>2 DEF CheckStdinData, ManageUdpMessage
<1>4. CASE SendNext
  <2> DEFINE c == fdtab[Head(outbox).fd]
  <2>1. conn' = AfterSendDown(c, Head(outbox).msg) /\ UNCHANGED <<poll_fds, revents, fdtab>>
    BY <1>4 DEF SendNext
  <2> HIDE DEF c
  <2>2. \A d \in Conns : conn'[d].up = conn[d].up /\ conn'[d].upEnd = conn[d].upEnd
    BY <2>1 DEF AfterSendDown, ConnectionInv, MessageTypes, Connections
  <2> QED
    BY <2>1, <2>2, ReadyKept, ClientConnection DEF ClientFds
<1>5. CASE SendFails \/ AcceptFails \/ DenialFails \/ NoIdArrives
  BY <1>2, <1>5 DEF SendFails, AcceptFails, DenialFails, NoIdArrives
<1>6. CASE Accept
  <2>1. PICK x \in Fds : fdtab[x] = NoConn /\ fdtab' = [fdtab EXCEPT ![x] = Head(backlog)]
    BY <1>6 DEF Accept, IsNextFd
  <2>2. revents' \subseteq revents /\ UNCHANGED <<poll_fds, conn>>
    BY <1>6 DEF Accept
  <2>3. \A fd \in ClientFds : fdtab'[fd] = fdtab[fd]
    BY <2>1, ClientConnection, SocketsAssumption
       DEF SocketsAssumption, RegistryInv, RegistryTypes
  <2> QED
    BY <2>2, <2>3, ReadyKept DEF ClientFds
<1>7. ASSUME NEW id \in Ids, RegisterClient(id) \/ ReconnectClient(id)
      PROVE  ReadyInv'
  BY <1>7, ReadyAdmit DEF RegisterClient, ReconnectClient
<1>8. ASSUME NEW id \in Ids, DenyClient(id)
      PROVE  ReadyInv'
  <2> DEFINE c == fdtab[newfd]
  <2>1. newfd \in Fds \ ClientFds
    BY <1>8, OpenFds DEF DenyClient, IdArrived, RegistryInv
  <2>2. /\ \E new : conn' = [conn EXCEPT ![c] = new]
        /\ fdtab' = [fdtab EXCEPT ![newfd] = NoConn]
        /\ UNCHANGED <<poll_fds, revents>>
    BY <1>8 DEF DenyClient, AfterDenial, AfterClose
  <2>3. ASSUME NEW fd \in ClientFds
        PROVE  fdtab'[fd] = fdtab[fd] /\ conn'[fdtab[fd]] = conn[fdtab[fd]]
    <3>1. fd \in Fds /\ fdtab[fd] \in Conns /\ fdtab[fd] # c /\ fd # newfd
      BY <2>1, ClientConnection
    <3> HIDE DEF c
    <3> QED
      BY <2>2, <3>1 DEF RegistryInv, RegistryTypes, ConnectionInv, MessageTypes
  <2> QED
    BY <2>2, <2>3, ReadyKept DEF ClientFds
<1>9. ASSUME NEW i \in DOMAIN poll_fds, NEW id \in Ids,
             ManageSubscribeUnsubscribe(i, id) \/ DisconnectClient(i, id)
      PROVE  ReadyInv'
  BY <1>9, ReadyClient
<1>10. ASSUME NEW i \in DOMAIN poll_fds, RecvFails(i)
       PROVE  ReadyInv'
  BY <1>2, <1>10 DEF RecvFails
<1> QED
  BY <1>1, <1>3, <1>4, <1>5, <1>6, <1>7, <1>8, <1>9, <1>10 DEF ServerNext

(* What a subscriber does to a connection the server still holds leaves it *)
(* readable at the server's end.                                           *)
LEMMA ReadyProcess ==
  ASSUME RegistryInv, ConnectionInv, ReadyInv, NEW p \in Procs,
         SubscriberStep(p) \/ UserStep(p, Running), ServerUntouched,
         UNCHANGED revents
  PROVE  ReadyInv'
<1>1. UNCHANGED fdtab
  BY DEF SubscriberStep, UserStep, Prepare, SendId, ServerGone, RecvDies, Accepted, Denied,
         SendRequest, RecvAnswer, RecvTcp, ServerClosedIt, Exit, TypeRequest, Kill, End,
         socketVars
<1>2. ASSUME NEW fd \in ClientFds, UpReadable(fdtab[fd])
      PROVE  conn'[fdtab[fd]].up # <<>> \/ conn'[fdtab[fd]].upEnd # "open"
  <2> DEFINE d == fdtab[fd]
             k == conn[d]
  <2>1. d \in Conns /\ k \in Connections /\ HeldByServer(k)
    BY ClientConnection
  <2>2. k.up # <<>> \/ k.upEnd # "open"
    BY <1>2 DEF UpReadable
  <2>3. k.up \in Seq(UpMessages) /\ conn \in [Conns -> Connections]
    BY <2>1 DEF Connections, ConnectionInv, MessageTypes
  <2> HIDE DEF d
  <2>4. ASSUME End(p)
        PROVE  conn'[d] = k \/ conn'[d].upEnd \in Closings
    <3>1. PICK new \in AfterClientClose(conn[sock[p]]) : conn' = [conn EXCEPT ![sock[p]] = new]
      BY <2>4 DEF End
    <3>2. CASE sock[p] = d
      <4>1. k.downEnd = "open"
        BY <2>1 DEF HeldByServer
      <4>2. PICK e \in Closings : new = [k EXCEPT !.upEnd = e, !.down = <<>>]
        BY <3>1, <3>2, <4>1 DEF AfterClientClose, Closings
      <4>3. conn'[d] = new
        BY <2>1, <2>3, <3>1, <3>2
      <4> QED
        BY <2>1, <4>2, <4>3 DEF Connections
    <3>3. CASE sock[p] # d
      BY <2>1, <2>3, <3>1, <3>3
    <3> QED
      BY <3>2, <3>3
  <2>5. ASSUME SendId(p) \/ SendRequest(p)
        PROVE  conn'[d].upEnd = k.upEnd /\ (conn'[d].up = k.up \/ conn'[d].up # <<>>)
    <3>1. PICK m \in UpMessages : conn' = AfterSendUp(sock[p], m)
      <4>1. Request(CONNECT_REQ, IdOf[p]) \in UpMessages
        BY RequestFacts, AppAssumption DEF AppAssumption
      <4>2. CASE SendId(p)
        BY <4>1, <4>2 DEF SendId
      <4>3. CASE SendRequest(p)
        <5>1. asked[p] \in UpMessages
          BY <4>3, RequestFacts DEF SendRequest, ConnectionInv, RequestsInv, MessageTypes
        <5> QED
          BY <4>3, <5>1 DEF SendRequest
      <4> QED
        BY <2>5, <4>2, <4>3
    <3>2. Append(k.up, m) # <<>>
      BY <2>3, AppendProperties
    <3>3. /\ conn'[d].upEnd = k.upEnd
          /\ conn'[d].up \in {k.up, Append(k.up, m)}
      BY <2>1, <2>3, <3>1 DEF AfterSendUp, Connections
    <3> QED
      BY <3>2, <3>3
  <2>6. ASSUME Accepted(p) \/ RecvAnswer(p) \/ RecvTcp(p)
        PROVE  conn'[d].up = k.up /\ conn'[d].upEnd = k.upEnd
    <3>1. CASE UNCHANGED conn
      BY <3>1
    <3>2. CASE Take(p)
      BY <2>1, <2>3, <3>2 DEF Take, Connections
    <3> QED
      BY <2>6, <3>1, <3>2 DEF Accepted, RecvAnswer, RecvTcp
  <2>7. ASSUME Prepare(p, Running)
        PROVE  conn'[d] = k
    <3>1. PICK c \in Conns : conn[c] = FreeConn /\ conn' = [conn EXCEPT ![c].owner = p]
      BY <2>7 DEF Prepare
    <3>2. c # d
      BY <2>1, <3>1, FreeConnFacts
    <3> QED
      BY <2>1, <2>3, <3>1, <3>2
  <2>8. ASSUME NEW command, NEW topic, TypeRequest(p, command, topic)
        PROVE  conn'[d] = k
    BY <2>8 DEF TypeRequest, socketVars
  <2> HIDE DEF k
  <2>9. \/ conn'[d] = k
        \/ conn'[d].upEnd \in Closings
        \/ conn'[d].upEnd = k.upEnd /\ (conn'[d].up = k.up \/ conn'[d].up # <<>>)
    <3>1. CASE SubscriberStep(p)
      BY <2>4, <2>5, <2>6, <3>1
         DEF SubscriberStep, ServerGone, RecvDies, Denied, ServerClosedIt
    <3>2. CASE UserStep(p, Running)
      BY <2>4, <2>7, <2>8, <3>2 DEF UserStep, Exit, Kill
    <3> QED
      BY <3>1, <3>2
  <2>10. \A e \in Closings : e # "open"
    BY DEF Closings
  <2> QED
    BY <2>2, <2>9, <2>10 DEF k, d
<1>3. ClientFds' = ClientFds
  BY DEF ServerUntouched, ClientFds
<1> QED
  BY <1>1, <1>2, <1>3 DEF ReadyInv, UpReadable

LEMMA ReadyNext ==
  ASSUME RegistryInv, RoundInv, ConnectionInv, ReadyInv, [Next]_vars
  PROVE  ReadyInv'
<1>1. CASE ServerStep
  BY <1>1, ReadyServerStep DEF ServerStep
<1>2. ASSUME NEW p \in Procs, ProcStep(p) \/ UserOf(p)
      PROVE  ReadyInv'
  <2>1. ServerUntouched /\ UNCHANGED revents
    BY <1>2 DEF ProcStep, UserOf, ServerUntouched, serverVars, registryVars, pollVars
  <2> QED
    BY <1>2, <2>1, ReadyProcess DEF ProcStep, UserOf
<1>3. CASE UNCHANGED <<conn, fdtab, poll_fds, revents>>
  BY <1>3, ReadyKept DEF ClientFds
<1>4. CASE TypeConsole \/ SendDatagram \/ UNCHANGED vars
  BY <1>3, <1>4 DEF TypeConsole, TypeLine, SendDatagram, ArriveDatagram, vars, socketVars,
                    serverVars, pollVars
<1> QED
  BY <1>1, <1>2, <1>4 DEF Next, Finished

-----------------------------------------------------------------------------
(* Whatever the number of subscribers, ids, connections and descriptors    *)
(* and the sizes of the queues, all of it holds at every step.             *)
THEOREM AppInvariant == Spec => []AppInv
<1>1. Init => AppInv
  BY RegistryInitially, RoundInitially, ConnectionInitially DEF AppInv
<1>2. AppInv /\ [Next]_vars => AppInv'
  <2> SUFFICES ASSUME RegistryInv, RoundInv, ConnectionInv, [Next]_vars
               PROVE  RegistryInv' /\ RoundInv' /\ ConnectionInv'
    BY DEF AppInv
  <2>1. MessageTypes
    BY DEF ConnectionInv
  <2> QED
    BY <2>1, RegistryNext, RoundNext, ConnectionNext
<1> QED
  BY <1>1, <1>2, PTL DEF Spec

(* Every variable keeps its type, the iterator of run() stays inside the   *)
(* vector, and no identification is taken for a subscription.              *)
THEOREM TypeCorrect == Spec => []TypeOK
<1>1. AppInv => TypeOK
  BY DEF AppInv, TypeOK, RegistryInv, RoundInv, ConnectionInv
<1> QED
  BY <1>1, AppInvariant, PTL

(* accept() and close() are paired, whatever order clients come and go in. *)
THEOREM DescriptorsNotLeaked == Spec => []NoDescriptorLeak
<1>1. AppInv => NoDescriptorLeak
  BY DEF AppInv, NoDescriptorLeak, RegistryInv, ConnectionInv, Descriptors
<1> QED
  BY <1>1, AppInvariant, PTL

(* No client that was ready is left out of its round of the loop of run(). *)
THEOREM LoopServesEveryone == Spec => []EveryReadyServed
<1>1. AppInv => EveryReadyServed
  BY RoundServesAll DEF AppInv
<1> QED
  BY <1>1, AppInvariant, PTL

(* The loop of run() never comes to a descriptor that poll() reported and  *)
(* that has nothing to read any more: what the handlers before it accept,  *)
(* close, erase and append is never what is still to be handled, so the    *)
(* only thread of the server is not caught in a recv() on a client.        *)
THEOREM ReportsStayTrue == Spec => []ReportedStaysReady
<1>1. Init => ReadyInv
  BY DEF Init, ServerInit, ReadyInv
<1>2. AppInv /\ ReadyInv /\ [Next]_vars => ReadyInv'
  BY ReadyNext DEF AppInv
<1>3. AppInv /\ ReadyInv => ReportedStaysReady
  <2> SUFFICES ASSUME RegistryInv, RoundInv, ReadyInv, NEW fd \in revents
               PROVE  fd \in ReadyFds
    BY DEF AppInv, ReportedStaysReady
  <2>1. fd \in PolledFds
    BY DEF RoundInv, RoundTypes
  <2>2. Readable(fd)
    BY <2>1 DEF PolledFds, Readable, RoundInv, RegistryInv, ReadyInv
  <2> QED
    BY <2>1, <2>2 DEF ReadyFds
<1> QED
  BY <1>1, <1>2, <1>3, AppInvariant, PTL DEF Spec
=============================================================================
