--------------------------- MODULE AppProperties ---------------------------
(***************************************************************************)
(* What is checked and proved of the application: its types, the safety    *)
(* and liveness properties, the inductive invariants behind the proofs,    *)
(* and what its documentation says that the code does not do.              *)
(***************************************************************************)
EXTENDS ServerClientApp

(* Types.  A request carries a topic the user typed, an identification the *)
(* id; an answer names its topic, a forwarded datagram its own.            *)
UpMessages ==
  [command : {CONNECT_REQ}, payload : Ids]
    \cup [command : {SUBSCRIBE_REQ, UNSUBSCRIBE_REQ}, payload : SubTopics]

DownMessages ==
  [command : {CONNECT_ACCEPTED, CONNECT_DENIED, MSG_FROM_UDP} \cup Answers,
   topic : Patterns \cup Topics \cup {<<>>}, n : 0..MaxDatagrams]

Ends == {"open", "fin", "rst"}

Connections == [owner : Procs \cup {NoProc}, up : Seq(UpMessages), upEnd : Ends,
                down : Seq(DownMessages), downEnd : Ends]

Datagrams == [topic : Topics, valid : BOOLEAN, n : 1..MaxDatagrams]

RegistryTypes ==
  /\ mode \in {"loop", "handshake", "stopped", "crashed"}
  /\ known \in SUBSET Ids
  /\ curr_fd \in [Ids -> Fds \cup {NoFd}]
  /\ is_connected \in [Ids -> BOOLEAN]
  /\ poll_fds \in Seq(Fds)
  /\ num_pollfds \in Nat
  /\ newfd \in Fds \cup {NoFd}
  /\ backlog \in Seq(Conns)
  /\ fdtab \in [Fds -> Conns \cup {NoConn}]

RoundTypes ==
  /\ revents \subseteq PolledFds
  /\ it \in 1..(Len(poll_fds) + 1)

MessageTypes ==
  /\ conn \in [Conns -> Connections]
  /\ console \in Seq(Lines)
  /\ buffered \in 0..Len(console)
  /\ udpq \in Seq(Datagrams)
  /\ subscribed_topics \in [Ids -> SUBSET Patterns]
  /\ outbox \in Seq([fd : Fds, msg : DownMessages])
  /\ asked \in [Procs -> UpMessages \cup {NoRequest}]
  /\ arrived \in 0..MaxDatagrams

ProcTypes ==
  /\ spc \in [Procs -> {"off", "connected", "awaitAccept", "poll", "sending",
                       "awaitAnswer", "tcp"}]
  /\ sock \in [Procs -> Conns \cup {NoConn}]
  /\ tcp_ready \in [Procs -> BOOLEAN]
  /\ last \in [Procs -> 0..MaxDatagrams]

(* Type correctness.  The iterator of the server's loop stays between the  *)
(* first client entry and the end of the vector (Server.cpp, run), and no  *)
(* message that identifies a client is taken for a request.                *)
TypeOK == RegistryTypes /\ RoundTypes /\ MessageTypes /\ ProcTypes

-----------------------------------------------------------------------------
(* The registry and the poll set never disagree: one entry of poll_fds for *)
(* every connected client, on its own descriptor, and none for the others. *)
(* manage_connection_request() and the loop of run() keep four structures  *)
(* (clients, poll_fds, num_pollfds, the descriptors) equal by hand.        *)
Connected == {id \in known : is_connected[id]}

PollSetMatchesRegistry ==
  /\ IsInjective(poll_fds)
  /\ ClientFds = {curr_fd[id] : id \in Connected}
  /\ \A id \in Ids : is_connected[id] <=> curr_fd[id] # NoFd
  /\ num_pollfds = Len(poll_fds) + 3

(* get_client_from_fd() finds exactly one client for every entry: its      *)
(* placeholder, a null pointer its callers dereference, is never returned  *)
(* (Server.cpp:333), and no other client is taken for the one that sent.   *)
NeverPlaceholder ==
  \A fd \in ClientFds : \E id \in Ids : get_client_from_fd(fd) = {id}

(* Every open descriptor is that of a client in the poll set or of the     *)
(* connection being accepted, and no two share a connection: close() is    *)
(* called exactly once for each accept().                                  *)
NoDescriptorLeak ==
  /\ \A fd \in Fds :
       fdtab[fd] # NoConn <=> fd \in ClientFds \/ fd = newfd
  /\ \A fd1, fd2 \in Fds :
       fdtab[fd1] = fdtab[fd2] /\ fdtab[fd1] # NoConn => fd1 = fd2

(* When the loop of run() is over, every descriptor poll() reported has    *)
(* been handled, although entries were erased on the way.                  *)
EveryReadyServed == AtLoop /\ RoundOver => revents = {}

(* What poll() reported is still there when the loop comes to it, whatever *)
(* the handlers before it accepted, closed, erased and appended: the       *)
(* server's thread never waits on a descriptor because of a report that    *)
(* was meant for another (run(), add_client_pollfd()).                     *)
ReportedStaysReady == revents \subseteq ReadyFds

(* Two subscribers are never in session under one id, whatever was killed, *)
(* restarted or denied (manage_connection_request, README.md:114).         *)
InSession(p) == spc[p] \in {"poll", "sending", "awaitAnswer", "tcp"}

SingleSession ==
  \A p, q \in Procs : p # q /\ InSession(p) /\ InSession(q) => IdOf[p] # IdOf[q]

(* The subscriptions of an id change only when the server takes a request  *)
(* from a connection whose subscriber was started with that id: the        *)
(* descriptor, used again by others, always leads back to the right client.*)
TakenFrom(c) ==
  /\ conn[c].up # <<>>
  /\ Head(conn[c].up).command # CONNECT_REQ
  /\ conn'[c].up = Tail(conn[c].up)

OwnSubscriptionsOnly ==
  [][\A id \in Ids :
       subscribed_topics'[id] # subscribed_topics[id] /\ Running' =>
         \E c \in Conns : TakenFrom(c) /\ IdOf[conn[c].owner] = id]_vars

(* The inductive invariant behind these: what the server's own structures  *)
(* say of each other at every step.                                        *)
OneOwnerPerFd ==
  \A id1, id2 \in Ids :
    id1 # id2 /\ curr_fd[id1] = curr_fd[id2] => curr_fd[id1] = NoFd

RegistryInv ==
  /\ RegistryTypes
  /\ PollSetMatchesRegistry
  /\ OneOwnerPerFd
  /\ \A id \in Ids : is_connected[id] => id \in known
  /\ \A fd \in Fds : fdtab[fd] # NoConn <=> fd \in ClientFds \/ fd = newfd
  /\ newfd \notin ClientFds
  /\ mode = "handshake" <=> newfd # NoFd
  /\ tcp_sockfd \in revents => backlog # <<>>

(* The inductive invariant of a round of the loop of run(): what poll()    *)
(* reported is still true and still ahead, in spite of the entries that    *)
(* were erased and appended since.                                         *)
RoundInv ==
  /\ RoundTypes
  /\ \A j \in DOMAIN poll_fds : poll_fds[j] \in revents => it <= j
  /\ STDIN_FILENO \in revents => Len(console) > buffered
  /\ udp_sockfd \in revents => udpq # <<>>

(* The inductive invariant of the connections.  Each end holds the ones it *)
(* believes to hold, and no connection is held twice.                      *)
Descriptors ==
  /\ \A fd \in Fds : fdtab[fd] # NoConn => HeldByServer(conn[fdtab[fd]])
  /\ \A k \in DOMAIN backlog : HeldByServer(conn[backlog[k]])
  /\ \A fd1, fd2 \in Fds :
       fdtab[fd1] = fdtab[fd2] /\ fdtab[fd1] # NoConn => fd1 = fd2
  /\ IsInjective(backlog)
  /\ \A fd \in Fds : fdtab[fd] \notin Range(backlog)

Sessions ==
  \A p \in Procs :
    /\ At(p, "off") <=> sock[p] = NoConn
    /\ sock[p] # NoConn =>
         conn[sock[p]].owner = p /\ conn[sock[p]].upEnd = "open"

(* The id of a subscriber is the first thing it sends, and the server      *)
(* receives it before the connection enters the poll set: in the loop of   *)
(* run() every message is a request, and every request names a topic.      *)
Registered(c) == \E fd \in ClientFds : fdtab[fd] = c

RequestsInv ==
  /\ \A p \in Procs :
       /\ At(p, "sending") => asked[p].command # CONNECT_REQ
       /\ At(p, "connected") => conn[sock[p]].up = <<>> /\ ~ Registered(sock[p])
  /\ \A c \in Conns : \A k \in DOMAIN conn[c].up :
       conn[c].up[k].command = CONNECT_REQ => k = 1 /\ ~ Registered(c)

ConnectionInv ==
  MessageTypes /\ ProcTypes /\ Descriptors /\ Sessions /\ RequestsInv

(* The three hold together: a round needs that lines and datagrams are     *)
(* queued as they should, and the connections what the registry says       *)
(* (run, manage_connection_request, prepare).                              *)
AppInv == RegistryInv /\ RoundInv /\ ConnectionInv

-----------------------------------------------------------------------------
(* What relates a session at one end to the registry at the other.  A      *)
(* process is admitted from the moment the confirmation is in its queue:   *)
(* it will be in session whatever happens to the server.                   *)
Confirmed(c) ==
  \E k \in DOMAIN conn[c].down : conn[c].down[k].command = CONNECT_ACCEPTED

Admitted(p) == InSession(p) \/ (At(p, "awaitAccept") /\ Confirmed(sock[p]))

OnRecord(p) == is_connected[IdOf[p]] /\ fdtab[curr_fd[IdOf[p]]] = sock[p]

(* Ids are what processes were started with, from the identification to    *)
(* the entry in the registry, and nothing comes before an identification.  *)
IdentityOf(c, m) == m.command = CONNECT_REQ => m.payload = IdOf[conn[c].owner]

IdsInv ==
  /\ \A c \in Conns : \A k \in DOMAIN conn[c].up : IdentityOf(c, conn[c].up[k])
  /\ \A c \in Conns : Running /\ conn[c].up # <<>> /\ ~ Registered(c) =>
       conn[c].up[1].command = CONNECT_REQ
  /\ \A id \in Ids : is_connected[id] => IdOf[conn[fdtab[curr_fd[id]]].owner] = id
  /\ \A id \in Ids \ known : subscribed_topics[id] = {}

(* What a handler has left to send goes to registered clients, and nothing *)
(* is sent to a process before its identification.                         *)
OutboxInv ==
  /\ outbox # <<>> => Running
  /\ \A k \in DOMAIN outbox : outbox[k].fd \in ClientFds
  /\ \A p \in Procs : At(p, "connected") => conn[sock[p]].down = <<>>

AdmissionsInv ==
  /\ Running => \A p \in Procs : Admitted(p) => OnRecord(p)
  /\ \A p, q \in Procs : p # q /\ Admitted(p) /\ Admitted(q) => IdOf[p] # IdOf[q]

(* The inductive invariant of the sessions, on top of AppInv: the server   *)
(* has on record whoever believes to be in session                         *)
(* (manage_connection_request(), check_connection_validity()).             *)
SessionInv == IdsInv /\ OutboxInv /\ AdmissionsInv

-----------------------------------------------------------------------------
(* The abstract specification, in the terms of the registry and of what    *)
(* the running handler has left to send.                                   *)
Holder(fd) == conn[fdtab[fd]].owner

HolderOf(id) == IF is_connected[id] THEN Holder(curr_fd[id]) ELSE NoProc

Forwarded(o) == [to |-> Holder(o.fd), topic |-> o.msg.topic, n |-> o.msg.n]

Service == INSTANCE PubSub WITH
             Nobody   <- NoProc,
             Numbers  <- 1..MaxDatagrams,
             serving  <- Running,
             session  <- [id \in Ids |-> HolderOf(id)],
             topics   <- subscribed_topics,
             outgoing <- {Forwarded(o) :
                            o \in {x \in Range(outbox) : x.msg.command = MSG_FROM_UDP}}

(* The server keeps what it promises: sessions, subscriptions that outlive *)
(* them ("the client can reconnect", README.md:127-130), and datagrams     *)
(* forwarded to exactly the subscribed (run() and all its handlers).       *)
KeepsService == Service!ServiceSpec

-----------------------------------------------------------------------------
(* What the server has sent on a connection, or is about to, and the       *)
(* subscriber has not received: the messages in the queue, then those the  *)
(* running handler has left for it, each under a position of its own.      *)
Coming(c) == {k \in DOMAIN outbox : fdtab[outbox[k].fd] = c}

Joined(down, messages, mine) ==
  LET n == Len(down)
  IN  [j \in 1..n \cup {n + k : k \in mine} |->
         IF j <= n THEN down[j] ELSE messages[j - n].msg]

Stream(c) == Joined(conn[c].down, outbox, Coming(c))

UdpAt(s) == {j \in DOMAIN s : s[j].command = MSG_FROM_UDP}

(* A subscriber gets every datagram at most once and in the order the      *)
(* server received them, across its sessions too (send_msg_if_subscribed). *)
InOrderOnce ==
  \A p \in Procs : sock[p] # NoConn =>
    LET s == Stream(sock[p])
    IN  /\ \A j \in UdpAt(s) : last[p] < s[j].n
        /\ \A i, j \in UdpAt(s) : i < j => s[i].n < s[j].n

(* Read in order, the stream of a client tells one story: an answer tells  *)
(* what the server's registry held when it was given, and each datagram is *)
(* one the client was subscribed to at that point of the stream.  No       *)
(* message follows the answer to the unsubscription that should have       *)
(* stopped it (manage_subscribe_unsubscribe, send_msg_if_subscribed).      *)
About(m, t)      == m.command \in Answers /\ m.topic = t
HeldBefore(m)    == m.command \in {SUBSCRIBE_FAIL, UNSUBSCRIBE_SUCC}
HeldAfter(m)     == m.command \in {SUBSCRIBE_SUCC, SUBSCRIBE_FAIL}

(* The answers about t after the position j; the first one tells whether   *)
(* it was held at j.                                                       *)
Later(s, j, t) == {k \in DOMAIN s : k > j /\ About(s[k], t)}

HeldAt(s, j, t, now) ==
  \/ Later(s, j, t) = {} /\ t \in now
  \/ \E k \in Later(s, j, t) : HeldBefore(s[k]) /\ \A i \in Later(s, j, t) : k <= i

OneStory(s, now) ==
  \A j \in DOMAIN s :
    /\ s[j].command \in Answers => (HeldAfter(s[j]) <=> HeldAt(s, j, s[j].topic, now))
    /\ s[j].command = MSG_FROM_UDP =>
         IsSubscribed({t \in Patterns : HeldAt(s, j, t, now)}, s[j].topic)

StreamMatchesSubscriptions ==
  \A id \in Connected :
    LET c == fdtab[curr_fd[id]]
    IN  conn[c].upEnd = "open" => OneStory(Stream(c), subscribed_topics[id])

(* A subscriber inside a blocking recv() always has something to wait for. *)
(* poll() reported the socket before a line was handled, and handling it   *)
(* may have received the very message poll() saw (Subscriber.cpp:102-112). *)
NeverWaitsForNothing ==
  \A p \in Procs : spc[p] \in {"awaitAccept", "awaitAnswer", "tcp"} =>
    LET c == sock[p]
    IN  \/ conn[c].downEnd # "open"
        \/ conn[c].down # <<>> \/ Coming(c) # {} \/ conn[c].up # <<>>

(* The inductive invariants behind these three.  The numbers of the        *)
(* datagrams that wait are above those of all that were sent on.           *)
Behind(n) == n <= arrived /\ \A k \in DOMAIN udpq : n < udpq[k].n

NumbersInv ==
  /\ InOrderOnce
  /\ \A k \in DOMAIN udpq :
       udpq[k].n <= arrived /\ \A i \in DOMAIN udpq : i < k => udpq[i].n < udpq[k].n
  /\ \A p \in Procs :
       /\ Behind(last[p])
       /\ sock[p] # NoConn =>
            \A j \in UdpAt(Stream(sock[p])) : Behind(Stream(sock[p])[j].n)

(* A client that is not registered yet has been sent nothing.              *)
StoryInv ==
  /\ StreamMatchesSubscriptions
  /\ \A c \in Conns : HeldByServer(conn[c]) /\ ~ Registered(c) => conn[c].down = <<>>

(* While a line is handled, one message is reserved for the socket that    *)
(* poll() reported, and another is there, or will be, for the answer.      *)
Something(c, reserved) ==
  \/ conn[c].downEnd # "open"
  \/ Len(conn[c].down) > reserved
  \/ Len(conn[c].down) = reserved /\ (Coming(c) # {} \/ conn[c].up # <<>>)

WaitInv ==
  \A p \in Procs :
    /\ At(p, "sending") /\ tcp_ready[p] => DownReadable(sock[p])
    /\ At(p, "awaitAnswer") => Something(sock[p], IF tcp_ready[p] THEN 1 ELSE 0)
    /\ spc[p] \in {"awaitAccept", "tcp"} => Something(sock[p], 0)

-----------------------------------------------------------------------------
(* "The ability of the system (the server, but also the client) to handle  *)
(* a large number of messages in a short time span" (README.md:26-27): the *)
(* server is never in a send() to a subscriber that is in a send() to it,  *)
(* both queues full.                                                       *)
NoMutualBlock ==
  \A p \in Procs :
    ~ /\ At(p, "sending")
      /\ ~ CanSendUp(sock[p])
      /\ outbox # <<>>
      /\ fdtab[Head(outbox).fd] = sock[p]
      /\ ~ CanSendDown(sock[p])

(* Liveness, under FairSpec: after every send and every wait for an answer *)
(* a subscriber is back at its prompt, or ends, whatever the others do,    *)
(* unless a mutual block lasts forever (Subscriber.cpp, Server.cpp:515).   *)
EveryWaitEnds ==
  []<>NoMutualBlock =>
    \A p \in Procs :
      spc[p] \in {"connected", "awaitAccept", "sending", "awaitAnswer", "tcp"}
        ~> spc[p] \in {"poll", "off"}

(* The exit command of the server ends the server and every subscriber     *)
(* (README.md:140-142), unless a mutual block lasts forever, or some line  *)
(* stays in the stream buffer because none follows (check_stdin_data()).   *)
ExitStopsEveryone ==
  []<>NoMutualBlock /\ []<>(buffered = 0) =>
    ("exit" \in Range(console) ~> (~ Running /\ \A p \in Procs : At(p, "off")))

-----------------------------------------------------------------------------
(* What the repository says of the program and the code does not do.       *)

(* "Sends subscribe/unsubscribe request to the server, then waits for      *)
(* server's response" (Subscriber.h:22-23): what the subscriber takes for  *)
(* the answer is an answer.                                                *)
AnswerIsTheAnswer ==
  [][\A p \in Procs :
       At(p, "awaitAnswer") /\ spc'[p] \in {"poll", "tcp"} /\ Incoming(p) =>
         FirstIn(p).command \in Answers]_vars

(* After the exit of a subscriber "the server marks it as not connected    *)
(* anymore ..., so the client can reconnect" (README.md:127-130): nothing  *)
(* subscribers do by their own commands ends the server.                   *)
ServerSurvives == mode # "crashed"

(* "Accepts if the client had not been previously registered or if he      *)
(* tries to reconnect, declines otherwise" (Server.h:69-71): a subscriber  *)
(* is denied only while another one is in session, or about to be, under   *)
(* its id.                                                                 *)
DeniedOnlyIfInUse ==
  \A p \in Procs :
    /\ At(p, "awaitAccept")
    /\ Incoming(p)
    /\ FirstIn(p).command = CONNECT_DENIED
    => \E q \in Procs \ {p} : IdOf[q] = IdOf[p] /\ ~ At(q, "off")

(* "0 if the sender closed the connection" (protocols.h:60-61), but the    *)
(* caller that waits for the id does not look (Server.cpp:262-265): a      *)
(* subscriber that ends before its id arrives does not end the server.     *)
HandshakeSurvives == [][mode = "handshake" => mode' # "crashed"]_vars

(* "Allows the connection of an unlimited number of clients"             *)
(* (README.md:24-25): accept() never ends the server.                      *)
AcceptsEveryone == [][AtAccept => mode' # "crashed"]_vars
=============================================================================
