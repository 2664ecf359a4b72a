------------------------------- MODULE Server -------------------------------
(***************************************************************************)
(* The server (Server.h, Server.cpp): one thread that polls standard       *)
(* input, the UDP socket, the listening socket and one socket per          *)
(* connected client, and handles what poll() reported in that order.       *)
(*                                                                         *)
(* A step of the model is what the thread does between two points where it *)
(* may block or where another process can see it: poll(), accept(), the    *)
(* recv() of a handler together with the handler's effect on the registry, *)
(* and each send_efficient().                                              *)
(***************************************************************************)
EXTENDS Sockets, Wildcards

CONSTANTS
  Ids,            \* client ids
  Patterns,       \* topics the users subscribe to, wildcards included
  Topics          \* topics of the UDP datagrams

VARIABLES
  mode,           \* "loop", "handshake" (inside manage_connection_request),
                  \* "stopped" (exit was typed) or "crashed"
  console,        \* the lines typed to the server and not handled yet
  buffered,       \* how many of them are in the stream buffer of cin
  udpq,           \* the datagrams queued at the UDP socket
  known,          \* the keys of the map clients; the next three are its values
  curr_fd,
  is_connected,
  subscribed_topics,
  poll_fds,       \* the client part of the vector: entry i is poll_fds[i + 2]
  num_pollfds,
  revents,        \* descriptors the last poll() reported and the round has
                  \* not come to yet
  it,             \* the iterator of the loop over poll_fds
  newfd,          \* the descriptor accept() returned, in the mode "handshake"
  outbox          \* the send_efficient() calls the running handler has left,
                  \* in their order

registryVars == <<known, curr_fd, is_connected, subscribed_topics>>
pollVars     == <<poll_fds, num_pollfds>>
serverVars   == <<mode, console, buffered, udpq, registryVars, pollVars,
                  revents, it, newfd, outbox>>

STDIN_FILENO == 0
udp_sockfd   == 3
tcp_sockfd   == 4
NoFd         == -1

ServerInit ==
  /\ mode = "loop"
  /\ console = <<>>
  /\ buffered = 0
  /\ udpq = <<>>
  /\ known = {}
  /\ curr_fd = [id \in Ids |-> NoFd]
  /\ is_connected = [id \in Ids |-> FALSE]
  /\ subscribed_topics = [id \in Ids |-> {}]
  /\ poll_fds = <<>>
  /\ num_pollfds = 3
  /\ revents = {}
  /\ it = 1
  /\ newfd = NoFd
  /\ outbox = <<>>

-----------------------------------------------------------------------------
(* The end of the process, by exit or by a failure: the kernel closes every *)
(* descriptor, and nothing the server knew survives.                        *)
Halt(how) ==
  /\ mode' = how
  /\ conn' \in AfterServerExit
  /\ backlog' = <<>>
  /\ fdtab' = [fd \in Fds |-> NoConn]
  /\ console' = <<>>
  /\ buffered' = 0
  /\ udpq' = <<>>
  /\ known' = {}
  /\ curr_fd' = [id \in Ids |-> NoFd]
  /\ is_connected' = [id \in Ids |-> FALSE]
  /\ subscribed_topics' = [id \in Ids |-> {}]
  /\ poll_fds' = <<>>
  /\ num_pollfds' = 3
  /\ revents' = {}
  /\ it' = 1
  /\ newfd' = NoFd
  /\ outbox' = <<>>

Running == mode \in {"loop", "handshake"}

(* The thread is in the loop of run(), not inside a send.                  *)
AtLoop == mode = "loop" /\ outbox = <<>>

ClientFds == Range(poll_fds)

Readable(fd) ==
  \/ fd = STDIN_FILENO /\ Len(console) > buffered
  \/ fd = udp_sockfd /\ udpq # <<>>
  \/ fd = tcp_sockfd /\ backlog # <<>>
  \/ fd \in ClientFds /\ UpReadable(fdtab[fd])

(* Mutant: standard input is not in the poll set.                         *)
PolledSockets == {udp_sockfd, tcp_sockfd} \cup ClientFds

PolledFds == {STDIN_FILENO, udp_sockfd, tcp_sockfd} \cup ClientFds

ReadyFds == {fd \in PolledFds : Readable(fd)}

(* The client entry the loop handles next, the first from the iterator on  *)
(* that poll() reported; the loop is skipped when there is no client.      *)
IsNextClient(i) ==
  /\ num_pollfds >= 4
  /\ revents \cap {STDIN_FILENO, udp_sockfd, tcp_sockfd} = {}
  /\ i \in it..Len(poll_fds)
  /\ poll_fds[i] \in revents
  /\ \A j \in it..(i - 1) : poll_fds[j] \notin revents

RoundOver ==
  /\ revents \cap {STDIN_FILENO, udp_sockfd, tcp_sockfd} = {}
  /\ ~ \E i \in DOMAIN poll_fds : IsNextClient(i)

(* poll() blocks until some descriptor is ready.                           *)
Poll ==
  /\ AtLoop
  /\ RoundOver
  /\ ReadyFds # {}
  /\ revents' = ReadyFds
  /\ it' = 1
  /\ UNCHANGED <<socketVars, mode, console, buffered, udpq, registryVars, pollVars,
                 newfd, outbox>>

-----------------------------------------------------------------------------
(* The lines in the buffer when getline() takes one: if there is none left *)
(* it reads as many as there are, from a pipe, or one, from a terminal.    *)
LinesRead == IF buffered = 0 THEN 1..Len(console) ELSE {buffered}

(* check_stdin_data(): anything but exit is refused and forgotten.         *)
CheckStdinData ==
  /\ AtLoop
  /\ STDIN_FILENO \in revents
  /\ \/ /\ Head(console) = "exit"
        /\ Halt("stopped")
     \/ /\ Head(console) # "exit"
        /\ console' = Tail(console)
        /\ \E n \in LinesRead : buffered' = n - 1
        /\ revents' = revents \ {STDIN_FILENO}
        /\ UNCHANGED <<socketVars, mode, udpq, registryVars, pollVars, it,
                       newfd, outbox>>

(* Mutant: the subscriptions are not looked at.                            *)
RecipientsUnasked(topic) == {id \in known : is_connected[id]}

(* The clients send_msg_if_subscribed() sends to.  The registry cannot     *)
(* change before the last of them is sent to: the server has one thread.   *)
Recipients(topic) ==
  {id \in known : is_connected[id] /\ IsSubscribed(subscribed_topics[id], topic)}

(* Mutant: one pass for the literal topics and one for the wildcards.      *)
FanOutTwice(d) ==
  {s \o s : s \in SetToSeqs(
     {[fd |-> curr_fd[id], msg |-> Reply(MSG_FROM_UDP, d.topic, d.n)] :
        id \in Recipients(d.topic)})}

(* One message to each of them; the clients are a hash map, so in any      *)
(* order.                                                                  *)
FanOut(d) ==
  SetToSeqs({[fd |-> curr_fd[id], msg |-> Reply(MSG_FROM_UDP, d.topic, d.n)] :
               id \in Recipients(d.topic)})

(* manage_udp_message(): a datagram of an unknown data type goes nowhere.  *)
ManageUdpMessage ==
  /\ AtLoop
  /\ STDIN_FILENO \notin revents
  /\ udp_sockfd \in revents
  /\ LET d == Head(udpq)
     IN  outbox' \in IF d.valid THEN FanOut(d) ELSE {<<>>}
  /\ udpq' = Tail(udpq)
  /\ revents' = revents \ {udp_sockfd}
  /\ UNCHANGED <<socketVars, mode, console, buffered, registryVars, pollVars,
                 it, newfd>>

(* The next send_efficient() of the running handler.  It blocks while the  *)
(* subscriber's queue is full.                                             *)
SendNext ==
  /\ outbox # <<>>
  /\ LET c == fdtab[Head(outbox).fd]
     IN  CanSendDown(c) /\ conn' = AfterSendDown(c, Head(outbox).msg)
  /\ outbox' = Tail(outbox)
  /\ UNCHANGED <<backlog, fdtab, mode, console, buffered, udpq, registryVars, pollVars,
                 revents, it, newfd>>

(* send() to a connection the peer has closed: DIE, or SIGPIPE.            *)
SendFails ==
  /\ outbox # <<>>
  /\ conn[fdtab[Head(outbox).fd]].upEnd # "open"
  /\ Halt("crashed")

-----------------------------------------------------------------------------
(* manage_connection_request(), up to the recv() of the client's id.       *)
AtAccept ==
  /\ AtLoop
  /\ revents \cap {STDIN_FILENO, udp_sockfd} = {}
  /\ tcp_sockfd \in revents

Accept ==
  /\ AtAccept
  /\ \E fd \in Fds :
       /\ IsNextFd(fd)
       /\ newfd' = fd
       /\ fdtab' = [fdtab EXCEPT ![fd] = Head(backlog)]
  /\ backlog' = Tail(backlog)
  /\ mode' = "handshake"
  /\ revents' = revents \ {tcp_sockfd}
  /\ UNCHANGED <<conn, console, buffered, udpq, registryVars, pollVars, it, outbox>>

(* accept() fails when the process has no descriptor left, and DIE ends    *)
(* the server.                                                             *)
AcceptFails ==
  /\ AtAccept
  /\ \A fd \in Fds : fdtab[fd] # NoConn
  /\ Halt("crashed")

(* The id has arrived on the connection being accepted.                    *)
IdArrived(id) ==
  /\ mode = "handshake"
  /\ outbox = <<>>
  /\ LET up == conn[fdtab[newfd]].up
     IN  up # <<>> /\ id = Head(up).payload

Received(c) == [conn EXCEPT ![c].up = Tail(@)]

(* Mutant: the entry of a new client has the revents of one that is ready. *)
ReventsUnset(fd) == revents \cup {fd}

(* What the round still has to handle after add_client_pollfd(): a new     *)
(* entry is created with revents 0.                                        *)
ReventsWithEntry(fd) == revents

(* The part both accepting branches share: add_client_pollfd() and the     *)
(* confirmation, after the client was marked connected on this descriptor. *)
AdmitClient(id) ==
  /\ is_connected' = [is_connected EXCEPT ![id] = TRUE]
  /\ curr_fd' = [curr_fd EXCEPT ![id] = newfd]
  /\ poll_fds' = Append(poll_fds, newfd)
  /\ num_pollfds' = num_pollfds + 1
  /\ conn' = Received(fdtab[newfd])
  /\ outbox' = <<[fd |-> newfd, msg |-> Reply(CONNECT_ACCEPTED, <<>>, 0)]>>
  /\ mode' = "loop"
  /\ newfd' = NoFd
  /\ revents' = ReventsWithEntry(newfd)
  /\ UNCHANGED <<backlog, fdtab, console, buffered, udpq, it>>

RegisterClient(id) ==
  /\ IdArrived(id)
  /\ id \notin known
  /\ known' = known \cup {id}
  /\ subscribed_topics' = [subscribed_topics EXCEPT ![id] = {}]
  /\ AdmitClient(id)

(* Mutant: the flag is not looked at.                                      *)
NeverRefused(id) == FALSE

(* A known id is refused while a client is connected under it.             *)
Refused(id) == is_connected[id]

(* A known client that is not connected keeps its subscriptions.           *)
ReconnectClient(id) ==
  /\ IdArrived(id)
  /\ id \in known
  /\ ~ Refused(id)
  /\ AdmitClient(id)
  /\ UNCHANGED <<known, subscribed_topics>>

(* Mutant: close() is forgotten.                                           *)
AfterNoClose(fd) == fdtab

(* The descriptors after close(fd).                                        *)
AfterClose(fd) == [fdtab EXCEPT ![fd] = NoConn]

(* Mutant: the refusal is neither sent nor followed by close().            *)
AfterSilence(c) == {Received(c)}

(* An id that is connected is refused: CONNECT_DENIED, then close().       *)
AfterDenial(c) ==
  LET k == Received(c)[c]
      told == IF k.upEnd = "open"
              THEN [k EXCEPT !.down = Append(@, Reply(CONNECT_DENIED, <<>>, 0))]
              ELSE k
  IN  {[conn EXCEPT ![c] = next] : next \in AfterServerClose(told)}

DenyClient(id) ==
  /\ IdArrived(id)
  /\ id \in known
  /\ Refused(id)
  /\ conn' \in AfterDenial(fdtab[newfd])
  /\ fdtab' = AfterClose(newfd)
  /\ mode' = "loop"
  /\ newfd' = NoFd
  /\ UNCHANGED <<backlog, console, buffered, udpq, registryVars, pollVars, revents, it,
                 outbox>>

(* The subscriber is gone before its answer: the refusal cannot be sent.   *)
DenialFails ==
  /\ \E id \in known : IdArrived(id) /\ Refused(id)
  /\ conn[fdtab[newfd]].upEnd # "open"
  /\ Halt("crashed")

(* The connection ended before an id came: DIE on an error, and on end of  *)
(* file a string is built from the null payload and the process aborts.    *)
NoIdArrives ==
  /\ mode = "handshake"
  /\ outbox = <<>>
  /\ LET k == conn[fdtab[newfd]] IN k.up = <<>> /\ k.upEnd # "open"
  /\ Halt("crashed")

-----------------------------------------------------------------------------
(* The entry of the map whose descriptor this is, as a set: the code takes *)
(* the first it meets.                                                     *)
get_client_from_fd(fd) == {id \in known : curr_fd[id] = fd}

(* manage_subscribe_unsubscribe(): whatever is not a SUBSCRIBE_REQ is      *)
(* taken for an UNSUBSCRIBE_REQ.                                           *)
AnswerTo(command, subscribed) ==
  IF command = SUBSCRIBE_REQ
  THEN IF subscribed THEN SUBSCRIBE_FAIL ELSE SUBSCRIBE_SUCC
  ELSE IF subscribed THEN UNSUBSCRIBE_SUCC ELSE UNSUBSCRIBE_FAIL

(* Mutant: an unsubscription is confirmed and not done.                    *)
TopicsKept(topics, command, topic) ==
  IF command = SUBSCRIBE_REQ THEN topics \cup {topic} ELSE topics

TopicsAfter(topics, command, topic) ==
  IF command = SUBSCRIBE_REQ THEN topics \cup {topic} ELSE topics \ {topic}

AtClient(i) == AtLoop /\ IsNextClient(i)

ManageSubscribeUnsubscribe(i, id) ==
  /\ AtClient(i)
  /\ id \in get_client_from_fd(poll_fds[i])
  /\ LET fd  == poll_fds[i]
         req == Head(conn[fdtab[fd]].up)
     IN  /\ conn[fdtab[fd]].up # <<>>
         /\ conn' = Received(fdtab[fd])
         /\ subscribed_topics' = [subscribed_topics EXCEPT
              ![id] = TopicsAfter(@, req.command, req.payload)]
         /\ outbox' = <<[fd |-> fd,
              msg |-> Reply(AnswerTo(req.command,
                                     req.payload \in subscribed_topics[id]),
                            req.payload, 0)]>>
         /\ revents' = revents \ {fd}
  /\ it' = i + 1
  /\ UNCHANGED <<backlog, fdtab, mode, console, buffered, udpq, known, curr_fd,
                 is_connected, pollVars, newfd>>

(* Mutants: the descriptor stays in the registry; the loop steps over the  *)
(* entry that took the erased one's place.                                 *)
FdsKept(id) == curr_fd
SkipErased(i) == i + 1

(* End of file: the client is marked disconnected, its descriptor closed   *)
(* and its entry erased; erase() leaves the iterator at the next entry.    *)
FdsWithout(id) == [curr_fd EXCEPT ![id] = NoFd]
AfterErase(i) == i

DisconnectClient(i, id) ==
  /\ AtClient(i)
  /\ id \in get_client_from_fd(poll_fds[i])
  /\ LET fd == poll_fds[i]
         c  == fdtab[fd]
     IN  /\ conn[c].up = <<>>
         /\ conn[c].upEnd = "fin"
         /\ conn' \in {[conn EXCEPT ![c] = next] :
                         next \in AfterServerClose(conn[c])}
         /\ fdtab' = AfterClose(fd)
         /\ revents' = revents \ {fd}
  /\ is_connected' = [is_connected EXCEPT ![id] = FALSE]
  /\ curr_fd' = FdsWithout(id)
  /\ poll_fds' = RemoveAt(poll_fds, i)
  /\ num_pollfds' = num_pollfds - 1
  /\ it' = AfterErase(i)
  /\ UNCHANGED <<backlog, mode, console, buffered, udpq, known, subscribed_topics, newfd,
                 outbox>>

(* recv() returns -1, because the subscriber closed with messages unread:  *)
(* DIE.                                                                    *)
RecvFails(i) ==
  /\ AtClient(i)
  /\ LET k == conn[fdtab[poll_fds[i]]] IN k.up = <<>> /\ k.upEnd = "rst"
  /\ Halt("crashed")

-----------------------------------------------------------------------------
ServerNext ==
  \/ Poll
  \/ CheckStdinData
  \/ ManageUdpMessage
  \/ SendNext
  \/ SendFails
  \/ Accept
  \/ AcceptFails
  \/ \E id \in Ids : RegisterClient(id) \/ ReconnectClient(id) \/ DenyClient(id)
  \/ DenialFails
  \/ NoIdArrives
  \/ \E i \in DOMAIN poll_fds :
       \/ \E id \in Ids : \/ ManageSubscribeUnsubscribe(i, id)
                          \/ DisconnectClient(i, id)
       \/ RecvFails(i)

(* What the users and the UDP clients do to the server.                    *)
TypeLine(line, capacity) ==
  /\ Running
  /\ Len(console) < capacity
  /\ console' = Append(console, line)
  /\ UNCHANGED <<mode, buffered, udpq, registryVars, pollVars, revents, it,
                 newfd, outbox>>

(* A datagram arrives and is queued.  Datagrams lost, repeated or overtaken *)
(* on the way need no step: what arrives is arbitrary.                      *)
ArriveDatagram(topic, valid, n) ==
  /\ Running
  /\ udpq' = Append(udpq, [topic |-> topic, valid |-> valid, n |-> n])
  /\ UNCHANGED <<mode, console, buffered, registryVars, pollVars, revents, it,
                 newfd, outbox>>
=============================================================================
