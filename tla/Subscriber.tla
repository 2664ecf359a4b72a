----------------------------- MODULE Subscriber -----------------------------
(***************************************************************************)
(* The subscriber processes (Subscriber.h, Subscriber.cpp).  Each is one   *)
(* thread that connects, sends its id, and then polls standard input and   *)
(* its socket; what the user types is handled before what the server sent. *)
(*                                                                         *)
(* As in Server, a step is what a process does between two points where it *)
(* may block.  A line the subscriber refuses (an unknown command, a topic  *)
(* that is missing or too long) changes nothing and is no step.            *)
(***************************************************************************)
EXTENDS Sockets

CONSTANTS
  IdOf,           \* the id a process was started with
  SubTopics,      \* the topics its user may type
  Killable        \* the processes that may be killed from outside

VARIABLES
  spc,            \* where each process is:
                  \*   "off"          not running
                  \*   "connected"    connect() has returned
                  \*   "awaitAccept"  in recv(), for the answer to its id
                  \*   "poll"         in run(), for a line or a message
                  \*   "sending"      in send(), a request
                  \*   "awaitAnswer"  in recv(), for the answer to it
                  \*   "tcp"          in recv(), because poll() said so before
                  \*                  the line was handled
  sock,           \* the connection of a running process
  asked,          \* the request being sent or answered
  tcp_ready,      \* did the last poll() report the socket too
  last            \* history: the last datagram it printed

subscriberVars == <<spc, sock, asked, tcp_ready, last>>

NoRequest == Request(CONNECT_REQ, <<>>)

SubscriberInit ==
  /\ spc = [p \in Procs |-> "off"]
  /\ sock = [p \in Procs |-> NoConn]
  /\ asked = [p \in Procs |-> NoRequest]
  /\ tcp_ready = [p \in Procs |-> FALSE]
  /\ last = [p \in Procs |-> 0]

At(p, place) == spc[p] = place
Goto(p, place) == spc' = [spc EXCEPT ![p] = place]

-----------------------------------------------------------------------------
(* The process ends, by exit, by a failure or killed: the kernel closes    *)
(* its socket.                                                             *)
End(p) ==
  /\ conn' \in {[conn EXCEPT ![sock[p]] = next] :
                  next \in AfterClientClose(conn[sock[p]])}
  /\ Goto(p, "off")
  /\ sock' = [sock EXCEPT ![p] = NoConn]
  /\ asked' = [asked EXCEPT ![p] = NoRequest]
  /\ tcp_ready' = [tcp_ready EXCEPT ![p] = FALSE]
  /\ UNCHANGED <<backlog, fdtab, last>>

(* prepare(): the kernel completes the connection while the server is busy *)
(* elsewhere, as long as it listens.                                       *)
Prepare(p, listening) ==
  /\ At(p, "off")
  /\ listening
  /\ \E c \in Conns :
       /\ conn[c] = FreeConn
       /\ conn' = [conn EXCEPT ![c].owner = p]
       /\ backlog' = Append(backlog, c)
       /\ sock' = [sock EXCEPT ![p] = c]
  /\ Goto(p, "connected")
  /\ UNCHANGED <<fdtab, asked, tcp_ready, last>>

(* check_connection_validity(), its send.                                  *)
SendId(p) ==
  /\ At(p, "connected")
  /\ CanSendUp(sock[p])
  /\ conn' = AfterSendUp(sock[p], Request(CONNECT_REQ, IdOf[p]))
  /\ Goto(p, "awaitAccept")
  /\ UNCHANGED <<backlog, fdtab, sock, asked, tcp_ready, last>>

(* Any send to a server that is gone: DIE, or SIGPIPE.                     *)
ServerGone(p) ==
  /\ spc[p] \in {"connected", "sending"}
  /\ conn[sock[p]].downEnd # "open"
  /\ End(p)

-----------------------------------------------------------------------------
(* recv_efficient() returns a message, 0 or -1.                            *)
Incoming(p)   == conn[sock[p]].down # <<>>
EndOfFile(p)  == conn[sock[p]].down = <<>> /\ conn[sock[p]].downEnd = "fin"
ResetSeen(p)  == conn[sock[p]].down = <<>> /\ conn[sock[p]].downEnd = "rst"
Take(p)       == conn' = [conn EXCEPT ![sock[p]].down = Tail(@)]
FirstIn(p)     == Head(conn[sock[p]].down)

(* Every recv() of the subscriber is followed by DIE when it fails.        *)
RecvDies(p) ==
  /\ spc[p] \in {"awaitAccept", "poll", "awaitAnswer", "tcp"}
  /\ ResetSeen(p)
  /\ End(p)

(* check_connection_validity(), its recv.                                  *)
Accepted(p) ==
  /\ At(p, "awaitAccept")
  /\ Incoming(p)
  /\ FirstIn(p).command = CONNECT_ACCEPTED
  /\ Take(p)
  /\ Goto(p, "poll")
  /\ UNCHANGED <<backlog, fdtab, sock, asked, tcp_ready, last>>

(* Any other answer, and the end of the connection, end the subscriber.    *)
Denied(p) ==
  /\ At(p, "awaitAccept")
  /\ \/ Incoming(p) /\ FirstIn(p).command # CONNECT_ACCEPTED
     \/ EndOfFile(p)
  /\ End(p)

-----------------------------------------------------------------------------
(* manage_stdin_data(): the user types exit, whatever else is ready.       *)
Exit(p) ==
  /\ At(p, "poll")
  /\ End(p)

(* The user types a request; poll() reports the socket as it is now.       *)
TypeRequest(p, command, topic) ==
  /\ At(p, "poll")
  /\ asked' = [asked EXCEPT ![p] = Request(command, topic)]
  /\ tcp_ready' = [tcp_ready EXCEPT ![p] = DownReadable(sock[p])]
  /\ Goto(p, "sending")
  /\ UNCHANGED <<socketVars, sock, last>>

(* subscribe_unsubscribe_topic(): the send blocks while the server's queue *)
(* is full.                                                                *)
SendRequest(p) ==
  /\ At(p, "sending")
  /\ CanSendUp(sock[p])
  /\ conn' = AfterSendUp(sock[p], asked[p])
  /\ Goto(p, "awaitAnswer")
  /\ UNCHANGED <<backlog, fdtab, sock, asked, tcp_ready, last>>

(* Mutant: the socket is read after every line, whatever poll() reported.  *)
AfterStdinAlways(p) == "tcp"

(* What run() does after the line: the socket, if poll() had reported it.  *)
AfterStdin(p) == IF tcp_ready[p] THEN "tcp" ELSE "poll"

(* Its recv takes the next message, whatever it is, for the answer; at the *)
(* end of the connection the zeroed message is taken for a refusal.        *)
RecvAnswer(p) ==
  /\ At(p, "awaitAnswer")
  /\ \/ Incoming(p) /\ Take(p)
     \/ EndOfFile(p) /\ UNCHANGED conn
  /\ Goto(p, AfterStdin(p))
  /\ asked' = [asked EXCEPT ![p] = NoRequest]
  /\ tcp_ready' = [tcp_ready EXCEPT ![p] = FALSE]
  /\ UNCHANGED <<backlog, fdtab, sock, last>>

(* manage_tcp_data(): a message of a UDP client is printed, any other is   *)
(* reported as a "Big error" and dropped.                                  *)
RecvTcp(p) ==
  /\ spc[p] \in {"poll", "tcp"}
  /\ Incoming(p)
  /\ Take(p)
  /\ last' = [last EXCEPT ![p] = IF FirstIn(p).command = MSG_FROM_UDP
                                 THEN FirstIn(p).n ELSE @]
  /\ Goto(p, "poll")
  /\ UNCHANGED <<backlog, fdtab, sock, asked, tcp_ready>>

ServerClosedIt(p) ==
  /\ spc[p] \in {"poll", "tcp"}
  /\ EndOfFile(p)
  /\ End(p)

(* A signal ends the process wherever it is.                               *)
Kill(p) ==
  /\ p \in Killable
  /\ ~ At(p, "off")
  /\ End(p)

-----------------------------------------------------------------------------
(* What a running process does by itself, and what its user does.          *)
SubscriberStep(p) ==
  \/ SendId(p)
  \/ ServerGone(p)
  \/ RecvDies(p)
  \/ Accepted(p)
  \/ Denied(p)
  \/ SendRequest(p)
  \/ RecvAnswer(p)
  \/ RecvTcp(p)
  \/ ServerClosedIt(p)

UserStep(p, listening) ==
  \/ Prepare(p, listening)
  \/ Exit(p)
  \/ \E command \in {SUBSCRIBE_REQ, UNSUBSCRIBE_REQ}, topic \in SubTopics :
       TypeRequest(p, command, topic)
  \/ Kill(p)
=============================================================================
