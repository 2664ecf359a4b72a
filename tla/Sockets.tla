------------------------------ MODULE Sockets ------------------------------
(***************************************************************************)
(* The kernel's side of the TCP connections, as far as the server and the  *)
(* subscribers can tell through connect, accept, send, recv, poll and      *)
(* close.  A connection is two bounded queues of whole messages and the    *)
(* way each end was closed:                                                *)
(*   "open" the end is open;                                               *)
(*   "fin"  it was closed: recv() returns the rest of the queue, then 0;   *)
(*   "rst"  it was closed with unread data: the rest of the queue, then -1.*)
(* None of this is code of the repository: it is what send_efficient() and *)
(* recv_efficient() (protocols.cpp) are written against.                   *)
(***************************************************************************)
EXTENDS Protocols, Sequences, FiniteSets

CONSTANTS
  Procs,      \* subscriber processes (a process may be started again)
  NoProc,     \* the owner of a connection that does not exist
  Conns,      \* names of connections; a name is used again once both ends closed
  NoConn,     \* what a closed descriptor refers to
  Fds,        \* descriptors the server's process has left for its clients
  UpCap,      \* messages that fit between a subscriber and the server
  DownCap     \* messages that fit between the server and a subscriber

ASSUME SocketsAssumption ==
  /\ NoProc \notin Procs
  /\ NoConn \notin Conns
  /\ Fds \subseteq {fd \in Nat : fd > 4}
  /\ UpCap \in Nat \ {0}
  /\ DownCap \in Nat \ {0}

VARIABLES
  conn,       \* the connections
  backlog,    \* connections the kernel completed and the server has not accepted
  fdtab       \* the connection behind each descriptor of the server

socketVars == <<conn, backlog, fdtab>>

Closings == {"fin", "rst"}

FreeConn == [owner |-> NoProc, up |-> <<>>, upEnd |-> "open",
             down |-> <<>>, downEnd |-> "open"]

SocketsInit ==
  /\ conn = [c \in Conns |-> FreeConn]
  /\ backlog = <<>>
  /\ fdtab = [fd \in Fds |-> NoConn]

(* POLLIN at the server's end, and at the subscriber's end.                *)
UpReadable(c)   == conn[c].up # <<>> \/ conn[c].upEnd # "open"
DownReadable(c) == conn[c].down # <<>> \/ conn[c].downEnd # "open"

(* What a connection may be after one end closes it.  The name is free     *)
(* once both ends have.  Closing with unread data resets the connection;   *)
(* data still on its way when the end closes leaves it at "fin".           *)
AfterClientClose(k) ==
  IF k.downEnd # "open" THEN {FreeConn}
  ELSE {[k EXCEPT !.upEnd = e, !.down = <<>>] :
          e \in IF k.down = <<>> THEN {"fin"} ELSE Closings}

ServerClosed(k, e) ==
  IF k.upEnd # "open" THEN FreeConn ELSE [k EXCEPT !.downEnd = e, !.up = <<>>]

AfterServerClose(k) ==
  {ServerClosed(k, e) : e \in IF k.up = <<>> THEN {"fin"} ELSE Closings}

(* The same when the server's process ends, for every connection it or its *)
(* listening socket holds.                                                 *)
HeldByServer(k) == k.owner # NoProc /\ k.downEnd = "open"

AfterServerExit ==
  {[c \in Conns |-> IF HeldByServer(conn[c])
                    THEN ServerClosed(conn[c], IF c \in reset THEN "rst" ELSE "fin")
                    ELSE conn[c]] :
     reset \in SUBSET {c \in Conns : conn[c].up # <<>>}}

(* The lowest descriptor that is free.                                     *)
IsNextFd(fd) ==
  /\ fdtab[fd] = NoConn
  /\ \A other \in Fds : fdtab[other] = NoConn => fd <= other

(* A send() to a peer that has closed is accepted until the peer's reset   *)
(* arrives and fails afterwards: either may happen.                        *)
CanSendDown(c) == conn[c].upEnd = "open" => Len(conn[c].down) < DownCap
AfterSendDown(c, m) ==
  IF conn[c].upEnd = "open" THEN [conn EXCEPT ![c].down = Append(@, m)] ELSE conn

CanSendUp(c) == conn[c].downEnd = "open" => Len(conn[c].up) < UpCap
AfterSendUp(c, m) ==
  IF conn[c].downEnd = "open" THEN [conn EXCEPT ![c].up = Append(@, m)] ELSE conn
=============================================================================
