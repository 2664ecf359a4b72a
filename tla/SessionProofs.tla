--------------------------- MODULE SessionProofs ----------------------------
(***************************************************************************)
(* Proofs about sessions: who is in session under which id, who may change *)
(* its subscriptions, and that the application keeps what PubSub promises. *)
(***************************************************************************)
EXTENDS ConnectionProofs

(* What a connection carries, and what is left of it after a step that     *)
(* sends nothing on it.                                                    *)
UpShrinks(c) ==
  \/ conn'[c].up = <<>>
  \/ /\ conn'[c].owner = conn[c].owner
     /\ \/ conn'[c].up = conn[c].up
        \/ conn[c].up # <<>> /\ conn'[c].up = Tail(conn[c].up)

DownShrinks(c) ==
  \/ conn'[c].down \in {<<>>, conn[c].down}
  \/ conn[c].down # <<>> /\ conn'[c].down = Tail(conn[c].down)

NothingConfirmed(c) ==
  \/ DownShrinks(c)
  \/ conn[c].up # <<>> /\ (Confirmed(c)' => Confirmed(c))

LEMMA ShorterDown ==
  ASSUME NEW s \in Seq(DownMessages), s # <<>>
  PROVE  \A k \in DOMAIN Tail(s) : k + 1 \in DOMAIN s /\ Tail(s)[k] = s[k + 1]
<1>1. Len(s) \in Nat \ {0} /\ DOMAIN s = 1..Len(s)
  BY LenProperties, EmptySeq
<1>2. Tail(s) \in Seq(DownMessages) /\ Len(Tail(s)) = Len(s) - 1
  BY HeadTailProperties
<1>3. DOMAIN Tail(s) = 1..(Len(s) - 1)
  BY <1>2, LenProperties
<1> QED
  BY <1>1, <1>2, <1>3, HeadTailProperties

LEMMA AppendedElements ==
  ASSUME NEW S, NEW s \in Seq(S), NEW m \in S
  PROVE  \A k \in DOMAIN Append(s, m) :
           \/ k \in DOMAIN s /\ Append(s, m)[k] = s[k]
           \/ Append(s, m)[k] = m
<1>1. /\ Len(s) \in Nat /\ DOMAIN s = 1..Len(s)
      /\ DOMAIN Append(s, m) = 1..(Len(s) + 1)
      /\ \A k \in 1..Len(s) : Append(s, m)[k] = s[k]
      /\ Append(s, m)[Len(s) + 1] = m
  BY AppendProperties, LenProperties
<1> QED
  BY <1>1

LEMMA IdentitiesKept ==
  ASSUME conn \in [Conns -> Connections], NEW c \in Conns, UpShrinks(c),
         \A k \in DOMAIN conn[c].up : IdentityOf(c, conn[c].up[k])
  PROVE  \A k \in DOMAIN conn'[c].up : IdentityOf(c, conn[c].up[k])' 
<1>1. conn[c].up \in Seq(UpMessages)
  BY DEF Connections
<1> SUFFICES ASSUME NEW k \in DOMAIN conn'[c].up
             PROVE  /\ conn'[c].up[k].command = CONNECT_REQ =>
                         conn'[c].up[k].payload = IdOf[conn'[c].owner]
  BY DEF IdentityOf
<1>2. CASE conn'[c].up = <<>>
  BY <1>2
<1>3. CASE conn'[c].owner = conn[c].owner /\ conn'[c].up = conn[c].up
  BY <1>3 DEF IdentityOf
<1>4. CASE conn'[c].owner = conn[c].owner /\ conn[c].up # <<>> /\ conn'[c].up = Tail(conn[c].up)
  BY <1>1, <1>4, ShorterQueue DEF IdentityOf
<1> QED
  BY <1>2, <1>3, <1>4 DEF UpShrinks

LEMMA ConfirmationsKept ==
  ASSUME conn \in [Conns -> Connections], NEW c \in Conns, DownShrinks(c)
  PROVE  /\ Confirmed(c)' => Confirmed(c)
         /\ conn[c].down = <<>> => conn'[c].down = <<>>
<1>1. conn[c].down \in Seq(DownMessages)
  BY DEF Connections
<1>2. CASE conn'[c].down \in {<<>>, conn[c].down}
  BY <1>2 DEF Confirmed
<1>3. CASE conn[c].down # <<>> /\ conn'[c].down = Tail(conn[c].down)
  BY <1>1, <1>3, ShorterDown DEF Confirmed
<1> QED
  BY <1>2, <1>3 DEF DownShrinks

LEMMA ServerClosedDown ==
  ASSUME NEW k \in Connections, NEW e \in Closings
  PROVE  ServerClosed(k, e).down \in {<<>>, k.down}
BY DEF ServerClosed, FreeConn, Connections

LEMMA ClientClosedDown ==
  ASSUME NEW k \in Connections, NEW new \in AfterClientClose(k)
  PROVE  new.down = <<>>
<1>1. CASE k.downEnd # "open"
  BY <1>1 DEF AfterClientClose, FreeConn
<1>2. CASE k.downEnd = "open"
  <2>1. PICK e \in Closings : new = [k EXCEPT !.upEnd = e, !.down = <<>>]
    BY <1>2 DEF AfterClientClose, Closings
  <2> QED
    BY <2>1 DEF Connections
<1> QED
  BY <1>1, <1>2

-----------------------------------------------------------------------------
(* The connections behind the entries of the registry.                     *)
LEMMA Recorded ==
  ASSUME AppInv
  PROVE  /\ \A id \in Ids : is_connected[id] =>
              /\ curr_fd[id] \in Fds /\ curr_fd[id] \in ClientFds
              /\ fdtab[curr_fd[id]] \in Conns
              /\ HeldByServer(conn[fdtab[curr_fd[id]]])
              /\ Holder(curr_fd[id]) \in Procs
         /\ \A fd \in ClientFds :
              /\ fd \in Fds /\ fdtab[fd] \in Conns
              /\ \E id \in Ids : is_connected[id] /\ curr_fd[id] = fd
         /\ newfd # NoFd =>
              /\ newfd \in Fds /\ newfd \notin ClientFds /\ fdtab[newfd] \in Conns
              /\ \A fd \in ClientFds : fdtab[fd] # fdtab[newfd]
              /\ ~ Registered(fdtab[newfd])
              /\ HeldByServer(conn[fdtab[newfd]])
<1> USE DEF AppInv, RegistryInv, ConnectionInv
<1>1. \A c \in Conns : conn[c] \in Connections
  BY DEF MessageTypes
<1>2. \A c \in Conns : HeldByServer(conn[c]) => conn[c].owner \in Procs
  BY <1>1 DEF Connections, HeldByServer
<1>3. \A fd \in Fds : fdtab[fd] # NoConn => fdtab[fd] \in Conns
  BY DEF RegistryTypes
<1>4. \A fd \in ClientFds : fd \in Fds /\ fdtab[fd] # NoConn
  BY PolledFdsFacts
<1>5. \A id \in Ids : is_connected[id] => curr_fd[id] \in ClientFds
  BY OpenFds
<1>6. \A fd \in ClientFds : \E id \in Ids : is_connected[id] /\ curr_fd[id] = fd
  BY DEF PollSetMatchesRegistry, Connected, RegistryTypes
<1>7. ASSUME newfd # NoFd
      PROVE  /\ newfd \in Fds /\ newfd \notin ClientFds /\ fdtab[newfd] \in Conns
             /\ \A fd \in ClientFds : fdtab[fd] # fdtab[newfd]
             /\ HeldByServer(conn[fdtab[newfd]])
  <2>1. newfd \in Fds /\ fdtab[newfd] \in Conns
    BY <1>7, OpenFds
  <2>2. fdtab[newfd] # NoConn
    BY <2>1, SocketsAssumption DEF SocketsAssumption
  <2>3. newfd \notin ClientFds
    OBVIOUS
  <2>4. \A fd \in ClientFds : fdtab[fd] # fdtab[newfd]
    BY <1>4, <2>1, <2>2, <2>3 DEF Descriptors
  <2> QED
    BY <2>1, <2>2, <2>3, <2>4 DEF Descriptors
<1>8. newfd # NoFd => ~ Registered(fdtab[newfd])
  BY <1>7 DEF Registered
<1>9. \A fd \in ClientFds : HeldByServer(conn[fdtab[fd]])
  BY <1>4 DEF Descriptors
<1> QED
  BY <1>2, <1>3, <1>4, <1>5, <1>6, <1>7, <1>8, <1>9 DEF Holder

LEMMA OneConnectionPerId ==
  ASSUME AppInv, NEW id1 \in Ids, NEW id2 \in Ids, id1 # id2,
         is_connected[id1], is_connected[id2]
  PROVE  curr_fd[id1] # curr_fd[id2] /\ fdtab[curr_fd[id1]] # fdtab[curr_fd[id2]]
<1>1. curr_fd[id1] # curr_fd[id2]
  BY DEF AppInv, RegistryInv, OneOwnerPerFd, PollSetMatchesRegistry
<1>2. /\ curr_fd[id1] \in Fds /\ fdtab[curr_fd[id1]] # NoConn
      /\ curr_fd[id2] \in Fds /\ fdtab[curr_fd[id2]] # NoConn
  BY Recorded, SocketsAssumption DEF SocketsAssumption
<1>3. \A fd1, fd2 \in Fds :
        fdtab[fd1] = fdtab[fd2] /\ fdtab[fd1] # NoConn => fd1 = fd2
  BY DEF AppInv, ConnectionInv, Descriptors
<1> QED
  BY <1>1, <1>2, <1>3

-----------------------------------------------------------------------------
(* The parts of SessionInv, each over the steps that do not disturb it.    *)
Identities ==
  \A c \in Conns : \A k \in DOMAIN conn[c].up : IdentityOf(c, conn[c].up[k])

IdFirst ==
  \A c \in Conns : Running /\ conn[c].up # <<>> /\ ~ Registered(c) =>
    conn[c].up[1].command = CONNECT_REQ

Records == \A id \in Ids : is_connected[id] => IdOf[Holder(curr_fd[id])] = id

NoneUnknown == \A id \in Ids \ known : subscribed_topics[id] = {}

Quietly == \A p \in Procs : At(p, "connected") => conn[sock[p]].down = <<>>

LEMMA SessionParts ==
  IdsInv <=> Identities /\ IdFirst /\ Records /\ NoneUnknown
BY DEF IdsInv, Identities, IdFirst, Records, NoneUnknown, Holder

LEMMA SessionFrom ==
  ASSUME Identities', IdFirst', Records', NoneUnknown', OutboxInv', AdmissionsInv'
  PROVE  SessionInv'
BY DEF SessionInv, IdsInv, Identities, IdFirst, Records, NoneUnknown, Holder

LEMMA IdentitiesShrink ==
  ASSUME AppInv, Identities, \A c \in Conns : UpShrinks(c)
  PROVE  Identities'
<1>1. conn \in [Conns -> Connections]
  BY DEF AppInv, ConnectionInv, MessageTypes
<1> SUFFICES ASSUME NEW c \in Conns
             PROVE  \A k \in DOMAIN conn'[c].up : IdentityOf(c, conn[c].up[k])'
  BY DEF Identities
<1> QED
  BY <1>1, IdentitiesKept DEF Identities

LEMMA IdFirstKept ==
  ASSUME IdFirst, Running' => Running,
         \A c \in Conns : /\ conn'[c].up \in {<<>>, conn[c].up} \/ Registered(c)'
                          /\ Registered(c) => Registered(c)' \/ conn'[c].up = <<>>
  PROVE  IdFirst'
BY DEF IdFirst

(* Confirmations travel only where the server has sent them.               *)
LEMMA NoneAdmitted ==
  ASSUME AppInv, Quietly, UNCHANGED subscriberVars,
         \A c \in Conns : NothingConfirmed(c)
  PROVE  /\ Quietly'
         /\ \A p \in Procs : Admitted(p)' => Admitted(p) /\ sock'[p] = sock[p]
<1>1. /\ conn \in [Conns -> Connections] /\ spc' = spc /\ sock' = sock
  BY DEF AppInv, ConnectionInv, MessageTypes, subscriberVars
<1>2. \A p \in Procs : ~ At(p, "off") => sock[p] \in Conns
  BY RunningSocket DEF AppInv
<1>3. \A c \in Conns : /\ Confirmed(c)' => Confirmed(c)
                       /\ conn[c].down = <<>> => conn'[c].down = <<>> \/ conn[c].up # <<>>
  BY <1>1, ConfirmationsKept DEF NothingConfirmed
<1>4. ASSUME NEW p \in Procs, At(p, "connected")'
      PROVE  conn'[sock'[p]].down = <<>>
  <2>1. At(p, "connected") /\ sock[p] \in Conns
    BY <1>1, <1>2, <1>4 DEF At
  <2>2. conn[sock[p]].up = <<>>
    BY <2>1 DEF AppInv, ConnectionInv, RequestsInv
  <2> QED
    BY <1>1, <1>3, <2>1, <2>2 DEF Quietly
<1>5. ASSUME NEW p \in Procs, Admitted(p)'
      PROVE  Admitted(p)
  BY <1>1, <1>2, <1>3, <1>5 DEF Admitted, InSession, At, Confirmed
<1> QED
  BY <1>1, <1>4, <1>5 DEF Quietly

LEMMA AdmittedRuns ==
  ASSUME NEW p \in Procs, Admitted(p)
  PROVE  ~ At(p, "off")
BY DEF Admitted, InSession, At

(* While the server runs it is enough that everyone is on record.          *)
LEMMA OneRecord ==
  ASSUME AppInv, \A p \in Procs : Admitted(p) => OnRecord(p)
  PROVE  AdmissionsInv
<1> SUFFICES ASSUME NEW p \in Procs, NEW q \in Procs, p # q, Admitted(p), Admitted(q),
                    IdOf[p] = IdOf[q]
             PROVE  FALSE
  BY DEF AdmissionsInv
<1>1. sock[p] = sock[q]
  BY DEF OnRecord
<1>2. ~ At(p, "off") /\ ~ At(q, "off")
  BY AdmittedRuns
<1> QED
  BY <1>1, <1>2, RunningSocket DEF AppInv

LEMMA AdmissionsKept ==
  ASSUME AdmissionsInv, Running' => Running,
         \A p \in Procs : Admitted(p)' =>
           /\ Admitted(p) /\ sock'[p] = sock[p]
           /\ Running' /\ OnRecord(p) => OnRecord(p)'
  PROVE  AdmissionsInv'
<1>1. ASSUME Running', NEW p \in Procs, Admitted(p)'
      PROVE  OnRecord(p)'
  BY <1>1 DEF AdmissionsInv
<1>2. \A p, q \in Procs : p # q /\ Admitted(p)' /\ Admitted(q)' => IdOf[p] # IdOf[q]
  BY DEF AdmissionsInv
<1> QED
  BY <1>1, <1>2 DEF AdmissionsInv

(* The server keeps its registry and closes nothing.                       *)
RegistryStays ==
  /\ UNCHANGED <<known, curr_fd, is_connected, poll_fds>>
  /\ Running' <=> Running
  /\ \A fd \in ClientFds : fdtab'[fd] = fdtab[fd]
  /\ \A c \in Conns : Registered(c) => conn'[c].owner = conn[c].owner

LEMMA StayFacts ==
  ASSUME AppInv, RegistryStays
  PROVE  /\ ClientFds' = ClientFds
         /\ \A fd \in ClientFds : Holder(fd)' = Holder(fd)
         /\ \A c : Registered(c)' <=> Registered(c)
         /\ \A id \in Ids : HolderOf(id)' = HolderOf(id)
         /\ \A p \in Procs : sock'[p] = sock[p] /\ OnRecord(p) => OnRecord(p)'
         /\ Records => Records'
<1>1. ClientFds' = ClientFds
  BY DEF RegistryStays, ClientFds
<1>2. ASSUME NEW fd \in ClientFds
      PROVE  Holder(fd)' = Holder(fd)
  <2>1. fdtab[fd] \in Conns /\ Registered(fdtab[fd])
    BY Recorded DEF Registered
  <2> QED
    BY <2>1 DEF RegistryStays, Holder
<1>3. \A c : Registered(c)' <=> Registered(c)
  BY <1>1 DEF RegistryStays, Registered
<1>4. \A id \in Ids : is_connected[id] => curr_fd[id] \in ClientFds
  BY Recorded
<1>5. \A id \in Ids : HolderOf(id)' = HolderOf(id)
  BY <1>2, <1>4 DEF RegistryStays, HolderOf, Holder
<1>6. \A p \in Procs : sock'[p] = sock[p] /\ OnRecord(p) => OnRecord(p)'
  <2>1. \A p \in Procs : IdOf[p] \in Ids
    BY AppAssumption DEF AppAssumption
  <2> QED
    BY <1>4, <2>1 DEF RegistryStays, OnRecord
<1>7. Records => Records'
  BY <1>2, <1>4 DEF RegistryStays, Records, Holder
<1> QED
  BY <1>1, <1>2, <1>3, <1>5, <1>6, <1>7

-----------------------------------------------------------------------------
(* The server's steps.                                                     *)
LEMMA SessionStays ==
  ASSUME AppInv, SessionInv, RegistryStays, UNCHANGED subscriberVars,
         UNCHANGED subscribed_topics,
         \A c \in Conns : UpShrinks(c) /\ NothingConfirmed(c),
         \A c \in Conns : conn'[c].up \in {<<>>, conn[c].up},
         outbox' # <<>> => Running',
         \A k \in DOMAIN outbox' : outbox'[k].fd \in ClientFds
  PROVE  SessionInv'
<1>1. Identities' /\ Records' /\ NoneUnknown'
  BY IdentitiesShrink, StayFacts, SessionParts
     DEF SessionInv, NoneUnknown, RegistryStays
<1>2. IdFirst'
  BY StayFacts, IdFirstKept, SessionParts DEF SessionInv, RegistryStays
<1>3. Quietly' /\ \A p \in Procs : Admitted(p)' => Admitted(p) /\ sock'[p] = sock[p]
  BY NoneAdmitted DEF SessionInv, OutboxInv, Quietly
<1>4. OutboxInv'
  BY <1>3, StayFacts DEF OutboxInv, Quietly
<1>5. AdmissionsInv'
  BY <1>3, StayFacts, AdmissionsKept DEF SessionInv, RegistryStays
<1> QED
  BY <1>1, <1>2, <1>4, <1>5, SessionFrom

LEMMA SameConn ==
  ASSUME conn' = conn
  PROVE  /\ \A c \in Conns : UpShrinks(c) /\ NothingConfirmed(c)
         /\ \A c \in Conns : conn'[c].up \in {<<>>, conn[c].up}
BY DEF UpShrinks, DownShrinks, NothingConfirmed

LEMMA HaltShrinks ==
  ASSUME AppInv, NEW how, Halt(how), NEW c \in Conns
  PROVE  UpShrinks(c) /\ DownShrinks(c) /\ conn'[c].up \in {<<>>, conn[c].up}
<1>1. PICK reset \in SUBSET Conns :
        conn' = [d \in Conns |-> IF HeldByServer(conn[d])
                 THEN ServerClosed(conn[d], IF d \in reset THEN "rst" ELSE "fin")
                 ELSE conn[d]]
  BY DEF Halt, AfterServerExit
<1>2. conn[c] \in Connections
  BY DEF AppInv, ConnectionInv, MessageTypes
<1>3. CASE HeldByServer(conn[c])
  <2>1. PICK e \in Closings : conn'[c] = ServerClosed(conn[c], e)
    BY <1>1, <1>3 DEF Closings
  <2> QED
    BY <1>2, <2>1, ServerClosedFacts, ServerClosedDown DEF UpShrinks, DownShrinks
<1>4. CASE ~ HeldByServer(conn[c])
  BY <1>1, <1>4 DEF UpShrinks, DownShrinks
<1> QED
  BY <1>3, <1>4

LEMMA SessionHalt ==
  ASSUME AppInv, SessionInv, NEW how \in {"stopped", "crashed"}, Halt(how),
         UNCHANGED subscriberVars
  PROVE  SessionInv'
<1>1. ~ Running'
  BY DEF Halt, Running
<1>2. Identities' /\ IdFirst' /\ Records' /\ NoneUnknown'
  <2>1. Identities'
    BY HaltShrinks, IdentitiesShrink, SessionParts DEF SessionInv
  <2>2. Records' /\ NoneUnknown'
    BY DEF Halt, Records, NoneUnknown
  <2> QED
    BY <1>1, <2>1, <2>2 DEF IdFirst
<1>3. Quietly' /\ \A p \in Procs : Admitted(p)' => Admitted(p) /\ sock'[p] = sock[p]
  BY HaltShrinks, NoneAdmitted DEF NothingConfirmed, SessionInv, OutboxInv, Quietly
<1>4. OutboxInv'
  BY <1>3 DEF Halt, OutboxInv, Quietly
<1>5. AdmissionsInv'
  BY <1>1, <1>3, AdmissionsKept DEF SessionInv
<1> QED
  BY <1>2, <1>4, <1>5, SessionFrom

(* A confirmation goes to the process that is on record.                   *)
LEMMA SessionSendNext ==
  ASSUME AppInv, AppInv', SessionInv, SendNext, UNCHANGED subscriberVars
  PROVE  SessionInv'
<1> DEFINE o == Head(outbox)
           c == fdtab[o.fd]
<1>1. /\ UNCHANGED <<mode, backlog, fdtab, known, curr_fd, is_connected, subscribed_topics, poll_fds>>
      /\ spc' = spc /\ sock' = sock
      /\ outbox # <<>> /\ outbox' = Tail(outbox)
      /\ conn' = AfterSendDown(c, o.msg)
  BY DEF SendNext, registryVars, pollVars, subscriberVars
<1>2. outbox \in Seq([fd : Fds, msg : DownMessages])
  BY DEF AppInv, ConnectionInv, MessageTypes
<1>3. /\ o = outbox[1] /\ 1 \in DOMAIN outbox
      /\ \A k \in DOMAIN outbox' : k + 1 \in DOMAIN outbox /\ outbox'[k] = outbox[k + 1]
  <2>1. Len(outbox) \in Nat \ {0} /\ DOMAIN outbox = 1..Len(outbox)
    BY <1>1, <1>2, LenProperties, EmptySeq
  <2>2. /\ Tail(outbox) \in Seq([fd : Fds, msg : DownMessages])
        /\ Len(Tail(outbox)) = Len(outbox) - 1
    BY <1>1, <1>2, HeadTailProperties
  <2>3. DOMAIN outbox' = 1..(Len(outbox) - 1)
    BY <1>1, <2>2, LenProperties
  <2> QED
    BY <1>1, <1>2, <2>1, <2>3, HeadTailProperties
<1>4. o.fd \in ClientFds /\ c \in Conns /\ Registered(c)
  <2>1. o.fd \in ClientFds
    BY <1>3 DEF SessionInv, OutboxInv
  <2> QED
    BY <2>1, Recorded DEF Registered
<1> HIDE DEF o
<1>5. /\ conn \in [Conns -> Connections]
      /\ \A d \in Conns \ {c} : conn'[d] = conn[d]
      /\ conn'[c].up = conn[c].up /\ conn'[c].owner = conn[c].owner
  <2>1. conn \in [Conns -> Connections]
    BY DEF AppInv, ConnectionInv, MessageTypes
  <2> QED
    BY <1>1, <1>4, <2>1 DEF AfterSendDown, Connections
<1> HIDE DEF c
<1>6. RegistryStays
  BY <1>1, <1>5 DEF RegistryStays, Running
<1>7. \A d \in Conns : UpShrinks(d) /\ conn'[d].up \in {<<>>, conn[d].up}
  BY <1>5 DEF UpShrinks
<1>8. Identities' /\ IdFirst' /\ Records' /\ NoneUnknown'
  <2>1. Identities' /\ Records' /\ NoneUnknown'
    BY <1>1, <1>6, <1>7, IdentitiesShrink, StayFacts, SessionParts
       DEF SessionInv, NoneUnknown
  <2>2. IdFirst'
    BY <1>6, <1>7, StayFacts, IdFirstKept, SessionParts DEF SessionInv, RegistryStays
  <2> QED
    BY <2>1, <2>2
<1>9. OutboxInv'
  <2>1. Running' /\ \A k \in DOMAIN outbox' : outbox'[k].fd \in ClientFds'
    BY <1>1, <1>3, <1>6, StayFacts DEF SessionInv, OutboxInv, RegistryStays
  <2>2. ASSUME NEW p \in Procs, At(p, "connected")'
        PROVE  conn'[sock'[p]].down = <<>>
    <3>1. At(p, "connected") /\ ~ At(p, "off")
      BY <1>1, <2>2 DEF At
    <3>2. sock[p] \in Conns \ {c}
      BY <1>4, <3>1, RunningSocket DEF AppInv, ConnectionInv, RequestsInv
    <3> QED
      BY <1>1, <1>5, <3>1, <3>2 DEF SessionInv, OutboxInv
  <2> QED
    BY <2>1, <2>2 DEF OutboxInv
<1>10. ASSUME NEW p \in Procs, Admitted(p)', Running'
       PROVE  OnRecord(p)'
  <2>1. ~ At(p, "off") /\ sock[p] \in Conns
    BY <1>1, <1>10, RunningSocket DEF AppInv, Admitted, InSession, At
  <2>2. CASE sock[p] = c
    <3>1. PICK id \in Ids : is_connected[id] /\ curr_fd[id] = o.fd
      BY <1>4, Recorded
    <3>2. IdOf[p] = id
      BY <2>1, <2>2, <3>1, RunningSocket, SessionParts
         DEF c, AppInv, SessionInv, Records, Holder
    <3> QED
      BY <1>1, <2>2, <3>1, <3>2 DEF OnRecord, c
  <2>3. CASE sock[p] # c
    <3>1. Admitted(p)
      BY <1>1, <1>5, <1>10, <2>1, <2>3 DEF Admitted, InSession, At, Confirmed
    <3> QED
      BY <1>1, <1>6, <1>10, <3>1, StayFacts
         DEF SessionInv, AdmissionsInv, RegistryStays
  <2> QED
    BY <2>2, <2>3
<1>11. AdmissionsInv'
  <2>1. Running'
    BY <1>1 DEF SessionInv, OutboxInv, Running
  <2>2. (AppInv /\ \A p \in Procs : Admitted(p) => OnRecord(p))' => AdmissionsInv'
    BY OneRecord, PTL
  <2> QED
    BY <1>10, <2>1, <2>2
<1> QED
  BY <1>8, <1>9, <1>11, SessionFrom

LEMMA SessionAccept ==
  ASSUME AppInv, SessionInv, Accept, UNCHANGED subscriberVars
  PROVE  SessionInv'
<1>1. /\ UNCHANGED <<conn, known, curr_fd, is_connected, subscribed_topics, poll_fds, outbox>>
      /\ AtLoop /\ mode' = "handshake"
  BY DEF Accept, AtAccept, registryVars, pollVars
<1>2. PICK fd \in Fds : IsNextFd(fd) /\ fdtab' = [fdtab EXCEPT ![fd] = Head(backlog)]
  BY DEF Accept
<1>3. \A other \in ClientFds : other # fd /\ other \in Fds
  BY <1>2, Recorded, SocketsAssumption DEF IsNextFd, SocketsAssumption
<1>4. RegistryStays
  BY <1>1, <1>2, <1>3 DEF RegistryStays, Running, AtLoop, AppInv, RegistryInv, RegistryTypes
<1>5. outbox' = <<>>
  BY <1>1 DEF AtLoop
<1> QED
  BY <1>1, <1>4, <1>5, SameConn, SessionStays DEF SessionInv, OutboxInv

(* The id that arrives is that of the process at the other end.            *)
LEMMA ArrivedId ==
  ASSUME AppInv, SessionInv, NEW id \in Ids, IdArrived(id)
  PROVE  LET c == fdtab[newfd]
         IN  /\ newfd \in Fds /\ newfd \notin ClientFds /\ c \in Conns
             /\ conn[c].up # <<>> /\ ~ Registered(c)
             /\ conn[c].owner \in Procs /\ IdOf[conn[c].owner] = id
<1> DEFINE c == fdtab[newfd]
<1>1. mode = "handshake" /\ newfd # NoFd /\ conn[c].up # <<>> /\ id = Head(conn[c].up).payload
  BY DEF IdArrived, AppInv, RegistryInv
<1>2. /\ newfd \in Fds /\ newfd \notin ClientFds /\ c \in Conns
      /\ ~ Registered(c) /\ HeldByServer(conn[c])
  BY <1>1, Recorded
<1> HIDE DEF c
<1>3. conn[c] \in Connections
  BY <1>2 DEF AppInv, ConnectionInv, MessageTypes
<1>4. conn[c].owner \in Procs /\ conn[c].up \in Seq(UpMessages)
  BY <1>2, <1>3 DEF Connections, HeldByServer
<1>5. Head(conn[c].up) = conn[c].up[1] /\ 1 \in DOMAIN conn[c].up
  BY <1>1, <1>4, ShorterQueue
<1>6. conn[c].up[1].command = CONNECT_REQ
  BY <1>1, <1>2, SessionParts DEF SessionInv, IdFirst, Running
<1>7. IdOf[conn[c].owner] = id
  BY <1>1, <1>2, <1>5, <1>6, SessionParts DEF SessionInv, Identities, IdentityOf
<1> QED
  BY <1>1, <1>2, <1>4, <1>7 DEF c

LEMMA ReceivedShrinks ==
  ASSUME AppInv, NEW c \in Conns, conn[c].up # <<>>, conn' = Received(c)
  PROVE  /\ \A d \in Conns : UpShrinks(d) /\ DownShrinks(d)
         /\ \A d \in Conns \ {c} : conn'[d].up = conn[d].up
         /\ \A d \in Conns : conn'[d].owner = conn[d].owner
<1>1. conn \in [Conns -> Connections]
  BY DEF AppInv, ConnectionInv, MessageTypes
<1>2. /\ conn'[c].up = Tail(conn[c].up) /\ conn'[c].down = conn[c].down
      /\ \A d \in Conns \ {c} : conn'[d] = conn[d]
      /\ \A d \in Conns : conn'[d].owner = conn[d].owner
  BY <1>1, ReceivedFacts
<1> QED
  BY <1>2 DEF UpShrinks, DownShrinks

(* Whoever registers or comes back holds the only session of its id.       *)
LEMMA SessionAdmit ==
  ASSUME AppInv, AppInv', SessionInv, NEW id \in Ids, IdArrived(id), AdmitClient(id),
         ~ is_connected[id], known' = known \cup {id},
         \A x \in Ids \ {id} : subscribed_topics'[x] = subscribed_topics[x],
         UNCHANGED subscriberVars
  PROVE  SessionInv'
<1> DEFINE c == fdtab[newfd]
<1>1. /\ is_connected' = [is_connected EXCEPT ![id] = TRUE]
      /\ curr_fd' = [curr_fd EXCEPT ![id] = newfd]
      /\ poll_fds' = Append(poll_fds, newfd)
      /\ conn' = Received(c) /\ UNCHANGED fdtab
      /\ outbox' = <<[fd |-> newfd, msg |-> Reply(CONNECT_ACCEPTED, <<>>, 0)]>>
      /\ mode' = "loop" /\ mode = "handshake"
      /\ sock' = sock
  BY DEF AdmitClient, IdArrived, subscriberVars
<1>2. /\ newfd \in Fds /\ newfd \notin ClientFds /\ c \in Conns
      /\ conn[c].up # <<>> /\ conn[c].owner \in Procs /\ IdOf[conn[c].owner] = id
  BY ArrivedId
<1>3. /\ \A d \in Conns : UpShrinks(d) /\ DownShrinks(d)
      /\ \A d \in Conns \ {c} : conn'[d].up = conn[d].up
      /\ \A d \in Conns : conn'[d].owner = conn[d].owner
  BY <1>1, <1>2, ReceivedShrinks
<1>4. ClientFds' = ClientFds \cup {newfd}
  BY <1>1, <1>2, AppendRange DEF ClientFds, AppInv, RegistryInv, RegistryTypes
<1>5. \A d \in Conns : Registered(d) => Registered(d)'
  BY <1>1, <1>4 DEF Registered
<1>6. \A d \in Conns : d = c => Registered(d)'
  BY <1>1, <1>4 DEF Registered
<1>7. Running /\ Running'
  BY <1>1 DEF Running
<1>8. \A x \in Ids : is_connected'[x] => x = id \/ (is_connected[x] /\ curr_fd'[x] = curr_fd[x])
  BY <1>1 DEF AppInv, RegistryInv, RegistryTypes
<1>9. is_connected'[id] /\ curr_fd'[id] = newfd
  BY <1>1 DEF AppInv, RegistryInv, RegistryTypes
<1>10. Identities' /\ NoneUnknown'
  <2>1. Identities'
    BY <1>3, IdentitiesShrink, SessionParts DEF SessionInv
  <2> QED
    BY <2>1, SessionParts DEF SessionInv, NoneUnknown
<1>11. IdFirst'
  BY <1>3, <1>5, <1>6, <1>7, IdFirstKept, SessionParts DEF SessionInv
<1>12. Records'
  <2>1. ASSUME NEW x \in Ids, is_connected'[x]
        PROVE  IdOf[conn'[fdtab'[curr_fd'[x]]].owner] = x
    <3>1. CASE x = id
      BY <1>1, <1>2, <1>3, <1>9, <3>1
    <3>2. CASE x # id
      <4>1. is_connected[x] /\ curr_fd'[x] = curr_fd[x] /\ fdtab[curr_fd[x]] \in Conns
        BY <1>8, <2>1, <3>2, Recorded
      <4> QED
        BY <1>1, <1>3, <4>1, SessionParts DEF SessionInv, Records, Holder
    <3> QED
      BY <3>1, <3>2
  <2> QED
    BY <2>1 DEF Records, Holder
<1>13. Quietly' /\ \A p \in Procs : Admitted(p)' => Admitted(p) /\ sock'[p] = sock[p]
  BY <1>3, NoneAdmitted DEF NothingConfirmed, SessionInv, OutboxInv, Quietly
<1>14. OutboxInv'
  BY <1>1, <1>4, <1>7, <1>13 DEF OutboxInv, Quietly
<1>15. ASSUME NEW p \in Procs, OnRecord(p), sock'[p] = sock[p]
       PROVE  OnRecord(p)'
  <2>1. IdOf[p] \in Ids /\ IdOf[p] # id
    BY <1>15, AppAssumption DEF AppAssumption, OnRecord
  <2> QED
    BY <1>1, <1>15, <2>1 DEF OnRecord, AppInv, RegistryInv, RegistryTypes
<1>16. AdmissionsInv'
  BY <1>7, <1>13, <1>15, AdmissionsKept DEF SessionInv
<1> QED
  BY <1>10, <1>11, <1>12, <1>14, <1>16, SessionFrom

(* A refusal is no confirmation, and the connection it goes to is not one  *)
(* of the registered.                                                      *)
LEMMA SessionDeny ==
  ASSUME AppInv, SessionInv, NEW id \in Ids, DenyClient(id), UNCHANGED subscriberVars
  PROVE  SessionInv'
<1> DEFINE c == fdtab[newfd]
           denied == Reply(CONNECT_DENIED, <<>>, 0)
           k == Received(c)[c]
           told == IF k.upEnd = "open" THEN [k EXCEPT !.down = Append(k.down, denied)]
                   ELSE k
<1>1. /\ newfd \in Fds /\ newfd \notin ClientFds /\ c \in Conns
      /\ conn[c].up # <<>> /\ ~ Registered(c)
  BY ArrivedId DEF DenyClient
<1>2. /\ UNCHANGED <<known, curr_fd, is_connected, subscribed_topics, poll_fds, outbox>>
      /\ fdtab' = [fdtab EXCEPT ![newfd] = NoConn]
      /\ mode = "handshake" /\ mode' = "loop" /\ outbox = <<>>
  BY DEF DenyClient, IdArrived, AfterClose, registryVars, pollVars
<1>3. PICK new \in AfterServerClose(told) : conn' = [conn EXCEPT ![c] = new]
  BY DEF DenyClient, AfterDenial
<1>4. conn \in [Conns -> Connections]
  BY DEF AppInv, ConnectionInv, MessageTypes
<1>5. k \in Connections /\ k.down = conn[c].down
  BY <1>1, <1>4, ReceivedFacts
<1> HIDE DEF k
<1>6. told \in Connections /\ told.down \in {conn[c].down, Append(conn[c].down, denied)}
  <2>1. denied \in DownMessages
    BY ReplyFacts, ZeroDatagrams
  <2>2. k.down \in Seq(DownMessages)
    BY <1>5 DEF Connections
  <2>3. Append(k.down, denied) \in Seq(DownMessages)
    BY <2>1, <2>2, AppendProperties
  <2> DEFINE longer == Append(k.down, denied)
  <2>4. /\ [k EXCEPT !.down = longer] \in Connections
        /\ [k EXCEPT !.down = longer].down = longer
    BY <1>5, <2>3, DownReplaced
  <2> QED
    BY <1>5, <2>4
<1> HIDE DEF told
<1>7. new \in Connections /\ new.up = <<>> /\ new.down \in {<<>>, told.down}
  <2>1. PICK e \in Closings : new = ServerClosed(told, e)
    BY <1>3 DEF AfterServerClose, Closings
  <2> QED
    BY <1>6, <2>1, ServerClosedFacts, ServerClosedDown
<1>8. conn'[c] = new /\ \A d \in Conns \ {c} : conn'[d] = conn[d]
  BY <1>1, <1>3, <1>4
<1>9. (\E j \in DOMAIN new.down : new.down[j].command = CONNECT_ACCEPTED) => Confirmed(c)
  <2>1. conn[c].down \in Seq(DownMessages) /\ denied.command # CONNECT_ACCEPTED
    BY <1>1, <1>4 DEF Connections, Reply, CONNECT_DENIED, CONNECT_ACCEPTED
  <2>2. CASE new.down \in {<<>>, conn[c].down}
    BY <2>2 DEF Confirmed
  <2>3. CASE new.down = Append(conn[c].down, denied)
    <3>1. \A j \in DOMAIN new.down : \/ /\ j \in DOMAIN conn[c].down
                                        /\ new.down[j] = conn[c].down[j]
                                     \/ new.down[j] = denied
      <4>1. denied \in DownMessages
        BY ReplyFacts, ZeroDatagrams
      <4> HIDE DEF denied
      <4> QED
        BY <2>1, <2>3, <4>1, AppendedElements
    <3> HIDE DEF denied
    <3> QED
      BY <2>1, <3>1 DEF Confirmed
  <2> QED
    BY <1>6, <1>7, <2>2, <2>3
<1> HIDE DEF denied
<1>10. \A d \in Conns : /\ UpShrinks(d) /\ NothingConfirmed(d)
                        /\ conn'[d].up \in {<<>>, conn[d].up}
  <2>1. ASSUME NEW d \in Conns, d = c
        PROVE  /\ UpShrinks(d) /\ NothingConfirmed(d)
               /\ conn'[d].up \in {<<>>, conn[d].up}
    BY <1>1, <1>7, <1>8, <1>9, <2>1 DEF UpShrinks, NothingConfirmed, Confirmed
  <2>2. ASSUME NEW d \in Conns, d # c
        PROVE  /\ UpShrinks(d) /\ NothingConfirmed(d)
               /\ conn'[d].up \in {<<>>, conn[d].up}
    BY <1>8, <2>2 DEF UpShrinks, NothingConfirmed, DownShrinks
  <2> QED
    BY <2>1, <2>2
<1>11. RegistryStays
  <2>1. \A fd \in ClientFds : fd \in Fds
    BY Recorded
  <2>2. \A fd \in ClientFds : fdtab'[fd] = fdtab[fd]
    BY <1>1, <1>2, <2>1 DEF AppInv, RegistryInv, RegistryTypes
  <2> QED
    BY <1>1, <1>2, <1>8, <2>2 DEF RegistryStays, Running
<1> QED
  BY <1>2, <1>10, <1>11, SessionStays DEF SessionInv, OutboxInv

(* Nobody is in session on a connection whose subscriber has closed it.    *)
LEMMA SessionDisconnect ==
  ASSUME AppInv, SessionInv, NEW i \in DOMAIN poll_fds, NEW id \in Ids,
         DisconnectClient(i, id), UNCHANGED subscriberVars
  PROVE  SessionInv'
<1> DEFINE fd == poll_fds[i]
           c == fdtab[fd]
<1>1. /\ UNCHANGED <<known, subscribed_topics, mode, outbox>> /\ sock' = sock
      /\ fdtab' = [fdtab EXCEPT ![fd] = NoConn]
      /\ poll_fds' = RemoveAt(poll_fds, i)
      /\ is_connected' = [is_connected EXCEPT ![id] = FALSE]
      /\ curr_fd' = [curr_fd EXCEPT ![id] = NoFd]
      /\ conn[c].upEnd = "fin" /\ curr_fd[id] = fd /\ outbox = <<>> /\ Running
  BY DEF DisconnectClient, AfterClose, FdsWithout, get_client_from_fd, subscriberVars,
         AtClient, AtLoop, Running
<1>2. fd \in ClientFds /\ fd \in Fds /\ c \in Conns
  BY PolledFdsFacts, Recorded DEF AppInv
<1>3. PICK new \in AfterServerClose(conn[c]) : conn' = [conn EXCEPT ![c] = new]
  BY DEF DisconnectClient
<1>4. conn \in [Conns -> Connections]
  BY DEF AppInv, ConnectionInv, MessageTypes
<1>5. new.up = <<>> /\ new.down \in {<<>>, conn[c].down}
  <2>1. PICK e \in Closings : new = ServerClosed(conn[c], e)
    BY <1>3 DEF AfterServerClose, Closings
  <2> QED
    BY <1>2, <1>4, <2>1, ServerClosedFacts, ServerClosedDown
<1>6. conn'[c] = new /\ \A d \in Conns \ {c} : conn'[d] = conn[d]
  BY <1>2, <1>3, <1>4
<1>7. ClientFds' = ClientFds \ {fd}
  <2>1. poll_fds \in Seq(Fds) /\ IsInjective(poll_fds)
    BY DEF AppInv, RegistryInv, PollSetMatchesRegistry, RegistryTypes
  <2>2. i \in 1..Len(poll_fds)
    BY <2>1, LenProperties
  <2> QED
    BY <1>1, <2>1, <2>2, RemoveAtRange DEF ClientFds
<1>8. \A x \in Fds \ {fd} : fdtab'[x] = fdtab[x]
  BY <1>1 DEF AppInv, RegistryInv, RegistryTypes
<1> HIDE DEF fd, c
<1>9. \A d \in Conns : UpShrinks(d) /\ DownShrinks(d) /\ conn'[d].up \in {<<>>, conn[d].up}
  BY <1>5, <1>6 DEF UpShrinks, DownShrinks
<1>10. \A x \in Ids : is_connected'[x] =>
         /\ x # id /\ is_connected[x] /\ curr_fd'[x] = curr_fd[x]
         /\ curr_fd[x] \in Fds \ {fd} /\ fdtab[curr_fd[x]] \in Conns \ {c}
  <2>1. \A x \in Ids : is_connected'[x] =>
          x # id /\ is_connected[x] /\ curr_fd'[x] = curr_fd[x] /\ curr_fd[x] \in Fds
    BY <1>1, Recorded DEF AppInv, RegistryInv, RegistryTypes
  <2>2. is_connected[id]
    BY <1>1, <1>2, SocketsAssumption
       DEF AppInv, RegistryInv, PollSetMatchesRegistry, SocketsAssumption, NoFd
  <2> QED
    BY <1>1, <2>1, <2>2, Recorded, OneConnectionPerId DEF c
<1>11. Identities' /\ NoneUnknown'
  BY <1>1, <1>9, IdentitiesShrink, SessionParts DEF SessionInv, NoneUnknown
<1>12. IdFirst'
  <2>1. \A d \in Conns : Registered(d) => Registered(d)' \/ conn'[d].up = <<>>
    BY <1>5, <1>6, <1>7, <1>8, Recorded DEF Registered, c
  <2> QED
    BY <1>1, <1>9, <2>1, IdFirstKept, SessionParts DEF SessionInv, Running
<1>13. Records'
  BY <1>6, <1>8, <1>10, SessionParts DEF SessionInv, Records, Holder
<1>14. Quietly' /\ \A p \in Procs : Admitted(p)' => Admitted(p) /\ sock'[p] = sock[p]
  BY <1>9, NoneAdmitted DEF NothingConfirmed, SessionInv, OutboxInv, Quietly
<1>15. OutboxInv'
  BY <1>1, <1>14 DEF OutboxInv, Quietly
<1>16. ASSUME NEW p \in Procs, Admitted(p), OnRecord(p), sock'[p] = sock[p]
       PROVE  OnRecord(p)'
  <2>1. conn[sock[p]].upEnd = "open"
    BY <1>16, AdmittedRuns, RunningSocket DEF AppInv
  <2>2. sock[p] # c
    BY <1>1, <2>1
  <2>3. IdOf[p] \in Ids \ {id}
    BY <1>1, <1>16, <2>2, AppAssumption DEF AppAssumption, OnRecord, c
  <2>4. is_connected'[IdOf[p]]
    BY <1>1, <1>16, <2>3 DEF OnRecord, AppInv, RegistryInv, RegistryTypes
  <2> QED
    BY <1>8, <1>10, <1>16, <2>3, <2>4 DEF OnRecord
<1>17. AdmissionsInv'
  BY <1>1, <1>14, <1>16, AdmissionsKept DEF SessionInv, Running
<1> QED
  BY <1>11, <1>12, <1>13, <1>15, <1>17, SessionFrom

(* A request leaves the registry as it is, but for the subscriptions of    *)
(* the client it came from.                                                *)
LEMMA SessionRequest ==
  ASSUME AppInv, SessionInv, NEW i \in DOMAIN poll_fds, NEW id \in Ids,
         ManageSubscribeUnsubscribe(i, id), UNCHANGED subscriberVars
  PROVE  SessionInv'
<1> DEFINE fd == poll_fds[i]
           c == fdtab[fd]
           req == Head(conn[c].up)
<1>1. /\ UNCHANGED <<known, curr_fd, is_connected, poll_fds, fdtab, mode>>
      /\ conn' = Received(c) /\ conn[c].up # <<>>
      /\ subscribed_topics' = [subscribed_topics EXCEPT
           ![id] = TopicsAfter(subscribed_topics[id], req.command, req.payload)]
      /\ Len(outbox') = 1 /\ outbox'[1].fd = fd /\ DOMAIN outbox' = {1}
      /\ id \in known /\ Running
  BY DEF ManageSubscribeUnsubscribe, get_client_from_fd, pollVars, AtClient, AtLoop, Running
<1>2. fd \in ClientFds /\ c \in Conns /\ Registered(c)
  BY PolledFdsFacts, Recorded DEF AppInv, Registered
<1>3. /\ \A d \in Conns : UpShrinks(d) /\ DownShrinks(d)
      /\ \A d \in Conns \ {c} : conn'[d].up = conn[d].up
      /\ \A d \in Conns : conn'[d].owner = conn[d].owner
  BY <1>1, <1>2, ReceivedShrinks
<1> HIDE DEF fd, c, req
<1>4. RegistryStays
  BY <1>1, <1>3 DEF RegistryStays, Running
<1>5. Identities' /\ Records'
  BY <1>3, <1>4, IdentitiesShrink, StayFacts, SessionParts DEF SessionInv
<1>6. NoneUnknown'
  BY <1>1, SessionParts DEF SessionInv, NoneUnknown, AppInv, ConnectionInv, MessageTypes
<1>7. IdFirst'
  <2>1. \A d \in Conns : /\ conn'[d].up \in {<<>>, conn[d].up} \/ Registered(d)'
                         /\ Registered(d) => Registered(d)' \/ conn'[d].up = <<>>
    BY <1>2, <1>3, <1>4, StayFacts
  <2> QED
    BY <1>4, <2>1, IdFirstKept, SessionParts DEF SessionInv, RegistryStays
<1>8. Quietly' /\ \A p \in Procs : Admitted(p)' => Admitted(p) /\ sock'[p] = sock[p]
  BY <1>3, NoneAdmitted DEF NothingConfirmed, SessionInv, OutboxInv, Quietly
<1>9. OutboxInv'
  BY <1>1, <1>2, <1>4, <1>8, StayFacts DEF OutboxInv, Quietly, RegistryStays
<1>10. AdmissionsInv'
  BY <1>4, <1>8, StayFacts, AdmissionsKept DEF SessionInv, RegistryStays
<1> QED
  BY <1>5, <1>6, <1>7, <1>9, <1>10, SessionFrom

(* A datagram goes to registered clients.                                  *)
LEMMA FanOutElements ==
  ASSUME AppInv, NEW d \in Datagrams, NEW s \in FanOut(d)
  PROVE  Range(s) = {[fd |-> curr_fd[id], msg |-> Reply(MSG_FROM_UDP, d.topic, d.n)] :
                       id \in Recipients(d.topic)}
<1> DEFINE send(id) == [fd |-> curr_fd[id], msg |-> Reply(MSG_FROM_UDP, d.topic, d.n)]
           S == {send(id) : id \in Recipients(d.topic)}
<1>1. IsFiniteSet(S)
  <2> DEFINE f == [id \in Recipients(d.topic) |-> send(id)]
  <2>1. IsFiniteSet(Recipients(d.topic))
    BY FS_Subset, AppAssumption
       DEF AppAssumption, Recipients, AppInv, RegistryInv, RegistryTypes
  <2>2. f \in Surjection(Recipients(d.topic), S)
    BY DEF Surjection
  <2> QED
    BY <2>1, <2>2, FS_Surjection
<1>2. s \in [1..Cardinality(S) -> S] /\ IsInjective(s)
  <2>1. s \in {g \in [1..Cardinality(S) -> S] :
                 \A i, j \in 1..Cardinality(S) : i # j => g[i] # g[j]}
    BY DEF FanOut, SetToSeqs
  <2> HIDE DEF S
  <2> QED
    BY <2>1 DEF IsInjective
<1>3. Range(s) = S
  <2> HIDE DEF S
  <2>1. Cardinality(S) \in Nat
    BY <1>1, FS_CardinalityType
  <2>2. s \in Injection(1..Cardinality(S), S)
    BY <1>2 DEF Injection, IsInjective
  <2>3. IsFiniteSet(1..Cardinality(S)) /\ Cardinality(1..Cardinality(S)) = Cardinality(S)
    BY <2>1, FS_Interval
  <2>4. s \in Surjection(1..Cardinality(S), S)
    BY <1>1, <2>2, <2>3, FS_Injection
  <2> QED
    BY <1>2, <2>4 DEF Surjection, Range
<1> QED
  BY <1>3

LEMMA SessionForward ==
  ASSUME AppInv, SessionInv, ManageUdpMessage, UNCHANGED subscriberVars
  PROVE  SessionInv'
<1>1. /\ UNCHANGED <<conn, fdtab, known, curr_fd, is_connected, subscribed_topics, poll_fds, mode>>
      /\ Running
  BY DEF ManageUdpMessage, socketVars, registryVars, pollVars, AtLoop, Running
<1>2. Head(udpq) \in Datagrams
  BY HeadTailProperties
     DEF ManageUdpMessage, AppInv, RoundInv, ConnectionInv, MessageTypes
<1>3. RegistryStays
  BY <1>1 DEF RegistryStays, Running
<1>4. \A k \in DOMAIN outbox' : outbox'[k].fd \in ClientFds
  <2>1. CASE outbox' = <<>>
    BY <2>1
  <2>2. CASE outbox' \in FanOut(Head(udpq))
    <3>1. \A o \in Range(outbox') : o.fd \in ClientFds
      <4> DEFINE send(id) == [fd |-> curr_fd[id],
                              msg |-> Reply(MSG_FROM_UDP, Head(udpq).topic, Head(udpq).n)]
      <4>1. Range(outbox') = {send(id) : id \in Recipients(Head(udpq).topic)}
        BY <1>2, <2>2, FanOutElements
      <4>2. \A id \in Recipients(Head(udpq).topic) : curr_fd[id] \in ClientFds
        BY Recorded DEF Recipients, AppInv, RegistryInv, RegistryTypes
      <4> QED
        BY <4>1, <4>2
    <3> QED
      BY <3>1 DEF Range
  <2>3. outbox' = <<>> \/ outbox' \in FanOut(Head(udpq))
    BY DEF ManageUdpMessage
  <2> QED
    BY <2>1, <2>2, <2>3
<1> QED
  BY <1>1, <1>3, <1>4, SameConn, SessionStays DEF Running

LEMMA SessionServerStep ==
  ASSUME AppInv, AppInv', SessionInv, ServerNext, UNCHANGED subscriberVars
  PROVE  SessionInv'
<1>1. CASE Poll
  <2>1. /\ UNCHANGED <<conn, fdtab, known, curr_fd, is_connected, subscribed_topics, poll_fds, mode, outbox>>
        /\ Running
    BY <1>1 DEF Poll, socketVars, registryVars, pollVars, AtLoop, Running
  <2>2. RegistryStays
    BY <2>1 DEF RegistryStays, Running
  <2> QED
    BY <2>1, <2>2, SameConn, SessionStays DEF SessionInv, OutboxInv, Running
<1>2. CASE CheckStdinData
  <2>1. CASE Halt("stopped")
    BY <2>1, SessionHalt
  <2>2. CASE ~ Halt("stopped")
    <3>1. UNCHANGED <<conn, fdtab, known, curr_fd, is_connected, subscribed_topics, poll_fds, mode, outbox>>
      BY <1>2, <2>2 DEF CheckStdinData, socketVars, registryVars, pollVars
    <3>2. RegistryStays
      BY <3>1 DEF RegistryStays, Running
    <3> QED
      BY <3>1, <3>2, SameConn, SessionStays DEF SessionInv, OutboxInv, Running
  <2> QED
    BY <2>1, <2>2
<1>3. CASE ManageUdpMessage
  BY <1>3, SessionForward
<1>4. CASE SendNext
  BY <1>4, SessionSendNext
<1>5. CASE SendFails \/ AcceptFails \/ DenialFails \/ NoIdArrives
  BY <1>5, SessionHalt DEF SendFails, AcceptFails, DenialFails, NoIdArrives
<1>6. CASE Accept
  BY <1>6, SessionAccept
<1>7. ASSUME NEW id \in Ids, RegisterClient(id)
      PROVE  SessionInv'
  <2>1. ~ is_connected[id]
    BY <1>7 DEF RegisterClient, AppInv, RegistryInv
  <2>2. \A x \in Ids \ {id} : subscribed_topics'[x] = subscribed_topics[x]
    BY <1>7 DEF RegisterClient, AppInv, ConnectionInv, MessageTypes
  <2> QED
    BY <1>7, <2>1, <2>2, SessionAdmit DEF RegisterClient
<1>8. ASSUME NEW id \in Ids, ReconnectClient(id)
      PROVE  SessionInv'
  <2>1. known' = known \cup {id}
    BY <1>8 DEF ReconnectClient
  <2> QED
    BY <1>8, <2>1, SessionAdmit DEF ReconnectClient, Refused
<1>9. ASSUME NEW id \in Ids, DenyClient(id)
      PROVE  SessionInv'
  BY <1>9, SessionDeny
<1>10. ASSUME NEW i \in DOMAIN poll_fds, NEW id \in Ids,
              ManageSubscribeUnsubscribe(i, id) \/ DisconnectClient(i, id)
       PROVE  SessionInv'
  BY <1>10, SessionRequest, SessionDisconnect
<1>11. ASSUME NEW i \in DOMAIN poll_fds, RecvFails(i)
       PROVE  SessionInv'
  BY <1>11, SessionHalt DEF RecvFails
<1> QED
  BY <1>1, <1>2, <1>3, <1>4, <1>5, <1>6, <1>7, <1>8, <1>9, <1>10, <1>11 DEF ServerNext

-----------------------------------------------------------------------------
(* The subscribers' steps.                                                 *)
RegistryUntouched ==
  UNCHANGED <<mode, outbox, known, curr_fd, is_connected, subscribed_topics, poll_fds, fdtab>>

(* One process moves, at one end of one connection.                        *)
LEMMA SessionOfOne ==
  ASSUME AppInv, SessionInv, RegistryUntouched, NEW p \in Procs, NEW c \in Conns,
         \A d \in Conns \ {c} : conn'[d] = conn[d],
         HeldByServer(conn[c]) => conn'[c].owner = conn[c].owner,
         \A q \in Procs \ {p} : /\ spc'[q] = spc[q] /\ sock'[q] = sock[q]
                                /\ ~ At(q, "off") => sock[q] # c,
         Identities', IdFirst',
         At(p, "connected")' => conn'[sock'[p]].down = <<>>,
         Admitted(p)' => Admitted(p) /\ sock'[p] = sock[p]
  PROVE  SessionInv'
<1>1. RegistryStays
  <2>1. \A d \in Conns : Registered(d) => HeldByServer(conn[d])
    BY Recorded DEF Registered, AppInv, ConnectionInv, Descriptors, SocketsAssumption
  <2> QED
    BY <2>1 DEF RegistryUntouched, RegistryStays, Running
<1>2. Records' /\ NoneUnknown'
  BY <1>1, StayFacts, SessionParts DEF RegistryUntouched, SessionInv, NoneUnknown
<1>3. \A q \in Procs \ {p} : ~ At(q, "off") =>
        /\ sock[q] \in Conns /\ conn'[sock'[q]] = conn[sock[q]]
  BY RunningSocket DEF AppInv
<1>4. OutboxInv'
  <2>1. ASSUME NEW q \in Procs \ {p}, At(q, "connected")'
        PROVE  conn'[sock'[q]].down = <<>>
    <3>1. At(q, "connected") /\ ~ At(q, "off")
      BY <2>1 DEF At
    <3> QED
      BY <1>3, <3>1 DEF SessionInv, OutboxInv
  <2> QED
    BY <1>1, <2>1, StayFacts DEF RegistryUntouched, SessionInv, OutboxInv, Running
<1>5. ASSUME NEW q \in Procs, Admitted(q)'
      PROVE  Admitted(q) /\ sock'[q] = sock[q]
  <2>1. CASE q = p
    BY <1>5, <2>1
  <2>2. CASE q # p
    <3>1. ~ At(q, "off") /\ spc'[q] = spc[q] /\ sock'[q] = sock[q]
      BY <1>5, <2>2 DEF Admitted, InSession, At
    <3> QED
      BY <1>3, <1>5, <2>2, <3>1 DEF Admitted, InSession, At, Confirmed
  <2> QED
    BY <2>1, <2>2
<1>6. AdmissionsInv'
  BY <1>1, <1>5, StayFacts, AdmissionsKept DEF SessionInv, RegistryStays
<1> QED
  BY <1>2, <1>4, <1>6, SessionFrom
LEMMA SameRegistered ==
  ASSUME RegistryUntouched
  PROVE  \A c : Registered(c)' <=> Registered(c)
BY DEF RegistryUntouched, Registered, ClientFds

(* A process that sends nothing.                                           *)
LEMMA NothingNew ==
  ASSUME AppInv, SessionInv, RegistryUntouched, NEW c \in Conns, UpShrinks(c),
         conn'[c].up \in {<<>>, conn[c].up},
         \A d \in Conns \ {c} : conn'[d] = conn[d]
  PROVE  Identities' /\ IdFirst'
<1>1. \A d \in Conns : UpShrinks(d) /\ conn'[d].up \in {<<>>, conn[d].up}
  BY DEF UpShrinks
<1>2. Identities'
  BY <1>1, IdentitiesShrink, SessionParts DEF SessionInv
<1>3. IdFirst'
  BY <1>1, SameRegistered, IdFirstKept, SessionParts
     DEF SessionInv, RegistryUntouched, Running
<1> QED
  BY <1>2, <1>3

LEMMA SessionEnd ==
  ASSUME AppInv, SessionInv, RegistryUntouched, NEW p \in Procs, ~ At(p, "off"), End(p)
  PROVE  SessionInv'
<1> DEFINE c == sock[p]
<1>1. /\ c \in Conns /\ conn[c] \in Connections
      /\ \A q \in Procs \ {p} : sock[q] # c
  BY RunningSocket DEF AppInv
<1>2. PICK new \in AfterClientClose(conn[c]) : conn' = [conn EXCEPT ![c] = new]
  BY DEF End
<1>3. /\ new.up \in {<<>>, conn[c].up}
      /\ new.up = <<>> \/ new.owner = conn[c].owner
      /\ HeldByServer(conn[c]) => new.owner = conn[c].owner
  BY <1>1, <1>2, ClientCloseFacts, FreeConnFacts DEF HeldByServer
<1>4. /\ conn'[c] = new
      /\ \A d \in Conns \ {c} : conn'[d] = conn[d]
  BY <1>1, <1>2 DEF AppInv, ConnectionInv, MessageTypes
<1>5. /\ spc'[p] = "off"
      /\ \A q \in Procs \ {p} : spc'[q] = spc[q] /\ sock'[q] = sock[q]
  BY DEF End, Goto, AppInv, ConnectionInv, ProcTypes
<1> HIDE DEF c
<1>6. Identities' /\ IdFirst'
  BY <1>1, <1>3, <1>4, NothingNew DEF UpShrinks
<1>7. ~ At(p, "connected")' /\ ~ Admitted(p)'
  BY <1>5 DEF At, Admitted, InSession
<1> QED
  BY <1>1, <1>3, <1>4, <1>5, <1>6, <1>7, SessionOfOne

LEMMA SessionPrepare ==
  ASSUME AppInv, SessionInv, RegistryUntouched, NEW p \in Procs, Prepare(p, Running)
  PROVE  SessionInv'
<1>1. PICK c \in Conns : /\ conn[c] = FreeConn
                         /\ conn' = [conn EXCEPT ![c].owner = p]
                         /\ sock' = [sock EXCEPT ![p] = c]
  BY DEF Prepare
<1>2. conn'[c].up = <<>> /\ conn'[c].down = <<>> /\ \A d \in Conns \ {c} : conn'[d] = conn[d]
  <2>1. conn'[c] = [FreeConn EXCEPT !.owner = p]
    BY <1>1 DEF AppInv, ConnectionInv, MessageTypes
  <2> QED
    BY <1>1, <2>1 DEF FreeConn, AppInv, ConnectionInv, MessageTypes
<1>3. /\ spc'[p] = "connected" /\ sock'[p] = c
      /\ \A q \in Procs \ {p} : spc'[q] = spc[q] /\ sock'[q] = sock[q]
  BY <1>1 DEF Prepare, Goto, AppInv, ConnectionInv, ProcTypes
<1>4. \A q \in Procs \ {p} : ~ At(q, "off") => sock[q] # c
  BY <1>1, RunningSocket, FreeConnFacts, SocketsAssumption DEF AppInv, SocketsAssumption
<1>5. Identities' /\ IdFirst'
  BY <1>2, NothingNew DEF UpShrinks
<1>6. ~ Admitted(p)' /\ ~ HeldByServer(conn[c])
  BY <1>1, <1>3, FreeConnFacts DEF At, Admitted, InSession
<1> QED
  BY <1>2, <1>3, <1>4, <1>5, <1>6, SessionOfOne

(* A process in session moves on, or one that finds its confirmation.      *)
LEMMA SessionMove ==
  ASSUME AppInv, SessionInv, RegistryUntouched, NEW p \in Procs, Admitted(p),
         (Incoming(p) /\ Take(p)) \/ UNCHANGED conn, sock' = sock,
         NEW place \in {"poll", "tcp", "sending"}, Goto(p, place)
  PROVE  SessionInv'
<1> DEFINE c == sock[p]
<1>1. /\ c \in Conns /\ conn[c] \in Connections
      /\ \A q \in Procs \ {p} : sock[q] # c
  BY AdmittedRuns, RunningSocket DEF AppInv
<1>2. /\ conn'[c].up = conn[c].up /\ conn'[c].owner = conn[c].owner
      /\ \A d \in Conns \ {c} : conn'[d] = conn[d]
  BY <1>1 DEF Take, AppInv, ConnectionInv, MessageTypes, Connections
<1>3. /\ spc'[p] = place
      /\ \A q \in Procs \ {p} : spc'[q] = spc[q] /\ sock'[q] = sock[q]
  BY DEF Goto, AppInv, ConnectionInv, ProcTypes
<1> HIDE DEF c
<1>4. Identities' /\ IdFirst'
  BY <1>1, <1>2, NothingNew DEF UpShrinks
<1>5. ~ At(p, "connected")'
  BY <1>3 DEF At
<1> QED
  BY <1>1, <1>2, <1>3, <1>4, <1>5, SessionOfOne

(* A process sends.                                                        *)
LEMMA SessionSent ==
  ASSUME AppInv, SessionInv, RegistryUntouched, NEW p \in Procs, ~ At(p, "off"),
         NEW m \in UpMessages, IdentityOf(sock[p], m), conn' = AfterSendUp(sock[p], m),
         Running /\ ~ Registered(sock[p]) => m.command = CONNECT_REQ,
         NEW place \in {"awaitAccept", "awaitAnswer"}, Goto(p, place), sock' = sock,
         place = "awaitAnswer" => Admitted(p),
         place = "awaitAccept" => ~ Confirmed(sock[p])
  PROVE  SessionInv'
<1> DEFINE c == sock[p]
<1>1. /\ c \in Conns /\ conn[c] \in Connections /\ conn[c].up \in Seq(UpMessages)
      /\ \A q \in Procs \ {p} : sock[q] # c
  BY RunningSocket DEF AppInv
<1>2. /\ conn'[c].owner = conn[c].owner /\ conn'[c].down = conn[c].down
      /\ conn'[c].up \in {conn[c].up, Append(conn[c].up, m)}
      /\ \A d \in Conns \ {c} : conn'[d] = conn[d]
  BY <1>1 DEF AfterSendUp, AppInv, ConnectionInv, MessageTypes, Connections
<1>3. /\ spc'[p] = place
      /\ \A q \in Procs \ {p} : spc'[q] = spc[q] /\ sock'[q] = sock[q]
  BY DEF Goto, AppInv, ConnectionInv, ProcTypes
<1>4. IdentityOf(c, m) /\ (Running /\ ~ Registered(c) => m.command = CONNECT_REQ)
  OBVIOUS
<1> HIDE DEF c
<1>5. \A k \in DOMAIN conn'[c].up : \/ k \in DOMAIN conn[c].up /\ conn'[c].up[k] = conn[c].up[k]
                                    \/ conn'[c].up[k] = m
  <2>1. CASE conn'[c].up = conn[c].up
    BY <2>1
  <2>2. CASE conn'[c].up = Append(conn[c].up, m)
    BY <1>1, <2>2, AppendedElements
  <2> QED
    BY <1>2, <2>1, <2>2
<1>6. Identities'
  BY <1>2, <1>4, <1>5, SessionParts DEF SessionInv, Identities, IdentityOf
<1>7. IdFirst'
  <2>1. conn'[c].up # <<>> =>
          \/ conn[c].up # <<>> /\ conn'[c].up[1] = conn[c].up[1]
          \/ conn'[c].up[1] = m
    BY <1>1, <1>2, AppendProperties, LenProperties, EmptySeq
  <2>2. Running' <=> Running
    BY DEF RegistryUntouched, Running
  <2> QED
    BY <1>2, <1>4, <2>1, <2>2, SameRegistered, SessionParts DEF SessionInv, IdFirst
<1>8. ~ At(p, "connected")' /\ (Admitted(p)' => Admitted(p))
  BY <1>2, <1>3 DEF At, Admitted, InSession, Confirmed, c
<1> QED
  BY <1>1, <1>2, <1>3, <1>6, <1>7, <1>8, SessionOfOne
LEMMA SessionProcStep ==
  ASSUME AppInv, SessionInv, RegistryUntouched, NEW p \in Procs, SubscriberStep(p)
  PROVE  SessionInv'
<1>1. CASE SendId(p)
  <2> DEFINE m == Request(CONNECT_REQ, IdOf[p])
  <2>1. m \in UpMessages
    BY RequestFacts, AppAssumption DEF AppAssumption
  <2>2. m.command = CONNECT_REQ /\ m.payload = IdOf[p]
    BY DEF Request
  <2>3. ~ At(p, "off") /\ At(p, "connected")
    BY <1>1 DEF SendId, At
  <2>4. conn[sock[p]].owner = p /\ ~ Confirmed(sock[p])
    BY <2>3, RunningSocket, FreeConnFacts
       DEF AppInv, SessionInv, OutboxInv, Confirmed
  <2> HIDE DEF m
  <2>5. IdentityOf(sock[p], m)
    BY <2>2, <2>4 DEF IdentityOf
  <2>6. /\ conn' = AfterSendUp(sock[p], m) /\ Goto(p, "awaitAccept") /\ sock' = sock
    BY <1>1 DEF SendId, m
  <2> QED
    BY <2>1, <2>2, <2>3, <2>4, <2>5, <2>6, SessionSent
<1>2. CASE SendRequest(p)
  <2>1. asked[p] \in UpMessages /\ asked[p].command # CONNECT_REQ
    BY <1>2, RequestFacts DEF SendRequest, AppInv, ConnectionInv, RequestsInv, MessageTypes
  <2>2. ~ At(p, "off") /\ Admitted(p)
    BY <1>2 DEF SendRequest, At, Admitted, InSession
  <2>3. Running => Registered(sock[p])
    BY <2>2, Recorded, AppAssumption
       DEF AppAssumption, SessionInv, AdmissionsInv, OnRecord, Registered
  <2>4. IdentityOf(sock[p], asked[p])
    BY <2>1 DEF IdentityOf
  <2> QED
    BY <1>2, <2>1, <2>2, <2>3, <2>4, SessionSent DEF SendRequest
<1>3. CASE Accepted(p)
  <2>1. ~ At(p, "off")
    BY <1>3 DEF Accepted, At
  <2>2. conn[sock[p]].down \in Seq(DownMessages)
    BY <2>1, RunningSocket DEF AppInv
  <2>3. 1 \in DOMAIN conn[sock[p]].down /\ FirstIn(p) = conn[sock[p]].down[1]
    BY <1>3, <2>2, HeadTailProperties, LenProperties, EmptySeq DEF Accepted, Incoming, FirstIn
  <2>4. Admitted(p)
    BY <1>3, <2>3 DEF Accepted, Admitted, Confirmed
  <2> QED
    BY <1>3, <2>4, SessionMove DEF Accepted
<1>4. CASE RecvAnswer(p)
  <2>1. Admitted(p) /\ AfterStdin(p) \in {"poll", "tcp", "sending"}
    BY <1>4 DEF RecvAnswer, At, Admitted, InSession, AfterStdin
  <2> QED
    BY <1>4, <2>1, SessionMove DEF RecvAnswer
<1>5. CASE RecvTcp(p)
  <2>1. Admitted(p)
    BY <1>5 DEF RecvTcp, Admitted, InSession
  <2> QED
    BY <1>5, <2>1, SessionMove DEF RecvTcp
<1>6. CASE ServerGone(p) \/ RecvDies(p) \/ Denied(p) \/ ServerClosedIt(p)
  <2>1. ~ At(p, "off") /\ End(p)
    BY <1>6 DEF ServerGone, RecvDies, Denied, ServerClosedIt, At
  <2> QED
    BY <2>1, SessionEnd
<1> QED
  BY <1>1, <1>2, <1>3, <1>4, <1>5, <1>6 DEF SubscriberStep

LEMMA SessionUserStep ==
  ASSUME AppInv, SessionInv, RegistryUntouched, NEW p \in Procs, UserStep(p, Running)
  PROVE  SessionInv'
<1>1. CASE Prepare(p, Running)
  BY <1>1, SessionPrepare
<1>2. CASE Exit(p) \/ Kill(p)
  <2>1. ~ At(p, "off") /\ End(p)
    BY <1>2 DEF Exit, Kill, At
  <2> QED
    BY <2>1, SessionEnd
<1>3. ASSUME NEW command \in {SUBSCRIBE_REQ, UNSUBSCRIBE_REQ}, NEW topic \in SubTopics,
             TypeRequest(p, command, topic)
      PROVE  SessionInv'
  <2>1. Admitted(p)
    BY <1>3 DEF TypeRequest, At, Admitted, InSession
  <2>2. UNCHANGED conn /\ sock' = sock /\ Goto(p, "sending")
    BY <1>3 DEF TypeRequest, socketVars
  <2> QED
    BY <2>1, <2>2, SessionMove
<1> QED
  BY <1>1, <1>2, <1>3 DEF UserStep

-----------------------------------------------------------------------------
LEMMA Untouched ==
  ASSUME \/ \E p \in Procs : ProcStep(p) \/ UserOf(p)
         \/ TypeConsole \/ SendDatagram \/ UNCHANGED vars
  PROVE  RegistryUntouched
BY DEF ProcStep, UserOf, TypeConsole, SendDatagram, RegistryUntouched, TypeLine,
       ArriveDatagram, vars, SubscriberStep, UserStep, SendId, ServerGone, RecvDies,
       Accepted, Denied, SendRequest, RecvAnswer, RecvTcp, ServerClosedIt, Prepare,
       Exit, TypeRequest, Kill, End, serverVars, registryVars, pollVars, socketVars

LEMMA SessionNext ==
  ASSUME AppInv, AppInv', SessionInv, [Next]_vars
  PROVE  SessionInv'
<1>1. CASE ServerStep
  BY <1>1, SessionServerStep DEF ServerStep
<1>2. ASSUME NEW p \in Procs, ProcStep(p) \/ UserOf(p)
      PROVE  SessionInv'
  BY <1>2, Untouched, SessionProcStep, SessionUserStep DEF ProcStep, UserOf
<1>3. CASE TypeConsole \/ SendDatagram \/ UNCHANGED vars
  <2>1. UNCHANGED <<conn, subscriberVars>>
    BY <1>3 DEF TypeConsole, SendDatagram, vars, socketVars
  <2>2. RegistryUntouched
    BY <1>3, Untouched
  <2>3. RegistryStays
    BY <2>1, <2>2 DEF RegistryUntouched, RegistryStays, Running
  <2> QED
    BY <2>1, <2>2, <2>3, SameConn, SessionStays
       DEF RegistryUntouched, SessionInv, OutboxInv, Running
<1> QED
  BY <1>1, <1>2, <1>3 DEF Next, Finished

LEMMA SessionInitially == Init => SessionInv
<1> SUFFICES ASSUME Init
             PROVE  SessionInv
  OBVIOUS
<1> USE DEF Init, SocketsInit, ServerInit, SubscriberInit
<1>1. \A c \in Conns : conn[c].up = <<>> /\ conn[c].down = <<>>
  BY DEF FreeConn
<1>2. IdsInv
  BY <1>1 DEF IdsInv
<1>3. \A p \in Procs : spc[p] = "off"
  OBVIOUS
<1>4. OutboxInv
  BY <1>3 DEF OutboxInv, At
<1>5. AdmissionsInv
  BY <1>3 DEF AdmissionsInv, Admitted, InSession, At
<1> QED
  BY <1>2, <1>4, <1>5 DEF SessionInv

(* Whoever is in session, or will be once it reads what is in its queue,   *)
(* is on record, and nobody else is under its id.                          *)
THEOREM SessionInvariant == Spec => []SessionInv
<1>1. Init => SessionInv
  BY SessionInitially
<1>2. AppInv /\ AppInv' /\ SessionInv /\ [Next]_vars => SessionInv'
  BY SessionNext
<1> QED
  BY <1>1, <1>2, AppInvariant, PTL DEF Spec

(* No two subscribers are in session under one id.                         *)
THEOREM OneSessionPerId == Spec => []SingleSession
<1>1. SessionInv => SingleSession
  BY DEF SessionInv, AdmissionsInv, Admitted, SingleSession
<1> QED
  BY <1>1, SessionInvariant, PTL
(* A request is taken from the connection of the client it is for.         *)
LEMMA RequestTaken ==
  ASSUME AppInv, SessionInv, NEW i \in DOMAIN poll_fds, NEW id \in Ids,
         ManageSubscribeUnsubscribe(i, id)
  PROVE  LET c == fdtab[poll_fds[i]]
         IN  /\ c \in Conns /\ TakenFrom(c) /\ conn' = Received(c)
             /\ Head(conn[c].up).payload \in Patterns
             /\ is_connected[id] /\ curr_fd[id] = poll_fds[i]
             /\ conn[c].owner \in Procs /\ IdOf[conn[c].owner] = id
<1> DEFINE fd == poll_fds[i]
           c  == fdtab[fd]
<1>1. conn' = Received(c) /\ conn[c].up # <<>> /\ curr_fd[id] = fd
  BY DEF ManageSubscribeUnsubscribe, get_client_from_fd
<1>2. fd \in ClientFds /\ fd \in Fds /\ c \in Conns /\ Registered(c)
  BY PolledFdsFacts, Recorded DEF AppInv, Registered
<1>3. is_connected[id]
  BY <1>1, <1>2, SocketsAssumption
     DEF AppInv, RegistryInv, PollSetMatchesRegistry, SocketsAssumption, NoFd
<1>4. conn[c].owner \in Procs /\ IdOf[conn[c].owner] = id
  BY <1>1, <1>3, Recorded, SessionParts DEF SessionInv, Records, Holder
<1> HIDE DEF fd, c
<1>5. conn \in [Conns -> Connections] /\ conn[c].up \in Seq(UpMessages)
  BY <1>2 DEF AppInv, ConnectionInv, MessageTypes, Connections
<1>6. conn'[c].up = Tail(conn[c].up)
  BY <1>1, <1>2, <1>5, ReceivedFacts
<1>7. /\ Head(conn[c].up).command # CONNECT_REQ
      /\ Head(conn[c].up) \in UpMessages
  BY <1>1, <1>2, <1>5, ShorterQueue DEF AppInv, ConnectionInv, RequestsInv
<1>8. Head(conn[c].up).payload \in Patterns
  BY <1>7, RequestFacts, AppAssumption DEF AppAssumption
<1> QED
  BY <1>1, <1>2, <1>3, <1>4, <1>6, <1>7, <1>8 DEF TakenFrom, c, fd

(* What a registration clears is empty.                                    *)
LEMMA NothingCleared ==
  ASSUME AppInv, SessionInv, NEW id \in Ids, RegisterClient(id)
  PROVE  subscribed_topics' = subscribed_topics
BY SessionParts
   DEF RegisterClient, SessionInv, NoneUnknown, AppInv, ConnectionInv, MessageTypes

(* Only a request of the subscriber an id belongs to changes what that id  *)
(* is subscribed to, as long as the server runs.                           *)
THEOREM OnlyOwnersSubscribe == Spec => OwnSubscriptionsOnly
<1>1. ASSUME AppInv, SessionInv, Next, NEW x \in Ids,
             subscribed_topics'[x] # subscribed_topics[x], Running'
      PROVE  \E c \in Conns : TakenFrom(c) /\ IdOf[conn[c].owner] = x
  <2>1. ServerStep
    BY <1>1, Untouched DEF Next, Finished, RegistryUntouched
  <2>2. ASSUME NEW how \in {"stopped", "crashed"}, Halt(how)
        PROVE  FALSE
    BY <1>1, <2>2 DEF Halt, Running
  <2>3. ~ (SendFails \/ AcceptFails \/ DenialFails \/ NoIdArrives)
    BY <2>2 DEF SendFails, AcceptFails, DenialFails, NoIdArrives
  <2>4. ~ (Poll \/ CheckStdinData \/ ManageUdpMessage \/ SendNext \/ Accept)
    BY <1>1, <2>2 DEF Poll, CheckStdinData, ManageUdpMessage, SendNext, Accept, registryVars
  <2>5. \A id \in Ids : ~ (RegisterClient(id) \/ ReconnectClient(id) \/ DenyClient(id))
    BY <1>1, NothingCleared DEF ReconnectClient, DenyClient, registryVars
  <2>6. \A i \in DOMAIN poll_fds :
          ~ RecvFails(i) /\ \A id \in Ids : ~ DisconnectClient(i, id)
    BY <1>1, <2>2 DEF RecvFails, DisconnectClient
  <2>7. PICK i \in DOMAIN poll_fds, id \in Ids : ManageSubscribeUnsubscribe(i, id)
    BY <2>1, <2>3, <2>4, <2>5, <2>6 DEF ServerStep, ServerNext
  <2>8. x = id
    BY <1>1, <2>7 DEF ManageSubscribeUnsubscribe, AppInv, ConnectionInv, MessageTypes
  <2> QED
    BY <1>1, <2>7, <2>8, RequestTaken
<1>2. ASSUME AppInv, SessionInv, [Next]_vars
      PROVE  [\A id \in Ids :
                subscribed_topics'[id] # subscribed_topics[id] /\ Running' =>
                  \E c \in Conns : TakenFrom(c) /\ IdOf[conn[c].owner] = id]_vars
  BY <1>1, <1>2
<1> QED
  BY <1>2, AppInvariant, SessionInvariant, PTL DEF Spec, OwnSubscriptionsOnly
-----------------------------------------------------------------------------
(* The mapping to PubSub: sessions are the holders of the registry's       *)
(* entries, and the copies still to be sent are what the handler has left. *)
SessionMap == [id \in Ids |-> HolderOf(id)]

Copies == {Forwarded(o) : o \in {x \in Range(outbox) : x.msg.command = MSG_FROM_UDP}}

Nothing == UNCHANGED <<Running, SessionMap, subscribed_topics, Copies>>

LEMMA NothingStutters ==
  ASSUME Nothing
  PROVE  UNCHANGED Service!serviceVars
BY DEF Nothing, Service!serviceVars, SessionMap, Copies

LEMMA SameServing ==
  ASSUME RegistryStays
  PROVE  Running' = Running
BY DEF RegistryStays, Running

LEMMA SameSessions ==
  ASSUME AppInv, RegistryStays
  PROVE  SessionMap' = SessionMap
BY StayFacts DEF SessionMap

(* Answers and confirmations are no copies of a datagram.                  *)
LEMMA NoCopies ==
  /\ outbox = <<>> => Copies = {}
  /\ \A fd, m : outbox = <<[fd |-> fd, msg |-> m]>> /\ m.command # MSG_FROM_UDP =>
       Copies = {}
<1>1. outbox = <<>> => Range(outbox) = {}
  BY DEF Range
<1>2. \A fd, m : outbox = <<[fd |-> fd, msg |-> m]>> =>
        Range(outbox) = {[fd |-> fd, msg |-> m]}
  BY DEF Range
<1> QED
  BY <1>1, <1>2 DEF Copies

LEMMA SameCopies ==
  ASSUME AppInv, SessionInv, RegistryStays, outbox' = outbox
  PROVE  Copies' = Copies
<1>1. \A o \in Range(outbox) : o.fd \in ClientFds
  BY DEF SessionInv, OutboxInv, Range
<1>2. \A o \in Range(outbox) : Forwarded(o)' = Forwarded(o)
  BY <1>1, StayFacts DEF Forwarded, Holder
<1> QED
  BY <1>2 DEF Copies

LEMMA StaysNothing ==
  ASSUME AppInv, SessionInv, RegistryStays, subscribed_topics' = subscribed_topics,
         outbox' = outbox
  PROVE  UNCHANGED Service!serviceVars
BY SameServing, SameSessions, SameCopies, NothingStutters DEF Nothing

(* A subscriber's step leaves the connections of the registry to their     *)
(* owners.                                                                 *)
LEMMA OwnersStay ==
  ASSUME AppInv, NEW p \in Procs, ProcStep(p) \/ UserOf(p),
         NEW c \in Conns, HeldByServer(conn[c])
  PROVE  conn'[c].owner = conn[c].owner
<1>1. conn \in [Conns -> Connections]
  BY DEF AppInv, ConnectionInv, MessageTypes
<1>2. CASE End(p) /\ ~ At(p, "off")
  <2>1. PICK new \in AfterClientClose(conn[sock[p]]) : conn' = [conn EXCEPT ![sock[p]] = new]
    BY <1>2 DEF End
  <2>2. sock[p] \in Conns /\ conn[sock[p]] \in Connections
    BY <1>2, RunningSocket DEF AppInv
  <2>3. HeldByServer(conn[sock[p]]) => new.owner = conn[sock[p]].owner
    BY <2>1, <2>2, ClientCloseFacts DEF HeldByServer
  <2> QED
    BY <1>1, <2>1, <2>2, <2>3
<1>3. CASE Prepare(p, Running)
  BY <1>1, <1>3, FreeConnFacts DEF Prepare
<1>4. CASE Take(p) \/ UNCHANGED conn
  <2>1. \A k \in Connections : [k EXCEPT !.down = Tail(@)].owner = k.owner
    BY DEF Connections
  <2>2. CASE Take(p)
    <3>1. CASE c = sock[p]
      <4>1. conn'[c] = [conn[c] EXCEPT !.down = Tail(@)] /\ conn[c] \in Connections
        BY <1>1, <2>2, <3>1 DEF Take
      <4> QED
        BY <2>1, <4>1
    <3>2. CASE c # sock[p]
      BY <1>1, <2>2, <3>2 DEF Take
    <3> QED
      BY <3>1, <3>2
  <2> QED
    BY <1>4, <2>2
<1>5. ASSUME NEW m, conn' = AfterSendUp(sock[p], m)
      PROVE  conn'[c].owner = conn[c].owner
  BY <1>1, <1>5 DEF AfterSendUp, Connections
<1>6. \/ End(p) /\ ~ At(p, "off")
      \/ Prepare(p, Running)
      \/ Take(p) \/ UNCHANGED conn
      \/ \E m : conn' = AfterSendUp(sock[p], m)
  BY DEF ProcStep, UserOf, SubscriberStep, UserStep, SendId, ServerGone, RecvDies,
         Accepted, Denied, SendRequest, RecvAnswer, RecvTcp, ServerClosedIt, Exit,
         TypeRequest, Kill, socketVars, At
<1> QED
  BY <1>2, <1>3, <1>4, <1>5, <1>6

(* Outside the server's thread nothing of the service happens.             *)
LEMMA OthersStutter ==
  ASSUME AppInv, SessionInv,
         \/ \E p \in Procs : ProcStep(p) \/ UserOf(p)
         \/ TypeConsole \/ SendDatagram \/ UNCHANGED vars
  PROVE  UNCHANGED Service!serviceVars
<1>1. \A c \in Conns : Registered(c) => HeldByServer(conn[c])
  BY Recorded DEF Registered, AppInv, ConnectionInv, Descriptors, SocketsAssumption
<1>2. \A c \in Conns : Registered(c) => conn'[c].owner = conn[c].owner
  <2>1. CASE \E p \in Procs : ProcStep(p) \/ UserOf(p)
    BY <1>1, <2>1, OwnersStay
  <2>2. CASE TypeConsole \/ SendDatagram \/ UNCHANGED vars
    BY <2>2 DEF TypeConsole, SendDatagram, vars, socketVars
  <2> QED
    BY <2>1, <2>2
<1>3. RegistryUntouched
  BY Untouched
<1>4. RegistryStays
  BY <1>2, <1>3 DEF RegistryUntouched, RegistryStays, Running
<1> QED
  BY <1>3, <1>4, StaysNothing DEF RegistryUntouched

(* The end of the server ends every session, and what it knew.             *)
LEMMA HaltCloses ==
  ASSUME Running, NEW how \in {"stopped", "crashed"}, Halt(how)
  PROVE  Service!Close
<1>1. Running = TRUE /\ Running' = FALSE
  BY DEF Halt, Running
<1>2. SessionMap' = [id \in Ids |-> NoProc]
  BY DEF Halt, SessionMap, HolderOf
<1>3. Copies' = {}
  BY DEF Halt, Copies, Range
<1>4. subscribed_topics' = [id \in Ids |-> {}]
  BY DEF Halt
<1> QED
  BY <1>1, <1>2, <1>3, <1>4 DEF Service!Close, SessionMap, Copies
(* A copy is sent, or an answer that is none.                              *)
LEMMA SendSends ==
  ASSUME AppInv, SessionInv, SendNext
  PROVE  Service!Send \/ UNCHANGED Service!serviceVars
<1> DEFINE o == Head(outbox)
           c == fdtab[o.fd]
<1>1. /\ UNCHANGED <<mode, fdtab, known, curr_fd, is_connected, subscribed_topics, poll_fds>>
      /\ outbox # <<>> /\ outbox' = Tail(outbox)
      /\ conn' = AfterSendDown(c, o.msg)
  BY DEF SendNext, registryVars, pollVars
<1>2. Range(outbox) = {o} \cup Range(outbox')
  <2>1. outbox \in Seq([fd : Fds, msg : DownMessages])
    BY DEF AppInv, ConnectionInv, MessageTypes
  <2> DEFINE s == outbox
             r == Tail(outbox)
  <2>2. Len(s) \in Nat \ {0} /\ DOMAIN s = 1..Len(s) /\ Head(s) = s[1]
    BY <1>1, <2>1, LenProperties, EmptySeq, HeadTailProperties
  <2>3. DOMAIN r = 1..(Len(s) - 1) /\ \A k \in 1..(Len(s) - 1) : r[k] = s[k + 1]
    <3>1. r \in Seq([fd : Fds, msg : DownMessages]) /\ Len(r) = Len(s) - 1
      BY <1>1, <2>1, HeadTailProperties
    <3> QED
      BY <1>1, <2>1, <3>1, LenProperties, HeadTailProperties
  <2> HIDE DEF s, r
  <2>4. \A x : (\E j \in DOMAIN s : s[j] = x) => x = s[1] \/ \E k \in DOMAIN r : r[k] = x
    <3> SUFFICES ASSUME NEW j \in DOMAIN s, j # 1
                 PROVE  \E k \in DOMAIN r : r[k] = s[j]
      OBVIOUS
    <3>1. j - 1 \in 1..(Len(s) - 1) /\ (j - 1) + 1 = j
      BY <2>2
    <3> QED
      BY <2>3, <3>1
  <2>5. \A k \in DOMAIN r : k + 1 \in DOMAIN s /\ r[k] = s[k + 1]
    BY <2>2, <2>3
  <2>6. 1 \in DOMAIN s
    BY <2>2
  <2>7. Range(s) = {s[1]} \cup Range(r)
    BY <2>4, <2>5, <2>6 DEF Range
  <2> QED
    BY <1>1, <2>2, <2>7 DEF s, r
<1>3. \A x \in Range(outbox) : x.fd \in ClientFds
  BY DEF SessionInv, OutboxInv, Range
<1>4. c \in Conns /\ \A d \in Conns : conn'[d].owner = conn[d].owner
  <2>1. conn \in [Conns -> Connections] /\ c \in Conns
    BY <1>2, <1>3, Recorded DEF AppInv, ConnectionInv, MessageTypes
  <2> QED
    BY <1>1, <2>1 DEF AfterSendDown, Connections
<1> HIDE DEF o, c
<1>5. RegistryStays
  BY <1>1, <1>4 DEF RegistryStays, Running
<1>6. \A x \in Range(outbox) : Forwarded(x)' = Forwarded(x)
  BY <1>3, <1>5, StayFacts DEF Forwarded, Holder
<1>7. \/ Copies' = Copies
      \/ Forwarded(o) \in Copies /\ Copies' = Copies \ {Forwarded(o)}
  <2>1. Copies' = {Forwarded(x) : x \in {y \in Range(outbox') : y.msg.command = MSG_FROM_UDP}}
    BY <1>2, <1>6 DEF Copies
  <2> QED
    BY <1>2, <2>1 DEF Copies
<1>8. CASE Copies' = Copies
  BY <1>1, <1>5, <1>8, SameServing, SameSessions, NothingStutters DEF Nothing
<1>9. CASE Forwarded(o) \in Copies /\ Copies' = Copies \ {Forwarded(o)}
  <2>1. Running' = Running /\ SessionMap' = SessionMap /\ subscribed_topics' = subscribed_topics
    BY <1>1, <1>5, SameServing, SameSessions
  <2>2. \E copy \in Copies : Copies' = Copies \ {copy}
    BY <1>9
  <2> QED
    BY <2>1, <2>2 DEF Service!Send, SessionMap, Copies
<1> QED
  BY <1>7, <1>8, <1>9

(* A datagram is forwarded to whoever is in session and subscribed, and to *)
(* nobody else.                                                            *)
LEMMA ReceiptForwards ==
  ASSUME AppInv, SessionInv, ManageUdpMessage
  PROVE  \/ \E topic \in Topics, n \in 1..MaxDatagrams : Service!Forward(topic, n)
         \/ UNCHANGED Service!serviceVars
<1> DEFINE d == Head(udpq)
<1>1. /\ UNCHANGED <<conn, fdtab, known, curr_fd, is_connected, subscribed_topics, poll_fds, mode>>
      /\ Running /\ outbox = <<>>
      /\ outbox' \in IF d.valid THEN FanOut(d) ELSE {<<>>}
  BY DEF ManageUdpMessage, socketVars, registryVars, pollVars, AtLoop, Running
<1>2. d \in Datagrams
  BY HeadTailProperties
     DEF ManageUdpMessage, AppInv, RoundInv, ConnectionInv, MessageTypes
<1> HIDE DEF d
<1>3. RegistryStays
  BY <1>1 DEF RegistryStays, Running
<1>4. CASE ~ d.valid
  BY <1>1, <1>3, <1>4, StaysNothing
<1>5. CASE d.valid
  <2>1. PICK topic \in Topics, n \in 1..MaxDatagrams : topic = d.topic /\ n = d.n
    BY <1>2 DEF Datagrams
  <2> DEFINE send(id) == [fd |-> curr_fd[id], msg |-> Reply(MSG_FROM_UDP, topic, n)]
             copy(id) == [to |-> HolderOf(id), topic |-> topic, n |-> n]
             S == Service!Subscribed(topic)
  <2>2. Range(outbox') = {send(id) : id \in Recipients(topic)}
    BY <1>1, <1>2, <1>5, <2>1, FanOutElements
  <2>3. Recipients(topic) = S
    <3>1. \A id \in Ids : HolderOf(id) # NoProc <=> is_connected[id]
      BY Recorded, SocketsAssumption DEF HolderOf, SocketsAssumption
    <3>2. \A id \in Ids : is_connected[id] => id \in known
      BY DEF AppInv, RegistryInv
    <3>3. known \subseteq Ids
      BY DEF AppInv, RegistryInv, RegistryTypes
    <3> QED
      BY <3>1, <3>2, <3>3 DEF Recipients, Service!Subscribed
  <2>4. \A id \in Recipients(topic) : \A x : x = send(id) =>
          Forwarded(x)' = copy(id) /\ x.msg.command = MSG_FROM_UDP
    BY <1>1 DEF Recipients, Forwarded, Holder, HolderOf, Reply
  <2>5. Copies' = {copy(id) : id \in S}
    <3>1. Copies' = {Forwarded(x)' : x \in {y \in Range(outbox') : y.msg.command = MSG_FROM_UDP}}
      BY DEF Copies
    <3>2. \A id \in S : \A x : x = send(id) =>
            Forwarded(x)' = copy(id) /\ x.msg.command = MSG_FROM_UDP
      BY <2>3, <2>4
    <3>3. Range(outbox') = {send(id) : id \in S}
      BY <2>2, <2>3
    <3> HIDE DEF send, copy, S
    <3> QED
      BY <3>1, <3>2, <3>3
  <2>6. Running' = Running /\ SessionMap' = SessionMap /\ Copies = {}
    BY <1>1, <1>3, SameServing, SameSessions, NoCopies
  <2>7. Service!Forward(topic, n)
    BY <1>1, <2>5, <2>6 DEF Service!Forward, Service!Idle, Service!Subscribed, SessionMap, Copies
  <2> HIDE DEF S
  <2> QED
    BY <2>7
<1> QED
  BY <1>4, <1>5
(* Who is admitted holds no session and enters the one of its id.          *)
LEMMA AdmissionAdmits ==
  ASSUME AppInv, SessionInv, NEW id \in Ids, IdArrived(id), AdmitClient(id),
         ~ is_connected[id], subscribed_topics' = subscribed_topics
  PROVE  \E p \in Procs : Service!Admit(p)
<1>1. PICK c \in Conns, fd \in Fds :
        /\ fd = newfd /\ c = fdtab[newfd]
        /\ conn[c].up # <<>> /\ conn[c].owner \in Procs /\ IdOf[conn[c].owner] = id
  BY ArrivedId
<1>2. PICK p \in Procs : p = conn[c].owner
  BY <1>1
<1>3. /\ is_connected' = [is_connected EXCEPT ![id] = TRUE]
      /\ curr_fd' = [curr_fd EXCEPT ![id] = fd]
      /\ conn' = Received(c) /\ UNCHANGED fdtab /\ outbox = <<>>
      /\ outbox' = <<[fd |-> fd, msg |-> Reply(CONNECT_ACCEPTED, <<>>, 0)]>>
      /\ mode' = "loop" /\ mode = "handshake"
  BY <1>1 DEF AdmitClient, IdArrived
<1>4. \A d \in Conns : conn'[d].owner = conn[d].owner
  BY <1>1, <1>3, ReceivedShrinks
<1>5. is_connected'[id] /\ curr_fd'[id] = fd
  BY <1>3 DEF AppInv, RegistryInv, RegistryTypes
<1>6. HolderOf(id)' = p /\ HolderOf(id) = NoProc
  BY <1>1, <1>2, <1>3, <1>4, <1>5 DEF HolderOf, Holder
<1>7. ASSUME NEW x \in Ids \ {id}
      PROVE  HolderOf(x)' = HolderOf(x)
  <2>1. is_connected'[x] = is_connected[x] /\ curr_fd'[x] = curr_fd[x]
    BY <1>3 DEF AppInv, RegistryInv, RegistryTypes
  <2> QED
    BY <1>3, <1>4, <2>1, Recorded DEF HolderOf, Holder
<1>8. SessionMap' = [SessionMap EXCEPT ![id] = p] /\ SessionMap[id] = NoProc
  BY <1>6, <1>7 DEF SessionMap
<1>9. Running = TRUE /\ Running' = Running
  BY <1>3 DEF Running
<1>10. Copies = {} /\ Copies' = {}
  <2>1. Reply(CONNECT_ACCEPTED, <<>>, 0).command # MSG_FROM_UDP
    BY DEF Reply, CONNECT_ACCEPTED, MSG_FROM_UDP
  <2>2. Copies = {}
    BY <1>3, NoCopies
  <2>3. Range(outbox') = {[fd |-> fd, msg |-> Reply(CONNECT_ACCEPTED, <<>>, 0)]}
    BY <1>3 DEF Range
  <2> QED
    BY <2>1, <2>2, <2>3 DEF Copies
<1>11. IdOf[p] = id
  BY <1>1, <1>2
<1>12. Service!Admit(p)
  BY <1>8, <1>9, <1>10, <1>11 DEF Service!Admit, Service!Idle, SessionMap, Copies
<1> QED
  BY <1>12

(* A refusal changes no session.                                           *)
LEMMA DenialStutters ==
  ASSUME AppInv, SessionInv, NEW id \in Ids, DenyClient(id)
  PROVE  UNCHANGED Service!serviceVars
<1> DEFINE c == fdtab[newfd]
<1>1. newfd \in Fds /\ newfd \notin ClientFds /\ c \in Conns /\ ~ Registered(c)
  BY ArrivedId DEF DenyClient
<1>2. /\ UNCHANGED <<known, curr_fd, is_connected, subscribed_topics, poll_fds, outbox>>
      /\ fdtab' = [fdtab EXCEPT ![newfd] = NoConn]
      /\ mode = "handshake" /\ mode' = "loop"
  BY DEF DenyClient, IdArrived, AfterClose, registryVars, pollVars
<1>3. \E new : conn' = [conn EXCEPT ![c] = new]
  BY DEF DenyClient, AfterDenial
<1>4. \A d \in Conns \ {c} : conn'[d] = conn[d]
  BY <1>1, <1>3 DEF AppInv, ConnectionInv, MessageTypes
<1>5. \A fd \in ClientFds : fdtab'[fd] = fdtab[fd]
  BY <1>1, <1>2, Recorded DEF AppInv, RegistryInv, RegistryTypes
<1>6. RegistryStays
  BY <1>1, <1>2, <1>4, <1>5 DEF RegistryStays, Running
<1> QED
  BY <1>2, <1>6, StaysNothing

(* A connection that ends ends the session of its owner, and no other.     *)
LEMMA DisconnectLeaves ==
  ASSUME AppInv, SessionInv, NEW i \in DOMAIN poll_fds, NEW id \in Ids,
         DisconnectClient(i, id)
  PROVE  \E p \in Procs : Service!Leave(p)
<1>1. PICK fd \in Fds, c \in Conns : fd = poll_fds[i] /\ c = fdtab[fd] /\ fd \in ClientFds
  BY PolledFdsFacts, Recorded DEF AppInv
<1>2. /\ UNCHANGED <<subscribed_topics, mode, outbox>> /\ outbox = <<>>
      /\ fdtab' = [fdtab EXCEPT ![fd] = NoConn]
      /\ is_connected' = [is_connected EXCEPT ![id] = FALSE]
      /\ curr_fd' = [curr_fd EXCEPT ![id] = NoFd]
      /\ \E new : conn' = [conn EXCEPT ![c] = new]
      /\ curr_fd[id] = fd /\ mode = "loop"
  BY <1>1 DEF DisconnectClient, AfterClose, FdsWithout, get_client_from_fd, AtClient, AtLoop
<1>3. is_connected[id]
  BY <1>1, <1>2, SocketsAssumption
     DEF AppInv, RegistryInv, PollSetMatchesRegistry, SocketsAssumption, NoFd
<1>4. PICK p \in Procs : p = HolderOf(id) /\ IdOf[p] = id
  BY <1>2, <1>3, Recorded, SessionParts DEF HolderOf, SessionInv, Records
<1>5. ~ is_connected'[id]
  BY <1>2 DEF AppInv, RegistryInv, RegistryTypes
<1>6. ASSUME NEW x \in Ids \ {id}
      PROVE  HolderOf(x)' = HolderOf(x)
  <2>1. is_connected'[x] = is_connected[x] /\ curr_fd'[x] = curr_fd[x]
    BY <1>2 DEF AppInv, RegistryInv, RegistryTypes
  <2>2. CASE ~ is_connected[x]
    BY <2>1, <2>2 DEF HolderOf
  <2>3. CASE is_connected[x]
    <3>1. /\ curr_fd[x] \in Fds \ {fd} /\ fdtab[curr_fd[x]] \in Conns \ {c}
      BY <1>1, <1>2, <1>3, <2>3, Recorded, OneConnectionPerId
    <3>2. fdtab'[curr_fd[x]] = fdtab[curr_fd[x]]
      BY <1>2, <3>1 DEF AppInv, RegistryInv, RegistryTypes
    <3>3. conn'[fdtab[curr_fd[x]]] = conn[fdtab[curr_fd[x]]]
      BY <1>2, <3>1 DEF AppInv, ConnectionInv, MessageTypes
    <3> QED
      BY <2>1, <3>2, <3>3 DEF HolderOf, Holder
  <2> QED
    BY <2>2, <2>3
<1>7. SessionMap' = [SessionMap EXCEPT ![id] = NoProc] /\ SessionMap[id] = p
  BY <1>4, <1>5, <1>6 DEF SessionMap, HolderOf
<1>8. Running = TRUE /\ Running' = Running
  BY <1>2 DEF Running
<1>9. Copies = {} /\ Copies' = {}
  BY <1>2 DEF Copies, Range
<1>10. Service!Leave(p)
  BY <1>2, <1>4, <1>7, <1>8, <1>9 DEF Service!Leave, Service!Idle, SessionMap, Copies
<1> QED
  BY <1>10

(* A request changes the subscriptions of the session it came from.        *)
LEMMA RequestChanges ==
  ASSUME AppInv, SessionInv, NEW i \in DOMAIN poll_fds, NEW id \in Ids,
         ManageSubscribeUnsubscribe(i, id)
  PROVE  \E p \in Procs, topic \in Patterns : Service!Change(p, topic)
<1>1. PICK c \in Conns, topic \in Patterns :
        /\ c = fdtab[poll_fds[i]] /\ topic = Head(conn[c].up).payload
        /\ conn' = Received(c) /\ conn[c].up # <<>>
        /\ is_connected[id] /\ curr_fd[id] = poll_fds[i]
        /\ conn[c].owner \in Procs /\ IdOf[conn[c].owner] = id
  BY RequestTaken DEF TakenFrom
<1>2. PICK command : command = Head(conn[c].up).command
  OBVIOUS
<1>3. /\ UNCHANGED <<known, curr_fd, is_connected, poll_fds, fdtab, mode>>
      /\ subscribed_topics' = [subscribed_topics EXCEPT
           ![id] = TopicsAfter(subscribed_topics[id], command, topic)]
      /\ mode = "loop" /\ outbox = <<>>
      /\ \E fd, answer : /\ answer = AnswerTo(command, topic \in subscribed_topics[id])
                         /\ outbox' = <<[fd |-> fd, msg |-> Reply(answer, topic, 0)]>>
  BY <1>1, <1>2 DEF ManageSubscribeUnsubscribe, pollVars, AtClient, AtLoop
<1>4. PICK p \in Procs : p = HolderOf(id) /\ IdOf[p] = id
  BY <1>1 DEF HolderOf, Holder
<1>5. \A d \in Conns : conn'[d].owner = conn[d].owner
  BY <1>1, ReceivedShrinks
<1>6. RegistryStays
  BY <1>3, <1>5 DEF RegistryStays, Running
<1>7. Running = TRUE /\ Running' = Running /\ SessionMap' = SessionMap /\ SessionMap[id] = p
  BY <1>3, <1>4, <1>6, SameSessions DEF Running, SessionMap
<1>8. Copies = {} /\ Copies' = {}
  <2>1. PICK fd, answer : /\ answer = AnswerTo(command, topic \in subscribed_topics[id])
                          /\ outbox' = <<[fd |-> fd, msg |-> Reply(answer, topic, 0)]>>
    BY <1>3
  <2>2. answer # MSG_FROM_UDP
    BY <2>1 DEF AnswerTo, SUBSCRIBE_FAIL, SUBSCRIBE_SUCC, UNSUBSCRIBE_SUCC,
                UNSUBSCRIBE_FAIL, MSG_FROM_UDP
  <2>3. Range(outbox') = {[fd |-> fd, msg |-> Reply(answer, topic, 0)]}
    BY <2>1 DEF Range
  <2> QED
    BY <1>3, <2>2, <2>3, NoCopies DEF Copies, Reply
<1>9. \E new \in {subscribed_topics[id] \cup {topic}, subscribed_topics[id] \ {topic}} :
        subscribed_topics' = [subscribed_topics EXCEPT ![id] = new]
  BY <1>3 DEF TopicsAfter
<1>10. Service!Change(p, topic)
  BY <1>4, <1>7, <1>8, <1>9 DEF Service!Change, Service!Idle, SessionMap, Copies
<1> QED
  BY <1>10

LEMMA ServerStepServes ==
  ASSUME AppInv, SessionInv, ServerNext
  PROVE  [Service!ServiceNext]_(Service!serviceVars)
<1>1. ASSUME NEW how \in {"stopped", "crashed"}, Halt(how), Running
      PROVE  Service!ServiceNext
  BY <1>1, HaltCloses DEF Service!ServiceNext
<1>2. CASE Poll \/ Accept \/ (CheckStdinData /\ ~ Halt("stopped"))
  <2>1. /\ UNCHANGED <<conn, known, curr_fd, is_connected, subscribed_topics, poll_fds, outbox>>
        /\ Running /\ Running'
    BY <1>2 DEF Poll, Accept, AtAccept, CheckStdinData, socketVars, registryVars, pollVars,
                AtLoop, Running
  <2>2. \A fd \in ClientFds : fdtab'[fd] = fdtab[fd]
    <3>1. CASE Accept
      <4>1. PICK fd \in Fds : IsNextFd(fd) /\ fdtab' = [fdtab EXCEPT ![fd] = Head(backlog)]
        BY <3>1 DEF Accept
      <4>2. \A other \in ClientFds : other # fd /\ other \in Fds
        BY <4>1, Recorded, SocketsAssumption DEF IsNextFd, SocketsAssumption
      <4> QED
        BY <4>1, <4>2 DEF AppInv, RegistryInv, RegistryTypes
    <3>2. CASE ~ Accept
      BY <1>2, <3>2 DEF Poll, CheckStdinData, socketVars
    <3> QED
      BY <3>1, <3>2
  <2>3. RegistryStays
    BY <2>1, <2>2 DEF RegistryStays
  <2> QED
    BY <2>1, <2>3, StaysNothing
<1>3. CASE CheckStdinData /\ Halt("stopped")
  BY <1>1, <1>3 DEF CheckStdinData, AtLoop, Running
<1>4. CASE ManageUdpMessage
  BY <1>4, ReceiptForwards DEF Service!ServiceNext
<1>5. CASE SendNext
  BY <1>5, SendSends DEF Service!ServiceNext
<1>6. CASE SendFails \/ AcceptFails \/ DenialFails \/ NoIdArrives
  <2>1. Halt("crashed") /\ Running
    BY <1>6 DEF SendFails, AcceptFails, DenialFails, NoIdArrives, IdArrived, AtAccept, AtLoop,
                Running, SessionInv, OutboxInv
  <2> QED
    BY <1>1, <2>1
<1>7. ASSUME NEW id \in Ids, RegisterClient(id) \/ ReconnectClient(id)
      PROVE  Service!ServiceNext
  <2>1. subscribed_topics' = subscribed_topics
    BY <1>7, NothingCleared DEF ReconnectClient
  <2>2. ~ is_connected[id] /\ IdArrived(id) /\ AdmitClient(id)
    BY <1>7 DEF RegisterClient, ReconnectClient, Refused, AppInv, RegistryInv
  <2> QED
    BY <2>1, <2>2, AdmissionAdmits DEF Service!ServiceNext
<1>8. ASSUME NEW id \in Ids, DenyClient(id)
      PROVE  UNCHANGED Service!serviceVars
  BY <1>8, DenialStutters
<1>9. ASSUME NEW i \in DOMAIN poll_fds, NEW id \in Ids,
             ManageSubscribeUnsubscribe(i, id) \/ DisconnectClient(i, id)
      PROVE  Service!ServiceNext
  BY <1>9, RequestChanges, DisconnectLeaves DEF Service!ServiceNext
<1>10. ASSUME NEW i \in DOMAIN poll_fds, RecvFails(i)
       PROVE  Service!ServiceNext
  <2>1. Halt("crashed") /\ Running
    BY <1>10 DEF RecvFails, AtClient, AtLoop, Running
  <2> QED
    BY <1>1, <2>1
<1> QED
  BY <1>2, <1>3, <1>4, <1>5, <1>6, <1>7, <1>8, <1>9, <1>10 DEF ServerNext

(* The application keeps what PubSub promises: every step of the server,   *)
(* the subscribers and the users is one of its steps or none.              *)
THEOREM AppImplementsPubSub == Spec => KeepsService
<1>1. Init => Service!ServiceInit
  <2> SUFFICES ASSUME Init
               PROVE  Service!ServiceInit
    OBVIOUS
  <2>1. Running = TRUE /\ SessionMap = [id \in Ids |-> NoProc] /\ Copies = {}
    BY DEF Init, ServerInit, Running, SessionMap, HolderOf, Copies, Range
  <2> QED
    BY <2>1 DEF Init, ServerInit, Service!ServiceInit, SessionMap, Copies
<1>2. AppInv /\ SessionInv /\ [Next]_vars => [Service!ServiceNext]_(Service!serviceVars)
  <2> SUFFICES ASSUME AppInv, SessionInv, [Next]_vars
               PROVE  [Service!ServiceNext]_(Service!serviceVars)
    OBVIOUS
  <2>1. CASE ServerStep
    BY <2>1, ServerStepServes DEF ServerStep
  <2>2. CASE ~ ServerStep
    BY <2>2, OthersStutter DEF Next, Finished
  <2> QED
    BY <2>1, <2>2
<1> QED
  BY <1>1, <1>2, AppInvariant, SessionInvariant, PTL DEF Spec, KeepsService, Service!ServiceSpec
=============================================================================
