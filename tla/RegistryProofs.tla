--------------------------- MODULE RegistryProofs ---------------------------
(***************************************************************************)
(* Proofs about the server's registry, its poll set and its descriptors,   *)
(* which no other process can change, and about a round of its loop.       *)
(***************************************************************************)
EXTENDS AppProperties, SequenceTheorems, FiniteSetTheorems, TLAPS, WellFoundedInduction

LEMMA RemoveAtProperties ==
  ASSUME NEW S, NEW s \in Seq(S), NEW i \in 1..Len(s)
  PROVE  /\ RemoveAt(s, i) \in Seq(S)
         /\ Len(RemoveAt(s, i)) = Len(s) - 1
         /\ \A j \in 1..(Len(s) - 1) :
              RemoveAt(s, i)[j] = IF j < i THEN s[j] ELSE s[j + 1]
<1> DEFINE n == Len(s)
           front == SubSeq(s, 1, i - 1)
           back  == SubSeq(s, i + 1, n)
<1>0. n \in Nat /\ i \in Int /\ i - 1 \in Int /\ i + 1 \in Int /\ \A j \in 1..n : s[j] \in S
  BY LenProperties, ElementOfSeq
<1> HIDE DEF n
<1>1. front \in Seq(S) /\ Len(front) = i - 1 /\ \A j \in 1..(i - 1) : front[j] = s[j]
  <2>1. \A j \in 1..(i - 1) : s[j] \in S
    BY <1>0 DEF n
  <2>2. /\ front \in Seq(S)
        /\ Len(front) = IF 1 <= i - 1 THEN i - 1 - 1 + 1 ELSE 0
        /\ \A j \in 1..(i - 1 - 1 + 1) : front[j] = s[1 + j - 1]
    BY <1>0, <2>1, SubSeqProperties
  <2> QED
    BY <1>0, <2>2 DEF n
<1>2. /\ back \in Seq(S) /\ Len(back) = n - i
      /\ \A j \in 1..(n - i) : back[j] = s[i + j]
  <2>1. \A j \in (i + 1)..n : s[j] \in S
    BY <1>0 DEF n
  <2>2. /\ back \in Seq(S)
        /\ Len(back) = IF i + 1 <= n THEN n - (i + 1) + 1 ELSE 0
        /\ \A j \in 1..(n - (i + 1) + 1) : back[j] = s[i + 1 + j - 1]
    BY <1>0, <2>1, SubSeqProperties
  <2> QED
    BY <1>0, <2>2 DEF n
<1> HIDE DEF front, back
<1>3. /\ front \o back \in Seq(S)
      /\ Len(front \o back) = Len(front) + Len(back)
      /\ \A j \in 1..(Len(front) + Len(back)) :
           (front \o back)[j] = IF j <= Len(front) THEN front[j] ELSE back[j - Len(front)]
  BY <1>1, <1>2, ConcatProperties
<1>4. RemoveAt(s, i) = front \o back
  BY DEF RemoveAt, front, back, n
<1>5. Len(front \o back) = n - 1
  BY <1>0, <1>1, <1>2, <1>3
<1>6. ASSUME NEW j \in 1..(n - 1)
      PROVE  (front \o back)[j] = IF j < i THEN s[j] ELSE s[j + 1]
  <2>1. (front \o back)[j] = IF j <= i - 1 THEN front[j] ELSE back[j - (i - 1)]
    BY <1>0, <1>1, <1>2, <1>3
  <2>2. CASE j < i
    BY <1>0, <1>1, <2>1, <2>2
  <2>3. CASE ~ (j < i)
    <3>1. j - (i - 1) \in 1..(n - i) /\ i + (j - (i - 1)) = j + 1
      BY <1>0, <2>3 DEF n
    <3> QED
      BY <1>0, <1>2, <2>1, <2>3, <3>1
  <2> QED
    BY <2>2, <2>3
<1> QED
  BY <1>3, <1>4, <1>5, <1>6 DEF n

LEMMA AppendRange ==
  ASSUME NEW S, NEW s \in Seq(S), NEW e \in S
  PROVE  /\ Append(s, e) \in Seq(S)
         /\ Len(Append(s, e)) = Len(s) + 1
         /\ Range(Append(s, e)) = Range(s) \cup {e}
         /\ IsInjective(s) /\ e \notin Range(s) => IsInjective(Append(s, e))
<1> DEFINE t == Append(s, e)
<1>1. /\ t \in Seq(S) /\ Len(t) = Len(s) + 1
      /\ \A i \in 1..Len(s) : t[i] = s[i]
      /\ t[Len(s) + 1] = e
  BY AppendProperties
<1>2. DOMAIN t = 1..(Len(s) + 1) /\ DOMAIN s = 1..Len(s) /\ Len(s) \in Nat
  BY <1>1, LenProperties
<1> HIDE DEF t
<1>3. \A i \in DOMAIN t : i \in DOMAIN s \/ i = Len(s) + 1
  BY <1>2
<1>4. DOMAIN s \subseteq DOMAIN t /\ Len(s) + 1 \in DOMAIN t /\ Len(s) + 1 \notin DOMAIN s
  BY <1>2
<1>5. \A i \in DOMAIN s : t[i] = s[i]
  BY <1>1, <1>2
<1>6. Range(t) = Range(s) \cup {e}
  BY <1>1, <1>3, <1>4, <1>5 DEF Range
<1>7. IsInjective(s) /\ e \notin Range(s) => IsInjective(t)
  BY <1>1, <1>3, <1>4, <1>5 DEF Range, IsInjective
<1> QED
  BY <1>1, <1>6, <1>7 DEF t

LEMMA RemoveAtRange ==
  ASSUME NEW S, NEW s \in Seq(S), NEW i \in 1..Len(s), IsInjective(s)
  PROVE  /\ Range(RemoveAt(s, i)) = Range(s) \ {s[i]}
         /\ IsInjective(RemoveAt(s, i))
<1> DEFINE t == RemoveAt(s, i)
           old(j) == IF j < i THEN j ELSE j + 1
<1>1. /\ t \in Seq(S) /\ Len(t) = Len(s) - 1
      /\ \A j \in 1..(Len(s) - 1) : t[j] = s[old(j)]
  <2>1. \A j \in 1..(Len(s) - 1) : t[j] = IF j < i THEN s[j] ELSE s[j + 1]
    BY RemoveAtProperties
  <2> QED
    BY <2>1, RemoveAtProperties
<1>2. DOMAIN t = 1..(Len(s) - 1) /\ DOMAIN s = 1..Len(s) /\ Len(s) \in Nat
  BY <1>1, LenProperties
<1> HIDE DEF t
<1>3. \A j \in DOMAIN t : old(j) \in DOMAIN s /\ old(j) # i /\ t[j] = s[old(j)]
  BY <1>1, <1>2
<1>4. \A k \in DOMAIN s : k # i => \E j \in DOMAIN t : old(j) = k
  <2>1. \A k \in DOMAIN s : k < i => k \in DOMAIN t /\ old(k) = k
    BY <1>2
  <2>2. \A k \in DOMAIN s : k > i => k - 1 \in DOMAIN t /\ old(k - 1) = k
    BY <1>2
  <2> QED
    BY <1>2, <2>1, <2>2
<1>5. \A j, k \in DOMAIN t : old(j) = old(k) => j = k
  BY <1>2
<1>6. i \in DOMAIN s
  BY <1>2
<1> HIDE DEF old
<1>7. IsInjective(t)
  BY <1>3, <1>5 DEF IsInjective
<1>8. Range(t) = Range(s) \ {s[i]}
  <2>1. ASSUME NEW x \in Range(t)
        PROVE  x \in Range(s) \ {s[i]}
    BY <1>3, <1>6, <2>1 DEF Range, IsInjective
  <2>2. ASSUME NEW x \in Range(s) \ {s[i]}
        PROVE  x \in Range(t)
    <3>1. PICK k \in DOMAIN s : x = s[k]
      BY <2>2 DEF Range
    <3>2. PICK j \in DOMAIN t : old(j) = k
      BY <1>4, <2>2, <3>1
    <3> QED
      BY <1>3, <3>1, <3>2 DEF Range
  <2> QED
    BY <2>1, <2>2
<1> QED
  BY <1>7, <1>8 DEF t

-----------------------------------------------------------------------------
(* The variables RegistryInv speaks of.                                    *)
registryState == <<mode, known, curr_fd, is_connected, pollVars, newfd,
                   backlog, fdtab>>

LEMMA FdFacts ==
  /\ NoFd \notin Fds
  /\ \A fd \in Fds : fd \notin {STDIN_FILENO, udp_sockfd, tcp_sockfd}
  /\ tcp_sockfd \notin {STDIN_FILENO, udp_sockfd}
BY SocketsAssumption DEF SocketsAssumption, NoFd, STDIN_FILENO, udp_sockfd, tcp_sockfd

LEMMA RegistryInitially == Init => RegistryInv
<1> SUFFICES ASSUME Init PROVE RegistryInv
  OBVIOUS
<1> USE DEF Init, ServerInit, SocketsInit
<1>1. Range(poll_fds) = {} /\ IsInjective(poll_fds) /\ Len(poll_fds) = 0
  BY DEF Range, IsInjective
<1>2. RegistryTypes
  BY DEF RegistryTypes
<1>3. PollSetMatchesRegistry
  BY <1>1 DEF PollSetMatchesRegistry, ClientFds, Connected
<1>4. /\ OneOwnerPerFd
      /\ \A id \in Ids : is_connected[id] => id \in known
      /\ tcp_sockfd \in revents => backlog # <<>>
  BY DEF OneOwnerPerFd
<1>5. /\ \A fd \in Fds : fdtab[fd] # NoConn <=> fd \in ClientFds \/ fd = newfd
      /\ newfd \notin ClientFds
      /\ mode = "handshake" <=> newfd # NoFd
  BY <1>1, FdFacts DEF ClientFds
<1> QED
  BY <1>2, <1>3, <1>4, <1>5 DEF RegistryInv

LEMMA RegistryHalt ==
  ASSUME NEW how \in {"stopped", "crashed"}, Halt(how)
  PROVE  RegistryInv'
<1> USE DEF Halt
<1>1. Range(poll_fds') = {} /\ IsInjective(poll_fds') /\ Len(poll_fds') = 0
  BY DEF Range, IsInjective
<1>2. RegistryTypes'
  BY DEF RegistryTypes
<1>3. PollSetMatchesRegistry'
  BY <1>1 DEF PollSetMatchesRegistry, ClientFds, Connected
<1>4. /\ OneOwnerPerFd'
      /\ \A id \in Ids : is_connected'[id] => id \in known'
      /\ tcp_sockfd \in revents' => backlog' # <<>>
  BY DEF OneOwnerPerFd
<1>5. /\ \A fd \in Fds : fdtab'[fd] # NoConn <=> fd \in ClientFds' \/ fd = newfd'
      /\ newfd' \notin ClientFds'
      /\ mode' = "handshake" <=> newfd' # NoFd
  BY <1>1, FdFacts DEF ClientFds
<1> QED
  BY <1>2, <1>3, <1>4, <1>5 DEF RegistryInv

(* A step that changes nothing but what poll() reported.                   *)
LEMMA RegistryKept ==
  ASSUME RegistryInv, UNCHANGED registryState,
         tcp_sockfd \in revents' => tcp_sockfd \in revents \/ backlog # <<>>
  PROVE  RegistryInv'
BY DEF RegistryInv, registryState, pollVars, RegistryTypes,
       PollSetMatchesRegistry, OneOwnerPerFd, ClientFds, Connected

LEMMA RegistryPoll ==
  ASSUME RegistryInv, Poll
  PROVE  RegistryInv'
<1>1. UNCHANGED registryState
  BY DEF Poll, registryState, socketVars, registryVars, pollVars
<1>2. tcp_sockfd \in ReadyFds => backlog # <<>>
  <2>1. tcp_sockfd \notin ClientFds
    BY ElementOfSeq, LenProperties, FdFacts DEF RegistryInv, RegistryTypes, ClientFds, Range
  <2> QED
    BY <2>1, FdFacts DEF ReadyFds, Readable
<1> QED
  BY <1>1, <1>2, RegistryKept DEF Poll

LEMMA RegistryPrepare ==
  ASSUME RegistryInv, NEW p \in Procs, UserOf(p), Prepare(p, Running)
  PROVE  RegistryInv'
<1>1. PICK c \in Conns : backlog' = Append(backlog, c)
  BY DEF Prepare
<1>2. /\ UNCHANGED <<mode, known, curr_fd, is_connected, pollVars, newfd, revents>>
      /\ UNCHANGED fdtab
  BY DEF Prepare, UserOf, serverVars, registryVars, pollVars
<1>3. backlog' \in Seq(Conns) /\ backlog' # <<>>
  BY <1>1, AppendProperties DEF RegistryInv, RegistryTypes
<1> QED
  BY <1>2, <1>3 DEF RegistryInv, registryState, pollVars, RegistryTypes,
       PollSetMatchesRegistry, OneOwnerPerFd, ClientFds, Connected

LEMMA RegistryAccept ==
  ASSUME RegistryInv, Accept
  PROVE  RegistryInv'
<1> USE DEF Accept
<1>1. PICK fd \in Fds : IsNextFd(fd) /\ newfd' = fd
                        /\ fdtab' = [fdtab EXCEPT ![fd] = Head(backlog)]
  OBVIOUS
<1>2. UNCHANGED <<known, curr_fd, is_connected, pollVars>>
  BY DEF registryVars, pollVars
<1>3. tcp_sockfd \in revents /\ mode = "loop"
  BY DEF AtAccept, AtLoop
<1>4. backlog # <<>> /\ backlog \in Seq(Conns) /\ newfd = NoFd
  BY <1>3, FdFacts DEF RegistryInv, RegistryTypes
<1>5. Head(backlog) \in Conns /\ backlog' \in Seq(Conns) /\ Head(backlog) # NoConn
  BY <1>4, HeadTailProperties, SocketsAssumption DEF SocketsAssumption
<1>6. fdtab[fd] = NoConn /\ fd \notin ClientFds
  BY <1>1 DEF IsNextFd, RegistryInv
<1>7. RegistryTypes'
  BY <1>1, <1>2, <1>5 DEF RegistryInv, RegistryTypes, pollVars
<1>8. PollSetMatchesRegistry' /\ OneOwnerPerFd' /\ ClientFds' = ClientFds
  BY <1>2 DEF RegistryInv, PollSetMatchesRegistry, OneOwnerPerFd, pollVars,
              ClientFds, Connected
<1>9. /\ \A x \in Fds : fdtab'[x] # NoConn <=> x \in ClientFds' \/ x = newfd'
      /\ newfd' \notin ClientFds'
      /\ mode' = "handshake" <=> newfd' # NoFd
  BY <1>1, <1>4, <1>5, <1>6, <1>8, FdFacts DEF RegistryInv, RegistryTypes
<1>10. tcp_sockfd \notin revents'
  OBVIOUS
<1> QED
  BY <1>2, <1>7, <1>8, <1>9, <1>10 DEF RegistryInv

(* Both accepting branches of manage_connection_request().                 *)
LEMMA RegistryAdmit ==
  ASSUME RegistryInv, NEW id \in Ids, IdArrived(id), AdmitClient(id),
         ~ is_connected[id],
         known' = known \cup {id}
  PROVE  RegistryInv'
<1> USE DEF AdmitClient
<1>1. newfd \in Fds /\ newfd # NoFd
  BY FdFacts DEF IdArrived, RegistryInv, RegistryTypes
<1>2. newfd \notin ClientFds
  BY DEF RegistryInv
<1>3. /\ curr_fd'[id] = newfd /\ is_connected'[id]
      /\ \A x \in Ids \ {id} : curr_fd'[x] = curr_fd[x] /\ is_connected'[x] = is_connected[x]
  BY DEF RegistryInv, RegistryTypes
<1>4. /\ poll_fds' \in Seq(Fds)
      /\ Len(poll_fds') = Len(poll_fds) + 1
      /\ ClientFds' = ClientFds \cup {newfd}
      /\ IsInjective(poll_fds')
  BY <1>1, <1>2, AppendRange DEF RegistryInv, RegistryTypes, PollSetMatchesRegistry, ClientFds
<1>5. Connected' = Connected \cup {id}
  BY <1>3 DEF Connected, RegistryInv, RegistryTypes
<1>6. \A x \in Connected : x \in Ids /\ x # id /\ curr_fd[x] \in ClientFds
  BY DEF Connected, RegistryInv, RegistryTypes, PollSetMatchesRegistry
<1>7. RegistryTypes'
  BY <1>1, <1>4 DEF RegistryInv, RegistryTypes
<1>8. PollSetMatchesRegistry'
  <2>1. ClientFds' = {curr_fd'[x] : x \in Connected'}
    BY <1>3, <1>4, <1>5, <1>6 DEF RegistryInv, PollSetMatchesRegistry
  <2>2. \A x \in Ids : is_connected'[x] <=> curr_fd'[x] # NoFd
    BY <1>1, <1>3 DEF RegistryInv, PollSetMatchesRegistry
  <2>3. num_pollfds' = Len(poll_fds') + 3
    BY <1>4, LenProperties DEF RegistryInv, RegistryTypes, PollSetMatchesRegistry
  <2> QED
    BY <1>4, <2>1, <2>2, <2>3 DEF PollSetMatchesRegistry
<1>9. OneOwnerPerFd'
  <2>1. \A x \in Ids \ {id} : curr_fd[x] # newfd
    <3> SUFFICES ASSUME NEW x \in Ids \ {id}, curr_fd[x] = newfd
                 PROVE  FALSE
      OBVIOUS
    <3>1. x \in Connected
      BY <1>1 DEF Connected, RegistryInv, PollSetMatchesRegistry
    <3> QED
      BY <1>2, <1>6, <3>1
  <2> QED
    BY <1>3, <2>1 DEF RegistryInv, OneOwnerPerFd
<1>10. \A x \in Ids : is_connected'[x] => x \in known'
  BY <1>3 DEF RegistryInv
<1>11. /\ \A fd \in Fds : fdtab'[fd] # NoConn <=> fd \in ClientFds' \/ fd = newfd'
       /\ newfd' \notin ClientFds'
       /\ mode' = "handshake" <=> newfd' # NoFd
  <2>1. NoFd \notin ClientFds
    BY <1>6, FdFacts DEF RegistryInv, PollSetMatchesRegistry, Connected, RegistryTypes
  <2> QED
    BY <1>1, <1>4, <2>1, FdFacts DEF RegistryInv
<1>12. tcp_sockfd \in revents' => backlog' # <<>>
  BY DEF ReventsWithEntry, RegistryInv
<1> QED
  BY <1>7, <1>8, <1>9, <1>10, <1>11, <1>12 DEF RegistryInv

LEMMA RegistryRegister ==
  ASSUME RegistryInv, NEW id \in Ids, RegisterClient(id)
  PROVE  RegistryInv'
BY RegistryAdmit DEF RegisterClient, RegistryInv

LEMMA RegistryReconnect ==
  ASSUME RegistryInv, NEW id \in Ids, ReconnectClient(id)
  PROVE  RegistryInv'
<1>1. known' = known \cup {id}
  BY DEF ReconnectClient
<1> QED
  BY <1>1, RegistryAdmit DEF ReconnectClient, Refused

LEMMA RegistryDeny ==
  ASSUME RegistryInv, NEW id \in Ids, DenyClient(id)
  PROVE  RegistryInv'
<1> USE DEF DenyClient
<1>1. newfd \in Fds /\ newfd # NoFd
  BY FdFacts DEF IdArrived, RegistryInv, RegistryTypes
<1>2. fdtab' = [fdtab EXCEPT ![newfd] = NoConn] /\ newfd' = NoFd /\ mode' = "loop"
  BY DEF AfterClose
<1>3. UNCHANGED <<known, curr_fd, is_connected, poll_fds, num_pollfds, backlog, revents>>
  BY DEF registryVars, pollVars
<1>4. RegistryTypes'
  BY <1>2, <1>3 DEF RegistryInv, RegistryTypes
<1>5. PollSetMatchesRegistry' /\ OneOwnerPerFd' /\ ClientFds' = ClientFds
  BY <1>3 DEF RegistryInv, PollSetMatchesRegistry, OneOwnerPerFd, ClientFds, Connected
<1>6. NoFd \notin ClientFds
  BY FdFacts DEF ClientFds, Range, RegistryInv, RegistryTypes
<1>7. \A fd \in Fds : fdtab'[fd] # NoConn <=> fd \in ClientFds' \/ fd = newfd'
  BY <1>1, <1>2, <1>5, FdFacts DEF RegistryInv, RegistryTypes
<1> QED
  BY <1>2, <1>3, <1>4, <1>5, <1>6, <1>7 DEF RegistryInv

LEMMA RegistryDisconnect ==
  ASSUME RegistryInv, NEW i \in DOMAIN poll_fds, NEW id \in Ids, DisconnectClient(i, id)
  PROVE  RegistryInv'
<1> DEFINE fd == poll_fds[i]
<1> USE DEF DisconnectClient
<1>1. /\ i \in 1..Len(poll_fds) /\ Len(poll_fds) \in Nat
      /\ fd \in Fds /\ fd \in ClientFds
  BY LenProperties, ElementOfSeq DEF RegistryInv, RegistryTypes, ClientFds, Range
<1>2. id \in known /\ curr_fd[id] = fd
  BY DEF get_client_from_fd
<1>3. /\ fdtab' = [fdtab EXCEPT ![fd] = NoConn]
      /\ UNCHANGED <<known, mode, newfd, backlog>>
      /\ revents' = revents \ {fd}
  BY DEF AfterClose
<1>4. /\ curr_fd'[id] = NoFd /\ ~ is_connected'[id]
      /\ \A x \in Ids \ {id} : curr_fd'[x] = curr_fd[x] /\ is_connected'[x] = is_connected[x]
  BY DEF RegistryInv, RegistryTypes, FdsWithout
<1>5. /\ poll_fds' \in Seq(Fds)
      /\ Len(poll_fds') = Len(poll_fds) - 1
      /\ ClientFds' = ClientFds \ {fd}
      /\ IsInjective(poll_fds')
  BY <1>1, RemoveAtProperties, RemoveAtRange
     DEF RegistryInv, RegistryTypes, PollSetMatchesRegistry, ClientFds
<1>6. Connected' = Connected \ {id} /\ id \in Connected
  BY <1>1, <1>2, <1>3, <1>4, FdFacts
     DEF Connected, RegistryInv, RegistryTypes, PollSetMatchesRegistry
<1>7. \A x \in Connected \ {id} : x \in Ids /\ curr_fd[x] # fd
  BY <1>1, <1>2, FdFacts DEF Connected, RegistryInv, RegistryTypes, OneOwnerPerFd
<1> HIDE DEF fd
<1>8. RegistryTypes'
  <2>1. num_pollfds' \in Nat
    BY <1>1 DEF RegistryInv, RegistryTypes, PollSetMatchesRegistry
  <2> QED
    BY <1>3, <1>5, <2>1 DEF RegistryInv, RegistryTypes, FdsWithout
<1>9. PollSetMatchesRegistry'
  <2>1. ClientFds' = {curr_fd'[x] : x \in Connected'}
    BY <1>2, <1>4, <1>5, <1>6, <1>7 DEF RegistryInv, PollSetMatchesRegistry
  <2>2. \A x \in Ids : is_connected'[x] <=> curr_fd'[x] # NoFd
    BY <1>4 DEF RegistryInv, PollSetMatchesRegistry
  <2>3. num_pollfds' = Len(poll_fds') + 3
    BY <1>1, <1>5 DEF RegistryInv, RegistryTypes, PollSetMatchesRegistry
  <2> QED
    BY <1>5, <2>1, <2>2, <2>3 DEF PollSetMatchesRegistry
<1>10. OneOwnerPerFd'
  BY <1>4 DEF RegistryInv, OneOwnerPerFd
<1>11. \A x \in Ids : is_connected'[x] => x \in known'
  BY <1>3, <1>4 DEF RegistryInv
<1>12. /\ \A x \in Fds : fdtab'[x] # NoConn <=> x \in ClientFds' \/ x = newfd'
       /\ newfd' \notin ClientFds'
  BY <1>1, <1>3, <1>5 DEF RegistryInv, RegistryTypes
<1> QED
  BY <1>3, <1>8, <1>9, <1>10, <1>11, <1>12 DEF RegistryInv

-----------------------------------------------------------------------------
(* The steps of the other processes leave the registry alone, and so do    *)
(* the server's own sends and receives.                                    *)
LEMMA RegistryServerStep ==
  ASSUME RegistryInv, ServerNext
  PROVE  RegistryInv'
<1>1. CASE Poll
  BY <1>1, RegistryPoll
<1>2. CASE CheckStdinData
  <2>1. CASE Halt("stopped")
    BY <2>1, RegistryHalt
  <2>2. CASE UNCHANGED registryState /\ revents' = revents \ {STDIN_FILENO}
    BY <2>2, RegistryKept
  <2> QED
    BY <1>2, <2>1, <2>2
       DEF CheckStdinData, registryState, socketVars, registryVars, pollVars
<1>3. CASE ManageUdpMessage
  <2>1. UNCHANGED registryState /\ revents' = revents \ {udp_sockfd}
    BY <1>3 DEF ManageUdpMessage, registryState, socketVars, registryVars, pollVars
  <2> QED
    BY <2>1, RegistryKept
<1>4. CASE SendNext
  <2>1. UNCHANGED registryState /\ revents' = revents
    BY <1>4 DEF SendNext, registryState, registryVars, pollVars
  <2> QED
    BY <2>1, RegistryKept
<1>5. CASE SendFails
  BY <1>5, RegistryHalt DEF SendFails
<1>6. CASE Accept
  BY <1>6, RegistryAccept
<1>7. CASE AcceptFails
  BY <1>7, RegistryHalt DEF AcceptFails
<1>8. ASSUME NEW id \in Ids, RegisterClient(id) \/ ReconnectClient(id) \/ DenyClient(id)
      PROVE  RegistryInv'
  BY <1>8, RegistryRegister, RegistryReconnect, RegistryDeny
<1>9. CASE DenialFails
  BY <1>9, RegistryHalt DEF DenialFails
<1>10. CASE NoIdArrives
  BY <1>10, RegistryHalt DEF NoIdArrives
<1>11. ASSUME NEW i \in DOMAIN poll_fds, NEW id \in Ids, ManageSubscribeUnsubscribe(i, id)
       PROVE  RegistryInv'
  <2>1. UNCHANGED registryState /\ revents' = revents \ {poll_fds[i]}
    BY <1>11 DEF ManageSubscribeUnsubscribe, registryState, pollVars
  <2> QED
    BY <2>1, RegistryKept
<1>12. ASSUME NEW i \in DOMAIN poll_fds, NEW id \in Ids, DisconnectClient(i, id)
       PROVE  RegistryInv'
  BY <1>12, RegistryDisconnect
<1>13. ASSUME NEW i \in DOMAIN poll_fds, RecvFails(i)
       PROVE  RegistryInv'
  BY <1>13, RegistryHalt DEF RecvFails
<1> QED
  BY <1>1, <1>2, <1>3, <1>4, <1>5, <1>6, <1>7, <1>8, <1>9, <1>10, <1>11, <1>12, <1>13
     DEF ServerNext

LEMMA RegistryNext ==
  ASSUME RegistryInv, [Next]_vars
  PROVE  RegistryInv'
<1>1. CASE ServerStep
  BY <1>1, RegistryServerStep DEF ServerStep
<1>2. ASSUME NEW p \in Procs, ProcStep(p)
      PROVE  RegistryInv'
  <2>1. UNCHANGED <<backlog, fdtab>>
    BY <1>2 DEF ProcStep, SubscriberStep, SendId, ServerGone, RecvDies, Accepted,
                Denied, SendRequest, RecvAnswer, RecvTcp, ServerClosedIt, End
  <2>2. UNCHANGED registryState /\ revents' = revents
    BY <1>2, <2>1 DEF ProcStep, serverVars, registryVars, registryState
  <2> QED
    BY <2>2, RegistryKept
<1>3. ASSUME NEW p \in Procs, UserOf(p)
      PROVE  RegistryInv'
  <2>1. CASE Prepare(p, Running)
    BY <1>3, <2>1, RegistryPrepare
  <2>2. CASE ~ Prepare(p, Running)
    <3>1. UNCHANGED <<backlog, fdtab>>
      BY <1>3, <2>2 DEF UserOf, UserStep, Exit, TypeRequest, Kill, End, socketVars
    <3>2. UNCHANGED registryState /\ revents' = revents
      BY <1>3, <3>1 DEF UserOf, serverVars, registryVars, registryState
    <3> QED
      BY <3>2, RegistryKept
  <2> QED
    BY <2>1, <2>2
<1>4. CASE TypeConsole \/ SendDatagram \/ UNCHANGED vars
  <2>1. UNCHANGED registryState /\ revents' = revents
    BY <1>4 DEF TypeConsole, TypeLine, SendDatagram, ArriveDatagram, vars,
                socketVars, serverVars, registryVars, registryState
  <2> QED
    BY <2>1, RegistryKept
<1> QED
  BY <1>1, <1>2, <1>3, <1>4 DEF Next, Finished

(* Whatever the number of subscribers, ids and descriptors and the sizes   *)
(* of the queues, the server's structures agree at every step.             *)
THEOREM RegistryInvariant == Spec => []RegistryInv
<1>1. Init => RegistryInv
  BY RegistryInitially
<1>2. RegistryInv /\ [Next]_vars => RegistryInv'
  BY RegistryNext
<1> QED
  BY <1>1, <1>2, PTL DEF Spec

(* One poll entry per connected client, always.                            *)
THEOREM PollSetCorrect == Spec => []PollSetMatchesRegistry
<1>1. RegistryInv => PollSetMatchesRegistry
  BY DEF RegistryInv
<1> QED
  BY <1>1, RegistryInvariant, PTL

(* The "never reached" of get_client_from_fd() is never reached.           *)
THEOREM PlaceholderUnreached == Spec => []NeverPlaceholder
<1>1. RegistryInv => NeverPlaceholder
  <2> SUFFICES ASSUME RegistryInv, NEW fd \in ClientFds
               PROVE  \E id \in Ids : get_client_from_fd(fd) = {id}
    BY DEF NeverPlaceholder
  <2>1. fd \in Fds
    BY ElementOfSeq, LenProperties DEF RegistryInv, RegistryTypes, ClientFds, Range
  <2>2. PICK id \in Connected : curr_fd[id] = fd
    BY DEF RegistryInv, PollSetMatchesRegistry
  <2>3. id \in Ids /\ id \in known
    BY DEF Connected, RegistryInv, RegistryTypes
  <2>4. \A x \in known : curr_fd[x] = fd => x = id
    BY <2>1, <2>2, <2>3, FdFacts DEF RegistryInv, RegistryTypes, OneOwnerPerFd
  <2> QED
    BY <2>2, <2>3, <2>4 DEF get_client_from_fd
<1> QED
  BY <1>1, RegistryInvariant, PTL

-----------------------------------------------------------------------------
(***************************************************************************)
(* Proofs about the loop of run(): the iterator stays inside the vector    *)
(* while entries are erased and appended, and no ready client is skipped.  *)
(***************************************************************************)
LEMMA LeastElement ==
  ASSUME NEW T \in SUBSET Nat, T # {}
  PROVE  \E x \in T : \A y \in T : x <= y
<1>1. PICK x \in T : \A y \in T : ~ (<<y, x>> \in OpToRel(<, Nat))
  BY NatLessThanWellFounded, WFMin
<1>2. \A y \in T : ~ (y < x)
  BY <1>1 DEF OpToRel
<1> QED
  BY <1>2

LEMMA PolledFdsFacts ==
  ASSUME RegistryInv
  PROVE  /\ poll_fds \in Seq(Fds)
         /\ Len(poll_fds) \in Nat
         /\ DOMAIN poll_fds = 1..Len(poll_fds)
         /\ \A j \in DOMAIN poll_fds : poll_fds[j] \in Fds /\ poll_fds[j] \in ClientFds
         /\ \A fd \in ClientFds : \E j \in DOMAIN poll_fds : poll_fds[j] = fd
         /\ \A j, k \in DOMAIN poll_fds : poll_fds[j] = poll_fds[k] => j = k
<1>1. poll_fds \in Seq(Fds)
  BY DEF RegistryInv, RegistryTypes
<1>2. Len(poll_fds) \in Nat /\ DOMAIN poll_fds = 1..Len(poll_fds)
  BY <1>1, LenProperties
<1>3. \A j \in DOMAIN poll_fds : poll_fds[j] \in Fds
  BY <1>1, <1>2, ElementOfSeq
<1> QED
  BY <1>1, <1>2, <1>3 DEF RegistryInv, PollSetMatchesRegistry, IsInjective, ClientFds, Range

-----------------------------------------------------------------------------
LEMMA RoundInitially == Init => RoundInv
<1> SUFFICES ASSUME Init PROVE RoundInv
  OBVIOUS
<1>1. revents = {} /\ it = 1 /\ poll_fds = <<>>
  BY DEF Init, ServerInit
<1>2. Len(poll_fds) = 0
  BY <1>1
<1> QED
  BY <1>1, <1>2 DEF RoundInv, RoundTypes

LEMMA RoundHalt ==
  ASSUME NEW how, Halt(how)
  PROVE  RoundInv'
<1>1. revents' = {} /\ it' = 1 /\ poll_fds' = <<>>
  BY DEF Halt
<1>2. Len(poll_fds') = 0
  BY <1>1
<1> QED
  BY <1>1, <1>2 DEF RoundInv, RoundTypes

(* A step that does not move the iterator nor touch the poll set.          *)
LEMMA RoundKept ==
  ASSUME RoundInv, UNCHANGED <<poll_fds, it>>, revents' \subseteq revents,
         STDIN_FILENO \in revents' => Len(console') > buffered',
         udp_sockfd \in revents' => udpq' # <<>>
  PROVE  RoundInv'
BY DEF RoundInv, RoundTypes, PolledFds, ClientFds

LEMMA RoundPoll ==
  ASSUME RegistryInv, Poll
  PROVE  RoundInv'
<1>1. revents' = ReadyFds /\ it' = 1 /\ UNCHANGED <<poll_fds, console, buffered, udpq>>
  BY DEF Poll, pollVars
<1>2. /\ STDIN_FILENO \in ReadyFds => Len(console) > buffered
      /\ udp_sockfd \in ReadyFds => udpq # <<>>
      /\ ReadyFds \subseteq PolledFds
  <2>1. \A fd \in ClientFds : fd \in Fds
    BY PolledFdsFacts
  <2> QED
    BY <2>1, FdFacts DEF ReadyFds, Readable, STDIN_FILENO, udp_sockfd, tcp_sockfd
<1>3. Len(poll_fds) \in Nat /\ DOMAIN poll_fds = 1..Len(poll_fds)
  BY PolledFdsFacts
<1>4. RoundTypes'
  BY <1>1, <1>2, <1>3 DEF RoundTypes, PolledFds, ClientFds
<1> QED
  BY <1>1, <1>2, <1>3, <1>4 DEF RoundInv

(* The new entry was not polled, and comes after the iterator.             *)
LEMMA RoundAdmit ==
  ASSUME RegistryInv, RoundInv, NEW id \in Ids, IdArrived(id), AdmitClient(id)
  PROVE  RoundInv'
<1>1. /\ poll_fds' = Append(poll_fds, newfd)
      /\ UNCHANGED <<revents, it, console, buffered, udpq>>
  BY DEF AdmitClient, ReventsWithEntry
<1>2. newfd \in Fds /\ newfd \notin PolledFds
  BY FdFacts DEF IdArrived, RegistryInv, RegistryTypes, PolledFds
<1>3. poll_fds \in Seq(Fds) /\ Len(poll_fds) \in Nat /\ DOMAIN poll_fds = 1..Len(poll_fds)
  BY PolledFdsFacts
<1>4. /\ Len(poll_fds') = Len(poll_fds) + 1
      /\ DOMAIN poll_fds' = 1..(Len(poll_fds) + 1)
      /\ \A j \in 1..Len(poll_fds) : poll_fds'[j] = poll_fds[j]
      /\ poll_fds'[Len(poll_fds) + 1] = newfd
  BY <1>1, <1>2, <1>3, AppendProperties, LenProperties
<1>5. ClientFds' = ClientFds \cup {newfd}
  BY <1>1, <1>2, <1>3, AppendRange DEF ClientFds
<1>6. RoundTypes'
  BY <1>1, <1>3, <1>4, <1>5 DEF RoundInv, RoundTypes, PolledFds
<1>7. \A j \in DOMAIN poll_fds' : poll_fds'[j] \in revents' => it' <= j
  BY <1>1, <1>2, <1>3, <1>4 DEF RoundInv, RoundTypes
<1> QED
  BY <1>1, <1>6, <1>7 DEF RoundInv

(* Nothing before the client the loop has come to is left to be handled.   *)
LEMMA NothingBefore ==
  ASSUME RegistryInv, RoundInv, NEW i \in DOMAIN poll_fds, IsNextClient(i),
         NEW j \in DOMAIN poll_fds, poll_fds[j] \in revents \ {poll_fds[i]}
  PROVE  i < j
<1>1. i \in Nat /\ j \in Nat /\ it \in Nat
  BY PolledFdsFacts DEF RoundInv, RoundTypes
<1>2. it <= j /\ j # i
  BY DEF RoundInv
<1>3. ~ (j \in it..(i - 1))
  BY DEF IsNextClient
<1> QED
  BY <1>1, <1>2, <1>3

LEMMA RoundRequest ==
  ASSUME RegistryInv, RoundInv, NEW i \in DOMAIN poll_fds, NEW id \in Ids,
         ManageSubscribeUnsubscribe(i, id)
  PROVE  RoundInv'
<1>1. IsNextClient(i)
  BY DEF ManageSubscribeUnsubscribe, AtClient
<1>2. /\ revents' = revents \ {poll_fds[i]} /\ it' = i + 1
      /\ UNCHANGED <<poll_fds, console, buffered, udpq>>
  BY DEF ManageSubscribeUnsubscribe, pollVars
<1>3. Len(poll_fds) \in Nat /\ DOMAIN poll_fds = 1..Len(poll_fds)
  BY PolledFdsFacts
<1>4. \A j \in DOMAIN poll_fds' : poll_fds'[j] \in revents' => it' <= j
  BY <1>1, <1>2, <1>3, NothingBefore
<1>5. RoundTypes'
  BY <1>2, <1>3 DEF RoundInv, RoundTypes, PolledFds, ClientFds
<1> QED
  BY <1>2, <1>4, <1>5 DEF RoundInv

(* The entries after the erased one move to where the iterator stays.      *)
LEMMA RoundDisconnect ==
  ASSUME RegistryInv, RoundInv, NEW i \in DOMAIN poll_fds, NEW id \in Ids,
         DisconnectClient(i, id)
  PROVE  RoundInv'
<1>1. IsNextClient(i)
  BY DEF DisconnectClient, AtClient
<1>2. /\ revents' = revents \ {poll_fds[i]} /\ it' = i
      /\ poll_fds' = RemoveAt(poll_fds, i)
      /\ UNCHANGED <<console, buffered, udpq>>
  BY DEF DisconnectClient, AfterErase
<1>3. poll_fds \in Seq(Fds) /\ Len(poll_fds) \in Nat /\ DOMAIN poll_fds = 1..Len(poll_fds)
  BY PolledFdsFacts
<1>4. /\ Len(poll_fds') = Len(poll_fds) - 1
      /\ DOMAIN poll_fds' = 1..(Len(poll_fds) - 1)
      /\ \A j \in 1..(Len(poll_fds) - 1) :
           poll_fds'[j] = IF j < i THEN poll_fds[j] ELSE poll_fds[j + 1]
  BY <1>2, <1>3, RemoveAtProperties, LenProperties
<1>5. ClientFds' = ClientFds \ {poll_fds[i]}
  BY <1>2, <1>3, RemoveAtRange DEF ClientFds, RegistryInv, PollSetMatchesRegistry
<1>6. RoundTypes'
  <2>1. it' \in 1..(Len(poll_fds') + 1)
    BY <1>2, <1>3, <1>4
  <2> QED
    BY <1>2, <1>5, <2>1 DEF RoundInv, RoundTypes, PolledFds
<1>7. ASSUME NEW j \in DOMAIN poll_fds', poll_fds'[j] \in revents'
      PROVE  it' <= j
  <2>1. CASE j < i
    <3>1. j \in DOMAIN poll_fds /\ poll_fds[j] \in revents \ {poll_fds[i]}
      BY <1>2, <1>3, <1>4, <1>7, <2>1
    <3> QED
      BY <1>1, <1>2, <1>3, <2>1, <3>1, NothingBefore
  <2>2. CASE ~ (j < i)
    BY <1>2, <1>3, <1>4, <2>2
  <2> QED
    BY <2>1, <2>2
<1> QED
  BY <1>2, <1>6, <1>7 DEF RoundInv

-----------------------------------------------------------------------------
LEMMA RoundServerStep ==
  ASSUME RegistryInv, RoundInv, ServerNext
  PROVE  RoundInv'
<1>1. CASE Poll
  BY <1>1, RoundPoll
<1>2. CASE CheckStdinData
  <2>1. CASE Halt("stopped")
    BY <2>1, RoundHalt
  <2>2. CASE revents' = revents \ {STDIN_FILENO} /\ UNCHANGED <<poll_fds, it, udpq>>
    BY <2>2, RoundKept DEF RoundInv
  <2> QED
    BY <1>2, <2>1, <2>2 DEF CheckStdinData, pollVars
<1>3. CASE ManageUdpMessage
  <2>1. revents' = revents \ {udp_sockfd} /\ UNCHANGED <<poll_fds, it, console, buffered>>
    BY <1>3 DEF ManageUdpMessage, pollVars
  <2> QED
    BY <2>1, RoundKept DEF RoundInv
<1>4. CASE SendNext
  <2>1. UNCHANGED <<poll_fds, it, console, buffered, udpq, revents>>
    BY <1>4 DEF SendNext, pollVars
  <2> QED
    BY <2>1, RoundKept DEF RoundInv
<1>5. CASE SendFails \/ AcceptFails \/ DenialFails \/ NoIdArrives
  BY <1>5, RoundHalt DEF SendFails, AcceptFails, DenialFails, NoIdArrives
<1>6. CASE Accept
  <2>1. revents' = revents \ {tcp_sockfd} /\ UNCHANGED <<poll_fds, it, console, buffered, udpq>>
    BY <1>6 DEF Accept, pollVars
  <2> QED
    BY <2>1, RoundKept DEF RoundInv
<1>7. ASSUME NEW id \in Ids, RegisterClient(id) \/ ReconnectClient(id)
      PROVE  RoundInv'
  BY <1>7, RoundAdmit DEF RegisterClient, ReconnectClient
<1>8. ASSUME NEW id \in Ids, DenyClient(id)
      PROVE  RoundInv'
  <2>1. UNCHANGED <<poll_fds, it, console, buffered, udpq, revents>>
    BY <1>8 DEF DenyClient, pollVars
  <2> QED
    BY <2>1, RoundKept DEF RoundInv
<1>9. ASSUME NEW i \in DOMAIN poll_fds, NEW id \in Ids,
             ManageSubscribeUnsubscribe(i, id) \/ DisconnectClient(i, id)
      PROVE  RoundInv'
  BY <1>9, RoundRequest, RoundDisconnect
<1>10. ASSUME NEW i \in DOMAIN poll_fds, RecvFails(i)
       PROVE  RoundInv'
  BY <1>10, RoundHalt DEF RecvFails
<1> QED
  BY <1>1, <1>2, <1>3, <1>4, <1>5, <1>6, <1>7, <1>8, <1>9, <1>10 DEF ServerNext

LEMMA RoundNext ==
  ASSUME RegistryInv, RoundInv, MessageTypes, [Next]_vars
  PROVE  RoundInv'
<1>1. CASE ServerStep
  BY <1>1, RoundServerStep DEF ServerStep
<1>2. CASE UNCHANGED <<poll_fds, it, revents, console, buffered, udpq>>
  BY <1>2, RoundKept DEF RoundInv
<1>3. CASE TypeConsole
  <2>1. PICK line \in Lines : console' = Append(console, line)
    BY <1>3 DEF TypeConsole, TypeLine
  <2>2. Len(console') = Len(console) + 1 /\ Len(console) \in Nat
    BY <2>1, AppendProperties, LenProperties DEF MessageTypes
  <2>3. UNCHANGED <<poll_fds, it, revents, buffered, udpq>>
    BY <1>3 DEF TypeConsole, TypeLine, pollVars
  <2>4. Len(console') > buffered'
    BY <2>2, <2>3 DEF MessageTypes
  <2> QED
    BY <2>3, <2>4, RoundKept DEF RoundInv
<1>4. CASE SendDatagram
  <2>1. PICK topic \in Topics, valid \in BOOLEAN :
          ArriveDatagram(topic, valid, arrived + 1)
    BY <1>4 DEF SendDatagram
  <2>2. [topic |-> topic, valid |-> valid, n |-> arrived + 1] \in Datagrams
    BY <1>4, AppAssumption DEF SendDatagram, MessageTypes, Datagrams, AppAssumption
  <2>3. udpq' # <<>>
    BY <2>1, <2>2, AppendProperties DEF MessageTypes, ArriveDatagram
  <2>4. UNCHANGED <<poll_fds, it, revents, console, buffered>>
    BY <2>1 DEF ArriveDatagram, pollVars
  <2> QED
    BY <2>3, <2>4, RoundKept DEF RoundInv
<1>5. ASSUME NEW p \in Procs, ProcStep(p) \/ UserOf(p)
      PROVE  UNCHANGED <<poll_fds, it, revents, console, buffered, udpq>>
  BY <1>5 DEF ProcStep, UserOf, serverVars, pollVars
<1>6. CASE UNCHANGED vars
  BY <1>2, <1>6 DEF vars, serverVars, pollVars
<1> QED
  BY <1>1, <1>2, <1>3, <1>4, <1>5, <1>6 DEF Next, Finished

(* A round that is over has handled whatever poll() reported.              *)
LEMMA RoundServesAll ==
  ASSUME RegistryInv, RoundInv
  PROVE  EveryReadyServed
<1> SUFFICES ASSUME RoundOver, revents # {}
             PROVE  FALSE
  BY DEF EveryReadyServed
<1> DEFINE ahead == {j \in DOMAIN poll_fds : poll_fds[j] \in revents}
<1>1. Len(poll_fds) \in Nat /\ DOMAIN poll_fds = 1..Len(poll_fds)
  BY PolledFdsFacts
<1>2. revents \cap {STDIN_FILENO, udp_sockfd, tcp_sockfd} = {}
  BY DEF RoundOver
<1>3. ahead # {}
  BY <1>2, PolledFdsFacts DEF RoundInv, RoundTypes, PolledFds
<1>4. ahead \subseteq Nat
  BY <1>1
<1>5. PICK i \in ahead : \A j \in ahead : i <= j
  BY <1>3, <1>4, LeastElement
<1>6. it <= i /\ it \in Nat /\ num_pollfds >= 4
  BY <1>1 DEF RoundInv, RoundTypes, RegistryInv, PollSetMatchesRegistry
<1>7. \A j \in it..(i - 1) : poll_fds[j] \notin revents
  BY <1>1, <1>4, <1>5, <1>6 DEF RoundInv, RoundTypes
<1>8. IsNextClient(i)
  BY <1>1, <1>2, <1>5, <1>6, <1>7 DEF IsNextClient
<1> QED
  BY <1>5, <1>8 DEF RoundOver
=============================================================================
