----------------------------- MODULE UdpProofs ------------------------------
(***************************************************************************)
(* Proofs about the UDP clients, for any number of runs, any command       *)
(* lines, files and ports: the inductive invariant UdpInv, the properties  *)
(* that follow from it, and that the program keeps the promise of its      *)
(* modes (LoadGenerator).                                                  *)
(***************************************************************************)
EXTENDS UdpProperties, TLAPS, SequenceTheorems

LEMMA PortBounds ==
  /\ min_value = MIN_VALUE /\ max_value = MAX_VALUE
  /\ MIN_VALUE \in Nat /\ MAX_VALUE \in Nat
  BY SMT DEF min_value, max_value, MIN_VALUE, MAX_VALUE

(* The parser takes exactly the ports the usage message names.             *)
THEOREM PortTypeMatchesUsage ==
  \A value \in Int \cup {NotAnInt} :
    /\ unprivileged_port_type(value) # Refused <=> value \in get_unprivileged_port_meta
    /\ unprivileged_port_type(value) # Refused => unprivileged_port_type(value) = value
  <1> TAKE value \in Int \cup {NotAnInt}
  <1>1. CASE value = NotAnInt
    BY <1>1, PortAssumption, PortBounds DEF unprivileged_port_type, get_unprivileged_port_meta
  <1>2. CASE value # NotAnInt
    BY <1>2, PortAssumption, PortBounds DEF unprivileged_port_type, get_unprivileged_port_meta
  <1> QED
    BY <1>1, <1>2

(* What the proofs use of the assumptions.                                 *)
LEMMA Sentinels ==
  /\ NotAnInt \notin Int /\ Refused \notin Int /\ Absent \notin Int /\ None \notin Int
  /\ NoSocket \notin Addresses \X Int
  /\ AnyAddress \in Addresses /\ LocalAddresses \subseteq Addresses
  /\ ServerAddress \in Addresses \X Int
  /\ MaxSleep \in Nat /\ MaxSent \in Nat
  BY PortAssumption, UdpAssumption, SMT

LEMMA CommandLineTypes ==
  ASSUME NEW r \in Runs, NEW cmd \in CommandLines[r]
  PROVE  /\ cmd.server_ip \in Addresses
         /\ cmd.server_port \in Int \cup {NotAnInt}
         /\ cmd.source_address \in Addresses \cup {Absent}
         /\ cmd.source_port \in Int \cup {NotAnInt, Absent}
         /\ cmd.count \in Int \cup {NotAnInt, Absent}
         /\ cmd.delay \in Int \cup {NotAnInt, Absent}
  BY UdpAssumption, SMT DEF Words

(* The namespace of an accepted command line.                              *)
LEMMA ParsedArgs ==
  ASSUME NEW r \in Runs, NEW cmd \in CommandLines[r], CommandLineAccepted(cmd)
  PROVE  /\ parse_args(cmd) \in Args
         /\ parse_args(cmd).server[2] \in get_unprivileged_port_meta
         /\ parse_args(cmd).source_port \in get_unprivileged_port_meta \cup {0}
  <1> DEFINE port == unprivileged_port_type(cmd.server_port)
             source == source_port(cmd)
  <1>1. port \in get_unprivileged_port_meta
    BY PortTypeMatchesUsage, CommandLineTypes DEF CommandLineAccepted
  <1>2. source \in get_unprivileged_port_meta \cup {0}
    BY PortTypeMatchesUsage, CommandLineTypes DEF CommandLineAccepted, source_port
  <1>3. get_unprivileged_port_meta \subseteq Int
    BY PortBounds DEF get_unprivileged_port_meta
  <1>4. File[input_file(cmd)] \in Seq(Messages)
    BY UdpAssumption, SMT DEF CommandLineAccepted
  <1>5. cmd.server_ip \in Addresses
    BY CommandLineTypes
  <1>6. ASSUME cmd.source_address # Absent PROVE cmd.source_address \in Addresses
    BY <1>6, CommandLineTypes
  <1>7. ASSUME cmd.mode # Absent PROVE cmd.mode \in Modes
    BY <1>7 DEF CommandLineAccepted
  <1>8. ASSUME cmd.count # Absent PROVE cmd.count \in Int
    BY <1>8, CommandLineTypes DEF CommandLineAccepted
  <1>9. ASSUME cmd.delay # Absent PROVE cmd.delay \in Int
    BY <1>9, CommandLineTypes DEF CommandLineAccepted
  <1> HIDE DEF port, source
  <1>10. parse_args(cmd) =
           [input_file     |-> File[input_file(cmd)],
            server         |-> <<cmd.server_ip, port>>,
            source_address |-> IF cmd.source_address = Absent THEN AnyAddress
                               ELSE cmd.source_address,
            source_port    |-> source,
            mode           |-> IF cmd.mode = Absent THEN "all_once" ELSE cmd.mode,
            count          |-> IF cmd.count = Absent THEN None ELSE cmd.count,
            delay          |-> IF cmd.delay = Absent THEN 0 ELSE cmd.delay]
    BY DEF parse_args, port, source
  <1>11. AnyAddress \in Addresses
    BY Sentinels
  <1> QED
    BY <1>1, <1>2, <1>3, <1>4, <1>5, <1>6, <1>7, <1>8, <1>9, <1>10, <1>11 DEF Args, Modes

LEMMA UdpInitInv == UdpInit => UdpInv
  <1> SUFFICES ASSUME UdpInit PROVE UdpInv
    OBVIOUS
  <1>1. NoArgs \in Args
    BY Sentinels DEF NoArgs, Args, Modes
  <1>2. UdpTypeOK
    BY <1>1, Sentinels DEF UdpInit, NetworkInit, UdpTypeOK
  <1>3. \A r \in Runs : Progress(r) /\ Bound(r)
    BY <1>1, Sentinels DEF UdpInit, Progress, Bound, NoArgs
  <1>4. AdvertisedPorts
    BY DEF UdpInit, AdvertisedPorts, Running
  <1> QED
    BY <1>2, <1>3, <1>4 DEF UdpInv, UdpInit, NetworkInit

-----------------------------------------------------------------------------
(* The end of a run, for whatever reason, sends nothing.                   *)
LEMMA LeaveKeepsInv ==
  ASSUME UdpInv, NEW r \in Runs, NEW how \in {"done", "usage", "crashed", "interrupted"},
         Leave(r, how), Silent
  PROVE  UdpInv'
  <1> USE DEF UdpInv
  <1>1. UdpTypeOK'
    BY DEF Leave, Goto, Silent, networkVars, UdpTypeOK
  <1>2. \A s \in Runs : Progress(s)'
    BY DEF Leave, Goto, Silent, UdpTypeOK, Progress
  <1>3. \A s \in Runs : Bound(s)'
    BY DEF Leave, Goto, Silent, UdpTypeOK, Bound
  <1>4. \A d \in wire \cup received : Carried(d)'
    BY DEF Leave, Goto, Silent, UdpTypeOK, Carried, Running, Datagrams
  <1>5. AdvertisedPorts'
    BY DEF Leave, Goto, Silent, UdpTypeOK, AdvertisedPorts, Running
  <1> QED
    BY <1>1, <1>2, <1>3, <1>4, <1>5 DEF Silent, networkVars

LEMMA ParseKeepsInv ==
  ASSUME UdpInv, NEW r \in Runs, ParseArguments(r)
  PROVE  UdpInv'
  <1> USE DEF UdpInv
  <1> PICK cmd \in CommandLines[r] :
        \/ /\ CommandLineAccepted(cmd)
           /\ parsed_args' = [parsed_args EXCEPT ![r] = parse_args(cmd)]
           /\ Goto(r, "bind")
           /\ UNCHANGED <<sock, count>>
        \/ /\ ~ CommandLineAccepted(cmd)
           /\ Leave(r, "usage")
    BY DEF ParseArguments
  <1>1. pc[r] = "off" /\ Silent
    BY DEF ParseArguments
  <1>2. CASE Leave(r, "usage")
    BY <1>1, <1>2, LeaveKeepsInv
  <1>3. CASE /\ CommandLineAccepted(cmd)
             /\ parsed_args' = [parsed_args EXCEPT ![r] = parse_args(cmd)]
             /\ Goto(r, "bind")
             /\ UNCHANGED <<sock, count>>
    <2> DEFINE args == parse_args(cmd)
    <2>1. /\ args \in Args
          /\ args.server[2] \in get_unprivileged_port_meta
          /\ args.source_port \in get_unprivileged_port_meta \cup {0}
      BY <1>3, ParsedArgs
    <2>2. parsed_args' = [parsed_args EXCEPT ![r] = args]
      BY <1>3
    <2>3. pc' = [pc EXCEPT ![r] = "bind"] /\ UNCHANGED <<sock, count>>
      BY <1>3 DEF Goto
    <2>4. UNCHANGED <<sent, wire, received>>
      BY <1>1 DEF Silent, networkVars
    <2> HIDE DEF args
    <2>5. UdpTypeOK'
      BY <2>1, <2>2, <2>3, <2>4 DEF UdpTypeOK
    <2>6. sent[r] = <<>> /\ count[r] = 0 /\ sock[r] = NoSocket
      BY <1>1 DEF Progress, Bound
    <2>7. \A s \in Runs : Progress(s)'
      <3> TAKE s \in Runs
      <3>1. CASE s = r
        BY <2>1, <2>2, <2>3, <2>4, <2>6, <3>1 DEF UdpTypeOK, Progress, Args
      <3>2. CASE s # r
        BY <2>2, <2>3, <2>4, <3>2 DEF UdpTypeOK, Progress
      <3> QED
        BY <3>1, <3>2
    <2>8. \A s \in Runs : Bound(s)'
      BY <1>1, <2>2, <2>3, <2>4, <2>6 DEF UdpTypeOK, Bound
    <2>9. \A d \in wire \cup received : Carried(d)'
      BY <1>1, <2>2, <2>3, <2>4, <2>6 DEF UdpTypeOK, Carried, Running, Datagrams
    <2>10. AdvertisedPorts'
      BY <1>1, <2>1, <2>2, <2>3, <2>4, <2>6 DEF UdpTypeOK, AdvertisedPorts, Running
    <2> QED
      BY <2>4, <2>5, <2>7, <2>8, <2>9, <2>10
  <1> QED
    BY <1>2, <1>3

LEMMA SocketKeepsInv ==
  ASSUME UdpInv, NEW r \in Runs, setup_socket(r)
  PROVE  UdpInv'
  <1> USE DEF UdpInv
  <1>1. pc[r] = "bind" /\ Silent
    BY DEF setup_socket
  <1>2. CASE Leave(r, "crashed")
    BY <1>1, <1>2, LeaveKeepsInv
  <1>3. ASSUME NEW s \in Bindable(parsed_args[r]), sock' = [sock EXCEPT ![r] = s],
               Goto(r, "start"), UNCHANGED <<parsed_args, count>>
        PROVE  UdpInv'
    <2>1. parsed_args[r] \in Args
      BY DEF UdpTypeOK
    <2>2. /\ s \in Addresses \X Int
          /\ s # NoSocket
          /\ \A q \in Runs : sock[q] # NoSocket => ~ Conflict(s, sock[q])
          /\ parsed_args[r].source_port = 0 => s[2] \in Ephemeral
          /\ parsed_args[r].source_port # 0 => s[2] = parsed_args[r].source_port
      <3>1. /\ s \in (LocalAddresses \cup {AnyAddress}) \X
                      (IF parsed_args[r].source_port = 0 THEN Ephemeral
                       ELSE {parsed_args[r].source_port})
            /\ \A q \in Runs : sock[q] # NoSocket => ~ Conflict(s, sock[q])
        BY <1>3 DEF Bindable
      <3>2. Ephemeral \subseteq Int
        BY UdpAssumption, PortBounds
      <3> QED
        BY <2>1, <3>1, <3>2, Sentinels DEF Args
    <2>3. \A t \in Addresses \X Int : Conflict(s, t) <=> Conflict(t, s)
      BY <2>2 DEF Conflict
    <2>4. sent[r] = <<>> /\ count[r] = 0 /\ sock[r] = NoSocket
      BY <1>1 DEF Progress, Bound
    <2>5. UNCHANGED <<sent, wire, received, parsed_args, count>>
      BY <1>1, <1>3 DEF Silent, networkVars
    <2>6. UdpTypeOK'
      BY <1>3, <2>2, <2>5 DEF Goto, UdpTypeOK
    <2>7. \A q \in Runs : Progress(q)'
      BY <1>1, <1>3, <2>4, <2>5 DEF Goto, UdpTypeOK, Progress
    <2>8. \A q \in Runs : Bound(q)'
      BY <1>1, <1>3, <2>2, <2>3, <2>4 DEF Goto, UdpTypeOK, Bound
    <2>9. \A d \in wire \cup received : Carried(d)'
      BY <1>1, <1>3, <2>4, <2>5 DEF Goto, UdpTypeOK, Carried, Running, Datagrams
    <2>10. AdvertisedPorts'
      <3>1. parsed_args[r].source_port # 0 =>
              parsed_args[r].source_port \in get_unprivileged_port_meta
        BY <1>1 DEF AdvertisedPorts, Running
      <3> QED
        BY <1>1, <1>3, <2>2, <2>5, <3>1 DEF Goto, UdpTypeOK, AdvertisedPorts, Running
    <2> QED
      BY <2>5, <2>6, <2>7, <2>8, <2>9, <2>10
  <1> QED
    BY <1>2, <1>3 DEF setup_socket

LEMMA MainKeepsInv ==
  ASSUME UdpInv, NEW r \in Runs, main(r)
  PROVE  UdpInv'
  <1> USE DEF UdpInv
  <1>1. pc[r] = "start" /\ Silent
    BY DEF main
  <1>2. CASE Leave(r, "crashed")
    BY <1>1, <1>2, LeaveKeepsInv
  <1>3. CASE Goto(r, "loop") /\ UNCHANGED <<parsed_args, sock, count>>
    <2>1. UNCHANGED <<sent, wire, received, parsed_args, sock, count>>
      BY <1>1, <1>3 DEF Silent, networkVars
    <2>2. sent[r] = <<>> /\ count[r] = 0
      BY <1>1 DEF Progress
    <2>3. UdpTypeOK'
      BY <1>3, <2>1 DEF Goto, UdpTypeOK
    <2>4. \A s \in Runs : Progress(s)' /\ Bound(s)'
      BY <1>1, <1>3, <2>1, <2>2 DEF Goto, UdpTypeOK, Progress, Bound
    <2>5. \A d \in wire \cup received : Carried(d)'
      BY <1>1, <1>3, <2>1 DEF Goto, UdpTypeOK, Carried, Running, Datagrams
    <2>6. AdvertisedPorts'
      BY <1>1, <1>3, <2>1 DEF Goto, UdpTypeOK, AdvertisedPorts, Running
    <2> QED
      BY <2>1, <2>3, <2>4, <2>5, <2>6
  <1> QED
    BY <1>2, <1>3 DEF main

-----------------------------------------------------------------------------
(* A message may be sent from the loop if it is the next of the workload.  *)
NextInWorkload(r, message) ==
  LET args == parsed_args[r]
  IN  /\ message \in Messages
      /\ args.mode = "all_once" =>
           count[r] < Len(args.input_file) /\ message = args.input_file[count[r] + 1]
      /\ args.mode = "random" /\ args.count # None => count[r] < args.count

LEMMA SendKeepsInv ==
  ASSUME UdpInv, NEW r \in Runs, pc[r] = "loop", NEW message,
         NextInWorkload(r, message), send_message(r, message)
  PROVE  UdpInv'
  <1> USE DEF UdpInv
  <1>1. CASE Leave(r, "crashed") /\ Silent
    BY <1>1, LeaveKeepsInv
  <1>2. ASSUME ~ (Leave(r, "crashed") /\ Silent) PROVE UdpInv'
    <2> DEFINE n == Len(sent[r]) + 1
               d == Datagram(r, n, message)
    <2>1. /\ wire' = wire \cup {d}
          /\ sent' = [sent EXCEPT ![r] = Append(@, message)]
          /\ \/ /\ Goto(r, "sleep")
                /\ UNCHANGED sock
             \/ /\ Goto(r, "crashed")
                /\ sock' = [sock EXCEPT ![r] = NoSocket]
          /\ UNCHANGED <<parsed_args, count, received>>
      BY <1>2 DEF send_message, Leave
    <2>2. /\ message \in Messages /\ sent[r] \in Seq(Messages) /\ n \in Nat
          /\ parsed_args[r] \in Args /\ count[r] \in Nat
      <3>1. /\ message \in Messages /\ sent[r] \in Seq(Messages)
            /\ parsed_args[r] \in Args /\ count[r] \in Nat
        BY DEF UdpTypeOK, NextInWorkload
      <3>2. n \in Nat
        BY <3>1
      <3> QED
        BY <3>1, <3>2
    <2>3. /\ sent'[r] = Append(sent[r], message)
          /\ sent'[r] \in Seq(Messages)
          /\ Len(sent'[r]) = n
          /\ sent'[r][n] = message
          /\ \A i \in 1..Len(sent[r]) : sent'[r][i] = sent[r][i]
          /\ sent'[r] # <<>>
      <3>1. sent'[r] = Append(sent[r], message)
        BY <2>1 DEF UdpTypeOK
      <3> HIDE DEF UdpInv
      <3>2. /\ sent'[r] \in Seq(Messages)
            /\ Len(sent'[r]) = n
            /\ sent'[r][n] = message
            /\ \A i \in 1..Len(sent[r]) : sent'[r][i] = sent[r][i]
        BY <2>2, <3>1
      <3>3. sent'[r] # <<>>
        BY <2>2, <3>2
      <3> QED
        BY <3>1, <3>2, <3>3
    <2>4. sock[r] # NoSocket /\ sock[r] \in Addresses \X Int
      BY DEF Bound, UdpTypeOK
    <2>5. /\ d \in Datagrams /\ d.run = r /\ d.n = n /\ d.message = message
          /\ d.from = sock[r]
      BY <2>2, <2>4 DEF Datagram, Datagrams, Args
    <2> HIDE DEF d
    <2>6. UdpTypeOK'
      <3>1. /\ pc' \in [Runs -> {"off", "bind", "start", "loop", "sleep",
                                 "done", "usage", "crashed", "interrupted"}]
            /\ sock' \in [Runs -> (Addresses \X Int) \cup {NoSocket}]
        BY <2>1 DEF Goto, UdpTypeOK
      <3> QED
        BY <2>1, <2>2, <2>3, <2>5, <3>1 DEF UdpTypeOK
    <2>7. ASSUME NEW s \in Runs PROVE Progress(s)'
      <3>1. CASE s = r
        <4>1. pc'[r] \in {"sleep", "crashed"} /\ count'[r] = count[r]
              /\ parsed_args'[r] = parsed_args[r]
          BY <2>1 DEF Goto, UdpTypeOK
        <4> DEFINE list == parsed_args[r].input_file
        <4>2. /\ parsed_args[r].mode # "manual" => Len(sent[r]) = count[r]
              /\ parsed_args[r].mode = "all_once" =>
                   \A i \in 1..Len(sent[r]) : sent[r][i] = list[i]
          BY DEF Progress
        <4>3. /\ list \in Seq(Messages)
              /\ parsed_args[r].count \in Int \cup {None}
          BY <2>2 DEF Args
        <4> HIDE DEF UdpInv, list
        <4>4. ASSUME parsed_args[r].mode = "all_once"
              PROVE  /\ n <= Len(list)
                     /\ \A i \in 1..n : sent'[r][i] = list[i]
          <5>1. count[r] < Len(list) /\ message = list[count[r] + 1]
            BY <4>4 DEF NextInWorkload, list
          <5>2. n = count[r] + 1 /\ n <= Len(list) /\ message = list[n]
            BY <2>2, <4>2, <4>3, <4>4, <5>1
          <5>3. ASSUME NEW i \in 1..n PROVE sent'[r][i] = list[i]
            <6>1. CASE i = n
              BY <2>3, <5>2, <6>1
            <6>2. CASE i # n
              <7>1. i \in 1..Len(sent[r])
                BY <2>2, <6>2
              <7> QED
                BY <2>3, <4>2, <4>4, <7>1
            <6> QED
              BY <6>1, <6>2
          <5> QED
            BY <5>2, <5>3
        <4>5. parsed_args[r].mode = "random" /\ parsed_args[r].count # None =>
                n <= parsed_args[r].count
          BY <2>2, <4>2, <4>3 DEF NextInWorkload
        <4>6. pc'[r] = "sleep" /\ parsed_args[r].mode # "manual" => n = count[r] + 1
          BY <2>2, <4>2
        <4>7. pc'[r] \notin {"off", "bind", "start", "loop"}
          BY <4>1
        <4>8. /\ parsed_args'[r].input_file = list
              /\ parsed_args'[r].mode = parsed_args[r].mode
              /\ parsed_args'[r].count = parsed_args[r].count
          BY <4>1 DEF list
        <4> HIDE DEF n
        <4> QED
          BY <2>3, <3>1, <4>1, <4>4, <4>5, <4>6, <4>7, <4>8 DEF Progress
      <3>2. CASE s # r
        <4>1. /\ pc'[s] = pc[s] /\ sent'[s] = sent[s] /\ count'[s] = count[s]
              /\ parsed_args'[s] = parsed_args[s]
          BY <2>1, <3>2 DEF Goto, UdpTypeOK
        <4>2. Progress(s)
          OBVIOUS
        <4> HIDE DEF UdpInv
        <4> QED
          BY <4>1, <4>2 DEF Progress
      <3> QED
        BY <3>1, <3>2
    <2>8. ASSUME NEW s \in Runs PROVE Bound(s)'
      BY <2>1, <2>4 DEF Goto, UdpTypeOK, Bound
    <2>9. ASSUME NEW e \in wire' \cup received' PROVE Carried(e)'
      <3>1. CASE e = d
        <4>1. Running(r)' => sock'[r] = sock[r]
          BY <2>1 DEF Running, Goto, UdpTypeOK
        <4> HIDE DEF UdpInv
        <4>2. n \in 1..Len(sent'[r])
          BY <2>2, <2>3
        <4> QED
          BY <2>3, <2>5, <3>1, <4>1, <4>2 DEF Carried
      <3>2. CASE e \in wire \cup received
        <4>1. Carried(e) /\ e.run \in Runs /\ e.n \in Nat
          BY <3>2 DEF UdpTypeOK, Datagrams
        <4>2. Len(sent[e.run]) <= Len(sent'[e.run]) /\ sent'[e.run][e.n] = sent[e.run][e.n]
          <5>1. CASE e.run = r
            <6> HIDE DEF UdpInv
            <6>1. e.n \in 1..Len(sent[r])
              BY <4>1, <5>1 DEF Carried
            <6> QED
              BY <2>2, <2>3, <5>1, <6>1
          <5>2. CASE e.run # r
            <6>1. sent'[e.run] = sent[e.run] /\ sent[e.run] \in Seq(Messages)
              BY <2>1, <4>1, <5>2 DEF UdpTypeOK
            <6> QED
              BY <6>1
          <5> QED
            BY <5>1, <5>2
        <4>3. Running(e.run)' => Running(e.run) /\ sock'[e.run] = sock[e.run]
          BY <2>1, <4>1 DEF Running, Goto, UdpTypeOK
        <4>4. Len(sent[e.run]) \in Nat /\ Len(sent'[e.run]) \in Nat
          <5>1. sent[e.run] \in Seq(Messages) /\ sent'[e.run] \in Seq(Messages)
            BY <2>6, <4>1 DEF UdpTypeOK
          <5> HIDE DEF UdpInv
          <5> QED
            BY <5>1
        <4> HIDE DEF UdpInv
        <4>5. e.n \in 1..Len(sent'[e.run]) /\ e.message = sent'[e.run][e.n]
          BY <4>1, <4>2, <4>4 DEF Carried
        <4>6. Running(e.run)' => sock'[e.run] = e.from
          BY <4>1, <4>3 DEF Carried
        <4> QED
          BY <4>5, <4>6 DEF Carried
      <3> QED
        BY <2>1, <3>1, <3>2
    <2>10. AdvertisedPorts'
      BY <2>1 DEF Goto, UdpTypeOK, AdvertisedPorts, Running
    <2> QED
      BY <2>6, <2>7, <2>8, <2>9, <2>10
  <1> QED
    BY <1>1, <1>2

LEMMA AllOnceKeepsInv ==
  ASSUME UdpInv, NEW r \in Runs, run_all_once(r)
  PROVE  UdpInv'
  <1> DEFINE payloads == parsed_args[r].input_file
  <1>1. pc[r] = "loop" /\ parsed_args[r].mode = "all_once"
    BY DEF run_all_once, InLoop
  <1>2. CASE left(payloads, count[r]) /\ send_message(r, payloads[count[r] + 1])
    <2>1. payloads \in Seq(Messages) /\ count[r] \in Nat
      BY DEF UdpInv, UdpTypeOK, Args
    <2>2. NextInWorkload(r, payloads[count[r] + 1])
      BY <1>1, <1>2, <2>1 DEF NextInWorkload, left
    <2> QED
      BY <1>1, <1>2, <2>2, SendKeepsInv
  <1>3. CASE Leave(r, "done") /\ Silent
    BY <1>3, LeaveKeepsInv
  <1> QED
    BY <1>2, <1>3 DEF run_all_once

LEMMA ManualKeepsInv ==
  ASSUME UdpInv, NEW r \in Runs, run_manual(r)
  PROVE  UdpInv'
  <1> DEFINE payloads == parsed_args[r].input_file
  <1>1. pc[r] = "loop" /\ parsed_args[r].mode = "manual"
    BY DEF run_manual, InLoop
  <1>2. ASSUME NEW choice \in Choices, choice \notin {Exit, EndOfInput, NotAnInt},
               choice >= 0, choice < Len(payloads), send_message(r, payloads[choice + 1])
        PROVE  UdpInv'
    <2>1. payloads \in Seq(Messages)
      BY DEF UdpInv, UdpTypeOK, Args
    <2>2. choice \in Int
      BY <1>2, UdpAssumption
    <2>3. NextInWorkload(r, payloads[choice + 1])
      BY <1>1, <1>2, <2>1, <2>2 DEF NextInWorkload
    <2> QED
      BY <1>1, <1>2, <2>3, SendKeepsInv
  <1>3. CASE Silent /\ (Leave(r, "done") \/ Leave(r, "crashed"))
    BY <1>3, LeaveKeepsInv
  <1> QED
    BY <1>2, <1>3 DEF run_manual

LEMMA RandomKeepsInv ==
  ASSUME UdpInv, NEW r \in Runs, run_random(r)
  PROVE  UdpInv'
  <1>1. pc[r] = "loop" /\ parsed_args[r].mode = "random"
    BY DEF run_random, InLoop
  <1>2. ASSUME NEW message \in Range(parsed_args[r].input_file),
               random_continues(parsed_args[r], count[r]), send_message(r, message)
        PROVE  UdpInv'
    <2>1. parsed_args[r].input_file \in Seq(Messages)
      BY DEF UdpInv, UdpTypeOK, Args
    <2>2. message \in Messages
      BY <2>1 DEF Range
    <2>3. NextInWorkload(r, message)
      BY <1>1, <1>2, <2>2 DEF NextInWorkload, random_continues
    <2> QED
      BY <1>1, <1>2, <2>3, SendKeepsInv
  <1>3. CASE Silent /\ (Leave(r, "done") \/ Leave(r, "crashed"))
    BY <1>3, LeaveKeepsInv
  <1> QED
    BY <1>2, <1>3 DEF run_random

LEMMA WakeUpKeepsInv ==
  ASSUME UdpInv, NEW r \in Runs, WakeUp(r)
  PROVE  UdpInv'
  <1> USE DEF UdpInv
  <1>1. /\ pc[r] = "sleep"
        /\ pc' = [pc EXCEPT ![r] = "loop"]
        /\ count' = [count EXCEPT ![r] = IF parsed_args[r].mode = "manual" THEN @ ELSE @ + 1]
        /\ UNCHANGED <<parsed_args, sock, sent, wire, received>>
    BY DEF WakeUp, Goto, Silent, networkVars
  <1>2. UdpTypeOK'
    BY <1>1 DEF UdpTypeOK
  <1>3. \A s \in Runs : Progress(s)'
    BY <1>1 DEF UdpTypeOK, Progress
  <1>4. \A s \in Runs : Bound(s)'
    BY <1>1 DEF UdpTypeOK, Bound
  <1>5. \A d \in wire \cup received : Carried(d)'
    BY <1>1 DEF UdpTypeOK, Carried, Running, Datagrams
  <1>6. AdvertisedPorts'
    BY <1>1 DEF UdpTypeOK, AdvertisedPorts, Running
  <1> QED
    BY <1>1, <1>2, <1>3, <1>4, <1>5, <1>6

LEMMA NetworkKeepsInv ==
  ASSUME UdpInv, NEW d \in wire, Deliver(d) \/ Duplicate(d) \/ Lose(d), UNCHANGED procVars
  PROVE  UdpInv'
  <1>1. wire' \subseteq wire /\ received' \subseteq received \cup {d}
    BY DEF Deliver, Duplicate, Lose
  <1>2. UNCHANGED <<pc, parsed_args, sock, count, sent>>
    BY DEF procVars
  <1> QED
    BY <1>1, <1>2 DEF UdpInv, UdpTypeOK, Progress, Bound, Carried, AdvertisedPorts,
                      Running

LEMMA UdpStepInv == UdpInv /\ [UdpNext]_udpVars => UdpInv'
  <1> SUFFICES ASSUME UdpInv, [UdpNext]_udpVars PROVE UdpInv'
    OBVIOUS
  <1>1. CASE UNCHANGED udpVars
    BY <1>1 DEF udpVars, procVars, networkVars, UdpInv, UdpTypeOK, Progress, Bound,
                Carried, AdvertisedPorts, Running
  <1>2. ASSUME NEW r \in Runs, ParseArguments(r) PROVE UdpInv'
    BY <1>2, ParseKeepsInv
  <1>3. ASSUME NEW r \in Runs, RunStep(r) PROVE UdpInv'
    BY <1>3, SocketKeepsInv, MainKeepsInv, AllOnceKeepsInv, RandomKeepsInv, WakeUpKeepsInv
       DEF RunStep
  <1>4. ASSUME NEW r \in Runs, run_manual(r) PROVE UdpInv'
    BY <1>4, ManualKeepsInv
  <1>5. ASSUME NEW r \in Runs, Interrupt(r) PROVE UdpInv'
    BY <1>5, LeaveKeepsInv DEF Interrupt
  <1>6. CASE Deliveries
    BY <1>6, NetworkKeepsInv DEF Deliveries
  <1>7. CASE \E d \in wire : (Duplicate(d) \/ Lose(d)) /\ UNCHANGED procVars
    BY <1>7, NetworkKeepsInv
  <1> QED
    BY <1>1, <1>2, <1>3, <1>4, <1>5, <1>6, <1>7 DEF UdpNext

(* Where a run is in its workload, its socket and the datagrams on their  *)
(* way fit together at all times (udp_client.py as a whole).               *)
THEOREM UdpInvariant == UdpSpec => []UdpInv
  <1> QED
    BY UdpInitInv, UdpStepInv, PTL DEF UdpSpec

(* The state of every run and of the network has its type.                 *)
THEOREM UdpTypes == UdpSpec => []UdpTypeOK
  <1>1. UdpInv => UdpTypeOK
    BY DEF UdpInv
  <1> QED
    BY <1>1, UdpInvariant, PTL

(* No port outside the range of the usage message gets past the parser     *)
(* (unprivileged_port_type(), setup_socket()).                             *)
THEOREM OnlyAdvertisedPorts == UdpSpec => []AdvertisedPorts
  <1>1. UdpInv => AdvertisedPorts
    BY DEF UdpInv
  <1> QED
    BY <1>1, UdpInvariant, PTL

LEMMA CarriedFromRun ==
  ASSUME UdpInv, NEW d \in wire \cup received
  PROVE  d.run \in Runs /\ Carried(d)
  BY DEF UdpInv, UdpTypeOK, Datagrams

(* A datagram of a run that lasts has that run's source address, and no    *)
(* other run's, however many runs come and go (setup_socket(),             *)
(* send_message()).                                                        *)
THEOREM SourceAddresses == UdpSpec => []SourceNamesRun
  <1>1. UdpInv => SourceNamesRun
    <2> SUFFICES ASSUME UdpInv, NEW d \in wire \cup received, Running(d.run)
                 PROVE  /\ sock[d.run] = d.from
                        /\ \A r \in Runs \ {d.run} :
                             sock[r] # NoSocket => ~ Conflict(sock[r], d.from)
      BY DEF SourceNamesRun
    <2>1. d.run \in Runs /\ sock[d.run] = d.from
      BY CarriedFromRun DEF Carried
    <2>2. pc[d.run] \in {"start", "loop", "sleep"}
      <3>1. d.n \in 1..Len(sent[d.run]) /\ sent[d.run] \in Seq(Messages)
        BY <2>1, CarriedFromRun DEF Carried, UdpInv, UdpTypeOK
      <3>2. sent[d.run] # <<>>
        BY <3>1
      <3> QED
        BY <2>1, <3>2 DEF Running, UdpInv, Progress
    <2>3. sock[d.run] # NoSocket
      BY <2>1, <2>2 DEF UdpInv, Bound
    <2> QED
      BY <2>1, <2>3 DEF UdpInv, Bound
  <1> QED
    BY <1>1, UdpInvariant, PTL

(* The n-th datagram of a run in the mode all_once is the n-th entry of    *)
(* its file (run_all_once()).                                              *)
THEOREM EntriesInOrder == UdpSpec => []ListInOrder
  <1>1. UdpInv => ListInOrder
    <2> SUFFICES ASSUME UdpInv, NEW d \in wire \cup received,
                        parsed_args[d.run].mode = "all_once"
                 PROVE  /\ d.n \in DOMAIN parsed_args[d.run].input_file
                        /\ d.message = parsed_args[d.run].input_file[d.n]
      BY DEF ListInOrder
    <2> DEFINE list == parsed_args[d.run].input_file
    <2>1. /\ d.run \in Runs /\ d.n \in 1..Len(sent[d.run])
          /\ d.message = sent[d.run][d.n]
      BY CarriedFromRun DEF Carried
    <2>2. /\ Len(sent[d.run]) <= Len(list)
          /\ \A i \in 1..Len(sent[d.run]) : sent[d.run][i] = list[i]
      BY <2>1 DEF UdpInv, Progress
    <2>3. list \in Seq(Messages) /\ sent[d.run] \in Seq(Messages)
      BY <2>1 DEF UdpInv, UdpTypeOK, Args
    <2>4. d.n \in 1..Len(list)
      BY <2>1, <2>2, <2>3
    <2> QED
      BY <2>1, <2>2, <2>3, <2>4
  <1> QED
    BY <1>1, UdpInvariant, PTL

-----------------------------------------------------------------------------
(***************************************************************************)
(* UdpClient implements LoadGenerator: its initial states map to initial   *)
(* states, and every step to a step of one run or to a stutter.            *)
(***************************************************************************)
LEMMA WorkloadTypes ==
  ASSUME UdpTypeOK, NEW r \in Runs
  PROVE  LoadWorkload(r) \in Load!Workloads
  BY DEF UdpTypeOK, Args, LoadWorkload, Load!Workloads, Modes

LEMMA InitRefines == UdpInit => Load!LoadInit
  <1> SUFFICES ASSUME UdpInit PROVE Load!LoadInit
    OBVIOUS
  <1>1. UdpTypeOK
    BY UdpInitInv DEF UdpInv
  <1>2. [r \in Runs |-> LoadState(r)] = [r \in Runs |-> "idle"]
    BY DEF UdpInit, LoadState
  <1>3. [r \in Runs |-> LoadWorkload(r)] \in [Runs -> Load!Workloads]
    BY <1>1, WorkloadTypes
  <1>4. sent = [r \in Runs |-> <<>>]
    BY DEF UdpInit
  <1> QED
    BY <1>2, <1>3, <1>4 DEF Load!LoadInit

(* What the abstract specification sees of a step of one run.              *)
LEMMA OneRunMoves ==
  ASSUME UdpTypeOK, NEW r \in Runs, NEW place, Goto(r, place)
  PROVE  [s \in Runs |-> LoadState(s)]' =
           [[s \in Runs |-> LoadState(s)] EXCEPT ![r] = LoadState(r)']
  BY DEF Goto, UdpTypeOK, LoadState, Running

LEMMA LeaveFails ==
  ASSUME UdpTypeOK, NEW r \in Runs, pc[r] = "off" \/ Running(r),
         NEW how \in {"usage", "crashed", "interrupted"}, Leave(r, how), UNCHANGED sent
  PROVE  Load!Fail(r)
  <1>1. Goto(r, how) /\ UNCHANGED parsed_args
    BY DEF Leave
  <1>2. LoadState(r) \in {"idle", "active"}
    BY DEF LoadState
  <1>3. LoadState(r)' = "failed"
    BY <1>1 DEF LoadState, Goto, UdpTypeOK, Running
  <1>4. [s \in Runs |-> LoadWorkload(s)]' = [s \in Runs |-> LoadWorkload(s)]
    BY <1>1, Zenon DEF LoadWorkload
  <1> QED
    BY <1>1, <1>2, <1>3, <1>4, OneRunMoves DEF Load!Fail, Load!Become

LEMMA ParseRefines ==
  ASSUME UdpInv, UdpInv', NEW r \in Runs, ParseArguments(r)
  PROVE  Load!LoadNext
  <1>1. UdpTypeOK /\ UdpTypeOK'
    BY DEF UdpInv
  <1>2. pc[r] = "off" /\ UNCHANGED sent
    BY DEF ParseArguments, Silent
  <1>3. CASE Leave(r, "usage")
    BY <1>1, <1>2, <1>3, LeaveFails DEF Load!LoadNext
  <1>4. ASSUME NEW cmd \in CommandLines[r],
               parsed_args' = [parsed_args EXCEPT ![r] = parse_args(cmd)], Goto(r, "bind")
        PROVE  Load!LoadNext
    <2> DEFINE w == [s \in Runs |-> LoadWorkload(s)]
    <2>1. LoadState(r) = "idle" /\ LoadState(r)' = "active"
      BY <1>1, <1>2, <1>4 DEF LoadState, Goto, UdpTypeOK, Running
    <2>2. w'[r] \in Load!Workloads
      <3>1. LoadWorkload(r)' \in Load!Workloads
        BY <1>1 DEF UdpTypeOK, Args, LoadWorkload, Load!Workloads, Modes
      <3>2. w'[r] = LoadWorkload(r)'
        OBVIOUS
      <3> QED
        BY <3>1, <3>2
    <2>3. w' = [w EXCEPT ![r] = w'[r]]
      BY <1>1, <1>4 DEF UdpTypeOK, LoadWorkload
    <2>4. [s \in Runs |-> LoadState(s)]' =
            [[s \in Runs |-> LoadState(s)] EXCEPT ![r] = "active"]
      BY <1>1, <1>4, <2>1, OneRunMoves
    <2> QED
      BY <1>2, <2>1, <2>2, <2>3, <2>4 DEF Load!LoadNext, Load!Begin, Load!Become
  <1> QED
    BY <1>3, <1>4 DEF ParseArguments

(* Sending a message the workload allows is one abstract step, whether the *)
(* run goes on or ends because of what happens right after sendto().       *)
LEMMA SendRefines ==
  ASSUME UdpInv, NEW r \in Runs, pc[r] = "loop",
         NEW message \in Range(parsed_args[r].input_file),
         NextInWorkload(r, message), send_message(r, message)
  PROVE  Load!LoadNext
  <1>1. UdpTypeOK /\ Progress(r)
    BY DEF UdpInv
  <1>2. CASE Leave(r, "crashed") /\ Silent
    BY <1>1, <1>2, LeaveFails DEF Load!LoadNext, Silent, Running
  <1>3. ASSUME ~ (Leave(r, "crashed") /\ Silent) PROVE Load!LoadNext
    <2> DEFINE w == [s \in Runs |-> LoadWorkload(s)]
    <2>1. /\ sent' = [sent EXCEPT ![r] = Append(@, message)]
          /\ UNCHANGED parsed_args
          /\ Goto(r, "sleep") \/ Goto(r, "crashed")
      BY <1>3 DEF send_message, Leave
    <2>2. LoadState(r) = "active" /\ LoadState(r)' \in {"active", "failed"}
      BY <1>1, <2>1 DEF LoadState, Goto, UdpTypeOK, Running
    <2>3. message \in Load!Allowed(w[r], sent[r])
      <3>1. /\ w[r].list = parsed_args[r].input_file
            /\ w[r].mode = parsed_args[r].mode
            /\ w[r].packets = parsed_args[r].count
        BY DEF LoadWorkload
      <3>2. message \in Load!Range(parsed_args[r].input_file)
        BY DEF Range, Load!Range
      <3>3. parsed_args[r].mode # "manual" => Len(sent[r]) = count[r]
        BY <1>1 DEF Progress
      <3> HIDE DEF w
      <3> QED
        BY <3>1, <3>2, <3>3 DEF NextInWorkload, Load!Allowed
    <2>4. w' = w
      BY <2>1, Zenon DEF LoadWorkload
    <2>5. [s \in Runs |-> LoadState(s)]' =
            [[s \in Runs |-> LoadState(s)] EXCEPT ![r] = LoadState(r)']
      BY <1>1, <2>1, OneRunMoves
    <2> QED
      BY <2>1, <2>2, <2>3, <2>4, <2>5 DEF Load!LoadNext, Load!Emit, Load!Become
  <1> QED
    BY <1>2, <1>3

(* A run that leaves its loop by itself has sent its whole workload.       *)
LEMMA DoneRefines ==
  ASSUME UdpInv, NEW r \in Runs, pc[r] = "loop", Leave(r, "done"), Silent,
         Load!Complete(LoadWorkload(r), sent[r])
  PROVE  Load!LoadNext
  <1> DEFINE w == [s \in Runs |-> LoadWorkload(s)]
  <1>1. UdpTypeOK /\ Goto(r, "done") /\ UNCHANGED <<parsed_args, sent>>
    BY DEF UdpInv, Leave, Silent
  <1>2. LoadState(r) = "active" /\ LoadState(r)' = "finished"
    BY <1>1 DEF LoadState, Goto, UdpTypeOK, Running
  <1>3. w' = w /\ w[r] = LoadWorkload(r)
    BY <1>1, Zenon DEF LoadWorkload
  <1>4. [s \in Runs |-> LoadState(s)]' =
          [[s \in Runs |-> LoadState(s)] EXCEPT ![r] = "finished"]
    BY <1>1, <1>2, OneRunMoves
  <1> QED
    BY <1>1, <1>2, <1>3, <1>4 DEF Load!LoadNext, Load!Finish, Load!Become

LEMMA AllOnceRefines ==
  ASSUME UdpInv, NEW r \in Runs, run_all_once(r)
  PROVE  Load!LoadNext
  <1> DEFINE list == parsed_args[r].input_file
  <1>1. pc[r] = "loop" /\ parsed_args[r].mode = "all_once"
    BY DEF run_all_once, InLoop
  <1>2. /\ list \in Seq(Messages) /\ sent[r] \in Seq(Messages) /\ count[r] \in Nat
    BY DEF UdpInv, UdpTypeOK, Args
  <1>3. /\ Len(sent[r]) = count[r] /\ Len(sent[r]) <= Len(list)
        /\ \A i \in 1..Len(sent[r]) : sent[r][i] = list[i]
    BY <1>1 DEF UdpInv, Progress
  <1>4. CASE left(list, count[r])
    <2>1. send_message(r, list[count[r] + 1]) /\ count[r] + 1 \in DOMAIN list
      BY <1>2, <1>4 DEF run_all_once, left
    <2>2. /\ NextInWorkload(r, list[count[r] + 1])
          /\ list[count[r] + 1] \in Range(list)
      BY <1>1, <1>2, <1>4, <2>1 DEF NextInWorkload, left, Range
    <2> QED
      BY <1>1, <2>1, <2>2, SendRefines
  <1>5. CASE ~ left(list, count[r])
    <2>1. Leave(r, "done") /\ Silent
      BY <1>5 DEF run_all_once
    <2>2. sent[r] = list
      <3> HIDE DEF list
      <3>1. Len(sent[r]) = Len(list)
        BY <1>2, <1>3, <1>5 DEF left
      <3> QED
        BY <1>2, <1>3, <3>1, SeqEqual
    <2>3. Load!Complete(LoadWorkload(r), sent[r])
      BY <1>1, <2>2 DEF Load!Complete, LoadWorkload
    <2> QED
      BY <1>1, <2>1, <2>3, DoneRefines
  <1> QED
    BY <1>4, <1>5

LEMMA ManualRefines ==
  ASSUME UdpInv, NEW r \in Runs, run_manual(r)
  PROVE  Load!LoadNext
  <1> DEFINE list == parsed_args[r].input_file
  <1>1. pc[r] = "loop" /\ parsed_args[r].mode = "manual"
    BY DEF run_manual, InLoop
  <1>2. list \in Seq(Messages)
    BY DEF UdpInv, UdpTypeOK, Args
  <1>3. CASE Leave(r, "done") /\ Silent
    <2>1. Load!Complete(LoadWorkload(r), sent[r])
      BY <1>1 DEF Load!Complete, LoadWorkload
    <2> QED
      BY <1>1, <1>3, <2>1, DoneRefines
  <1>4. CASE Leave(r, "crashed") /\ Silent
    BY <1>1, <1>4, LeaveFails DEF Load!LoadNext, Silent, Running, UdpInv
  <1>5. ASSUME NEW choice \in Choices, choice \notin {Exit, EndOfInput, NotAnInt},
               choice >= 0, choice < Len(list), send_message(r, list[choice + 1])
        PROVE  Load!LoadNext
    <2>1. choice \in Int
      BY <1>5, UdpAssumption
    <2>2. choice + 1 \in DOMAIN list
      BY <1>2, <1>5, <2>1
    <2>3. list[choice + 1] \in Range(list) /\ list[choice + 1] \in Messages
      BY <1>2, <2>2 DEF Range
    <2>4. NextInWorkload(r, list[choice + 1])
      BY <1>1, <2>3 DEF NextInWorkload
    <2> QED
      BY <1>1, <1>5, <2>3, <2>4, SendRefines
  <1> QED
    BY <1>3, <1>4, <1>5 DEF run_manual

LEMMA RandomRefines ==
  ASSUME UdpInv, NEW r \in Runs, run_random(r)
  PROVE  Load!LoadNext
  <1> DEFINE args == parsed_args[r]
  <1>1. pc[r] = "loop" /\ args.mode = "random"
    BY DEF run_random, InLoop
  <1>2. /\ args.input_file \in Seq(Messages) /\ sent[r] \in Seq(Messages)
        /\ count[r] \in Nat /\ args.count \in Int \cup {None}
    BY DEF UdpInv, UdpTypeOK, Args
  <1>3. /\ Len(sent[r]) = count[r]
        /\ args.count # None /\ sent[r] # <<>> => Len(sent[r]) <= args.count
    BY <1>1 DEF UdpInv, Progress
  <1>4. ASSUME random_continues(args, count[r]),
               NEW message \in Range(args.input_file), send_message(r, message)
        PROVE  Load!LoadNext
    <2>1. message \in Messages
      BY <1>2, <1>4 DEF Range
    <2>2. NextInWorkload(r, message)
      BY <1>1, <1>4, <2>1 DEF NextInWorkload, random_continues
    <2> QED
      BY <1>1, <1>4, <2>2, SendRefines
  <1>5. CASE Leave(r, "crashed") /\ Silent
    BY <1>1, <1>5, LeaveFails DEF Load!LoadNext, Silent, Running, UdpInv
  <1>6. CASE ~ random_continues(args, count[r]) /\ Leave(r, "done") /\ Silent
    <2>1. args.count \in Int /\ count[r] >= args.count /\ args.count # None
      BY <1>2, <1>6 DEF random_continues
    <2>2. sent[r] = <<>> => Len(sent[r]) = 0
      OBVIOUS
    <2>3. Len(sent[r]) = IF args.count > 0 THEN args.count ELSE 0
      <3>1. CASE sent[r] = <<>>
        BY <1>2, <1>3, <2>1, <2>2, <3>1
      <3>2. CASE sent[r] # <<>>
        <4>1. Len(sent[r]) > 0
          BY <1>2, <3>2
        <4> QED
          BY <1>2, <1>3, <2>1, <3>2, <4>1
      <3> QED
        BY <3>1, <3>2
    <2>4. Load!Complete(LoadWorkload(r), sent[r])
      BY <1>1, <2>1, <2>3 DEF Load!Complete, LoadWorkload
    <2> QED
      BY <1>1, <1>6, <2>4, DoneRefines
  <1> QED
    BY <1>4, <1>5, <1>6 DEF run_random

LEMMA StepRefines ==
  ASSUME UdpInv, UdpInv', [UdpNext]_udpVars
  PROVE  [Load!LoadNext]_(Load!abstractVars)
  <1> DEFINE Same == UNCHANGED <<[r \in Runs |-> LoadState(r)], [r \in Runs |-> LoadWorkload(r)], sent>>
  <1>1. ASSUME Same PROVE [Load!LoadNext]_(Load!abstractVars)
    BY <1>1 DEF Load!abstractVars
  <1>2. ASSUME UNCHANGED <<pc, parsed_args, sent>> PROVE Same
    <2>1. \A r \in Runs : LoadState(r)' = LoadState(r) /\ LoadWorkload(r)' = LoadWorkload(r)
      BY <1>2 DEF LoadState, LoadWorkload, Running
    <2> QED
      BY <1>2, <2>1, Zenon
  <1>3. ASSUME NEW r \in Runs, NEW place \in {"start", "loop"}, Running(r), Goto(r, place),
               UNCHANGED <<parsed_args, sent>>
        PROVE  Same
    <2>1. LoadState(r) = "active" /\ LoadState(r)' = "active"
      BY <1>3 DEF LoadState, Goto, UdpTypeOK, Running, UdpInv
    <2>2. [s \in Runs |-> LoadState(s)]' = [s \in Runs |-> LoadState(s)]
      BY <1>3, <2>1, OneRunMoves DEF UdpInv
    <2>3. [s \in Runs |-> LoadWorkload(s)]' = [s \in Runs |-> LoadWorkload(s)]
      BY <1>3, Zenon DEF LoadWorkload
    <2> QED
      BY <1>3, <2>2, <2>3
  <1> HIDE DEF Same
  <1>4. ASSUME NEW r \in Runs, setup_socket(r) \/ main(r)
        PROVE  Same \/ Load!LoadNext
    <2>1. CASE Leave(r, "crashed")
      BY <1>4, <2>1, LeaveFails
         DEF setup_socket, main, Silent, Running, UdpInv, Load!LoadNext
    <2>2. CASE ~ Leave(r, "crashed")
      BY <1>3, <1>4, <2>2 DEF setup_socket, main, Silent, Running
    <2> QED
      BY <2>1, <2>2
  <1>5. ASSUME NEW r \in Runs, WakeUp(r) PROVE Same
    BY <1>3, <1>5 DEF WakeUp, Silent, Running
  <1>6. ASSUME NEW r \in Runs, Interrupt(r) PROVE Load!LoadNext
    BY <1>6, LeaveFails DEF Interrupt, Silent, UdpInv, Load!LoadNext
  <1>7. ASSUME NEW r \in Runs, RunStep(r) PROVE Same \/ Load!LoadNext
    BY <1>4, <1>5, <1>7, AllOnceRefines, RandomRefines DEF RunStep
  <1>8. CASE Deliveries \/ UNCHANGED udpVars
             \/ \E d \in wire : (Duplicate(d) \/ Lose(d)) /\ UNCHANGED procVars
    BY <1>1, <1>2, <1>8 DEF Deliveries, udpVars, procVars
  <1> QED
    BY <1>1, <1>6, <1>7, <1>8, ParseRefines, ManualRefines DEF UdpNext

(* The UDP client does what its help says of its modes: a run that ends by *)
(* itself has sent its whole workload, any other run a beginning of it.    *)
THEOREM UdpClientImplementsLoad == UdpSpec => KeepsPromise
  <1>1. UdpInv /\ UdpInv' /\ [UdpNext]_udpVars => [Load!LoadNext]_(Load!abstractVars)
    BY StepRefines
  <1> QED
    BY <1>1, InitRefines, UdpInvariant, PTL DEF UdpSpec, KeepsPromise, Load!LoadSpec
=============================================================================
