----------------------------- MODULE UdpClient ------------------------------
(***************************************************************************)
(* The load generator (udp_client.py): a process that parses its command   *)
(* line, binds a UDP socket and sends the payloads of a JSON file to the   *)
(* server, each of them once, as the user chooses or at random.  Several   *)
(* runs of it share the ports of one host.                                 *)
(*                                                                         *)
(* A step is what a run does between two points where it may block, be     *)
(* interrupted or affect another run: the parsing, bind(), the start of    *)
(* the mode, each message with its sendto(), and the end of each sleep.    *)
(***************************************************************************)
EXTENDS UnprivPort, UdpNetwork

CONSTANTS
  Runs,           \* executions of the program
  CommandLines,   \* what the user of each run may type after its name
  Absent,         \* an option that is not given
  File,           \* the JSON files that exist and parse, by name
  Addresses,      \* those ip_address() accepts
  InetAddresses,  \* the IPv4 ones among them
  LocalAddresses, \* those bind() accepts
  AnyAddress,     \* 0.0.0.0
  Ephemeral,      \* the ports the kernel chooses from
  NoSocket,
  Choices,        \* what users answer to the prompt of the manual mode
  Exit, EndOfInput,
  None,           \* no --count: no end
  MaxSleep,       \* the longest --delay that sleep() takes
  MaxSent         \* bound: the datagrams one run sends

(* An entry of the file is a name and what is wrong with it: nothing, its  *)
(* payload (missing, not base64 or longer than a datagram), or a missing   *)
(* description.                                                            *)
Messages == [name : STRING, fault : {"none", "payload", "description"}]

Words == Int \cup {NotAnInt, Absent}

ASSUME UdpAssumption ==
  /\ \A r \in Runs : CommandLines[r] \subseteq
       [input_file : STRING \cup {Absent}, server_ip : Addresses,
        server_port : Int \cup {NotAnInt}, source_address : Addresses \cup {Absent},
        source_port : Words, mode : STRING \cup {Absent}, count : Words, delay : Words]
  /\ Absent \notin Int /\ None \notin Int
  /\ \A f \in DOMAIN File : File[f] \in Seq(Messages)
  /\ ServerAddress \in Addresses \X Int
  /\ LocalAddresses \cup {AnyAddress} \subseteq Addresses
  /\ Ephemeral \subseteq 1..MAX_VALUE
  /\ NoSocket \notin Addresses \X Int
  /\ Choices \subseteq Int \cup {NotAnInt, Exit, EndOfInput}
  /\ MaxSleep \in Nat /\ MaxSent \in Nat

VARIABLES
  pc,             \* where each run is:
                  \*   "off"    not started
                  \*   "bind"   the command line is parsed
                  \*   "start"  the socket is bound
                  \*   "loop"   in the loop of its mode
                  \*   "sleep"  in send_message, after sendto()
                  \* or how it ended:
                  \*   "done", "usage" (refused by argparse), "crashed" (an
                  \*   exception nobody catches), "interrupted" (Ctrl-C)
  parsed_args,    \* the namespace parse_args() returns
  sock,           \* <<ip, port>> of its socket
  count,          \* iterations its loop has finished
  sent            \* history: the messages it gave to sendto()

procVars == <<pc, parsed_args, sock, count, sent>>
udpVars  == <<procVars, networkVars>>

Modes == {"all_once", "manual", "random"}

Running(r) == pc[r] \in {"bind", "start", "loop", "sleep"}
Ended(r)   == pc[r] \in {"done", "usage", "crashed", "interrupted"}

NoArgs == [input_file |-> <<>>, server |-> ServerAddress, source_address |-> AnyAddress,
           source_port |-> 0, mode |-> "all_once", count |-> None, delay |-> 0]

UdpInit ==
  /\ NetworkInit
  /\ pc = [r \in Runs |-> "off"]
  /\ parsed_args = [r \in Runs |-> NoArgs]
  /\ sock = [r \in Runs |-> NoSocket]
  /\ count = [r \in Runs |-> 0]
  /\ sent = [r \in Runs |-> <<>>]

Goto(r, place) == pc' = [pc EXCEPT ![r] = place]

(* The process ends and the kernel closes its socket.                      *)
Leave(r, how) ==
  /\ Goto(r, how)
  /\ sock' = [sock EXCEPT ![r] = NoSocket]
  /\ UNCHANGED <<parsed_args, count>>

Silent == UNCHANGED <<sent, networkVars>>

-----------------------------------------------------------------------------
(* setup_parser() and parse_args().  A default that is a string goes       *)
(* through the type function as well, so the default file must exist; the  *)
(* default source port is a number and does not: 0 cannot be typed.        *)
input_file(cmd) ==
  IF cmd.input_file = Absent THEN "sample_payloads.json" ELSE cmd.input_file

source_port(cmd) ==
  IF cmd.source_port = Absent THEN 0 ELSE unprivileged_port_type(cmd.source_port)

(* Mutant: the server's port is not checked.                               *)
AcceptedWithAnyPort(cmd) ==
  /\ input_file(cmd) \in DOMAIN File
  /\ source_port(cmd) # Refused
  /\ cmd.mode \in Modes \cup {Absent}
  /\ cmd.count # NotAnInt
  /\ cmd.delay # NotAnInt

CommandLineAccepted(cmd) ==
  /\ input_file(cmd) \in DOMAIN File
  /\ unprivileged_port_type(cmd.server_port) # Refused
  /\ source_port(cmd) # Refused
  /\ cmd.mode \in Modes \cup {Absent}
  /\ cmd.count # NotAnInt
  /\ cmd.delay # NotAnInt

parse_args(cmd) ==
  [input_file     |-> File[input_file(cmd)],
   server         |-> <<cmd.server_ip, unprivileged_port_type(cmd.server_port)>>,
   source_address |-> IF cmd.source_address = Absent THEN AnyAddress ELSE cmd.source_address,
   source_port    |-> source_port(cmd),
   mode           |-> IF cmd.mode = Absent THEN "all_once" ELSE cmd.mode,
   count          |-> IF cmd.count = Absent THEN None ELSE cmd.count,
   delay          |-> IF cmd.delay = Absent THEN 0 ELSE cmd.delay]

ParseArguments(r) ==
  /\ pc[r] = "off"
  /\ \E cmd \in CommandLines[r] :
       \/ /\ CommandLineAccepted(cmd)
          /\ parsed_args' = [parsed_args EXCEPT ![r] = parse_args(cmd)]
          /\ Goto(r, "bind")
          /\ UNCHANGED <<sock, count>>
       \/ /\ ~ CommandLineAccepted(cmd)
          /\ Leave(r, "usage")
  /\ Silent

-----------------------------------------------------------------------------
(* bind() refuses a port another socket has on the same address, or on all *)
(* of them; for port 0 the kernel takes one that is free.                  *)
Conflict(s, t) ==
  /\ s[2] = t[2]
  /\ s[1] = t[1] \/ AnyAddress \in {s[1], t[1]}

(* Mutant: the socket is opened with SO_REUSEPORT.                         *)
BindableShared(args) ==
  {s \in (LocalAddresses \cup {AnyAddress}) \X
         (IF args.source_port = 0 THEN Ephemeral ELSE {args.source_port}) :
     s[1] = args.source_address}

Bindable(args) ==
  {s \in (LocalAddresses \cup {AnyAddress}) \X
         (IF args.source_port = 0 THEN Ephemeral ELSE {args.source_port}) :
     /\ s[1] = args.source_address
     /\ \A r \in Runs : sock[r] # NoSocket => ~ Conflict(s, sock[r])}

setup_socket(r) ==
  /\ pc[r] = "bind"
  /\ \/ /\ \E s \in Bindable(parsed_args[r]) : sock' = [sock EXCEPT ![r] = s]
        /\ Goto(r, "start")
        /\ UNCHANGED <<parsed_args, count>>
     \/ /\ Bindable(parsed_args[r]) = {}
        /\ Leave(r, "crashed")
  /\ Silent

(* main() enters the function of the mode.  run_manual() lists all the     *)
(* descriptions first, and so fails before its loop if one is missing.     *)
main(r) ==
  LET args == parsed_args[r]
      listed == \A i \in DOMAIN args.input_file : args.input_file[i].fault # "description"
  IN  /\ pc[r] = "start"
      /\ \/ /\ args.mode = "manual" => listed
            /\ Goto(r, "loop")
            /\ UNCHANGED <<parsed_args, sock, count>>
         \/ /\ args.mode = "manual" /\ ~ listed
            /\ Leave(r, "crashed")
      /\ Silent

-----------------------------------------------------------------------------
(* The n-th datagram of run r; r and n are history.                        *)
Datagram(r, n, message) ==
  [run |-> r, n |-> n, from |-> sock[r], to |-> parsed_args[r].server,
   message |-> message]

Sendable(r, message) ==
  message.fault # "payload" /\ parsed_args[r].server[1] \in InetAddresses

(* What can fail fails before sendto(), or after it: a description that is *)
(* not there when the message is printed, a delay that sleep() refuses     *)
(* because it is negative or too long.                                     *)
send_message(r, message) ==
  \/ /\ Sendable(r, message)
     /\ Len(sent[r]) < MaxSent
     /\ wire' = wire \cup {Datagram(r, Len(sent[r]) + 1, message)}
     /\ sent' = [sent EXCEPT ![r] = Append(@, message)]
     /\ IF message.fault = "none" /\ parsed_args[r].delay \in 0..MaxSleep
        THEN /\ Goto(r, "sleep")
             /\ UNCHANGED <<parsed_args, sock, count>>
        ELSE Leave(r, "crashed")
     /\ UNCHANGED received
  \/ /\ ~ Sendable(r, message)
     /\ Leave(r, "crashed")
     /\ Silent

(* Mutant: the counter stays where it is.                                  *)
WakeUpUncounted(r) ==
  /\ pc[r] = "sleep"
  /\ Goto(r, "loop")
  /\ UNCHANGED <<parsed_args, sock, count>>
  /\ Silent

(* The sleep ends, and with it the iteration.  run_manual() counts none;   *)
(* for run_all_once() the count is the position in the list.               *)
WakeUp(r) ==
  /\ pc[r] = "sleep"
  /\ count' = [count EXCEPT ![r] = IF parsed_args[r].mode = "manual" THEN @ ELSE @ + 1]
  /\ Goto(r, "loop")
  /\ UNCHANGED <<parsed_args, sock>>
  /\ Silent

InLoop(r, mode) == pc[r] = "loop" /\ parsed_args[r].mode = mode

(* Mutant: the last entry is left out.                                     *)
left_but_one(payloads, n) == n < Len(payloads) - 1

left(payloads, n) == n < Len(payloads)

run_all_once(r) ==
  LET payloads == parsed_args[r].input_file
  IN  /\ InLoop(r, "all_once")
      /\ \/ /\ left(payloads, count[r])
            /\ send_message(r, payloads[count[r] + 1])
         \/ /\ ~ left(payloads, count[r])
            /\ Leave(r, "done")
            /\ Silent

(* A number that is no option is answered with a hint: no step.            *)
run_manual(r) ==
  LET payloads == parsed_args[r].input_file
  IN  /\ InLoop(r, "manual")
      /\ \E choice \in Choices :
           \/ /\ choice = Exit
              /\ Leave(r, "done")
              /\ Silent
           \/ /\ choice \in {EndOfInput, NotAnInt}
              /\ Leave(r, "crashed")
              /\ Silent
           \/ /\ choice \notin {Exit, EndOfInput, NotAnInt}
              /\ choice >= 0
              /\ choice < Len(payloads)
              /\ send_message(r, payloads[choice + 1])

(* Mutant: the bound is compared after one message too many.               *)
random_continues_late(args, n) == args.count # None => n <= args.count

random_continues(args, n) == args.count # None => n < args.count

(* random.choice() of an empty list raises IndexError.                     *)
run_random(r) ==
  LET args == parsed_args[r]
      more == random_continues(args, count[r])
  IN  /\ InLoop(r, "random")
      /\ \/ /\ more
            /\ args.input_file # <<>>
            /\ \E message \in Range(args.input_file) : send_message(r, message)
         \/ /\ more
            /\ args.input_file = <<>>
            /\ Leave(r, "crashed")
            /\ Silent
         \/ /\ ~ more
            /\ Leave(r, "done")
            /\ Silent

Interrupt(r) ==
  /\ Running(r)
  /\ Leave(r, "interrupted")
  /\ Silent

-----------------------------------------------------------------------------
(* What a run does by itself, without its user.                            *)
RunStep(r) ==
  \/ setup_socket(r)
  \/ main(r)
  \/ run_all_once(r)
  \/ run_random(r)
  \/ WakeUp(r)

Deliveries == (\E d \in wire : Deliver(d)) /\ UNCHANGED procVars

UdpNext ==
  \/ \E r \in Runs : ParseArguments(r) \/ RunStep(r) \/ run_manual(r) \/ Interrupt(r)
  \/ Deliveries
  \/ \E d \in wire : (Duplicate(d) \/ Lose(d)) /\ UNCHANGED procVars
  \/ (\A r \in Runs : Ended(r)) /\ wire = {} /\ UNCHANGED udpVars

UdpSpec == UdpInit /\ [][UdpNext]_udpVars

(* The scheduler runs every process that can run, and every sleep ends.    *)
(* Nobody must start a run, answer its prompt or interrupt it.             *)
UdpFairness == \A r \in Runs : WF_udpVars(RunStep(r))

UdpFairSpec == UdpSpec /\ UdpFairness

(* The network delivers what it does not lose.                             *)
ReliableSpec == UdpFairSpec /\ WF_udpVars(Deliveries)
=============================================================================
