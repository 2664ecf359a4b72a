--------------------------- MODULE UdpProperties ----------------------------
(***************************************************************************)
(* What is checked and proved of the UDP clients.                          *)
(***************************************************************************)
EXTENDS UdpClient

Args == [input_file : Seq(Messages), server : Addresses \X Int,
         source_address : Addresses, source_port : Int, mode : Modes,
         count : Int \cup {None}, delay : Int]

Datagrams == [run : Runs, n : Nat, from : Addresses \X Int, to : Addresses \X Int,
              message : Messages]

UdpTypeOK ==
  /\ pc \in [Runs -> {"off", "bind", "start", "loop", "sleep",
                      "done", "usage", "crashed", "interrupted"}]
  /\ parsed_args \in [Runs -> Args]
  /\ sock \in [Runs -> (Addresses \X Int) \cup {NoSocket}]
  /\ count \in [Runs -> Nat]
  /\ sent \in [Runs -> Seq(Messages)]
  /\ wire \subseteq Datagrams
  /\ received \subseteq Datagrams

-----------------------------------------------------------------------------
(* Every port a run uses is one its usage message names, except a source   *)
(* port it left to the kernel: no other number gets through the parser     *)
(* (setup_parser(), unprivileged_port_type()) to bind() or sendto().       *)
AdvertisedPorts ==
  \A r \in Runs :
    /\ Running(r) =>
         /\ parsed_args[r].server[2] \in get_unprivileged_port_meta
         /\ parsed_args[r].source_port \in get_unprivileged_port_meta \cup {0}
    /\ sock[r] # NoSocket =>
         /\ parsed_args[r].source_port = 0 => sock[r][2] \in Ephemeral
         /\ parsed_args[r].source_port # 0 => sock[r][2] = parsed_args[r].source_port

(* While a run lasts, the source address in its datagrams, which the       *)
(* server puts in front of what it forwards, is its own: it had it when it *)
(* sent the first and has it still, and no other run has one that the      *)
(* kernel could confuse with it (setup_socket(), send_message()).          *)
SourceNamesRun ==
  \A d \in wire \cup received :
    Running(d.run) =>
      /\ sock[d.run] = d.from
      /\ \A r \in Runs \ {d.run} : sock[r] # NoSocket => ~ Conflict(sock[r], d.from)

(* The n-th datagram of a run in the mode all_once carries the n-th entry  *)
(* of its file, whatever the network does with it and however the run ends *)
(* (run_all_once()).                                                       *)
ListInOrder ==
  \A d \in wire \cup received :
    parsed_args[d.run].mode = "all_once" =>
      /\ d.n \in DOMAIN parsed_args[d.run].input_file
      /\ d.message = parsed_args[d.run].input_file[d.n]

(* A run with a finite workload ends: the whole file once, or a number of  *)
(* messages; manual runs wait for their users (run_all_once(),             *)
(* run_random()).                                                          *)
FiniteWorkload(r) ==
  \/ parsed_args[r].mode = "all_once"
  \/ parsed_args[r].mode = "random" /\ parsed_args[r].count # None

FiniteRunsEnd ==
  \A r \in Runs : Running(r) /\ FiniteWorkload(r) ~> Ended(r)

(* Over a network that loses nothing the server gets every entry of the    *)
(* file of a run in the mode all_once that ended by itself.                *)
Arrived(r) ==
  {d.message : d \in {e \in received : e.run = r}}

EverythingArrives ==
  \A r \in Runs :
    pc[r] = "done" /\ parsed_args[r].mode = "all_once"
                   /\ parsed_args[r].server = ServerAddress
      ~> Range(parsed_args[r].input_file) = Arrived(r)

-----------------------------------------------------------------------------
(* The abstract specification: a run is active from the moment its command *)
(* line is accepted.                                                       *)
LoadState(r) ==
  IF pc[r] = "off" THEN "idle"
  ELSE IF Running(r) THEN "active"
  ELSE IF pc[r] = "done" THEN "finished" ELSE "failed"

LoadWorkload(r) ==
  [mode |-> parsed_args[r].mode, list |-> parsed_args[r].input_file,
   packets |-> parsed_args[r].count]

Load == INSTANCE LoadGenerator WITH
          state <- [r \in Runs |-> LoadState(r)],
          workload <- [r \in Runs |-> LoadWorkload(r)]

(* The program keeps the promise of its modes: what a run has sent is a    *)
(* beginning of its workload, and all of it if the run ends by itself      *)
(* (main() and the functions of the three modes).                          *)
KeepsPromise == Load!LoadSpec

-----------------------------------------------------------------------------
(* The inductive invariant: where a run is in its workload, what its       *)
(* socket is then, and that the network carries only what was given to it. *)
Progress(r) ==
  LET args == parsed_args[r]
  IN  /\ pc[r] \in {"off", "bind", "start"} => sent[r] = <<>> /\ count[r] = 0
      /\ args.mode # "manual" =>
           /\ pc[r] = "loop" => Len(sent[r]) = count[r]
           /\ pc[r] = "sleep" => Len(sent[r]) = count[r] + 1
      /\ args.mode = "all_once" =>
           /\ Len(sent[r]) <= Len(args.input_file)
           /\ \A i \in 1..Len(sent[r]) : sent[r][i] = args.input_file[i]
      /\ args.mode = "random" /\ args.count # None /\ sent[r] # <<>> =>
           Len(sent[r]) <= args.count

Bound(r) ==
  /\ sock[r] # NoSocket <=> pc[r] \in {"start", "loop", "sleep"}
  /\ \A s \in Runs \ {r} :
       sock[r] # NoSocket /\ sock[s] # NoSocket => ~ Conflict(sock[r], sock[s])

Carried(d) ==
  /\ d.n \in 1..Len(sent[d.run])
  /\ d.message = sent[d.run][d.n]
  /\ Running(d.run) => sock[d.run] = d.from

UdpInv ==
  /\ UdpTypeOK
  /\ \A r \in Runs : Progress(r) /\ Bound(r)
  /\ \A d \in wire \cup received : Carried(d)
  /\ AdvertisedPorts

=============================================================================
