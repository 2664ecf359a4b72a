------------------------------- MODULE MCUdp --------------------------------
EXTENDS UdpProperties, TLC

CONSTANTS u1, u2, host, v6, server

Entry(name, fault) == [name |-> name, fault |-> fault]

MCFile ==
  ("sample_payloads.json" :> <<Entry("m1", "none"), Entry("m2", "none")>>)
    @@ ("empty.json" :> <<>>)
    @@ ("one.json" :> <<Entry("m1", "none")>>)
    @@ ("badpayload.json" :> <<Entry("m1", "none"), Entry("m3", "payload")>>)
    @@ ("nodescription.json" :> <<Entry("m4", "description"), Entry("m1", "none")>>)

(* Those of the first run.                                                 *)
Files == DOMAIN MCFile \ {"one.json"}

MCServer == <<server, 8080>>

(* A command line that gives only what argparse requires, and variations.  *)
Plain == [input_file |-> Absent, server_ip |-> server, server_port |-> 8080,
          source_address |-> Absent, source_port |-> Absent, mode |-> Absent,
          count |-> Absent, delay |-> Absent]

Random(n) == [Plain EXCEPT !.mode = "random", !.count = n]

(* Ports at both ends of the range and beyond, one taken by two runs, all  *)
(* kinds of values argparse refuses.                                       *)
PortLines ==
  {Plain} \cup {[Plain EXCEPT !.source_port = v] : v \in {0, 1023, 1024, 65535, 65536, NotAnInt}}
          \cup {[Plain EXCEPT !.server_port = v] : v \in {1023, 1024, NotAnInt}}
          \cup {[Plain EXCEPT !.source_address = a, !.source_port = 1024] : a \in {host, v6}}

FaultLines ==
  {[Plain EXCEPT !.input_file = f] : f \in Files \cup {"missing.json"}}
    \cup {[Random(1) EXCEPT !.input_file = f] : f \in Files}
    \cup {[Plain EXCEPT !.mode = "manual", !.input_file = f] : f \in Files}
    \cup {[Plain EXCEPT !.delay = d] : d \in {-1, 3, NotAnInt}}
    \cup {[Plain EXCEPT !.server_ip = v6], [Plain EXCEPT !.mode = "once"],
          Random(NotAnInt)}

LoadLines ==
  {Random(n) : n \in {Absent, -1, 0, 2}}
    \cup {[Plain EXCEPT !.delay = 2], [Random(2) EXCEPT !.delay = 1],
          [Plain EXCEPT !.mode = "manual", !.delay = 1]}

(* A second run at the same time shares the network and the ports.         *)
OtherLines == {[Plain EXCEPT !.input_file = "one.json", !.source_port = 1024]}

MCLines ==
  [r \in Runs |-> IF r = u1 THEN PortLines \cup FaultLines \cup LoadLines ELSE OtherLines]

MCChoices == {-1, 0, 1, 2, NotAnInt, Exit, EndOfInput}

MCEphemeral == {1024, 32768}
=============================================================================
