----------------------------- MODULE UdpNetwork -----------------------------
(***************************************************************************)
(* What carries the datagrams of the UDP clients to the server: it may     *)
(* lose, duplicate and reorder them.  None of this is code of the          *)
(* repository: it is what sendto() (udp_client.py) and recvfrom()          *)
(* (Server.cpp) are written against.                                       *)
(***************************************************************************)
EXTENDS Integers, Sequences, FiniteSets, Functions

CONSTANTS
  ServerAddress,  \* <<ip, port>> of the server's UDP socket
  Lossy           \* may datagrams be lost

VARIABLES
  wire,           \* the datagrams on their way
  received        \* those the server's socket got, at least once

networkVars == <<wire, received>>

NetworkInit ==
  /\ wire = {}
  /\ received = {}

(* The order is that of the choices of d.                                  *)
Deliver(d) ==
  /\ d.to = ServerAddress
  /\ received' = received \cup {d}
  /\ wire' = wire \ {d}

(* A copy arrives, another is still on its way.                            *)
Duplicate(d) ==
  /\ d.to = ServerAddress
  /\ received' = received \cup {d}
  /\ UNCHANGED wire

(* Lost on the way, dropped because the server's queue is full, or sent    *)
(* where nobody listens; sendto() reports none of them.                    *)
Lose(d) ==
  /\ Lossy \/ d.to # ServerAddress
  /\ wire' = wire \ {d}
  /\ UNCHANGED received
=============================================================================
