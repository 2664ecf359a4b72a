----------------------------- MODULE Protocols -----------------------------
(***************************************************************************)
(* The command codes of the protocol over TCP (protocols.h).  A message is *)
(* a record; its length and the bytes of its payload are abstracted, its   *)
(* command is the number the code sends, because a message that was never  *)
(* received is a zeroed structure whose command reads as CONNECT_REQ.      *)
(***************************************************************************)
EXTENDS Integers

CONNECT_REQ      == 0
CONNECT_ACCEPTED == 1
CONNECT_DENIED   == 2
SUBSCRIBE_REQ    == 3
UNSUBSCRIBE_REQ  == 4
SUBSCRIBE_SUCC   == 5
SUBSCRIBE_FAIL   == 6
UNSUBSCRIBE_SUCC == 7
UNSUBSCRIBE_FAIL == 8
MSG_FROM_UDP     == 9

Answers == {SUBSCRIBE_SUCC, SUBSCRIBE_FAIL, UNSUBSCRIBE_SUCC, UNSUBSCRIBE_FAIL}

(* Client to server: payload is an id (CONNECT_REQ) or a topic.            *)
Request(command, payload) == [command |-> command, payload |-> payload]

(* Server to client.  Only MSG_FROM_UDP has a payload in the code; the     *)
(* topic of an answer and n, the position of a datagram in the order of    *)
(* arrival, are history that no action reads.                              *)
Reply(command, topic, n) == [command |-> command, topic |-> topic, n |-> n]
=============================================================================
