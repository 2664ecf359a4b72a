------------------------------ MODULE Payload -------------------------------
(***************************************************************************)
(* The contents of a datagram as the server prints them                    *)
(* (interpret_udp_payload()).  A printed number is an integer and how many *)
(* of its digits stand behind the point; its digits themselves, and the    *)
(* ten or fewer of them a double holds exactly, are left out.              *)
(***************************************************************************)
EXTENDS Integers

CONSTANTS
  Half,       \* 2^31: a uint32_t has 2 * Half values
  Unsupported \* what is printed for a data type that is not supported

ASSUME PayloadAssumption == Half \in Nat \ {0}

uint32_t == 0..(2 * Half - 1)

(* "%d" of a uint32_t.                                                     *)
AsInt(number) == IF number < Half THEN number ELSE number - 2 * Half

(* Mutant: negated and printed without a 32-bit word in between.           *)
NegatedOff(number) == 2 * Half - 1 - number

(* number *= -1 on a uint32_t.                                             *)
Negated(number) == IF number = 0 THEN 0 ELSE 2 * Half - number

(* The numbers of a payload: its sign byte, its digits and, for a FLOAT,   *)
(* the negative power of ten.  The sign of zero is printed by FLOAT only.  *)
INT(p) == [kind |-> "INT",
           num |-> AsInt(IF p.sign = 1 THEN Negated(p.number) ELSE p.number),
           minus |-> FALSE, decimals |-> 0]

SHORT_REAL(p) == [kind |-> "SHORT_REAL", num |-> p.number, minus |-> FALSE, decimals |-> 2]

FLOAT(p) == [kind |-> "FLOAT",
             num |-> IF p.sign = 1 THEN - p.number ELSE p.number,
             minus |-> p.sign = 1 /\ p.number = 0, decimals |-> p.power]

STRING_(p) == [kind |-> "STRING", text |-> p.text]

interpret_udp_payload(p) ==
  IF p.data_type = 0 THEN INT(p)
  ELSE IF p.data_type = 1 THEN SHORT_REAL(p)
  ELSE IF p.data_type = 2 THEN FLOAT(p)
  ELSE IF p.data_type = 3 THEN STRING_(p)
  ELSE Unsupported
=============================================================================
