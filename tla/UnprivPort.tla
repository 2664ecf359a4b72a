----------------------------- MODULE UnprivPort -----------------------------
(***************************************************************************)
(* The type of a port on the UDP client's command line (unpriv_port.py):   *)
(* an argparse type function, which returns the port or raises ValueError, *)
(* and the text that names the range in the usage message.                 *)
(***************************************************************************)
EXTENDS Integers

CONSTANTS
  NotAnInt,   \* a word int() refuses
  Refused     \* the ValueError of a type function

ASSUME PortAssumption ==
  /\ NotAnInt \notin Int
  /\ Refused \notin Int

MIN_VALUE == 1024
MAX_VALUE == 65535

(* The default of the parameter min_value repeats the number instead of    *)
(* its name.                                                               *)
min_value == 1024
max_value == MAX_VALUE

(* Mutant: the lower bound is off by one.                                  *)
LaxPortType(value) ==
  IF value # NotAnInt /\ value >= min_value - 1 /\ value <= max_value
  THEN value ELSE Refused

unprivileged_port_type(value) ==
  IF value # NotAnInt /\ value >= min_value /\ value <= max_value
  THEN value ELSE Refused

(* What the usage message promises, as the set of ports it names.          *)
get_unprivileged_port_meta == MIN_VALUE..MAX_VALUE
=============================================================================
