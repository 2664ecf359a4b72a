--------------------------- MODULE LoadGenerator ----------------------------
(***************************************************************************)
(* What the UDP client promises for each mode ("Workload changing          *)
(* parameters" and "Load characteristics" in its help): a run that ends by *)
(* itself has sent its whole workload, and a run that fails or is stopped  *)
(* has sent a beginning of it.  How it gets there, with sockets, pauses,   *)
(* counters and a network, is left to UdpClient.                           *)
(***************************************************************************)
EXTENDS Integers, Sequences, Functions

CONSTANTS
  Runs,
  Messages,
  None        \* no number of packets: no end

VARIABLES
  state,      \* "idle", "active", "finished" or "failed"
  workload,   \* the mode, the list and the number of packets
  sent        \* the messages sent

abstractVars == <<state, workload, sent>>

Workloads == [mode : {"all_once", "manual", "random"}, list : Seq(Messages),
              packets : Int \cup {None}]

(* The messages w allows after s, and whether s is all of w.               *)
Allowed(w, s) ==
  {m \in Range(w.list) :
     /\ w.mode = "all_once" => Len(s) < Len(w.list) /\ m = w.list[Len(s) + 1]
     /\ w.mode = "random" /\ w.packets # None => Len(s) < w.packets}

Complete(w, s) ==
  /\ w.mode = "all_once" => s = w.list
  /\ w.mode = "random" => w.packets # None /\ Len(s) = (IF w.packets > 0 THEN w.packets ELSE 0)

Become(r, what) == state' = [state EXCEPT ![r] = what]

LoadInit ==
  /\ state = [r \in Runs |-> "idle"]
  /\ workload \in [Runs -> Workloads]
  /\ sent = [r \in Runs |-> <<>>]

Begin(r) ==
  /\ state[r] = "idle"
  /\ workload'[r] \in Workloads
  /\ workload' = [workload EXCEPT ![r] = workload'[r]]
  /\ Become(r, "active")
  /\ UNCHANGED sent

(* A message may be the last one because of what happens right after it.   *)
Emit(r) ==
  /\ state[r] = "active"
  /\ \E m \in Allowed(workload[r], sent[r]) : sent' = [sent EXCEPT ![r] = Append(@, m)]
  /\ Become(r, "active") \/ Become(r, "failed")
  /\ UNCHANGED workload

Finish(r) ==
  /\ state[r] = "active"
  /\ Complete(workload[r], sent[r])
  /\ Become(r, "finished")
  /\ UNCHANGED <<workload, sent>>

Fail(r) ==
  /\ state[r] \in {"idle", "active"}
  /\ Become(r, "failed")
  /\ UNCHANGED <<workload, sent>>

LoadNext == \E r \in Runs : Begin(r) \/ Emit(r) \/ Finish(r) \/ Fail(r)

LoadSpec == LoadInit /\ [][LoadNext]_abstractVars
=============================================================================
