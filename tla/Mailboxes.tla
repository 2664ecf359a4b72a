----------------------------- MODULE Mailboxes ------------------------------
(***************************************************************************)
(* What send_efficient() and recv_efficient() promise together: each       *)
(* client receives the messages it was sent, whole and in order.  How many *)
(* pieces they travel in, and in which byte order, is left to Framing.     *)
(***************************************************************************)
EXTENDS Naturals, SequencesExt

CONSTANTS
  Clients,
  Messages

VARIABLES
  posted,     \* the messages sent to each client so far
  delivered   \* those it has received

mailboxVars == <<posted, delivered>>

MailboxInit ==
  /\ posted = [c \in Clients |-> <<>>]
  /\ delivered = [c \in Clients |-> <<>>]

Post(c) ==
  /\ posted'[c] # <<>>
  /\ Last(posted'[c]) \in Messages
  /\ posted' = [posted EXCEPT ![c] = Append(@, Last(posted'[c]))]
  /\ UNCHANGED delivered

Collect(c) ==
  /\ Len(delivered[c]) < Len(posted[c])
  /\ delivered' = [delivered EXCEPT ![c] = Append(@, posted[c][Len(@) + 1])]
  /\ UNCHANGED posted

MailboxNext == \E c \in Clients : Post(c) \/ Collect(c)

MailboxSpec == MailboxInit /\ [][MailboxNext]_mailboxVars
=============================================================================
