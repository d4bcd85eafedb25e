--------------------------- MODULE MessageChannel ---------------------------
(***************************************************************************)
(* What a host is promised of one direction of a connection, whatever it    *)
(* does with the transactions of src/src/encoder.rs and however the         *)
(* compression in between works: messages arrive whole, in order, once and  *)
(* as they were given, or the direction is closed for good.                 *)
(***************************************************************************)
EXTENDS Integers, Sequences

CONSTANT Payload    \* what may be given at a time

VARIABLES
  phase,      \* "idle", "open", "whole", "sent" or "closed"
  current,    \* what was given of the current message so far
  sent,       \* the messages that left, in order
  received    \* those that arrived

vars == <<phase, current, sent, received>>

Init == phase = "idle" /\ current = <<>> /\ sent = <<>> /\ received = <<>>

\* A message is begun, or goes on; with its last piece it is whole.
Begin ==
  /\ phase = "idle" /\ phase' = "open"
  /\ UNCHANGED <<current, sent, received>>

Give(payload, last) ==
  /\ phase = "open" \/ (phase = "idle" /\ last)
  /\ phase' = IF last THEN "whole" ELSE "open"
  /\ current' = current \o payload
  /\ UNCHANGED <<sent, received>>

\* A whole message leaves, and may arrive at once if those before it have.
Send ==
  /\ phase = "whole" /\ phase' = "sent"
  /\ sent' = Append(sent, current)
  /\ \/ UNCHANGED received
     \/ received = sent /\ received' = sent'
  /\ UNCHANGED current

\* The next one arrives.
Receive ==
  /\ Len(received) < Len(sent)
  /\ received' = Append(received, sent[Len(received) + 1])
  /\ UNCHANGED <<phase, current, sent>>

\* The next message may begin, after one that left or one that will not.
Settle ==
  /\ phase = "sent" /\ phase' = "idle" /\ current' = <<>>
  /\ UNCHANGED <<sent, received>>

Withdraw ==
  /\ phase = "whole" /\ phase' = "idle" /\ current' = <<>>
  /\ UNCHANGED <<sent, received>>

\* No message leaves any more; those under way may still arrive.
Close ==
  /\ phase' = "closed" /\ current' = <<>>
  /\ UNCHANGED <<sent, received>>

Next ==
  \/ Begin
  \/ \E payload \in Payload, last \in BOOLEAN : Give(payload, last)
  \/ Send
  \/ Receive
  \/ Settle
  \/ Withdraw
  \/ Close

Spec == Init /\ [][Next]_vars
=============================================================================
