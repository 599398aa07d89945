---------------------------- MODULE MessageLayer ----------------------------
(***************************************************************************)
(* What one direction of a volt_net connection promises to its users: "a   *)
(* message-layer over the top of TCP's stream-based connections".  Whole   *)
(* messages go in, and the same messages come out, in order and once each, *)
(* until the connection is closed.  No bytes, buffers, partial writes or   *)
(* reads appear here; module NetCon has them and implements this one.      *)
(***************************************************************************)
EXTENDS Integers, Sequences

CONSTANT Payload    \* what a message may carry

VARIABLES
  sent,             \* messages the sending application has ended, in order
  delivered,        \* messages handed to the receiver's new_msg_callback
  link              \* "open", then "closing" or "closed" on the receiver

vars == <<sent, delivered, link>>

Init ==
  /\ sent = <<>>
  /\ delivered = <<>>
  /\ link = "open"

\* One more message is ended by the sender.
Send ==
  /\ sent' \in Seq(Payload)
  /\ Len(sent') = Len(sent) + 1
  /\ \A i \in 1..Len(sent) : sent'[i] = sent[i]
  /\ UNCHANGED <<delivered, link>>

\* The oldest undelivered message is delivered.  A "closing" connection has
\* one byte left to handle, so that it delivers one last message at most.
Deliver ==
  /\ link # "closed"
  /\ Len(delivered) < Len(sent)
  /\ delivered' = Append(delivered, sent[Len(delivered) + 1])
  /\ link' = IF link = "closing" THEN "closed" ELSE link
  /\ UNCHANGED sent

\* The connection is closed; it is never reopened.
Close ==
  /\ \/ link = "open" /\ link' \in {"closing", "closed"}
     \/ link = "closing" /\ link' = "closed"
  /\ UNCHANGED <<sent, delivered>>

Next == Send \/ Deliver \/ Close

Spec == Init /\ [][Next]_vars
=============================================================================
