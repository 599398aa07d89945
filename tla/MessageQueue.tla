---------------------------- MODULE MessageQueue ----------------------------
(* What the received-message queue of a network promises: every message     *)
(* that is submitted is handed out once, in the order of submission, with   *)
(* the id of the connection it came from.                                   *)
EXTENDS Integers, Sequences

CONSTANT Message

VARIABLES
  put,              \* messages submitted, in order
  got               \* messages handed out, in order

vars == <<put, got>>

Init == put = <<>> /\ got = <<>>

Put ==
  /\ \E m \in Message : put' = Append(put, m)
  /\ UNCHANGED got

Get ==
  /\ Len(got) < Len(put)
  /\ got' = Append(got, put[Len(got) + 1])
  /\ UNCHANGED put

Next == Put \/ Get

Spec == Init /\ [][Next]_vars
=============================================================================
