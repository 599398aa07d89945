------------------------------ MODULE MCNetCon ------------------------------
(* Values for the constants of NetCon: an ordinary byte and the two bytes   *)
(* the framing gives a meaning to.                                          *)
EXTENDS NetConInv

MCWords == {0, 7, 255}

\* An application that sends complete messages only, as the tests of the
\* repository do: send_msg empties msg, so it waits for the payload to end.
WholeMessagesSpec ==
  Init /\ [][Next /\ (msg # <<>> /\ msg' = <<>> => payload = <<>>)]_vars
=============================================================================
