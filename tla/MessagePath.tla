---------------------------- MODULE MessagePath -----------------------------
(***************************************************************************)
(* The whole way of a message, from the sending application to the         *)
(* receiving one: one direction of every connection, and the received-     *)
(* message queue of the network they belong to.                            *)
(*                                                                         *)
(* A connection is what MessageLayer says, which NetCon is shown to        *)
(* implement.  Its Deliver is MsgRecPool's message_end: handle_read calls  *)
(* new_msg_callback.                                                       *)
(***************************************************************************)
EXTENDS MsgRecPool

VARIABLES
  sent,             \* of a connection, how many messages its peer has ended
  link              \* of a connection, the link of MessageLayer

pathVars == <<vars, sent, link>>

\* The first n messages of a connection; a message carries its number.
First(n) == [i \in 1..n |-> i]

Layer(c) ==
  INSTANCE MessageLayer WITH
    Payload <- 1..MaxMsgs,
    sent <- First(sent[c]), delivered <- First(received[c]), link <- link[c]

PathInit ==
  /\ Init
  /\ sent = [c \in Cons |-> 0]
  /\ link = [c \in Cons |-> "open"]

send_msg(c) ==
  /\ sent[c] < MaxMsgs
  /\ sent' = [sent EXCEPT ![c] = @ + 1]
  /\ UNCHANGED <<vars, link>>
  /\ Layer(c)!Send

\* The layer delivers when the handler is not in the lambda of add_connection.
deliver(c) ==
  /\ message_end(c)
  /\ link' \in {[link EXCEPT ![c] = s] : s \in {"open", "closed"}}
  /\ UNCHANGED sent
  /\ Layer(c)!Deliver

close_con(c) ==
  /\ link' \in {[link EXCEPT ![c] = s] : s \in {"closing", "closed"}}
  /\ UNCHANGED <<vars, sent>>
  /\ Layer(c)!Close

\* The handler of c, from message to message.
Reads(c) == deliver(c) \/ (Submit(c) /\ UNCHANGED <<sent, link>>)

Notifies(a) ==
  (notify_listeners(a) \/ Notifier(a)) /\ UNCHANGED <<sent, link>>

PathNext ==
  \/ \E c \in Cons : send_msg(c) \/ close_con(c) \/ Reads(c)
  \/ \E a \in Apps : App(a) /\ UNCHANGED <<sent, link>>

PathSpec == PathInit /\ [][PathNext]_pathVars

(***************************************************************************)
(* Connections deliver, as property Delivery of NetCon says.  Threads are  *)
(* scheduled, a mutex that is released again and again is won in the end,  *)
(* an application thread does not keep the guard for ever, and it calls    *)
(* process_new_msgs again and again, as the main loops of the tests do.    *)
(* Nothing makes a peer send.                                              *)
(***************************************************************************)
PathFairness ==
  /\ \A c \in Cons : SF_pathVars(Reads(c))
  /\ \A a \in Apps :
       /\ SF_pathVars(Notifies(a))
       /\ SF_pathVars(release_guard(a) /\ UNCHANGED <<sent, link>>)

FairPathSpec == PathSpec /\ PathFairness

-----------------------------------------------------------------------------
(* Properties *)

Handed == missed \o heard

\* Which of the first n messages handed out had the id of connection c.
Of(c, n) == {i \in 1..n : Handed[i].id = c}

\* Messages that are handed out under the id of a connection are those its
\* peer sent on it, in that order and once each, though two queues, two
\* mutexes and several threads lie between: the k-th of them is its k-th.
PeerOrder ==
  \A i \in 1..Len(Handed) :
    LET c == Handed[i].id
        k == Cardinality(Of(c, i))
    IN  Handed[i].msg = [from |-> c, nr |-> k] /\ k <= sent[c]

\* A message that a peer sends is handed out in the end, unless its connection
\* is closed before the message has been received: readers, notifier and a
\* callback that takes the guard never wait for each other in a circle.
Arrives ==
  \A c \in Cons : \A k \in 1..MaxMsgs :
    sent[c] >= k ~>
      \/ \E i \in 1..Len(Handed) : Handed[i].msg = [from |-> c, nr |-> k]
      \/ link[c] # "open" /\ received[c] < k
=============================================================================
