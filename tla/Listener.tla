------------------------------ MODULE Listener ------------------------------
(***************************************************************************)
(* The listener of a network: two acceptors that accept for ever on the io *)
(* threads, while another thread constructs, closes and destroys the       *)
(* listener.  The handlers are bound to a raw this.                        *)
(*                                                                         *)
(* The actions are those of the listener alone.  Module Admission gives    *)
(* them a network whose threads take them.                                 *)
(***************************************************************************)
EXTENDS Integers

VARIABLES
  l_pc,             \* where the thread that owns net_listener is in its code
  listener_open,
  acceptor_open,
  accept_pc         \* where the accept loop of an acceptor is

listenerVars == <<l_pc, listener_open, acceptor_open, accept_pc>>

Acceptors == {"v4", "v6"}

\* "null"       net_listener is null
\* "arm_.."     in the constructor, and so is "store"
\* "up"         constructed
\* "clear"      in close_listener, and so is "close_.."
\* "closed"     close_listener has returned to ~network
\* "gone"       destroyed
ListenerPC == {"null", "arm_v4", "arm_v6", "store", "up",
               "clear", "close_v4", "close_v6", "closed", "gone"}
Constructing == {"arm_v4", "arm_v6", "store"}
Closing      == {"clear", "close_v4", "close_v6"}

\* "off"        no accept is armed and no handler runs
\* "armed"      async_accept is outstanding
\* "accepted"   the handler has a socket
\* "callback"   ... and has called new_con_callback
\* "renew"      accept_new_connection has returned
AcceptPC == {"off", "armed", "accepted", "callback", "renew"}
Running  == {"accepted", "callback", "renew"}

\* The constructor leaves listener_open uninitialised until its last line.
ListenerInit ==
  /\ l_pc = "null"
  /\ listener_open \in BOOLEAN
  /\ acceptor_open = [a \in Acceptors |-> FALSE]
  /\ accept_pc = [a \in Acceptors |-> "off"]

-----------------------------------------------------------------------------
(* The thread that owns the listener *)

Owner(p, q) == l_pc = p /\ l_pc' = q

\* Both acceptors are bound, and listen.  If one of them throws,
\* start_listening swallows the exception and net_listener stays null.
make_listener ==
  /\ Owner("null", "arm_v4")
  /\ acceptor_open' = [a \in Acceptors |-> TRUE]
  /\ UNCHANGED <<listener_open, accept_pc>>

first_accept(a, p, q) ==
  /\ Owner(p, q)
  /\ accept_pc' = [accept_pc EXCEPT ![a] = "armed"]
  /\ UNCHANGED <<listener_open, acceptor_open>>

store_open ==
  /\ Owner("store", "up")
  /\ listener_open' = \A a \in Acceptors : acceptor_open[a]
  /\ UNCHANGED <<acceptor_open, accept_pc>>

\* close_listener, called by ~network and again by ~listener, returns at once
\* if the flag is down.
close_listener ==
  /\ l_pc \in {"up", "closed"}
  /\ l_pc' = IF listener_open THEN "clear"
             ELSE IF l_pc = "up" THEN "closed" ELSE "gone"
  /\ UNCHANGED <<listener_open, acceptor_open, accept_pc>>

\* Mutant: close_listener does not lower the flag.
clear_open_left ==
  /\ Owner("clear", "close_v4")
  /\ UNCHANGED <<listener_open, acceptor_open, accept_pc>>

clear_open ==
  /\ Owner("clear", "close_v4")
  /\ listener_open' = FALSE
  /\ UNCHANGED <<acceptor_open, accept_pc>>

\* cancel() and close(): an accept armed between the two is aborted as well.
close_acceptor(a, p, q) ==
  /\ Owner(p, q)
  /\ acceptor_open' = [acceptor_open EXCEPT ![a] = FALSE]
  /\ UNCHANGED <<listener_open, accept_pc>>

-----------------------------------------------------------------------------
(* The accept loop of acceptor a, on the io threads *)

Loop(a, p, q) ==
  /\ accept_pc[a] = p
  /\ accept_pc' = [accept_pc EXCEPT ![a] = q]
  /\ UNCHANGED <<l_pc, listener_open, acceptor_open>>

\* accept_v4 or accept_v6 with a socket.  It may have been accepted just
\* before the acceptor was closed.
accept(a) == Loop(a, "armed", "accepted")

\* Mutant: an error ends the loop.
accept_error_ends(a) == Loop(a, "armed", "off")

\* ... with an error: the acceptor is closed, or the process is out of files.
accept_error(a) == Loop(a, "armed", "renew")

\* A socket that comes while the flag is down is dropped.
accept_new_connection(a) ==
  Loop(a, "accepted", IF listener_open THEN "callback" ELSE "renew")

callback_return(a) == Loop(a, "callback", "renew")

\* A new socket, and another async_accept, closed acceptor or not.
accept_again(a) == Loop(a, "renew", "armed")

-----------------------------------------------------------------------------
(* Properties *)

ListenerTypeOK ==
  /\ l_pc \in ListenerPC
  /\ listener_open \in BOOLEAN
  /\ acceptor_open \in [Acceptors -> BOOLEAN]
  /\ accept_pc \in [Acceptors -> AcceptPC]

\* is_open "true: The listener is currently listening for new connections":
\* from the end of the constructor to close_listener no accept loop ends and
\* no acceptor is closed, whatever errors the accepts meet.
OpenMeansListening ==
  l_pc \notin {"null"} \cup Constructing /\ listener_open =>
    \A a \in Acceptors : acceptor_open[a] /\ accept_pc[a] # "off"

\* close_listener runs twice in the life of a listener, and never cancels an
\* acceptor that is closed: cancel() would throw in a destructor.
ClosedOnce ==
  /\ l_pc = "close_v4" => acceptor_open["v4"]
  /\ l_pc = "close_v6" => acceptor_open["v6"]

\* No accept handler runs once the listener it is bound to is destroyed.
ListenerOutlivesHandlers ==
  l_pc = "gone" => \A a \in Acceptors : accept_pc[a] \notin Running
=============================================================================
