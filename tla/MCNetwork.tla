----------------------------- MODULE MCNetwork ------------------------------
(* Uses of a network, each a restriction of what its environment does.      *)
EXTENDS Network

CONSTANTS
  Closers,          \* bound: threads on which the application calls close_con
  Leaving           \* bound: connections whose peers may leave in a shutdown

VARIABLE use        \* how the process uses its network

\* Thread t begins to close a connection from the application's code.
Closes(t) == pc[t] \in {"holding", "submit"} /\ pc'[t] = "load"

Connecting == \E t \in Adders : pc[t] \notin {"idle", "unref"}

\* A peer leaves after add_connection has returned.
PeersStay == peer_open' # peer_open => ~Connecting

\* The application calls network::close before it closes a connection, there
\* or in a callback, and lets no connection come in when it drops its
\* reference.
ClosesFirst ==
  /\ \A t \in Threads : Closes(t) => ~running /\ t \in Closers
  /\ Main \in refs /\ Main \notin refs' => refs = {Main}

\* The scheduler: no two threads are past the test of con_open in a close_con
\* of one connection, and before its store, as if close_con tested and cleared
\* con_open in one step.
OneCloses ==
  \A t, u \in Threads :
    pc'[t] = "store" /\ pc'[u] = "store" /\ target'[t] = target'[u] => t = u

\* A client, such as single_client: one connection at a time.  Its peer may
\* leave whenever it likes, also while ~network runs.
Client == next_id' # next_id => ~\E c \in Cons : obj[c] = "live"

\* Many connections, and a shutdown such as that of client_server: peers leave
\* once the network has been closed, by network::close or by ~network, as they
\* do when it holds both ends of a connection.
Shutdown ==
  /\ peer_open' # peer_open => ~running
  /\ \A c \in Cons \ Leaving : peer_open'[c] = peer_open[c]

Uses == {"client", "shutdown"}

\* A process keeps to one of the two uses, and the scheduler is kind: what
\* NetworkExit finds is left out.
UsesNext ==
  /\ Next /\ UNCHANGED use
  /\ PeersStay /\ ClosesFirst /\ OneCloses
  /\ use = "client" => Client
  /\ use = "shutdown" => Shutdown

UsesSpec ==
  /\ Init /\ use \in Uses
  /\ [][UsesNext]_<<vars, use>>
  /\ Fairness

\* A shutdown under any scheduler, with no close_con by the application.
Exit ==
  /\ PeersStay /\ ClosesFirst /\ Shutdown
  /\ \A t \in Threads : ~Closes(t)

ExitSpec ==
  /\ Init /\ use = "exit"
  /\ [][Next /\ UNCHANGED use /\ Exit]_<<vars, use>>

\* A server whose connections are closed by their peers only.
Server ==
  /\ PeersStay
  /\ \A t \in Threads : ~Closes(t)
  /\ Main \in refs'

ServerSpec ==
  /\ Init /\ use = "server"
  /\ [][Next /\ UNCHANGED use /\ Server]_<<vars, use>>
=============================================================================
