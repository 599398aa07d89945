----------------------------- MODULE Admission ------------------------------
(***************************************************************************)
(* How connections come into a network: accepted by its listener, or made  *)
(* by server_connect, whose caller polls a status.  Both lock the          *)
(* network's weak_ptr, take a con_id from get_next_id and add the          *)
(* connection to the list under connections_mut, while the application may *)
(* destroy the network.                                                    *)
(*                                                                         *)
(* A connection is its con_id here, and leaves the list in one step; its   *)
(* life is in Network.  So is what happens when the application drops its  *)
(* reference during an add.                                                *)
(***************************************************************************)
EXTENDS Listener, Sequences, FiniteSets

CONSTANTS
  Connectors,       \* calls of server_connect
  Main,             \* the application's thread
  Free,             \* the owner of a mutex that nobody holds
  IdCount,          \* values of a con_id (65536 in the code)
  MaxCons           \* bound: connections ever made

ASSUME AdmissionAssumption ==
  /\ Acceptors \cap Connectors = {}
  /\ Main \notin Acceptors \cup Connectors
  /\ Free \notin Acceptors \cup Connectors \cup {Main}
  /\ IdCount \in Nat \ {0}
  /\ MaxCons \in Nat \ {0}

VARIABLES
  m_pc,             \* where the application's thread is
  refs,             \* who holds a shared_ptr to the network
  stopped,          \* has io->stop() been called?
  guard,            \* the owner of connections_mut
  next_id,
  connections,      \* the list, of ids
  pc,               \* where a thread that adds a connection is
  new_id,           \* the id it has loaded
  status,           \* the AsyncStateHandler of a server_connect
  (* history *)
  made,             \* connections made: the nr of the next one
  new_nr,           \* the nr of the connection a thread is adding
  listed            \* the threads that have listed a connection

networkVars == <<refs, guard, next_id, connections>>
adderVars   == <<pc, new_id, status>>
historyVars == <<made, new_nr, listed>>
vars == <<listenerVars, networkVars, adderVars, historyVars, m_pc, stopped>>

Adders == Acceptors \cup Connectors

AdderPC == {"idle", "posted", "connecting", "lock", "id_load", "id_cas",
            "guard", "push", "unguard", "set_state"}
MainPC == {"up", "d_guard", "d_listener", "d_stop", "d_join", "d_members",
           "end"}
Status == {"none", "Connecting", "Connected", "Failed"}

Con == [id : 0..IdCount - 1, nr : 0..MaxCons - 1]

Init ==
  /\ ListenerInit
  /\ m_pc = "up" /\ refs = {Main} /\ stopped = FALSE
  /\ guard = Free /\ next_id = 0 /\ connections = <<>>
  /\ pc = [t \in Adders |-> "idle"]
  /\ new_id = [t \in Adders |-> 0]
  /\ status = [k \in Connectors |-> "none"]
  /\ made = 0 /\ new_nr = [t \in Adders |-> 0] /\ listed = {}

\* Threads that may still make a connection; the bound leaves one for each.
Pending ==
  {t \in Adders :
     pc[t] \in {"posted", "connecting", "lock", "id_load", "id_cas"}}
    \cup {a \in Acceptors : accept_pc[a] = "accepted" \/ pc[a] = "guard"}

Room == made + Cardinality(Pending) < MaxCons

Step(t, p, q) ==
  /\ pc[t] = p
  /\ pc' = [pc EXCEPT ![t] = q]
  /\ UNCHANGED <<m_pc, stopped>>

-----------------------------------------------------------------------------
(* The accept handlers *)

\* The listener calls the lambda of start_listening.
accept_callback(a) ==
  /\ accept_new_connection(a)
  /\ IF accept_pc'[a] = "callback"
     THEN pc' = [pc EXCEPT ![a] = "lock"]
     ELSE UNCHANGED pc
  /\ UNCHANGED <<networkVars, new_id, status, historyVars, m_pc, stopped>>

accept_return(a) ==
  /\ pc[a] = "idle"
  /\ callback_return(a)
  /\ UNCHANGED <<networkVars, adderVars, historyVars, m_pc, stopped>>

\* No handler starts after io->stop().
accept_handler(a) ==
  /\ ~stopped
  /\ (Room /\ accept(a)) \/ accept_error(a)
  /\ UNCHANGED <<networkVars, adderVars, historyVars, m_pc, stopped>>

accept_arm(a) ==
  /\ accept_again(a)
  /\ UNCHANGED <<networkVars, adderVars, historyVars, m_pc, stopped>>

-----------------------------------------------------------------------------
(* server_connect *)

server_connect(k) ==
  /\ m_pc = "up" /\ guard # Main /\ Room
  /\ status[k] = "none"
  /\ Step(k, "idle", "posted")
  /\ status' = [status EXCEPT ![k] = "Connecting"]
  /\ UNCHANGED <<listenerVars, networkVars, new_id, historyVars>>

\* The handler begins, unless the io_context has stopped.  It is in resolve
\* and connect then, and stays there over an io->stop().
resolve(k) ==
  /\ ~stopped
  /\ Step(k, "posted", "connecting")
  /\ UNCHANGED <<listenerVars, networkVars, new_id, status, historyVars>>

\* Mutant: the caller is not told.
connect_fails_silent(k) ==
  /\ Step(k, "connecting", "idle")
  /\ UNCHANGED <<listenerVars, networkVars, new_id, status, historyVars>>

\* resolve or connect returns an error.
connect_fails(k) ==
  /\ Step(k, "connecting", "idle")
  /\ status' = [status EXCEPT ![k] = "Failed"]
  /\ UNCHANGED <<listenerVars, networkVars, new_id, historyVars>>

\* Mutant: the caller is told before the connection is listed.
connect_early(k) ==
  /\ Step(k, "connecting", "lock")
  /\ status' = [status EXCEPT ![k] = "Connected"]
  /\ UNCHANGED <<listenerVars, networkVars, new_id, historyVars>>

connect(k) ==
  /\ Step(k, "connecting", "lock")
  /\ UNCHANGED <<listenerVars, networkVars, new_id, status, historyVars>>

set_connected(k) ==
  /\ Step(k, "set_state", "idle")
  /\ status' = [status EXCEPT ![k] = "Connected"]
  /\ UNCHANGED <<listenerVars, networkVars, new_id, historyVars>>

-----------------------------------------------------------------------------
(* What both do with a socket.  The listener takes the guard first and the  *)
(* id under it, server_connect the id and then the guard.                   *)

Left(t) == IF t \in Acceptors THEN "idle" ELSE "set_state"

\* net.lock(): it fails once the last shared_ptr is gone, and the socket with
\* it.
lock_network(t) ==
  /\ \/ /\ refs # {}
        /\ Step(t, "lock", IF t \in Acceptors THEN "guard" ELSE "id_load")
        /\ refs' = refs \cup {t}
     \/ /\ refs = {}
        /\ Step(t, "lock", Left(t))
        /\ UNCHANGED refs
  /\ UNCHANGED <<listenerVars, guard, next_id, connections, new_id, status,
                 historyVars>>

take_guard(t) ==
  /\ Step(t, "guard", IF t \in Acceptors THEN "id_load" ELSE "push")
  /\ guard = Free /\ guard' = t
  /\ UNCHANGED <<listenerVars, refs, next_id, connections, new_id, status,
                 historyVars>>

\* get_next_id: load, then compare_exchange_weak, which may fail for no reason.
id_load(t) ==
  /\ Step(t, "id_load", "id_cas")
  /\ new_id' = [new_id EXCEPT ![t] = next_id]
  /\ UNCHANGED <<listenerVars, networkVars, status, historyVars>>

id_cas_fails(t) ==
  /\ Step(t, "id_cas", "id_load")
  /\ UNCHANGED <<listenerVars, networkVars, new_id, status, historyVars>>

\* Mutant: a store instead of the exchange.
id_cas_store(t) ==
  /\ Step(t, "id_cas", IF t \in Acceptors THEN "push" ELSE "guard")
  /\ next_id' = (new_id[t] + 1) % IdCount
  /\ made' = made + 1
  /\ new_nr' = [new_nr EXCEPT ![t] = made]
  /\ UNCHANGED <<listenerVars, refs, guard, connections, new_id, status,
                 listed>>

\* Mutant: the exchange of a wider integer.
id_cas_wide(t) ==
  /\ Step(t, "id_cas", IF t \in Acceptors THEN "push" ELSE "guard")
  /\ next_id = new_id[t]
  /\ next_id' = new_id[t] + 1
  /\ made' = made + 1
  /\ new_nr' = [new_nr EXCEPT ![t] = made]
  /\ UNCHANGED <<listenerVars, refs, guard, connections, new_id, status,
                 listed>>

id_cas(t) ==
  /\ Step(t, "id_cas", IF t \in Acceptors THEN "push" ELSE "guard")
  /\ next_id = new_id[t]
  /\ next_id' = (new_id[t] + 1) % IdCount
  /\ made' = made + 1
  /\ new_nr' = [new_nr EXCEPT ![t] = made]
  /\ UNCHANGED <<listenerVars, refs, guard, connections, new_id, status,
                 listed>>

\* add_connection.
push_back(t) ==
  /\ Step(t, "push", "unguard")
  /\ connections' = Append(connections, [id |-> new_id[t], nr |-> new_nr[t]])
  /\ listed' = listed \cup {t}
  /\ UNCHANGED <<listenerVars, refs, guard, next_id, new_id, status, made,
                 new_nr>>

\* The end of the block: the guard goes, then the shared_ptr.
leave_block(t) ==
  /\ Step(t, "unguard", Left(t))
  /\ guard' = Free
  /\ refs' = refs \ {t}
  /\ UNCHANGED <<listenerVars, next_id, connections, new_id, status,
                 historyVars>>

-----------------------------------------------------------------------------
(* The application, and ~network *)

\* start_listening, under the guard; if there is a listener it does nothing.
start_listening ==
  /\ m_pc = "up" /\ guard = Free
  /\ make_listener
  /\ guard' = Main
  /\ UNCHANGED <<refs, next_id, connections, adderVars, historyVars, m_pc,
                 stopped>>

construct ==
  /\ \/ first_accept("v4", "arm_v4", "arm_v6")
     \/ first_accept("v6", "arm_v6", "store")
  /\ UNCHANGED <<networkVars, adderVars, historyVars, m_pc, stopped>>

constructed ==
  /\ store_open
  /\ guard' = Free
  /\ UNCHANGED <<refs, next_id, connections, adderVars, historyVars, m_pc,
                 stopped>>

\* A closed callback erases the first connection of the list, under the guard.
erase ==
  /\ m_pc = "up" /\ guard = Free
  /\ connections # <<>>
  /\ connections' = Tail(connections)
  /\ UNCHANGED <<listenerVars, refs, guard, next_id, adderVars, historyVars,
                 m_pc, stopped>>

\* The thread of the application goes from p to q in ~network.
Dtor(p, q) ==
  /\ m_pc = p /\ m_pc' = q
  /\ UNCHANGED <<adderVars, historyVars>>

\* The application drops its reference, while nobody is adding.
main_unref ==
  /\ refs = {Main} /\ guard # Main
  /\ Dtor("up", "d_guard")
  /\ refs' = {}
  /\ UNCHANGED <<listenerVars, guard, next_id, connections, stopped>>

\* The loop that closes the connections, under the guard.
dtor_loop ==
  /\ guard = Free
  /\ Dtor("d_guard", "d_listener")
  /\ UNCHANGED <<listenerVars, networkVars, stopped>>

dtor_no_listener ==
  /\ l_pc \in {"null", "closed"}
  /\ Dtor("d_listener", "d_stop")
  /\ UNCHANGED <<listenerVars, networkVars, stopped>>

\* close_listener, on behalf of ~network and then of ~listener.
dtor_close_listener ==
  /\ \/ m_pc = "d_listener" /\ l_pc # "closed"
     \/ m_pc = "d_members"
  /\ \/ close_listener
     \/ clear_open
     \/ close_acceptor("v4", "close_v4", "close_v6")
     \/ close_acceptor("v6", "close_v6", "closed")
  /\ UNCHANGED <<networkVars, adderVars, historyVars, m_pc, stopped>>

\* Mutant: only the work guard is reset.
dtor_stop_not ==
  /\ Dtor("d_stop", "d_join")
  /\ UNCHANGED <<listenerVars, networkVars, stopped>>

dtor_stop ==
  /\ Dtor("d_stop", "d_join")
  /\ stopped' = TRUE
  /\ UNCHANGED <<listenerVars, networkVars>>

\* Mutant: the io threads are not joined.
dtor_join_not ==
  /\ Dtor("d_join", "d_members")
  /\ UNCHANGED <<listenerVars, networkVars, stopped>>

\* run() returns once the io_context is stopped or has no work left, between
\* two handlers.
dtor_join ==
  /\ stopped \/ /\ \A a \in Acceptors : accept_pc[a] = "off"
                \* and no call of server_connect is queued
                /\ \A k \in Connectors : pc[k] = "idle"
  /\ \A a \in Acceptors : accept_pc[a] \notin Running
  /\ \A k \in Connectors : pc[k] \in {"idle", "posted"}
  /\ Dtor("d_join", "d_members")
  /\ UNCHANGED <<listenerVars, networkVars, stopped>>

dtor_members ==
  /\ l_pc \in {"null", "gone"}
  /\ Dtor("d_members", "end")
  /\ connections' = <<>>
  /\ UNCHANGED <<listenerVars, refs, guard, next_id, stopped>>

-----------------------------------------------------------------------------
Add(t) ==
  \/ lock_network(t)
  \/ take_guard(t)
  \/ id_load(t) \/ id_cas_fails(t) \/ id_cas(t)
  \/ push_back(t)
  \/ leave_block(t)

AcceptHandler(a) ==
  \/ accept_handler(a)
  \/ accept_callback(a) \/ accept_return(a)
  \/ accept_arm(a)

ConnectHandler(k) ==
  \/ resolve(k)
  \/ connect_fails(k) \/ connect(k)
  \/ set_connected(k)

Application ==
  \/ start_listening \/ construct \/ constructed
  \/ \E k \in Connectors : server_connect(k)
  \/ main_unref

\* ~network.
dtor ==
  \/ dtor_loop
  \/ dtor_no_listener \/ dtor_close_listener
  \/ dtor_stop
  \/ dtor_join
  \/ dtor_members

Next ==
  \/ \E t \in Adders : Add(t)
  \/ \E a \in Acceptors : AcceptHandler(a)
  \/ \E k \in Connectors : ConnectHandler(k)
  \/ Application \/ erase \/ dtor

Spec == Init /\ [][Next]_vars

(***************************************************************************)
(* The threads are scheduled, and one that tries for the guard again and   *)
(* again gets it.  compare_exchange_weak does not fail for ever; resolve   *)
(* and connect return, if only because the operating system gives up.      *)
(* Nothing makes a peer connect or the application do anything.            *)
(***************************************************************************)
Fairness ==
  /\ \A t \in Adders : SF_vars(take_guard(t)) /\ SF_vars(id_cas(t))
  /\ \A t \in Adders : WF_vars(Add(t))
  /\ \A k \in Connectors : WF_vars(ConnectHandler(k))
  /\ \A a \in Acceptors : WF_vars(accept_callback(a) \/ accept_return(a))
  /\ \A a \in Acceptors : WF_vars(accept_arm(a))
  /\ WF_vars(construct \/ constructed)
  /\ SF_vars(dtor)

FairSpec == Spec /\ Fairness

-----------------------------------------------------------------------------
(* Properties *)

\* Every variable has its type.
TypeOK ==
  /\ ListenerTypeOK
  /\ m_pc \in MainPC /\ stopped \in BOOLEAN
  /\ refs \subseteq Adders \cup {Main}
  /\ guard \in Adders \cup {Main, Free}
  /\ next_id \in 0..IdCount - 1
  /\ connections \in Seq(Con)
  /\ pc \in [Adders -> AdderPC]
  /\ new_id \in [Adders -> 0..IdCount - 1]
  /\ status \in [Connectors -> Status]
  /\ made \in 0..MaxCons
  /\ new_nr \in [Adders -> 0..MaxCons - 1]
  /\ listed \subseteq Adders

null_con == [id |-> -1, nr |-> -1]

\* The first connection of the list with this id.
get_con(id) ==
  LET hits == {i \in 1..Len(connections) : connections[i].id = id}
  IN  IF hits = {} THEN null_con
      ELSE connections[CHOOSE i \in hits : \A j \in hits : i <= j]

\* get_con finds a listed connection by its id, unless as many connections as
\* there are ids have been made since another that is still listed: threads
\* never get one id between them.
GetConFinds ==
  \A i \in 1..Len(connections) :
    LET con == connections[i]
        found == get_con(con.id)
    IN  found = con \/ con.nr - found.nr >= IdCount
                    \/ found.nr - con.nr >= IdCount

\* A caller that sees Connected may use the list: its connection has been
\* listed, unless there is no network left.
ConnectedIsListed ==
  [][\A k \in Connectors :
       status'[k] = "Connected" /\ status[k] # "Connected" =>
         k \in listed \/ refs = {}]_vars

\* "while (con_status->GetState() == Connecting)" ends, unless the io_context
\* stops before the handler begins: each way through the handler sets the
\* status, whatever becomes of the network in the meantime.
StatusSettles ==
  \A k \in Connectors :
    status[k] = "Connecting" ~>
      status[k] # "Connecting" \/ (stopped /\ pc[k] = "posted")

\* ~network ends, though an accept on a closed acceptor fails and is armed
\* again for ever: only io->stop() ends the io threads it joins.
ShutdownEnds == m_pc = "d_guard" ~> m_pc = "end"
=============================================================================
