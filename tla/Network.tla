------------------------------ MODULE Network -------------------------------
(***************************************************************************)
(* The connections of a network: how a net_con is made, listed, closed and *)
(* destroyed, by the io threads, the application's thread and ~network.    *)
(*                                                                         *)
(*   add_connection    on an io thread, for server_connect or the listener *)
(*   handle_read       on an io thread, closes a connection on an error    *)
(*   close_con         on any thread: flag, socket, then the lambda that   *)
(*                     add_connection installed, which erases a connection *)
(*   ~network          on the thread that drops the last shared_ptr        *)
(*                                                                         *)
(* The handlers of a connection run one at a time on its recv_strand, so a *)
(* connection is also the thread its handler runs on.  Messages are in     *)
(* NetCon and MsgRecPool: here a read only takes the guard for a while.    *)
(*                                                                         *)
(* Some orders of these steps are undefined or end the process.  The model *)
(* records the first of them in fault, and does not go on after it.        *)
(***************************************************************************)
EXTENDS Integers, Sequences, FiniteSets

CONSTANTS
  MaxCons,          \* bound: connections ever made
  Adders,           \* io threads that add connections
  Main,             \* the application's thread
  Free              \* the owner of a mutex that nobody holds

Cons == 0..MaxCons - 1
IoThreads == Cons \cup Adders
Threads == IoThreads \cup {Main}

ASSUME ThreadAssumption ==
  /\ MaxCons \in Nat
  /\ Cons \cap Adders = {}
  /\ Main \notin IoThreads
  /\ Free \notin Threads

VARIABLES
  (* network *)
  running, connections, next_id,
  guard_owner, guard_depth,   \* connections_mut
  refs,             \* threads that hold a shared_ptr to the network
  stopped,          \* has io->stop() been called?
  (* net_con *)
  obj,              \* "none", "live" or "destroyed"
  con_open,
  sock_open,
  closed_callback,  \* has con_closed_callback a target?
  peer_open,        \* has the remote end closed the connection?
  (* threads *)
  pc,
  target,           \* the connection a thread is working on
  index,            \* position of the loop in ~network
  fault             \* the undefined or fatal step that was taken, if any

netVars    == <<running, connections, next_id, refs, stopped>>
guardVars  == <<guard_owner, guard_depth>>
conVars    == <<obj, con_open, sock_open, closed_callback, peer_open>>
workVars   == <<target, index>>
threadVars == <<pc, workVars>>
vars == <<netVars, guardVars, conVars, threadVars, fault>>

connections_mut ==
  INSTANCE RecursiveMutex WITH owner <- guard_owner, depth <- guard_depth

\* The handler of a connection: waiting, in handle_read, returned for good.
HandlerPC == {"none", "armed", "reading", "message", "submit", "rearm",
              "done"}
AddPC     == {"idle", "con_guard", "accept_guard", "arm", "set_closed",
              "push", "add_unlock", "unref"}
ClosePC   == {"load", "store", "cancel", "sock_close", "call", "cb_guard",
              "cb_running", "cb_erase", "cb_unlock"}
MainPC    == {"holding"}
DtorPC    == {"d_running", "d_guard", "d_loop", "d_stop",
              "d_join", "d_members", "gone"}

Faults == {"none",
  "bad_function_call",    \* con_closed_callback has no target yet
  "sock_exception",       \* cancel() of a closed socket throws
  "reentrant_erase",      \* erase() inside erase()
  "use_after_free",       \* a member of a destroyed net_con is used
  "mutex_destroyed",      \* a lock of connections_mut after its destructor
  "self_join"}            \* join() of the thread that calls it

NoCon == -1

Init ==
  /\ running = TRUE /\ connections = <<>> /\ next_id = 0
  /\ connections_mut!Unlocked
  /\ refs = {Main} /\ stopped = FALSE
  /\ obj = [c \in Cons |-> "none"]
  /\ con_open = [c \in Cons |-> FALSE]
  /\ sock_open = [c \in Cons |-> FALSE]
  /\ closed_callback = [c \in Cons |-> FALSE]
  /\ peer_open = [c \in Cons |-> TRUE]
  /\ pc = [t \in Threads |-> IF t \in Cons THEN "none" ELSE "idle"]
  /\ target = [t \in Threads |-> IF t \in Cons THEN t ELSE NoCon]
  /\ index = 1
  /\ fault = "none"

\* Nothing happens after a fault.
Going == fault = "none"
Sound == Going /\ UNCHANGED fault

\* Thread t is at p, and goes to q.
Move(t, p, q) == pc[t] = p /\ pc' = [pc EXCEPT ![t] = q]
Step(t, p, q) == Sound /\ Move(t, p, q)

\* ... and does nothing else, locks the guard, or unlocks it.
Go(t, p, q) ==
  Step(t, p, q) /\ UNCHANGED <<netVars, guardVars, conVars, workVars>>
Lock(t, p, q) ==
  /\ Step(t, p, q) /\ connections_mut!Lock(t)
  /\ UNCHANGED <<netVars, conVars, workVars>>
Unlock(t, p, q) ==
  /\ Step(t, p, q) /\ connections_mut!Unlock(t)
  /\ UNCHANGED <<netVars, conVars, workVars>>

\* Where close_con returns to: a message callback, which has the guard,
\* handle_read, the loop of ~network, or the application.  Nobody but ~network
\* runs once the last reference is gone.
InCallback(t) ==
  guard_owner = t /\ guard_depth = IF pc[t] = "cb_unlock" THEN 2 ELSE 1

AfterClose(t) == IF t \in Cons
                 THEN IF InCallback(t) THEN "submit" ELSE "done"
                 ELSE IF refs = {} THEN "d_loop" ELSE "holding"

FirstIsOpen == connections # <<>> /\ con_open[Head(connections)]

Fault(f) ==
  /\ Going
  /\ fault' = f
  /\ UNCHANGED <<netVars, guardVars, conVars, threadVars>>

Listed == {connections[i] : i \in 1..Len(connections)}

-----------------------------------------------------------------------------
(* add_connection, on an io thread *)

\* The bound leaves a connection for every socket that has been accepted.
Room ==
  next_id + Cardinality({t \in Adders : pc[t] = "accept_guard"}) < MaxCons

new_connection(c) ==
  /\ c = next_id /\ c \in Cons
  /\ next_id' = next_id + 1
  /\ obj' = [obj EXCEPT ![c] = "live"]
  /\ con_open' = [con_open EXCEPT ![c] = TRUE]
  /\ sock_open' = [sock_open EXCEPT ![c] = TRUE]
  /\ UNCHANGED <<closed_callback, peer_open>>

\* server_connect has a socket and a reference to the network: it makes the
\* net_con, and takes the guard after that.
connected(t) ==
  /\ refs # {} /\ ~stopped /\ Room
  /\ Step(t, "idle", "con_guard")
  /\ refs' = refs \cup {t}
  /\ new_connection(next_id)
  /\ target' = [target EXCEPT ![t] = next_id]
  /\ UNCHANGED <<running, connections, stopped, guardVars, index>>

connected_guard(t) == Lock(t, "con_guard", "arm")

\* The listener has accepted a socket: guard first, then the net_con.
accepted(t) ==
  /\ refs # {} /\ ~stopped /\ Room
  /\ Step(t, "idle", "accept_guard")
  /\ refs' = refs \cup {t}
  /\ UNCHANGED <<running, connections, next_id, stopped, guardVars, conVars,
                 workVars>>

accepted_guard(t) ==
  /\ Step(t, "accept_guard", "arm")
  /\ connections_mut!Lock(t)
  /\ new_connection(next_id)
  /\ target' = [target EXCEPT ![t] = next_id]
  /\ UNCHANGED <<running, connections, refs, stopped, index>>

\* set_new_msg_callback schedules the first read.
set_new_msg_callback(t) ==
  /\ Sound
  /\ pc[t] = "arm"
  /\ pc' = [u \in Threads |-> IF u = target[t] THEN "armed"
                               ELSE IF u = t THEN "set_closed" ELSE pc[u]]
  /\ UNCHANGED <<netVars, guardVars, conVars, workVars>>

set_closed_callback(t) ==
  /\ Step(t, "set_closed", "push")
  /\ closed_callback' = [closed_callback EXCEPT ![target[t]] = TRUE]
  /\ UNCHANGED <<netVars, guardVars, obj, con_open, sock_open, peer_open,
                 workVars>>

\* push_back.  new_connection_callback is not set: it is passed *con, and con
\* has just been moved from.
push_back(t) ==
  /\ Step(t, "push", "add_unlock")
  /\ connections' = Append(connections, target[t])
  /\ UNCHANGED <<running, next_id, refs, stopped, guardVars, conVars,
                 workVars>>

add_unlock(t) == Unlock(t, "add_unlock", "unref")

\* The io thread drops its reference: if it is the last one, it runs ~network.
unref(t) ==
  /\ Step(t, "unref", IF refs = {t} THEN "d_running" ELSE "idle")
  /\ refs' = refs \ {t}
  /\ target' = [target EXCEPT ![t] = NoCon]
  /\ UNCHANGED <<running, connections, next_id, stopped, guardVars, conVars,
                 index>>

-----------------------------------------------------------------------------
(* The handler of connection c, on an io thread *)

\* The remote end closes the connection.
peer_close(c) ==
  /\ Sound
  /\ obj[c] = "live" /\ peer_open[c]
  /\ peer_open' = [peer_open EXCEPT ![c] = FALSE]
  /\ UNCHANGED <<netVars, guardVars, obj, con_open, sock_open,
                 closed_callback, threadVars>>

\* handle_read with bytes; they may have come just before the socket closed.
handle_read(c) ==
  /\ obj[c] = "live" /\ ~stopped
  /\ Go(c, "armed", "reading")

\* handle_read with eof or another error: both branches call close_con.
handle_read_error(c) ==
  /\ obj[c] = "live" /\ ~stopped
  /\ ~peer_open[c] \/ ~sock_open[c]
  /\ Step(c, "armed", "load")
  /\ target' = [target EXCEPT ![c] = c]
  /\ UNCHANGED <<netVars, guardVars, conVars, index>>

\* The bytes end a message: new_msg_callback is called.
message_end(c) ==
  /\ obj[c] = "live"
  /\ Go(c, "reading", "message")

\* The lambda of add_connection takes the guard, submits and releases it.
submit_message(c) == Lock(c, "message", "submit")

\* Messages are not deferred, and the application's callback closes a
\* connection, this one or another.
callback_close_con(c, d) ==
  /\ obj[c] = "live" /\ d \in Listed
  /\ Step(c, "submit", "load")
  /\ target' = [target EXCEPT ![c] = d]
  /\ UNCHANGED <<netVars, guardVars, conVars, index>>

submit_done(c) ==
  /\ obj[c] = "live"
  /\ Unlock(c, "submit", "reading")

\* is_open() decides whether to read again.
read_done(c) ==
  /\ obj[c] = "live"
  /\ Go(c, "reading", IF con_open[c] THEN "rearm" ELSE "done")

schedule_read_handler(c) ==
  /\ obj[c] = "live"
  /\ Go(c, "rearm", "armed")

-----------------------------------------------------------------------------
(* close_con of target[t], on thread t *)

\* The net_con that thread t works on is still there.
Alive(t) == obj[target[t]] = "live"

close_load(t) ==
  /\ Go(t, "load", IF con_open[target[t]] THEN "store" ELSE AfterClose(t))
  /\ Alive(t)

\* Mutant: the flag is left for the destructor to clear.
close_store_left(t) ==
  /\ Go(t, "store", "cancel")
  /\ Alive(t)

\* Another thread may have stored false since the load.
close_store(t) ==
  /\ Step(t, "store", "cancel")
  /\ Alive(t)
  /\ con_open' = [con_open EXCEPT ![target[t]] = FALSE]
  /\ UNCHANGED <<netVars, guardVars, obj, sock_open, closed_callback,
                 peer_open, workVars>>

close_cancel(t) ==
  /\ Go(t, "cancel", "sock_close")
  /\ Alive(t) /\ sock_open[target[t]]

close_sock(t) ==
  /\ Step(t, "sock_close", "call")
  /\ Alive(t)
  /\ sock_open' = [sock_open EXCEPT ![target[t]] = FALSE]
  /\ UNCHANGED <<netVars, guardVars, obj, con_open, closed_callback,
                 peer_open, workVars>>

call_closed_callback(t) ==
  /\ Go(t, "call", "cb_guard")
  /\ Alive(t) /\ closed_callback[target[t]]

\* The lambda that add_connection installed takes the guard.
closed_guard(t) == Lock(t, "cb_guard", "cb_running")

\* Mutant: the lambda erases whether or not the network is running.
closed_running_ignored(t) ==
  /\ Go(t, "cb_running", "cb_erase")
  /\ Alive(t)

\* closed_connection_callback is not set: its argument *con is a reference to
\* a parameter of add_connection, which has returned.
closed_running(t) ==
  /\ Go(t, "cb_running", IF running THEN "cb_erase" ELSE "cb_unlock")
  /\ Alive(t)

\* Mutant: the entry is destroyed and stays in the list.
erase_kept(t) ==
  /\ ~FirstIsOpen
  /\ Step(t, "cb_erase", "cb_unlock")
  /\ IF connections = <<>>
     THEN UNCHANGED <<connections, obj>>
     ELSE /\ obj' = [obj EXCEPT ![Head(connections)] = "destroyed"]
          /\ UNCHANGED connections
  /\ UNCHANGED <<running, next_id, refs, stopped, guardVars, con_open,
                 sock_open, closed_callback, peer_open, workVars>>

\* find_if looks at the empty range from begin() to begin() and returns
\* begin(), so that the first connection of the list is erased, whatever id
\* has closed.  The ~net_con of a closed connection does nothing more.
erase(t) ==
  /\ ~FirstIsOpen
  /\ Step(t, "cb_erase", "cb_unlock")
  /\ IF connections = <<>>
     THEN UNCHANGED <<connections, obj>>
     ELSE /\ obj' = [obj EXCEPT ![Head(connections)] = "destroyed"]
          /\ connections' = Tail(connections)
  /\ UNCHANGED <<running, next_id, refs, stopped, guardVars, con_open,
                 sock_open, closed_callback, peer_open, workVars>>

\* The first connection is open: its ~net_con calls close_con, whose lambda
\* erases from the vector that erase is moving.  In libstdc++ each element is
\* moved out before its successor is destroyed, and all of them go.
erase_open(t) ==
  /\ Going
  /\ FirstIsOpen
  /\ Move(t, "cb_erase", "cb_unlock")
  /\ obj' = [c \in Cons |-> IF c \in Listed THEN "destroyed" ELSE obj[c]]
  /\ connections' = <<>>
  /\ fault' = "reentrant_erase"
  /\ UNCHANGED <<running, next_id, refs, stopped, guardVars, con_open,
                 sock_open, closed_callback, peer_open, workVars>>

\* Mutant: the guard is not released.
closed_unlock_kept(t) == Go(t, "cb_unlock", AfterClose(t))

\* The lambda and close_con return, without another look at the net_con.
closed_unlock(t) == Unlock(t, "cb_unlock", AfterClose(t))

-----------------------------------------------------------------------------
(* The application *)

main_guard == Lock(Main, "idle", "holding")

main_unlock == Unlock(Main, "holding", "idle")

\* network::close.
close ==
  /\ Sound
  /\ pc[Main] = "holding"
  /\ running' = FALSE
  /\ UNCHANGED <<connections, next_id, refs, stopped, guardVars, conVars,
                 threadVars>>

\* close_con of a connection that get_con or get_con_index has returned.
main_close_con(c) ==
  /\ c \in Listed
  /\ Step(Main, "holding", "load")
  /\ target' = [target EXCEPT ![Main] = c]
  /\ UNCHANGED <<netVars, guardVars, conVars, index>>

\* The application drops its reference.
main_unref ==
  /\ Main \in refs
  /\ Step(Main, "idle", IF refs = {Main} THEN "d_running" ELSE "gone")
  /\ refs' = refs \ {Main}
  /\ UNCHANGED <<running, connections, next_id, stopped, guardVars, conVars,
                 workVars>>

-----------------------------------------------------------------------------
(* ~network, on the thread that has dropped the last reference *)

dtor_running(t) ==
  /\ Step(t, "d_running", "d_guard")
  /\ running' = FALSE
  /\ UNCHANGED <<connections, next_id, refs, stopped, guardVars, conVars,
                 workVars>>

dtor_guard(t) == Lock(t, "d_guard", "d_loop")

\* The next connection of the loop is closed.
dtor_next(t) ==
  /\ index <= Len(connections)
  /\ Step(t, "d_loop", "load")
  /\ target' = [target EXCEPT ![t] = connections[index]]
  /\ index' = index + 1
  /\ UNCHANGED <<netVars, guardVars, conVars>>

\* Mutant: the io threads are not joined.
dtor_join_not(t) ==
  /\ t \notin IoThreads
  /\ Go(t, "d_join", "d_members")

\* Mutant: the guard is held until ~network returns.
dtor_loop_end_locked(t) ==
  /\ index > Len(connections)
  /\ Go(t, "d_loop", "d_stop")

\* Mutant: the loop stops one connection short.
dtor_loop_end_early(t) ==
  /\ index >= Len(connections)
  /\ Unlock(t, "d_loop", "d_stop")

dtor_loop_end(t) ==
  /\ index > Len(connections)
  /\ Unlock(t, "d_loop", "d_stop")

\* close_listener, work.reset() and io->stop(): no handler starts any more.
dtor_stop(t) ==
  /\ Step(t, "d_stop", "d_join")
  /\ stopped' = TRUE
  /\ UNCHANGED <<running, connections, next_id, refs, guardVars, conVars,
                 workVars>>

\* An io thread ends when the handler it is in, if any, returns.
dtor_join(t) ==
  /\ t \notin IoThreads
  /\ \A u \in IoThreads : pc[u] \in {"none", "idle", "armed", "done"}
  /\ Go(t, "d_join", "d_members")

\* The members are destroyed, connections after connections_mut: the ~net_con
\* of a connection that is still open would lock a mutex that is gone.
dtor_members(t) ==
  /\ Going
  /\ Move(t, "d_members", "gone")
  /\ obj' = [c \in Cons |-> IF c \in Listed THEN "destroyed" ELSE obj[c]]
  /\ connections' = <<>>
  /\ fault' = IF \E c \in Listed : con_open[c] THEN "mutex_destroyed"
              ELSE fault
  /\ UNCHANGED <<running, next_id, refs, stopped, guardVars, con_open,
                 sock_open, closed_callback, peer_open, workVars>>

-----------------------------------------------------------------------------
(* Steps after which the model does not go on *)

\* The handler of an erased connection starts, or a thread goes on with it.
use_after_free(t) ==
  /\ \/ /\ t \in Cons /\ obj[t] = "destroyed"
        /\ \/ pc[t] = "armed" /\ ~stopped
           \/ pc[t] \in {"reading", "submit", "rearm"}
     \/ /\ pc[t] \in ClosePC \ {"cb_guard", "cb_erase", "cb_unlock"}
        /\ obj[target[t]] = "destroyed"
  /\ Fault("use_after_free")

sock_exception(t) ==
  /\ pc[t] = "cancel" /\ Alive(t) /\ ~sock_open[target[t]]
  /\ Fault("sock_exception")

bad_function_call(t) ==
  /\ pc[t] = "call" /\ Alive(t) /\ ~closed_callback[target[t]]
  /\ Fault("bad_function_call")

self_join(t) ==
  /\ pc[t] = "d_join" /\ t \in IoThreads
  /\ Fault("self_join")

-----------------------------------------------------------------------------
Add(t) ==
  \/ connected(t) \/ connected_guard(t)
  \/ accepted(t) \/ accepted_guard(t)
  \/ set_new_msg_callback(t)
  \/ set_closed_callback(t)
  \/ push_back(t)
  \/ add_unlock(t)
  \/ unref(t)

Handler(c) ==
  \/ handle_read(c)
  \/ handle_read_error(c)
  \/ message_end(c) \/ submit_message(c) \/ submit_done(c)
  \/ \E d \in Cons : callback_close_con(c, d)
  \/ read_done(c)
  \/ schedule_read_handler(c)

close_con(t) ==
  \/ close_load(t)
  \/ close_store(t)
  \/ close_cancel(t)
  \/ close_sock(t)
  \/ call_closed_callback(t)
  \/ closed_guard(t)
  \/ closed_running(t)
  \/ erase(t)
  \/ closed_unlock(t)

Application ==
  \/ main_guard \/ main_unlock
  \/ close
  \/ \E c \in Cons : main_close_con(c)
  \/ main_unref

\* ~network up to the destruction of its members.
dtor(t) ==
  \/ dtor_running(t)
  \/ dtor_guard(t)
  \/ dtor_next(t)
  \/ dtor_loop_end(t)
  \/ dtor_stop(t)
  \/ dtor_join(t)

Faulty(t) ==
  \/ use_after_free(t)
  \/ sock_exception(t)
  \/ bad_function_call(t)
  \/ self_join(t)

Next ==
  \/ \E t \in Adders : Add(t)
  \/ \E c \in Cons : Handler(c) \/ peer_close(c)
  \/ \E t \in Threads : close_con(t) \/ erase_open(t) \/ Faulty(t)
  \/ \E t \in Threads : dtor(t) \/ dtor_members(t)
  \/ Application

Spec == Init /\ [][Next]_vars

(***************************************************************************)
(* io threads and the application's thread are scheduled; a guard that is  *)
(* released again and again is won in the end; a peer that has closed has  *)
(* finitely many bytes left to read before the eof.                        *)
(***************************************************************************)
Fairness ==
  /\ \A t \in Adders \cup {Main} :
       SF_vars((Add(t) /\ pc[t] # "idle") \/ close_con(t)
               \/ dtor(t) \/ dtor_members(t))
  /\ \A c \in Cons :
       /\ SF_vars(handle_read_error(c) \/ close_con(c))
       /\ SF_vars(read_done(c))
       /\ SF_vars(submit_message(c) \/ submit_done(c)
                  \/ schedule_read_handler(c))
  /\ WF_vars(main_unlock)

FairSpec == Spec /\ Fairness

-----------------------------------------------------------------------------
(* Properties *)

\* Every variable has its type; the guard is locked at most twice, and has an
\* owner exactly when it is locked.
TypeOK ==
  /\ running \in BOOLEAN /\ stopped \in BOOLEAN
  /\ connections \in Seq(Cons)
  /\ next_id \in 0..MaxCons
  /\ guard_owner \in Threads \cup {Free}
  /\ guard_depth \in 0..2
  /\ guard_owner = Free <=> guard_depth = 0
  /\ refs \subseteq Threads
  /\ obj \in [Cons -> {"none", "live", "destroyed"}]
  /\ con_open \in [Cons -> BOOLEAN]
  /\ sock_open \in [Cons -> BOOLEAN]
  /\ closed_callback \in [Cons -> BOOLEAN]
  /\ peer_open \in [Cons -> BOOLEAN]
  /\ pc \in [Threads -> HandlerPC \cup AddPC \cup ClosePC \cup MainPC
                         \cup DtorPC]
  /\ target \in [Threads -> Cons \cup {NoCon}]
  /\ index \in 1..MaxCons + 1
  /\ fault \in Faults

\* What get_con and get_con_index return under the guard is a net_con that
\* exists, and only one entry refers to it.
ListedAreLive ==
  /\ \A i \in 1..Len(connections) : obj[connections[i]] = "live"
  /\ \A i, j \in 1..Len(connections) : connections[i] = connections[j] => i = j

\* ~network leaves no open connection to ~net_con, which would lock a mutex
\* that has been destroyed: whatever threads did before, the loop closes all.
MutexOutlivesUse == fault # "mutex_destroyed"

\* The last net_con to go releases the io_context before its own socket, which
\* is declared before it: no socket is open by then, whichever thread has begun
\* to close it.
SocketsClosedFirst ==
  \A t \in Threads : pc[t] = "d_members" => \A c \in Listed : ~sock_open[c]

\* ~network loops over the list.
InLoop ==
  /\ refs = {}
  /\ \E t \in Threads \ Cons : pc[t] \in ClosePC \cup {"d_loop"}

\* "We don't want to delete the net_con object twice": nothing is erased once
\* the application has closed the network, nor while ~network loops over the
\* list, though a closed callback may be past its test of running when
\* ~network stores false without the guard.
ClosedNetworkKeepsAll ==
  [][(~running /\ refs # {}) \/ InLoop =>
       Len(connections') >= Len(connections)]_vars

\* "Remove this connection from the list": the closed callback of a connection
\* takes that connection from the list, and no other.
RemovesOnlyThis ==
  [][\A t \in Threads :
       pc[t] = "cb_erase" /\ pc'[t] = "cb_unlock" =>
         \A c \in Listed : obj'[c] = "destroyed" => c = target[t]]_vars

\* None of the undefined or fatal steps is taken.
NoFault == fault = "none"

\* ~network does not meet an exception that ends the process.
NoSockException == fault # "sock_exception"

\* A connection whose peer has gone is destroyed and off the list in the end,
\* unless the network has been closed.
GoneIsDestroyed ==
  \A c \in Cons :
    obj[c] = "live" /\ ~peer_open[c] ~>
      ~running \/ (obj[c] = "destroyed" /\ c \notin Listed)

\* Once the last reference is dropped, ~network ends and no net_con is left: a
\* thread it joins is never waiting for something ~network holds.
ShutdownEnds ==
  refs = {} ~> stopped /\ connections = <<>> /\ \A c \in Cons : obj[c] # "live"
=============================================================================
