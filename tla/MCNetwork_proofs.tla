-------------------------- MODULE MCNetwork_proofs --------------------------
(***************************************************************************)
(* The uses of a network that are safe: no undefined or fatal step is      *)
(* taken, for every number of connections and of io threads.               *)
(***************************************************************************)
EXTENDS MCNetwork, Network_proofs

-----------------------------------------------------------------------------
(* The invariant *)

\* A connection that exists is listed, or an adder is making it; the closed
\* callback is set before it is listed.
CallbackInv ==
  /\ \A c \in Cons : obj[c] = "live" =>
       \/ c \in Listed
       \/ \E t \in Adders : Making(t) /\ target[t] = c
  /\ \A c \in Listed : closed_callback[c]
  /\ \A t \in Adders : pc[t] = "push" => closed_callback[target[t]]
  /\ \A c \in Cons : con_open[c] => sock_open[c]
  /\ \A t \in Threads : pc[t] \in ClosePC => obj[target[t]] # "none"
  /\ \A t \in Threads :
       pc[t] \in {"cancel", "sock_close"} => ~con_open[target[t]]

\* A thread that closes a connection without the guard is the handler of that
\* connection.  It closes a listed connection whose socket is open, past the
\* test of con_open until the socket is closed.
CloserInv ==
  \A t \in Threads : pc[t] \in ClosePC =>
    /\ guard_owner # t => t \in Cons /\ target[t] = t
    /\ obj[target[t]] = "live" => target[t] \in Listed
    /\ pc[t] \in {"store", "cancel", "sock_close"} => sock_open[target[t]]
    /\ pc[t] = "store" => con_open[target[t]]
    /\ pc[t] \notin {"load", "store"} => ~con_open[target[t]]

\* One thread at a time is between the test of con_open and the close of the
\* socket of a connection.
OneInv ==
  \A t, u \in Threads :
    /\ target[t] = target[u]
    /\ \/ pc[t] = "store" /\ pc[u] = "store"
       \/ /\ pc[t] \in {"cancel", "sock_close"}
          /\ pc[u] \in {"cancel", "sock_close"}
    => t = u

\* A connection whose read fails is listed.
PeerInv ==
  \A c \in Cons :
    /\ obj[c] = "none" => peer_open[c]
    /\ obj[c] = "live" /\ ~(peer_open[c] /\ con_open[c] /\ sock_open[c]) =>
         c \in Listed

\* The application's reference is the last one to go.
KeepInv ==
  /\ Main \in refs \/ refs = {}
  /\ \A t \in Adders : pc[t] \in AddPC

\* Before the network is closed, only the handler of a connection closes it,
\* outside of a message callback.  What erases was on its way by then.
RunInv ==
  /\ running => \A t \in Threads : pc[t] \in ClosePC =>
       /\ t \in Cons /\ target[t] = t
       /\ pc[t] \in Outer => guard_owner # t
       /\ pc[t] \in Inner => guard_depth = 1
  /\ \A t \in Threads : pc[t] = "cb_erase" =>
       t \in Cons /\ target[t] = t /\ guard_depth = 1 /\ use = "client"

\* A destroyed connection has been erased by its own handler, which is about
\* to return and is the last to close it, or is destroyed with the network.
DestroyedInv ==
  \A c \in Cons : obj[c] = "destroyed" =>
    \/ /\ pc[c] \in {"cb_unlock", "done"}
       /\ pc[c] = "cb_unlock" => guard_depth = 1
       /\ \A t \in Threads \ {c} : pc[t] \in ClosePC => target[t] # c
    \/ /\ stopped /\ refs = {} /\ pc[Main] = "gone"
       /\ \A u \in IoThreads : pc[u] \in {"none", "idle", "armed", "done"}

\* A client has one connection.
ClientInv ==
  use = "client" =>
    \A c, d \in Cons : obj[c] = "live" /\ obj[d] = "live" => c = d

\* In a shutdown nothing closes before the network is closed.
ShutInv ==
  use = "shutdown" /\ running =>
    /\ \A t \in Threads : pc[t] \notin ClosePC
    /\ \A c \in Cons : obj[c] = "live" => con_open[c] /\ peer_open[c]

UseInv ==
  /\ use \in Uses /\ NoFault
  /\ CallbackInv /\ CloserInv /\ OneInv /\ PeerInv /\ KeepInv /\ RunInv
  /\ DestroyedInv /\ ClientInv /\ ShutInv

-----------------------------------------------------------------------------
(* Steps that keep the invariant *)

USE DEF Threads, IoThreads, Step, Move, Sound, Going, Go, Lock, Unlock,
        netVars, guardVars, conVars, workVars, threadVars

\* What is destroyed was listed, and is listed no more.
LEMMA Gone ==
  ASSUME NetInv, NEW t \in Threads,
         erase(t) \/ erase_open(t) \/ dtor_members(t)
  PROVE  /\ Listed' \subseteq Listed
         /\ \A c \in Cons : obj'[c] = "none" <=> obj[c] = "none"
         /\ \A c \in Cons : obj'[c] = "live" =>
              obj[c] = "live" /\ (c \in Listed => c \in Listed')
BY Erases, ListedLive

\* Nobody but the owner of the guard changes who has it.
LEMMA OnlyOwner ==
  ASSUME NetInv, NEW t \in Threads,
         connections_mut!Lock(t) \/ connections_mut!Unlock(t)
  PROVE  \A u \in Threads : u # t => guard_owner # u /\ guard_owner' # u
BY ThreadAssumption DEF connections_mut!Lock, connections_mut!Unlock

\* The only thread that erases is the handler of the only connection, which
\* holds the guard once and has closed that connection.
LEMMA ErasesItself ==
  ASSUME NetInv, UseInv, NEW t \in Threads, pc[t] = "cb_erase"
  PROVE  /\ t \in Cons /\ target[t] = t /\ use = "client"
         /\ guard_owner = t /\ guard_depth = 1
         /\ obj[t] = "live" /\ Listed = {t} /\ ~con_open[t]
         /\ \A c \in Cons : obj[c] = "live" => c = t
<1>1. /\ t \in Cons /\ target[t] = t /\ guard_owner = t /\ guard_depth = 1
      /\ use = "client"
  BY DEF UseInv, RunInv, NetInv, GuardInv, Inner
<1>2. obj[t] # "none" /\ ~con_open[t]
  BY <1>1 DEF UseInv, CallbackInv, CloserInv, ClosePC
<1>3. obj[t] # "destroyed"
  BY <1>1 DEF UseInv, DestroyedInv
<1>4. obj[t] = "live"
  BY <1>1, <1>2, <1>3 DEF NetInv, TypeOK
<1>5. t \in Listed
  BY <1>1, <1>4 DEF UseInv, CloserInv, ClosePC
<1>6. \A c \in Cons : obj[c] = "live" => c = t
  BY <1>1, <1>4 DEF UseInv, ClientInv
<1> QED BY <1>1, <1>2, <1>4, <1>5, <1>6, ListedLive

LEMMA ErasesClosed ==
  ASSUME NetInv, UseInv, NEW t \in Threads
  PROVE  ~erase_open(t)
<1> SUFFICES ASSUME erase_open(t) PROVE FALSE
  OBVIOUS
<1>1. pc[t] = "cb_erase" /\ connections # <<>> /\ con_open[Head(connections)]
  BY DEF erase_open, FirstIsOpen
<1>2. Head(connections) \in Listed
  BY <1>1 DEF Listed, NetInv, TypeOK
<1> QED BY <1>1, <1>2, ErasesItself

LEMMA ErasesOne ==
  ASSUME NetInv, UseInv, NEW t \in Threads, erase(t)
  PROVE  /\ Listed' = {} /\ obj'[t] = "destroyed"
         /\ \A c \in Cons \ {t} : obj'[c] = obj[c] /\ obj[c] # "live"
<1> USE ErasesItself
<1>1. /\ pc[t] = "cb_erase" /\ t \in Cons /\ t \in Listed /\ obj[t] = "live"
      /\ \A c \in Cons : obj[c] = "live" => c = t
  BY DEF erase
<1>2. connections # <<>> /\ 1 \in 1..Len(connections)
  BY <1>1 DEF Listed, NetInv, TypeOK
<1>3. Head(connections) = t
  BY <1>1, <1>2, ListedLive DEF Listed
<1>4. obj' = [obj EXCEPT ![t] = "destroyed"]
  BY <1>2, <1>3 DEF erase
<1>5. /\ obj'[t] = "destroyed"
      /\ \A c \in Cons \ {t} : obj'[c] = obj[c] /\ obj[c] # "live"
  BY <1>1, <1>4 DEF NetInv, TypeOK
<1>6. \A c \in Listed' : c \in Cons /\ obj[c] = "live" /\ obj'[c] = obj[c]
  BY Erases, ListedLive
<1> QED BY <1>1, <1>5, <1>6

\* What a step leaves alone of thread u.
Kept(u) ==
  /\ pc'[u] = pc[u] /\ target'[u] = target[u]
  /\ guard_owner' = u <=> guard_owner = u
  /\ guard_owner = u => guard_depth' = guard_depth

\* ~network has returned.
Over ==
  /\ stopped /\ refs = {} /\ pc[Main] = "gone"
  /\ \A u \in IoThreads : pc[u] \in {"none", "idle", "armed", "done"}

\* Steps that neither close nor change a connection.
Quiet ==
  /\ UNCHANGED <<use, obj, con_open, sock_open, peer_open>>
  /\ Listed \subseteq Listed' /\ (running' => running)
  /\ \A u \in Threads : pc'[u] \in ClosePC => Kept(u)
  /\ \A c \in Cons : pc[c] = "done" => pc'[c] = "done"
  /\ \A c \in Cons : pc[c] = "cb_unlock" => pc'[c] = "cb_unlock"
  /\ Over => Over'

LEMMA QuietKeeps ==
  ASSUME NetInv, UseInv, Quiet
  PROVE  /\ CloserInv' /\ OneInv' /\ PeerInv' /\ RunInv'
         /\ DestroyedInv' /\ ClientInv' /\ ShutInv'
<1> USE DEF UseInv, Quiet, Kept
<1>1. CloserInv'
  BY DEF CloserInv, NetInv, MakeInv, ClosePC
<1>2. OneInv'
  BY DEF OneInv, ClosePC
<1>3. PeerInv'
  BY DEF PeerInv
<1>4. RunInv'
  BY DEF RunInv, NetInv, GuardInv, Inner, Outer, ClosePC
<1>5. DestroyedInv'
  <2>1. \A c \in Cons : pc[c] = "cb_unlock" => guard_depth' = guard_depth
    BY DEF NetInv, GuardInv, Inner, ClosePC
  <2> QED BY <2>1 DEF DestroyedInv, Over
<1>6. ClientInv' /\ ShutInv'
  BY DEF ClientInv, ShutInv
<1> QED BY <1>1, <1>2, <1>3, <1>4, <1>5, <1>6

LEMMA QuietSteps ==
  ASSUME NetInv, UseInv, UNCHANGED use, NEW t \in Threads,
         \/ t \in Adders /\ Add(t) /\ ~connected(t) /\ ~accepted_guard(t)
         \/ t \in Cons /\ Handler(t) /\ ~handle_read_error(t)
            /\ ~\E d \in Cons : callback_close_con(t, d)
         \/ dtor(t) /\ ~dtor_next(t)
         \/ t = Main /\ Application /\ ~\E d \in Cons : main_close_con(d)
         \/ Faulty(t)
  PROVE  Quiet
<1> USE ThreadAssumption, ListedSame
    DEF NetInv, TypeOK, PcInv, GuardInv, Once, Outer, Inner, Over, Quiet, Kept,
        HandlerPC, AddPC, ClosePC, MainPC, DtorPC, RefInv
<1>1. CASE t \in Adders /\ Add(t) /\ ~connected(t) /\ ~accepted_guard(t)
  <2>1. CASE connected_guard(t)
    BY <2>1, OnlyOwner DEF connected_guard
  <2>2. CASE accepted(t)
    BY <2>2 DEF accepted
  <2>3. CASE set_new_msg_callback(t)
    <3>1. /\ pc[t] = "arm" /\ target[t] \in Cons /\ pc[target[t]] = "none"
          /\ UNCHANGED <<netVars, guardVars, conVars, workVars>>
      BY <1>1, <2>3, Arms
    <3>2. \A u \in Threads : u # target[t] /\ u # t => pc'[u] = pc[u]
      BY <1>1, <2>3, Arms
    <3>3. pc'[target[t]] = "armed" /\ pc'[t] = "set_closed"
      BY <1>1, <2>3, <3>1, Arms
    <3>4. \A u \in Threads : pc'[u] \in ClosePC => pc'[u] = pc[u]
      BY <3>2, <3>3
    <3>5. ~Over
      BY <1>1, <3>1
    <3> QED BY <1>1, <3>1, <3>2, <3>4, <3>5
  <2>4. CASE set_closed_callback(t)
    BY <2>4 DEF set_closed_callback
  <2>5. CASE push_back(t)
    <3>1. Listed \subseteq Listed'
      BY <1>1, <2>5, Pushes
    <3> QED BY <1>1, <2>5, <3>1 DEF push_back
  <2>6. CASE add_unlock(t)
    BY <2>6, OnlyOwner DEF add_unlock
  <2>7. CASE unref(t)
    BY <2>7 DEF unref
  <2> QED BY <1>1, <2>1, <2>2, <2>3, <2>4, <2>5, <2>6, <2>7 DEF Add
<1>2. CASE t \in Cons /\ Handler(t) /\ ~handle_read_error(t)
           /\ ~\E d \in Cons : callback_close_con(t, d)
  <2>1. CASE handle_read(t)
    BY <2>1 DEF handle_read
  <2>2. CASE message_end(t)
    BY <2>2 DEF message_end
  <2>3. CASE submit_message(t)
    BY <2>3, OnlyOwner DEF submit_message
  <2>4. CASE submit_done(t)
    BY <2>4, OnlyOwner DEF submit_done
  <2>5. CASE read_done(t)
    BY <2>5 DEF read_done
  <2>6. CASE schedule_read_handler(t)
    BY <2>6 DEF schedule_read_handler
  <2> QED BY <1>2, <2>1, <2>2, <2>3, <2>4, <2>5, <2>6 DEF Handler
<1>3. CASE dtor(t) /\ ~dtor_next(t)
  <2>1. CASE dtor_running(t)
    BY <2>1 DEF dtor_running
  <2>2. CASE dtor_guard(t)
    BY <2>2, OnlyOwner DEF dtor_guard
  <2>3. CASE dtor_loop_end(t)
    BY <2>3, OnlyOwner DEF dtor_loop_end
  <2>4. CASE dtor_stop(t)
    BY <2>4 DEF dtor_stop
  <2>5. CASE dtor_join(t)
    BY <2>5 DEF dtor_join
  <2> QED BY <1>3, <2>1, <2>2, <2>3, <2>4, <2>5 DEF dtor
<1>4. CASE t = Main /\ Application /\ ~\E d \in Cons : main_close_con(d)
  <2>1. CASE main_guard
    BY <2>1, OnlyOwner DEF main_guard
  <2>2. CASE main_unlock
    BY <2>2, OnlyOwner DEF main_unlock
  <2>3. CASE close
    BY <2>3 DEF close
  <2>4. CASE main_unref
    BY <2>4 DEF main_unref
  <2> QED BY <1>4, <2>1, <2>2, <2>3, <2>4 DEF Application
<1>5. CASE Faulty(t)
  BY <1>5 DEF Faulty, use_after_free, sock_exception, bad_function_call,
     self_join, Fault
<1> QED BY <1>1, <1>2, <1>3, <1>4, <1>5

\* Thread t begins to close a listed connection.
Enters(t) ==
  /\ UNCHANGED <<use, running, guardVars, conVars, connections>>
  /\ pc[t] \notin ClosePC \cup {"done"} /\ pc'[t] = "load"
  /\ \A u \in Threads \ {t} : pc'[u] = pc[u] /\ target'[u] = target[u]
  /\ target'[t] \in Listed
  /\ guard_owner # t => t \in Cons /\ target'[t] = t
  /\ running => t \in Cons /\ target'[t] = t /\ guard_owner # t
                /\ use = "client"
  /\ ~Over

LEMMA EnterKeeps ==
  ASSUME NetInv, UseInv, NEW t \in Threads, Enters(t)
  PROVE  /\ CloserInv' /\ OneInv' /\ PeerInv' /\ RunInv'
         /\ DestroyedInv' /\ ClientInv' /\ ShutInv'
<1> USE ListedSame, ListedLive DEF UseInv, Enters
<1>1. CloserInv'
  BY DEF CloserInv, ClosePC
<1>2. OneInv'
  BY DEF OneInv
<1>3. PeerInv'
  BY DEF PeerInv
<1>4. RunInv'
  BY DEF RunInv, Outer, Inner
<1>5. DestroyedInv'
  BY DEF DestroyedInv, Over, ClosePC
<1>6. ClientInv' /\ ShutInv'
  BY DEF ClientInv, ShutInv, Uses
<1> QED BY <1>1, <1>2, <1>3, <1>4, <1>5, <1>6

LEMMA EnterSteps ==
  ASSUME NetInv, UseInv, UsesNext, NEW t \in Threads,
         \/ t \in Cons /\ handle_read_error(t)
         \/ t \in Cons /\ \E d \in Cons : callback_close_con(t, d)
         \/ dtor_next(t)
         \/ t = Main /\ \E d \in Cons : main_close_con(d)
  PROVE  Enters(t)
<1> USE ThreadAssumption, ListedSame
    DEF NetInv, TypeOK, PcInv, GuardInv, Once, Outer, Inner, Over, Enters,
        HandlerPC, AddPC, ClosePC, MainPC, DtorPC, UsesNext, UseInv
<1>1. CASE t \in Cons /\ handle_read_error(t)
  <2>1. t \in Listed
    BY <1>1 DEF handle_read_error, PeerInv
  <2>2. running => use = "client"
    BY <1>1 DEF handle_read_error, ShutInv, CallbackInv, Uses
  <2> QED BY <1>1, <2>1, <2>2 DEF handle_read_error
<1>2. CASE t \in Cons /\ \E d \in Cons : callback_close_con(t, d)
  BY <1>2 DEF callback_close_con, ClosesFirst, Closes
<1>3. CASE dtor_next(t)
  <2>1. index \in 1..Len(connections) /\ connections[index] \in Listed
    BY <1>3 DEF dtor_next, Listed
  <2>2. Destroys(t)
    BY <1>3 DEF dtor_next, RefInv, Destroys
  <2>3. ~running
    BY <1>3, <2>2 DEF dtor_next, LoopInv
  <2> QED BY <1>3, <2>1, <2>3 DEF dtor_next
<1>4. CASE t = Main /\ \E d \in Cons : main_close_con(d)
  BY <1>4 DEF main_close_con, ClosesFirst, Closes
<1> QED BY <1>1, <1>2, <1>3, <1>4

\* A connection is made.
LEMMA MakeKeeps ==
  ASSUME NetInv, UseInv, UsesNext, NEW t \in Adders,
         connected(t) \/ accepted_guard(t)
  PROVE  /\ CloserInv' /\ OneInv' /\ PeerInv' /\ RunInv'
         /\ DestroyedInv' /\ ClientInv' /\ ShutInv'
<1> USE ThreadAssumption DEF UseInv
<1>1. /\ next_id \in Cons /\ new_connection(next_id) /\ Listed' = Listed
      /\ pc[t] \in AddPC /\ pc'[t] \in {"con_guard", "arm"} /\ t \notin Cons
      /\ \A u \in Threads \ {t} : pc'[u] = pc[u] /\ target'[u] = target[u]
      /\ UNCHANGED <<use, running>>
  BY ListedSame DEF connected, accepted_guard, new_connection, UsesNext, AddPC,
     NetInv, TypeOK
<1>2. \A u \in Threads : pc'[u] \in ClosePC => Kept(u) /\ u # t
  BY <1>1, OnlyOwner DEF connected, accepted_guard, Kept, ClosePC
<1>3. /\ obj[next_id] = "none" /\ obj'[next_id] = "live"
      /\ con_open'[next_id] /\ sock_open'[next_id]
      /\ \A c \in Cons \ {next_id} :
           /\ obj'[c] = obj[c]
           /\ con_open'[c] = con_open[c] /\ sock_open'[c] = sock_open[c]
      /\ UNCHANGED peer_open /\ next_id' # next_id
  BY <1>1 DEF new_connection, NetInv, TypeOK, MakeInv
<1>4. \A u \in Threads : pc[u] \in ClosePC => target[u] \in Cons \ {next_id}
  BY <1>3 DEF CallbackInv, NetInv, MakeInv
<1>5. refs # {} /\ ~Over
  BY AddersRefer DEF Add, Over
<1>6. CloserInv'
  BY <1>1, <1>2, <1>3, <1>4 DEF CloserInv, Kept, ClosePC
<1>7. OneInv'
  BY <1>1, <1>2 DEF OneInv, ClosePC
<1>8. PeerInv'
  BY <1>1, <1>3 DEF PeerInv
<1>9. RunInv'
  BY <1>1, <1>2 DEF RunInv, Kept, NetInv, GuardInv, Inner, Outer, ClosePC
<1>10. DestroyedInv'
  <2>1. \A c \in Cons : pc[c] = "cb_unlock" => guard_depth' = guard_depth
    BY <1>1, <1>2 DEF Kept, NetInv, GuardInv, Inner, ClosePC
  <2> QED BY <1>1, <1>2, <1>3, <1>4, <1>5, <2>1 DEF DestroyedInv, Over, Kept
<1>11. ClientInv'
  BY <1>1, <1>3 DEF ClientInv, UsesNext, Client
<1>12. ShutInv'
  BY <1>1, <1>2, <1>3 DEF ShutInv, PeerInv, Kept
<1> QED BY <1>6, <1>7, <1>8, <1>9, <1>10, <1>11, <1>12

LEMMA LeaveKeeps ==
  ASSUME NetInv, UseInv, UsesNext, NEW c \in Cons, peer_close(c)
  PROVE  /\ CloserInv' /\ OneInv' /\ PeerInv' /\ RunInv'
         /\ DestroyedInv' /\ ClientInv' /\ ShutInv'
<1> USE DEF UseInv, peer_close, UsesNext
<1>1. peer_open' # peer_open
  BY DEF NetInv, TypeOK
<1>2. Listed' = Listed /\ c \in Listed
  BY <1>1, ListedSame, ThreadAssumption
     DEF PeersStay, Connecting, CallbackInv, Making
<1>3. PeerInv'
  BY <1>2 DEF PeerInv, NetInv, TypeOK
<1>4. CloserInv' /\ OneInv' /\ RunInv' /\ DestroyedInv' /\ ClientInv'
  BY <1>2 DEF CloserInv, OneInv, RunInv, DestroyedInv, ClientInv
<1>5. ShutInv'
  BY <1>1 DEF ShutInv, Shutdown
<1> QED BY <1>3, <1>4, <1>5

\* Thread t goes on with a close_con, and erases nothing.
LEMMA CloseKeeps ==
  ASSUME NetInv, UseInv, UsesNext, NEW t \in Threads, close_con(t), ~erase(t)
  PROVE  /\ CloserInv' /\ OneInv' /\ PeerInv' /\ RunInv'
         /\ DestroyedInv' /\ ClientInv' /\ ShutInv'
<1> USE ThreadAssumption DEF UseInv, UsesNext
<1>1. /\ pc[t] \in ClosePC /\ target[t] \in Cons
      /\ UNCHANGED <<use, netVars, obj, peer_open, workVars>>
      /\ Listed' = Listed
  BY ListedSame DEF close_con, close_load, close_store, close_cancel,
     close_sock, call_closed_callback, closed_guard, closed_running,
     closed_unlock, ClosePC, NetInv, MakeInv
<1>2. \A u \in Threads \ {t} : Kept(u)
  BY OnlyOwner DEF close_con, close_load, close_store, close_cancel,
     close_sock, call_closed_callback, closed_guard, closed_running,
     closed_unlock, Kept, NetInv, TypeOK
<1>3. /\ \A c \in Cons \ {target[t]} :
           con_open'[c] = con_open[c] /\ sock_open'[c] = sock_open[c]
      /\ \/ con_open'[target[t]] = con_open[target[t]]
         \/ pc[t] = "store" /\ ~con_open'[target[t]] /\ Alive(t)
      /\ \/ sock_open'[target[t]] = sock_open[target[t]]
         \/ pc[t] = "sock_close" /\ ~sock_open'[target[t]] /\ Alive(t)
  BY DEF close_con, close_load, close_store, close_cancel, close_sock,
     call_closed_callback, closed_guard, closed_running, closed_unlock, NetInv,
     TypeOK, MakeInv, ClosePC
<1>4. \/ pc[t] = "load" /\ pc'[t] = "store" /\ con_open[target[t]]
      \/ pc[t] = "store" /\ pc'[t] = "cancel" /\ ~con_open'[target[t]]
      \/ pc[t] = "cancel" /\ pc'[t] = "sock_close"
      \/ pc[t] = "sock_close" /\ pc'[t] = "call"
      \/ pc[t] = "call" /\ pc'[t] = "cb_guard"
      \/ pc[t] = "cb_guard" /\ pc'[t] = "cb_running" /\ connections_mut!Lock(t)
      \/ pc[t] = "cb_running" /\ pc'[t] = "cb_erase" /\ running
      \/ pc[t] = "cb_running" /\ pc'[t] = "cb_unlock"
      \/ pc[t] \in {"load", "cb_unlock"} /\ pc'[t] = AfterClose(t)
  BY DEF close_con, close_load, close_store, close_cancel, close_sock,
     call_closed_callback, closed_guard, closed_running, closed_unlock, NetInv,
     TypeOK, MakeInv, ClosePC
<1>5. \/ UNCHANGED guardVars
      \/ pc[t] = "cb_guard" /\ connections_mut!Lock(t)
      \/ pc[t] = "cb_unlock" /\ connections_mut!Unlock(t)
  BY DEF close_con, close_load, close_store, close_cancel, close_sock,
     call_closed_callback, closed_guard, closed_running, closed_unlock
<1>6. AfterClose(t) \notin ClosePC
  BY <1>1, Returns DEF ClosePC
<1>7. \A u \in Threads : pc[u] \in ClosePC => target[u] \in Cons
  BY DEF NetInv, MakeInv
<1>8. CloserInv'
  <2>1. CASE pc[t] = "store"
    BY <1>1, <1>2, <1>3, <1>4, <1>5, <2>1, <1>7
       DEF CloserInv, OneInv, CallbackInv, Kept, ClosePC
  <2>2. CASE pc[t] = "sock_close"
    BY <1>1, <1>2, <1>3, <1>4, <1>5, <2>2, <1>7
       DEF CloserInv, OneInv, CallbackInv, Kept, ClosePC
  <2>3. CASE pc[t] \notin {"store", "sock_close"}
    <3>1. /\ \A c \in Cons :
               con_open'[c] = con_open[c] /\ sock_open'[c] = sock_open[c]
          /\ pc[t] # "cb_unlock" /\ guard_owner' # t => guard_owner # t
      BY <1>3, <1>5, <2>3 DEF connections_mut!Lock
    <3>2. pc'[t] \in ClosePC =>
            /\ pc[t] # "cb_unlock"
            /\ pc'[t] \in {"store", "cancel", "sock_close"} =>
                 pc[t] = "load" \/ sock_open[target[t]]
            /\ pc'[t] = "store" => con_open[target[t]]
            /\ pc'[t] \notin {"load", "store"} => ~con_open[target[t]]
      BY <1>1, <1>4, <1>6, <2>3 DEF CloserInv, ClosePC
    <3>3. con_open[target[t]] => sock_open[target[t]]
      BY <1>1 DEF CallbackInv
    <3>4. \A u \in Threads \ {t} : pc'[u] \in ClosePC =>
            /\ guard_owner' # u => u \in Cons /\ target'[u] = u
            /\ obj'[target'[u]] = "live" => target'[u] \in Listed'
            /\ pc'[u] \in {"store", "cancel", "sock_close"} =>
                 sock_open'[target'[u]]
            /\ pc'[u] = "store" => con_open'[target'[u]]
            /\ pc'[u] \notin {"load", "store"} => ~con_open'[target'[u]]
      BY <1>1, <1>2, <1>7, <3>1 DEF CloserInv, Kept
    <3>5. pc'[t] \in ClosePC =>
            /\ guard_owner' # t => t \in Cons /\ target'[t] = t
            /\ obj'[target'[t]] = "live" => target'[t] \in Listed'
      BY <1>1, <3>1, <3>2 DEF CloserInv
    <3>6. pc'[t] \in ClosePC =>
            /\ pc'[t] \in {"store", "cancel", "sock_close"} =>
                 sock_open'[target'[t]]
            /\ pc'[t] = "store" => con_open'[target'[t]]
            /\ pc'[t] \notin {"load", "store"} => ~con_open'[target'[t]]
      <4>1. target'[t] = target[t]
        BY <1>1
      <4>2. /\ con_open'[target[t]] = con_open[target[t]]
            /\ sock_open'[target[t]] = sock_open[target[t]]
        BY <1>1, <3>1
      <4> QED BY <1>4, <1>6, <2>3, <3>2, <3>3, <4>1, <4>2
    <3> QED BY <3>4, <3>5, <3>6 DEF CloserInv
  <2> QED BY <2>1, <2>2, <2>3
<1>9. OneInv'
  BY <1>1, <1>2, <1>4, <1>6 DEF OneInv, OneCloses, CloserInv, Kept, ClosePC
<1>10. PeerInv'
  BY <1>1, <1>3 DEF PeerInv, CloserInv, Alive
<1>11. RunInv'
  BY <1>1, <1>2, <1>4, <1>5, <1>6
     DEF RunInv, Kept, Inner, Outer, ClosePC, NetInv, TypeOK, GuardInv,
         connections_mut!Lock, ShutInv, Uses
<1>12. DestroyedInv'
  <2>1. \A c \in Cons : pc[c] = "cb_unlock" /\ c # t =>
          guard_depth' = guard_depth
    BY <1>2 DEF Kept, NetInv, GuardInv, Inner, ClosePC
  <2>2. ~Over
    BY <1>1 DEF Over, ClosePC
  <2>3. t \in Cons /\ pc[t] = "cb_unlock" /\ guard_depth = 1 =>
          AfterClose(t) = "done"
    BY DEF AfterClose, InCallback
  <2> QED BY <1>1, <1>2, <1>4, <2>1, <2>2, <2>3
          DEF DestroyedInv, Over, Kept, ClosePC
<1>13. ClientInv' /\ ShutInv'
  BY <1>1, <1>3 DEF ClientInv, ShutInv
<1> QED BY <1>8, <1>9, <1>10, <1>11, <1>12, <1>13

\* The closed callback of a client's connection erases that connection.
LEMMA EraseKeeps ==
  ASSUME NetInv, UseInv, UNCHANGED use, NEW t \in Threads, erase(t)
  PROVE  /\ CloserInv' /\ OneInv' /\ PeerInv' /\ RunInv'
         /\ DestroyedInv' /\ ClientInv' /\ ShutInv'
<1> USE ThreadAssumption DEF UseInv
<1>1. /\ pc[t] = "cb_erase" /\ pc'[t] = "cb_unlock"
      /\ \A u \in Threads \ {t} : pc'[u] = pc[u]
      /\ UNCHANGED <<use, running, guardVars, con_open, sock_open, peer_open,
                     workVars>>
  BY DEF erase, NetInv, TypeOK
<1>2. /\ t \in Cons /\ target[t] = t /\ use = "client" /\ ~con_open[t]
      /\ guard_owner = t /\ guard_depth = 1
  BY <1>1, ErasesItself
<1>3. /\ Listed' = {} /\ obj'[t] = "destroyed"
      /\ \A c \in Cons \ {t} : obj'[c] = obj[c] /\ obj[c] # "live"
  BY ErasesOne
<1>4. \A u \in Threads \ {t} : pc[u] \in ClosePC => target[u] # t
  BY <1>2 DEF CloserInv
<1>5. CloserInv'
  BY <1>1, <1>2, <1>3, <1>4 DEF CloserInv, CallbackInv, ClosePC, NetInv, MakeInv
<1>6. OneInv'
  BY <1>1 DEF OneInv
<1>7. PeerInv'
  BY <1>1, <1>3 DEF PeerInv
<1>8. RunInv'
  BY <1>1, <1>2 DEF RunInv, Inner, Outer, ClosePC
<1>9. DestroyedInv'
  BY <1>1, <1>2, <1>3, <1>4 DEF DestroyedInv
<1>10. ClientInv' /\ ShutInv'
  BY <1>1, <1>2, <1>3 DEF ClientInv, ShutInv
<1> QED BY <1>5, <1>6, <1>7, <1>8, <1>9, <1>10

\* The connections go with the network.
LEMMA MembersKeep ==
  ASSUME NetInv, UseInv, UNCHANGED use, NEW t \in Threads, dtor_members(t)
  PROVE  /\ CloserInv' /\ OneInv' /\ PeerInv' /\ RunInv'
         /\ DestroyedInv' /\ ClientInv' /\ ShutInv'
<1> USE ThreadAssumption DEF UseInv
<1>1. /\ t = Main /\ pc[t] = "d_members" /\ pc'[t] = "gone"
      /\ \A u \in Threads \ {t} : pc'[u] = pc[u]
      /\ UNCHANGED <<running, refs, stopped, guardVars, con_open, sock_open,
                     peer_open, workVars>>
  BY DEF dtor_members, NetInv, TypeOK, PcInv, HandlerPC, AddPC, ClosePC, DtorPC
<1>2. Over'
  BY <1>1 DEF Over, NetInv, RefInv, JoinInv, DtorPC
<1>3. \A u \in Threads : pc'[u] \notin ClosePC
  BY <1>1, <1>2 DEF Over, ClosePC
<1>4. \A c \in Cons : /\ obj'[c] # "live"
                      /\ obj'[c] = "none" => obj[c] = "none"
  BY <1>1 DEF dtor_members, CallbackInv, Making, NetInv, JoinInv
<1>5. CloserInv' /\ OneInv' /\ RunInv'
  BY <1>3 DEF CloserInv, OneInv, RunInv, ClosePC
<1>6. PeerInv'
  BY <1>1, <1>4 DEF PeerInv
<1>7. DestroyedInv'
  BY <1>2 DEF DestroyedInv, Over
<1>8. ClientInv' /\ ShutInv'
  BY <1>3, <1>4 DEF ClientInv, ShutInv
<1> QED BY <1>5, <1>6, <1>7, <1>8

LEMMA KeepStep ==
  ASSUME NetInv, UseInv, UsesNext
  PROVE  KeepInv'
<1> USE ThreadAssumption DEF UseInv, KeepInv, NetInv, TypeOK, PcInv, RefInv,
        HandlerPC, AddPC, ClosePC, MainPC, DtorPC
<1>1. ASSUME NEW t \in Adders, Add(t) PROVE KeepInv'
  <2>1. CASE set_new_msg_callback(t)
    BY Arms, <2>1
  <2>2. CASE unref(t)
    BY <2>2 DEF unref
  <2>3. CASE connected(t) \/ accepted(t)
    BY <2>3 DEF connected, accepted
  <2>4. CASE connected_guard(t) \/ accepted_guard(t) \/ add_unlock(t)
    BY <2>4 DEF connected_guard, accepted_guard, add_unlock
  <2>5. CASE set_closed_callback(t) \/ push_back(t)
    BY <2>5 DEF set_closed_callback, push_back
  <2> QED BY <1>1, <2>1, <2>2, <2>3, <2>4, <2>5 DEF Add
<1>2. ASSUME NEW c \in Cons, Handler(c) \/ peer_close(c) PROVE KeepInv'
  BY <1>2 DEF Handler, handle_read, handle_read_error, message_end,
     submit_message, submit_done, callback_close_con, read_done,
     schedule_read_handler, peer_close
<1>3. ASSUME NEW t \in Threads, close_con(t) \/ erase_open(t) PROVE KeepInv'
  BY <1>3 DEF close_con, close_load, close_store, close_cancel, close_sock,
     call_closed_callback, closed_guard, closed_running, erase, closed_unlock,
     erase_open
<1>4. ASSUME NEW t \in Threads, Faulty(t) PROVE KeepInv'
  BY <1>4 DEF Faulty, use_after_free, sock_exception, bad_function_call,
     self_join, Fault
<1>5. ASSUME NEW t \in Threads, dtor(t) \/ dtor_members(t) PROVE KeepInv'
  BY <1>5 DEF dtor, dtor_running, dtor_guard, dtor_next, dtor_loop_end,
     dtor_stop, dtor_join, dtor_members
<1>6. ASSUME Application PROVE KeepInv'
  BY <1>6 DEF Application, main_guard, main_unlock, close, main_close_con,
     main_unref, UsesNext, ClosesFirst
<1> QED BY <1>1, <1>2, <1>3, <1>4, <1>5, <1>6 DEF UsesNext, Next

LEMMA CallbackStep ==
  ASSUME NetInv, CallbackInv, [Next]_vars
  PROVE  CallbackInv'
<1> USE ThreadAssumption DEF NetInv, TypeOK, PcInv, MakeInv, CallbackInv,
        Making, HandlerPC, AddPC, ClosePC, MainPC, DtorPC
<1>1. ASSUME NEW t \in Adders, Add(t) PROVE CallbackInv'
  <2>1. CASE connected(t)
    BY Fresh, ListedSame, <2>1 DEF connected, new_connection
  <2>2. CASE connected_guard(t)
    BY ListedSame, <2>2 DEF connected_guard
  <2>3. CASE accepted(t)
    BY ListedSame, <2>3 DEF accepted
  <2>4. CASE accepted_guard(t)
    <3>1. /\ next_id \in Cons /\ new_connection(next_id)
          /\ pc[t] = "accept_guard" /\ pc' = [pc EXCEPT ![t] = "arm"]
          /\ target' = [target EXCEPT ![t] = next_id]
          /\ UNCHANGED connections
      BY <2>4 DEF accepted_guard, new_connection
    <3>2. /\ t \in Adders
          /\ t \notin Cons
          /\ pc'[t] = "arm"
          /\ target'[t] = next_id
      BY <3>1
    <3>3. \A u \in Threads : u # t => pc'[u] = pc[u] /\ target'[u] = target[u]
      BY <3>1
    <3>4. /\ \A c \in Cons : c # next_id =>
               /\ obj'[c] = obj[c] /\ con_open'[c] = con_open[c]
               /\ sock_open'[c] = sock_open[c]
          /\ obj'[next_id] = "live"
          /\ con_open'[next_id] /\ sock_open'[next_id]
          /\ UNCHANGED closed_callback
      BY <3>1 DEF new_connection
    <3>5. obj[next_id] = "none" /\ next_id \notin Listed /\ Listed' = Listed
      BY <3>1, Fresh, ListedSame
    <3>6. \A c \in Cons : obj'[c] = "live" =>
            c \in Listed' \/ \E u \in Adders : Making(u)' /\ target'[u] = c
      BY <3>1, <3>2, <3>3, <3>4, <3>5
    <3>7. \A u \in Threads : pc'[u] \in ClosePC =>
            /\ pc[u] = pc'[u] /\ target'[u] = target[u]
            /\ target[u] \in Cons \ {next_id}
      BY <3>1, <3>2, <3>3, <3>5
    <3>8. \A u \in Adders : pc'[u] = "push" => closed_callback[target'[u]]
      BY <3>2, <3>3
    <3>9. \A u \in Threads : pc'[u] \in ClosePC =>
            /\ obj'[target'[u]] # "none"
            /\ pc'[u] \in {"cancel", "sock_close"} => ~con_open'[target'[u]]
      BY <3>7, <3>4
    <3> QED BY <3>4, <3>5, <3>6, <3>8, <3>9
  <2>5. CASE set_new_msg_callback(t)
    <3>1. \A u \in Adders : u # t => pc'[u] = pc[u]
      BY Arms, <2>5
    <3>2. \A u \in Threads : pc'[u] \in ClosePC => pc[u] = pc'[u]
      BY Arms, <2>5
    <3> QED BY Arms, <3>1, <3>2, ListedSame, <2>5
  <2>6. CASE set_closed_callback(t)
    BY ListedSame, <2>6 DEF set_closed_callback
  <2>7. CASE push_back(t)
    <3>1. /\ pc[t] = "push" /\ pc' = [pc EXCEPT ![t] = "add_unlock"]
          /\ UNCHANGED <<target, conVars>>
      BY <2>7 DEF push_back
    <3> QED BY Pushes, <3>1, <2>7
  <2>8. CASE add_unlock(t)
    BY ListedSame, <2>8 DEF add_unlock
  <2>9. CASE unref(t)
    BY ListedSame, <2>9 DEF unref
  <2> QED BY <1>1, <2>1, <2>2, <2>3, <2>4, <2>5, <2>6, <2>7, <2>8, <2>9 DEF Add
<1>2. ASSUME NEW c \in Cons, Handler(c) PROVE CallbackInv'
  <2>1. CASE handle_read(c)
    BY ListedSame, <2>1 DEF handle_read
  <2>2. CASE handle_read_error(c)
    BY ListedSame, <2>2 DEF handle_read_error
  <2>3. CASE message_end(c)
    BY ListedSame, <2>3 DEF message_end
  <2>4. CASE submit_message(c)
    BY ListedSame, <2>4 DEF submit_message
  <2>5. CASE submit_done(c)
    BY ListedSame, <2>5 DEF submit_done
  <2>6. CASE \E d \in Cons : callback_close_con(c, d)
    BY ListedSame, ListedLive, <2>6 DEF callback_close_con
  <2>7. CASE read_done(c)
    BY ListedSame, <2>7 DEF read_done
  <2>8. CASE schedule_read_handler(c)
    BY ListedSame, <2>8 DEF schedule_read_handler
  <2> QED BY <1>2, <2>1, <2>2, <2>3, <2>4, <2>5, <2>6, <2>7, <2>8 DEF Handler
<1>3. ASSUME NEW c \in Cons, peer_close(c) PROVE CallbackInv'
  BY ListedSame, <1>3 DEF peer_close
<1>4. ASSUME NEW t \in Threads, close_con(t) \/ erase_open(t)
      PROVE  CallbackInv'
  <2>1. CASE close_load(t)
    BY Returns, ListedSame, <2>1 DEF close_load
  <2>2. CASE close_store(t)
    BY ListedSame, <2>2 DEF close_store, Alive
  <2>3. CASE close_cancel(t)
    BY ListedSame, <2>3 DEF close_cancel
  <2>4. CASE close_sock(t)
    BY ListedSame, <2>4 DEF close_sock, Alive
  <2>5. CASE call_closed_callback(t)
    BY ListedSame, <2>5 DEF call_closed_callback, Alive
  <2>6. CASE closed_guard(t)
    BY ListedSame, <2>6 DEF closed_guard
  <2>7. CASE closed_running(t)
    BY ListedSame, <2>7 DEF closed_running
  <2>8. CASE erase(t)
    <3>1. /\ pc[t] = "cb_erase" /\ pc' = [pc EXCEPT ![t] = "cb_unlock"]
          /\ UNCHANGED <<target, con_open, sock_open, closed_callback>>
      BY <2>8 DEF erase
    <3> QED BY Gone, <3>1, <2>8
  <2>9. CASE closed_unlock(t)
    BY Returns, ListedSame, <2>9 DEF closed_unlock
  <2>10. CASE erase_open(t)
    <3>1. /\ pc[t] = "cb_erase" /\ pc' = [pc EXCEPT ![t] = "cb_unlock"]
          /\ UNCHANGED <<target, con_open, sock_open, closed_callback>>
      BY <2>10 DEF erase_open
    <3> QED BY Gone, <3>1, <2>10
  <2> QED BY <1>4, <2>1, <2>2, <2>3, <2>4, <2>5, <2>6, <2>7, <2>8, <2>9, <2>10
             DEF close_con
<1>5. ASSUME NEW t \in Threads, Faulty(t) PROVE CallbackInv'
  BY ListedSame, <1>5 DEF Faulty, use_after_free, sock_exception,
     bad_function_call, self_join, Fault
<1>6. ASSUME NEW t \in Threads, dtor(t) \/ dtor_members(t) PROVE CallbackInv'
  <2>1. CASE dtor_running(t)
    BY ListedSame, <2>1 DEF dtor_running
  <2>2. CASE dtor_guard(t)
    BY ListedSame, <2>2 DEF dtor_guard
  <2>3. CASE dtor_next(t)
    <3>1. index \in 1..Len(connections) /\ connections[index] \in Listed
      BY <2>3 DEF dtor_next, Listed
    <3> QED BY <3>1, ListedLive, ListedSame, <2>3 DEF dtor_next
  <2>4. CASE dtor_loop_end(t)
    BY ListedSame, <2>4 DEF dtor_loop_end
  <2>5. CASE dtor_stop(t)
    BY ListedSame, <2>5 DEF dtor_stop
  <2>6. CASE dtor_join(t)
    BY ListedSame, <2>6 DEF dtor_join
  <2>7. CASE dtor_members(t)
    <3>1. /\ pc[t] = "d_members" /\ pc' = [pc EXCEPT ![t] = "gone"]
          /\ UNCHANGED <<target, con_open, sock_open, closed_callback>>
      BY <2>7 DEF dtor_members
    <3> QED BY Gone, <3>1, <2>7
  <2> QED BY <1>6, <2>1, <2>2, <2>3, <2>4, <2>5, <2>6, <2>7 DEF dtor
<1>7. ASSUME Application PROVE CallbackInv'
  <2>1. CASE main_guard
    BY ListedSame, <2>1 DEF main_guard
  <2>2. CASE main_unlock
    BY ListedSame, <2>2 DEF main_unlock
  <2>3. CASE close
    BY ListedSame, <2>3 DEF close
  <2>4. CASE \E c \in Cons : main_close_con(c)
    BY ListedSame, ListedLive, <2>4 DEF main_close_con
  <2>5. CASE main_unref
    BY ListedSame, <2>5 DEF main_unref
  <2> QED BY <1>7, <2>1, <2>2, <2>3, <2>4, <2>5 DEF Application
<1>8. CASE UNCHANGED vars
  BY ListedSame, <1>8 DEF vars
<1> QED BY <1>1, <1>2, <1>3, <1>4, <1>5, <1>6, <1>7, <1>8 DEF Next

\* Nothing undefined or fatal happens: what a thread uses is still there, open
\* and complete.
LEMMA SafeStep ==
  ASSUME NetInv, NetInv', UseInv, Next
  PROVE  NoFault'
<1> USE ThreadAssumption DEF NetInv, UseInv, NoFault
<1>1. ASSUME NEW t \in Threads, use_after_free(t) PROVE FALSE
  <2>1. CASE t \in Cons /\ obj[t] = "destroyed"
    BY <1>1, <2>1 DEF use_after_free, DestroyedInv, ClosePC
  <2>2. CASE pc[t] \in ClosePC \ {"cb_guard", "cb_erase", "cb_unlock"}
             /\ obj[target[t]] = "destroyed"
    BY <2>2 DEF DestroyedInv, MakeInv, ClosePC
  <2> QED BY <1>1, <2>1, <2>2 DEF use_after_free
<1>2. ASSUME NEW t \in Threads, sock_exception(t) PROVE FALSE
  BY <1>2 DEF sock_exception, CloserInv, ClosePC
<1>3. ASSUME NEW t \in Threads, bad_function_call(t) PROVE FALSE
  BY <1>3 DEF bad_function_call, Alive, CloserInv, CallbackInv, ClosePC
<1>4. ASSUME NEW t \in Threads, self_join(t) PROVE FALSE
  BY <1>4 DEF self_join, KeepInv, PcInv, HandlerPC, AddPC, ClosePC
<1>5. ASSUME NEW t \in Threads, erase_open(t) PROVE FALSE
  BY <1>5, ErasesClosed
<1>6. ASSUME NEW t \in Threads, dtor_members(t) PROVE NoFault'
  BY <1>6 DEF dtor_members, MutexOutlivesUse
<1>7. ASSUME NEW t \in Adders, Add(t) PROVE NoFault'
  BY <1>7 DEF Add, connected, connected_guard, accepted, accepted_guard,
     set_new_msg_callback, set_closed_callback, push_back, add_unlock, unref
<1>8. ASSUME NEW c \in Cons, Handler(c) \/ peer_close(c) PROVE NoFault'
  BY <1>8 DEF Handler, handle_read, handle_read_error, message_end,
     submit_message, submit_done, callback_close_con, read_done,
     schedule_read_handler, peer_close
<1>9. ASSUME NEW t \in Threads, close_con(t) PROVE NoFault'
  BY <1>9 DEF close_con, close_load, close_store, close_cancel, close_sock,
     call_closed_callback, closed_guard, closed_running, erase, closed_unlock
<1>10. ASSUME NEW t \in Threads, dtor(t) PROVE NoFault'
  BY <1>10 DEF dtor, dtor_running, dtor_guard, dtor_next, dtor_loop_end,
     dtor_stop, dtor_join
<1>11. ASSUME Application PROVE NoFault'
  BY <1>11 DEF Application, main_guard, main_unlock, close, main_close_con,
     main_unref
<1> QED BY <1>1, <1>2, <1>3, <1>4, <1>5, <1>6, <1>7, <1>8, <1>9, <1>10, <1>11
        DEF Next, Faulty

-----------------------------------------------------------------------------
(* The theorem *)

LEMMA UsesAreNetworks == UsesSpec => Spec
<1>1. [UsesNext]_<<vars, use>> => [Next]_vars
  BY DEF UsesNext
<1> QED BY <1>1, PTL DEF UsesSpec, Spec

LEMMA UsesInit == Init /\ use \in Uses => UseInv
<1> SUFFICES ASSUME Init, use \in Uses PROVE UseInv
  OBVIOUS
<1> USE ThreadAssumption DEF Init
<1>1. Listed = {}
  BY DEF Listed
<1>2. CallbackInv /\ NoFault
  BY <1>1 DEF CallbackInv, NoFault, ClosePC
<1>3. \A t \in Threads : pc[t] \in {"none", "idle"}
  OBVIOUS
<1>4. CloserInv /\ OneInv /\ RunInv
  BY <1>3 DEF CloserInv, OneInv, RunInv, ClosePC
<1>5. PeerInv /\ KeepInv /\ DestroyedInv /\ ClientInv /\ ShutInv
  BY <1>3 DEF PeerInv, KeepInv, DestroyedInv, ClientInv, ShutInv, AddPC,
     ClosePC
<1> QED BY <1>2, <1>4, <1>5 DEF UseInv

LEMMA UsesStep ==
  ASSUME NetInv, NetInv', UseInv, [UsesNext]_<<vars, use>>
  PROVE  UseInv'
<1> DEFINE Keeps == /\ CloserInv' /\ OneInv' /\ PeerInv' /\ RunInv'
                    /\ DestroyedInv' /\ ClientInv' /\ ShutInv'
<1>1. CASE UsesNext
  <2> USE <1>1
  <2>1. Next /\ UNCHANGED use /\ CallbackInv'
    BY CallbackStep DEF UsesNext, UseInv
  <2>2. KeepInv' /\ NoFault'
    BY <2>1, KeepStep, SafeStep
  <2>3. ASSUME NEW t \in Adders, Add(t) PROVE Keeps
    <3>1. CASE connected(t) \/ accepted_guard(t)
      BY <3>1, MakeKeeps
    <3>2. CASE ~connected(t) /\ ~accepted_guard(t)
      BY <2>1, <2>3, <3>2, QuietSteps, QuietKeeps
    <3> QED BY <3>1, <3>2
  <2>4. ASSUME NEW c \in Cons, Handler(c) PROVE Keeps
    <3>1. CASE handle_read_error(c) \/ \E d \in Cons : callback_close_con(c, d)
      BY <3>1, EnterSteps, EnterKeeps
    <3>2. CASE /\ ~handle_read_error(c)
               /\ ~\E d \in Cons : callback_close_con(c, d)
      BY <2>1, <2>4, <3>2, QuietSteps, QuietKeeps
    <3> QED BY <3>1, <3>2
  <2>5. ASSUME NEW c \in Cons, peer_close(c) PROVE Keeps
    BY <2>5, LeaveKeeps
  <2>6. ASSUME NEW t \in Threads, close_con(t) PROVE Keeps
    BY <2>1, <2>6, CloseKeeps, EraseKeeps
  <2>7. ASSUME NEW t \in Threads, erase_open(t) PROVE FALSE
    BY <2>7, ErasesClosed
  <2>8. ASSUME NEW t \in Threads, Faulty(t) PROVE Keeps
    BY <2>1, <2>8, QuietSteps, QuietKeeps
  <2>9. ASSUME NEW t \in Threads, dtor(t) PROVE Keeps
    BY <2>1, <2>9, QuietSteps, QuietKeeps, EnterSteps, EnterKeeps
  <2>10. ASSUME NEW t \in Threads, dtor_members(t) PROVE Keeps
    BY <2>1, <2>10, MembersKeep
  <2>11. ASSUME Application PROVE Keeps
    BY <2>1, <2>11, QuietSteps, QuietKeeps, EnterSteps, EnterKeeps
  <2>12. Keeps
    BY <2>1, <2>3, <2>4, <2>5, <2>6, <2>7, <2>8, <2>9, <2>10, <2>11 DEF Next
  <2> QED BY <2>1, <2>2, <2>12 DEF UseInv
<1>2. CASE UNCHANGED <<vars, use>>
  <2>1. Listed' = Listed
    BY <1>2 DEF vars, Listed
  <2>2. CallbackInv' /\ NoFault' /\ KeepInv'
    BY <1>2, <2>1
       DEF vars, UseInv, CallbackInv, NoFault, KeepInv, Making
  <2>3. Quiet
    BY <1>2, <2>1 DEF vars, Quiet, Kept, Over
  <2> QED BY <1>2, <2>2, <2>3, QuietKeeps DEF UseInv
<1> QED BY <1>1, <1>2

\* A process takes no undefined or fatal step: no net_con is used after it is
\* destroyed, nor a socket after it is closed, nor a callback before it is set.
\* It is a client, with one connection at a time whose peer may leave at any
\* moment, or it has any number of connections, whose peers may leave once the
\* network has been closed; the application closes connections after
\* network::close only, from any thread.  UsesNext assumes that no two threads
\* are at once between the test of con_open in close_con and the store that
\* follows, for one connection: that race is the fault of NetworkExit.
THEOREM UsesAreSafe == UsesSpec => []NoFault
<1>1. UsesSpec => []NetInv
  BY UsesAreNetworks, NetAlways
<1>2. NetInv /\ NetInv' /\ UseInv /\ [UsesNext]_<<vars, use>> => UseInv'
  BY UsesStep
<1>3. UseInv => NoFault
  BY DEF UseInv
<1> QED BY <1>1, <1>2, <1>3, UsesInit, PTL DEF UsesSpec
=============================================================================
