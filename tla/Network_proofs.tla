--------------------------- MODULE Network_proofs ---------------------------
(***************************************************************************)
(* Theorems about the connections of a network, for every number of        *)
(* connections and of io threads.                                          *)
(***************************************************************************)
EXTENDS Network, FiniteSetTheorems, TLAPS
-----------------------------------------------------------------------------
(* The invariant *)

\* Which code each thread runs.
PcInv ==
  /\ \A c \in Cons : pc[c] \in HandlerPC \cup ClosePC
  /\ \A t \in Adders :
       pc[t] \in AddPC \cup ClosePC \cup (DtorPC \ {"d_members", "gone"})
  /\ pc[Main] \in {"idle", "holding"} \cup ClosePC \cup DtorPC

\* Who has the guard, and how often.  A handler that closes a connection may
\* be in a message callback or not.
Once  == {"submit", "holding", "arm", "set_closed", "push", "add_unlock",
          "d_loop"}
Outer == {"load", "store", "cancel", "sock_close", "call", "cb_guard"}
Inner == {"cb_running", "cb_erase", "cb_unlock"}

GuardInv ==
  \A t \in Threads :
    /\ pc[t] \in Once => guard_owner = t /\ guard_depth = 1
    /\ pc[t] \in Outer => /\ guard_owner = t => guard_depth = 1
                          /\ t \notin Cons => guard_owner = t
    /\ pc[t] \in Inner => /\ guard_owner = t
                          /\ t \notin Cons => guard_depth = 2
    /\ pc[t] \notin Once \cup Outer \cup Inner => guard_owner # t

\* Thread t runs ~network.
Destroys(t) ==
  refs = {} /\ t \notin Cons /\ pc[t] \in ClosePC \cup (DtorPC \ {"gone"})

\* An adder at work holds a reference, and so does the application until it
\* drops it.  ~network runs when there is none, on one thread.
RefInv ==
  /\ refs \subseteq Adders \cup {Main}
  /\ \A t \in Adders : t \in refs <=> pc[t] \in AddPC \ {"idle"}
  /\ \A t \in Adders :
       pc[t] \in ClosePC \cup (DtorPC \ {"gone"}) => refs = {}
  /\ pc[Main] \in DtorPC \ {"gone"} => refs = {}
  /\ pc[Main] \in ClosePC => Main \in refs \/ refs = {}
  /\ pc[Main] \in {"idle", "holding"} => Main \in refs
  /\ pc[Main] \in DtorPC => Main \notin refs
  /\ \A t, u \in Threads : Destroys(t) /\ Destroys(u) => t = u

\* Threads that have a connection that is not listed yet.
Making(t) ==
  t \in Adders /\ pc[t] \in {"con_guard", "arm", "set_closed", "push"}

\* Connections are numbered as they are made.  The one that an adder is making
\* is live, its own and not listed.
MakeInv ==
  /\ \A c \in Cons : obj[c] = "none" <=> c >= next_id
  /\ \A c \in Cons : obj[c] = "none" => pc[c] = "none"
  /\ \A t \in Adders : Making(t) =>
       /\ target[t] \in Cons \ Listed
       /\ obj[target[t]] = "live"
       /\ pc[t] \in {"con_guard", "arm"} => pc[target[t]] = "none"
  /\ \A t, u \in Adders :
       Making(t) /\ Making(u) /\ target[t] = target[u] => t = u
  /\ \A t \in Threads : pc[t] \in ClosePC => target[t] \in Cons

\* ~network has closed what its loop has passed, but for the connection it is
\* closing, and the list stays as it is until the members are destroyed.
LoopInv ==
  /\ refs # {} => index = 1
  /\ \A t \in Threads : Destroys(t) =>
       /\ pc[t] # "d_running" => ~running
       /\ pc[t] \in {"d_running", "d_guard"} => index = 1
       /\ pc[t] \in ClosePC \cup {"d_loop"} =>
            \A i \in 1..index - 1 :
              /\ i <= Len(connections)
              /\ con_open[connections[i]] =>
                   pc[t] \in {"load", "store"} /\ target[t] = connections[i]
       /\ pc[t] \in {"d_stop", "d_join", "d_members"} =>
            \A c \in Listed : ~con_open[c]

\* A closed callback that is past its test of running holds the guard: it is
\* through before network::close or the loop of ~network goes on.
EraseInv ==
  \A t \in Threads :
    pc[t] = "cb_erase" => running \/ \E u \in Threads : pc[u] = "d_guard"

\* After the join no io thread is in a handler.
JoinInv ==
  /\ pc[Main] \in {"d_join", "d_members"} => stopped
  /\ pc[Main] = "d_members" =>
       \A u \in IoThreads : pc[u] \in {"none", "idle", "armed", "done"}

\* A socket outlives the flag of its connection only while a thread is about to
\* close it.
SockInv ==
  \A c \in Cons :
    sock_open[c] /\ ~con_open[c] =>
      \E t \in Threads : pc[t] \in {"cancel", "sock_close"} /\ target[t] = c

NetInv ==
  /\ TypeOK /\ PcInv /\ GuardInv /\ RefInv /\ MakeInv /\ LoopInv
  /\ EraseInv /\ JoinInv /\ SockInv /\ ListedAreLive /\ MutexOutlivesUse

-----------------------------------------------------------------------------
(* What the actions do, as the steps below need it *)

USE DEF Threads, IoThreads, Step, Move, Sound, Going, Go, Lock, Unlock,
        netVars, guardVars, conVars, workVars, threadVars

\* Where close_con goes back to.
LEMMA Returns ==
  ASSUME NetInv, NEW t \in Threads, pc[t] \in ClosePC
  PROVE  /\ t \in Cons => AfterClose(t) \in {"submit", "done"}
         /\ t \notin Cons /\ refs = {} => AfterClose(t) = "d_loop"
         /\ t \notin Cons /\ refs # {} => AfterClose(t) = "holding" /\ t = Main
BY ThreadAssumption DEF NetInv, AfterClose, RefInv

LEMMA Arms ==
  ASSUME NetInv, NEW t \in Adders, set_new_msg_callback(t)
  PROVE  /\ pc[t] = "arm" /\ target[t] \in Cons /\ pc[target[t]] = "none"
         /\ \A u \in Threads :
              pc'[u] = IF u = target[t] THEN "armed"
                       ELSE IF u = t THEN "set_closed" ELSE pc[u]
         /\ UNCHANGED <<netVars, guardVars, conVars, workVars, fault>>
<1>1. Making(t)
  BY DEF set_new_msg_callback, Making
<1> QED BY <1>1, ThreadAssumption
        DEF NetInv, TypeOK, MakeInv, set_new_msg_callback

LEMMA ListedSame == UNCHANGED connections => Listed' = Listed
BY DEF Listed

LEMMA ListedLive ==
  ASSUME NetInv
  PROVE  Listed \subseteq Cons /\ \A c \in Listed : obj[c] = "live"
BY DEF NetInv, TypeOK, ListedAreLive, Listed

\* A new connection is not in use yet.
LEMMA Fresh ==
  ASSUME NetInv, next_id \in Cons
  PROVE  /\ next_id \notin Listed /\ pc[next_id] = "none"
         /\ \A u \in Adders : Making(u) => target[u] # next_id
         /\ \A c \in Cons : c >= next_id + 1 <=> c >= next_id /\ c # next_id
         /\ next_id \in Nat
<1>1. obj[next_id] = "none" /\ pc[next_id] = "none" /\ next_id \in Nat
  BY DEF NetInv, TypeOK, MakeInv
<1> QED BY <1>1, ListedLive, ThreadAssumption DEF NetInv, MakeInv, Cons

LEMMA Pushes ==
  ASSUME NetInv, NEW t \in Adders, push_back(t)
  PROVE  /\ target[t] \in Cons \ Listed /\ obj[target[t]] = "live"
         /\ Listed' = Listed \cup {target[t]}
<1>1. Making(t)
  BY DEF push_back, Making
<1>2. connections' = Append(connections, target[t])
  BY DEF push_back
<1>3. target[t] \in Cons \ Listed /\ obj[target[t]] = "live"
  BY <1>1 DEF NetInv, MakeInv
<1>4. /\ Len(connections') = Len(connections) + 1 /\ Len(connections) \in Nat
      /\ \A i \in 1..Len(connections) : connections'[i] = connections[i]
      /\ connections'[Len(connections) + 1] = target[t]
  BY <1>2, <1>3 DEF NetInv, TypeOK
<1>5. Listed' = Listed \cup {target[t]}
  BY <1>4 DEF Listed
<1> QED BY <1>3, <1>5

LEMMA Erases ==
  ASSUME NetInv, NEW t \in Threads,
         erase(t) \/ erase_open(t) \/ dtor_members(t)
  PROVE  /\ Listed' \subseteq Listed
         /\ \A c \in Listed' : obj'[c] = obj[c]
         /\ \A c \in Cons \ Listed : obj'[c] = obj[c]
         /\ \A c \in Listed \ Listed' : obj'[c] = "destroyed"
         /\ obj' \in [Cons -> {"none", "live", "destroyed"}]
         /\ connections' \in {connections, <<>>, Tail(connections)}
<1> USE DEF NetInv, TypeOK
<1>1. CASE erase(t) /\ connections # <<>>
  <2>1. /\ obj' = [obj EXCEPT ![Head(connections)] = "destroyed"]
        /\ connections' = Tail(connections)
    BY <1>1 DEF erase
  <2>2. /\ Len(connections) \in Nat \ {0} /\ Head(connections) = connections[1]
        /\ Len(connections') = Len(connections) - 1
        /\ \A i \in 1..Len(connections') :
             connections'[i] = connections[i + 1] /\ i + 1 # 1
             /\ i + 1 \in 1..Len(connections)
    BY <1>1, <2>1
  <2>3. 1 \in 1..Len(connections) /\ connections[1] \in Cons
    BY <2>2
  <2>4. Listed' \subseteq Listed /\ connections[1] \notin Listed'
    BY <2>2, <2>3 DEF Listed, ListedAreLive
  <2>5. connections[1] \in Listed
    BY <2>3 DEF Listed
  <2>6. ASSUME NEW c \in Listed \ Listed' PROVE c = connections[1]
    <3>1. PICK i \in 1..Len(connections) : c = connections[i]
      BY DEF Listed
    <3>2. i # 1 => i - 1 \in 1..Len(connections') /\ connections'[i - 1] = c
      BY <2>2, <3>1
    <3>3. i # 1 => c \in Listed'
      BY <3>2 DEF Listed
    <3> QED BY <3>1, <3>3
  <2> QED BY <2>1, <2>2, <2>3, <2>4, <2>5, <2>6, ListedLive
<1>2. CASE erase(t) /\ connections = <<>>
  BY <1>2, ListedLive, ListedSame DEF erase
<1>3. CASE erase_open(t) \/ dtor_members(t)
  <2>1. /\ obj' = [c \in Cons |-> IF c \in Listed THEN "destroyed" ELSE obj[c]]
        /\ connections' = <<>>
    BY <1>3 DEF erase_open, dtor_members
  <2>2. Listed' = {}
    BY <2>1 DEF Listed
  <2> QED BY <2>1, <2>2, ListedLive
<1> QED BY <1>1, <1>2, <1>3

\* An adder at work keeps ~network from starting.
LEMMA AddersRefer ==
  ASSUME NetInv, NEW t \in Adders, Add(t)
  PROVE  refs # {} /\ (unref(t) \/ refs' # {})
BY DEF Add, NetInv, PcInv, RefInv, AddPC, connected, connected_guard, accepted,
   accepted_guard, set_new_msg_callback, set_closed_callback, push_back,
   add_unlock, unref

\* Nothing is erased once ~network loops over the list.
LEMMA NoErase ==
  ASSUME NetInv, NEW t \in Threads, pc[t] = "cb_erase",
         NEW u \in Threads, Destroys(u)
  PROVE  pc[u] \in {"d_running", "d_guard"}
<1> USE ThreadAssumption DEF NetInv
<1>1. CASE running
  BY <1>1 DEF LoopInv
<1>2. ASSUME NEW w \in Threads, pc[w] = "d_guard"
      PROVE  pc[u] \in {"d_running", "d_guard"}
  <2>1. Destroys(w)
    BY <1>2 DEF PcInv, RefInv, Destroys, HandlerPC, ClosePC, DtorPC
  <2> QED BY <1>2, <2>1 DEF RefInv
<1> QED BY <1>1, <1>2 DEF EraseInv

LEMMA Locks ==
  ASSUME NetInv, NEW t \in Threads, pc[t] \notin Once \cup Inner,
         connections_mut!Lock(t)
  PROVE  /\ guard_owner' \in Threads \cup {Free} /\ guard_depth' \in 0..2
         /\ guard_owner' = Free <=> guard_depth' = 0
BY ThreadAssumption DEF NetInv, TypeOK, GuardInv, connections_mut!Lock

LEMMA Unlocks ==
  ASSUME NetInv, NEW t \in Threads, pc[t] \in Once \cup Inner,
         connections_mut!Unlock(t)
  PROVE  /\ guard_owner' \in Threads \cup {Free} /\ guard_depth' \in 0..2
         /\ guard_owner' = Free <=> guard_depth' = 0
BY ThreadAssumption DEF NetInv, TypeOK, GuardInv, connections_mut!Unlock

\* A connection is listed once, so the list is no longer than the bound.
LEMMA ListBounded == ASSUME NetInv PROVE Len(connections) <= MaxCons
<1> DEFINE D == 1..Len(connections)
<1>1. Len(connections) \in Nat /\ connections \in [D -> Cons]
  BY DEF NetInv, TypeOK
<1>2. connections \in Injection(D, Cons)
  BY <1>1 DEF NetInv, ListedAreLive, Injection, IsInjective
<1>3. IsFiniteSet(Cons) /\ Cardinality(Cons) = MaxCons
  BY ThreadAssumption, FS_Interval DEF Cons
<1>4. Cardinality(D) = Len(connections)
  BY <1>1, FS_Interval
<1> QED BY <1>2, <1>3, <1>4, FS_Injection

-----------------------------------------------------------------------------
(* Where the threads are, the guard, and the references *)

LEMMA PcStep ==
  ASSUME NetInv, [Next]_vars
  PROVE  PcInv'
<1> USE ThreadAssumption DEF NetInv, TypeOK, PcInv, HandlerPC, AddPC, ClosePC,
        MainPC, DtorPC
<1>1. ASSUME NEW t \in Adders, Add(t) PROVE PcInv'
  <2>1. CASE connected(t)
    BY <2>1 DEF connected
  <2>2. CASE connected_guard(t)
    BY <2>2 DEF connected_guard
  <2>3. CASE accepted(t)
    BY <2>3 DEF accepted
  <2>4. CASE accepted_guard(t)
    BY <2>4 DEF accepted_guard
  <2>5. CASE set_new_msg_callback(t)
    BY Arms, <2>5
  <2>6. CASE set_closed_callback(t)
    BY <2>6 DEF set_closed_callback
  <2>7. CASE push_back(t)
    BY <2>7 DEF push_back
  <2>8. CASE add_unlock(t)
    BY <2>8 DEF add_unlock
  <2>9. CASE unref(t)
    BY <2>9 DEF unref
  <2> QED BY <1>1, <2>1, <2>2, <2>3, <2>4, <2>5, <2>6, <2>7, <2>8, <2>9 DEF Add
<1>2. ASSUME NEW c \in Cons, Handler(c) PROVE PcInv'
  BY <1>2 DEF Handler, handle_read, handle_read_error, message_end,
     submit_message, submit_done, callback_close_con, read_done,
     schedule_read_handler
<1>3. ASSUME NEW c \in Cons, peer_close(c) PROVE PcInv'
  BY <1>3 DEF peer_close
<1>4. ASSUME NEW t \in Threads, close_con(t) \/ erase_open(t) PROVE PcInv'
  <2>1. CASE close_load(t)
    BY Returns, <2>1 DEF close_load
  <2>2. CASE close_store(t)
    BY <2>2 DEF close_store
  <2>3. CASE close_cancel(t)
    BY <2>3 DEF close_cancel
  <2>4. CASE close_sock(t)
    BY <2>4 DEF close_sock
  <2>5. CASE call_closed_callback(t)
    BY <2>5 DEF call_closed_callback
  <2>6. CASE closed_guard(t)
    BY <2>6 DEF closed_guard
  <2>7. CASE closed_running(t)
    BY <2>7 DEF closed_running
  <2>8. CASE erase(t)
    BY <2>8 DEF erase
  <2>9. CASE closed_unlock(t)
    BY Returns, <2>9 DEF closed_unlock
  <2>10. CASE erase_open(t)
    BY <2>10 DEF erase_open
  <2> QED BY <1>4, <2>1, <2>2, <2>3, <2>4, <2>5, <2>6, <2>7, <2>8, <2>9, <2>10
             DEF close_con
<1>5. ASSUME NEW t \in Threads, Faulty(t) PROVE PcInv'
  BY <1>5 DEF Faulty, use_after_free, sock_exception, bad_function_call,
     self_join, Fault
<1>6. ASSUME NEW t \in Threads, dtor(t) \/ dtor_members(t) PROVE PcInv'
  BY <1>6 DEF dtor, dtor_running, dtor_guard, dtor_next, dtor_loop_end,
     dtor_stop, dtor_join, dtor_members
<1>7. ASSUME Application PROVE PcInv'
  BY <1>7 DEF Application, main_guard, main_unlock, close, main_close_con,
     main_unref
<1>8. CASE UNCHANGED vars
  BY <1>8 DEF vars
<1> QED BY <1>1, <1>2, <1>3, <1>4, <1>5, <1>6, <1>7, <1>8 DEF Next

LEMMA GuardStep ==
  ASSUME NetInv, [Next]_vars
  PROVE  GuardInv'
<1> USE ThreadAssumption DEF NetInv, TypeOK, PcInv, GuardInv, Once, Outer,
        Inner, connections_mut!Lock, connections_mut!Unlock, AfterClose,
        InCallback, HandlerPC, AddPC, ClosePC, MainPC, DtorPC
<1>1. ASSUME NEW t \in Adders, Add(t) PROVE GuardInv'
  <2>1. CASE connected(t)
    BY <2>1 DEF connected
  <2>2. CASE connected_guard(t)
    BY <2>2 DEF connected_guard
  <2>3. CASE accepted(t)
    BY <2>3 DEF accepted
  <2>4. CASE accepted_guard(t)
    BY <2>4 DEF accepted_guard
  <2>5. CASE set_new_msg_callback(t)
    BY Arms, <2>5
  <2>6. CASE set_closed_callback(t)
    BY <2>6 DEF set_closed_callback
  <2>7. CASE push_back(t)
    BY <2>7 DEF push_back
  <2>8. CASE add_unlock(t)
    BY <2>8 DEF add_unlock
  <2>9. CASE unref(t)
    BY <2>9 DEF unref
  <2> QED BY <1>1, <2>1, <2>2, <2>3, <2>4, <2>5, <2>6, <2>7, <2>8, <2>9 DEF Add
<1>2. ASSUME NEW c \in Cons, Handler(c) PROVE GuardInv'
  BY <1>2 DEF Handler, handle_read, handle_read_error, message_end,
     submit_message, submit_done, callback_close_con, read_done,
     schedule_read_handler
<1>3. ASSUME NEW c \in Cons, peer_close(c) PROVE GuardInv'
  BY <1>3 DEF peer_close
<1>4. ASSUME NEW t \in Threads, close_con(t) \/ erase_open(t) PROVE GuardInv'
  BY <1>4 DEF close_con, close_load, close_store, close_cancel, close_sock,
     call_closed_callback, closed_guard, closed_running, erase, closed_unlock,
     erase_open
<1>5. ASSUME NEW t \in Threads, Faulty(t) PROVE GuardInv'
  BY <1>5 DEF Faulty, use_after_free, sock_exception, bad_function_call,
     self_join, Fault
<1>6. ASSUME NEW t \in Threads, dtor(t) \/ dtor_members(t) PROVE GuardInv'
  BY <1>6 DEF dtor, dtor_running, dtor_guard, dtor_next, dtor_loop_end,
     dtor_stop, dtor_join, dtor_members
<1>7. ASSUME Application PROVE GuardInv'
  BY <1>7 DEF Application, main_guard, main_unlock, close, main_close_con,
     main_unref
<1>8. CASE UNCHANGED vars
  BY <1>8 DEF vars
<1> QED BY <1>1, <1>2, <1>3, <1>4, <1>5, <1>6, <1>7, <1>8 DEF Next

LEMMA RefStep ==
  ASSUME NetInv, [Next]_vars
  PROVE  RefInv'
<1> USE ThreadAssumption DEF NetInv, TypeOK, PcInv, RefInv, Destroys,
        HandlerPC, AddPC, ClosePC, MainPC, DtorPC
<1>1. ASSUME NEW t \in Adders, Add(t) PROVE RefInv'
  <2>1. CASE connected(t)
    BY <2>1 DEF connected
  <2>2. CASE connected_guard(t)
    BY <2>2 DEF connected_guard
  <2>3. CASE accepted(t)
    BY <2>3 DEF accepted
  <2>4. CASE accepted_guard(t)
    BY <2>4 DEF accepted_guard
  <2>5. CASE set_new_msg_callback(t)
    BY Arms, <2>5
  <2>6. CASE set_closed_callback(t)
    BY <2>6 DEF set_closed_callback
  <2>7. CASE push_back(t)
    BY <2>7 DEF push_back
  <2>8. CASE add_unlock(t)
    BY <2>8 DEF add_unlock
  <2>9. CASE unref(t)
    BY <2>9 DEF unref
  <2> QED BY <1>1, <2>1, <2>2, <2>3, <2>4, <2>5, <2>6, <2>7, <2>8, <2>9 DEF Add
<1>2. ASSUME NEW c \in Cons, Handler(c) PROVE RefInv'
  BY <1>2 DEF Handler, handle_read, handle_read_error, message_end,
     submit_message, submit_done, callback_close_con, read_done,
     schedule_read_handler
<1>3. ASSUME NEW c \in Cons, peer_close(c) PROVE RefInv'
  BY <1>3 DEF peer_close
<1>4. ASSUME NEW t \in Threads, close_con(t) \/ erase_open(t) PROVE RefInv'
  <2>1. CASE close_load(t)
    BY Returns, <2>1 DEF close_load
  <2>2. CASE close_store(t)
    BY <2>2 DEF close_store
  <2>3. CASE close_cancel(t)
    BY <2>3 DEF close_cancel
  <2>4. CASE close_sock(t)
    BY <2>4 DEF close_sock
  <2>5. CASE call_closed_callback(t)
    BY <2>5 DEF call_closed_callback
  <2>6. CASE closed_guard(t)
    BY <2>6 DEF closed_guard
  <2>7. CASE closed_running(t)
    BY <2>7 DEF closed_running
  <2>8. CASE erase(t)
    BY <2>8 DEF erase
  <2>9. CASE closed_unlock(t)
    BY Returns, <2>9 DEF closed_unlock
  <2>10. CASE erase_open(t)
    BY <2>10 DEF erase_open
  <2> QED BY <1>4, <2>1, <2>2, <2>3, <2>4, <2>5, <2>6, <2>7, <2>8, <2>9, <2>10
             DEF close_con
<1>5. ASSUME NEW t \in Threads, Faulty(t) PROVE RefInv'
  BY <1>5 DEF Faulty, use_after_free, sock_exception, bad_function_call,
     self_join, Fault
<1>6. ASSUME NEW t \in Threads, dtor(t) \/ dtor_members(t) PROVE RefInv'
  <2>1. CASE dtor_running(t)
    BY <2>1 DEF dtor_running
  <2>2. CASE dtor_guard(t)
    BY <2>2 DEF dtor_guard
  <2>3. CASE dtor_next(t)
    BY <2>3 DEF dtor_next
  <2>4. CASE dtor_loop_end(t)
    BY <2>4 DEF dtor_loop_end
  <2>5. CASE dtor_stop(t)
    BY <2>5 DEF dtor_stop
  <2>6. CASE dtor_join(t)
    BY <2>6 DEF dtor_join
  <2>7. CASE dtor_members(t)
    BY <2>7 DEF dtor_members
  <2> QED BY <1>6, <2>1, <2>2, <2>3, <2>4, <2>5, <2>6, <2>7 DEF dtor
<1>7. ASSUME Application PROVE RefInv'
  BY <1>7 DEF Application, main_guard, main_unlock, close, main_close_con,
     main_unref
<1>8. CASE UNCHANGED vars
  BY <1>8 DEF vars
<1> QED BY <1>1, <1>2, <1>3, <1>4, <1>5, <1>6, <1>7, <1>8 DEF Next

-----------------------------------------------------------------------------
(* The connections and the list *)

LEMMA MakeStep ==
  ASSUME NetInv, [Next]_vars
  PROVE  MakeInv'
<1> USE ThreadAssumption DEF NetInv, TypeOK, PcInv, MakeInv, Making, HandlerPC,
        AddPC, ClosePC, MainPC, DtorPC
<1>1. ASSUME NEW t \in Adders, Add(t) PROVE MakeInv'
  <2>1. CASE connected(t)
    BY Fresh, ListedSame, <2>1 DEF connected, new_connection
  <2>2. CASE connected_guard(t)
    BY ListedSame, <2>2 DEF connected_guard
  <2>3. CASE accepted(t)
    BY ListedSame, <2>3 DEF accepted
  <2>4. CASE accepted_guard(t)
    BY Fresh, ListedSame, <2>4 DEF accepted_guard, new_connection
  <2>5. CASE set_new_msg_callback(t)
    BY Arms, ListedSame, <2>5
  <2>6. CASE set_closed_callback(t)
    BY ListedSame, <2>6 DEF set_closed_callback
  <2>7. CASE push_back(t)
    <3>1. /\ pc[t] = "push" /\ pc' = [pc EXCEPT ![t] = "add_unlock"]
          /\ UNCHANGED <<next_id, target, obj>>
      BY <2>7 DEF push_back
    <3>2. Making(t) /\ \A u \in Adders : Making(u)' => Making(u) /\ u # t
      BY <3>1
    <3>3. \A u \in Adders : Making(u)' =>
            target[u] \in Cons \ Listed /\ target[u] # target[t]
      BY <3>2
    <3> QED BY <3>1, <3>2, <3>3, <2>7, Pushes
  <2>8. CASE add_unlock(t)
    BY ListedSame, <2>8 DEF add_unlock
  <2>9. CASE unref(t)
    BY ListedSame, <2>9 DEF unref
  <2> QED BY <1>1, <2>1, <2>2, <2>3, <2>4, <2>5, <2>6, <2>7, <2>8, <2>9 DEF Add
<1>2. ASSUME NEW c \in Cons, Handler(c) PROVE MakeInv'
  <2>1. CASE handle_read(c)
    BY ListedSame, <2>1 DEF handle_read
  <2>2. CASE handle_read_error(c)
    BY ListedSame, <2>2 DEF handle_read_error
  <2>3. CASE message_end(c)
    BY ListedSame, <2>3 DEF message_end
  <2>4. CASE submit_message(c)
    BY ListedSame, <2>4 DEF submit_message
  <2>5. CASE submit_done(c)
    BY ListedSame, <2>5 DEF submit_done
  <2>6. CASE \E d \in Cons : callback_close_con(c, d)
    BY ListedSame, ListedLive, <2>6 DEF callback_close_con
  <2>7. CASE read_done(c)
    BY ListedSame, <2>7 DEF read_done
  <2>8. CASE schedule_read_handler(c)
    BY ListedSame, <2>8 DEF schedule_read_handler
  <2> QED BY <1>2, <2>1, <2>2, <2>3, <2>4, <2>5, <2>6, <2>7, <2>8 DEF Handler
<1>3. ASSUME NEW c \in Cons, peer_close(c) PROVE MakeInv'
  BY ListedSame, <1>3 DEF peer_close
<1>4. ASSUME NEW t \in Threads, close_con(t) \/ erase_open(t) PROVE MakeInv'
  <2>1. CASE close_load(t)
    BY Returns, ListedSame, <2>1 DEF close_load
  <2>2. CASE close_store(t)
    BY ListedSame, <2>2 DEF close_store
  <2>3. CASE close_cancel(t)
    BY ListedSame, <2>3 DEF close_cancel
  <2>4. CASE close_sock(t)
    BY ListedSame, <2>4 DEF close_sock
  <2>5. CASE call_closed_callback(t)
    BY ListedSame, <2>5 DEF call_closed_callback
  <2>6. CASE closed_guard(t)
    BY ListedSame, <2>6 DEF closed_guard
  <2>7. CASE closed_running(t)
    BY ListedSame, <2>7 DEF closed_running
  <2>8. CASE erase(t)
    <3>1. /\ pc[t] = "cb_erase" /\ pc' = [pc EXCEPT ![t] = "cb_unlock"]
          /\ UNCHANGED <<next_id, target>>
      BY <2>8 DEF erase
    <3>2. \A u \in Adders : Making(u)' => Making(u)
      BY <3>1
    <3>3. \A u \in Adders : Making(u) => target[u] \in Cons \ Listed
      OBVIOUS
    <3>4. /\ \A c \in Cons : obj'[c] = "none" <=> obj[c] = "none"
          /\ \A u \in Adders : Making(u) => obj'[target[u]] = "live"
          /\ Listed' \subseteq Listed
      BY <3>3, <2>8, Erases, ListedLive
    <3> QED BY <3>1, <3>2, <3>3, <3>4
  <2>9. CASE closed_unlock(t)
    BY Returns, ListedSame, <2>9 DEF closed_unlock
  <2>10. CASE erase_open(t)
    <3>1. /\ pc[t] = "cb_erase" /\ pc' = [pc EXCEPT ![t] = "cb_unlock"]
          /\ UNCHANGED <<next_id, target>>
      BY <2>10 DEF erase_open
    <3>2. \A u \in Adders : Making(u)' => Making(u)
      BY <3>1
    <3>3. \A u \in Adders : Making(u) => target[u] \in Cons \ Listed
      OBVIOUS
    <3>4. /\ \A c \in Cons : obj'[c] = "none" <=> obj[c] = "none"
          /\ \A u \in Adders : Making(u) => obj'[target[u]] = "live"
          /\ Listed' \subseteq Listed
      BY <3>3, <2>10, Erases, ListedLive
    <3> QED BY <3>1, <3>2, <3>3, <3>4
  <2> QED BY <1>4, <2>1, <2>2, <2>3, <2>4, <2>5, <2>6, <2>7, <2>8, <2>9, <2>10
             DEF close_con
<1>5. ASSUME NEW t \in Threads, Faulty(t) PROVE MakeInv'
  BY ListedSame, <1>5 DEF Faulty, use_after_free, sock_exception,
     bad_function_call, self_join, Fault
<1>6. ASSUME NEW t \in Threads, dtor(t) \/ dtor_members(t) PROVE MakeInv'
  <2>1. CASE dtor_running(t)
    BY ListedSame, <2>1 DEF dtor_running
  <2>2. CASE dtor_guard(t)
    BY ListedSame, <2>2 DEF dtor_guard
  <2>3. CASE dtor_next(t)
    BY ListedSame, <2>3 DEF dtor_next
  <2>4. CASE dtor_loop_end(t)
    BY ListedSame, <2>4 DEF dtor_loop_end
  <2>5. CASE dtor_stop(t)
    BY ListedSame, <2>5 DEF dtor_stop
  <2>6. CASE dtor_join(t)
    BY ListedSame, <2>6 DEF dtor_join
  <2>7. CASE dtor_members(t)
    <3>1. /\ pc[t] = "d_members" /\ pc' = [pc EXCEPT ![t] = "gone"]
          /\ UNCHANGED <<next_id, target>>
      BY <2>7 DEF dtor_members
    <3>2. \A u \in Adders : Making(u)' => Making(u)
      BY <3>1
    <3>3. \A u \in Adders : Making(u) => target[u] \in Cons \ Listed
      OBVIOUS
    <3>4. /\ \A c \in Cons : obj'[c] = "none" <=> obj[c] = "none"
          /\ \A u \in Adders : Making(u) => obj'[target[u]] = "live"
          /\ Listed' \subseteq Listed
      BY <3>3, <2>7, Erases, ListedLive
    <3> QED BY <3>1, <3>2, <3>3, <3>4
  <2> QED BY <1>6, <2>1, <2>2, <2>3, <2>4, <2>5, <2>6, <2>7 DEF dtor
<1>7. ASSUME Application PROVE MakeInv'
  <2>1. CASE main_guard
    BY ListedSame, <2>1 DEF main_guard
  <2>2. CASE main_unlock
    BY ListedSame, <2>2 DEF main_unlock
  <2>3. CASE close
    BY ListedSame, <2>3 DEF close
  <2>4. CASE \E c \in Cons : main_close_con(c)
    BY ListedSame, ListedLive, <2>4 DEF main_close_con
  <2>5. CASE main_unref
    BY ListedSame, <2>5 DEF main_unref
  <2> QED BY <1>7, <2>1, <2>2, <2>3, <2>4, <2>5 DEF Application
<1>8. CASE UNCHANGED vars
  BY ListedSame, <1>8 DEF vars
<1> QED BY <1>1, <1>2, <1>3, <1>4, <1>5, <1>6, <1>7, <1>8 DEF Next

LEMMA ListStep ==
  ASSUME NetInv, [Next]_vars
  PROVE  ListedAreLive'
<1> USE ThreadAssumption DEF NetInv, TypeOK, ListedAreLive
<1>1. ASSUME NEW t \in Adders, Add(t) PROVE ListedAreLive'
  <2>1. CASE connected(t)
    <3>1. /\ next_id \in Cons /\ obj' = [obj EXCEPT ![next_id] = "live"]
          /\ UNCHANGED connections
      BY <2>1 DEF connected, new_connection
    <3>2. \A i \in 1..Len(connections) : obj'[connections[i]] = "live"
      BY <3>1
    <3> QED BY <3>1, <3>2
  <2>2. CASE connected_guard(t)
    BY <2>2 DEF connected_guard
  <2>3. CASE accepted(t)
    BY <2>3 DEF accepted
  <2>4. CASE accepted_guard(t)
    <3>1. /\ next_id \in Cons /\ obj' = [obj EXCEPT ![next_id] = "live"]
          /\ UNCHANGED connections
      BY <2>4 DEF accepted_guard, new_connection
    <3>2. \A i \in 1..Len(connections) : obj'[connections[i]] = "live"
      BY <3>1
    <3> QED BY <3>1, <3>2
  <2>5. CASE set_new_msg_callback(t)
    BY <2>5 DEF set_new_msg_callback
  <2>6. CASE set_closed_callback(t)
    BY <2>6 DEF set_closed_callback
  <2>7. CASE push_back(t)
    <3>1. /\ connections' = Append(connections, target[t]) /\ UNCHANGED obj
          /\ target[t] \in Cons \ Listed /\ obj[target[t]] = "live"
      BY Pushes, <2>7 DEF push_back
    <3>2. \A i \in 1..Len(connections) : connections[i] # target[t]
      BY <3>1 DEF Listed
    <3>3. /\ Len(connections') = Len(connections) + 1
          /\ \A i \in 1..Len(connections) : connections'[i] = connections[i]
          /\ connections'[Len(connections) + 1] = target[t]
          /\ \A i \in 1..Len(connections') :
               i \in 1..Len(connections) \/ i = Len(connections) + 1
      BY <3>1
    <3>4. \A i \in 1..Len(connections') : obj[connections'[i]] = "live"
      BY <3>1, <3>3
    <3>5. \A i, j \in 1..Len(connections') :
            connections'[i] = connections'[j] => i = j
      BY <3>2, <3>3
    <3> QED BY <3>1, <3>4, <3>5
  <2>8. CASE add_unlock(t)
    BY <2>8 DEF add_unlock
  <2>9. CASE unref(t)
    BY <2>9 DEF unref
  <2> QED BY <1>1, <2>1, <2>2, <2>3, <2>4, <2>5, <2>6, <2>7, <2>8, <2>9 DEF Add
<1>2. ASSUME NEW c \in Cons, Handler(c) PROVE ListedAreLive'
  BY <1>2 DEF Handler, handle_read, handle_read_error, message_end,
     submit_message, submit_done, callback_close_con, read_done,
     schedule_read_handler
<1>3. ASSUME NEW c \in Cons, peer_close(c) PROVE ListedAreLive'
  BY <1>3 DEF peer_close
<1>4. ASSUME NEW t \in Threads, close_con(t) \/ erase_open(t)
      PROVE  ListedAreLive'
  <2>1. CASE close_load(t)
    BY <2>1 DEF close_load
  <2>2. CASE close_store(t)
    BY <2>2 DEF close_store
  <2>3. CASE close_cancel(t)
    BY <2>3 DEF close_cancel
  <2>4. CASE close_sock(t)
    BY <2>4 DEF close_sock
  <2>5. CASE call_closed_callback(t)
    BY <2>5 DEF call_closed_callback
  <2>6. CASE closed_guard(t)
    BY <2>6 DEF closed_guard
  <2>7. CASE closed_running(t)
    BY <2>7 DEF closed_running
  <2>8. CASE erase(t)
    <3>1. \A i \in 1..Len(connections') : connections'[i] \in Listed'
      BY DEF Listed
    <3>2. \A c \in Listed' : obj'[c] = "live"
      BY Erases, ListedLive, <2>8
    <3>3. connections' \in {connections, <<>>, Tail(connections)}
      BY Erases, <2>8
    <3>4. CASE connections' = Tail(connections) /\ connections # <<>>
      BY <3>1, <3>2, <3>4
    <3>5. CASE connections' = <<>>
      BY <3>5
    <3>6. CASE connections' = connections
      BY <3>1, <3>2, <3>6
    <3> QED BY <3>3, <3>4, <3>5, <3>6, <2>8 DEF erase
  <2>9. CASE closed_unlock(t)
    BY <2>9 DEF closed_unlock
  <2>10. CASE erase_open(t)
    BY <2>10 DEF erase_open
  <2> QED BY <1>4, <2>1, <2>2, <2>3, <2>4, <2>5, <2>6, <2>7, <2>8, <2>9, <2>10
             DEF close_con
<1>5. ASSUME NEW t \in Threads, Faulty(t) PROVE ListedAreLive'
  BY <1>5 DEF Faulty, use_after_free, sock_exception, bad_function_call,
     self_join, Fault
<1>6. ASSUME NEW t \in Threads, dtor(t) \/ dtor_members(t) PROVE ListedAreLive'
  BY <1>6 DEF dtor, dtor_running, dtor_guard, dtor_next, dtor_loop_end,
     dtor_stop, dtor_join, dtor_members
<1>7. ASSUME Application PROVE ListedAreLive'
  BY <1>7 DEF Application, main_guard, main_unlock, close, main_close_con,
     main_unref
<1>8. CASE UNCHANGED vars
  BY <1>8 DEF vars
<1> QED BY <1>1, <1>2, <1>3, <1>4, <1>5, <1>6, <1>7, <1>8 DEF Next

-----------------------------------------------------------------------------
(* ~network *)

LEMMA LoopStep ==
  ASSUME NetInv, [Next]_vars
  PROVE  LoopInv'
<1> USE ThreadAssumption DEF NetInv, TypeOK, PcInv, RefInv, LoopInv, Destroys,
        HandlerPC, AddPC, ClosePC, MainPC, DtorPC
<1>1. ASSUME NEW t \in Adders, Add(t) PROVE LoopInv'
  <2>1. index = 1 /\ UNCHANGED index
    BY <1>1, AddersRefer
       DEF Add, LoopInv, connected, connected_guard, accepted, accepted_guard,
           set_new_msg_callback, set_closed_callback, push_back, add_unlock,
           unref
  <2>2. CASE refs' # {}
    BY <2>1, <2>2 DEF LoopInv, Destroys
  <2>3. CASE unref(t)
    BY <2>1, <2>3 DEF unref, LoopInv, Destroys, RefInv, PcInv, TypeOK,
       HandlerPC, AddPC, ClosePC, MainPC, DtorPC
  <2> QED BY <1>1, <2>2, <2>3, AddersRefer
<1>2. ASSUME NEW c \in Cons, Handler(c) PROVE LoopInv'
  BY ListedSame, <1>2 DEF Handler, handle_read, handle_read_error, message_end,
     submit_message, submit_done, callback_close_con, read_done,
     schedule_read_handler
<1>3. ASSUME NEW c \in Cons, peer_close(c) PROVE LoopInv'
  BY ListedSame, <1>3 DEF peer_close
<1>4. ASSUME NEW t \in Threads, close_con(t) \/ erase_open(t) PROVE LoopInv'
  <2>1. CASE close_load(t)
    BY Returns, ListedSame, <2>1 DEF close_load
  <2>2. CASE close_store(t)
    BY ListedSame, <2>2 DEF close_store
  <2>3. CASE close_cancel(t)
    BY ListedSame, <2>3 DEF close_cancel
  <2>4. CASE close_sock(t)
    BY ListedSame, <2>4 DEF close_sock
  <2>5. CASE call_closed_callback(t)
    BY ListedSame, <2>5 DEF call_closed_callback
  <2>6. CASE closed_guard(t)
    BY ListedSame, <2>6 DEF closed_guard
  <2>7. CASE closed_running(t)
    BY ListedSame, <2>7 DEF closed_running
  <2>8. CASE erase(t)
    BY NoErase, <2>8 DEF erase
  <2>9. CASE closed_unlock(t)
    BY Returns, ListedSame, <2>9 DEF closed_unlock
  <2>10. CASE erase_open(t)
    BY NoErase, <2>10 DEF erase_open
  <2> QED BY <1>4, <2>1, <2>2, <2>3, <2>4, <2>5, <2>6, <2>7, <2>8, <2>9, <2>10
             DEF close_con
<1>5. ASSUME NEW t \in Threads, Faulty(t) PROVE LoopInv'
  BY ListedSame, <1>5 DEF Faulty, use_after_free, sock_exception,
     bad_function_call, self_join, Fault
<1>6. ASSUME NEW t \in Threads, dtor(t) \/ dtor_members(t) PROVE LoopInv'
  <2>1. CASE dtor_running(t)
    BY ListedSame, <2>1 DEF dtor_running
  <2>2. CASE dtor_guard(t)
    BY ListedSame, <2>2 DEF dtor_guard
  <2>3. CASE dtor_next(t)
    <3>1. /\ pc[t] = "d_loop" /\ pc' = [pc EXCEPT ![t] = "load"]
          /\ index <= Len(connections) /\ index' = index + 1
          /\ target' = [target EXCEPT ![t] = connections[index]]
          /\ UNCHANGED <<refs, running, connections, con_open>>
      BY <2>3 DEF dtor_next
    <3>2. Destroys(t) /\ \A u \in Threads : Destroys(u)' => u = t
      BY <3>1
    <3>3. \A i \in 1..index - 1 :
            i <= Len(connections) /\ ~con_open[connections[i]]
      BY <3>1, <3>2
    <3>4. \A i \in 1..index' - 1 : i \in 1..index - 1 \/ i = index
      BY <3>1
    <3>5. target'[t] = connections[index] /\ pc'[t] = "load"
      BY <3>1
    <3> QED BY <3>1, <3>2, <3>3, <3>4, <3>5
  <2>4. CASE dtor_loop_end(t)
    <3>1. /\ pc[t] = "d_loop" /\ pc' = [pc EXCEPT ![t] = "d_stop"]
          /\ index > Len(connections)
          /\ UNCHANGED <<refs, running, connections, con_open, index, target>>
      BY <2>4 DEF dtor_loop_end
    <3>2. Destroys(t) /\ \A u \in Threads : Destroys(u)' => u = t
      BY <3>1
    <3>3. \A i \in 1..Len(connections) : ~con_open[connections[i]]
      BY <3>1, <3>2
    <3>4. \A c \in Listed : ~con_open[c]
      BY <3>3 DEF Listed
    <3>5. pc'[t] = "d_stop"
      BY <3>1
    <3> QED BY <3>1, <3>2, <3>4, <3>5, ListedSame
  <2>5. CASE dtor_stop(t)
    BY ListedSame, <2>5 DEF dtor_stop
  <2>6. CASE dtor_join(t)
    BY ListedSame, <2>6 DEF dtor_join
  <2>7. CASE dtor_members(t)
    BY ListedSame, <2>7 DEF dtor_members
  <2> QED BY <1>6, <2>1, <2>2, <2>3, <2>4, <2>5, <2>6, <2>7 DEF dtor
<1>7. ASSUME Application PROVE LoopInv'
  BY ListedSame, <1>7 DEF Application, main_guard, main_unlock, close,
     main_close_con, main_unref
<1>8. CASE UNCHANGED vars
  BY ListedSame, <1>8 DEF vars
<1> QED BY <1>1, <1>2, <1>3, <1>4, <1>5, <1>6, <1>7, <1>8 DEF Next

LEMMA EraseStep ==
  ASSUME NetInv, [Next]_vars
  PROVE  EraseInv'
<1> USE ThreadAssumption DEF NetInv, TypeOK, EraseInv, HandlerPC, AddPC,
        ClosePC, MainPC, DtorPC
<1>1. ASSUME NEW t \in Adders, Add(t) PROVE EraseInv'
  <2>1. CASE connected(t)
    BY <2>1 DEF connected
  <2>2. CASE connected_guard(t)
    BY <2>2 DEF connected_guard
  <2>3. CASE accepted(t)
    BY <2>3 DEF accepted
  <2>4. CASE accepted_guard(t)
    BY <2>4 DEF accepted_guard
  <2>5. CASE set_new_msg_callback(t)
    <3>1. /\ \A u \in Threads : pc[u] = "d_guard" => pc'[u] = "d_guard"
          /\ \A u \in Threads : pc'[u] = "cb_erase" => pc[u] = "cb_erase"
          /\ UNCHANGED running
      BY Arms, <2>5
    <3> QED BY <3>1
  <2>6. CASE set_closed_callback(t)
    BY <2>6 DEF set_closed_callback
  <2>7. CASE push_back(t)
    BY <2>7 DEF push_back
  <2>8. CASE add_unlock(t)
    BY <2>8 DEF add_unlock
  <2>9. CASE unref(t)
    BY <2>9 DEF unref
  <2> QED BY <1>1, <2>1, <2>2, <2>3, <2>4, <2>5, <2>6, <2>7, <2>8, <2>9 DEF Add
<1>2. ASSUME NEW c \in Cons, Handler(c) PROVE EraseInv'
  BY <1>2 DEF Handler, handle_read, handle_read_error, message_end,
     submit_message, submit_done, callback_close_con, read_done,
     schedule_read_handler
<1>3. ASSUME NEW c \in Cons, peer_close(c) PROVE EraseInv'
  BY <1>3 DEF peer_close
<1>4. ASSUME NEW t \in Threads, close_con(t) \/ erase_open(t) PROVE EraseInv'
  <2>1. CASE close_load(t)
    BY Returns, <2>1 DEF close_load
  <2>2. CASE close_store(t)
    BY <2>2 DEF close_store
  <2>3. CASE close_cancel(t)
    BY <2>3 DEF close_cancel
  <2>4. CASE close_sock(t)
    BY <2>4 DEF close_sock
  <2>5. CASE call_closed_callback(t)
    BY <2>5 DEF call_closed_callback
  <2>6. CASE closed_guard(t)
    BY <2>6 DEF closed_guard
  <2>7. CASE closed_running(t)
    BY <2>7 DEF closed_running
  <2>8. CASE erase(t)
    BY <2>8 DEF erase
  <2>9. CASE closed_unlock(t)
    BY Returns, <2>9 DEF closed_unlock
  <2>10. CASE erase_open(t)
    BY <2>10 DEF erase_open
  <2> QED BY <1>4, <2>1, <2>2, <2>3, <2>4, <2>5, <2>6, <2>7, <2>8, <2>9, <2>10
             DEF close_con
<1>5. ASSUME NEW t \in Threads, Faulty(t) PROVE EraseInv'
  BY <1>5 DEF Faulty, use_after_free, sock_exception, bad_function_call,
     self_join, Fault
<1>6. ASSUME NEW t \in Threads, dtor(t) \/ dtor_members(t) PROVE EraseInv'
  <2>1. CASE dtor_running(t)
    BY <2>1 DEF dtor_running
  <2>2. CASE dtor_guard(t)
    BY <2>2 DEF dtor_guard, connections_mut!Lock, GuardInv, Inner
  <2>3. CASE dtor_next(t)
    BY <2>3 DEF dtor_next
  <2>4. CASE dtor_loop_end(t)
    BY <2>4 DEF dtor_loop_end
  <2>5. CASE dtor_stop(t)
    BY <2>5 DEF dtor_stop
  <2>6. CASE dtor_join(t)
    BY <2>6 DEF dtor_join
  <2>7. CASE dtor_members(t)
    BY <2>7 DEF dtor_members
  <2> QED BY <1>6, <2>1, <2>2, <2>3, <2>4, <2>5, <2>6, <2>7 DEF dtor
<1>7. ASSUME Application PROVE EraseInv'
  <2>1. CASE main_guard
    BY <2>1 DEF main_guard
  <2>2. CASE main_unlock
    BY <2>2 DEF main_unlock
  <2>3. CASE close
    BY <2>3 DEF close, GuardInv, Inner, Once, Outer
  <2>4. CASE \E c \in Cons : main_close_con(c)
    BY <2>4 DEF main_close_con
  <2>5. CASE main_unref
    BY <2>5 DEF main_unref
  <2> QED BY <1>7, <2>1, <2>2, <2>3, <2>4, <2>5 DEF Application
<1>8. CASE UNCHANGED vars
  BY <1>8 DEF vars
<1> QED BY <1>1, <1>2, <1>3, <1>4, <1>5, <1>6, <1>7, <1>8 DEF Next

LEMMA JoinStep ==
  ASSUME NetInv, [Next]_vars
  PROVE  JoinInv'
<1> USE ThreadAssumption DEF NetInv, TypeOK, PcInv, JoinInv, HandlerPC, AddPC,
        ClosePC, MainPC, DtorPC
<1>1. ASSUME NEW t \in Adders, Add(t) PROVE JoinInv'
  <2>1. CASE connected(t)
    BY <2>1 DEF connected
  <2>2. CASE connected_guard(t)
    BY <2>2 DEF connected_guard
  <2>3. CASE accepted(t)
    BY <2>3 DEF accepted
  <2>4. CASE accepted_guard(t)
    BY <2>4 DEF accepted_guard
  <2>5. CASE set_new_msg_callback(t)
    BY Arms, <2>5
  <2>6. CASE set_closed_callback(t)
    BY <2>6 DEF set_closed_callback
  <2>7. CASE push_back(t)
    BY <2>7 DEF push_back
  <2>8. CASE add_unlock(t)
    BY <2>8 DEF add_unlock
  <2>9. CASE unref(t)
    BY <2>9 DEF unref
  <2> QED BY <1>1, <2>1, <2>2, <2>3, <2>4, <2>5, <2>6, <2>7, <2>8, <2>9 DEF Add
<1>2. ASSUME NEW c \in Cons, Handler(c) PROVE JoinInv'
  BY <1>2 DEF Handler, handle_read, handle_read_error, message_end,
     submit_message, submit_done, callback_close_con, read_done,
     schedule_read_handler
<1>3. ASSUME NEW c \in Cons, peer_close(c) PROVE JoinInv'
  BY <1>3 DEF peer_close
<1>4. ASSUME NEW t \in Threads, close_con(t) \/ erase_open(t) PROVE JoinInv'
  <2>1. CASE close_load(t)
    BY Returns, <2>1 DEF close_load
  <2>2. CASE close_store(t)
    BY <2>2 DEF close_store
  <2>3. CASE close_cancel(t)
    BY <2>3 DEF close_cancel
  <2>4. CASE close_sock(t)
    BY <2>4 DEF close_sock
  <2>5. CASE call_closed_callback(t)
    BY <2>5 DEF call_closed_callback
  <2>6. CASE closed_guard(t)
    BY <2>6 DEF closed_guard
  <2>7. CASE closed_running(t)
    BY <2>7 DEF closed_running
  <2>8. CASE erase(t)
    BY <2>8 DEF erase
  <2>9. CASE closed_unlock(t)
    BY Returns, <2>9 DEF closed_unlock
  <2>10. CASE erase_open(t)
    BY <2>10 DEF erase_open
  <2> QED BY <1>4, <2>1, <2>2, <2>3, <2>4, <2>5, <2>6, <2>7, <2>8, <2>9, <2>10
             DEF close_con
<1>5. ASSUME NEW t \in Threads, Faulty(t) PROVE JoinInv'
  BY <1>5 DEF Faulty, use_after_free, sock_exception, bad_function_call,
     self_join, Fault
<1>6. ASSUME NEW t \in Threads, dtor(t) \/ dtor_members(t) PROVE JoinInv'
  BY <1>6 DEF dtor, dtor_running, dtor_guard, dtor_next, dtor_loop_end,
     dtor_stop, dtor_join, dtor_members
<1>7. ASSUME Application PROVE JoinInv'
  BY <1>7 DEF Application, main_guard, main_unlock, close, main_close_con,
     main_unref
<1>8. CASE UNCHANGED vars
  BY <1>8 DEF vars
<1> QED BY <1>1, <1>2, <1>3, <1>4, <1>5, <1>6, <1>7, <1>8 DEF Next

LEMMA SockStep ==
  ASSUME NetInv, [Next]_vars
  PROVE  SockInv'
<1> USE ThreadAssumption DEF NetInv, TypeOK, PcInv, SockInv, HandlerPC, AddPC,
        ClosePC, MainPC, DtorPC
<1>1. ASSUME NEW t \in Adders, Add(t) PROVE SockInv'
  <2>1. CASE connected(t)
    BY <2>1 DEF connected, new_connection
  <2>2. CASE connected_guard(t)
    BY <2>2 DEF connected_guard
  <2>3. CASE accepted(t)
    BY <2>3 DEF accepted
  <2>4. CASE accepted_guard(t)
    BY <2>4 DEF accepted_guard, new_connection
  <2>5. CASE set_new_msg_callback(t)
    <3>1. /\ \A u \in Threads : pc[u] \in {"cancel", "sock_close"} =>
                                  pc'[u] \in {"cancel", "sock_close"}
          /\ UNCHANGED <<sock_open, con_open, target>>
      BY Arms, <2>5
    <3> QED BY <3>1
  <2>6. CASE set_closed_callback(t)
    BY <2>6 DEF set_closed_callback
  <2>7. CASE push_back(t)
    BY <2>7 DEF push_back
  <2>8. CASE add_unlock(t)
    BY <2>8 DEF add_unlock
  <2>9. CASE unref(t)
    BY <2>9 DEF unref
  <2> QED BY <1>1, <2>1, <2>2, <2>3, <2>4, <2>5, <2>6, <2>7, <2>8, <2>9 DEF Add
<1>2. ASSUME NEW c \in Cons, Handler(c) PROVE SockInv'
  BY <1>2 DEF Handler, handle_read, handle_read_error, message_end,
     submit_message, submit_done, callback_close_con, read_done,
     schedule_read_handler
<1>3. ASSUME NEW c \in Cons, peer_close(c) PROVE SockInv'
  BY <1>3 DEF peer_close
<1>4. ASSUME NEW t \in Threads, close_con(t) \/ erase_open(t) PROVE SockInv'
  <2>1. CASE close_load(t)
    BY Returns, <2>1 DEF close_load
  <2>2. CASE close_store(t)
    BY <2>2 DEF close_store
  <2>3. CASE close_cancel(t)
    BY <2>3 DEF close_cancel
  <2>4. CASE close_sock(t)
    BY <2>4 DEF close_sock
  <2>5. CASE call_closed_callback(t)
    BY <2>5 DEF call_closed_callback
  <2>6. CASE closed_guard(t)
    BY <2>6 DEF closed_guard
  <2>7. CASE closed_running(t)
    BY <2>7 DEF closed_running
  <2>8. CASE erase(t)
    BY <2>8 DEF erase
  <2>9. CASE closed_unlock(t)
    BY Returns, <2>9 DEF closed_unlock
  <2>10. CASE erase_open(t)
    BY <2>10 DEF erase_open
  <2> QED BY <1>4, <2>1, <2>2, <2>3, <2>4, <2>5, <2>6, <2>7, <2>8, <2>9, <2>10
             DEF close_con
<1>5. ASSUME NEW t \in Threads, Faulty(t) PROVE SockInv'
  BY <1>5 DEF Faulty, use_after_free, sock_exception, bad_function_call,
     self_join, Fault
<1>6. ASSUME NEW t \in Threads, dtor(t) \/ dtor_members(t) PROVE SockInv'
  BY <1>6 DEF dtor, dtor_running, dtor_guard, dtor_next, dtor_loop_end,
     dtor_stop, dtor_join, dtor_members
<1>7. ASSUME Application PROVE SockInv'
  BY <1>7 DEF Application, main_guard, main_unlock, close, main_close_con,
     main_unref
<1>8. CASE UNCHANGED vars
  BY <1>8 DEF vars
<1> QED BY <1>1, <1>2, <1>3, <1>4, <1>5, <1>6, <1>7, <1>8 DEF Next

LEMMA FaultStep ==
  ASSUME NetInv, [Next]_vars
  PROVE  MutexOutlivesUse'
<1> USE ThreadAssumption DEF NetInv, MutexOutlivesUse
<1>1. ASSUME NEW t \in Adders, Add(t) PROVE MutexOutlivesUse'
  BY <1>1 DEF Add, connected, connected_guard, accepted, accepted_guard,
     set_new_msg_callback, set_closed_callback, push_back, add_unlock, unref
<1>2. ASSUME NEW c \in Cons, Handler(c) PROVE MutexOutlivesUse'
  BY <1>2 DEF Handler, handle_read, handle_read_error, message_end,
     submit_message, submit_done, callback_close_con, read_done,
     schedule_read_handler
<1>3. ASSUME NEW c \in Cons, peer_close(c) PROVE MutexOutlivesUse'
  BY <1>3 DEF peer_close
<1>4. ASSUME NEW t \in Threads, close_con(t) \/ erase_open(t)
      PROVE  MutexOutlivesUse'
  BY <1>4 DEF close_con, close_load, close_store, close_cancel, close_sock,
     call_closed_callback, closed_guard, closed_running, erase, closed_unlock,
     erase_open
<1>5. ASSUME NEW t \in Threads, Faulty(t) PROVE MutexOutlivesUse'
  BY <1>5 DEF Faulty, use_after_free, sock_exception, bad_function_call,
     self_join, Fault
<1>6. ASSUME NEW t \in Threads, dtor(t) \/ dtor_members(t)
      PROVE  MutexOutlivesUse'
  <2>1. CASE dtor_running(t)
    BY <2>1 DEF dtor_running
  <2>2. CASE dtor_guard(t)
    BY <2>2 DEF dtor_guard
  <2>3. CASE dtor_next(t)
    BY <2>3 DEF dtor_next
  <2>4. CASE dtor_loop_end(t)
    BY <2>4 DEF dtor_loop_end
  <2>5. CASE dtor_stop(t)
    BY <2>5 DEF dtor_stop
  <2>6. CASE dtor_join(t)
    BY <2>6 DEF dtor_join
  <2>7. CASE dtor_members(t)
    <3>1. Destroys(t) /\ pc[t] = "d_members"
      BY <2>7 DEF dtor_members, PcInv, RefInv, Destroys, HandlerPC, ClosePC,
               DtorPC
    <3>2. \A c \in Listed : ~con_open[c]
      BY <3>1 DEF LoopInv
    <3> QED BY <3>2, <2>7 DEF dtor_members
  <2> QED BY <1>6, <2>1, <2>2, <2>3, <2>4, <2>5, <2>6, <2>7 DEF dtor
<1>7. ASSUME Application PROVE MutexOutlivesUse'
  BY <1>7 DEF Application, main_guard, main_unlock, close, main_close_con,
     main_unref
<1>8. CASE UNCHANGED vars
  BY <1>8 DEF vars
<1> QED BY <1>1, <1>2, <1>3, <1>4, <1>5, <1>6, <1>7, <1>8 DEF Next

-----------------------------------------------------------------------------
(* Types *)

LEMMA TypeStep ==
  ASSUME NetInv, [Next]_vars
  PROVE  TypeOK'
<1> USE ThreadAssumption DEF NetInv, TypeOK, Faults, HandlerPC, AddPC, ClosePC,
        MainPC, DtorPC
<1>1. ASSUME NEW t \in Adders, Add(t) PROVE TypeOK'
  <2>1. CASE connected(t)
    <3>1. next_id + 1 \in 0..MaxCons
      BY <2>1 DEF connected, new_connection, Cons
    <3> QED BY <3>1, <2>1 DEF connected, new_connection
  <2>2. CASE connected_guard(t)
    BY Locks, <2>2 DEF connected_guard, Once, Inner
  <2>3. CASE accepted(t)
    BY <2>3 DEF accepted
  <2>4. CASE accepted_guard(t)
    <3>1. next_id + 1 \in 0..MaxCons
      BY <2>4 DEF accepted_guard, new_connection, Cons
    <3> QED BY <3>1, Locks, <2>4 DEF accepted_guard, new_connection, Once,
               Inner
  <2>5. CASE set_new_msg_callback(t)
    BY <2>5 DEF set_new_msg_callback
  <2>6. CASE set_closed_callback(t)
    BY <2>6 DEF set_closed_callback
  <2>7. CASE push_back(t)
    <3>1. Append(connections, target[t]) \in Seq(Cons)
      BY Pushes, <2>7
    <3> QED BY <3>1, <2>7 DEF push_back
  <2>8. CASE add_unlock(t)
    BY Unlocks, <2>8 DEF add_unlock, Once, Inner
  <2>9. CASE unref(t)
    BY <2>9 DEF unref
  <2> QED BY <1>1, <2>1, <2>2, <2>3, <2>4, <2>5, <2>6, <2>7, <2>8, <2>9 DEF Add
<1>2. ASSUME NEW c \in Cons, Handler(c) PROVE TypeOK'
  <2>1. CASE handle_read(c)
    BY <2>1 DEF handle_read
  <2>2. CASE handle_read_error(c)
    BY <2>2 DEF handle_read_error
  <2>3. CASE message_end(c)
    BY <2>3 DEF message_end
  <2>4. CASE submit_message(c)
    BY Locks, <2>4 DEF submit_message, Once, Inner
  <2>5. CASE submit_done(c)
    BY Unlocks, <2>5 DEF submit_done, Once, Inner
  <2>6. CASE \E d \in Cons : callback_close_con(c, d)
    BY <2>6 DEF callback_close_con
  <2>7. CASE read_done(c)
    BY <2>7 DEF read_done
  <2>8. CASE schedule_read_handler(c)
    BY <2>8 DEF schedule_read_handler
  <2> QED BY <1>2, <2>1, <2>2, <2>3, <2>4, <2>5, <2>6, <2>7, <2>8 DEF Handler
<1>3. ASSUME NEW c \in Cons, peer_close(c) PROVE TypeOK'
  BY <1>3 DEF peer_close
<1>4. ASSUME NEW t \in Threads, close_con(t) \/ erase_open(t) PROVE TypeOK'
  <2>1. CASE close_load(t)
    BY Returns, <2>1 DEF close_load
  <2>2. CASE close_store(t)
    BY <2>2 DEF close_store
  <2>3. CASE close_cancel(t)
    BY <2>3 DEF close_cancel
  <2>4. CASE close_sock(t)
    BY <2>4 DEF close_sock
  <2>5. CASE call_closed_callback(t)
    BY <2>5 DEF call_closed_callback
  <2>6. CASE closed_guard(t)
    BY Locks, <2>6 DEF closed_guard, Once, Inner
  <2>7. CASE closed_running(t)
    BY <2>7 DEF closed_running
  <2>8. CASE erase(t)
    <3>1. connections' \in Seq(Cons)
      <4>1. CASE connections = <<>>
        BY <2>8, <4>1 DEF erase
      <4>2. CASE connections # <<>>
        <5>1. Tail(connections) \in Seq(Cons)
          BY <4>2
        <5> QED BY <2>8, <4>2, <5>1 DEF erase
      <4> QED BY <4>1, <4>2
    <3> QED BY <3>1, <2>8 DEF erase
  <2>9. CASE closed_unlock(t)
    BY Unlocks, Returns, <2>9 DEF closed_unlock, Once, Inner
  <2>10. CASE erase_open(t)
    BY <2>10 DEF erase_open
  <2> QED BY <1>4, <2>1, <2>2, <2>3, <2>4, <2>5, <2>6, <2>7, <2>8, <2>9, <2>10
             DEF close_con
<1>5. ASSUME NEW t \in Threads, Faulty(t) PROVE TypeOK'
  BY <1>5 DEF Faulty, use_after_free, sock_exception, bad_function_call,
     self_join, Fault
<1>6. ASSUME NEW t \in Threads, dtor(t) \/ dtor_members(t) PROVE TypeOK'
  <2>1. CASE dtor_running(t)
    BY <2>1 DEF dtor_running
  <2>2. CASE dtor_guard(t)
    BY Locks, <2>2 DEF dtor_guard, Once, Inner
  <2>3. CASE dtor_next(t)
    <3>1. index + 1 \in 1..MaxCons + 1 /\ connections[index] \in Cons
      BY ListBounded, <2>3 DEF dtor_next
    <3> QED BY <3>1, <2>3 DEF dtor_next
  <2>4. CASE dtor_loop_end(t)
    BY Unlocks, <2>4 DEF dtor_loop_end, Once, Inner
  <2>5. CASE dtor_stop(t)
    BY <2>5 DEF dtor_stop
  <2>6. CASE dtor_join(t)
    BY <2>6 DEF dtor_join
  <2>7. CASE dtor_members(t)
    BY <2>7 DEF dtor_members
  <2> QED BY <1>6, <2>1, <2>2, <2>3, <2>4, <2>5, <2>6, <2>7 DEF dtor
<1>7. ASSUME Application PROVE TypeOK'
  <2>1. CASE main_guard
    BY Locks, <2>1 DEF main_guard, Once, Inner
  <2>2. CASE main_unlock
    BY Unlocks, <2>2 DEF main_unlock, Once, Inner
  <2>3. CASE close
    BY <2>3 DEF close
  <2>4. CASE \E c \in Cons : main_close_con(c)
    BY <2>4 DEF main_close_con
  <2>5. CASE main_unref
    BY <2>5 DEF main_unref
  <2> QED BY <1>7, <2>1, <2>2, <2>3, <2>4, <2>5 DEF Application
<1>8. CASE UNCHANGED vars
  BY <1>8 DEF vars
<1> QED BY <1>1, <1>2, <1>3, <1>4, <1>5, <1>6, <1>7, <1>8 DEF Next
-----------------------------------------------------------------------------
(* The invariant *)

LEMMA NetInit == Init => NetInv
<1> SUFFICES ASSUME Init PROVE NetInv
  OBVIOUS
<1> USE ThreadAssumption DEF Init, connections_mut!Unlocked
<1>1. TypeOK
  <2>1. <<>> \in Seq(Cons)
    OBVIOUS
  <2>2. /\ 0 \in 0..MaxCons /\ 1 \in 1..MaxCons + 1 /\ 0 \in 0..2
        /\ guard_owner = Free /\ guard_depth = 0
    OBVIOUS
  <2>3. /\ pc \in [Threads -> HandlerPC \cup AddPC]
        /\ target \in [Threads -> Cons \cup {NoCon}]
    BY DEF HandlerPC, AddPC
  <2> QED BY <2>1, <2>2, <2>3 DEF TypeOK, Faults
<1>2. PcInv /\ GuardInv /\ RefInv
  BY DEF PcInv, GuardInv, RefInv, Destroys, Once, Outer, Inner, HandlerPC,
         AddPC, ClosePC, DtorPC
<1>3. MakeInv
  BY DEF MakeInv, Making, ClosePC, Cons
<1>4. LoopInv /\ EraseInv /\ JoinInv /\ SockInv
  BY DEF LoopInv, Destroys, EraseInv, JoinInv, SockInv
<1>5. ListedAreLive /\ MutexOutlivesUse
  BY DEF ListedAreLive, MutexOutlivesUse
<1> QED BY <1>1, <1>2, <1>3, <1>4, <1>5 DEF NetInv

LEMMA NetAlways == Spec => []NetInv
<1>1. NetInv /\ [Next]_vars => NetInv'
  <2> SUFFICES ASSUME NetInv, [Next]_vars PROVE NetInv'
    OBVIOUS
  <2> QED BY TypeStep, PcStep, GuardStep, RefStep, MakeStep, ListStep,
             LoopStep, EraseStep, JoinStep, SockStep, FaultStep
          DEF NetInv
<1> QED BY NetInit, <1>1, PTL DEF Spec

-----------------------------------------------------------------------------
(* The theorems *)

\* Every variable has its type; nobody locks connections_mut a third time, and
\* the loop of ~network ends within the list.
THEOREM NetworkTypeCorrect == Spec => []TypeOK
<1>1. NetInv => TypeOK
  BY DEF NetInv
<1> QED BY <1>1, NetAlways, PTL

\* The list holds net_cons that exist, each of them once, up to the first
\* undefined step.
THEOREM ListIsLive == Spec => []ListedAreLive
<1>1. NetInv => ListedAreLive
  BY DEF NetInv
<1> QED BY <1>1, NetAlways, PTL

\* When ~network destroys its members, no ~net_con locks connections_mut.
THEOREM NoLockAfterDestruction == Spec => []MutexOutlivesUse
<1>1. NetInv => MutexOutlivesUse
  BY DEF NetInv
<1> QED BY <1>1, NetAlways, PTL

\* ... and the sockets of all connections in the list are closed.
THEOREM SocketsCloseFirst == Spec => []SocketsClosedFirst
<1>1. NetInv => SocketsClosedFirst
  <2> SUFFICES ASSUME NetInv, NEW t \in Threads, pc[t] = "d_members",
                      NEW c \in Listed
               PROVE  ~sock_open[c]
    BY DEF SocketsClosedFirst
  <2> USE ThreadAssumption DEF NetInv
  <2>1. t = Main
    BY DEF PcInv, HandlerPC, AddPC, ClosePC, DtorPC
  <2>2. Destroys(t)
    BY <2>1 DEF RefInv, Destroys, DtorPC
  <2>3. c \in Cons /\ ~con_open[c]
    BY <2>2, ListedLive DEF LoopInv
  <2>4. \A u \in Threads : pc[u] \notin {"cancel", "sock_close"}
    BY <2>1 DEF JoinInv
  <2> QED BY <2>3, <2>4 DEF SockInv
<1> QED BY <1>1, NetAlways, PTL

\* The closed callback erases nothing once the application has closed the
\* network, nor while ~network loops over the list, whatever the callback has
\* read of running before that.
THEOREM ClosedNetworkErasesNothing == Spec => ClosedNetworkKeepsAll
<1>1. ASSUME NetInv, [Next]_vars
      PROVE  (~running /\ refs # {}) \/ InLoop =>
               Len(connections') >= Len(connections)
  <2> USE ThreadAssumption
  <2> SUFFICES ASSUME (~running /\ refs # {}) \/ InLoop
               PROVE  Len(connections') >= Len(connections)
    OBVIOUS
  <2>0. Len(connections) \in Nat
    BY <1>1 DEF NetInv, TypeOK
  <2>1. CASE UNCHANGED connections
    BY <2>0, <2>1
  <2>2. ASSUME NEW t \in Adders, push_back(t)
        PROVE  Len(connections') >= Len(connections)
    <3>1. /\ connections' = Append(connections, target[t])
          /\ target[t] \in Cons /\ connections \in Seq(Cons)
      BY <1>1, <2>2, Pushes DEF push_back, NetInv, TypeOK
    <3> QED BY <2>0, <3>1
  <2>3. ASSUME InLoop
        PROVE  \E u \in Threads :
                 Destroys(u) /\ pc[u] \in ClosePC \cup {"d_loop"}
    BY <2>3 DEF InLoop, Destroys, DtorPC
  <2>4. ASSUME NEW t \in Threads, pc[t] = "cb_erase" PROVE FALSE
    <3>1. CASE InLoop
      BY <1>1, <2>3, <2>4, <3>1, NoErase DEF ClosePC
    <3>2. CASE ~running /\ refs # {}
      <4>1. PICK u \in Threads : pc[u] = "d_guard"
        BY <1>1, <2>4, <3>2 DEF NetInv, EraseInv
      <4> QED BY <1>1, <3>2, <4>1
              DEF NetInv, PcInv, RefInv, HandlerPC, ClosePC, DtorPC
    <3> QED BY <3>1, <3>2
  <2>5. ASSUME NEW t \in Threads, pc[t] = "d_members" PROVE FALSE
    <3>1. Destroys(t)
      BY <1>1, <2>5
         DEF NetInv, PcInv, RefInv, Destroys, HandlerPC, ClosePC, DtorPC
    <3>2. InLoop
      BY <3>1 DEF Destroys
    <3> QED BY <1>1, <2>3, <2>5, <3>1, <3>2 DEF NetInv, RefInv, ClosePC
  <2>6. \/ UNCHANGED connections
        \/ \E t \in Adders : push_back(t)
        \/ \E t \in Threads : pc[t] \in {"cb_erase", "d_members"}
    <3>1. ASSUME NEW t \in Adders, Add(t)
          PROVE  UNCHANGED connections \/ push_back(t)
      BY <3>1 DEF Add, connected, connected_guard, accepted, accepted_guard,
         set_new_msg_callback, set_closed_callback, add_unlock, unref
    <3>2. ASSUME NEW c \in Cons, Handler(c) \/ peer_close(c)
          PROVE  UNCHANGED connections
      BY <3>2 DEF Handler, handle_read, handle_read_error, message_end,
         submit_message, submit_done, callback_close_con, read_done,
         schedule_read_handler, peer_close
    <3>3. ASSUME NEW t \in Threads,
                 close_con(t) \/ erase_open(t) \/ Faulty(t)
          PROVE  UNCHANGED connections \/ pc[t] = "cb_erase"
      BY <3>3 DEF close_con, close_load, close_store, close_cancel, close_sock,
         call_closed_callback, closed_guard, closed_running, erase, erase_open,
         closed_unlock, Faulty, use_after_free, sock_exception,
         bad_function_call, self_join, Fault
    <3>4. ASSUME NEW t \in Threads, dtor(t) \/ dtor_members(t)
          PROVE  UNCHANGED connections \/ pc[t] = "d_members"
      BY <3>4 DEF dtor, dtor_running, dtor_guard, dtor_next, dtor_loop_end,
         dtor_stop, dtor_join, dtor_members
    <3>5. ASSUME Application PROVE UNCHANGED connections
      BY <3>5 DEF Application, main_guard, main_unlock, close, main_close_con,
         main_unref
    <3> QED BY <1>1, <3>1, <3>2, <3>3, <3>4, <3>5 DEF Next, vars
  <2> QED BY <2>1, <2>2, <2>4, <2>5, <2>6
<1> QED BY <1>1, NetAlways, PTL DEF Spec, ClosedNetworkKeepsAll
=============================================================================
