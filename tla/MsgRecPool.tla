----------------------------- MODULE MsgRecPool -----------------------------
(***************************************************************************)
(* The way of a received message from the io threads to the application:   *)
(* the lambda that network::add_connection gives each net_con, msg_rec_pool*)
(* and network::process_new_msgs.                                          *)
(*                                                                         *)
(* A connection's handlers run one at a time, on its recv_strand, so that  *)
(* a connection is a thread here.  It takes connections_mut, then mut.  An *)
(* application thread takes mut in notify_listeners and connections_mut in *)
(* its callback, or before it calls process_new_msgs.                      *)
(***************************************************************************)
EXTENDS Integers, Sequences, FiniteSets

CONSTANTS
  Cons,             \* connections, named by their con_id
  Apps,             \* application threads that call process_new_msgs
  Free,             \* the owner of a mutex that nobody holds
  MaxMsgs           \* bound: messages each connection receives

ASSUME ThreadAssumption ==
  /\ Cons \cap Apps = {}
  /\ Free \notin Cons \cup Apps
ASSUME BoundAssumption == MaxMsgs \in Nat

VARIABLES
  guard_owner, guard_depth,   \* connections_mut of the network
  defer_msg_signal, \* queue the messages, or call back on the io thread?
  mut_owner,        \* mut of the msg_rec_pool
  rec_msg_vec,      \* queue of messages
  rec_msg_ids,      \* queue of the connections they came from
  callback_set,     \* has new_msg_callback a target?
  r_pc,             \* where the handler of a connection is
  received,         \* how many messages a connection has completed
  a_pc,             \* where an application thread is
  in_hand,          \* what notify_listeners has popped: id and msg
  (* history *)
  submitted,        \* calls of submit_message
  missed,           \* messages handed out before new_msg_callback was set
  heard             \* calls of new_msg_callback

guardVars  == <<guard_owner, guard_depth>>
queueVars  == <<mut_owner, rec_msg_vec, rec_msg_ids>>
readerVars == <<r_pc, received, submitted>>
appVars    == <<callback_set, a_pc, in_hand>>
outVars    == <<missed, heard>>
vars == <<defer_msg_signal, guardVars, queueVars, readerVars, appVars, outVars>>

connections_mut ==
  INSTANCE RecursiveMutex WITH owner <- guard_owner, depth <- guard_depth

Threads == Cons \cup Apps

\* The n-th message of connection c.
Msg == [from : Cons, nr : 1..MaxMsgs]

\* A message as new_msg_callback gets it.
Note == [id : Cons, msg : Msg]

ReaderPC == {"idle", "guard", "submit", "push_msg", "push_id", "callback",
             "unlock"}
AppPC == {"off", "check", "lock", "pop", "call", "want", "reply"}

None == [id |-> Free, msg |-> Free]

Init ==
  /\ defer_msg_signal \in BOOLEAN    \* defer_received_msgs of network::create
  /\ connections_mut!Unlocked
  /\ mut_owner = Free
  /\ rec_msg_vec = <<>> /\ rec_msg_ids = <<>>
  /\ callback_set = FALSE
  /\ r_pc = [c \in Cons |-> "idle"]
  /\ received = [c \in Cons |-> 0]
  /\ a_pc = [a \in Apps |-> "off"]
  /\ in_hand = [a \in Apps |-> None]
  /\ submitted = <<>> /\ missed = <<>> /\ heard = <<>>

\* The handler of connection c is at p, and goes to q.
Step(c, p, q) ==
  /\ r_pc[c] = p /\ r_pc' = [r_pc EXCEPT ![c] = q]
  /\ UNCHANGED <<defer_msg_signal, appVars>>

\* Application thread a is at p, and goes to q.
AppStep(a, p, q) ==
  /\ a_pc[a] = p /\ a_pc' = [a_pc EXCEPT ![a] = q]
  /\ UNCHANGED <<defer_msg_signal, readerVars, callback_set>>

\* The function the network gives to its msg_rec_pool.
on_msg_received(note) ==
  \/ callback_set /\ heard' = Append(heard, note) /\ UNCHANGED missed
  \/ ~callback_set /\ missed' = Append(missed, note) /\ UNCHANGED heard

-----------------------------------------------------------------------------
(* A connection's handler *)

\* The message that connection c has completed last.
Last(c) == [from |-> c, nr |-> received[c]]

\* handle_read completes a message and calls the lambda of add_connection.
message_end(c) ==
  /\ Step(c, "idle", "guard")
  /\ received[c] < MaxMsgs
  /\ received' = [received EXCEPT ![c] = @ + 1]
  /\ UNCHANGED <<guardVars, queueVars, submitted, outVars>>

\* Mutant: submit_message is called without the guard.
submit_message_unguarded(c) ==
  /\ Step(c, "guard", "submit")
  /\ submitted' = Append(submitted, [id |-> c, msg |-> Last(c)])
  /\ UNCHANGED <<guardVars, queueVars, received, outVars>>

\* The lambda gets its guard and calls submit_message.
submit_message(c) ==
  /\ Step(c, "guard", "submit")
  /\ connections_mut!Lock(c)
  /\ submitted' = Append(submitted, [id |-> c, msg |-> Last(c)])
  /\ UNCHANGED <<queueVars, received, outVars>>

\* submit_message calls back at once, on this thread.
submit_now(c) ==
  /\ ~defer_msg_signal
  /\ Step(c, "submit", IF callback_set THEN "callback" ELSE "unlock")
  /\ on_msg_received([id |-> c, msg |-> Last(c)])
  /\ UNCHANGED <<guardVars, queueVars, received, submitted>>

\* The callback that submit_message made returns.
submit_return(c) ==
  /\ Step(c, "callback", "unlock")
  /\ UNCHANGED <<guardVars, queueVars, received, submitted, outVars>>

\* submit_message queues the message, under mut.
submit_lock(c) ==
  /\ defer_msg_signal
  /\ Step(c, "submit", "push_msg")
  /\ mut_owner = Free /\ mut_owner' = c
  /\ UNCHANGED <<guardVars, rec_msg_vec, rec_msg_ids, received, submitted,
                 outVars>>

\* Mutant: mut protects the first of the two queues only.
push_msg_unlock(c) ==
  /\ Step(c, "push_msg", "push_id")
  /\ rec_msg_vec' = Append(rec_msg_vec, Last(c))
  /\ mut_owner' = Free
  /\ UNCHANGED <<guardVars, rec_msg_ids, received, submitted, outVars>>

push_msg(c) ==
  /\ Step(c, "push_msg", "push_id")
  /\ rec_msg_vec' = Append(rec_msg_vec, Last(c))
  /\ UNCHANGED <<guardVars, mut_owner, rec_msg_ids, received, submitted,
                 outVars>>

push_id(c) ==
  /\ Step(c, "push_id", "unlock")
  /\ rec_msg_ids' = Append(rec_msg_ids, c)
  /\ mut_owner' = Free
  /\ UNCHANGED <<guardVars, rec_msg_vec, received, submitted, outVars>>

\* The lambda returns to handle_read.
submit_done(c) ==
  /\ Step(c, "unlock", "idle")
  /\ connections_mut!Unlock(c)
  /\ UNCHANGED <<queueVars, received, submitted, outVars>>

-----------------------------------------------------------------------------
(* An application thread *)

set_new_msg_callback(a) ==
  /\ a_pc[a] = "off"
  /\ callback_set' = TRUE
  /\ UNCHANGED <<defer_msg_signal, guardVars, queueVars, readerVars, a_pc,
                 in_hand, outVars>>

\* The application works on the connections: it holds the guard, and may
\* call process_new_msgs before it lets go.
get_guard(a) ==
  /\ AppStep(a, "off", "off")
  /\ guard_owner = Free
  /\ connections_mut!Lock(a)
  /\ UNCHANGED <<queueVars, in_hand, outVars>>

release_guard(a) ==
  /\ AppStep(a, "off", "off")
  /\ connections_mut!Unlock(a)
  /\ UNCHANGED <<queueVars, in_hand, outVars>>

\* process_new_msgs calls notify_listeners, which is a no-op unless deferring.
notify_listeners(a) ==
  /\ defer_msg_signal
  /\ AppStep(a, "off", "check")
  /\ UNCHANGED <<guardVars, queueVars, in_hand, outVars>>

\* The loop condition reads rec_msg_vec without mut, so it may see a message
\* whose id has not been pushed yet.
notify_check(a) ==
  /\ AppStep(a, "check", IF rec_msg_vec = <<>> THEN "off" ELSE "lock")
  /\ UNCHANGED <<guardVars, queueVars, in_hand, outVars>>

notify_lock(a) ==
  /\ AppStep(a, "lock", "pop")
  /\ mut_owner = Free /\ mut_owner' = a
  /\ UNCHANGED <<guardVars, rec_msg_vec, rec_msg_ids, in_hand, outVars>>

\* front of both queues.  On an empty queue it is undefined; the guard says
\* so, and PopHasMessage that it is never the reason to wait.
front(a) ==
  /\ rec_msg_vec # <<>> /\ rec_msg_ids # <<>>
  /\ in_hand' = [in_hand EXCEPT
                   ![a] = [id |-> Head(rec_msg_ids), msg |-> Head(rec_msg_vec)]]

\* Mutant: rec_msg_ids is read and not popped.
notify_pop_one(a) ==
  /\ AppStep(a, "pop", "call")
  /\ front(a)
  /\ rec_msg_vec' = Tail(rec_msg_vec)
  /\ mut_owner' = Free
  /\ UNCHANGED <<guardVars, rec_msg_ids, outVars>>

\* Mutant: the callback is made before mut is released.
notify_pop_locked(a) ==
  /\ AppStep(a, "pop", "call")
  /\ front(a)
  /\ rec_msg_vec' = Tail(rec_msg_vec) /\ rec_msg_ids' = Tail(rec_msg_ids)
  /\ UNCHANGED <<guardVars, mut_owner, outVars>>

notify_pop(a) ==
  /\ AppStep(a, "pop", "call")
  /\ front(a)
  /\ rec_msg_vec' = Tail(rec_msg_vec) /\ rec_msg_ids' = Tail(rec_msg_ids)
  /\ mut_owner' = Free
  /\ UNCHANGED <<guardVars, outVars>>

\* on_msg_received; the callback it makes may want the guard, to reply.
notify_call(a) ==
  /\ \/ AppStep(a, "call", "check")
     \/ callback_set /\ AppStep(a, "call", "want")
  /\ on_msg_received(in_hand[a])
  /\ in_hand' = [in_hand EXCEPT ![a] = None]
  /\ UNCHANGED <<guardVars, queueVars>>

callback_get_guard(a) ==
  /\ AppStep(a, "want", "reply")
  /\ connections_mut!Lock(a)
  /\ UNCHANGED <<queueVars, in_hand, outVars>>

\* Mutant: the guard outlives the callback.
callback_release_guard_kept(a) ==
  /\ AppStep(a, "reply", "check")
  /\ UNCHANGED <<guardVars, queueVars, in_hand, outVars>>

callback_release_guard(a) ==
  /\ AppStep(a, "reply", "check")
  /\ connections_mut!Unlock(a)
  /\ UNCHANGED <<queueVars, in_hand, outVars>>

-----------------------------------------------------------------------------
\* The lambda of add_connection.
Submit(c) ==
  \/ submit_message(c) \/ submit_now(c) \/ submit_return(c)
  \/ submit_lock(c) \/ push_msg(c) \/ push_id(c)
  \/ submit_done(c)

Reader(c) == message_end(c) \/ Submit(c)

Notifier(a) ==
  \/ notify_check(a) \/ notify_lock(a) \/ notify_pop(a) \/ notify_call(a)
  \/ callback_get_guard(a) \/ callback_release_guard(a)

App(a) ==
  \/ set_new_msg_callback(a)
  \/ get_guard(a) \/ release_guard(a)
  \/ notify_listeners(a)
  \/ Notifier(a)

Next == (\E c \in Cons : Reader(c)) \/ (\E a \in Apps : App(a))

Spec == Init /\ [][Next]_vars

-----------------------------------------------------------------------------
(* Properties *)

\* Every variable has its type; nobody locks connections_mut more than twice,
\* and it has an owner exactly when it is locked.
TypeOK ==
  /\ defer_msg_signal \in BOOLEAN
  /\ guard_owner \in Threads \cup {Free}
  /\ guard_depth \in 0..2
  /\ guard_owner = Free <=> guard_depth = 0
  /\ mut_owner \in Threads \cup {Free}
  /\ rec_msg_vec \in Seq(Msg)
  /\ rec_msg_ids \in Seq(Cons)
  /\ callback_set \in BOOLEAN
  /\ r_pc \in [Cons -> ReaderPC]
  /\ received \in [Cons -> 0..MaxMsgs]
  /\ a_pc \in [Apps -> AppPC]
  /\ in_hand \in [Apps -> Note \cup {None}]
  /\ submitted \in Seq(Note)
  /\ missed \in Seq(Note)
  /\ heard \in Seq(Note)

\* "I am assuming that these two queue will always remain the same size":
\* whoever gets mut finds them so, though the loop condition of
\* notify_listeners looks at one of them without mut.
SameSize ==
  mut_owner \in Apps \cup {Free} => Len(rec_msg_vec) = Len(rec_msg_ids)

\* front and pop are never called on an empty queue.
PopHasMessage ==
  \A a \in Apps :
    a_pc[a] = "pop" => rec_msg_vec # <<>> /\ rec_msg_ids # <<>>

\* The application's callback never runs on two io threads at once: the guard
\* taken around submit_message makes up for the threads of the pool.
OneCallback ==
  \A c, d \in Cons : r_pc[c] = "callback" /\ r_pc[d] = "callback" => c = d

\* The queue is a queue: messages are handed out once each, in the order the
\* connections submitted them.
MQ == INSTANCE MessageQueue WITH
        Message <- Note, put <- submitted, got <- missed \o heard

ImplementsMessageQueue == MQ!Spec
=============================================================================
