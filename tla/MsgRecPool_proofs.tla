------------------------- MODULE MsgRecPool_proofs --------------------------
(***************************************************************************)
(* Theorems about MsgRecPool for every set of connections and of           *)
(* application threads, and any number of messages.                        *)
(***************************************************************************)
EXTENDS MsgRecPool, SequenceTheorems, TLAPS

USE DEF Step, AppStep, guardVars, queueVars, readerVars, appVars, outVars

-----------------------------------------------------------------------------
(* The two mutexes and the two queues *)

\* Between the call of the lambda of add_connection and its return.
InLambda == {"submit", "push_msg", "push_id", "callback", "unlock"}

\* connections_mut: a connection has it, once, throughout the lambda, and an
\* application thread a second time only in its callback.
GuardInv ==
  /\ \A c \in Cons : r_pc[c] \in InLambda <=> guard_owner = c
  /\ guard_owner \in Cons => guard_depth = 1
  /\ \A a \in Apps : a_pc[a] = "reply" => guard_owner = a
  /\ \A a \in Apps : guard_owner = a /\ a_pc[a] # "reply" => guard_depth = 1

\* mut: who is between its lock and its unlock.
MutInv ==
  /\ \A c \in Cons : r_pc[c] \in {"push_msg", "push_id"} <=> mut_owner = c
  /\ \A a \in Apps : a_pc[a] = "pop" <=> mut_owner = a

\* A message has been pushed, and its id has not.
HalfPushed == \E c \in Cons : r_pc[c] = "push_id"

SizeInv ==
  Len(rec_msg_vec) = Len(rec_msg_ids) + IF HalfPushed THEN 1 ELSE 0

\* Who has a message has one that exists.
HandInv ==
  /\ \A c \in Cons : r_pc[c] # "idle" => received[c] # 0
  /\ \A a \in Apps : a_pc[a] = "call" => in_hand[a] \in Note

RecInv == TypeOK /\ GuardInv /\ MutInv /\ SizeInv /\ HandInv

\* The message that a connection is submitting.
LEMMA LastType ==
  ASSUME TypeOK, NEW c \in Cons, received[c] # 0
  PROVE  Last(c) \in Msg
BY BoundAssumption DEF TypeOK, Last, Msg

LEMMA HandedType ==
  ASSUME TypeOK, NEW note \in Note, on_msg_received(note)
  PROVE  missed' \in Seq(Note) /\ heard' \in Seq(Note)
<1>1. missed \in Seq(Note) /\ heard \in Seq(Note)
  BY DEF TypeOK
<1>2. Append(missed, note) \in Seq(Note) /\ Append(heard, note) \in Seq(Note)
  BY <1>1
<1> QED BY <1>1, <1>2 DEF on_msg_received

-----------------------------------------------------------------------------
(* Each action keeps RecInv *)

LEMMA MessageEndKeeps ==
  ASSUME RecInv, NEW c \in Cons, message_end(c)
  PROVE  RecInv'
<1> USE ThreadAssumption, BoundAssumption DEF RecInv, Threads
<1>1. TypeOK'
  BY DEF TypeOK, ReaderPC, message_end
<1>2. GuardInv'
  BY DEF TypeOK, GuardInv, InLambda, message_end
<1>3. MutInv'
  BY DEF TypeOK, MutInv, message_end
<1>4. SizeInv'
  BY DEF TypeOK, SizeInv, HalfPushed, message_end
<1>5. HandInv'
  BY DEF TypeOK, HandInv, message_end
<1> QED BY <1>1, <1>2, <1>3, <1>4, <1>5

LEMMA SubmitMessageKeeps ==
  ASSUME RecInv, NEW c \in Cons, submit_message(c)
  PROVE  RecInv'
<1> USE ThreadAssumption, BoundAssumption DEF RecInv, Threads
<1>1. TypeOK'
  BY DEF TypeOK, GuardInv, HandInv, Last, Msg, Note, ReaderPC, submit_message,
         connections_mut!Lock
<1>2. GuardInv'
  BY DEF TypeOK, GuardInv, InLambda, submit_message, connections_mut!Lock
<1>3. MutInv'
  BY DEF TypeOK, MutInv, submit_message
<1>4. SizeInv'
  BY DEF TypeOK, SizeInv, HalfPushed, submit_message
<1>5. HandInv'
  BY DEF TypeOK, HandInv, submit_message
<1> QED BY <1>1, <1>2, <1>3, <1>4, <1>5

LEMMA SubmitNowKeeps ==
  ASSUME RecInv, NEW c \in Cons, submit_now(c)
  PROVE  RecInv'
<1> USE ThreadAssumption, BoundAssumption DEF RecInv, Threads
<1>1. TypeOK'
  <2>1. r_pc[c] = "submit"
    BY DEF submit_now
  <2>2. Last(c) \in Msg
    BY <2>1, LastType DEF HandInv
  <2>3. [id |-> c, msg |-> Last(c)] \in Note
    BY <2>2 DEF Note
  <2>4. missed' \in Seq(Note) /\ heard' \in Seq(Note)
    BY <2>3, HandedType DEF submit_now
  <2>5. r_pc' \in [Cons -> ReaderPC]
    BY DEF submit_now, TypeOK, ReaderPC
  <2> QED BY <2>4, <2>5 DEF TypeOK, submit_now
<1>2. GuardInv'
  BY DEF TypeOK, GuardInv, InLambda, submit_now
<1>3. MutInv'
  BY DEF TypeOK, MutInv, submit_now
<1>4. SizeInv'
  BY DEF TypeOK, SizeInv, HalfPushed, submit_now
<1>5. HandInv'
  BY DEF TypeOK, HandInv, submit_now
<1> QED BY <1>1, <1>2, <1>3, <1>4, <1>5

LEMMA SubmitReturnKeeps ==
  ASSUME RecInv, NEW c \in Cons, submit_return(c)
  PROVE  RecInv'
<1> USE ThreadAssumption, BoundAssumption DEF RecInv, Threads
<1>1. TypeOK'
  BY DEF TypeOK, ReaderPC, submit_return
<1>2. GuardInv'
  BY DEF TypeOK, GuardInv, InLambda, submit_return
<1>3. MutInv'
  BY DEF TypeOK, MutInv, submit_return
<1>4. SizeInv'
  BY DEF TypeOK, SizeInv, HalfPushed, submit_return
<1>5. HandInv'
  BY DEF TypeOK, HandInv, submit_return
<1> QED BY <1>1, <1>2, <1>3, <1>4, <1>5

LEMMA SubmitLockKeeps ==
  ASSUME RecInv, NEW c \in Cons, submit_lock(c)
  PROVE  RecInv'
<1> USE ThreadAssumption, BoundAssumption DEF RecInv, Threads
<1>1. TypeOK'
  BY DEF TypeOK, ReaderPC, submit_lock
<1>2. GuardInv'
  BY DEF TypeOK, GuardInv, InLambda, submit_lock
<1>3. MutInv'
  BY DEF TypeOK, MutInv, submit_lock
<1>4. SizeInv'
  BY DEF TypeOK, SizeInv, HalfPushed, submit_lock
<1>5. HandInv'
  BY DEF TypeOK, HandInv, submit_lock
<1> QED BY <1>1, <1>2, <1>3, <1>4, <1>5

LEMMA PushMsgKeeps ==
  ASSUME RecInv, NEW c \in Cons, push_msg(c)
  PROVE  RecInv'
<1> USE ThreadAssumption, BoundAssumption DEF RecInv, Threads
<1>1. TypeOK'
  BY DEF TypeOK, HandInv, Last, Msg, ReaderPC, push_msg
<1>2. GuardInv'
  BY DEF TypeOK, GuardInv, InLambda, push_msg
<1>3. MutInv'
  BY DEF TypeOK, MutInv, push_msg
<1>4. SizeInv'
  BY DEF TypeOK, MutInv, SizeInv, HalfPushed, push_msg
<1>5. HandInv'
  BY DEF TypeOK, HandInv, push_msg
<1> QED BY <1>1, <1>2, <1>3, <1>4, <1>5

LEMMA PushIdKeeps ==
  ASSUME RecInv, NEW c \in Cons, push_id(c)
  PROVE  RecInv'
<1> USE ThreadAssumption, BoundAssumption DEF RecInv, Threads
<1>1. TypeOK'
  BY DEF TypeOK, ReaderPC, push_id
<1>2. GuardInv'
  BY DEF TypeOK, GuardInv, InLambda, push_id
<1>3. MutInv'
  BY DEF TypeOK, MutInv, push_id
<1>4. SizeInv'
  BY DEF TypeOK, MutInv, SizeInv, HalfPushed, push_id
<1>5. HandInv'
  BY DEF TypeOK, HandInv, push_id
<1> QED BY <1>1, <1>2, <1>3, <1>4, <1>5

LEMMA SubmitDoneKeeps ==
  ASSUME RecInv, NEW c \in Cons, submit_done(c)
  PROVE  RecInv'
<1> USE ThreadAssumption, BoundAssumption DEF RecInv, Threads
<1>1. TypeOK'
  BY DEF TypeOK, GuardInv, ReaderPC, submit_done, connections_mut!Unlock
<1>2. GuardInv'
  BY DEF TypeOK, GuardInv, InLambda, submit_done, connections_mut!Unlock
<1>3. MutInv'
  BY DEF TypeOK, MutInv, submit_done
<1>4. SizeInv'
  BY DEF TypeOK, SizeInv, HalfPushed, submit_done
<1>5. HandInv'
  BY DEF TypeOK, HandInv, submit_done
<1> QED BY <1>1, <1>2, <1>3, <1>4, <1>5

LEMMA SetNewMsgCallbackKeeps ==
  ASSUME RecInv, NEW a \in Apps, set_new_msg_callback(a)
  PROVE  RecInv'
<1> USE ThreadAssumption, BoundAssumption DEF RecInv, Threads
<1>1. TypeOK'
  BY DEF TypeOK, set_new_msg_callback
<1>2. GuardInv'
  BY DEF TypeOK, GuardInv, set_new_msg_callback
<1>3. MutInv'
  BY DEF TypeOK, MutInv, set_new_msg_callback
<1>4. SizeInv'
  BY DEF TypeOK, SizeInv, HalfPushed, set_new_msg_callback
<1>5. HandInv'
  BY DEF TypeOK, HandInv, set_new_msg_callback
<1> QED BY <1>1, <1>2, <1>3, <1>4, <1>5

LEMMA GetGuardKeeps ==
  ASSUME RecInv, NEW a \in Apps, get_guard(a)
  PROVE  RecInv'
<1> USE ThreadAssumption, BoundAssumption DEF RecInv, Threads
<1>1. TypeOK'
  BY DEF TypeOK, GuardInv, get_guard, connections_mut!Lock
<1>2. GuardInv'
  BY DEF TypeOK, GuardInv, get_guard, connections_mut!Lock
<1>3. MutInv'
  BY DEF TypeOK, MutInv, get_guard
<1>4. SizeInv'
  BY DEF TypeOK, SizeInv, HalfPushed, get_guard
<1>5. HandInv'
  BY DEF TypeOK, HandInv, get_guard
<1> QED BY <1>1, <1>2, <1>3, <1>4, <1>5

LEMMA ReleaseGuardKeeps ==
  ASSUME RecInv, NEW a \in Apps, release_guard(a)
  PROVE  RecInv'
<1> USE ThreadAssumption, BoundAssumption DEF RecInv, Threads
<1>1. TypeOK'
  BY DEF TypeOK, GuardInv, release_guard, connections_mut!Unlock
<1>2. GuardInv'
  BY DEF TypeOK, GuardInv, release_guard, connections_mut!Unlock
<1>3. MutInv'
  BY DEF TypeOK, MutInv, release_guard
<1>4. SizeInv'
  BY DEF TypeOK, SizeInv, HalfPushed, release_guard
<1>5. HandInv'
  BY DEF TypeOK, HandInv, release_guard
<1> QED BY <1>1, <1>2, <1>3, <1>4, <1>5

LEMMA NotifyListenersKeeps ==
  ASSUME RecInv, NEW a \in Apps, notify_listeners(a)
  PROVE  RecInv'
<1> USE ThreadAssumption, BoundAssumption DEF RecInv, Threads
<1>1. TypeOK'
  BY DEF TypeOK, AppPC, notify_listeners
<1>2. GuardInv'
  BY DEF TypeOK, GuardInv, notify_listeners
<1>3. MutInv'
  BY DEF TypeOK, MutInv, notify_listeners
<1>4. SizeInv'
  BY DEF TypeOK, SizeInv, HalfPushed, notify_listeners
<1>5. HandInv'
  BY DEF TypeOK, HandInv, notify_listeners
<1> QED BY <1>1, <1>2, <1>3, <1>4, <1>5

LEMMA NotifyCheckKeeps ==
  ASSUME RecInv, NEW a \in Apps, notify_check(a)
  PROVE  RecInv'
<1> USE ThreadAssumption, BoundAssumption DEF RecInv, Threads
<1>1. TypeOK'
  BY DEF TypeOK, AppPC, notify_check
<1>2. GuardInv'
  BY DEF TypeOK, GuardInv, notify_check
<1>3. MutInv'
  BY DEF TypeOK, MutInv, notify_check
<1>4. SizeInv'
  BY DEF TypeOK, SizeInv, HalfPushed, notify_check
<1>5. HandInv'
  BY DEF TypeOK, HandInv, notify_check
<1> QED BY <1>1, <1>2, <1>3, <1>4, <1>5

LEMMA NotifyLockKeeps ==
  ASSUME RecInv, NEW a \in Apps, notify_lock(a)
  PROVE  RecInv'
<1> USE ThreadAssumption, BoundAssumption DEF RecInv, Threads
<1>1. TypeOK'
  BY DEF TypeOK, AppPC, notify_lock
<1>2. GuardInv'
  BY DEF TypeOK, GuardInv, notify_lock
<1>3. MutInv'
  BY DEF TypeOK, MutInv, notify_lock
<1>4. SizeInv'
  BY DEF TypeOK, SizeInv, HalfPushed, notify_lock
<1>5. HandInv'
  BY DEF TypeOK, HandInv, notify_lock
<1> QED BY <1>1, <1>2, <1>3, <1>4, <1>5

LEMMA NotifyPopKeeps ==
  ASSUME RecInv, NEW a \in Apps, notify_pop(a)
  PROVE  RecInv'
<1> USE ThreadAssumption, BoundAssumption DEF RecInv, Threads
<1>1. TypeOK'
  <2>1. /\ rec_msg_vec' \in Seq(Msg) /\ rec_msg_ids' \in Seq(Cons)
        /\ Head(rec_msg_vec) \in Msg /\ Head(rec_msg_ids) \in Cons
    BY DEF notify_pop, front, TypeOK
  <2>2. in_hand' \in [Apps -> Note \cup {None}]
    BY <2>1 DEF notify_pop, front, TypeOK, Note
  <2>3. a_pc' \in [Apps -> AppPC]
    BY DEF notify_pop, TypeOK, AppPC
  <2> QED BY <2>1, <2>2, <2>3 DEF TypeOK, notify_pop
<1>2. GuardInv'
  BY DEF TypeOK, GuardInv, notify_pop
<1>3. MutInv'
  BY DEF TypeOK, MutInv, notify_pop
<1>4. SizeInv'
  BY DEF TypeOK, MutInv, SizeInv, HalfPushed, notify_pop, front
<1>5. HandInv'
  BY DEF TypeOK, HandInv, Note, notify_pop, front
<1> QED BY <1>1, <1>2, <1>3, <1>4, <1>5

LEMMA NotifyCallKeeps ==
  ASSUME RecInv, NEW a \in Apps, notify_call(a)
  PROVE  RecInv'
<1> USE ThreadAssumption, BoundAssumption DEF RecInv, Threads
<1>1. TypeOK'
  <2>1. a_pc[a] = "call" /\ on_msg_received(in_hand[a])
    BY DEF notify_call
  <2>2. missed' \in Seq(Note) /\ heard' \in Seq(Note)
    BY <2>1, HandedType DEF HandInv
  <2>3. a_pc' \in [Apps -> AppPC] /\ in_hand' \in [Apps -> Note \cup {None}]
    BY DEF notify_call, TypeOK, AppPC
  <2> QED BY <2>2, <2>3 DEF TypeOK, notify_call
<1>2. GuardInv'
  BY DEF TypeOK, GuardInv, notify_call
<1>3. MutInv'
  BY DEF TypeOK, MutInv, notify_call
<1>4. SizeInv'
  BY DEF TypeOK, SizeInv, HalfPushed, notify_call
<1>5. HandInv'
  BY DEF TypeOK, HandInv, notify_call
<1> QED BY <1>1, <1>2, <1>3, <1>4, <1>5

LEMMA CallbackGetGuardKeeps ==
  ASSUME RecInv, NEW a \in Apps, callback_get_guard(a)
  PROVE  RecInv'
<1> USE ThreadAssumption, BoundAssumption DEF RecInv, Threads
<1>1. TypeOK'
  BY DEF TypeOK, GuardInv, AppPC, callback_get_guard, connections_mut!Lock
<1>2. GuardInv'
  BY DEF TypeOK, GuardInv, callback_get_guard, connections_mut!Lock
<1>3. MutInv'
  BY DEF TypeOK, MutInv, callback_get_guard
<1>4. SizeInv'
  BY DEF TypeOK, SizeInv, HalfPushed, callback_get_guard
<1>5. HandInv'
  BY DEF TypeOK, HandInv, callback_get_guard
<1> QED BY <1>1, <1>2, <1>3, <1>4, <1>5

LEMMA CallbackReleaseGuardKeeps ==
  ASSUME RecInv, NEW a \in Apps, callback_release_guard(a)
  PROVE  RecInv'
<1> USE ThreadAssumption, BoundAssumption DEF RecInv, Threads
<1>1. TypeOK'
  BY DEF TypeOK, GuardInv, AppPC, callback_release_guard, connections_mut!Unlock
<1>2. GuardInv'
  BY DEF TypeOK, GuardInv, callback_release_guard, connections_mut!Unlock
<1>3. MutInv'
  BY DEF TypeOK, MutInv, callback_release_guard
<1>4. SizeInv'
  BY DEF TypeOK, SizeInv, HalfPushed, callback_release_guard
<1>5. HandInv'
  BY DEF TypeOK, HandInv, callback_release_guard
<1> QED BY <1>1, <1>2, <1>3, <1>4, <1>5

LEMMA RecInit == Init => RecInv
<1> SUFFICES ASSUME Init PROVE RecInv
  OBVIOUS
<1> USE ThreadAssumption, BoundAssumption DEF Init, connections_mut!Unlocked
<1>1. TypeOK
  <2>1. /\ guard_owner \in Threads \cup {Free} /\ guard_depth \in 0..2
        /\ guard_owner = Free <=> guard_depth = 0
        /\ received \in [Cons -> 0..MaxMsgs]
    OBVIOUS
  <2>2. /\ rec_msg_vec \in Seq(Msg) /\ rec_msg_ids \in Seq(Cons)
        /\ submitted \in Seq(Note) /\ missed \in Seq(Note)
        /\ heard \in Seq(Note)
    OBVIOUS
  <2>3. r_pc \in [Cons -> ReaderPC] /\ a_pc \in [Apps -> AppPC]
        /\ in_hand \in [Apps -> Note \cup {None}]
    BY DEF ReaderPC, AppPC
  <2> QED BY <2>1, <2>2, <2>3 DEF TypeOK
<1>2. GuardInv /\ MutInv
  BY DEF GuardInv, MutInv, InLambda
<1>3. SizeInv /\ HandInv
  BY DEF SizeInv, HalfPushed, HandInv
<1> QED BY <1>1, <1>2, <1>3 DEF RecInv

LEMMA RecStep == RecInv /\ [Next]_vars => RecInv'
<1> SUFFICES ASSUME RecInv, [Next]_vars PROVE RecInv'
  OBVIOUS
<1>1. ASSUME NEW c \in Cons, message_end(c) PROVE RecInv'
  BY <1>1, MessageEndKeeps
<1>2. ASSUME NEW c \in Cons, submit_message(c) PROVE RecInv'
  BY <1>2, SubmitMessageKeeps
<1>3. ASSUME NEW c \in Cons, submit_now(c) PROVE RecInv'
  BY <1>3, SubmitNowKeeps
<1>4. ASSUME NEW c \in Cons, submit_return(c) PROVE RecInv'
  BY <1>4, SubmitReturnKeeps
<1>5. ASSUME NEW c \in Cons, submit_lock(c) PROVE RecInv'
  BY <1>5, SubmitLockKeeps
<1>6. ASSUME NEW c \in Cons, push_msg(c) PROVE RecInv'
  BY <1>6, PushMsgKeeps
<1>7. ASSUME NEW c \in Cons, push_id(c) PROVE RecInv'
  BY <1>7, PushIdKeeps
<1>8. ASSUME NEW c \in Cons, submit_done(c) PROVE RecInv'
  BY <1>8, SubmitDoneKeeps
<1>9. ASSUME NEW a \in Apps, set_new_msg_callback(a) PROVE RecInv'
  BY <1>9, SetNewMsgCallbackKeeps
<1>10. ASSUME NEW a \in Apps, get_guard(a) PROVE RecInv'
  BY <1>10, GetGuardKeeps
<1>11. ASSUME NEW a \in Apps, release_guard(a) PROVE RecInv'
  BY <1>11, ReleaseGuardKeeps
<1>12. ASSUME NEW a \in Apps, notify_listeners(a) PROVE RecInv'
  BY <1>12, NotifyListenersKeeps
<1>13. ASSUME NEW a \in Apps, notify_check(a) PROVE RecInv'
  BY <1>13, NotifyCheckKeeps
<1>14. ASSUME NEW a \in Apps, notify_lock(a) PROVE RecInv'
  BY <1>14, NotifyLockKeeps
<1>15. ASSUME NEW a \in Apps, notify_pop(a) PROVE RecInv'
  BY <1>15, NotifyPopKeeps
<1>16. ASSUME NEW a \in Apps, notify_call(a) PROVE RecInv'
  BY <1>16, NotifyCallKeeps
<1>17. ASSUME NEW a \in Apps, callback_get_guard(a) PROVE RecInv'
  BY <1>17, CallbackGetGuardKeeps
<1>18. ASSUME NEW a \in Apps, callback_release_guard(a) PROVE RecInv'
  BY <1>18, CallbackReleaseGuardKeeps
<1>19. CASE UNCHANGED vars
  BY <1>19 DEF RecInv, TypeOK, GuardInv, MutInv, SizeInv, HandInv, HalfPushed,
               vars
<1> QED
  BY <1>1, <1>2, <1>3, <1>4, <1>5, <1>6, <1>7, <1>8, <1>9, <1>10, <1>11,
       <1>12, <1>13, <1>14, <1>15, <1>16, <1>17, <1>18, <1>19
     DEF Next, Reader, Submit, App, Notifier

LEMMA RecAlways == Spec => []RecInv
BY RecInit, RecStep, PTL DEF Spec

\* Every variable of the message queue keeps its type: connections_mut, which is
\* recursive, is never locked more than twice.
THEOREM RecTypeCorrect == Spec => []TypeOK
<1>1. RecInv => TypeOK
  BY DEF RecInv
<1> QED BY <1>1, RecAlways, PTL

\* The comment of msg_rec_pool, for every number of threads: whoever has mut
\* finds as many ids as messages.
THEOREM QueuesSameSize == Spec => []SameSize
<1>1. RecInv => SameSize
  BY ThreadAssumption DEF RecInv, SameSize, SizeInv, HalfPushed, MutInv
<1> QED BY <1>1, RecAlways, PTL

\* The lambda of add_connection never calls back on two io threads at once.
THEOREM CallbacksExclude == Spec => []OneCallback
<1>1. RecInv => OneCallback
  BY DEF RecInv, OneCallback, GuardInv, InLambda
<1> QED BY <1>1, RecAlways, PTL

-----------------------------------------------------------------------------
(* The line of messages.  One thread at a time calls process_new_msgs: two  *)
(* notifiers could both pass the test of the loop for one message, and      *)
(* could call back in another order than they popped.                       *)
OneNotifier == \A a, b \in Apps : a = b

Calling(a) == a_pc[a] = "call"
Waiting(c) == r_pc[c] \in {"submit", "push_msg"}
HandLen == IF \E a \in Apps : Calling(a) THEN 1 ELSE 0
PendLen == IF \E c \in Cons : Waiting(c) THEN 1 ELSE 0

\* How many messages have been handed out, and have left the queue.
OutLen == Len(missed) + Len(heard)
Popped == OutLen + HandLen

\* What the stage of each thread says of the mode and the queue.
ModeInv ==
  /\ callback_set \/ heard = <<>>
  /\ \A a \in Apps : a_pc[a] \in {"lock", "pop"} => rec_msg_vec # <<>>
  /\ ~defer_msg_signal =>
       /\ rec_msg_vec = <<>>
       /\ \A a \in Apps : a_pc[a] = "off"
       /\ \A c \in Cons : r_pc[c] \notin {"push_msg", "push_id"}

\* The submitted messages in a line: those handed out, the one in hand, those
\* queued, the one whose reader is still to queue it or to call back.
LenInv == Len(submitted) = Popped + Len(rec_msg_vec) + PendLen

HandLine ==
  \A a \in Apps : Calling(a) => in_hand[a] = submitted[Popped]
QueueLine ==
  /\ \A i \in 1..Len(rec_msg_vec) : submitted[Popped + i].msg = rec_msg_vec[i]
  /\ \A i \in 1..Len(rec_msg_ids) : submitted[Popped + i].id = rec_msg_ids[i]
PendLine ==
  \A c \in Cons :
    Waiting(c) \/ r_pc[c] = "push_id" =>
      submitted[Len(submitted)] = [id |-> c, msg |-> Last(c)]

Line == LenInv /\ HandLine /\ QueueLine /\ PendLine

LEMMA LineTypes ==
  ASSUME TypeOK
  PROVE  /\ OutLen \in Nat /\ HandLen \in {0, 1} /\ PendLen \in {0, 1}
         /\ Popped \in Nat /\ Popped = OutLen + HandLen
         /\ \A a \in Apps : Calling(a) => HandLen = 1
         /\ \A c \in Cons : Waiting(c) => PendLen = 1
         /\ Len(submitted) \in Nat /\ Len(rec_msg_vec) \in Nat
         /\ Len(rec_msg_ids) \in Nat
<1>1. Len(missed) \in Nat /\ Len(heard) \in Nat
  BY DEF TypeOK
<1>2. HandLen \in {0, 1} /\ PendLen \in {0, 1}
  BY DEF HandLen, PendLen
<1> QED BY <1>1, <1>2 DEF TypeOK, OutLen, Popped, HandLen, PendLen

LEMMA OutGrows ==
  ASSUME TypeOK, NEW note, on_msg_received(note)
  PROVE  OutLen' = OutLen + 1
<1>1. Len(missed) \in Nat /\ Len(heard) \in Nat
  BY DEF TypeOK
<1>2. \/ Len(missed') = Len(missed) + 1 /\ heard' = heard
      \/ Len(heard') = Len(heard) + 1 /\ missed' = missed
  BY DEF on_msg_received, TypeOK
<1> QED BY <1>1, <1>2 DEF OutLen

LEMMA OneInLambda ==
  ASSUME GuardInv, NEW c \in Cons, r_pc[c] \in InLambda
  PROVE  \A d \in Cons : r_pc[d] \in InLambda => d = c
BY DEF GuardInv

\* An action that moves nothing along the line.
LEMMA QuietLine ==
  ASSUME TypeOK, Line,
         UNCHANGED <<submitted, outVars, rec_msg_vec, rec_msg_ids, in_hand>>,
         \A a \in Apps : Calling(a)' <=> Calling(a),
         \A c \in Cons : Waiting(c)' <=> Waiting(c),
         \A c \in Cons : r_pc'[c] = "push_id" => r_pc[c] = "push_id",
         \A c \in Cons : received'[c] # received[c] => r_pc'[c] = "guard"
  PROVE  Line'
<1>1. HandLen' = HandLen /\ PendLen' = PendLen /\ OutLen' = OutLen
  BY DEF HandLen, PendLen, OutLen
<1>2. Popped' = Popped
  BY <1>1 DEF Popped
<1>3. LenInv' /\ HandLine' /\ QueueLine'
  BY <1>1, <1>2 DEF Line, LenInv, HandLine, QueueLine
<1>4. \A c \in Cons : Waiting(c)' \/ r_pc'[c] = "push_id" => Last(c)' = Last(c)
  BY DEF Waiting, Last
<1>5. PendLine'
  BY <1>4 DEF Line, PendLine
<1> QED BY <1>3, <1>5 DEF Line

LEMMA SubmitMessageLine ==
  ASSUME RecInv, RecInv', Line, NEW c \in Cons, submit_message(c)
  PROVE  Line'
<1> USE DEF RecInv, Line
<1>1. /\ r_pc[c] = "guard" /\ r_pc' = [r_pc EXCEPT ![c] = "submit"]
      /\ submitted' = Append(submitted, [id |-> c, msg |-> Last(c)])
      /\ UNCHANGED <<appVars, rec_msg_vec, rec_msg_ids, received, outVars>>
  BY DEF submit_message
<1>2. \A d \in Cons : r_pc[d] \notin InLambda
  <2>1. guard_owner' = c /\ (guard_owner = Free \/ guard_owner = c)
    BY DEF submit_message, connections_mut!Lock
  <2>2. c # Free
    BY ThreadAssumption
  <2> QED BY <1>1, <2>1, <2>2, ThreadAssumption DEF GuardInv, InLambda
<1>3. PendLen = 0 /\ \A d \in Cons : ~Waiting(d) /\ r_pc[d] # "push_id"
  BY <1>2 DEF PendLen, Waiting, InLambda
<1>4. r_pc'[c] = "submit" /\ \A d \in Cons : d # c => r_pc'[d] = r_pc[d]
  BY <1>1 DEF TypeOK
<1>5. PendLen' = 1
  BY <1>4 DEF PendLen, Waiting
<1>6. HandLen' = HandLen /\ OutLen' = OutLen /\ Popped' = Popped
  BY <1>1 DEF HandLen, OutLen, Popped, Calling
<1>7. /\ Len(submitted') = Len(submitted) + 1
      /\ submitted'[Len(submitted')] = [id |-> c, msg |-> Last(c)]
      /\ \A i \in 1..Len(submitted) : submitted'[i] = submitted[i]
  BY <1>1, LineTypes DEF TypeOK
<1>8. LenInv'
  BY <1>1, <1>3, <1>5, <1>6, <1>7, LineTypes DEF LenInv
<1>9. \A a \in Apps : Calling(a) => Popped \in 1..Len(submitted)
  BY LineTypes, <1>3 DEF LenInv
<1>10. HandLine'
  BY <1>1, <1>6, <1>7, <1>9 DEF HandLine, Calling
<1>11. \A i \in 1..Len(rec_msg_vec) : Popped + i \in 1..Len(submitted)
  BY LineTypes, <1>3 DEF LenInv
<1>12. Len(rec_msg_ids) <= Len(rec_msg_vec)
  BY LineTypes DEF SizeInv
<1>13. \A i \in 1..Len(rec_msg_ids) : i \in 1..Len(rec_msg_vec)
  BY <1>12, LineTypes
<1>14. QueueLine'
  BY <1>1, <1>6, <1>7, <1>11, <1>13 DEF QueueLine
<1>15. PendLine'
  BY <1>1, <1>3, <1>4, <1>7 DEF PendLine, Waiting, Last
<1> QED BY <1>8, <1>10, <1>14, <1>15

LEMMA SubmitNowLine ==
  ASSUME RecInv, RecInv', ModeInv, Line, NEW c \in Cons, submit_now(c)
  PROVE  Line'
<1> USE DEF RecInv, Line
<1>1. /\ ~defer_msg_signal /\ r_pc[c] = "submit"
      /\ r_pc' = [r_pc EXCEPT ![c] =
                    IF callback_set THEN "callback" ELSE "unlock"]
      /\ UNCHANGED <<appVars, queueVars, received, submitted>>
  BY DEF submit_now
<1>2. /\ rec_msg_vec = <<>>
      /\ \A a \in Apps : ~Calling(a)
      /\ \A d \in Cons : r_pc[d] # "push_id"
  BY <1>1 DEF ModeInv, Calling
<1>3. rec_msg_ids = <<>>
  BY <1>2 DEF SizeInv, HalfPushed, TypeOK
<1>4. HandLen = 0 /\ HandLen' = 0 /\ \A a \in Apps : ~Calling(a)'
  BY <1>1, <1>2 DEF HandLen, Calling
<1>5. \A d \in Cons : ~Waiting(d)' /\ r_pc'[d] # "push_id"
  <2>1. \A d \in Cons : d # c => r_pc[d] \notin InLambda
    BY <1>1, OneInLambda DEF InLambda
  <2> QED BY <1>1, <2>1 DEF Waiting, InLambda, TypeOK
<1>6. PendLen = 1 /\ PendLen' = 0
  BY <1>1, <1>5 DEF PendLen, Waiting
<1>7. OutLen' = OutLen + 1
  BY OutGrows DEF submit_now
<1>8. LenInv'
  BY <1>1, <1>2, <1>4, <1>6, <1>7, LineTypes DEF LenInv, Popped
<1>9. HandLine' /\ PendLine'
  BY <1>4, <1>5 DEF HandLine, PendLine
<1>10. QueueLine'
  BY <1>1, <1>2, <1>3 DEF QueueLine
<1> QED BY <1>8, <1>9, <1>10

LEMMA PushMsgLine ==
  ASSUME RecInv, RecInv', Line, NEW c \in Cons, push_msg(c)
  PROVE  Line'
<1> USE DEF RecInv, Line
<1>1. /\ r_pc[c] = "push_msg" /\ r_pc' = [r_pc EXCEPT ![c] = "push_id"]
      /\ rec_msg_vec' = Append(rec_msg_vec, Last(c))
      /\ UNCHANGED <<appVars, rec_msg_ids, received, submitted, outVars>>
  BY DEF push_msg
<1>2. \A d \in Cons : d # c => r_pc[d] \notin InLambda
  BY <1>1, OneInLambda DEF InLambda
<1>3. r_pc'[c] = "push_id" /\ \A d \in Cons : d # c => r_pc'[d] = r_pc[d]
  BY <1>1 DEF TypeOK
<1>4. Waiting(c) /\ \A d \in Cons : ~Waiting(d)'
  BY <1>1, <1>2, <1>3 DEF Waiting, InLambda
<1>5. PendLen = 1 /\ PendLen' = 0
  BY <1>4 DEF PendLen
<1>6. HandLen' = HandLen /\ OutLen' = OutLen /\ Popped' = Popped
  BY <1>1 DEF HandLen, OutLen, Popped, Calling
<1>7. /\ Len(rec_msg_vec') = Len(rec_msg_vec) + 1
      /\ rec_msg_vec'[Len(rec_msg_vec')] = Last(c)
      /\ \A i \in 1..Len(rec_msg_vec) : rec_msg_vec'[i] = rec_msg_vec[i]
  BY <1>1, LineTypes DEF TypeOK
<1>8. LenInv'
  BY <1>1, <1>5, <1>6, <1>7, LineTypes DEF LenInv
<1>9. HandLine'
  BY <1>1, <1>6 DEF HandLine, Calling
<1>10. submitted[Len(submitted)].msg = Last(c)
  <2>1. submitted[Len(submitted)] = [id |-> c, msg |-> Last(c)]
    BY <1>4 DEF PendLine
  <2> QED BY <2>1
<1>11. Popped + Len(rec_msg_vec') = Len(submitted)
  BY <1>5, <1>7, LineTypes DEF LenInv
<1>12. \A i \in 1..Len(rec_msg_vec') :
         i \in 1..Len(rec_msg_vec) \/ i = Len(rec_msg_vec')
  BY <1>7, LineTypes
<1>13. QueueLine'
  BY <1>1, <1>6, <1>7, <1>10, <1>11, <1>12 DEF QueueLine
<1>14. PendLine'
  <2>1. SUFFICES submitted'[Len(submitted')] = [id |-> c, msg |-> Last(c)']
    BY <1>2, <1>3, <1>4 DEF PendLine, InLambda
  <2>2. Last(c)' = Last(c)
    BY <1>1 DEF Last
  <2> QED BY <1>1, <1>4, <2>2 DEF PendLine
<1> QED BY <1>8, <1>9, <1>13, <1>14

LEMMA PushIdLine ==
  ASSUME RecInv, RecInv', Line, NEW c \in Cons, push_id(c)
  PROVE  Line'
<1> USE DEF RecInv, Line
<1>1. /\ r_pc[c] = "push_id" /\ r_pc' = [r_pc EXCEPT ![c] = "unlock"]
      /\ rec_msg_ids' = Append(rec_msg_ids, c)
      /\ UNCHANGED <<appVars, rec_msg_vec, received, submitted, outVars>>
  BY DEF push_id
<1>2. \A d \in Cons : d # c => r_pc[d] \notin InLambda
  BY <1>1, OneInLambda DEF InLambda
<1>3. r_pc'[c] = "unlock" /\ \A d \in Cons : d # c => r_pc'[d] = r_pc[d]
  BY <1>1 DEF TypeOK
<1>4. \A d \in Cons : ~Waiting(d) /\ ~Waiting(d)' /\ r_pc'[d] # "push_id"
  BY <1>1, <1>2, <1>3 DEF Waiting, InLambda
<1>5. PendLen = 0 /\ PendLen' = 0
  BY <1>4 DEF PendLen
<1>6. HandLen' = HandLen /\ OutLen' = OutLen /\ Popped' = Popped
  BY <1>1 DEF HandLen, OutLen, Popped, Calling
<1>7. /\ Len(rec_msg_ids') = Len(rec_msg_ids) + 1
      /\ rec_msg_ids'[Len(rec_msg_ids')] = c
      /\ \A i \in 1..Len(rec_msg_ids) : rec_msg_ids'[i] = rec_msg_ids[i]
  BY <1>1, LineTypes DEF TypeOK
<1>8. LenInv' /\ HandLine' /\ PendLine'
  BY <1>1, <1>4, <1>5, <1>6 DEF LenInv, HandLine, PendLine, Calling
<1>9. submitted[Len(submitted)].id = c
  <2>1. submitted[Len(submitted)] = [id |-> c, msg |-> Last(c)]
    BY <1>1 DEF PendLine
  <2> QED BY <2>1
<1>10. Len(rec_msg_ids') = Len(rec_msg_vec)
  BY <1>1, <1>7, LineTypes DEF SizeInv, HalfPushed
<1>11. Popped + Len(rec_msg_ids') = Len(submitted)
  BY <1>5, <1>10, LineTypes DEF LenInv
<1>12. \A i \in 1..Len(rec_msg_ids') :
         i \in 1..Len(rec_msg_ids) \/ i = Len(rec_msg_ids')
  BY <1>7, LineTypes
<1>13. QueueLine'
  BY <1>1, <1>6, <1>7, <1>9, <1>11, <1>12 DEF QueueLine
<1> QED BY <1>8, <1>13

LEMMA NotifyPopLine ==
  ASSUME OneNotifier, RecInv, RecInv', Line, NEW a \in Apps, notify_pop(a)
  PROVE  Line'
<1> USE DEF RecInv, Line
<1>1. /\ a_pc[a] = "pop" /\ a_pc' = [a_pc EXCEPT ![a] = "call"]
      /\ rec_msg_vec # <<>> /\ rec_msg_ids # <<>>
      /\ rec_msg_vec' = Tail(rec_msg_vec) /\ rec_msg_ids' = Tail(rec_msg_ids)
      /\ in_hand' = [in_hand EXCEPT ![a] = [id |-> Head(rec_msg_ids),
                                            msg |-> Head(rec_msg_vec)]]
      /\ UNCHANGED <<readerVars, outVars>>
  BY DEF notify_pop, front
<1>2. \A b \in Apps : b = a
  BY DEF OneNotifier
<1>3. HandLen = 0 /\ HandLen' = 1
  BY <1>1, <1>2 DEF HandLen, Calling, TypeOK
<1>4. PendLen' = PendLen /\ OutLen' = OutLen
  BY <1>1 DEF PendLen, Waiting, OutLen
<1>5. Popped' = Popped + 1
  BY <1>3, <1>4, LineTypes DEF Popped
<1>6. /\ Len(rec_msg_vec') = Len(rec_msg_vec) - 1 /\ Len(rec_msg_vec) > 0
      /\ \A i \in 1..Len(rec_msg_vec') : rec_msg_vec'[i] = rec_msg_vec[i + 1]
      /\ Head(rec_msg_vec) = rec_msg_vec[1]
  BY <1>1 DEF TypeOK
<1>7. /\ Len(rec_msg_ids') = Len(rec_msg_ids) - 1 /\ Len(rec_msg_ids) > 0
      /\ \A i \in 1..Len(rec_msg_ids') : rec_msg_ids'[i] = rec_msg_ids[i + 1]
      /\ Head(rec_msg_ids) = rec_msg_ids[1]
  BY <1>1 DEF TypeOK
<1>8. LenInv'
  BY <1>1, <1>4, <1>5, <1>6, LineTypes DEF LenInv
<1>9. HandLine'
  <2>1. 1 \in 1..Len(rec_msg_vec) /\ 1 \in 1..Len(rec_msg_ids)
    BY <1>6, <1>7, LineTypes
  <2>2. Popped + 1 \in 1..Len(submitted)
    BY <1>6, LineTypes DEF LenInv
  <2>3. submitted[Popped + 1] \in Note
    BY <2>2 DEF TypeOK
  <2>4. /\ submitted[Popped + 1].msg = rec_msg_vec[1]
        /\ submitted[Popped + 1].id = rec_msg_ids[1]
    BY <2>1 DEF QueueLine
  <2>5. submitted[Popped + 1] = [id |-> rec_msg_ids[1], msg |-> rec_msg_vec[1]]
    BY <2>3, <2>4 DEF Note
  <2>6. in_hand'[a] = submitted[Popped + 1]
    BY <1>1, <1>6, <1>7, <2>5 DEF TypeOK
  <2> QED BY <1>1, <1>2, <1>5, <2>6 DEF HandLine
<1>10. /\ \A i \in 1..Len(rec_msg_vec') :
            i + 1 \in 1..Len(rec_msg_vec) /\ Popped' + i = Popped + (i + 1)
       /\ \A i \in 1..Len(rec_msg_ids') :
            i + 1 \in 1..Len(rec_msg_ids) /\ Popped' + i = Popped + (i + 1)
  <2>1. /\ Popped \in Nat
        /\ Len(rec_msg_vec) \in Nat /\ Len(rec_msg_ids) \in Nat
    BY LineTypes
  <2>2. \A i \in 1..Len(rec_msg_vec') :
          i \in Nat /\ i + 1 \in 1..Len(rec_msg_vec)
    BY <1>6, <2>1
  <2>3. \A i \in 1..Len(rec_msg_ids') :
          i \in Nat /\ i + 1 \in 1..Len(rec_msg_ids)
    BY <1>7, <2>1
  <2>4. \A i \in Nat : Popped' + i = Popped + (i + 1)
    BY <1>5, <2>1
  <2> QED BY <2>2, <2>3, <2>4
<1>11. QueueLine'
  BY <1>1, <1>6, <1>7, <1>10 DEF QueueLine
<1>12. PendLine'
  BY <1>1 DEF PendLine, Waiting, Last
<1> QED BY <1>8, <1>9, <1>11, <1>12

LEMMA NotifyCallLine ==
  ASSUME OneNotifier, RecInv, RecInv', Line, NEW a \in Apps, notify_call(a)
  PROVE  Line'
<1> USE DEF RecInv, Line
<1>1. /\ Calling(a) /\ a_pc'[a] # "call"
      /\ UNCHANGED <<queueVars, readerVars>>
  BY DEF notify_call, Calling, TypeOK
<1>2. \A b \in Apps : b = a
  BY DEF OneNotifier
<1>3. HandLen = 1 /\ HandLen' = 0 /\ \A b \in Apps : ~Calling(b)'
  BY <1>1, <1>2 DEF HandLen, Calling
<1>4. OutLen' = OutLen + 1
  BY OutGrows DEF notify_call
<1>5. PendLen' = PendLen /\ Popped' = Popped
  BY <1>1, <1>3, <1>4, LineTypes DEF PendLen, Waiting, Popped
<1>6. LenInv' /\ QueueLine'
  BY <1>1, <1>5 DEF LenInv, QueueLine
<1>7. HandLine' /\ PendLine'
  BY <1>1, <1>3 DEF HandLine, PendLine, Waiting, Last
<1> QED BY <1>6, <1>7

LEMMA ModeStep ==
  ASSUME OneNotifier, RecInv, ModeInv, [Next]_vars
  PROVE  ModeInv'
<1> USE ThreadAssumption DEF RecInv, TypeOK, OneNotifier, ModeInv
<1>1. ASSUME NEW c \in Cons, message_end(c) PROVE ModeInv'
  BY <1>1 DEF message_end
<1>2. ASSUME NEW c \in Cons, submit_message(c) PROVE ModeInv'
  BY <1>2 DEF submit_message
<1>3. ASSUME NEW c \in Cons, submit_now(c) PROVE ModeInv'
  BY <1>3 DEF submit_now, on_msg_received
<1>4. ASSUME NEW c \in Cons, submit_return(c) PROVE ModeInv'
  BY <1>4 DEF submit_return
<1>5. ASSUME NEW c \in Cons, submit_lock(c) PROVE ModeInv'
  BY <1>5 DEF submit_lock
<1>6. ASSUME NEW c \in Cons, push_msg(c) PROVE ModeInv'
  <2>1. defer_msg_signal
    BY <1>6 DEF push_msg
  <2>2. rec_msg_vec' # <<>>
    BY <1>6 DEF push_msg
  <2> QED BY <1>6, <2>1, <2>2 DEF push_msg
<1>7. ASSUME NEW c \in Cons, push_id(c) PROVE ModeInv'
  BY <1>7 DEF push_id
<1>8. ASSUME NEW c \in Cons, submit_done(c) PROVE ModeInv'
  BY <1>8 DEF submit_done
<1>9. ASSUME NEW a \in Apps, set_new_msg_callback(a) PROVE ModeInv'
  BY <1>9 DEF set_new_msg_callback
<1>10. ASSUME NEW a \in Apps, get_guard(a) PROVE ModeInv'
  BY <1>10 DEF get_guard
<1>11. ASSUME NEW a \in Apps, release_guard(a) PROVE ModeInv'
  BY <1>11 DEF release_guard
<1>12. ASSUME NEW a \in Apps, notify_listeners(a) PROVE ModeInv'
  BY <1>12 DEF notify_listeners
<1>13. ASSUME NEW a \in Apps, notify_check(a) PROVE ModeInv'
  BY <1>13 DEF notify_check
<1>14. ASSUME NEW a \in Apps, notify_lock(a) PROVE ModeInv'
  BY <1>14 DEF notify_lock
<1>15. ASSUME NEW a \in Apps, notify_pop(a) PROVE ModeInv'
  BY <1>15 DEF notify_pop, front
<1>16. ASSUME NEW a \in Apps, notify_call(a) PROVE ModeInv'
  BY <1>16 DEF notify_call, on_msg_received
<1>17. ASSUME NEW a \in Apps, callback_get_guard(a) PROVE ModeInv'
  BY <1>17 DEF callback_get_guard
<1>18. ASSUME NEW a \in Apps, callback_release_guard(a) PROVE ModeInv'
  BY <1>18 DEF callback_release_guard
<1>19. CASE UNCHANGED vars
  BY <1>19 DEF vars
<1> QED
  BY <1>1, <1>2, <1>3, <1>4, <1>5, <1>6, <1>7, <1>8, <1>9, <1>10, <1>11,
       <1>12, <1>13, <1>14, <1>15, <1>16, <1>17, <1>18, <1>19
     DEF Next, Reader, Submit, App, Notifier

LEMMA LineStep ==
  ASSUME OneNotifier, RecInv, RecInv', ModeInv, Line, [Next]_vars
  PROVE  Line'
<1>0. TypeOK
  BY DEF RecInv
<1>1. ASSUME NEW c \in Cons, message_end(c) PROVE Line'
  BY <1>1, <1>0, QuietLine DEF TypeOK, Calling, Waiting, message_end
<1>2. ASSUME NEW c \in Cons, submit_message(c) PROVE Line'
  BY <1>2, SubmitMessageLine
<1>3. ASSUME NEW c \in Cons, submit_now(c) PROVE Line'
  BY <1>3, SubmitNowLine
<1>4. ASSUME NEW c \in Cons, submit_return(c) PROVE Line'
  BY <1>4, <1>0, QuietLine DEF TypeOK, Calling, Waiting, submit_return
<1>5. ASSUME NEW c \in Cons, submit_lock(c) PROVE Line'
  BY <1>5, <1>0, QuietLine DEF TypeOK, Calling, Waiting, submit_lock
<1>6. ASSUME NEW c \in Cons, push_msg(c) PROVE Line'
  BY <1>6, PushMsgLine
<1>7. ASSUME NEW c \in Cons, push_id(c) PROVE Line'
  BY <1>7, PushIdLine
<1>8. ASSUME NEW c \in Cons, submit_done(c) PROVE Line'
  BY <1>8, <1>0, QuietLine DEF TypeOK, Calling, Waiting, submit_done
<1>9. ASSUME NEW a \in Apps, set_new_msg_callback(a) PROVE Line'
  BY <1>9, <1>0, QuietLine DEF TypeOK, Calling, Waiting, set_new_msg_callback
<1>10. ASSUME NEW a \in Apps, get_guard(a) PROVE Line'
  BY <1>10, <1>0, QuietLine DEF TypeOK, Calling, Waiting, get_guard
<1>11. ASSUME NEW a \in Apps, release_guard(a) PROVE Line'
  BY <1>11, <1>0, QuietLine DEF TypeOK, Calling, Waiting, release_guard
<1>12. ASSUME NEW a \in Apps, notify_listeners(a) PROVE Line'
  BY <1>12, <1>0, QuietLine DEF TypeOK, Calling, Waiting, notify_listeners
<1>13. ASSUME NEW a \in Apps, notify_check(a) PROVE Line'
  BY <1>13, <1>0, QuietLine DEF TypeOK, Calling, Waiting, notify_check
<1>14. ASSUME NEW a \in Apps, notify_lock(a) PROVE Line'
  BY <1>14, <1>0, QuietLine DEF TypeOK, Calling, Waiting, notify_lock
<1>15. ASSUME NEW a \in Apps, notify_pop(a) PROVE Line'
  BY <1>15, NotifyPopLine
<1>16. ASSUME NEW a \in Apps, notify_call(a) PROVE Line'
  BY <1>16, NotifyCallLine
<1>17. ASSUME NEW a \in Apps, callback_get_guard(a) PROVE Line'
  BY <1>17, <1>0, QuietLine DEF TypeOK, Calling, Waiting, callback_get_guard
<1>18. ASSUME NEW a \in Apps, callback_release_guard(a) PROVE Line'
  BY <1>18, <1>0, QuietLine DEF TypeOK, Calling, Waiting, callback_release_guard
<1>19. CASE UNCHANGED vars
  BY <1>19, <1>0, QuietLine DEF vars, Calling, Waiting
<1> QED
  BY <1>1, <1>2, <1>3, <1>4, <1>5, <1>6, <1>7, <1>8, <1>9, <1>10, <1>11,
       <1>12, <1>13, <1>14, <1>15, <1>16, <1>17, <1>18, <1>19
     DEF Next, Reader, Submit, App, Notifier

-----------------------------------------------------------------------------
(* The refinement of MessageQueue *)

LEMMA ConcatAppend ==
  ASSUME NEW S, NEW s \in Seq(S), NEW t \in Seq(S), NEW e \in S
  PROVE  /\ s \o Append(t, e) = Append(s \o t, e)
         /\ Append(s, e) \o <<>> = Append(s \o <<>>, e)
OBVIOUS

LEMMA OutAppend ==
  ASSUME TypeOK, ModeInv, NEW note \in Note, on_msg_received(note)
  PROVE  (missed \o heard)' = Append(missed \o heard, note)
<1>1. missed \in Seq(Note) /\ heard \in Seq(Note)
  BY DEF TypeOK
<1>2. CASE callback_set /\ heard' = Append(heard, note) /\ UNCHANGED missed
  BY <1>1, <1>2, ConcatAppend
<1>3. CASE ~callback_set /\ missed' = Append(missed, note) /\ UNCHANGED heard
  <2>1. heard = <<>> /\ heard' = <<>>
    BY <1>3 DEF ModeInv
  <2>2. Append(missed, note) \o <<>> = Append(missed \o <<>>, note)
    BY <1>1, ConcatAppend
  <2> QED BY <1>3, <2>1, <2>2
<1> QED BY <1>2, <1>3 DEF on_msg_received

LEMMA OutLength ==
  ASSUME TypeOK
  PROVE  missed \o heard \in Seq(Note) /\ Len(missed \o heard) = OutLen
<1>1. missed \in Seq(Note) /\ heard \in Seq(Note)
  BY DEF TypeOK
<1> QED BY <1>1 DEF OutLen

LEMMA QueueInit == Init => MQ!Init
BY DEF Init, MQ!Init

LEMMA QueueStep ==
  ASSUME OneNotifier, RecInv, RecInv', ModeInv, Line, [Next]_vars
  PROVE  [MQ!Next]_(MQ!vars)
<1> USE DEF RecInv
<1>1. ASSUME UNCHANGED <<submitted, outVars>> PROVE UNCHANGED MQ!vars
  BY <1>1 DEF MQ!vars
<1>2. ASSUME NEW c \in Cons, submit_message(c) PROVE MQ!Next
  <2>1. r_pc[c] = "guard" /\ Last(c) \in Msg
    BY <1>2, LastType DEF submit_message, HandInv
  <2>2. [id |-> c, msg |-> Last(c)] \in Note
    BY <2>1 DEF Note
  <2>3. UNCHANGED (missed \o heard)
    BY <1>2 DEF submit_message
  <2> QED BY <1>2, <2>2, <2>3 DEF submit_message, MQ!Next, MQ!Put
<1>3. ASSUME NEW note \in Note, on_msg_received(note), UNCHANGED submitted,
             OutLen < Len(submitted), submitted[OutLen + 1] = note
      PROVE  MQ!Next
  <2>1. (missed \o heard)' = Append(missed \o heard, submitted[OutLen + 1])
    BY <1>3, OutAppend
  <2>2. Len(missed \o heard) = OutLen
    BY OutLength
  <2> QED BY <1>3, <2>1, <2>2 DEF MQ!Next, MQ!Get
<1>4. ASSUME NEW c \in Cons, submit_now(c) PROVE MQ!Next
  <2>1. /\ r_pc[c] = "submit" /\ on_msg_received([id |-> c, msg |-> Last(c)])
        /\ UNCHANGED submitted /\ ~defer_msg_signal
    BY <1>4 DEF submit_now
  <2>2. [id |-> c, msg |-> Last(c)] \in Note
    BY <2>1, LastType DEF HandInv, Note
  <2>3. HandLen = 0 /\ Len(rec_msg_vec) = 0
    BY <2>1 DEF ModeInv, HandLen, Calling
  <2>4. PendLen = 1
    BY <2>1, LineTypes DEF Waiting
  <2>5. Len(submitted) = OutLen + 1
    BY <2>3, <2>4, LineTypes DEF Line, LenInv
  <2>6. submitted[OutLen + 1] = [id |-> c, msg |-> Last(c)]
    BY <2>1, <2>5 DEF Line, PendLine, Waiting
  <2>7. OutLen < Len(submitted)
    BY <2>5, LineTypes
  <2> QED BY <1>3, <2>1, <2>2, <2>6, <2>7
<1>5. ASSUME NEW a \in Apps, notify_call(a) PROVE MQ!Next
  <2>1. /\ Calling(a) /\ on_msg_received(in_hand[a]) /\ UNCHANGED submitted
    BY <1>5 DEF notify_call, Calling
  <2>2. in_hand[a] \in Note
    BY <2>1 DEF HandInv, Calling
  <2>3. Popped = OutLen + 1 /\ OutLen < Len(submitted)
    BY <2>1, LineTypes DEF Line, LenInv
  <2>4. submitted[OutLen + 1] = in_hand[a]
    BY <2>1, <2>3 DEF Line, HandLine
  <2> QED BY <1>3, <2>1, <2>2, <2>3, <2>4
<1>6. ASSUME NEW c \in Cons,
             \/ message_end(c) \/ submit_return(c) \/ submit_lock(c)
             \/ push_msg(c) \/ push_id(c) \/ submit_done(c)
      PROVE  UNCHANGED <<submitted, outVars>>
  BY <1>6 DEF message_end, submit_return, submit_lock, push_msg, push_id,
              submit_done
<1>7. ASSUME NEW a \in Apps,
             \/ set_new_msg_callback(a) \/ get_guard(a) \/ release_guard(a)
             \/ notify_listeners(a) \/ notify_check(a) \/ notify_lock(a)
             \/ notify_pop(a) \/ callback_get_guard(a)
             \/ callback_release_guard(a)
      PROVE  UNCHANGED <<submitted, outVars>>
  BY <1>7 DEF set_new_msg_callback, get_guard, release_guard, notify_listeners,
              notify_check, notify_lock, notify_pop, callback_get_guard,
              callback_release_guard
<1>8. CASE UNCHANGED vars
  BY <1>1, <1>8 DEF vars
<1> QED BY <1>1, <1>2, <1>4, <1>5, <1>6, <1>7, <1>8
        DEF Next, Reader, Submit, App, Notifier

-----------------------------------------------------------------------------
LineInv == RecInv /\ ModeInv /\ Line

LEMMA LineInit == Init => LineInv
<1> SUFFICES ASSUME Init PROVE LineInv
  OBVIOUS
<1> USE DEF Init
<1>1. RecInv
  BY RecInit
<1>2. ModeInv
  BY DEF ModeInv
<1>3. HandLen = 0 /\ PendLen = 0 /\ OutLen = 0
  BY DEF HandLen, PendLen, OutLen, Calling, Waiting
<1>4. Line
  BY <1>3 DEF Line, LenInv, HandLine, QueueLine, PendLine, Popped, Calling,
              Waiting
<1> QED BY <1>1, <1>2, <1>4 DEF LineInv

LEMMA LineAlways ==
  ASSUME OneNotifier
  PROVE  Spec => []LineInv
<1>1. LineInv /\ [Next]_vars => LineInv'
  BY RecStep, ModeStep, LineStep DEF LineInv
<1> QED BY <1>1, LineInit, PTL DEF Spec

\* If one thread calls process_new_msgs, notify_listeners never calls front or
\* pop on an empty queue, though it looks at rec_msg_vec without mut.
THEOREM PopsHaveMessage ==
  ASSUME OneNotifier
  PROVE  Spec => []PopHasMessage
<1>1. LineInv => PopHasMessage
  <2> SUFFICES ASSUME LineInv, NEW a \in Apps, a_pc[a] = "pop"
               PROVE  rec_msg_vec # <<>> /\ rec_msg_ids # <<>>
    BY DEF PopHasMessage
  <2>1. rec_msg_vec # <<>>
    BY DEF LineInv, ModeInv
  <2>2. ~HalfPushed
    BY ThreadAssumption DEF LineInv, RecInv, MutInv, HalfPushed
  <2> QED BY <2>1, <2>2 DEF LineInv, RecInv, SizeInv, TypeOK
<1> QED BY <1>1, LineAlways, PTL

\* If one thread calls process_new_msgs, msg_rec_pool is a queue, deferring or
\* not: each message is handed out once, with its own id, in the order of
\* submission.
THEOREM QueueRefines ==
  ASSUME OneNotifier
  PROVE  Spec => ImplementsMessageQueue
<1>1. LineInv /\ LineInv' /\ [Next]_vars => [MQ!Next]_(MQ!vars)
  BY QueueStep DEF LineInv
<1> QED BY <1>1, QueueInit, LineAlways, PTL
        DEF Spec, ImplementsMessageQueue, MQ!Spec
=============================================================================
