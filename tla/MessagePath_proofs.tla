------------------------- MODULE MessagePath_proofs -------------------------
(***************************************************************************)
(* Theorems about the whole way of a message.  Whatever MsgRecPool does by *)
(* itself it does here too; what is new is the number of a message: the    *)
(* messages that a connection submits are those its peer has sent, in      *)
(* order, and the queue keeps that order.                                  *)
(***************************************************************************)
EXTENDS MessagePath, MsgRecPool_proofs, FiniteSetTheorems

USE DEF Step, AppStep, guardVars, queueVars, readerVars, appVars, outVars

LEMMA PathStep == [PathNext]_pathVars => [Next]_vars
<1> SUFFICES ASSUME [PathNext]_pathVars PROVE [Next]_vars
  OBVIOUS
<1>1. ASSUME NEW c \in Cons, send_msg(c) \/ close_con(c) PROVE UNCHANGED vars
  BY <1>1 DEF send_msg, close_con, vars
<1>2. ASSUME NEW c \in Cons, Reads(c) PROVE Next
  BY <1>2 DEF Reads, deliver, Next, Reader
<1>3. ASSUME NEW a \in Apps, App(a) PROVE Next
  BY <1>3 DEF Next
<1> QED BY <1>1, <1>2, <1>3 DEF PathNext, pathVars

\* The connections only restrict when a message is completed.
THEOREM PathRefines == PathSpec => Spec
<1>1. PathInit => Init
  BY DEF PathInit
<1> QED BY <1>1, PathStep, PTL DEF PathSpec, Spec

-----------------------------------------------------------------------------
(* Numbers *)

\* Which of the first n messages submitted are of connection c.
SubmittedOf(c, n) == {i \in 1..n : submitted[i].id = c}

\* The k-th message a connection submits is its k-th, and it has received no
\* other, but for the one it waits to submit.
NumberInv ==
  /\ \A i \in 1..Len(submitted) :
       LET c == submitted[i].id
       IN  submitted[i].msg =
             [from |-> c, nr |-> Cardinality(SubmittedOf(c, i))]
  /\ \A c \in Cons :
       received[c] = Cardinality(SubmittedOf(c, Len(submitted)))
                       + IF r_pc[c] = "guard" THEN 1 ELSE 0

SentInv == \A c \in Cons : sent[c] \in Nat /\ received[c] <= sent[c]

\* What has been handed out is what was submitted first.
PrefixInv ==
  /\ Len(Handed) <= Len(submitted)
  /\ \A i \in 1..Len(Handed) : Handed[i] = submitted[i]

PathInv == LineInv /\ NumberInv /\ SentInv /\ PrefixInv

LEMMA SubmittedFinite ==
  ASSUME NEW c, NEW n \in Nat
  PROVE  /\ IsFiniteSet(SubmittedOf(c, n))
         /\ Cardinality(SubmittedOf(c, n)) \in Nat
         /\ \A m \in 0..n :
              Cardinality(SubmittedOf(c, m)) <= Cardinality(SubmittedOf(c, n))
<1>1. IsFiniteSet(1..n)
  BY FS_Interval
<1>2. IsFiniteSet(SubmittedOf(c, n))
  BY <1>1, FS_Subset DEF SubmittedOf
<1>3. \A m \in 0..n : SubmittedOf(c, m) \subseteq SubmittedOf(c, n)
  BY DEF SubmittedOf
<1> QED BY <1>2, <1>3, FS_Subset, FS_CardinalityType

LEMMA NumberSubmit ==
  ASSUME RecInv, NumberInv, NEW c \in Cons, submit_message(c)
  PROVE  NumberInv'
<1> DEFINE note == [id |-> c, msg |-> Last(c)]
           NewOf(d, n) == {i \in 1..n : submitted'[i].id = d}
<1>1. /\ r_pc[c] = "guard" /\ r_pc' = [r_pc EXCEPT ![c] = "submit"]
      /\ submitted' = Append(submitted, note) /\ received' = received
  BY DEF submit_message
<1>0. submitted \in Seq(Note) /\ r_pc \in [Cons -> ReaderPC]
  BY DEF RecInv, TypeOK
<1>2. PICK L \in Nat : L = Len(submitted)
  BY <1>0
<1>3. /\ Len(submitted') = L + 1 /\ submitted'[L + 1] = note
      /\ \A i \in 1..L : submitted'[i] = submitted[i]
  BY <1>0, <1>1, <1>2
<1>4. \A d : \A n \in 0..L : NewOf(d, n) = SubmittedOf(d, n)
  BY <1>2, <1>3 DEF SubmittedOf
<1>5. NewOf(c, L + 1) = SubmittedOf(c, L) \cup {L + 1}
  BY <1>2, <1>3 DEF SubmittedOf
<1>6. \A d \in Cons : d # c => NewOf(d, L + 1) = SubmittedOf(d, L)
  BY <1>2, <1>3 DEF SubmittedOf
<1>7. L + 1 \notin SubmittedOf(c, L)
  BY <1>2 DEF SubmittedOf
<1> HIDE DEF NewOf
<1>8. Cardinality(NewOf(c, L + 1)) = Cardinality(SubmittedOf(c, L)) + 1
  BY <1>2, <1>5, <1>7, SubmittedFinite, FS_AddElement
<1>9. received[c] = Cardinality(SubmittedOf(c, L)) + 1
  BY <1>1, <1>2 DEF NumberInv
<1>10. ASSUME NEW i \in 1..Len(submitted')
       PROVE  submitted'[i].msg =
                [from |-> submitted'[i].id,
                 nr |-> Cardinality(NewOf(submitted'[i].id, i))]
  <2>1. CASE i \in 1..L
    <3>1. i \in 0..L
      BY <1>2, <2>1
    <3> QED BY <1>2, <1>3, <1>4, <2>1, <3>1 DEF NumberInv
  <2>2. CASE i = L + 1
    <3>1. /\ submitted'[i].id = c
          /\ submitted'[i].msg = [from |-> c, nr |-> received[c]]
      BY <1>3, <2>2 DEF Last
    <3> QED BY <1>8, <1>9, <2>2, <3>1
  <2> QED BY <1>2, <1>3, <2>1, <2>2
<1>11. ASSUME NEW d \in Cons
       PROVE  received'[d] = Cardinality(NewOf(d, L + 1))
                               + IF r_pc'[d] = "guard" THEN 1 ELSE 0
  <2>1. CASE d = c
    <3>1. Cardinality(SubmittedOf(c, L)) \in Nat
      BY SubmittedFinite
    <3>2. r_pc'[c] # "guard" /\ received'[c] = received[c]
      BY <1>0, <1>1
    <3> QED BY <1>8, <1>9, <2>1, <3>1, <3>2
  <2>2. CASE d # c
    BY <1>0, <1>1, <1>2, <1>3, <1>6, <2>2 DEF NumberInv
  <2> QED BY <2>1, <2>2
<1> QED BY <1>2, <1>3, <1>10, <1>11 DEF NumberInv, SubmittedOf, NewOf

LEMMA NumberStep ==
  ASSUME RecInv, NumberInv, [Next]_vars
  PROVE  NumberInv'
<1>1. ASSUME UNCHANGED <<submitted, received>>,
             \A c \in Cons : r_pc'[c] = "guard" <=> r_pc[c] = "guard"
      PROVE  NumberInv'
  BY <1>1 DEF NumberInv, SubmittedOf
<1>2. ASSUME NEW c \in Cons, message_end(c) PROVE NumberInv'
  <2>1. /\ r_pc[c] = "idle" /\ r_pc' = [r_pc EXCEPT ![c] = "guard"]
        /\ received' = [received EXCEPT ![c] = @ + 1]
        /\ UNCHANGED submitted
    BY <1>2 DEF message_end
  <2>2. /\ r_pc \in [Cons -> ReaderPC] /\ received \in [Cons -> 0..MaxMsgs]
        /\ Len(submitted) \in Nat
    BY DEF RecInv, TypeOK
  <2>3. \A d \in Cons :
          SubmittedOf(d, Len(submitted))' = SubmittedOf(d, Len(submitted))
    BY <2>1 DEF SubmittedOf
  <2>4. \A d \in Cons :
          received'[d] = Cardinality(SubmittedOf(d, Len(submitted)))
                           + IF r_pc'[d] = "guard" THEN 1 ELSE 0
    <3>1. \A d \in Cons :
            received[d] = Cardinality(SubmittedOf(d, Len(submitted)))
                            + IF r_pc[d] = "guard" THEN 1 ELSE 0
      BY DEF NumberInv
    <3>2. \A d \in Cons :
            /\ received'[d] = IF d = c THEN received[d] + 1 ELSE received[d]
            /\ r_pc'[d] = IF d = c THEN "guard" ELSE r_pc[d]
      BY <2>1, <2>2
    <3>3. \A d \in Cons : Cardinality(SubmittedOf(d, Len(submitted))) \in Nat
      BY <2>2, SubmittedFinite
    <3> QED BY <2>1, <3>1, <3>2, <3>3
  <2> QED BY <2>1, <2>3, <2>4 DEF NumberInv, SubmittedOf
<1>3. ASSUME NEW c \in Cons, submit_message(c) PROVE NumberInv'
  BY <1>3, NumberSubmit
<1>4. ASSUME NEW c \in Cons,
             \/ submit_now(c) \/ submit_return(c) \/ submit_lock(c)
             \/ push_msg(c) \/ push_id(c) \/ submit_done(c)
      PROVE  NumberInv'
  BY <1>1, <1>4 DEF RecInv, TypeOK, submit_now, submit_return, submit_lock,
                    push_msg, push_id, submit_done
<1>5. ASSUME NEW a \in Apps, App(a) PROVE UNCHANGED readerVars
  BY <1>5 DEF App, Notifier, set_new_msg_callback, get_guard, release_guard,
              notify_listeners, notify_check, notify_lock, notify_pop,
              notify_call, callback_get_guard, callback_release_guard
<1>6. CASE UNCHANGED vars
  BY <1>1, <1>6 DEF vars
<1> QED BY <1>1, <1>2, <1>3, <1>4, <1>5, <1>6 DEF Next, Reader, Submit

-----------------------------------------------------------------------------
LEMMA FirstLen == \A n \in Nat : Len(First(n)) = n
BY DEF First

LEMMA SentStep ==
  ASSUME TypeOK, SentInv, [PathNext]_pathVars
  PROVE  SentInv'
<1>1. received \in [Cons -> 0..MaxMsgs]
  BY DEF TypeOK
<1>2. ASSUME UNCHANGED <<sent, received>> PROVE SentInv'
  BY <1>2 DEF SentInv
<1>3. ASSUME NEW c \in Cons, send_msg(c) PROVE SentInv'
  BY <1>1, <1>3 DEF SentInv, send_msg, vars
<1>4. ASSUME NEW c \in Cons, deliver(c) PROVE SentInv'
  <2>1. /\ received' = [received EXCEPT ![c] = @ + 1]
        /\ UNCHANGED sent
    BY <1>4 DEF deliver, message_end
  <2>2. Len(First(received[c])) < Len(First(sent[c]))
    BY <1>4 DEF deliver, Layer!Deliver
  <2>3. received[c] < sent[c]
    BY <1>1, <2>2, FirstLen DEF SentInv
  <2> QED BY <1>1, <2>1, <2>3 DEF SentInv
<1>5. ASSUME NEW c \in Cons, close_con(c) PROVE SentInv'
  BY <1>2, <1>5 DEF close_con, vars
<1>6. ASSUME NEW c \in Cons, Submit(c), UNCHANGED sent PROVE SentInv'
  BY <1>2, <1>6 DEF Submit, submit_message, submit_now, submit_return,
       submit_lock, push_msg, push_id, submit_done
<1>7. ASSUME NEW a \in Apps, App(a), UNCHANGED sent PROVE SentInv'
  BY <1>2, <1>7 DEF App, Notifier, set_new_msg_callback, get_guard,
       release_guard, notify_listeners, notify_check, notify_lock, notify_pop,
       notify_call, callback_get_guard, callback_release_guard
<1>8. CASE UNCHANGED pathVars
  BY <1>2, <1>8 DEF pathVars, vars
<1> QED BY <1>3, <1>4, <1>5, <1>6, <1>7, <1>8 DEF PathNext, Reads

LEMMA PrefixStep ==
  ASSUME TypeOK, TypeOK', PrefixInv, [MQ!Next]_(MQ!vars)
  PROVE  PrefixInv'
<1>1. /\ Handed \in Seq(Note) /\ submitted \in Seq(Note)
      /\ submitted' \in Seq(Note)
  BY OutLength DEF Handed, TypeOK
<1>2. ASSUME NEW n \in Note, submitted' = Append(submitted, n),
             UNCHANGED Handed
      PROVE  PrefixInv'
  BY <1>1, <1>2 DEF PrefixInv
<1>3. ASSUME Len(Handed) < Len(submitted), UNCHANGED submitted,
             Handed' = Append(Handed, submitted[Len(Handed) + 1])
      PROVE  PrefixInv'
  <2>1. /\ Len(Handed') = Len(Handed) + 1
        /\ Handed'[Len(Handed')] = submitted[Len(Handed) + 1]
        /\ \A i \in 1..Len(Handed) : Handed'[i] = Handed[i]
        /\ Len(Handed) \in Nat /\ Len(submitted) \in Nat
    BY <1>1, <1>3
  <2> QED BY <1>3, <2>1 DEF PrefixInv
<1>4. CASE UNCHANGED MQ!vars
  BY <1>4 DEF MQ!vars, PrefixInv, Handed
<1> QED BY <1>2, <1>3, <1>4 DEF MQ!Next, MQ!Put, MQ!Get, Handed

LEMMA PathInvInit == PathInit => PathInv
<1> SUFFICES ASSUME PathInit PROVE PathInv
  OBVIOUS
<1>1. Init
  BY DEF PathInit
<1>2. LineInv
  BY <1>1, LineInit
<1>3. submitted = <<>> /\ Handed = <<>>
  BY <1>1 DEF Init, Handed
<1>4. NumberInv
  <2>1. \A c : SubmittedOf(c, Len(submitted)) = {}
    BY <1>3 DEF SubmittedOf
  <2>2. Cardinality({}) = 0
    BY FS_EmptySet
  <2>3. \A c \in Cons : received[c] = 0 /\ r_pc[c] # "guard"
    BY <1>1 DEF Init
  <2>4. \A c \in Cons :
          received[c] = Cardinality(SubmittedOf(c, Len(submitted)))
                          + IF r_pc[c] = "guard" THEN 1 ELSE 0
    <3>1. \A c : Cardinality(SubmittedOf(c, Len(submitted))) = 0
      BY <2>1, <2>2, Zenon
    <3> QED BY <2>3, <3>1
  <2>5. 1..Len(submitted) = {}
    BY <1>3
  <2> QED BY <2>4, <2>5 DEF NumberInv
<1>5. SentInv
  BY <1>1 DEF SentInv, PathInit, Init
<1>6. PrefixInv
  BY <1>3 DEF PrefixInv
<1> QED BY <1>2, <1>4, <1>5, <1>6 DEF PathInv

LEMMA PathAlways ==
  ASSUME OneNotifier
  PROVE  PathSpec => []PathInv
<1>1. PathInv /\ [PathNext]_pathVars => PathInv'
  <2> SUFFICES ASSUME PathInv, [PathNext]_pathVars PROVE PathInv'
    OBVIOUS
  <2> USE DEF PathInv
  <2>1. [Next]_vars
    BY PathStep
  <2>2. LineInv'
    BY <2>1, RecStep, ModeStep, LineStep DEF LineInv
  <2>3. [MQ!Next]_(MQ!vars)
    BY <2>1, <2>2, QueueStep DEF LineInv
  <2>4. NumberInv'
    BY <2>1, NumberStep DEF LineInv
  <2>5. SentInv'
    BY SentStep DEF LineInv, RecInv
  <2>6. PrefixInv'
    BY <2>2, <2>3, PrefixStep DEF LineInv, RecInv
  <2> QED BY <2>2, <2>4, <2>5, <2>6
<1> QED BY <1>1, PathInvInit, PTL DEF PathSpec

\* From peer to application: with one thread calling process_new_msgs, the k-th
\* message handed out under the id of a connection is the k-th that its peer
\* sent on it, for any number of connections and messages.
THEOREM MessagesInOrder ==
  ASSUME OneNotifier
  PROVE  PathSpec => []PeerOrder
<1>1. ASSUME PathInv PROVE PeerOrder
  <2> SUFFICES ASSUME NEW i \in 1..Len(Handed)
               PROVE  LET c == Handed[i].id
                          k == Cardinality(Of(c, i))
                      IN  /\ Handed[i].msg = [from |-> c, nr |-> k]
                          /\ k <= sent[c]
    BY DEF PeerOrder
  <2> DEFINE c == Handed[i].id
  <2> USE <1>1 DEF PathInv, LineInv, RecInv
  <2>1. Handed \in Seq(Note) /\ submitted \in Seq(Note)
    BY OutLength DEF Handed, TypeOK
  <2>2. i \in 1..Len(submitted) /\ Len(submitted) \in Nat /\ i \in Nat
    BY <2>1 DEF PrefixInv
  <2>3. Handed[i] = submitted[i] /\ c \in Cons
    <3>1. Handed[i] \in Note
      BY <2>1
    <3> QED BY <3>1 DEF PrefixInv, Note
  <2>4. Of(c, i) = SubmittedOf(c, i)
    BY <2>1 DEF Of, SubmittedOf, PrefixInv
  <2>5. Handed[i].msg = [from |-> c, nr |-> Cardinality(Of(c, i))]
    BY <2>2, <2>3, <2>4 DEF NumberInv
  <2>6. /\ Cardinality(SubmittedOf(c, i))
             <= Cardinality(SubmittedOf(c, Len(submitted)))
        /\ Cardinality(SubmittedOf(c, i)) \in Nat
        /\ Cardinality(SubmittedOf(c, Len(submitted))) \in Nat
    BY <2>2, SubmittedFinite
  <2>7. Cardinality(SubmittedOf(c, Len(submitted))) <= received[c]
    BY <2>3, <2>6 DEF NumberInv
  <2>8. received[c] <= sent[c] /\ received[c] \in Nat /\ sent[c] \in Nat
    BY <2>3 DEF SentInv, TypeOK
  <2> HIDE DEF c
  <2>9. Cardinality(Of(c, i)) <= sent[c]
    BY <2>4, <2>6, <2>7, <2>8
  <2> QED BY <2>5, <2>9 DEF c
<1> QED BY <1>1, PathAlways, PTL
=============================================================================
