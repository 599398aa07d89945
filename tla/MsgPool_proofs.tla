--------------------------- MODULE MsgPool_proofs ---------------------------
(***************************************************************************)
(* Theorems about MsgPool for every set of buffers and of owners, and      *)
(* every max_messages.                                                     *)
(***************************************************************************)
EXTENDS MsgPool, SequenceTheorems, TLAPS

\* What each place knows of the buffers in it: those in the pool are in their
\* second life and empty, those about to be returned are in their first, and
\* a thread that is allocating holds nothing yet.
Lives ==
  /\ \A b \in Pooled : heap[b] = "recycled" /\ b \notin filled
  /\ \A b \in returning : heap[b] = "new"
  /\ \A o \in Owners : pc[o] = "alloc" => owns[o] = NoBuffer

\* The inductive invariant.  OnePlace is not inductive alone: a pooled buffer
\* that was still "new" would be returned, and pooled, a second time.
PoolInv == TypeOK /\ OnePlace /\ NoLeak /\ PoolBound /\ Lives

-----------------------------------------------------------------------------
(* The stack and the owners, after each way of changing them *)

\* The elements of a sequence.
ElementsOf(s) == {s[i] : i \in 1..Len(s)}

LEMMA AppendElements ==
  ASSUME NEW S, NEW s \in Seq(S), NEW b
  PROVE  ElementsOf(Append(s, b)) = ElementsOf(s) \cup {b}
BY DEF ElementsOf

LEMMA PrefixType ==
  ASSUME NEW S, NEW s \in Seq(S), NEW n \in Nat, n <= Len(s)
  PROVE  /\ SubSeq(s, 1, n) \in Seq(S) /\ Len(SubSeq(s, 1, n)) = n
         /\ \A i \in 1..n : SubSeq(s, 1, n)[i] = s[i]
OBVIOUS

\* What remains of a stack without its top.
LEMMA PopElements ==
  ASSUME NEW S, NEW s \in Seq(S), s # <<>>,
         \A i, j \in 1..Len(s) : s[i] = s[j] => i = j
  PROVE  LET t == SubSeq(s, 1, Len(s) - 1)
         IN  /\ t \in Seq(S) /\ Len(t) = Len(s) - 1
             /\ \A i \in 1..Len(t) : t[i] = s[i]
             /\ ElementsOf(t) = ElementsOf(s) \ {s[Len(s)]}
             /\ s[Len(s)] \in ElementsOf(s)
<1> DEFINE t == SubSeq(s, 1, Len(s) - 1)
<1>1. Len(s) \in Nat /\ Len(s) > 0
  OBVIOUS
<1>2. t \in Seq(S) /\ Len(t) = Len(s) - 1 /\ \A i \in 1..Len(t) : t[i] = s[i]
  <2>1. Len(s) - 1 \in Nat
    BY <1>1
  <2>2. Len(s) - 1 <= Len(s)
    BY <1>1
  <2>3. /\ t \in Seq(S) /\ Len(t) = Len(s) - 1
        /\ \A i \in 1..Len(s) - 1 : t[i] = s[i]
    BY <2>1, <2>2, PrefixType, Zenon
  <2> QED BY <2>3
<1>3. s[Len(s)] \in ElementsOf(s)
  BY <1>1 DEF ElementsOf
<1> HIDE DEF t
<1>4. ElementsOf(t) \subseteq ElementsOf(s) \ {s[Len(s)]}
  BY <1>1, <1>2 DEF ElementsOf
<1>5. ElementsOf(s) \ {s[Len(s)]} \subseteq ElementsOf(t)
  <2> SUFFICES ASSUME NEW i \in 1..Len(s), s[i] # s[Len(s)]
               PROVE  s[i] \in ElementsOf(t)
    BY DEF ElementsOf
  <2>1. i \in 1..Len(t)
    BY <1>1, <1>2
  <2> QED BY <2>1, <1>2 DEF ElementsOf
<1> QED BY <1>2, <1>3, <1>4, <1>5 DEF t

LEMMA HeldGain ==
  ASSUME TypeOK, NEW o \in Owners, NEW b \in Buffers, owns[o] = NoBuffer,
         owns' = [owns EXCEPT ![o] = b]
  PROVE  Held' = Held \cup {b}
BY PoolAssumption DEF TypeOK, Held, OwnersOf

LEMMA HeldLoss ==
  ASSUME TypeOK, NEW o \in Owners, owns[o] # NoBuffer,
         owns' = [owns EXCEPT ![o] = NoBuffer]
  PROVE  /\ owns[o] \in Buffers /\ owns[o] \in Held
         /\ OwnersOf(owns[o]) = {o} => Held' = Held \ {owns[o]}
         /\ OwnersOf(owns[o]) # {o} => Held' = Held
<1>1. owns[o] \in Buffers /\ o \in OwnersOf(owns[o]) /\ owns[o] \in Held
  BY DEF TypeOK, Held, OwnersOf
<1>2. \A b \in Buffers : OwnersOf(b)' = OwnersOf(b) \ {o}
  BY PoolAssumption DEF TypeOK, OwnersOf
<1>3. \A b \in Buffers : b # owns[o] => o \notin OwnersOf(b)
  BY DEF OwnersOf
<1>4. \A b \in Buffers : b # owns[o] => (b \in Held' <=> b \in Held)
  BY <1>2, <1>3 DEF Held
<1>5. owns[o] \in Held' <=> OwnersOf(owns[o]) # {o}
  BY <1>1, <1>2 DEF Held
<1> QED BY <1>1, <1>4, <1>5 DEF Held

LEMMA HeldSame ==
  ASSUME UNCHANGED owns
  PROVE  Held' = Held
BY DEF Held, OwnersOf

-----------------------------------------------------------------------------
LEMMA PoolInit == Init => PoolInv
<1> SUFFICES ASSUME Init PROVE PoolInv
  OBVIOUS
<1> USE DEF Init
<1>1. TypeOK
  BY DEF TypeOK, HeapStates
<1>2. Pooled = {} /\ returning = {}
  BY DEF Pooled
<1>3. Held = {}
  BY PoolAssumption DEF Held, OwnersOf
<1>4. OnePlace
  BY <1>2, <1>3 DEF OnePlace
<1>5. NoLeak /\ Lives
  BY <1>2 DEF NoLeak, Lives
<1>6. PoolBound
  BY PoolAssumption DEF PoolBound
<1> QED BY <1>1, <1>4, <1>5, <1>6 DEF PoolInv

LEMMA GetKeeps ==
  ASSUME PoolInv, NEW o \in Owners, get_message(o)
  PROVE  PoolInv'
<1> USE DEF get_message, PoolInv
<1>1. CASE msg_vec = <<>>
  <2>1. UNCHANGED <<msg_vec, owns, heap, returning, filled>>
        /\ pc' = [pc EXCEPT ![o] = "alloc"] /\ owns[o] = NoBuffer
    BY <1>1
  <2>2. Pooled' = Pooled /\ Held' = Held
    BY <2>1, HeldSame DEF Pooled
  <2>3. TypeOK'
    BY <2>1 DEF TypeOK
  <2>4. OnePlace' /\ NoLeak' /\ PoolBound'
    BY <2>1, <2>2 DEF OnePlace, NoLeak, PoolBound
  <2>5. Lives'
    BY <2>1, <2>2 DEF Lives, TypeOK
  <2> QED BY <2>3, <2>4, <2>5
<1>2. CASE msg_vec # <<>>
  <2> DEFINE b == msg_vec[Len(msg_vec)]
  <2>1. /\ owns[o] = NoBuffer /\ owns' = [owns EXCEPT ![o] = b]
        /\ msg_vec' = SubSeq(msg_vec, 1, Len(msg_vec) - 1)
        /\ UNCHANGED <<pc, heap, returning, filled>> /\ pc[o] = "idle"
    BY <1>2
  <2>2. /\ msg_vec' \in Seq(Buffers) /\ Len(msg_vec') = Len(msg_vec) - 1
        /\ \A i \in 1..Len(msg_vec') : msg_vec'[i] = msg_vec[i]
        /\ Pooled' = Pooled \ {b} /\ b \in Pooled
    <3>1. /\ msg_vec \in Seq(Buffers)
          /\ \A i, j \in 1..Len(msg_vec) : msg_vec[i] = msg_vec[j] => i = j
      BY DEF TypeOK, OnePlace
    <3>2. Pooled = ElementsOf(msg_vec) /\ Pooled' = ElementsOf(msg_vec')
      BY DEF Pooled, ElementsOf
    <3> QED BY <2>1, <1>2, <3>1, <3>2, PopElements
  <2>3. Len(msg_vec) \in Nat /\ b \in Buffers
    BY <1>2 DEF TypeOK
  <2> HIDE DEF b
  <2>4. Held' = Held \cup {b}
    BY <2>1, <2>3, HeldGain
  <2>5. TypeOK'
    BY <2>1, <2>2, <2>3 DEF TypeOK
  <2>6. PoolBound'
    BY <2>2, <2>3, PoolAssumption DEF PoolBound
  <2>7. \A i, j \in 1..Len(msg_vec') : msg_vec'[i] = msg_vec'[j] => i = j
    BY <2>2, <2>3 DEF OnePlace
  <2>8. OnePlace'
    BY <2>1, <2>2, <2>4, <2>7 DEF OnePlace
  <2>9. NoLeak'
    BY <2>1, <2>2, <2>4 DEF NoLeak
  <2>10. Lives'
    BY <2>1, <2>2, <2>3 DEF Lives, TypeOK
  <2> QED BY <2>5, <2>6, <2>8, <2>9, <2>10
<1> QED BY <1>1, <1>2

LEMMA AllocateKeeps ==
  ASSUME PoolInv, NEW o \in Owners, allocate(o)
  PROVE  PoolInv'
<1> USE DEF PoolInv
<1>1. PICK b \in Buffers : /\ heap[b] = "free"
                           /\ heap' = [heap EXCEPT ![b] = "new"]
                           /\ owns' = [owns EXCEPT ![o] = b]
  BY DEF allocate
<1>2. /\ pc[o] = "alloc" /\ owns[o] = NoBuffer
      /\ pc' = [pc EXCEPT ![o] = "idle"]
      /\ UNCHANGED <<msg_vec, returning, filled>>
  BY DEF allocate, Lives
<1>3. Pooled' = Pooled /\ Held' = Held \cup {b}
  BY <1>1, <1>2, HeldGain DEF Pooled
<1>4. b \notin Pooled \cup returning \cup Held
  BY <1>1 DEF OnePlace
<1>5. Pooled \subseteq Buffers
  BY DEF Pooled, TypeOK
<1>6. TypeOK'
  BY <1>1, <1>2 DEF TypeOK, HeapStates
<1>7. OnePlace'
  BY <1>1, <1>2, <1>3, <1>4, <1>5 DEF OnePlace, TypeOK
<1>8. NoLeak' /\ PoolBound'
  BY <1>1, <1>2, <1>3 DEF NoLeak, PoolBound, TypeOK
<1>9. Lives'
  BY <1>1, <1>2, <1>3, <1>4, <1>5 DEF Lives, TypeOK
<1> QED BY <1>6, <1>7, <1>8, <1>9

LEMMA CopyKeeps ==
  ASSUME PoolInv, NEW o \in Owners, NEW p \in Owners, copy(o, p)
  PROVE  PoolInv'
<1> USE DEF PoolInv
<1>1. /\ owns[o] # NoBuffer /\ owns[p] = NoBuffer /\ pc[p] = "idle"
      /\ owns' = [owns EXCEPT ![p] = owns[o]]
      /\ UNCHANGED <<msg_vec, pc, heap, returning, filled>>
  BY DEF copy
<1>2. owns[o] \in Buffers /\ owns[o] \in Held
  BY <1>1 DEF TypeOK, Held, OwnersOf
<1>3. Held' = Held /\ Pooled' = Pooled
  BY <1>1, <1>2, HeldGain DEF Pooled
<1>4. TypeOK'
  BY <1>1, <1>2 DEF TypeOK
<1>5. OnePlace' /\ NoLeak' /\ PoolBound'
  BY <1>1, <1>3 DEF OnePlace, NoLeak, PoolBound
<1>6. Lives'
  BY <1>1, <1>3 DEF Lives, TypeOK
<1> QED BY <1>4, <1>5, <1>6

LEMMA PushKeeps ==
  ASSUME PoolInv, NEW o \in Owners, push_back(o)
  PROVE  PoolInv'
<1> USE DEF PoolInv
<1>1. /\ owns[o] # NoBuffer /\ filled' = filled \cup {owns[o]}
      /\ UNCHANGED <<msg_vec, owns, pc, heap, returning>>
  BY DEF push_back
<1>2. owns[o] \in Buffers /\ owns[o] \in Held
  BY <1>1 DEF TypeOK, Held, OwnersOf
<1>3. Held' = Held /\ Pooled' = Pooled
  BY <1>1, HeldSame DEF Pooled
<1>4. heap[owns[o]] # "free" /\ owns[o] \notin Pooled
  BY <1>2 DEF OnePlace
<1>5. TypeOK'
  BY <1>1, <1>2, <1>4 DEF TypeOK
<1>6. OnePlace' /\ NoLeak' /\ PoolBound'
  BY <1>1, <1>3 DEF OnePlace, NoLeak, PoolBound
<1>7. Lives'
  BY <1>1, <1>3, <1>4 DEF Lives
<1> QED BY <1>5, <1>6, <1>7

LEMMA ReleaseKeeps ==
  ASSUME PoolInv, NEW o \in Owners, release(o)
  PROVE  PoolInv'
<1> DEFINE b == owns[o]
           last == OwnersOf(b) = {o}
<1> USE DEF PoolInv
<1>1. b # NoBuffer /\ owns' = [owns EXCEPT ![o] = NoBuffer]
      /\ UNCHANGED <<msg_vec, pc>>
  BY DEF release
<1>2. /\ b \in Buffers /\ b \in Held
      /\ last => Held' = Held \ {b}
      /\ ~last => Held' = Held
  BY <1>1, HeldLoss
<1>3. Pooled' = Pooled /\ PoolBound' /\ Pooled \subseteq Buffers
  BY <1>1 DEF Pooled, PoolBound, TypeOK
<1>4. b \notin Pooled /\ b \notin returning /\ heap[b] # "free"
  BY <1>2 DEF OnePlace
<1>5. owns' \in [Owners -> Buffers \cup {NoBuffer}]
      /\ \A p \in Owners : pc'[p] = "alloc" => owns'[p] = NoBuffer
  BY <1>1 DEF TypeOK, Lives
<1>6. CASE /\ last /\ heap[b] = "new"
           /\ returning' = returning \cup {b}
           /\ UNCHANGED <<heap, filled>>
  <2>1. TypeOK'
    BY <1>1, <1>2, <1>5, <1>6 DEF TypeOK
  <2>2. OnePlace' /\ NoLeak'
    BY <1>1, <1>2, <1>3, <1>4, <1>6 DEF OnePlace, NoLeak
  <2>3. Lives'
    BY <1>2, <1>3, <1>5, <1>6 DEF Lives
  <2> QED BY <2>1, <2>2, <2>3, <1>3
<1>7. CASE /\ last /\ heap[b] = "recycled"
           /\ heap' = [heap EXCEPT ![b] = "free"]
           /\ filled' = filled \ {b}
           /\ UNCHANGED returning
  <2>1. TypeOK'
    BY <1>1, <1>2, <1>5, <1>7 DEF TypeOK, HeapStates
  <2>2. \A d \in Buffers : d # b => heap'[d] = heap[d]
    BY <1>7 DEF TypeOK
  <2>3. OnePlace'
    BY <1>1, <1>2, <1>3, <1>4, <1>7, <2>2 DEF OnePlace, TypeOK, Held
  <2>4. heap'[b] = "free"
    BY <1>2, <1>7 DEF TypeOK
  <2>5. NoLeak'
    BY <1>2, <1>3, <1>7, <2>2, <2>4 DEF NoLeak
  <2>6. Lives'
    BY <1>3, <1>4, <1>5, <1>7, <2>2 DEF Lives, TypeOK
  <2> QED BY <2>1, <2>3, <2>5, <2>6, <1>3
<1>8. CASE ~last /\ UNCHANGED <<heap, filled, returning>>
  <2>1. TypeOK'
    BY <1>1, <1>5, <1>8 DEF TypeOK
  <2>2. OnePlace' /\ NoLeak'
    BY <1>1, <1>2, <1>3, <1>8 DEF OnePlace, NoLeak
  <2>3. Lives'
    BY <1>3, <1>5, <1>8 DEF Lives
  <2> QED BY <2>1, <2>2, <2>3, <1>3
<1> QED BY <1>6, <1>7, <1>8 DEF release

LEMMA ReturnKeeps ==
  ASSUME PoolInv, NEW b \in Buffers, return_message(b)
  PROVE  PoolInv'
<1> USE DEF PoolInv
<1>1. /\ b \in returning /\ returning' = returning \ {b}
      /\ filled' = filled \ {b} /\ UNCHANGED <<owns, pc>>
  BY DEF return_message
<1>2. Held' = Held
  BY <1>1, HeldSame
<1>3. b \notin Pooled /\ b \notin Held /\ Pooled \subseteq Buffers
  BY <1>1 DEF OnePlace, Pooled, TypeOK
<1>4. CASE /\ Len(msg_vec) <= max_messages
           /\ msg_vec' = Append(msg_vec, b)
           /\ heap' = [heap EXCEPT ![b] = "recycled"]
  <2>1. Pooled' = Pooled \cup {b}
    BY <1>4, AppendElements DEF TypeOK, ElementsOf, Pooled
  <2>2. /\ msg_vec' \in Seq(Buffers) /\ Len(msg_vec') = Len(msg_vec) + 1
        /\ \A i \in 1..Len(msg_vec) : msg_vec'[i] = msg_vec[i]
        /\ msg_vec'[Len(msg_vec')] = b /\ Len(msg_vec) \in Nat
    BY <1>4 DEF TypeOK
  <2>3. TypeOK'
    BY <1>1, <1>4, <2>2 DEF TypeOK, HeapStates
  <2>4. \A i \in 1..Len(msg_vec) : msg_vec[i] # b
    BY <1>3 DEF Pooled
  <2>5. \A i, j \in 1..Len(msg_vec') : msg_vec'[i] = msg_vec'[j] => i = j
    BY <2>2, <2>4 DEF OnePlace
  <2>6. \A d \in Buffers : heap'[d] = IF d = b THEN "recycled" ELSE heap[d]
    BY <1>4 DEF TypeOK
  <2>7. returning \subseteq Buffers /\ Held \subseteq Buffers
    BY DEF TypeOK, Held
  <2>8. OnePlace'
    BY <1>1, <1>2, <1>3, <2>1, <2>5, <2>6, <2>7 DEF OnePlace
  <2>9. NoLeak'
    BY <1>1, <1>2, <2>1, <2>6 DEF NoLeak
  <2>10. PoolBound'
    BY <1>4, <2>2, PoolAssumption DEF PoolBound
  <2>11. Lives'
    BY <1>1, <1>3, <2>1, <2>6, <2>7 DEF Lives
  <2> QED BY <2>3, <2>8, <2>9, <2>10, <2>11
<1>5. CASE /\ Len(msg_vec) > max_messages
           /\ heap' = [heap EXCEPT ![b] = "free"]
           /\ UNCHANGED msg_vec
  <2>1. Pooled' = Pooled
    BY <1>5 DEF Pooled
  <2>2. TypeOK'
    BY <1>1, <1>5 DEF TypeOK, HeapStates
  <2>3. \A d \in Buffers : heap'[d] = IF d = b THEN "free" ELSE heap[d]
    BY <1>5 DEF TypeOK
  <2>4. returning \subseteq Buffers /\ Held \subseteq Buffers
    BY DEF TypeOK, Held
  <2>5. OnePlace'
    BY <1>1, <1>2, <1>3, <1>5, <2>1, <2>3, <2>4 DEF OnePlace
  <2>6. NoLeak' /\ PoolBound'
    BY <1>1, <1>2, <1>5, <2>1, <2>3 DEF NoLeak, PoolBound
  <2>7. Lives'
    BY <1>1, <1>3, <2>1, <2>3, <2>4 DEF Lives
  <2> QED BY <2>2, <2>5, <2>6, <2>7
<1> QED BY <1>4, <1>5 DEF return_message

LEMMA StutterKeeps ==
  ASSUME PoolInv, UNCHANGED vars
  PROVE  PoolInv'
<1>1. Held' = Held /\ Pooled' = Pooled
  BY HeldSame DEF vars, Pooled
<1> QED BY <1>1 DEF PoolInv, TypeOK, OnePlace, NoLeak, PoolBound, Lives, vars

LEMMA PoolStep == PoolInv /\ [Next]_vars => PoolInv'
<1> SUFFICES ASSUME PoolInv, [Next]_vars PROVE PoolInv'
  OBVIOUS
<1>1. ASSUME NEW o \in Owners, get_message(o) PROVE PoolInv'
  BY <1>1, GetKeeps
<1>2. ASSUME NEW o \in Owners, allocate(o) PROVE PoolInv'
  BY <1>2, AllocateKeeps
<1>3. ASSUME NEW o \in Owners, push_back(o) PROVE PoolInv'
  BY <1>3, PushKeeps
<1>4. ASSUME NEW o \in Owners, release(o) PROVE PoolInv'
  BY <1>4, ReleaseKeeps
<1>5. ASSUME NEW o \in Owners, NEW p \in Owners, copy(o, p) PROVE PoolInv'
  BY <1>5, CopyKeeps
<1>6. ASSUME NEW b \in Buffers, return_message(b) PROVE PoolInv'
  BY <1>6, ReturnKeeps
<1>7. CASE UNCHANGED vars
  BY <1>7, StutterKeeps
<1> QED BY <1>1, <1>2, <1>3, <1>4, <1>5, <1>6, <1>7 DEF Next

LEMMA PoolAlways == Spec => []PoolInv
<1> QED BY PoolInit, PoolStep, PTL DEF Spec

-----------------------------------------------------------------------------
\* Every variable of the pool keeps its type, and bytes are only ever in a
\* vector that is allocated.
THEOREM PoolTypeCorrect == Spec => []TypeOK
<1>1. PoolInv => TypeOK
  BY DEF PoolInv
<1> QED BY <1>1, PoolAlways, PTL

\* get_message, the deleters and return_message keep each buffer in one place,
\* in every interleaving of any number of threads.
THEOREM BuffersInOnePlace == Spec => []OnePlace
<1>1. PoolInv => OnePlace
  BY DEF PoolInv
<1> QED BY <1>1, PoolAlways, PTL

\* No buffer is lost, though its deleter changes with its second life.
THEOREM BuffersReachable == Spec => []NoLeak
<1>1. PoolInv => NoLeak
  BY DEF PoolInv
<1> QED BY <1>1, PoolAlways, PTL

\* return_message keeps at most max_messages + 1 buffers.
THEOREM PoolBounded == Spec => []PoolBound
<1>1. PoolInv => PoolBound
  BY DEF PoolInv
<1> QED BY <1>1, PoolAlways, PTL

\* get_message hands out empty buffers only.
THEOREM GetsEmpty == Spec => GivenEmpty
<1> DEFINE Given(o) ==
             /\ owns[o] = NoBuffer
             /\ owns'[o] # NoBuffer
             /\ OwnersOf(owns'[o]) = {}
             => owns'[o] \notin filled'
<1>1. ASSUME PoolInv, [Next]_vars, NEW o \in Owners
      PROVE  Given(o)
  <2> SUFFICES ASSUME owns[o] = NoBuffer, owns'[o] # NoBuffer,
                      OwnersOf(owns'[o]) = {}
               PROVE  owns'[o] \notin filled'
    OBVIOUS
  <2> USE <1>1 DEF PoolInv
  <2>1. ASSUME NEW p \in Owners, get_message(p) PROVE owns'[o] \notin filled'
    <3>1. CASE msg_vec = <<>>
      BY <2>1, <3>1 DEF get_message
    <3>2. CASE msg_vec # <<>>
      <4>1. owns' = [owns EXCEPT ![p] = msg_vec[Len(msg_vec)]]
        BY <2>1, <3>2 DEF get_message
      <4>2. owns'[o] = msg_vec[Len(msg_vec)]
        BY <4>1 DEF TypeOK
      <4>3. Len(msg_vec) \in 1..Len(msg_vec)
        BY <3>2 DEF TypeOK
      <4>4. filled' = filled
        BY <2>1 DEF get_message
      <4> QED BY <4>2, <4>3, <4>4 DEF Lives, Pooled
    <3> QED BY <3>1, <3>2
  <2>2. ASSUME NEW p \in Owners, allocate(p) PROVE owns'[o] \notin filled'
    BY <2>2 DEF allocate, TypeOK
  <2>3. ASSUME NEW p \in Owners, push_back(p) PROVE owns'[o] \notin filled'
    BY <2>3 DEF push_back
  <2>4. ASSUME NEW p \in Owners, release(p) PROVE owns'[o] \notin filled'
    BY <2>4 DEF release, TypeOK
  <2>5. ASSUME NEW p \in Owners, NEW q \in Owners, copy(p, q)
        PROVE  owns'[o] \notin filled'
    <3>1. owns'[o] = owns[p]
      BY <2>5 DEF copy, TypeOK
    <3> QED BY <3>1 DEF OwnersOf
  <2>6. ASSUME NEW b \in Buffers, return_message(b)
        PROVE  owns'[o] \notin filled'
    BY <2>6 DEF return_message
  <2>7. CASE UNCHANGED vars
    BY <2>7 DEF vars
  <2> QED BY <2>1, <2>2, <2>3, <2>4, <2>5, <2>6, <2>7 DEF Next
<1>2. PoolInv /\ [Next]_vars => [\A o \in Owners : Given(o)]_vars
  BY <1>1
<1> QED BY <1>2, PoolAlways, PTL DEF Spec, GivenEmpty
=============================================================================
