------------------------------ MODULE MsgPool -------------------------------
(***************************************************************************)
(* The pool of message buffers shared by every thread of the process.      *)
(*                                                                         *)
(* A message_ptr is a shared_ptr to a byte vector.  get_message takes a    *)
(* buffer from msg_vec or allocates one; the deleter of an allocated one   *)
(* is return_message, which wraps the buffer in a new shared_ptr, whose    *)
(* deleter is plain delete, and pushes that on msg_vec.  So a buffer goes  *)
(* through the pool once, and is freed by its second life.                 *)
(*                                                                         *)
(* The owners are the places that hold a message_ptr: msg_writers,         *)
(* handlers of async_writes in flight, recv_msg of a net_con, entries of a *)
(* msg_rec_pool and msg_readers.                                           *)
(***************************************************************************)
EXTENDS Integers, Sequences, FiniteSets

CONSTANTS
  Buffers,          \* the addresses a vector can be allocated at
  Owners,           \* the places that can hold a message_ptr
  NoBuffer,         \* what an empty place holds
  max_messages      \* 50 in the code

ASSUME PoolAssumption ==
  /\ NoBuffer \notin Buffers
  /\ max_messages \in Nat

VARIABLES
  msg_vec,          \* the pool, a stack
  owns,             \* owns[o] is the buffer o refers to, or NoBuffer
  pc,               \* pc[o] = "alloc" while get_message is past its lock
  heap,             \* heap[b] \in HeapStates
  returning,        \* buffers whose deleter is about to take the lock
  filled            \* the buffers with bytes in them

vars == <<msg_vec, owns, pc, heap, returning, filled>>

\* "free"      no vector at this address
\* "new"       allocated by get_message, the deleter is return_message
\* "recycled"  wrapped by return_message, the deleter is delete
HeapStates == {"free", "new", "recycled"}

Pooled == {msg_vec[i] : i \in 1..Len(msg_vec)}
OwnersOf(b) == {o \in Owners : owns[o] = b}

Init ==
  /\ msg_vec = <<>>
  /\ owns = [o \in Owners |-> NoBuffer]
  /\ pc = [o \in Owners |-> "idle"]
  /\ heap = [b \in Buffers |-> "free"]
  /\ returning = {}
  /\ filled = {}

-----------------------------------------------------------------------------
\* Mutant: the buffer is handed out and stays in the pool.
get_message_kept(o) ==
  /\ owns[o] = NoBuffer /\ pc[o] = "idle"
  /\ \/ /\ msg_vec # <<>>
        /\ owns' = [owns EXCEPT ![o] = msg_vec[Len(msg_vec)]]
        /\ UNCHANGED <<msg_vec, pc>>
     \/ /\ msg_vec = <<>>
        /\ pc' = [pc EXCEPT ![o] = "alloc"]
        /\ UNCHANGED <<msg_vec, owns>>
  /\ UNCHANGED <<heap, returning, filled>>

\* get_message under mut: the buffer on top of the stack, if there is one.
get_message(o) ==
  /\ owns[o] = NoBuffer /\ pc[o] = "idle"
  /\ \/ /\ msg_vec # <<>>
        /\ owns' = [owns EXCEPT ![o] = msg_vec[Len(msg_vec)]]
        /\ msg_vec' = SubSeq(msg_vec, 1, Len(msg_vec) - 1)
        /\ UNCHANGED pc
     \/ /\ msg_vec = <<>>
        /\ pc' = [pc EXCEPT ![o] = "alloc"]
        /\ UNCHANGED <<msg_vec, owns>>
  /\ UNCHANGED <<heap, returning, filled>>

\* get_message after mut is released: the pool was empty, so it allocates.
allocate(o) ==
  /\ pc[o] = "alloc"
  /\ \E b \in Buffers :
       /\ heap[b] = "free"
       /\ heap' = [heap EXCEPT ![b] = "new"]
       /\ owns' = [owns EXCEPT ![o] = b]
  /\ pc' = [pc EXCEPT ![o] = "idle"]
  /\ UNCHANGED <<msg_vec, returning, filled>>

\* push_back through a message_ptr: a writer composes, or handle_read does.
push_back(o) ==
  /\ owns[o] # NoBuffer
  /\ filled' = filled \cup {owns[o]}
  /\ UNCHANGED <<msg_vec, owns, pc, heap, returning>>

\* A message_ptr is copied: get_msg, the handler of an async_write, a queue.
copy(o, p) ==
  /\ owns[o] # NoBuffer
  /\ owns[p] = NoBuffer /\ pc[p] = "idle"
  /\ owns' = [owns EXCEPT ![p] = owns[o]]
  /\ UNCHANGED <<msg_vec, pc, heap, returning, filled>>

\* Mutant: the buffer goes back with its first reference, not its last.
release_early(o) ==
  LET b == owns[o]
  IN  /\ b # NoBuffer
      /\ owns' = [owns EXCEPT ![o] = NoBuffer]
      /\ IF heap[b] = "new"
         THEN returning' = returning \cup {b} /\ UNCHANGED <<heap, filled>>
         ELSE /\ heap' = [heap EXCEPT ![b] = "free"]
              /\ filled' = filled \ {b}
              /\ UNCHANGED returning
      /\ UNCHANGED <<msg_vec, pc>>

\* Mutant: a buffer in its second life is forgotten instead of deleted.
release_forget(o) ==
  LET b == owns[o]
  IN  /\ b # NoBuffer
      /\ owns' = [owns EXCEPT ![o] = NoBuffer]
      /\ returning' = IF OwnersOf(b) = {o} /\ heap[b] = "new"
                      THEN returning \cup {b} ELSE returning
      /\ UNCHANGED <<msg_vec, pc, heap, filled>>

\* A message_ptr is destroyed.  The last reference runs the deleter: delete,
\* or return_message, which has to wait for mut.
release(o) ==
  LET b == owns[o]
      last == OwnersOf(b) = {o}
  IN  /\ b # NoBuffer
      /\ owns' = [owns EXCEPT ![o] = NoBuffer]
      /\ \/ /\ last /\ heap[b] = "new"
            /\ returning' = returning \cup {b}
            /\ UNCHANGED <<heap, filled>>
         \/ /\ last /\ heap[b] = "recycled"
            /\ heap' = [heap EXCEPT ![b] = "free"]
            /\ filled' = filled \ {b}
            /\ UNCHANGED returning
         \/ ~last /\ UNCHANGED <<heap, filled, returning>>
      /\ UNCHANGED <<msg_vec, pc>>

\* Mutant: no resize(0).
return_message_dirty(b) ==
  /\ b \in returning
  /\ returning' = returning \ {b}
  /\ \/ /\ Len(msg_vec) <= max_messages
        /\ msg_vec' = Append(msg_vec, b)
        /\ heap' = [heap EXCEPT ![b] = "recycled"]
        /\ UNCHANGED filled
     \/ /\ Len(msg_vec) > max_messages
        /\ heap' = [heap EXCEPT ![b] = "free"]
        /\ filled' = filled \ {b}
        /\ UNCHANGED msg_vec
  /\ UNCHANGED <<owns, pc>>

\* Mutant: every buffer is kept.
return_message_unbounded(b) ==
  /\ b \in returning
  /\ returning' = returning \ {b}
  /\ filled' = filled \ {b}
  /\ msg_vec' = Append(msg_vec, b)
  /\ heap' = [heap EXCEPT ![b] = "recycled"]
  /\ UNCHANGED <<owns, pc>>

\* return_message under mut.
return_message(b) ==
  /\ b \in returning
  /\ returning' = returning \ {b}
  /\ filled' = filled \ {b}
  /\ \/ /\ Len(msg_vec) <= max_messages
        /\ msg_vec' = Append(msg_vec, b)
        /\ heap' = [heap EXCEPT ![b] = "recycled"]
     \/ /\ Len(msg_vec) > max_messages
        /\ heap' = [heap EXCEPT ![b] = "free"]
        /\ UNCHANGED msg_vec
  /\ UNCHANGED <<owns, pc>>

-----------------------------------------------------------------------------
Next ==
  \/ \E o \in Owners :
       \/ get_message(o)
       \/ allocate(o)
       \/ push_back(o)
       \/ release(o)
       \/ \E p \in Owners : copy(o, p)
  \/ \E b \in Buffers : return_message(b)

Spec == Init /\ [][Next]_vars

-----------------------------------------------------------------------------
(* Properties *)

\* Every variable has its type, and bytes are in allocated vectors only: no
\* thread writes through a message_ptr to a vector that was deleted.
TypeOK ==
  /\ msg_vec \in Seq(Buffers)
  /\ owns \in [Owners -> Buffers \cup {NoBuffer}]
  /\ pc \in [Owners -> {"idle", "alloc"}]
  /\ heap \in [Buffers -> HeapStates]
  /\ returning \subseteq Buffers
  /\ filled \subseteq {b \in Buffers : heap[b] # "free"}

Held == {b \in Buffers : OwnersOf(b) # {}}

\* A buffer is in one place only: two threads never compose in the same
\* buffer by way of the pool, and nothing is pooled or freed while an
\* async_write, a queue or a reader still refers to it.
OnePlace ==
  /\ \A i, j \in 1..Len(msg_vec) : msg_vec[i] = msg_vec[j] => i = j
  /\ Pooled \cap (returning \cup Held) = {}
  /\ returning \cap Held = {}
  /\ \A b \in Pooled \cup returning \cup Held : heap[b] # "free"

\* Every allocated buffer can still be reached: the pool leaks none.
NoLeak ==
  \A b \in Buffers : heap[b] # "free" => b \in Pooled \cup returning \cup Held

\* msg_writer appends to what get_message returns without clearing it, so what
\* it is given must be empty: no bytes of an old message start a new one.
GivenEmpty ==
  [][\A o \in Owners :
       /\ owns[o] = NoBuffer
       /\ owns'[o] # NoBuffer
       /\ OwnersOf(owns'[o]) = {}
       => owns'[o] \notin filled']_vars

\* The pool is bounded.  return_message tests the size with <= before it
\* pushes, so it keeps max_messages + 1 buffers, one more than the name says.
PoolBound == Len(msg_vec) <= max_messages + 1
=============================================================================
