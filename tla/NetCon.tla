------------------------------- MODULE NetCon -------------------------------
(***************************************************************************)
(* One direction of a connection, from a msg_writer on the sending side to *)
(* the new_msg_callback of the receiving net_con:                          *)
(*                                                                         *)
(*   write_byte, end_msg      the escape framing of serialize (msg)        *)
(*   send_msg, handle_write   composed async_write operations, whose       *)
(*                            continuations pass through send_strand       *)
(*   handle_read              the byte loop that undoes the framing        *)
(*   close_con                on either side, by another thread, at any    *)
(*                            moment                                       *)
(*                                                                         *)
(* The kernel's TCP connection is the sequence stream of the bytes it      *)
(* accepted; it loses and reorders nothing, but cuts writes and reads      *)
(* wherever it likes.                                                      *)
(***************************************************************************)
EXTENDS Integers, Sequences

CONSTANTS
  net_word,         \* the byte values applications write
  BuffSize,         \* bytes one read can return (2048 in the code)
  MaxOutstanding,   \* bound: async_write operations in flight on one socket
  MaxBytes          \* bound: a writer at this many encoded bytes stops

\* The framing bytes of volt_net_defs.hpp.
escape_val      == 255
msg_end_escaped == 0
msg_origi_char  == 255

ASSUME NetWordAssumption ==
  net_word \subseteq 0..255 /\ {escape_val, msg_end_escaped} \subseteq net_word
ASSUME BoundAssumption ==
  /\ BuffSize \in Nat \ {0}
  /\ MaxOutstanding \in Nat
  /\ MaxBytes \in Nat

VARIABLES
  (* the sending process *)
  msg,              \* encoded bytes of the message being composed
  write_ops,        \* reactor queue of writes: bytes each has still to send
  send_strand,      \* completions waiting on send_strand: bytes still to send
  snd_open,         \* is the sending socket open?
  terminated,       \* has an exception left io_context::run()?
  (* the kernel *)
  stream,           \* every byte accepted from the sender, in order
  taken,            \* how many of them read completions have handed over
  (* the receiving net_con *)
  con_open,
  read_state,       \* where handle_read is
  buff,             \* the msg_size valid bytes of the read buffer
  current_index,
  next_byte,
  next_is_escape,
  recv_msg,
  delivered,        \* messages passed to new_msg_callback
  (* history of what the application wrote *)
  sent,             \* messages ended
  payload,          \* bytes of the message not yet ended
  layout            \* what each encoded byte means, see LayoutEntry

senderVars   == <<msg, write_ops, send_strand, snd_open, terminated>>
receiverVars == <<con_open, read_state, buff, current_index, next_byte,
                  next_is_escape, recv_msg, delivered>>
historyVars  == <<sent, payload, layout>>
vars == <<senderVars, stream, taken, receiverVars, historyVars>>

msg_size == Len(buff)

\* "armed"  async_read_some is outstanding
\* "loop"   at the condition of handle_read's while loop
\* "got"    get_next_byte returned a byte, not handled yet
\* "exit"   the loop has ended, before the is_open() that rearms the read
\* "done"   handle_read returned without rearming
ReadStates == {"armed", "loop", "got", "exit", "done"}

\* Once the reader has handled the encoded byte word, it has msgs complete
\* messages and len bytes of the next, and esc tells if it is escaping.
LayoutEntry == [word : net_word, msgs : Nat, len : Nat, esc : BOOLEAN]

Entry(w, m, l, e) == [word |-> w, msgs |-> m, len |-> l, esc |-> e]

Init ==
  /\ msg = <<>> /\ write_ops = <<>> /\ send_strand = <<>>
  /\ snd_open = TRUE /\ terminated = FALSE
  /\ stream = <<>> /\ taken = 0
  /\ con_open = TRUE
  /\ read_state = "armed"    \* set_new_msg_callback has scheduled a read
  /\ buff = <<>> /\ current_index = 0 /\ next_byte = 0
  /\ next_is_escape = FALSE
  /\ recv_msg = <<>> /\ delivered = <<>>
  /\ sent = <<>> /\ payload = <<>> /\ layout = <<>>

-----------------------------------------------------------------------------
(* The sending application: msg_writer and serialize *)

\* Mutant: escape_val is written as it is.
write_byte_unescaped(v) ==
  /\ ~terminated
  /\ Len(layout) < MaxBytes
  /\ payload' = Append(payload, v)
  /\ msg' = Append(msg, v)
  /\ layout' = Append(layout, Entry(v, Len(sent), Len(payload) + 1, FALSE))
  /\ UNCHANGED <<write_ops, send_strand, snd_open, terminated, stream, taken,
                 receiverVars, sent>>

write_byte(v) ==
  /\ ~terminated
  /\ Len(layout) < MaxBytes
  /\ payload' = Append(payload, v)
  /\ IF v = escape_val
     THEN /\ msg' = Append(Append(msg, v), msg_origi_char)
          /\ layout' = Append(
               Append(layout, Entry(v, Len(sent), Len(payload), TRUE)),
               Entry(msg_origi_char, Len(sent), Len(payload) + 1, FALSE))
     ELSE /\ msg' = Append(msg, v)
          /\ layout' = Append(layout,
               Entry(v, Len(sent), Len(payload) + 1, FALSE))
  /\ UNCHANGED <<write_ops, send_strand, snd_open, terminated, stream, taken,
                 receiverVars, sent>>

end_msg ==
  /\ ~terminated
  /\ Len(layout) < MaxBytes
  /\ msg' = Append(Append(msg, escape_val), msg_end_escaped)
  /\ sent' = Append(sent, payload)
  /\ payload' = <<>>
  /\ layout' = Append(
       Append(layout, Entry(escape_val, Len(sent), Len(payload), TRUE)),
       Entry(msg_end_escaped, Len(sent) + 1, 0, FALSE))
  /\ UNCHANGED <<write_ops, send_strand, snd_open, terminated, stream, taken,
                 receiverVars>>

-----------------------------------------------------------------------------
(* net_con, sending *)

\* async_write starts on whatever the writer holds, closed socket or not, and
\* the application goes on with a new writer.
send_msg ==
  /\ ~terminated
  /\ msg # <<>>
  /\ Len(write_ops) + Len(send_strand) < MaxOutstanding
  /\ write_ops' = Append(write_ops, msg)
  /\ msg' = <<>>
  /\ UNCHANGED <<send_strand, snd_open, terminated, stream, taken,
                 receiverVars, historyVars>>

\* The socket accepts the first n bytes of the write at the head of its queue.
\* What remains goes to the operation's continuation, which runs on the strand.
WriteSome ==
  /\ ~terminated /\ snd_open
  /\ write_ops # <<>>
  /\ LET op == Head(write_ops)
     IN  \E n \in 1..Len(op) :
           /\ stream' = stream \o SubSeq(op, 1, n)
           /\ send_strand' = Append(send_strand, SubSeq(op, n + 1, Len(op)))
  /\ write_ops' = Tail(write_ops)
  /\ UNCHANGED <<msg, snd_open, terminated, taken, receiverVars, historyVars>>

\* A write that is not complete starts its next async_write_some, behind the
\* writes that other send_msg calls have queued in the meantime.
ContinueWrite ==
  /\ ~terminated
  /\ send_strand # <<>> /\ Head(send_strand) # <<>>
  /\ write_ops' = Append(write_ops, Head(send_strand))
  /\ send_strand' = Tail(send_strand)
  /\ UNCHANGED <<msg, snd_open, terminated, stream, taken, receiverVars,
                 historyVars>>

\* handle_write of a complete write: bytes_transferred = msg->size().
handle_write ==
  /\ ~terminated
  /\ send_strand # <<>> /\ Head(send_strand) = <<>>
  /\ send_strand' = Tail(send_strand)
  /\ UNCHANGED <<msg, write_ops, snd_open, terminated, stream, taken,
                 receiverVars, historyVars>>

\* handle_write of a write that failed because either side is closed:
\* bytes_transferred < msg->size(), it throws, nothing catches the exception
\* on the io thread, and the sending process is gone.
handle_write_error ==
  /\ ~terminated
  /\ write_ops # <<>>
  /\ ~snd_open \/ ~con_open
  /\ terminated' = TRUE
  /\ snd_open' = FALSE
  /\ write_ops' = <<>> /\ send_strand' = <<>> /\ msg' = <<>>
  /\ UNCHANGED <<stream, taken, receiverVars, historyVars>>

\* close_con of the sender's net_con.
close_sender ==
  /\ snd_open
  /\ snd_open' = FALSE
  /\ UNCHANGED <<msg, write_ops, send_strand, terminated, stream, taken,
                 receiverVars, historyVars>>

-----------------------------------------------------------------------------
(* net_con, receiving *)

\* handle_read starts with n bytes and no error.  The read may have completed
\* just before another thread closed the connection.
handle_read(n) ==
  /\ read_state = "armed"
  /\ n \in 1..BuffSize
  /\ taken + n <= Len(stream)
  /\ buff' = SubSeq(stream, taken + 1, taken + n)
  /\ taken' = taken + n
  /\ read_state' = "loop"
  /\ UNCHANGED <<senderVars, stream, con_open, current_index, next_byte,
                 next_is_escape, recv_msg, delivered, historyVars>>

\* handle_read starts with an error: eof or reset from a closed sender, or
\* operation_aborted.  Both branches call close_con.
handle_read_error ==
  /\ read_state = "armed"
  /\ ~snd_open \/ ~con_open
  /\ buff' = <<>>
  /\ con_open' = FALSE
  /\ read_state' = "done"
  /\ UNCHANGED <<senderVars, stream, taken, current_index, next_byte,
                 next_is_escape, recv_msg, delivered, historyVars>>

\* Mutant: the loop does not ask is_open() again.
get_next_byte_closed ==
  /\ read_state = "loop"
  /\ current_index < msg_size
  /\ next_byte' = buff[current_index + 1]
  /\ current_index' = current_index + 1
  /\ read_state' = "got"
  /\ UNCHANGED <<senderVars, stream, taken, con_open, buff, next_is_escape,
                 recv_msg, delivered, historyVars>>

\* The loop condition holds: is_open() and get_next_byte() are both true.
get_next_byte ==
  /\ read_state = "loop"
  /\ con_open
  /\ current_index < msg_size
  /\ next_byte' = buff[current_index + 1]
  /\ current_index' = current_index + 1
  /\ read_state' = "got"
  /\ UNCHANGED <<senderVars, stream, taken, con_open, buff, next_is_escape,
                 recv_msg, delivered, historyVars>>

\* Mutant: current_index is not rewound for the next read.
LoopExit_no_rewind ==
  /\ read_state = "loop"
  /\ ~con_open \/ current_index >= msg_size
  /\ read_state' = "exit"
  /\ UNCHANGED <<senderVars, stream, taken, con_open, buff, current_index,
                 next_byte, next_is_escape, recv_msg, delivered, historyVars>>

\* The loop condition fails.  get_next_byte rewinds current_index, unless the
\* is_open() before it has already failed.
LoopExit ==
  /\ read_state = "loop"
  /\ ~con_open \/ current_index >= msg_size
  /\ \/ current_index' = 0
     \/ ~con_open /\ UNCHANGED current_index
  /\ read_state' = "exit"
  /\ UNCHANGED <<senderVars, stream, taken, con_open, buff, next_byte,
                 next_is_escape, recv_msg, delivered, historyVars>>

\* Mutant: the read is armed again only between two messages.
schedule_read_handler_between ==
  /\ read_state = "exit"
  /\ read_state' = IF con_open /\ recv_msg = <<>> THEN "armed" ELSE "done"
  /\ UNCHANGED <<senderVars, stream, taken, con_open, buff, current_index,
                 next_byte, next_is_escape, recv_msg, delivered, historyVars>>

schedule_read_handler ==
  /\ read_state = "exit"
  /\ read_state' = IF con_open THEN "armed" ELSE "done"
  /\ UNCHANGED <<senderVars, stream, taken, con_open, buff, current_index,
                 next_byte, next_is_escape, recv_msg, delivered, historyVars>>

handled == <<senderVars, stream, taken, con_open, buff, current_index,
             next_byte, historyVars>>

\* A normal byte.
HandlePlain ==
  /\ read_state = "got"
  /\ next_byte # escape_val /\ ~next_is_escape
  /\ recv_msg' = Append(recv_msg, next_byte)
  /\ read_state' = "loop"
  /\ UNCHANGED <<handled, next_is_escape, delivered>>

\* Mutant: the escape byte is kept as if it were a normal byte.
HandleEscape_kept ==
  /\ read_state = "got"
  /\ next_byte = escape_val /\ ~next_is_escape
  /\ next_is_escape' = TRUE
  /\ recv_msg' = Append(recv_msg, next_byte)
  /\ read_state' = "loop"
  /\ UNCHANGED <<handled, delivered>>

\* The first byte of an escape sequence.
HandleEscape ==
  /\ read_state = "got"
  /\ next_byte = escape_val /\ ~next_is_escape
  /\ next_is_escape' = TRUE
  /\ read_state' = "loop"
  /\ UNCHANGED <<handled, recv_msg, delivered>>

\* Mutant: recv_msg is not replaced by a fresh message after delivery.
HandleEscaped_same_msg ==
  /\ read_state = "got"
  /\ next_is_escape
  /\ \/ /\ next_byte = msg_origi_char
        /\ recv_msg' = Append(recv_msg, escape_val)
        /\ UNCHANGED delivered
     \/ /\ next_byte = msg_end_escaped
        /\ delivered' = Append(delivered, recv_msg)
        /\ UNCHANGED recv_msg
     \/ /\ next_byte \notin {msg_origi_char, msg_end_escaped}
        /\ UNCHANGED <<recv_msg, delivered>>
  /\ next_is_escape' = FALSE
  /\ read_state' = "loop"
  /\ UNCHANGED handled

\* The second byte: an escaped escape_val, the end of the message, or an
\* unrecognized sequence, which is dropped.
HandleEscaped ==
  /\ read_state = "got"
  /\ next_is_escape
  /\ \/ /\ next_byte = msg_origi_char
        /\ recv_msg' = Append(recv_msg, escape_val)
        /\ UNCHANGED delivered
     \/ /\ next_byte = msg_end_escaped
        /\ delivered' = Append(delivered, recv_msg)
        /\ recv_msg' = <<>>
     \/ /\ next_byte \notin {msg_origi_char, msg_end_escaped}
        /\ UNCHANGED <<recv_msg, delivered>>
  /\ next_is_escape' = FALSE
  /\ read_state' = "loop"
  /\ UNCHANGED handled

\* close_con called on another thread.
close_con ==
  /\ con_open
  /\ con_open' = FALSE
  /\ UNCHANGED <<senderVars, stream, taken, read_state, buff, current_index,
                 next_byte, next_is_escape, recv_msg, delivered, historyVars>>

-----------------------------------------------------------------------------
HandleByte == HandlePlain \/ HandleEscape \/ HandleEscaped

Sender ==
  \/ \E v \in net_word : write_byte(v)
  \/ end_msg
  \/ send_msg
  \/ WriteSome
  \/ ContinueWrite
  \/ handle_write
  \/ handle_write_error
  \/ close_sender

Receiver ==
  \/ \E n \in 1..BuffSize : handle_read(n)
  \/ handle_read_error
  \/ get_next_byte
  \/ LoopExit
  \/ schedule_read_handler
  \/ HandleByte
  \/ close_con

Next == Sender \/ Receiver

Spec == Init /\ [][Next]_vars

(***************************************************************************)
(* The io threads run every handler that is ready, and the kernel moves    *)
(* the bytes it accepted.  Nothing makes the application write, send or    *)
(* close.                                                                  *)
(***************************************************************************)
Fairness ==
  /\ WF_vars(WriteSome)
  /\ WF_vars(ContinueWrite)
  /\ WF_vars(handle_write)
  /\ WF_vars(\E n \in 1..BuffSize : handle_read(n))
  /\ WF_vars(get_next_byte)
  /\ WF_vars(LoopExit)
  /\ WF_vars(schedule_read_handler)
  /\ WF_vars(HandleByte)

FairSpec == Spec /\ Fairness

-----------------------------------------------------------------------------
(* Properties *)

SenderTypeOK ==
  /\ msg \in Seq(net_word)
  /\ write_ops \in Seq(Seq(net_word))
  /\ send_strand \in Seq(Seq(net_word))
  /\ snd_open \in BOOLEAN
  /\ terminated \in BOOLEAN

StreamTypeOK ==
  /\ stream \in Seq(net_word)
  /\ taken \in 0..Len(stream)

ReceiverTypeOK ==
  /\ con_open \in BOOLEAN
  /\ read_state \in ReadStates
  /\ buff \in Seq(net_word)
  /\ current_index \in 0..Len(buff)
  /\ next_byte \in net_word
  /\ next_is_escape \in BOOLEAN
  /\ recv_msg \in Seq(net_word)
  /\ delivered \in Seq(Seq(net_word))

HistoryTypeOK ==
  /\ sent \in Seq(Seq(net_word))
  /\ payload \in Seq(net_word)
  /\ layout \in Seq(LayoutEntry)

\* Every variable has its type: current_index stays inside the bytes of the
\* read, and no more is taken from the stream than was put there.
TypeOK ==
  SenderTypeOK /\ StreamTypeOK /\ ReceiverTypeOK /\ HistoryTypeOK

\* The message with index k as the application wrote it, ended or not.
Text(k) == IF k <= Len(sent) THEN sent[k] ELSE payload

\* What new_msg_callback has received is what the peer has sent: the same
\* messages, whole, in order and once each, however TCP cut them up.
InOrder ==
  /\ Len(delivered) <= Len(sent)
  /\ \A k \in 1..Len(delivered) : delivered[k] = sent[k]

\* The message handle_read is rebuilding is a prefix of the one the peer is
\* sending: it never mixes two messages or leaves an escape byte in one.
RecvIsPrefix ==
  LET text == Text(Len(delivered) + 1)
  IN  /\ Len(recv_msg) <= Len(text)
      /\ \A i \in 1..Len(recv_msg) : recv_msg[i] = text[i]

\* handle_read never meets the "unrecognized escape sequence" its TODO is
\* about: reader and writer agree on which bytes are escapes.
NoUnknownEscape ==
  read_state = "got" /\ next_is_escape =>
    next_byte \in {msg_origi_char, msg_end_escaped}

\* The connection as a message layer.  A closed connection that has already
\* fetched a byte may deliver one more message, and no more than one.
ML == INSTANCE MessageLayer WITH
        Payload <- Seq(net_word),
        link <- IF con_open THEN "open"
                ELSE IF read_state = "got" THEN "closing"
                ELSE "closed"

ImplementsMessageLayer == ML!Spec

\* A message that was ended and handed to send_msg reaches new_msg_callback
\* as long as nobody closes the connection: no read is left unarmed and no
\* partial write is forgotten.
Delivery ==
  \A k \in 1..MaxBytes :
    (Len(sent) >= k /\ msg = <<>>) ~>
      (Len(delivered) >= k \/ ~con_open \/ ~snd_open)

\* What send_msg documents: a message that cannot be sent is reported to the
\* caller, so a failed write leaves the sending process running.
SendFailureIsReported == ~terminated
=============================================================================
