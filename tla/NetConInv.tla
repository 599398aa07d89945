----------------------------- MODULE NetConInv ------------------------------
(***************************************************************************)
(* The inductive invariant of NetCon when a connection has one write in    *)
(* flight at a time.  layout says what every encoded byte means; the bytes *)
(* a reader meets are those of layout in order, and where it stands in     *)
(* layout tells how many messages it has delivered, how much of the next   *)
(* it has and whether it is escaping.                                      *)
(***************************************************************************)
EXTENDS NetCon

\* The reader's state once it has handled the first p encoded bytes.
At(p) == IF p = 0 THEN Entry(0, 0, 0, FALSE) ELSE layout[p]

\* One more byte of Text(a.msgs + 1) is complete.
Takes(a, b, v) ==
  /\ b.msgs = a.msgs /\ b.len = a.len + 1
  /\ b.len <= Len(Text(a.msgs + 1))
  /\ Text(a.msgs + 1)[b.len] = v

\* Encoded byte b, met by a reader in the state a: a plain byte, the start of
\* an escape sequence, an escaped escape_val, or the end of a message.
StepOK(a, b) ==
  /\ a.msgs \in 0..Len(sent)
  /\ \/ ~a.esc /\ ~b.esc /\ b.word # escape_val /\ Takes(a, b, b.word)
     \/ ~a.esc /\ b.esc /\ b.word = escape_val
          /\ b.msgs = a.msgs /\ b.len = a.len
     \/ a.esc /\ ~b.esc /\ b.word = msg_origi_char /\ Takes(a, b, escape_val)
     \/ a.esc /\ ~b.esc /\ b.word = msg_end_escaped
          /\ b.msgs = a.msgs + 1 /\ b.msgs <= Len(sent)
          /\ b.len = 0 /\ a.len = Len(sent[b.msgs])

LayoutOK ==
  /\ \A p \in 1..Len(layout) : StepOK(At(p - 1), layout[p])
  /\ At(Len(layout)).msgs = Len(sent)
  /\ At(Len(layout)).len = Len(payload)
  /\ ~At(Len(layout)).esc

StreamOK ==
  /\ Len(stream) <= Len(layout)
  /\ \A i \in 1..Len(stream) : stream[i] = layout[i].word

\* What the write in flight has still to send.
Rest == IF write_ops # <<>> THEN write_ops[1]
        ELSE IF send_strand # <<>> THEN send_strand[1]
        ELSE <<>>

OneWrite == Len(write_ops) + Len(send_strand) <= 1

\* stream, the rest of the write in flight and msg make up layout.
SenderOK ==
  ~terminated =>
    /\ Len(stream) + Len(Rest) + Len(msg) = Len(layout)
    /\ \A i \in 1..Len(Rest) : Rest[i] = layout[Len(stream) + i].word
    /\ \A i \in 1..Len(msg) :
         msg[i] = layout[Len(stream) + Len(Rest) + i].word

\* buff is the last part of what was taken from the stream.
BuffOK ==
  /\ read_state \in {"loop", "got"} =>
       /\ Len(buff) <= taken
       /\ \A i \in 1..Len(buff) : buff[i] = stream[taken - Len(buff) + i]
  /\ read_state = "got" => current_index > 0 /\ next_byte = buff[current_index]

\* handle_read never sets current_index: every read starts from the zero that
\* get_next_byte left behind.
RewindOK ==
  /\ read_state = "armed" => current_index = 0
  /\ read_state = "exit" /\ con_open => current_index = 0

\* How many encoded bytes have been handled.
Pos == IF read_state = "loop" THEN taken - Len(buff) + current_index
       ELSE IF read_state = "got" THEN taken - Len(buff) + current_index - 1
       ELSE taken

DecodeOK ==
  con_open \/ read_state = "got" =>
    /\ At(Pos).msgs = Len(delivered)
    /\ At(Pos).len = Len(recv_msg)
    /\ At(Pos).esc = next_is_escape
    /\ read_state # "done"

IInv ==
  /\ TypeOK
  /\ LayoutOK
  /\ StreamOK
  /\ OneWrite
  /\ SenderOK
  /\ BuffOK
  /\ RewindOK
  /\ DecodeOK
  /\ InOrder
  /\ RecvIsPrefix
=============================================================================
