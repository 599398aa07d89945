--------------------------- MODULE NetCon_proofs ----------------------------
(***************************************************************************)
(* Theorems about NetCon for every set of bytes, buffer size and bound.    *)
(***************************************************************************)
EXTENDS NetConInv, SequenceTheorems, TLAPS

LEMMA Words ==
  /\ escape_val \in net_word
  /\ msg_end_escaped \in net_word
  /\ msg_origi_char \in net_word
BY NetWordAssumption DEF escape_val, msg_end_escaped, msg_origi_char

\* A part of a sequence has the type of the sequence.
LEMMA SubSeqType ==
  ASSUME NEW S, NEW s \in Seq(S), NEW m \in Nat \ {0}, NEW n \in Nat, n <= Len(s)
  PROVE  /\ SubSeq(s, m, n) \in Seq(S)
         /\ Len(SubSeq(s, m, n)) = IF m <= n THEN n - m + 1 ELSE 0
         /\ \A i \in 1..Len(SubSeq(s, m, n)) : SubSeq(s, m, n)[i] = s[m + i - 1]
OBVIOUS

-----------------------------------------------------------------------------
(* Type correctness *)

LEMMA AppendTwo ==
  ASSUME NEW S, NEW s \in Seq(S), NEW a \in S, NEW b \in S
  PROVE  Append(s, a) \in Seq(S) /\ Append(Append(s, a), b) \in Seq(S)
OBVIOUS

LEMMA TailOfOne ==
  ASSUME NEW S, NEW s \in Seq(S), Len(s) = 1
  PROVE  Tail(s) = <<>>
<1>1. Tail(s) \in Seq(S) /\ Len(Tail(s)) = 0
  OBVIOUS
<1>2. \A t \in Seq(S) : Len(t) = 0 => t = <<>>
  OBVIOUS
<1> QED BY <1>1, <1>2, Zenon

LEMMA AppendEnds ==
  ASSUME NEW S, NEW s \in Seq(S), NEW n \in Nat, n = Len(s), NEW a, NEW b
  PROVE  /\ Len(Append(s, a)) = n + 1 /\ Append(s, a)[n + 1] = a
         /\ Len(Append(Append(s, a), b)) = n + 2
         /\ Append(Append(s, a), b)[n + 1] = a
         /\ Append(Append(s, a), b)[n + 2] = b
OBVIOUS

LEMMA EntryType ==
  \A w \in net_word, m \in Nat, l \in Nat, e \in BOOLEAN :
    Entry(w, m, l, e) \in LayoutEntry
BY DEF Entry, LayoutEntry

LEMMA TypeInit == Init => TypeOK
<1> SUFFICES ASSUME Init PROVE TypeOK
  OBVIOUS
<1>1. SenderTypeOK
  <2>1. /\ msg \in Seq(net_word) /\ write_ops \in Seq(Seq(net_word))
        /\ send_strand \in Seq(Seq(net_word))
    BY DEF Init
  <2>2. snd_open \in BOOLEAN /\ terminated \in BOOLEAN
    BY DEF Init
  <2> QED BY <2>1, <2>2 DEF SenderTypeOK
<1>2. StreamTypeOK
  BY DEF Init, StreamTypeOK
<1>3. HistoryTypeOK
  BY DEF Init, HistoryTypeOK
<1>4. ReceiverTypeOK
  <2>1. next_byte \in net_word /\ read_state \in ReadStates
    BY Words DEF Init, msg_end_escaped, ReadStates
  <2>2. buff \in Seq(net_word) /\ current_index \in 0..Len(buff)
    BY DEF Init
  <2>3. con_open \in BOOLEAN /\ next_is_escape \in BOOLEAN
    BY DEF Init
  <2>4. recv_msg \in Seq(net_word) /\ delivered \in Seq(Seq(net_word))
    BY DEF Init
  <2> QED BY <2>1, <2>2, <2>3, <2>4 DEF ReceiverTypeOK
<1> QED BY <1>1, <1>2, <1>3, <1>4 DEF TypeOK

\* A group of variables that a step leaves alone keeps its types.
LEMMA TypeUnchanged ==
  ASSUME TypeOK
  PROVE  /\ UNCHANGED senderVars => SenderTypeOK'
         /\ UNCHANGED <<stream, taken>> => StreamTypeOK'
         /\ UNCHANGED receiverVars => ReceiverTypeOK'
         /\ UNCHANGED historyVars => HistoryTypeOK'
<1>1. UNCHANGED senderVars => SenderTypeOK'
  BY DEF TypeOK, SenderTypeOK, senderVars
<1>2. UNCHANGED <<stream, taken>> => StreamTypeOK'
  BY DEF TypeOK, StreamTypeOK
<1>3. UNCHANGED receiverVars => ReceiverTypeOK'
  BY DEF TypeOK, ReceiverTypeOK, receiverVars
<1>4. UNCHANGED historyVars => HistoryTypeOK'
  BY DEF TypeOK, HistoryTypeOK, historyVars
<1> QED BY <1>1, <1>2, <1>3, <1>4

LEMMA TypeStep == TypeOK /\ RewindOK /\ [Next]_vars => TypeOK'
<1> SUFFICES ASSUME TypeOK, RewindOK, [Next]_vars PROVE TypeOK'
  OBVIOUS
<1>0. SenderTypeOK /\ StreamTypeOK /\ ReceiverTypeOK /\ HistoryTypeOK /\ RewindOK
  BY DEF TypeOK
<1>1. ASSUME NEW v \in net_word, write_byte(v) PROVE TypeOK'
  <2>1. /\ Len(sent) \in Nat /\ Len(sent) + 1 \in Nat /\ 0 \in Nat
        /\ Len(payload) \in Nat /\ Len(payload) + 1 \in Nat
    BY <1>0 DEF HistoryTypeOK
  <2>2. /\ Entry(v, Len(sent), Len(payload), TRUE) \in LayoutEntry
        /\ Entry(v, Len(sent), Len(payload) + 1, FALSE) \in LayoutEntry
        /\ Entry(msg_origi_char, Len(sent), Len(payload) + 1, FALSE)
             \in LayoutEntry
    BY <1>1, <2>1, Words, EntryType, Zenon
  <2>3. layout' \in Seq(LayoutEntry)
    <3>1. layout \in Seq(LayoutEntry)
      BY <1>0 DEF HistoryTypeOK
    <3>2. CASE v = escape_val
      BY <1>1, <2>2, <3>1, <3>2, AppendTwo, Zenon DEF write_byte
    <3>3. CASE v # escape_val
      BY <1>1, <2>2, <3>1, <3>3, AppendTwo, Zenon DEF write_byte
    <3> QED BY <3>2, <3>3
  <2>4. payload' \in Seq(net_word) /\ UNCHANGED sent
    BY <1>0, <1>1 DEF HistoryTypeOK, write_byte
  <2>5. HistoryTypeOK'
    BY <1>0, <2>3, <2>4 DEF HistoryTypeOK
  <2>6. msg' \in Seq(net_word)
    <3>1. msg \in Seq(net_word)
      BY <1>0 DEF SenderTypeOK
    <3>2. CASE v = escape_val
      BY <1>1, <3>1, <3>2, Words, AppendTwo, Zenon DEF write_byte
    <3>3. CASE v # escape_val
      BY <1>1, <3>1, <3>3, AppendTwo, Zenon DEF write_byte
    <3> QED BY <3>2, <3>3
  <2>7. SenderTypeOK'
    BY <1>0, <1>1, <2>6 DEF SenderTypeOK, write_byte
  <2> QED BY <1>1, <2>5, <2>7, TypeUnchanged DEF TypeOK, write_byte
<1>2. CASE end_msg
  <2>1. /\ Len(sent) \in Nat /\ Len(sent) + 1 \in Nat /\ 0 \in Nat
        /\ Len(payload) \in Nat /\ Len(payload) + 1 \in Nat
    BY <1>0 DEF HistoryTypeOK
  <2>2. /\ Entry(escape_val, Len(sent), Len(payload), TRUE) \in LayoutEntry
        /\ Entry(msg_end_escaped, Len(sent) + 1, 0, FALSE) \in LayoutEntry
    BY <2>1, Words, EntryType, Zenon
  <2>3. layout' \in Seq(LayoutEntry)
    <3>1. layout \in Seq(LayoutEntry)
      BY <1>0 DEF HistoryTypeOK
    <3> QED BY <1>2, <2>2, <3>1, AppendTwo, Zenon DEF end_msg
  <2>4. sent' \in Seq(Seq(net_word)) /\ payload' \in Seq(net_word)
    BY <1>0, <1>2 DEF HistoryTypeOK, end_msg
  <2>5. HistoryTypeOK'
    BY <2>3, <2>4 DEF HistoryTypeOK
  <2>6. msg' \in Seq(net_word)
    BY <1>0, <1>2, Words DEF SenderTypeOK, end_msg
  <2>7. SenderTypeOK'
    BY <1>0, <1>2, <2>6 DEF SenderTypeOK, end_msg
  <2> QED BY <1>2, <2>5, <2>7, TypeUnchanged DEF TypeOK, end_msg
<1>3. CASE send_msg
  <2>1. SenderTypeOK'
    BY <1>0, <1>3 DEF SenderTypeOK, send_msg
  <2> QED BY <1>3, <2>1, TypeUnchanged DEF TypeOK, send_msg
<1>4. CASE WriteSome
  <2>1. PICK n \in 1..Len(Head(write_ops)) :
          /\ stream' = stream \o SubSeq(Head(write_ops), 1, n)
          /\ send_strand' = Append(send_strand,
               SubSeq(Head(write_ops), n + 1, Len(Head(write_ops))))
    BY <1>4 DEF WriteSome
  <2>2. Head(write_ops) \in Seq(net_word)
    BY <1>0, <1>4 DEF WriteSome, SenderTypeOK
  <2>3. /\ SubSeq(Head(write_ops), 1, n) \in Seq(net_word)
        /\ SubSeq(Head(write_ops), n + 1, Len(Head(write_ops))) \in Seq(net_word)
    BY <2>2
  <2>4. StreamTypeOK'
    BY <1>0, <1>4, <2>1, <2>3 DEF StreamTypeOK, WriteSome
  <2>5. SenderTypeOK'
    BY <1>0, <1>4, <2>1, <2>3 DEF SenderTypeOK, WriteSome
  <2> QED BY <1>4, <2>4, <2>5, TypeUnchanged DEF TypeOK, WriteSome
<1>5. CASE ContinueWrite
  <2>1. SenderTypeOK'
    BY <1>0, <1>5 DEF SenderTypeOK, ContinueWrite
  <2> QED BY <1>5, <2>1, TypeUnchanged DEF TypeOK, ContinueWrite
<1>6. CASE handle_write
  <2>1. SenderTypeOK'
    BY <1>0, <1>6 DEF SenderTypeOK, handle_write
  <2> QED BY <1>6, <2>1, TypeUnchanged DEF TypeOK, handle_write
<1>7. CASE handle_write_error
  <2>1. /\ msg' = <<>> /\ write_ops' = <<>> /\ send_strand' = <<>>
        /\ snd_open' \in BOOLEAN /\ terminated' \in BOOLEAN
    BY <1>7 DEF handle_write_error
  <2>2. /\ msg' \in Seq(net_word) /\ write_ops' \in Seq(Seq(net_word))
        /\ send_strand' \in Seq(Seq(net_word))
    BY <2>1
  <2>3. SenderTypeOK'
    BY <2>1, <2>2 DEF SenderTypeOK
  <2> QED BY <1>7, <2>3, TypeUnchanged DEF TypeOK, handle_write_error
<1>8. CASE close_sender
  <2>1. SenderTypeOK'
    BY <1>0, <1>8 DEF SenderTypeOK, close_sender
  <2> QED BY <1>8, <2>1, TypeUnchanged DEF TypeOK, close_sender
<1>9. ASSUME NEW n \in 1..BuffSize, handle_read(n) PROVE TypeOK'
  <2>1. n \in Nat /\ 0 < n
    BY BoundAssumption
  <2>2. /\ stream \in Seq(net_word) /\ taken \in Nat
        /\ taken + n <= Len(stream)
    BY <1>0, <1>9 DEF handle_read, StreamTypeOK
  <2>3. /\ SubSeq(stream, taken + 1, taken + n) \in Seq(net_word)
        /\ Len(SubSeq(stream, taken + 1, taken + n)) = n
    BY <2>1, <2>2
  <2>4. StreamTypeOK'
    BY <1>9, <2>1, <2>2 DEF StreamTypeOK, handle_read
  <2>5. current_index = 0
    BY <1>0, <1>9 DEF handle_read, RewindOK
  <2>6. buff' \in Seq(net_word) /\ current_index' \in 0..Len(buff')
    BY <1>9, <2>1, <2>3, <2>5 DEF handle_read
  <2>7. ReceiverTypeOK'
    BY <1>0, <1>9, <2>6 DEF ReceiverTypeOK, handle_read, ReadStates
  <2> QED BY <1>9, <2>4, <2>7, TypeUnchanged DEF TypeOK, handle_read
<1>10. CASE handle_read_error
  <2>1. buff' \in Seq(net_word) /\ current_index' \in 0..Len(buff')
    BY <1>0, <1>10 DEF RewindOK, handle_read_error
  <2>2. con_open' \in BOOLEAN /\ read_state' \in ReadStates
    BY <1>10 DEF handle_read_error, ReadStates
  <2>3. ReceiverTypeOK'
    BY <1>0, <1>10, <2>1, <2>2 DEF ReceiverTypeOK, handle_read_error
  <2> QED BY <1>10, <2>3, TypeUnchanged DEF TypeOK, handle_read_error
<1>11. CASE get_next_byte
  <2>1. ReceiverTypeOK'
    BY <1>0, <1>11 DEF ReceiverTypeOK, get_next_byte, ReadStates, msg_size
  <2> QED BY <1>11, <2>1, TypeUnchanged DEF TypeOK, get_next_byte
<1>12. CASE LoopExit
  <2>1. ReceiverTypeOK'
    BY <1>0, <1>12 DEF ReceiverTypeOK, LoopExit, ReadStates
  <2> QED BY <1>12, <2>1, TypeUnchanged DEF TypeOK, LoopExit
<1>13. CASE schedule_read_handler
  <2>1. ReceiverTypeOK'
    BY <1>0, <1>13 DEF ReceiverTypeOK, schedule_read_handler, ReadStates
  <2> QED BY <1>13, <2>1, TypeUnchanged DEF TypeOK, schedule_read_handler
<1>14. CASE HandlePlain
  <2>1. ReceiverTypeOK'
    BY <1>0, <1>14 DEF ReceiverTypeOK, HandlePlain, handled, ReadStates
  <2> QED BY <1>14, <2>1, TypeUnchanged DEF TypeOK, HandlePlain, handled
<1>15. CASE HandleEscape
  <2>1. ReceiverTypeOK'
    BY <1>0, <1>15 DEF ReceiverTypeOK, HandleEscape, handled, ReadStates
  <2> QED BY <1>15, <2>1, TypeUnchanged DEF TypeOK, HandleEscape, handled
<1>16. CASE HandleEscaped
  <2>1. recv_msg' \in Seq(net_word) /\ delivered' \in Seq(Seq(net_word))
    <3>1. recv_msg \in Seq(net_word) /\ delivered \in Seq(Seq(net_word))
      BY <1>0 DEF ReceiverTypeOK
    <3>2. /\ Append(recv_msg, escape_val) \in Seq(net_word)
          /\ Append(delivered, recv_msg) \in Seq(Seq(net_word))
          /\ <<>> \in Seq(net_word)
      BY <3>1, Words
    <3> QED BY <1>16, <3>1, <3>2, Zenon DEF HandleEscaped
  <2>2. read_state' \in ReadStates /\ next_is_escape' \in BOOLEAN
    BY <1>16 DEF HandleEscaped, ReadStates
  <2>3. ReceiverTypeOK'
    BY <1>0, <1>16, <2>1, <2>2 DEF ReceiverTypeOK, HandleEscaped, handled
  <2> QED BY <1>16, <2>3, TypeUnchanged DEF TypeOK, HandleEscaped, handled
<1>17. CASE close_con
  <2>1. ReceiverTypeOK'
    BY <1>0, <1>17 DEF ReceiverTypeOK, close_con
  <2> QED BY <1>17, <2>1, TypeUnchanged DEF TypeOK, close_con
<1>18. CASE UNCHANGED vars
  BY <1>18, TypeUnchanged DEF TypeOK, vars
<1> QED BY <1>1, <1>2, <1>3, <1>4, <1>5, <1>6, <1>7, <1>8, <1>9, <1>10, <1>11,
           <1>12, <1>13, <1>14, <1>15, <1>16, <1>17, <1>18
        DEF Next, Sender, Receiver, HandleByte

LEMMA RewindInit == Init => RewindOK
BY DEF Init, RewindOK

LEMMA RewindStep == TypeOK /\ RewindOK /\ [Next]_vars => RewindOK'
<1> SUFFICES ASSUME TypeOK, RewindOK, [Next]_vars PROVE RewindOK'
  OBVIOUS
<1>0. con_open \in BOOLEAN
  BY DEF TypeOK, ReceiverTypeOK
<1>1. CASE UNCHANGED receiverVars
  BY <1>1 DEF RewindOK, receiverVars
<1>2. ASSUME NEW n \in 1..BuffSize, handle_read(n) PROVE RewindOK'
  BY <1>2 DEF RewindOK, handle_read
<1>3. CASE handle_read_error
  BY <1>3 DEF RewindOK, handle_read_error
<1>4. CASE get_next_byte
  BY <1>4 DEF RewindOK, get_next_byte
<1>5. CASE LoopExit
  BY <1>5 DEF RewindOK, LoopExit
<1>6. CASE schedule_read_handler
  BY <1>0, <1>6 DEF RewindOK, schedule_read_handler
<1>7. CASE HandleByte
  BY <1>7 DEF RewindOK, HandleByte, HandlePlain, HandleEscape, HandleEscaped
<1>8. CASE close_con
  BY <1>8 DEF RewindOK, close_con
<1>9. Sender \/ UNCHANGED vars => UNCHANGED receiverVars
  BY DEF Sender, write_byte, end_msg, send_msg, WriteSome, ContinueWrite,
         handle_write, handle_write_error, close_sender, vars
<1> QED BY <1>1, <1>2, <1>3, <1>4, <1>5, <1>6, <1>7, <1>8, <1>9
        DEF Next, Receiver

\* Every variable keeps its type: in particular current_index never passes the
\* bytes that were read and taken never passes the bytes that were sent.
THEOREM TypeCorrect == Spec => []TypeOK
BY TypeInit, TypeStep, RewindInit, RewindStep, PTL DEF Spec

-----------------------------------------------------------------------------
(* The history: layout describes what was written *)

LEMMA AtType ==
  ASSUME TypeOK
  PROVE  \A p \in 0..Len(layout) : At(p) \in LayoutEntry
<1>1. Entry(0, 0, 0, FALSE) \in LayoutEntry
  BY EntryType, Words DEF msg_end_escaped
<1>2. layout \in Seq(LayoutEntry)
  BY DEF TypeOK, HistoryTypeOK
<1>3. ASSUME NEW p \in 0..Len(layout), p # 0 PROVE layout[p] \in LayoutEntry
  BY <1>2, <1>3
<1> QED BY <1>1, <1>3 DEF At

\* Messages are never rewritten: the text of a message that is being composed
\* only grows, and that of an ended message stays.
LEMMA TextGrows ==
  ASSUME TypeOK, [Next]_vars
  PROVE  /\ Len(sent) \in Nat /\ Len(sent') \in Nat /\ Len(sent) <= Len(sent')
         /\ \A k \in 1..Len(sent) : sent'[k] = sent[k]
         /\ \A k \in 1..Len(sent) + 1 :
              /\ Len(Text(k)) \in Nat /\ Len(Text(k)') \in Nat
              /\ Len(Text(k)) <= Len(Text(k)')
              /\ \A i \in 1..Len(Text(k)) : Text(k)'[i] = Text(k)[i]
<1>0. sent \in Seq(Seq(net_word)) /\ payload \in Seq(net_word)
  BY DEF TypeOK, HistoryTypeOK
<1>00. \A k \in 1..Len(sent) : sent[k] \in Seq(net_word)
  BY <1>0
<1>1. ASSUME NEW v \in net_word, sent' = sent, payload' = Append(payload, v)
      PROVE  \A k \in 1..Len(sent) + 1 :
              /\ Len(Text(k)) \in Nat /\ Len(Text(k)') \in Nat
              /\ Len(Text(k)) <= Len(Text(k)')
              /\ \A i \in 1..Len(Text(k)) : Text(k)'[i] = Text(k)[i]
  BY <1>0, <1>00, <1>1 DEF Text
<1>2. ASSUME sent' = Append(sent, payload)
      PROVE  /\ Len(sent') = Len(sent) + 1
             /\ \A k \in 1..Len(sent) + 1 : Text(k)' = Text(k)
  BY <1>0, <1>2 DEF Text
<1>3. ASSUME UNCHANGED <<sent, payload>>
      PROVE  \A k \in 1..Len(sent) + 1 : Text(k)' = Text(k)
  BY <1>3 DEF Text
<1>4. \A k \in 1..Len(sent) + 1 : Len(Text(k)) \in Nat
  BY <1>0, <1>00 DEF Text
<1>5. \/ \E v \in net_word : sent' = sent /\ payload' = Append(payload, v)
      \/ sent' = Append(sent, payload)
      \/ UNCHANGED <<sent, payload>>
  BY DEF Next, Sender, Receiver, HandleByte, vars, historyVars, handled,
         write_byte, end_msg, send_msg, WriteSome, ContinueWrite, handle_write,
         handle_write_error, close_sender, handle_read, handle_read_error,
         get_next_byte, LoopExit, schedule_read_handler, HandlePlain,
         HandleEscape, HandleEscaped, close_con
<1>6. CASE \E v \in net_word : sent' = sent /\ payload' = Append(payload, v)
  BY <1>0, <1>1, <1>6
<1>7. CASE sent' = Append(sent, payload)
  <2>1. \A k \in 1..Len(sent) : sent'[k] = sent[k]
    BY <1>0, <1>7
  <2> QED BY <1>0, <1>2, <1>4, <1>7, <2>1
<1>8. CASE UNCHANGED <<sent, payload>>
  BY <1>0, <1>3, <1>4, <1>8
<1> QED BY <1>5, <1>6, <1>7, <1>8

\* Nor does the meaning of an encoded byte change.
LEMMA LayoutGrows ==
  ASSUME TypeOK, [Next]_vars
  PROVE  /\ Len(layout) \in Nat /\ Len(layout') \in Nat
         /\ Len(layout) <= Len(layout')
         /\ \A p \in 1..Len(layout) : layout'[p] = layout[p]
<1>0. layout \in Seq(LayoutEntry)
  BY DEF TypeOK, HistoryTypeOK
<1>1. \/ \E a : layout' = Append(layout, a)
      \/ \E a, b : layout' = Append(Append(layout, a), b)
      \/ UNCHANGED layout
  BY DEF Next, Sender, Receiver, HandleByte, vars, historyVars, handled,
         write_byte, end_msg, send_msg, WriteSome, ContinueWrite, handle_write,
         handle_write_error, close_sender, handle_read, handle_read_error,
         get_next_byte, LoopExit, schedule_read_handler, HandlePlain,
         HandleEscape, HandleEscaped, close_con
<1> QED BY <1>0, <1>1

\* A step of layout stays right while the application writes on.
LEMMA StepStable ==
  ASSUME TypeOK, [Next]_vars,
         NEW a \in LayoutEntry, NEW b \in LayoutEntry, StepOK(a, b)
  PROVE  StepOK(a, b)'
<1>1. /\ a.msgs \in Nat /\ a.len \in Nat /\ b.msgs \in Nat /\ b.len \in Nat
  BY DEF LayoutEntry
<1>2. a.msgs \in 0..Len(sent)
  BY DEF StepOK
<1>3. ASSUME NEW v, Takes(a, b, v) PROVE Takes(a, b, v)'
  <2>1. a.msgs + 1 \in 1..Len(sent) + 1
    BY <1>1, <1>2, TextGrows
  <2>2. b.len \in 1..Len(Text(a.msgs + 1))
    BY <1>1, <1>3, <2>1, TextGrows DEF Takes
  <2> QED BY <1>3, <2>1, <2>2, TextGrows DEF Takes
<1>4. a.msgs \in 0..Len(sent')
  BY <1>1, <1>2, TextGrows
<1>5. ASSUME b.msgs = a.msgs + 1, b.msgs <= Len(sent)
      PROVE  b.msgs <= Len(sent') /\ sent'[b.msgs] = sent[b.msgs]
  BY <1>1, <1>5, TextGrows
<1> QED BY <1>3, <1>4, <1>5 DEF StepOK

LEMMA LayoutInit == Init => LayoutOK
BY DEF Init, LayoutOK, At, Entry

\* The entries a step adds continue layout where it ended.
LEMMA LayoutStep ==
  ASSUME TypeOK, TypeOK', LayoutOK, [Next]_vars PROVE LayoutOK'
<1>n. PICK n \in Nat : n = Len(layout)
  BY DEF TypeOK, HistoryTypeOK
<1>0. /\ layout \in Seq(LayoutEntry) /\ layout' \in Seq(LayoutEntry)
      /\ n \in Nat /\ Len(layout') \in Nat /\ n <= Len(layout')
      /\ \A p \in 1..n : layout'[p] = layout[p]
  BY <1>n, LayoutGrows DEF TypeOK, HistoryTypeOK
<1>p. n + 1 # 0 /\ n + 2 # 0 /\ (n + 1) - 1 = n /\ (n + 2) - 1 = n + 1
  OBVIOUS
<1>00. layout \in Seq(LayoutEntry)
  BY DEF TypeOK, HistoryTypeOK
<1>1. \A p \in 0..n : At(p) \in LayoutEntry /\ At(p)' = At(p)
  <2>1. ASSUME NEW p \in 0..n PROVE At(p)' = At(p)
    <3>1. p = 0 \/ p \in 1..n
      BY <1>n
    <3> QED BY <1>0, <3>1, Zenon DEF At
  <2> QED BY <1>n, <2>1, AtType
<1>2. \A p \in 1..n : layout'[p] \in LayoutEntry
  BY <1>0
<1>3. ASSUME NEW p \in 1..n PROVE StepOK(At(p - 1), layout[p])'
  <2>1. p - 1 \in 0..n /\ p \in 0..n
    BY <1>0
  <2>2. StepOK(At(p - 1), layout[p])
    BY <1>n DEF LayoutOK
  <2>3. At(p - 1) \in LayoutEntry /\ layout[p] \in LayoutEntry
    BY <1>0, <1>1, <2>1
  <2>4. StepOK(At(p - 1), layout[p])'
    <3> DEFINE a == At(p - 1)
               b == layout[p]
    <3>1. a' = a /\ b' = b
      BY <1>0, <1>1, <2>1
    <3>2. \A x, y \in LayoutEntry : StepOK(x, y) => StepOK(x, y)'
      BY StepStable
    <3> QED BY <2>2, <2>3, <3>1, <3>2
  <2> QED BY <2>4
<1>4. At(n).msgs = Len(sent) /\ At(n).len = Len(payload) /\ ~At(n).esc
  BY <1>n DEF LayoutOK
<1>5. Len(sent) \in Nat /\ Len(payload) \in Nat
  BY DEF TypeOK, HistoryTypeOK
<1>6. CASE UNCHANGED historyVars
  <2>1. Len(layout') = n /\ At(n)' = At(n) /\ At(Len(layout))' = At(n)'
    BY <1>n, <1>1, <1>6 DEF historyVars, At
  <2> QED BY <1>3, <1>4, <1>6, <2>1 DEF LayoutOK, historyVars
<1>7. ASSUME NEW v \in net_word, write_byte(v) PROVE LayoutOK'
  <2> DEFINE e1 == Entry(v, Len(sent), Len(payload), TRUE)
             e2 == Entry(msg_origi_char, Len(sent), Len(payload) + 1, FALSE)
             e3 == Entry(v, Len(sent), Len(payload) + 1, FALSE)
  <2>1. /\ sent' = sent /\ payload' = Append(payload, v)
        /\ Text(Len(sent) + 1)' = payload'
    BY <1>5, <1>7 DEF write_byte, Text
  <2> HIDE DEF e1, e2, e3
  <2>2. /\ Len(payload') = Len(payload) + 1
        /\ payload'[Len(payload) + 1] = v
    BY <2>1 DEF TypeOK, HistoryTypeOK
  <2>3. CASE v = escape_val
    <3>1. layout' = Append(Append(layout, e1), e2)
      BY <1>7, <2>3 DEF write_byte, e1, e2
    <3>2. Len(layout') = n + 2 /\ layout'[n + 1] = e1 /\ layout'[n + 2] = e2
      BY <1>n, <1>00, <3>1
    <3>3. StepOK(At(n), layout[n + 1])'
      <4>1. At(n)' = At(n)
        BY <1>0, <1>1
      <4> QED BY <1>4, <1>5, <2>1, <2>3, <3>2, <4>1 DEF StepOK, Entry, e1
    <3>4. StepOK(At(n + 1), layout[n + 2])'
      <4>1. At(n + 1)' = e1
        BY <1>p, <3>2, Zenon DEF At
      <4> QED BY <1>5, <2>1, <2>2, <2>3, <3>2, <4>1
              DEF StepOK, Takes, Entry, msg_origi_char, escape_val, e1, e2
    <3>5. \A p \in 1..Len(layout') : StepOK(At(p - 1), layout[p])'
      <4>1. \A p \in 1..Len(layout') : p \in 1..n \/ p = n + 1 \/ p = n + 2
        BY <3>2
      <4> QED BY <1>3, <1>p, <3>3, <3>4, <4>1, Zenon
    <3>6. At(Len(layout))' = e2
      BY <1>p, <3>2, Zenon DEF At
    <3> QED BY <2>1, <2>2, <3>5, <3>6 DEF LayoutOK, Entry, e2
  <2>4. CASE v # escape_val
    <3>1. layout' = Append(layout, e3)
      BY <1>7, <2>4 DEF write_byte, e3
    <3>2. Len(layout') = n + 1 /\ layout'[n + 1] = e3
      BY <1>n, <1>00, <3>1
    <3>3. StepOK(At(n), layout[n + 1])'
      <4>1. At(n)' = At(n)
        BY <1>0, <1>1
      <4> QED BY <1>4, <1>5, <2>1, <2>2, <2>4, <3>2, <4>1
              DEF StepOK, Takes, Entry, e3
    <3>4. \A p \in 1..Len(layout') : StepOK(At(p - 1), layout[p])'
      <4>1. \A p \in 1..Len(layout') : p \in 1..n \/ p = n + 1
        BY <3>2
      <4> QED BY <1>3, <1>p, <3>3, <4>1, Zenon
    <3>5. At(Len(layout))' = e3
      BY <1>p, <3>2, Zenon DEF At
    <3> QED BY <2>1, <2>2, <3>4, <3>5 DEF LayoutOK, Entry, e3
  <2> QED BY <2>3, <2>4
<1>8. CASE end_msg
  <2> DEFINE e1 == Entry(escape_val, Len(sent), Len(payload), TRUE)
             e2 == Entry(msg_end_escaped, Len(sent) + 1, 0, FALSE)
  <2>1. sent' = Append(sent, payload) /\ payload' = <<>>
    BY <1>8 DEF end_msg
  <2> HIDE DEF e1, e2
  <2>2. /\ Len(sent') = Len(sent) + 1 /\ sent'[Len(sent) + 1] = payload
        /\ Len(payload') = 0
    BY <2>1 DEF TypeOK, HistoryTypeOK
  <2>3. layout' = Append(Append(layout, e1), e2)
    BY <1>8 DEF end_msg, e1, e2
  <2>4. Len(layout') = n + 2 /\ layout'[n + 1] = e1 /\ layout'[n + 2] = e2
    BY <1>n, <1>00, <2>3
  <2>5. StepOK(At(n), layout[n + 1])'
    <3>1. At(n)' = At(n)
      BY <1>0, <1>1
    <3> QED BY <1>4, <1>5, <2>2, <2>4, <3>1 DEF StepOK, Entry, e1
  <2>6. StepOK(At(n + 1), layout[n + 2])'
    <3>1. At(n + 1)' = e1
      BY <1>p, <2>4, Zenon DEF At
    <3> QED BY <1>5, <2>2, <2>4, <3>1 DEF StepOK, Entry, e1, e2
  <2>7. \A p \in 1..Len(layout') : StepOK(At(p - 1), layout[p])'
    <3>1. \A p \in 1..Len(layout') : p \in 1..n \/ p = n + 1 \/ p = n + 2
      BY <2>4
    <3> QED BY <1>3, <1>p, <2>5, <2>6, <3>1, Zenon
  <2>8. At(Len(layout))' = e2
    BY <1>p, <2>4, Zenon DEF At
  <2> QED BY <2>2, <2>7, <2>8 DEF LayoutOK, Entry, e2
<1>9. UNCHANGED historyVars \/ end_msg \/ \E v \in net_word : write_byte(v)
  BY DEF Next, Sender, Receiver, HandleByte, vars, historyVars, handled,
         send_msg, WriteSome, ContinueWrite, handle_write,
         handle_write_error, close_sender, handle_read, handle_read_error,
         get_next_byte, LoopExit, schedule_read_handler, HandlePlain,
         HandleEscape, HandleEscaped, close_con
<1> QED BY <1>6, <1>7, <1>8, <1>9

-----------------------------------------------------------------------------
(* The sender and the stream *)

\* A connection whose writes are sent one at a time.
OneOutstanding == MaxOutstanding <= 1

LEMMA OneWriteStep ==
  ASSUME OneOutstanding, TypeOK, OneWrite, [Next]_vars PROVE OneWrite'
<1>0. /\ write_ops \in Seq(Seq(net_word)) /\ send_strand \in Seq(Seq(net_word))
      /\ MaxOutstanding \in Nat
  BY BoundAssumption DEF TypeOK, SenderTypeOK
<1>1. CASE UNCHANGED <<write_ops, send_strand>>
  BY <1>1 DEF OneWrite
<1>2. CASE send_msg
  BY <1>0, <1>2 DEF OneOutstanding, OneWrite, send_msg
<1>3. CASE WriteSome
  BY <1>0, <1>3 DEF OneWrite, WriteSome
<1>4. CASE ContinueWrite
  BY <1>0, <1>4 DEF OneWrite, ContinueWrite
<1>5. CASE handle_write
  BY <1>0, <1>5 DEF OneWrite, handle_write
<1>6. CASE handle_write_error
  BY <1>0, <1>6 DEF OneWrite, handle_write_error
<1> QED BY <1>1, <1>2, <1>3, <1>4, <1>5, <1>6
        DEF Next, Sender, Receiver, HandleByte, vars, senderVars, handled,
            write_byte, end_msg, close_sender, handle_read, handle_read_error,
            get_next_byte, LoopExit, schedule_read_handler, HandlePlain,
            HandleEscape, HandleEscaped, close_con

\* With at most one write in flight, write_ops and send_strand never both hold
\* something.
LEMMA OneWriteCases ==
  ASSUME TypeOK, OneWrite
  PROVE  /\ Rest \in Seq(net_word)
         /\ write_ops # <<>> => Rest = Head(write_ops)
         /\ send_strand # <<>> => Rest = Head(send_strand)
         /\ write_ops = <<>> /\ send_strand = <<>> => Rest = <<>>
         /\ write_ops # <<>> => Len(write_ops) = 1 /\ send_strand = <<>>
         /\ send_strand # <<>> => Len(send_strand) = 1 /\ write_ops = <<>>
<1>0. /\ write_ops \in Seq(Seq(net_word)) /\ send_strand \in Seq(Seq(net_word))
  BY DEF TypeOK, SenderTypeOK
<1>1. /\ write_ops # <<>> => Len(write_ops) >= 1 /\ write_ops[1] \in Seq(net_word)
      /\ write_ops # <<>> => Head(write_ops) = write_ops[1]
      /\ Len(write_ops) \in Nat
  BY <1>0
<1>2. /\ send_strand # <<>> => Len(send_strand) >= 1 /\ send_strand[1] \in Seq(net_word)
      /\ send_strand # <<>> => Head(send_strand) = send_strand[1]
      /\ Len(send_strand) \in Nat
  BY <1>0
<1>3. Rest \in Seq(net_word)
  BY <1>1, <1>2 DEF Rest
<1>4. write_ops = <<>> \/ send_strand = <<>>
  BY <1>1, <1>2 DEF OneWrite
<1>5. /\ write_ops # <<>> => Len(write_ops) = 1
      /\ send_strand # <<>> => Len(send_strand) = 1
  <2>1. \A a, b \in Nat : a + b <= 1 /\ a >= 1 => a = 1
    OBVIOUS
  <2>2. \A a, b \in Nat : a + b <= 1 /\ b >= 1 => b = 1
    OBVIOUS
  <2> QED BY <1>1, <1>2, <2>1, <2>2, Zenon DEF OneWrite
<1>6. /\ write_ops # <<>> => Rest = Head(write_ops)
      /\ send_strand # <<>> => Rest = Head(send_strand)
      /\ write_ops = <<>> /\ send_strand = <<>> => Rest = <<>>
  BY <1>1, <1>2, <1>4, Zenon DEF Rest
<1> QED BY <1>3, <1>4, <1>5, <1>6

LEMMA StreamStep ==
  ASSUME TypeOK, StreamOK, OneWrite, SenderOK, [Next]_vars PROVE StreamOK'
<1>0. /\ stream \in Seq(net_word) /\ write_ops \in Seq(Seq(net_word))
      /\ Rest \in Seq(net_word) /\ msg \in Seq(net_word)
  BY OneWriteCases DEF TypeOK, SenderTypeOK, StreamTypeOK
<1>1. CASE UNCHANGED stream
  <2>1. Len(stream) \in Nat
    BY <1>0
  <2> QED BY <1>1, <2>1, LayoutGrows DEF StreamOK
<1>2. CASE WriteSome
  <2>1. PICK n \in 1..Len(Rest) : stream' = stream \o SubSeq(Rest, 1, n)
    <3>1. Rest = Head(write_ops)
      BY <1>2, OneWriteCases DEF WriteSome
    <3> QED BY <1>2, <3>1, Zenon DEF WriteSome
  <2>2. /\ Len(stream) + Len(Rest) <= Len(layout) /\ UNCHANGED layout
        /\ \A i \in 1..Len(Rest) : Rest[i] = layout[Len(stream) + i].word
    <3>1. ~terminated /\ UNCHANGED layout
      BY <1>2 DEF WriteSome, historyVars
    <3>2. Len(stream) \in Nat /\ Len(Rest) \in Nat /\ Len(msg) \in Nat
      BY <1>0
    <3> QED BY <3>1, <3>2 DEF SenderOK
  <2>3. PICK m \in Nat : m = Len(stream)
    BY <1>0
  <2>4. /\ Len(stream') = m + n
        /\ \A i \in 1..m : stream'[i] = stream[i]
        /\ \A i \in 1..n : stream'[m + i] = Rest[i]
    BY <1>0, <2>1, <2>3
  <2>5. \A i \in 1..m + n : i \in 1..m \/ (i - m \in 1..n /\ i = m + (i - m))
    BY <2>1, <2>3
  <2>6. \A i \in 1..m + n : stream'[i] = layout[i].word
    <3> SUFFICES ASSUME NEW i \in 1..m + n PROVE stream'[i] = layout[i].word
      OBVIOUS
    <3>1. CASE i \in 1..m
      BY <2>3, <2>4, <3>1 DEF StreamOK
    <3>2. ASSUME NEW j \in 1..n, i = m + j PROVE stream'[i] = layout[i].word
      <4>1. j \in 1..Len(Rest)
        BY <1>0, <2>1, <3>2
      <4>2. stream'[m + j] = Rest[j] /\ Rest[j] = layout[m + j].word
        BY <2>2, <2>3, <2>4, <4>1, Zenon
      <4> QED BY <3>2, <4>2, Zenon
    <3> QED BY <2>5, <3>1, <3>2
  <2>7. m + n <= Len(layout)
    BY <1>0, <2>1, <2>2, <2>3, LayoutGrows
  <2> QED BY <2>2, <2>4, <2>6, <2>7, Zenon DEF StreamOK
<1> QED BY <1>1, <1>2
        DEF Next, Sender, Receiver, HandleByte, vars, senderVars, handled,
            write_byte, end_msg, send_msg, ContinueWrite, handle_write,
            handle_write_error, close_sender, handle_read, handle_read_error,
            get_next_byte, LoopExit, schedule_read_handler, HandlePlain,
            HandleEscape, HandleEscaped, close_con


\* What is left of the write in flight, and then msg, follow stream.
LEMMA SenderStep ==
  ASSUME OneOutstanding, TypeOK, TypeOK', OneWrite, OneWrite', SenderOK, [Next]_vars
  PROVE  SenderOK'
<1>1. PICK s \in Nat : s = Len(stream)
  BY DEF TypeOK, StreamTypeOK
<1>2. PICK r \in Nat : r = Len(Rest)
  BY OneWriteCases
<1>3. PICK m \in Nat : m = Len(msg)
  BY DEF TypeOK, SenderTypeOK
<1>4. PICK n \in Nat : n = Len(layout)
  BY DEF TypeOK, HistoryTypeOK
<1>5. ~terminated =>
        /\ s + r + m = n
        /\ \A i \in 1..r : Rest[i] = layout[s + i].word
        /\ \A i \in 1..m : msg[i] = layout[s + r + i].word
  BY <1>1, <1>2, <1>3, <1>4, Zenon DEF SenderOK
<1>6. /\ write_ops \in Seq(Seq(net_word)) /\ send_strand \in Seq(Seq(net_word))
      /\ msg \in Seq(net_word) /\ Rest \in Seq(net_word)
      /\ stream \in Seq(net_word) /\ layout \in Seq(LayoutEntry)
  BY OneWriteCases DEF TypeOK, SenderTypeOK, StreamTypeOK, HistoryTypeOK
<1>7. CASE terminated'
  BY <1>7 DEF SenderOK
<1>8. CASE UNCHANGED <<msg, write_ops, send_strand, stream, layout, terminated>>
  BY <1>8 DEF SenderOK, Rest
<1>a. ASSUME NEW k \in Nat, ~terminated, UNCHANGED <<stream, Rest>>,
             Len(layout') = n + k, Len(msg') = m + k,
             \A i \in 1..m : msg'[i] = msg[i],
             \A j \in 1..k : msg'[m + j] = layout'[n + j].word
      PROVE  SenderOK'
  <2>1. \A p \in 1..n : layout'[p] = layout[p]
    BY <1>4, LayoutGrows
  <2>2. s + r + (m + k) = n + k
    BY <1>5, <1>a
  <2>3. ASSUME NEW i \in 1..r PROVE Rest[i] = layout'[s + i].word
    <3>1. s + i \in 1..n
      BY <1>5, <1>a
    <3> QED BY <1>5, <1>a, <2>1, <3>1, Zenon
  <2>4. ASSUME NEW i \in 1..m + k PROVE msg'[i] = layout'[s + r + i].word
    <3>1. CASE i \in 1..m
      <4>1. s + r + i \in 1..n
        BY <1>5, <1>a, <3>1
      <4> QED BY <1>5, <1>a, <2>1, <3>1, <4>1, Zenon
    <3>2. ASSUME NEW j \in 1..k, i = m + j
          PROVE  msg'[i] = layout'[s + r + i].word
      <4>1. s + r + i = n + j
        BY <1>5, <1>a, <3>2
      <4> QED BY <1>a, <3>2, <4>1, Zenon
    <3>3. i \in 1..m \/ \E j \in 1..k : i = m + j
      <4>1. i \in 1..m \/ (i - m \in 1..k /\ i = m + (i - m))
        OBVIOUS
      <4> QED BY <4>1
    <3> QED BY <3>1, <3>2, <3>3
  <2> QED BY <1>1, <1>2, <1>a, <2>2, <2>3, <2>4, Zenon DEF SenderOK
<1>9. ASSUME NEW v \in net_word, write_byte(v) PROVE SenderOK'
  <2>1. UNCHANGED <<stream, Rest>> /\ ~terminated
    BY <1>9 DEF Rest, write_byte
  <2>2. PICK e \in LayoutEntry, f \in LayoutEntry :
          /\ e.word = v /\ f.word = msg_origi_char
          /\ \/ /\ msg' = Append(Append(msg, v), msg_origi_char)
                /\ layout' = Append(Append(layout, e), f)
             \/ /\ msg' = Append(msg, v)
                /\ layout' = Append(layout, e)
    <3>1. /\ Len(sent) \in Nat /\ Len(payload) \in Nat
          /\ Len(payload) + 1 \in Nat
      BY DEF TypeOK, HistoryTypeOK
    <3>2. /\ Entry(v, Len(sent), Len(payload), TRUE) \in LayoutEntry
          /\ Entry(v, Len(sent), Len(payload) + 1, FALSE) \in LayoutEntry
          /\ Entry(msg_origi_char, Len(sent), Len(payload) + 1, FALSE)
               \in LayoutEntry
      BY <1>9, <3>1, Words, EntryType, Zenon
    <3>3. \A w, a, b, c : Entry(w, a, b, c).word = w
      BY DEF Entry
    <3>4. CASE v = escape_val
      <4> DEFINE e1 == Entry(v, Len(sent), Len(payload), TRUE)
                 e2 == Entry(msg_origi_char, Len(sent), Len(payload) + 1, FALSE)
      <4>1. /\ msg' = Append(Append(msg, v), msg_origi_char)
            /\ layout' = Append(Append(layout, e1), e2)
        BY <1>9, <3>4 DEF write_byte
      <4>2. /\ e1 \in LayoutEntry /\ e2 \in LayoutEntry
            /\ e1.word = v /\ e2.word = msg_origi_char
        BY <3>2, <3>3
      <4> HIDE DEF e1, e2
      <4> QED BY <4>1, <4>2
    <3>5. CASE v # escape_val
      <4> DEFINE e1 == Entry(v, Len(sent), Len(payload) + 1, FALSE)
                 e2 == Entry(msg_origi_char, Len(sent), Len(payload) + 1, FALSE)
      <4>1. msg' = Append(msg, v) /\ layout' = Append(layout, e1)
        BY <1>9, <3>5 DEF write_byte
      <4>2. /\ e1 \in LayoutEntry /\ e2 \in LayoutEntry
            /\ e1.word = v /\ e2.word = msg_origi_char
        BY <3>2, <3>3
      <4> HIDE DEF e1, e2
      <4> QED BY <4>1, <4>2
    <3> QED BY <3>4, <3>5
  <2>3. CASE /\ msg' = Append(Append(msg, v), msg_origi_char)
             /\ layout' = Append(Append(layout, e), f)
    <3>1. /\ Len(layout') = n + 2 /\ layout'[n + 1] = e /\ layout'[n + 2] = f
      BY <1>4, <1>6, <2>3
    <3>2. /\ Len(msg') = m + 2 /\ \A i \in 1..m : msg'[i] = msg[i]
          /\ msg'[m + 1] = v /\ msg'[m + 2] = msg_origi_char
      BY <1>3, <1>6, <2>3
    <3>3. \A j \in 1..2 : j = 1 \/ j = 2
      OBVIOUS
    <3>4. \A j \in 1..2 : msg'[m + j] = layout'[n + j].word
      BY <2>2, <3>1, <3>2, <3>3, Zenon
    <3> QED BY <1>a, <2>1, <3>1, <3>2, <3>4
  <2>4. CASE msg' = Append(msg, v) /\ layout' = Append(layout, e)
    <3>1. Len(layout') = n + 1 /\ layout'[n + 1] = e
      BY <1>4, <1>6, <2>4
    <3>2. /\ Len(msg') = m + 1 /\ \A i \in 1..m : msg'[i] = msg[i]
          /\ msg'[m + 1] = v
      BY <1>3, <1>6, <2>4
    <3>3. \A j \in 1..1 : j = 1
      OBVIOUS
    <3>4. \A j \in 1..1 : msg'[m + j] = layout'[n + j].word
      BY <2>2, <3>1, <3>2, <3>3, Zenon
    <3> QED BY <1>a, <2>1, <3>1, <3>2, <3>4
  <2> QED BY <2>2, <2>3, <2>4
<1>10. CASE end_msg
  <2>1. UNCHANGED <<stream, Rest>> /\ ~terminated
    BY <1>10 DEF Rest, end_msg
  <2>2. PICK e \in LayoutEntry, f \in LayoutEntry :
          /\ e.word = escape_val /\ f.word = msg_end_escaped
          /\ layout' = Append(Append(layout, e), f)
    <3>1. /\ Len(sent) \in Nat /\ Len(payload) \in Nat
          /\ Len(sent) + 1 \in Nat /\ 0 \in Nat
      BY DEF TypeOK, HistoryTypeOK
    <3>2. /\ Entry(escape_val, Len(sent), Len(payload), TRUE) \in LayoutEntry
          /\ Entry(msg_end_escaped, Len(sent) + 1, 0, FALSE) \in LayoutEntry
      BY <3>1, Words, EntryType, Zenon
    <3>3. \A w, a, b, c : Entry(w, a, b, c).word = w
      BY DEF Entry
    <3> QED BY <1>10, <3>2, <3>3, Zenon DEF end_msg
  <2>3. msg' = Append(Append(msg, escape_val), msg_end_escaped)
    BY <1>10 DEF end_msg
  <2>4. /\ Len(layout') = n + 2 /\ layout'[n + 1] = e /\ layout'[n + 2] = f
    BY <1>4, <1>6, <2>2
  <2>5. /\ Len(msg') = m + 2 /\ \A i \in 1..m : msg'[i] = msg[i]
        /\ msg'[m + 1] = escape_val /\ msg'[m + 2] = msg_end_escaped
    BY <1>3, <1>6, <2>3
  <2>6. \A j \in 1..2 : j = 1 \/ j = 2
    OBVIOUS
  <2>7. \A j \in 1..2 : msg'[m + j] = layout'[n + j].word
    BY <2>2, <2>4, <2>5, <2>6, Zenon
  <2> QED BY <1>a, <2>1, <2>4, <2>5, <2>7
<1>11. CASE send_msg
  <2>1. /\ ~terminated /\ msg' = <<>> /\ write_ops' = Append(write_ops, msg)
        /\ UNCHANGED <<send_strand, stream, layout>>
    BY <1>11 DEF send_msg, historyVars
  <2>2. write_ops = <<>> /\ send_strand = <<>>
    <3>1. Len(write_ops) + Len(send_strand) < 1
      BY <1>11, <1>6, BoundAssumption DEF send_msg, OneOutstanding
    <3> QED BY <1>6, <3>1
  <2>3. r = 0
    BY <1>2, <2>2, OneWriteCases
  <2>4. Rest' = msg
    <3>1. write_ops' # <<>> /\ write_ops'[1] = msg
      BY <1>6, <2>1, <2>2
    <3> QED BY <3>1 DEF Rest
  <2>5. Len(msg') = 0
    BY <2>1
  <2>6. s + m + 0 = n /\ \A i \in 1..m : msg[i] = layout[s + i].word
    <3>1. \A i \in 1..m : s + r + i = s + i
      BY <2>3
    <3> QED BY <1>5, <2>1, <2>3, <3>1
  <2>7. \A i \in 1..0 : FALSE
    OBVIOUS
  <2> QED BY <1>1, <1>3, <1>4, <2>1, <2>4, <2>5, <2>6, <2>7, Zenon DEF SenderOK
<1>12. CASE WriteSome
  <2>1. /\ ~terminated /\ write_ops # <<>> /\ Rest = Head(write_ops)
        /\ send_strand = <<>> /\ Len(write_ops) = 1
    BY <1>12, OneWriteCases DEF WriteSome
  <2>2. PICK c \in 1..r :
          /\ stream' = stream \o SubSeq(Rest, 1, c)
          /\ send_strand' = Append(send_strand, SubSeq(Rest, c + 1, r))
    BY <1>2, <1>12, <2>1, Zenon DEF WriteSome
  <2>3. write_ops' = <<>> /\ UNCHANGED <<msg, layout>>
    <3>1. write_ops' = Tail(write_ops) /\ UNCHANGED <<msg, layout>>
      BY <1>12 DEF WriteSome, historyVars
    <3> QED BY <1>6, <2>1, <3>1, TailOfOne
  <2>4. Rest' = SubSeq(Rest, c + 1, r)
    <3>1. send_strand' # <<>> /\ send_strand'[1] = SubSeq(Rest, c + 1, r)
      BY <2>1, <2>2
    <3> QED BY <2>3, <3>1, Zenon DEF Rest
  <2>5. Len(stream') = s + c
    BY <1>1, <1>2, <1>6, <2>2
  <2>6. PICK q \in Nat : q = r - c
    BY <2>2
  <2>7. Len(Rest') = q /\ \A i \in 1..q : Rest'[i] = Rest[c + i]
    <3>1. c + 1 \in Nat \ {0} /\ r <= Len(Rest) /\ c <= r
      BY <1>2, <2>2
    <3>2. /\ Len(Rest') = IF c + 1 <= r THEN r - (c + 1) + 1 ELSE 0
          /\ \A i \in 1..Len(Rest') : Rest'[i] = Rest[(c + 1) + i - 1]
      <4> DEFINE t == SubSeq(Rest, c + 1, r)
      <4>1. /\ Len(t) = IF c + 1 <= r THEN r - (c + 1) + 1 ELSE 0
            /\ \A i \in 1..Len(t) : t[i] = Rest[(c + 1) + i - 1]
        BY <1>6, <3>1, SubSeqType
      <4> QED BY <2>4, <4>1, Zenon
    <3>3. Len(Rest') = q
      BY <2>2, <2>6, <3>1, <3>2
    <3>4. \A i \in 1..q : (c + 1) + i - 1 = c + i
      OBVIOUS
    <3> QED BY <3>2, <3>3, <3>4, Zenon
  <2>8. (s + c) + q + m = n /\ s + r = (s + c) + q
    BY <1>5, <2>1, <2>2, <2>6
  <2>9. ASSUME NEW i \in 1..q PROVE Rest'[i] = layout[(s + c) + i].word
    <3>1. c + i \in 1..r /\ s + (c + i) = (s + c) + i
      BY <2>2, <2>6
    <3>2. Rest[c + i] = layout[s + (c + i)].word
      BY <1>5, <2>1, <3>1
    <3> QED BY <2>7, <3>1, <3>2, Zenon
  <2>10. \A i \in 1..m : msg[i] = layout[(s + c) + q + i].word
    BY <1>5, <2>1, <2>8, Zenon
  <2> QED BY <1>3, <1>4, <2>3, <2>5, <2>7, <2>8, <2>9, <2>10, Zenon DEF SenderOK
<1>13. CASE ContinueWrite
  <2>1. /\ send_strand # <<>> /\ Rest = Head(send_strand) /\ write_ops = <<>>
        /\ write_ops' = Append(write_ops, Head(send_strand))
        /\ UNCHANGED <<msg, stream, layout, terminated>>
    BY <1>13, OneWriteCases DEF ContinueWrite, historyVars
  <2>2. write_ops' # <<>> /\ write_ops'[1] = Rest
    BY <1>6, <2>1, TailOfOne
  <2>3. Rest' = Rest
    BY <2>2, Zenon DEF Rest
  <2> QED BY <2>1, <2>3, Zenon DEF SenderOK
<1>14. CASE handle_write
  <2>1. /\ send_strand # <<>> /\ Rest = Head(send_strand) /\ write_ops = <<>>
        /\ Head(send_strand) = <<>> /\ Len(send_strand) = 1
        /\ send_strand' = Tail(send_strand)
        /\ UNCHANGED <<msg, write_ops, stream, layout, terminated>>
    BY <1>14, OneWriteCases DEF handle_write, historyVars
  <2>2. send_strand' = <<>>
    BY <1>6, <2>1, TailOfOne
  <2>3. Rest' = Rest
    BY <2>1, <2>2, Zenon DEF Rest
  <2> QED BY <2>1, <2>3, Zenon DEF SenderOK
<1> QED BY <1>7, <1>8, <1>9, <1>10, <1>11, <1>12, <1>13, <1>14
        DEF Next, Sender, Receiver, HandleByte, vars, senderVars, historyVars, handled,
            handle_write_error, close_sender, handle_read, handle_read_error,
            get_next_byte, LoopExit, schedule_read_handler, HandlePlain,
            HandleEscape, HandleEscaped, close_con


-----------------------------------------------------------------------------
(* The receiver *)

LEMMA BuffStep ==
  ASSUME TypeOK, TypeOK', BuffOK, RewindOK, [Next]_vars PROVE BuffOK'
<1>0. /\ stream \in Seq(net_word) /\ stream' \in Seq(net_word)
      /\ buff \in Seq(net_word) /\ taken \in 0..Len(stream)
      /\ current_index \in 0..Len(buff)
  BY DEF TypeOK, StreamTypeOK, ReceiverTypeOK
<1>1. CASE UNCHANGED <<stream, taken, receiverVars>>
  BY <1>1 DEF BuffOK, receiverVars
<1>2. CASE WriteSome
  <2>1. UNCHANGED receiverVars /\ UNCHANGED taken
    BY <1>2 DEF WriteSome
  <2>2. PICK c \in Seq(net_word) : stream' = stream \o c
    <3>1. PICK n \in 1..Len(Head(write_ops)) :
            stream' = stream \o SubSeq(Head(write_ops), 1, n)
      BY <1>2 DEF WriteSome
    <3>2. write_ops \in Seq(Seq(net_word)) /\ write_ops # <<>>
      BY <1>2 DEF WriteSome, TypeOK, SenderTypeOK
    <3>3. Head(write_ops) \in Seq(net_word)
      BY <3>2
    <3>4. SubSeq(Head(write_ops), 1, n) \in Seq(net_word)
      BY <3>3
    <3> QED BY <3>1, <3>4
  <2>3. \A i \in 1..Len(stream) : stream'[i] = stream[i]
    BY <1>0, <2>2
  <2>4. CASE read_state \in {"loop", "got"}
    <3>1. Len(buff) <= taken
      BY <2>4 DEF BuffOK
    <3>2. \A i \in 1..Len(buff) : taken - Len(buff) + i \in 1..Len(stream)
      BY <1>0, <3>1
    <3>3. \A i \in 1..Len(buff) : buff[i] = stream'[taken - Len(buff) + i]
      BY <2>3, <2>4, <3>2 DEF BuffOK
    <3> QED BY <2>1, <3>1, <3>3, Zenon DEF BuffOK, receiverVars
  <2>5. CASE read_state \notin {"loop", "got"}
    BY <2>1, <2>5 DEF BuffOK, receiverVars
  <2> QED BY <2>4, <2>5
<1>3. ASSUME NEW n \in 1..BuffSize, handle_read(n) PROVE BuffOK'
  <2>1. PICK k \in Nat : k = n /\ k > 0
    BY BoundAssumption
  <2>2. PICK t \in Nat : t = taken
    BY <1>0
  <2>3. /\ buff' = SubSeq(stream, t + 1, t + k) /\ taken' = t + k
        /\ t + k <= Len(stream) /\ read_state' = "loop" /\ UNCHANGED stream
    BY <1>3, <2>1, <2>2 DEF handle_read
  <2>4. /\ Len(buff') = k
        /\ \A i \in 1..k : buff'[i] = stream[t + i]
    <3>1. t + 1 \in Nat \ {0} /\ t + k \in Nat /\ t + 1 <= t + k
          /\ (t + k) - (t + 1) + 1 = k
      BY <2>1
    <3>2. Len(buff') = k
      BY <1>0, <2>3, <3>1, SubSeqType
    <3>3. \A i \in 1..k : buff'[i] = stream[(t + 1) + i - 1]
      BY <1>0, <2>3, <3>1, <3>2, SubSeqType
    <3>4. \A i \in 1..k : (t + 1) + i - 1 = t + i
      OBVIOUS
    <3> QED BY <3>2, <3>3, <3>4, Zenon
  <2>5. \A i \in 1..k : (t + k) - k + i = t + i
    OBVIOUS
  <2>6. k <= t + k
    OBVIOUS
  <2>7. \A i \in 1..Len(buff') : buff'[i] = stream'[taken' - Len(buff') + i]
    BY <2>3, <2>4, <2>5, Zenon
  <2>8. Len(buff') <= taken' /\ read_state' # "got"
    BY <2>3, <2>4, <2>6
  <2> QED BY <2>7, <2>8 DEF BuffOK
<1>4. CASE handle_read_error
  BY <1>4 DEF BuffOK, handle_read_error
<1>5. CASE get_next_byte
  BY <1>0, <1>5 DEF BuffOK, get_next_byte
<1>6. CASE LoopExit
  BY <1>6 DEF BuffOK, LoopExit
<1>7. CASE schedule_read_handler
  BY <1>7 DEF BuffOK, schedule_read_handler
<1>8. CASE HandleByte
  BY <1>8 DEF BuffOK, HandleByte, HandlePlain, HandleEscape, HandleEscaped, handled
<1>9. CASE close_con
  BY <1>9 DEF BuffOK, close_con
<1> QED BY <1>1, <1>2, <1>3, <1>4, <1>5, <1>6, <1>7, <1>8, <1>9
        DEF Next, Sender, Receiver, vars, write_byte, end_msg, send_msg,
            ContinueWrite, handle_write, handle_write_error, close_sender

\* A byte that was fetched is the next one of layout.
LEMMA GotByte ==
  ASSUME TypeOK, LayoutOK, StreamOK, BuffOK, DecodeOK, read_state = "got"
  PROVE  /\ Pos \in Nat /\ Pos + 1 \in 1..Len(layout)
         /\ Pos + 1 = taken - Len(buff) + current_index
         /\ next_byte = layout[Pos + 1].word
         /\ StepOK(At(Pos), layout[Pos + 1])
         /\ At(Pos) \in LayoutEntry /\ layout[Pos + 1] \in LayoutEntry
<1>0. /\ stream \in Seq(net_word) /\ buff \in Seq(net_word)
      /\ taken \in 0..Len(stream) /\ current_index \in 1..Len(buff)
      /\ layout \in Seq(LayoutEntry)
  BY DEF TypeOK, StreamTypeOK, ReceiverTypeOK, HistoryTypeOK, BuffOK
<1>1. /\ Len(buff) <= taken /\ next_byte = buff[current_index]
      /\ buff[current_index] = stream[taken - Len(buff) + current_index]
  BY <1>0 DEF BuffOK
<1>2. Pos = taken - Len(buff) + current_index - 1
  BY DEF Pos
<1>3. /\ Pos \in Nat /\ Pos + 1 \in 1..Len(stream)
      /\ Pos + 1 = taken - Len(buff) + current_index
  BY <1>0, <1>1, <1>2
<1>4. Pos + 1 \in 1..Len(layout) /\ Pos \in 0..Len(layout)
  BY <1>0, <1>3 DEF StreamOK
<1>5. next_byte = layout[Pos + 1].word
  BY <1>1, <1>3, Zenon DEF StreamOK
<1>6. StepOK(At(Pos), layout[Pos + 1])
  <2>1. PICK p \in 1..Len(layout) : p = Pos + 1 /\ p - 1 = Pos
    BY <1>3, <1>4
  <2> QED BY <2>1, Zenon DEF LayoutOK
<1>7. At(Pos) \in LayoutEntry /\ layout[Pos + 1] \in LayoutEntry
  BY <1>0, <1>4, AtType
<1> QED BY <1>3, <1>4, <1>5, <1>6, <1>7


LEMMA PosBound ==
  ASSUME TypeOK, StreamOK, BuffOK PROVE Pos \in 0..Len(layout)
<1>1. /\ Len(stream) \in Nat /\ Len(layout) \in Nat /\ Len(buff) \in Nat
      /\ taken \in 0..Len(stream) /\ current_index \in 0..Len(buff)
  BY DEF TypeOK, StreamTypeOK, ReceiverTypeOK, HistoryTypeOK
<1>2. taken \in 0..Len(layout)
  BY <1>1 DEF StreamOK
<1>3. CASE read_state = "loop"
  BY <1>1, <1>2, <1>3 DEF Pos, BuffOK
<1>4. CASE read_state = "got"
  BY <1>1, <1>2, <1>4 DEF Pos, BuffOK
<1>5. CASE read_state \notin {"loop", "got"}
  BY <1>2, <1>5 DEF Pos
<1> QED BY <1>3, <1>4, <1>5

\* While the reader keeps its place, what it has stays right.
LEMMA ReaderStable ==
  ASSUME TypeOK, StreamOK, BuffOK, DecodeOK, InOrder, RecvIsPrefix, [Next]_vars,
         UNCHANGED <<next_is_escape, recv_msg, delivered>>,
         (con_open \/ read_state = "got")' =>
           /\ con_open \/ read_state = "got"
           /\ Pos' = Pos
           /\ read_state' # "done"
  PROVE  (DecodeOK /\ InOrder /\ RecvIsPrefix)'
<1>1. Len(delivered) \in Nat /\ Len(recv_msg) \in Nat
  BY DEF TypeOK, ReceiverTypeOK
<1>2. InOrder'
  BY <1>1, TextGrows DEF InOrder
<1>3. RecvIsPrefix'
  <2> DEFINE k == Len(delivered) + 1
  <2>1. k \in 1..Len(sent) + 1
    BY <1>1, TextGrows DEF InOrder
  <2>2. /\ Len(Text(k)) \in Nat /\ Len(Text(k)') \in Nat
        /\ Len(Text(k)) <= Len(Text(k)')
        /\ \A i \in 1..Len(Text(k)) : Text(k)'[i] = Text(k)[i]
    <3>1. PICK q \in 1..Len(sent) + 1 : q = k /\ q = k'
      BY <2>1
    <3>2. Text(k) = Text(q) /\ Text(k)' = Text(q)'
      BY <3>1, Zenon
    <3> QED BY <3>1, <3>2, TextGrows, Zenon
  <2>3. /\ Len(recv_msg) <= Len(Text(k))
        /\ \A i \in 1..Len(recv_msg) : recv_msg[i] = Text(k)[i]
    BY DEF RecvIsPrefix
  <2> HIDE DEF k
  <2>4. /\ Len(recv_msg) <= Len(Text(k)')
        /\ \A i \in 1..Len(recv_msg) : recv_msg[i] = Text(k)'[i]
    BY <1>1, <2>2, <2>3
  <2> QED BY <2>4, Zenon DEF RecvIsPrefix, k
<1>4. DecodeOK'
  <2>1. SUFFICES ASSUME (con_open \/ read_state = "got")'
                 PROVE  /\ At(Pos)' = At(Pos)
                        /\ con_open \/ read_state = "got"
                        /\ read_state' # "done"
    BY Zenon DEF DecodeOK
  <2>2. PICK p \in 0..Len(layout) : p = Pos /\ p = Pos'
    BY <2>1, PosBound
  <2>3. At(p)' = At(p)
    <3>1. p = 0 \/ p \in 1..Len(layout)
      BY LayoutGrows
    <3> QED BY <3>1, LayoutGrows, Zenon DEF At
  <2>4. At(Pos)' = At(Pos)
    BY <2>2, <2>3, Zenon
  <2> QED BY <2>1, <2>4
<1> QED BY <1>2, <1>3, <1>4


\* Handling a byte takes the reader to the next place of layout.
LEMMA HandleByteStep ==
  ASSUME TypeOK, TypeOK', LayoutOK, StreamOK, BuffOK, DecodeOK, InOrder,
         RecvIsPrefix, HandleByte
  PROVE  (DecodeOK /\ InOrder /\ RecvIsPrefix)'
<1>0. /\ read_state = "got" /\ read_state' = "loop"
      /\ UNCHANGED <<layout, sent, payload, taken, buff, current_index, next_byte>>
  BY DEF HandleByte, HandlePlain, HandleEscape, HandleEscaped, handled, historyVars
<1>1. PICK p \in Nat : p = Pos
  BY <1>0, GotByte
<1>2. /\ p + 1 \in 1..Len(layout) /\ p + 1 = taken - Len(buff) + current_index
      /\ next_byte = layout[p + 1].word
      /\ StepOK(At(p), layout[p + 1])
      /\ At(p) \in LayoutEntry /\ layout[p + 1] \in LayoutEntry
  BY <1>0, <1>1, GotByte, Zenon
<1>3. /\ At(p).msgs = Len(delivered) /\ At(p).len = Len(recv_msg)
      /\ At(p).esc = next_is_escape
  BY <1>0, <1>1, Zenon DEF DecodeOK
<1>4. PICK b \in LayoutEntry : b = layout[p + 1]
  BY <1>2
<1>5. At(Pos)' = b
  <2>1. Pos' = p + 1
    BY <1>0, <1>2 DEF Pos
  <2>2. p + 1 # 0
    OBVIOUS
  <2> QED BY <1>0, <1>4, <2>1, <2>2, Zenon DEF At
<1>6. PICK a \in LayoutEntry : a = At(p)
  BY <1>2
<1>7. /\ a.msgs = Len(delivered) /\ a.len = Len(recv_msg) /\ a.esc = next_is_escape
      /\ b.word = next_byte /\ StepOK(a, b)
  BY <1>2, <1>3, <1>4, <1>6, Zenon
<1>8. /\ recv_msg \in Seq(net_word) /\ delivered \in Seq(Seq(net_word))
      /\ sent \in Seq(Seq(net_word)) /\ next_is_escape \in BOOLEAN
  BY DEF TypeOK, ReceiverTypeOK, HistoryTypeOK
<1>9. Text(Len(delivered) + 1)' = Text(Len(delivered') + 1)
  BY <1>0 DEF Text
<1>10. PICK d \in Nat : d = Len(delivered)
  BY <1>8
<1>11. PICK l \in Nat : l = Len(recv_msg)
  BY <1>8
<1>12. /\ l <= Len(Text(d + 1))
       /\ \A i \in 1..l : recv_msg[i] = Text(d + 1)[i]
  BY <1>10, <1>11, Zenon DEF RecvIsPrefix
\* One more byte is right, if layout says that it is the next of the message.
<1>13. ASSUME NEW v, recv_msg' = Append(recv_msg, v), UNCHANGED delivered,
              ~next_is_escape', ~b.esc, Takes(a, b, v)
       PROVE  (DecodeOK /\ InOrder /\ RecvIsPrefix)'
  <2>1. /\ b.msgs = d /\ b.len = l + 1 /\ l + 1 <= Len(Text(d + 1))
        /\ Text(d + 1)[l + 1] = v
    BY <1>7, <1>10, <1>11, <1>13 DEF Takes
  <2>2. /\ Len(recv_msg') = l + 1 /\ recv_msg'[l + 1] = v
        /\ \A i \in 1..l : recv_msg'[i] = recv_msg[i]
    BY <1>8, <1>11, <1>13
  <2>3. Text(Len(delivered) + 1)' = Text(d + 1)
    BY <1>9, <1>10, <1>13, Zenon
  <2>4. \A i \in 1..l + 1 : i \in 1..l \/ i = l + 1
    OBVIOUS
  <2>5. \A i \in 1..l + 1 : recv_msg'[i] = Text(d + 1)[i]
    BY <1>12, <2>1, <2>2, <2>4, Zenon
  <2>6. RecvIsPrefix'
    BY <2>1, <2>2, <2>3, <2>5, Zenon DEF RecvIsPrefix
  <2>7. DecodeOK'
    <3>1. b.esc = next_is_escape'
      BY <1>13 DEF TypeOK, ReceiverTypeOK, LayoutEntry
    <3>2. b.msgs = Len(delivered') /\ b.len = Len(recv_msg')
      BY <1>10, <1>13, <2>1, <2>2
    <3> QED BY <1>0, <1>5, <3>1, <3>2 DEF DecodeOK
  <2>8. InOrder'
    BY <1>0, <1>13 DEF InOrder
  <2> QED BY <2>6, <2>7, <2>8
<1>14. CASE HandlePlain
  <2>1. /\ next_byte # escape_val /\ ~next_is_escape
        /\ recv_msg' = Append(recv_msg, next_byte)
        /\ UNCHANGED <<next_is_escape, delivered>>
    BY <1>14 DEF HandlePlain
  <2>2. ~b.esc /\ Takes(a, b, next_byte)
    BY <1>7, <2>1, Zenon DEF StepOK
  <2> QED BY <1>13, <2>1, <2>2
<1>15. CASE HandleEscape
  <2>1. /\ next_byte = escape_val /\ ~next_is_escape /\ next_is_escape' = TRUE
        /\ UNCHANGED <<recv_msg, delivered>>
    BY <1>15 DEF HandleEscape
  <2>2. b.esc /\ b.msgs = a.msgs /\ b.len = a.len
    BY <1>7, <2>1, Zenon DEF StepOK
  <2>3. DecodeOK'
    <3>1. b.esc = TRUE
      BY <2>2 DEF LayoutEntry
    <3> QED BY <1>0, <1>5, <1>7, <2>1, <2>2, <3>1, Zenon DEF DecodeOK
  <2>4. InOrder'
    BY <1>0, <2>1 DEF InOrder
  <2>5. RecvIsPrefix'
    <3>1. Text(Len(delivered) + 1)' = Text(Len(delivered) + 1)
      BY <1>9, <2>1, Zenon
    <3> QED BY <2>1, <3>1, Zenon DEF RecvIsPrefix
  <2> QED BY <2>3, <2>4, <2>5
<1>16. CASE HandleEscaped
  <2>1. next_is_escape /\ next_is_escape' = FALSE
    BY <1>16 DEF HandleEscaped
  <2>2. \/ next_byte = msg_origi_char /\ ~b.esc /\ Takes(a, b, escape_val)
        \/ /\ next_byte = msg_end_escaped /\ ~b.esc /\ b.msgs = a.msgs + 1
           /\ b.msgs <= Len(sent) /\ b.len = 0 /\ a.len = Len(sent[b.msgs])
    BY <1>7, <2>1, Zenon DEF StepOK
  <2>3. msg_origi_char # msg_end_escaped
    BY DEF msg_origi_char, msg_end_escaped
  <2>4. CASE next_byte = msg_origi_char
    <3>1. recv_msg' = Append(recv_msg, escape_val) /\ UNCHANGED delivered
      BY <1>16, <2>3, <2>4 DEF HandleEscaped
    <3> QED BY <1>13, <2>1, <2>2, <2>3, <2>4, <3>1
  <2>5. CASE next_byte = msg_end_escaped
    <3>1. delivered' = Append(delivered, recv_msg) /\ recv_msg' = <<>>
      BY <1>16, <2>3, <2>5 DEF HandleEscaped
    <3>2. /\ ~b.esc /\ b.msgs = d + 1 /\ d + 1 <= Len(sent) /\ b.len = 0
          /\ l = Len(sent[d + 1])
      BY <1>7, <1>10, <1>11, <2>2, <2>3, <2>5
    <3>3. Text(d + 1) = sent[d + 1]
      BY <3>2 DEF Text
    <3>4. recv_msg = sent[d + 1]
      <4>1. sent[d + 1] \in Seq(net_word)
        BY <1>8, <3>2
      <4>2. \A i \in 1..l : recv_msg[i] = sent[d + 1][i]
        BY <1>12, <3>3, Zenon
      <4> QED BY <1>8, <1>11, <3>2, <4>1, <4>2, SeqEqual
    <3>5. /\ Len(delivered') = d + 1 /\ delivered'[d + 1] = recv_msg
          /\ \A i \in 1..d : delivered'[i] = delivered[i]
      BY <1>8, <1>10, <3>1
    <3>6. Len(recv_msg') = 0
      BY <3>1
    <3>7. InOrder'
      <4>1. \A k \in 1..d + 1 : k \in 1..d \/ k = d + 1
        OBVIOUS
      <4>2. \A k \in 1..d : delivered[k] = sent[k]
        BY <1>10, Zenon DEF InOrder
      <4>3. \A k \in 1..d + 1 : delivered'[k] = sent'[k]
        BY <1>0, <3>4, <3>5, <4>1, <4>2, Zenon
      <4> QED BY <1>0, <3>2, <3>5, <4>3, Zenon DEF InOrder
    <3>8. RecvIsPrefix'
      <4>1. Len(Text(Len(delivered) + 1)') \in Nat
        BY <1>0, <1>8, <3>5 DEF Text, TypeOK, HistoryTypeOK
      <4>2. \A i \in 1..0 : FALSE
        OBVIOUS
      <4>3. 0 <= Len(Text(Len(delivered) + 1)')
        BY <4>1
      <4> QED BY <3>6, <4>2, <4>3, Zenon DEF RecvIsPrefix
    <3>9. DecodeOK'
      <4>1. b.esc = FALSE
        BY <3>2 DEF LayoutEntry
      <4> QED BY <1>0, <1>5, <2>1, <3>2, <3>5, <3>6, <4>1 DEF DecodeOK
    <3> QED BY <3>7, <3>8, <3>9
  <2> QED BY <2>2, <2>4, <2>5
<1> QED BY <1>14, <1>15, <1>16 DEF HandleByte


LEMMA ReaderStep ==
  ASSUME IInv, TypeOK', [Next]_vars
  PROVE  (DecodeOK /\ InOrder /\ RecvIsPrefix)'
<1>0. /\ TypeOK /\ LayoutOK /\ StreamOK /\ BuffOK /\ RewindOK /\ DecodeOK
      /\ InOrder /\ RecvIsPrefix
  BY DEF IInv
<1>1. /\ taken \in Nat /\ Len(buff) \in Nat /\ current_index \in Nat
      /\ current_index <= Len(buff) /\ con_open \in BOOLEAN
  BY DEF IInv, TypeOK, StreamTypeOK, ReceiverTypeOK
<1>2. CASE UNCHANGED <<taken, receiverVars>>
  <2>1. Pos' = Pos
    BY <1>2 DEF Pos, receiverVars
  <2>2. con_open \/ read_state = "got" => read_state # "done"
    BY <1>0 DEF DecodeOK
  <2> QED BY <1>0, <1>2, <2>1, <2>2, ReaderStable DEF receiverVars
<1>3. ASSUME NEW n \in 1..BuffSize, handle_read(n)
      PROVE  (DecodeOK /\ InOrder /\ RecvIsPrefix)'
  <2>1. n \in Nat /\ n > 0
    BY BoundAssumption
  <2>2. /\ read_state = "armed" /\ read_state' = "loop" /\ taken' = taken + n
        /\ buff' = SubSeq(stream, taken + 1, taken + n) /\ taken + n <= Len(stream)
        /\ UNCHANGED <<con_open, current_index, next_is_escape, recv_msg, delivered>>
    BY <1>3 DEF handle_read
  <2>3. Len(buff') = n
    <3>1. stream \in Seq(net_word)
      BY <1>0 DEF TypeOK, StreamTypeOK
    <3> QED BY <1>1, <2>1, <2>2, <3>1
  <2>4. current_index = 0
    BY <1>0, <2>2 DEF RewindOK
  <2>5. Pos' = Pos
    BY <1>1, <2>1, <2>2, <2>3, <2>4 DEF Pos
  <2> QED BY <1>0, <2>2, <2>5, ReaderStable
<1>4. CASE handle_read_error
  <2>1. /\ con_open' = FALSE /\ read_state' = "done"
        /\ UNCHANGED <<next_is_escape, recv_msg, delivered>>
    BY <1>4 DEF handle_read_error
  <2> QED BY <1>0, <2>1, ReaderStable
<1>5. CASE get_next_byte
  <2>1. /\ read_state = "loop" /\ read_state' = "got" /\ con_open
        /\ current_index' = current_index + 1
        /\ UNCHANGED <<taken, buff, con_open, next_is_escape, recv_msg, delivered>>
    BY <1>5 DEF get_next_byte
  <2>2. Pos' = Pos
    BY <1>1, <2>1 DEF Pos
  <2> QED BY <1>0, <2>1, <2>2, ReaderStable
<1>6. CASE LoopExit
  <2>1. /\ read_state = "loop" /\ read_state' = "exit"
        /\ ~con_open \/ current_index >= Len(buff)
        /\ UNCHANGED <<taken, buff, con_open, next_is_escape, recv_msg, delivered>>
    BY <1>6 DEF LoopExit, msg_size
  <2>2. con_open => Pos' = Pos
    BY <1>1, <2>1 DEF Pos
  <2> QED BY <1>0, <2>1, <2>2, ReaderStable
<1>7. CASE schedule_read_handler
  <2>1. /\ read_state = "exit" /\ read_state' = IF con_open THEN "armed" ELSE "done"
        /\ UNCHANGED <<taken, buff, con_open, next_is_escape, recv_msg, delivered>>
    BY <1>7 DEF schedule_read_handler
  <2>2. Pos' = Pos
    BY <2>1 DEF Pos
  <2> QED BY <1>0, <2>1, <2>2, ReaderStable
<1>8. CASE HandleByte
  BY <1>0, <1>8, HandleByteStep
<1>9. CASE close_con
  <2>1. /\ con_open' = FALSE
        /\ UNCHANGED <<taken, read_state, buff, current_index, next_is_escape,
                       recv_msg, delivered>>
    BY <1>9 DEF close_con
  <2>2. Pos' = Pos
    BY <2>1 DEF Pos
  <2> QED BY <1>0, <2>1, <2>2, ReaderStable
<1> QED BY <1>2, <1>3, <1>4, <1>5, <1>6, <1>7, <1>8, <1>9
        DEF Next, Sender, Receiver, vars, write_byte, end_msg, send_msg, WriteSome,
            ContinueWrite, handle_write, handle_write_error, close_sender

-----------------------------------------------------------------------------
(* The theorems *)

LEMMA InvInit == Init => IInv
<1> SUFFICES ASSUME Init PROVE IInv
  OBVIOUS
<1>1. TypeOK
  BY TypeInit
<1>2. LayoutOK
  BY LayoutInit
<1>3. RewindOK
  BY RewindInit
<1>4. /\ Len(stream) = 0 /\ Len(layout) = 0 /\ Len(msg) = 0 /\ Len(buff) = 0
      /\ Len(write_ops) = 0 /\ Len(send_strand) = 0
      /\ Len(delivered) = 0 /\ Len(recv_msg) = 0 /\ Len(sent) = 0
  BY DEF Init
<1>5. StreamOK /\ OneWrite
  BY <1>4 DEF StreamOK, OneWrite
<1>6. SenderOK
  <2>1. Rest = <<>>
    BY DEF Init, Rest
  <2>2. Len(Rest) = 0
    BY <2>1
  <2> QED BY <1>4, <2>2 DEF SenderOK
<1>7. BuffOK
  BY DEF Init, BuffOK
<1>8. DecodeOK
  <2>1. Pos = 0
    BY DEF Init, Pos
  <2>2. At(Pos) = Entry(0, 0, 0, FALSE) /\ read_state = "armed"
    BY <2>1 DEF At, Init
  <2>3. next_is_escape = FALSE
    BY DEF Init
  <2>4. /\ At(Pos).msgs = 0 /\ At(Pos).len = 0 /\ At(Pos).esc = FALSE
        /\ read_state # "done"
    BY <2>2 DEF Entry
  <2> QED BY <1>4, <2>3, <2>4, Zenon DEF DecodeOK
<1>9. InOrder
  BY <1>4 DEF InOrder
<1>10. RecvIsPrefix
  <2>1. Text(Len(delivered) + 1) = <<>>
    BY <1>4 DEF Text, Init
  <2> QED BY <1>4, <2>1 DEF RecvIsPrefix
<1> QED BY <1>1, <1>2, <1>3, <1>5, <1>6, <1>7, <1>8, <1>9, <1>10 DEF IInv

LEMMA InvStep ==
  ASSUME OneOutstanding, IInv, [Next]_vars PROVE IInv'
<1>0. /\ TypeOK /\ LayoutOK /\ StreamOK /\ OneWrite /\ SenderOK
      /\ BuffOK /\ RewindOK /\ DecodeOK
  BY DEF IInv
<1>1. TypeOK'
  BY <1>0, TypeStep
<1>2. LayoutOK' /\ StreamOK' /\ OneWrite'
  BY <1>0, <1>1, LayoutStep, StreamStep, OneWriteStep
<1>3. SenderOK'
  BY <1>0, <1>1, <1>2, SenderStep
<1>4. BuffOK' /\ RewindOK'
  BY <1>0, <1>1, BuffStep, RewindStep
<1>5. DecodeOK' /\ InOrder' /\ RecvIsPrefix'
  BY <1>1, ReaderStep
<1> QED BY <1>1, <1>2, <1>3, <1>4, <1>5 DEF IInv

\* The invariant that the theorems below are read off.
THEOREM Invariant ==
  ASSUME OneOutstanding PROVE Spec => []IInv
<1>1. IInv /\ [Next]_vars => IInv'
  BY InvStep
<1> QED BY InvInit, <1>1, PTL DEF Spec

\* However TCP cuts the bytes, and whenever either side closes, the receiver
\* is given the messages the sender ended: whole, in order and once each.
THEOREM MessagesInOrder ==
  ASSUME OneOutstanding PROVE Spec => []InOrder
<1>1. IInv => InOrder
  BY DEF IInv
<1> QED BY <1>1, Invariant, PTL

\* The message being rebuilt is never a mixture of two.
THEOREM PartsArePrefixes ==
  ASSUME OneOutstanding PROVE Spec => []RecvIsPrefix
<1>1. IInv => RecvIsPrefix
  BY DEF IInv
<1> QED BY <1>1, Invariant, PTL

\* The default branch of the escape switch of handle_read is dead code.
THEOREM EscapesAreKnown ==
  ASSUME OneOutstanding PROVE Spec => []NoUnknownEscape
<1>1. ASSUME IInv, read_state = "got", next_is_escape
      PROVE  next_byte \in {msg_origi_char, msg_end_escaped}
  <2>1. /\ StepOK(At(Pos), layout[Pos + 1])
        /\ next_byte = layout[Pos + 1].word
        /\ At(Pos).esc = next_is_escape
    BY <1>1, GotByte DEF IInv, DecodeOK
  <2> QED BY <1>1, <2>1, Zenon DEF StepOK
<1>2. IInv => NoUnknownEscape
  BY <1>1 DEF NoUnknownEscape
<1> QED BY <1>2, Invariant, PTL

LEMMA RefineInit == Init => ML!Init
BY DEF Init, ML!Init

LEMMA RefineStep ==
  ASSUME IInv, IInv', [Next]_vars PROVE [ML!Next]_ML!vars
<1> DEFINE link == IF con_open THEN "open"
                   ELSE IF read_state = "got" THEN "closing" ELSE "closed"
<1>0. /\ sent \in Seq(Seq(net_word)) /\ sent' \in Seq(Seq(net_word))
      /\ delivered \in Seq(Seq(net_word)) /\ con_open \in BOOLEAN
      /\ recv_msg \in Seq(net_word) /\ payload \in Seq(net_word)
  BY DEF IInv, TypeOK, ReceiverTypeOK, HistoryTypeOK
<1>1. CASE UNCHANGED <<sent, delivered, con_open, read_state>>
  BY <1>1 DEF ML!vars
<1>2. CASE end_msg
  <2>1. sent' = Append(sent, payload) /\ UNCHANGED <<delivered, con_open, read_state>>
    BY <1>2 DEF end_msg, receiverVars
  <2>2. Len(sent') = Len(sent) + 1 /\ \A i \in 1..Len(sent) : sent'[i] = sent[i]
    BY <1>0, <2>1
  <2>3. ML!Send
    BY <1>0, <2>1, <2>2 DEF ML!Send
  <2> QED BY <2>3 DEF ML!Next
\* The reader goes on, or stops, and delivers nothing.
<1>3. ASSUME UNCHANGED <<sent, delivered>>,
             \/ link' = link
             \/ link = "open"
             \/ link = "closing" /\ link' = "closed"
      PROVE  [ML!Next]_ML!vars
  <2>1. link' \in {"open", "closing", "closed"}
    OBVIOUS
  <2>2. CASE link' = link
    BY <1>3, <2>2 DEF ML!vars
  <2>3. CASE link = "open" /\ link' # "open"
    <3>1. ML!Close
      BY <1>3, <2>1, <2>3 DEF ML!Close
    <3> QED BY <3>1 DEF ML!Next
  <2>4. CASE link = "closing" /\ link' = "closed"
    <3>1. ML!Close
      BY <1>3, <2>4 DEF ML!Close
    <3> QED BY <3>1 DEF ML!Next
  <2> QED BY <1>3, <2>2, <2>3, <2>4
<1>4. CASE \/ handle_read_error \/ get_next_byte \/ LoopExit \/ close_con
           \/ schedule_read_handler
           \/ \E n \in 1..BuffSize : handle_read(n)
  <2>1. UNCHANGED <<sent, delivered>>
    BY <1>4 DEF handle_read_error, get_next_byte, LoopExit, close_con,
         schedule_read_handler, handle_read, historyVars
  <2>2. link' = link \/ link = "open"
    BY <1>4 DEF handle_read_error, get_next_byte, LoopExit, close_con,
         schedule_read_handler, handle_read
  <2> QED BY <1>3, <2>1, <2>2
<1>5. CASE HandleByte
  <2>1. /\ read_state = "got" /\ read_state' = "loop"
        /\ UNCHANGED <<sent, con_open>>
    BY <1>5 DEF HandleByte, HandlePlain, HandleEscape, HandleEscaped, handled,
         historyVars
  <2>2. CASE UNCHANGED delivered
    BY <1>3, <2>1, <2>2
  <2>3. CASE delivered' = Append(delivered, recv_msg)
    <3>1. /\ Len(delivered') = Len(delivered) + 1
          /\ delivered'[Len(delivered) + 1] = recv_msg
      BY <1>0, <2>3
    <3>2. /\ Len(delivered) < Len(sent)
          /\ recv_msg = sent[Len(delivered) + 1]
      BY <1>0, <2>1, <3>1 DEF IInv, InOrder
    <3>3. ML!Deliver
      BY <2>1, <2>3, <3>2 DEF ML!Deliver
    <3> QED BY <3>3 DEF ML!Next
  <2> QED BY <1>5, <2>2, <2>3
          DEF HandleByte, HandlePlain, HandleEscape, HandleEscaped
<1> QED BY <1>1, <1>2, <1>4, <1>5
        DEF Next, Sender, Receiver, vars, receiverVars, historyVars, write_byte,
            send_msg, WriteSome, ContinueWrite, handle_write,
            handle_write_error, close_sender

\* The framing, partial writes and reads, and closing implement MessageLayer.
THEOREM Refinement ==
  ASSUME OneOutstanding PROVE Spec => ImplementsMessageLayer
<1>1. IInv /\ IInv' /\ [Next]_vars => [ML!Next]_ML!vars
  BY RefineStep
<1> QED BY RefineInit, <1>1, Invariant, PTL
        DEF Spec, ImplementsMessageLayer, ML!Spec
=============================================================================
