--------------------------- MODULE Serialization ----------------------------
(***************************************************************************)
(* What msg_writer::write_msg puts in a message and msg_reader::read_msg   *)
(* takes out of it: write_into and read_into for scalars, std::array,      *)
(* pairs, strings and vectors.                                             *)
(*                                                                         *)
(* A message is its payload here, without the framing that NetCon has.     *)
(* The value of a scalar is the sequence of its bytes, most significant    *)
(* first, so that a little-endian host has the reversed sequence in        *)
(* memory.  Reading hosts are little-endian.  A host whose floats and      *)
(* doubles are not as IEC 559 says neither writes nor reads them.          *)
(*                                                                         *)
(* Nothing in the code keeps a reader inside the message.  A read_into     *)
(* that would use bytes behind its end is undefined: overrun says that     *)
(* there was one, and nothing is read after it.                            *)
(***************************************************************************)
EXTENDS Integers, Sequences, SequencesExt

CONSTANTS
  Fields,           \* what may be written, a set of Scalar, Fixed and Array
  Behind,           \* the bytes that may lie behind a float in memory
  Initial,          \* how many elements an array may hold before
                    \* it is read
  MaxFields         \* bound: fields of a message

sizeof == [char |-> 1, bool |-> 1, uint8 |-> 1, uint16 |-> 2, uint32 |-> 4,
           uint64 |-> 8, float |-> 4, double |-> 8]

\* The value of a field is a sequence of elements: one, for a scalar; as many
\* as the type says, for a std::array or a pair of two values of one type; as
\* many as there are, for a vector or string.
Scalar(t, v) == [kind |-> "scalar", of |-> t, val |-> <<v>>]
Fixed(t, vs) == [kind |-> "fixed", of |-> t, val |-> vs]
Array(t, vs) == [kind |-> "array", of |-> t, val |-> vs]

Floating == {"float", "double"}

net_word == 0..255

\* The number of elements of a vector or string has 32 bits.
FitsSize(n) == n \div 16777216 < 256

ASSUME FieldAssumption ==
  \A f \in Fields :
    /\ f.kind \in {"scalar", "fixed", "array"}
    /\ f.of \in DOMAIN sizeof
    /\ f.val \in Seq(Seq(net_word))
    /\ \A i \in 1..Len(f.val) : Len(f.val[i]) = sizeof[f.of]
    /\ f.kind = "array" => FitsSize(Len(f.val))

ASSUME BehindAssumption ==
  \A behind \in Behind : behind \in Seq(net_word) /\ Len(behind) = 4

ASSUME InitialAssumption == Initial \subseteq Nat

VARIABLES
  big_endian,       \* is the writing host big-endian?
  writer_iec559,    \* are its floats and doubles as IEC 559 says?
  reader_iec559,    \* are those of the reading host?
  data,             \* the bytes of the message
  wrote,            \* the fields written
  reading,          \* has the message arrived at the reader?
  iter,             \* how many bytes the reader has passed
  got,              \* what was read: how many elements were there before,
                    \* and what there is now
  overrun           \* has a read_into left the message?

hosts == <<big_endian, writer_iec559, reader_iec559>>
vars == <<hosts, data, wrote, reading, iter, got, overrun>>

Init ==
  /\ big_endian \in BOOLEAN
  /\ writer_iec559 \in BOOLEAN /\ reader_iec559 \in BOOLEAN
  /\ data = <<>> /\ wrote = <<>>
  /\ reading = FALSE /\ iter = 0 /\ got = <<>> /\ overrun = FALSE

-----------------------------------------------------------------------------
(* Writing *)

\* An object in memory, lowest address first.
Object(val) == IF big_endian THEN val ELSE Reverse(val)

\* Mutant: the bytes are sent as they lie in memory.
write_into_byte_array_host(object) == object

write_into_byte_array(object) ==
  IF big_endian THEN object ELSE Reverse(object)

\* A float is written with sizeof(double) bytes, its own four and the four
\* behind it.
WriteScalar(t, val, behind) ==
  IF t \in Floating /\ ~writer_iec559 THEN <<>>
  ELSE write_into_byte_array(
         IF t = "float" THEN Object(val) \o behind ELSE Object(val))

\* A message_array_size: 32 bits.
Word32(n) ==
  <<(n \div 16777216) % 256, (n \div 65536) % 256, (n \div 256) % 256,
    n % 256>>

\* The byte sequences of ws, all of one length, one after the other.
Elementwise(ws) ==
  LET n == IF ws = <<>> THEN 0 ELSE Len(ws[1])
  IN  [j \in 1..n * Len(ws) |-> ws[((j - 1) \div n) + 1][((j - 1) % n) + 1]]

WriteElements(f, behind) ==
  Elementwise([i \in DOMAIN f.val |-> WriteScalar(f.of, f.val[i], behind)])

\* Mutant: the size counts bytes, not elements.
write_into_array_bytes(f, behind) ==
  WriteScalar("uint32", Word32(sizeof[f.of] * Len(f.val)), behind)
    \o WriteElements(f, behind)

write_into_array(f, behind) ==
  WriteScalar("uint32", Word32(Len(f.val)), behind) \o WriteElements(f, behind)

\* write_msg of one field.
write_into(f, behind) ==
  /\ ~reading
  /\ Len(wrote) < MaxFields
  /\ wrote' = Append(wrote, f)
  /\ data' = data \o (IF f.kind = "array" THEN write_into_array(f, behind)
                      ELSE WriteElements(f, behind))
  /\ UNCHANGED <<hosts, reading, iter, got, overrun>>

\* The message is sent and received: make_reader.
make_reader ==
  /\ ~reading
  /\ reading' = TRUE
  /\ UNCHANGED <<hosts, data, wrote, iter, got, overrun>>

-----------------------------------------------------------------------------
(* Reading, field by field, with the types the writer used *)

Next_field == wrote[Len(got) + 1]

\* net_to_host_endian: the value of the n bytes from offset at.
ValueAt(at, n) == SubSeq(data, at + 1, at + n)

\* The number in four bytes.
Number(b) == b[1] * 16777216 + b[2] * 65536 + b[3] * 256 + b[4]

\* What is in a scalar before anything is read into it.
Unset(t) == [j \in 1..sizeof[t] |-> 0]

\* How far the reader moves for a scalar.
Read_size(t) == IF t \in Floating /\ ~reader_iec559 THEN 0 ELSE sizeof[t]

\* The scalar at offset at.
ReadScalar(t, at) ==
  IF Read_size(t) = 0 THEN Unset(t) ELSE ValueAt(at, sizeof[t])

\* How many elements follow: the type says, or the size in front.
Count(f) == IF f.kind = "array" THEN Number(ValueAt(iter, 4)) ELSE Len(f.val)
Head_size(f) == IF f.kind = "array" THEN 4 ELSE 0

FieldSize(f) == Head_size(f) + Count(f) * Read_size(f.of)

\* The bytes read_into is about to use are those of the message.
InBounds(f) ==
  /\ iter + Head_size(f) <= Len(data)
  /\ iter + FieldSize(f) <= Len(data)

Elements(f) ==
  [i \in 1..Count(f) |->
     ReadScalar(f.of, iter + Head_size(f) + (i - 1) * Read_size(f.of))]

\* What a vector or a string of n elements holds before it is read into.
Held(f, n) == [i \in 1..n |-> Unset(f.of)]

\* read_into of the next field.  A vector is appended to, and so is a string.
read_into(n) ==
  /\ reading /\ ~overrun
  /\ Len(got) < Len(wrote)
  /\ n # 0 => Next_field.kind = "array"
  /\ \/ /\ InBounds(Next_field)
        /\ got' = Append(got,
             [held |-> n, val |-> Held(Next_field, n) \o Elements(Next_field)])
        /\ iter' = iter + FieldSize(Next_field)
        /\ UNCHANGED overrun
     \/ /\ ~InBounds(Next_field)
        /\ overrun' = TRUE
        /\ UNCHANGED <<iter, got>>
  /\ UNCHANGED <<hosts, data, wrote, reading>>

Next ==
  \/ \E f \in Fields, behind \in Behind : write_into(f, behind)
  \/ make_reader
  \/ \E n \in Initial : read_into(n)

Spec == Init /\ [][Next]_vars

-----------------------------------------------------------------------------
(* Properties *)

\* Every variable has its type.
TypeOK ==
  /\ big_endian \in BOOLEAN
  /\ writer_iec559 \in BOOLEAN /\ reader_iec559 \in BOOLEAN
  /\ data \in Seq(net_word)
  /\ wrote \in Seq(Fields)
  /\ reading \in BOOLEAN /\ overrun \in BOOLEAN
  /\ iter \in Nat
  /\ got \in Seq([held : Initial, val : Seq(Seq(net_word))])
  /\ Len(got) <= Len(wrote)

\* Both hosts send and take such a field.
Carried(f) == f.of \in Floating => writer_iec559 /\ reader_iec559

\* What is read is what was written, field by field, whichever byte order the
\* writing host has, and behind what a vector or string held already; up to
\* the first field that one of the hosts skips.
RoundTrip ==
  \A i \in 1..Len(got) :
    (\A j \in 1..i : Carried(wrote[j])) =>
      got[i].val = Held(wrote[i], got[i].held) \o wrote[i].val

\* A reader that reads what was written never uses a byte behind the message,
\* and ends at its end, unless one of the hosts skips a field.
WholeMessage ==
  (\A j \in 1..Len(wrote) : Carried(wrote[j])) =>
    /\ ~overrun
    /\ reading /\ Len(got) = Len(wrote) => iter = Len(data)
=============================================================================
