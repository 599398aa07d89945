------------------------ MODULE Serialization_proofs ------------------------
(***************************************************************************)
(* What is written is read: for any fields, any number of them, either     *)
(* byte order of the writing host, and any vector or string to read into,  *)
(* up to the first field that is not plain: a float, which the code does   *)
(* not write as it is (SerializationFloat.cfg), or a double that one of    *)
(* the hosts skips.                                                        *)
(*                                                                         *)
(* The argument is that a plain field lies in the message at an offset     *)
(* that only the sizes of the fields before it decide.  MessageInv says    *)
(* so: there are offsets, off[i] the end of field i, such that the bytes   *)
(* of every field with plain ones before it lie from off[i - 1] on, and    *)
(* the reader is at the end of the last field it has read.  Writing        *)
(* appends, and leaves the bytes of earlier fields alone; reading a field  *)
(* finds its size and its elements where the offsets say, inside the       *)
(* message, so that a reader that has left it has met a field that was     *)
(* not plain.                                                              *)
(***************************************************************************)
EXTENDS Serialization, SequenceTheorems, TLAPS

-----------------------------------------------------------------------------
(* The sizes and the byte order *)

Sizes == {1, 2, 4, 8}

LEMMA SizeOfScalar == \A t \in DOMAIN sizeof : sizeof[t] \in Sizes
BY DEF sizeof, Sizes

LEMMA ReverseType ==
  ASSUME NEW S, NEW s \in Seq(S)
  PROVE  Reverse(s) \in Seq(S) /\ Len(Reverse(s)) = Len(s)
<1>1. Len(s) \in Nat /\ Reverse(s) = [i \in 1..Len(s) |-> s[(Len(s) - i) + 1]]
  BY DEF Reverse
<1> QED BY <1>1

\* Turning the bytes around twice changes nothing.
LEMMA ReverseTwice ==
  ASSUME NEW S, NEW s \in Seq(S)
  PROVE  Reverse(Reverse(s)) = s
<1> DEFINE r == Reverse(s)
<1>1. Len(s) \in Nat /\ r = [i \in 1..Len(s) |-> s[(Len(s) - i) + 1]]
  BY DEF Reverse
<1>2. r \in Seq(S) /\ Len(r) = Len(s)
  BY <1>1
<1> HIDE DEF r
<1>3. Reverse(r) = [i \in 1..Len(s) |-> r[(Len(s) - i) + 1]]
  BY <1>2 DEF Reverse
<1>4. \A i \in 1..Len(s) : r[(Len(s) - i) + 1] = s[i]
  BY <1>1
<1>5. Reverse(r) = [i \in 1..Len(s) |-> s[i]]
  BY <1>3, <1>4
<1> QED BY <1>5 DEF r

\* A scalar goes out as its bytes, whichever order the host has; a float with
\* four bytes more.
LEMMA Joined ==
  ASSUME NEW S, NEW s \in Seq(S), NEW t \in Seq(S)
  PROVE  s \o t \in Seq(S) /\ Len(s \o t) = Len(s) + Len(t)
OBVIOUS

\* How many bytes go out for a scalar.
Wire(t) ==
  IF t \in Floating /\ ~writer_iec559 THEN 0
  ELSE IF t = "float" THEN 8 ELSE sizeof[t]

\* The types whose scalars go out as they are, and are taken.
Exact(t) == t # "float" /\ (t \in Floating => writer_iec559 /\ reader_iec559)

LEMMA ScalarBytes ==
  ASSUME TypeOK, NEW t, NEW val \in Seq(net_word), NEW behind \in Seq(net_word)
  PROVE  LET w == WriteScalar(t, val, behind)
         IN  /\ w \in Seq(net_word)
             /\ IF t \in Floating /\ ~writer_iec559 THEN w = <<>>
                ELSE IF t = "float" THEN Len(w) = Len(val) + Len(behind)
                ELSE w = val
<1> USE DEF write_into_byte_array, Object
<1>1. Reverse(val) \in Seq(net_word) /\ Len(Reverse(val)) = Len(val)
  BY ReverseType
<1>2. CASE t \in Floating /\ ~writer_iec559
  <2>1. WriteScalar(t, val, behind) = <<>>
    BY <1>2 DEF WriteScalar
  <2> QED BY <1>2, <2>1
<1>3. CASE t = "float" /\ writer_iec559
  <2> DEFINE b == Object(val)
             o == b \o behind
  <2>1. b \in Seq(net_word) /\ Len(b) = Len(val)
    BY <1>1
  <2> HIDE DEF b
  <2>2. o \in Seq(net_word) /\ Len(o) = Len(val) + Len(behind)
    BY <2>1, Joined
  <2> HIDE DEF o
  <2>3. Reverse(o) \in Seq(net_word) /\ Len(Reverse(o)) = Len(o)
    BY <2>2, ReverseType
  <2>4. WriteScalar(t, val, behind) = IF big_endian THEN o ELSE Reverse(o)
    BY <1>3 DEF o, b, WriteScalar
  <2> QED BY <1>3, <2>2, <2>3, <2>4
<1>4. CASE t # "float" /\ (t \in Floating => writer_iec559)
  <2>1. WriteScalar(t, val, behind) = val
    BY <1>4, ReverseTwice DEF WriteScalar
  <2> QED BY <1>4, <2>1
<1> QED BY <1>2, <1>3, <1>4 DEF Floating

-----------------------------------------------------------------------------
(* The size in front of a vector or string *)

LEMMA WordBytes ==
  ASSUME NEW n \in Nat
  PROVE  Word32(n) \in Seq(net_word) /\ Len(Word32(n)) = 4
<1>1. \A m \in Nat : m % 256 \in net_word
  BY SMT DEF net_word
<1>2. n \div 16777216 \in Nat /\ n \div 65536 \in Nat /\ n \div 256 \in Nat
  BY SMT
<1> QED BY <1>1, <1>2, SMT DEF Word32

\* The reader gets the number that was written.
LEMMA WordNumber ==
  ASSUME NEW n \in Nat, FitsSize(n), NEW b,
         \A k \in 1..4 : b[k] = Word32(n)[k]
  PROVE  Number(b) = n
<1> DEFINE x == n \div 256
<1> DEFINE y == x \div 256
<1> DEFINE z == y \div 256
<1>1. n % 256 = n - 256 * x /\ x \in Nat
  BY SMT
<1>2. x % 256 = x - 256 * y /\ y \in Nat
  BY <1>1, SMT
<1>3. y % 256 = y - 256 * z /\ z \in Nat
  BY <1>2, SMT
<1>4. n \div 65536 = y /\ n \div 16777216 = z
  BY SMT
<1>6. /\ b[1] = (n \div 16777216) % 256 /\ b[2] = (n \div 65536) % 256
      /\ b[3] = (n \div 256) % 256 /\ b[4] = n % 256
  BY SMT DEF Word32
<1> HIDE DEF x, y, z
<1>5. z % 256 = z
  BY <1>3, <1>4, SMT DEF FitsSize
<1>7. /\ b[1] = z /\ b[2] = y - 256 * z
      /\ b[3] = x - 256 * y /\ b[4] = n - 256 * x
  BY <1>1, <1>2, <1>3, <1>4, <1>5, <1>6, SMT DEF x
<1> QED BY <1>1, <1>2, <1>3, <1>7, SMT DEF Number

-----------------------------------------------------------------------------
(* Elements that lie one after the other *)

\* Byte j of element e.
At(n, e, j) == (e - 1) * n + j

LEMMA AtBounds ==
  ASSUME NEW n \in Sizes \cup {0}, NEW m \in Nat, NEW e \in 1..m, NEW j \in 1..n
  PROVE  /\ At(n, e, j) \in 1..m * n
         /\ (At(n, e, j) - 1) \div n = e - 1
         /\ (At(n, e, j) - 1) % n = j - 1
<1>0. CASE n = 0
  BY <1>0
<1>1. CASE n = 1
  BY <1>1 DEF At
<1>2. CASE n = 2
  BY <1>2 DEF At
<1>3. CASE n = 4
  BY <1>3 DEF At
<1>4. CASE n = 8
  BY <1>4 DEF At
<1> QED BY <1>0, <1>1, <1>2, <1>3, <1>4 DEF Sizes

LEMMA AtSplit ==
  ASSUME NEW n \in Sizes \cup {0}, NEW m \in Nat, NEW i \in 1..m * n
  PROVE  ((i - 1) \div n) + 1 \in 1..m /\ ((i - 1) % n) + 1 \in 1..n
<1>0. CASE n = 0
  BY <1>0
<1>1. CASE n = 1
  BY <1>1
<1>2. CASE n = 2
  BY <1>2
<1>3. CASE n = 4
  BY <1>3
<1>4. CASE n = 8
  BY <1>4
<1> QED BY <1>0, <1>1, <1>2, <1>3, <1>4 DEF Sizes

LEMMA IsSequence ==
  ASSUME NEW k \in Nat, NEW S, NEW f \in [1..k -> S]
  PROVE  f \in Seq(S) /\ Len(f) = k
OBVIOUS

LEMMA ElementwiseBytes ==
  ASSUME NEW n \in Sizes \cup {0}, NEW ws \in Seq(Seq(net_word)),
         \A e \in 1..Len(ws) : Len(ws[e]) = n
  PROVE  /\ Elementwise(ws) \in Seq(net_word)
         /\ Len(Elementwise(ws)) = Len(ws) * n
         /\ \A e \in 1..Len(ws), j \in 1..n :
              Elementwise(ws)[At(n, e, j)] = ws[e][j]
<1> DEFINE m == Len(ws)
<1>0. m \in Nat /\ n \in Nat /\ m * n \in Nat /\ n * m = m * n
  BY DEF Sizes
<1>1. Elementwise(ws) =
        [j \in 1..m * n |-> ws[((j - 1) \div n) + 1][((j - 1) % n) + 1]]
  <2>1. CASE ws = <<>>
    <3>1. m = 0 /\ m * n = 0 /\ 0 * Len(ws) = 0
      BY <2>1, <1>0
    <3>2. Elementwise(ws) =
        [j \in 1..0 |-> ws[((j - 1) \div 0) + 1][((j - 1) % 0) + 1]]
      BY <2>1, <3>1 DEF Elementwise
    <3> QED BY <3>1, <3>2
  <2>2. CASE ws # <<>>
    <3>1. Len(ws[1]) = n
      BY <2>2
    <3> QED BY <2>2, <3>1, <1>0 DEF Elementwise
  <2> QED BY <2>1, <2>2
<1>2. ASSUME NEW i \in 1..m * n
      PROVE  ws[((i - 1) \div n) + 1][((i - 1) % n) + 1] \in net_word
  <2>1. ((i - 1) \div n) + 1 \in 1..m /\ ((i - 1) % n) + 1 \in 1..n
    BY <1>0, AtSplit
  <2> QED BY <2>1
<1>3. Elementwise(ws) \in [1..m * n -> net_word]
  BY <1>1, <1>2
<1>4. Elementwise(ws) \in Seq(net_word) /\ Len(Elementwise(ws)) = m * n
  BY <1>0, <1>3, IsSequence
<1>5. ASSUME NEW e \in 1..m, NEW j \in 1..n
      PROVE  Elementwise(ws)[At(n, e, j)] = ws[e][j]
  <2>1. /\ At(n, e, j) \in 1..m * n
        /\ (At(n, e, j) - 1) \div n = e - 1 /\ (At(n, e, j) - 1) % n = j - 1
    BY <1>0, AtBounds
  <2>2. (e - 1) + 1 = e /\ (j - 1) + 1 = j
    BY <1>0
  <2> QED BY <1>1, <2>1, <2>2
<1> QED BY <1>4, <1>5

-----------------------------------------------------------------------------
(* The bytes of a field *)

Written(f, behind) ==
  IF f.kind = "array" THEN write_into_array(f, behind)
  ELSE WriteElements(f, behind)

Size(f) == Head_size(f) + Len(f.val) * sizeof[f.of]

Plain(f) == Exact(f.of)

\* Field f lies in the bytes d, behind the first at of them.
Lies(f, at, d) ==
  /\ f.kind = "array" => \A k \in 1..4 : d[at + k] = Word32(Len(f.val))[k]
  /\ \A e \in 1..Len(f.val), j \in 1..sizeof[f.of] :
       d[at + Head_size(f) + At(sizeof[f.of], e, j)] = f.val[e][j]

LEMMA HeadType ==
  ASSUME NEW f
  PROVE  /\ Head_size(f) \in Nat
         /\ IF f.kind = "array" THEN Head_size(f) = 4 ELSE Head_size(f) = 0
BY DEF Head_size

\* Element e of a field, as its type says.
LEMMA ElementType ==
  ASSUME NEW f \in Fields, NEW e \in 1..Len(f.val)
  PROVE  f.val[e] \in Seq(net_word) /\ Len(f.val[e]) = sizeof[f.of]
<1>1. f.val \in Seq(Seq(net_word))
  BY FieldAssumption
<1>2. f.val[e] \in Seq(net_word)
  BY <1>1
<1> QED BY <1>2, FieldAssumption

LEMMA FieldType ==
  ASSUME NEW f \in Fields
  PROVE  /\ f.val \in Seq(Seq(net_word)) /\ Len(f.val) \in Nat
         /\ sizeof[f.of] \in Sizes /\ Sizes \subseteq Nat
         /\ Len(f.val) * sizeof[f.of] \in Nat /\ Size(f) \in Nat
<1>1. /\ f.val \in Seq(Seq(net_word)) /\ Len(f.val) \in Nat
      /\ sizeof[f.of] \in Sizes
  BY FieldAssumption, SizeOfScalar
<1>2. Len(f.val) * sizeof[f.of] \in Nat
  BY <1>1 DEF Sizes
<1> QED BY <1>1, <1>2, HeadType DEF Size, Sizes

LEMMA ElementBytes ==
  ASSUME TypeOK, NEW f \in Fields, NEW behind \in Behind
  PROVE  LET w == WriteElements(f, behind)
         IN  /\ w \in Seq(net_word)
             /\ Plain(f) =>
                  /\ Len(w) = Len(f.val) * sizeof[f.of]
                  /\ \A e \in 1..Len(f.val), j \in 1..sizeof[f.of] :
                       w[At(sizeof[f.of], e, j)] = f.val[e][j]
<1> DEFINE m  == Len(f.val)
           n  == Wire(f.of)
           ws == [i \in 1..m |-> WriteScalar(f.of, f.val[i], behind)]
<1>1. f.val \in Seq(Seq(net_word)) /\ m \in Nat /\ DOMAIN f.val = 1..m
  BY FieldType
<1>2. behind \in Seq(net_word) /\ Len(behind) = 4
  BY BehindAssumption
<1>3. f.of \in DOMAIN sizeof
  BY FieldAssumption
<1>7. n \in Sizes \cup {0} /\ (Plain(f) => n = sizeof[f.of])
  BY FieldType DEF Wire, Sizes, Plain, Exact
<1>4. ASSUME NEW e \in 1..m
      PROVE  /\ WriteScalar(f.of, f.val[e], behind) \in Seq(net_word)
             /\ Len(WriteScalar(f.of, f.val[e], behind)) = n
             /\ Plain(f) => WriteScalar(f.of, f.val[e], behind) = f.val[e]
  <2>1. f.val[e] \in Seq(net_word) /\ Len(f.val[e]) = sizeof[f.of]
    BY ElementType
  <2> DEFINE w == WriteScalar(f.of, f.val[e], behind)
  <2>2. /\ w \in Seq(net_word)
        /\ IF f.of \in Floating /\ ~writer_iec559 THEN w = <<>>
           ELSE IF f.of = "float" THEN Len(w) = Len(f.val[e]) + Len(behind)
           ELSE w = f.val[e]
    BY <1>2, <2>1, ScalarBytes
  <2>3. f.of = "float" => sizeof[f.of] = 4
    BY DEF sizeof
  <2>4. Len(<<>>) = 0
    OBVIOUS
  <2> QED BY <1>2, <2>1, <2>2, <2>3, <2>4 DEF Plain, Exact, Wire
<1>5. WriteElements(f, behind) = Elementwise(ws)
  BY <1>1 DEF WriteElements
<1>6. ws \in [1..m -> Seq(net_word)]
  BY <1>4
<1>8. \A e \in 1..m : Len(ws[e]) = n /\ (Plain(f) => ws[e] = f.val[e])
  BY <1>4
<1> HIDE DEF ws, n
<1>10. ws \in Seq(Seq(net_word)) /\ Len(ws) = m
  BY <1>1, <1>6, IsSequence
<1>9. /\ Elementwise(ws) \in Seq(net_word)
      /\ Len(Elementwise(ws)) = m * n
      /\ \A e \in 1..m, j \in 1..n : Elementwise(ws)[At(n, e, j)] = ws[e][j]
  BY <1>7, <1>10, <1>8, ElementwiseBytes
<1> QED BY <1>5, <1>7, <1>8, <1>9

LEMMA JoinedBytes ==
  ASSUME NEW s \in Seq(net_word), NEW t \in Seq(net_word), NEW n,
         n = Len(s)
  PROVE  /\ Len(s \o t) = n + Len(t) /\ Len(t) \in Nat
         /\ \A i \in 1..n : (s \o t)[i] = s[i]
         /\ \A i \in 1..Len(t) : (s \o t)[n + i] = t[i]
<1>1. Len(s \o t) = Len(s) + Len(t) /\ Len(t) \in Nat
  OBVIOUS
<1>2. \A i \in 1..Len(s) : (s \o t)[i] = s[i]
  OBVIOUS
<1>3. \A i \in 1..Len(t) : (s \o t)[Len(s) + i] = t[i]
  OBVIOUS
<1> QED BY <1>1, <1>2, <1>3, Zenon

\* The size of a vector or string is followed by its elements.
LEMMA SizeInFront ==
  ASSUME NEW f \in Fields, f.kind = "array", NEW b \in Seq(net_word),
         Len(b) = Len(f.val) * sizeof[f.of],
         \A e \in 1..Len(f.val), j \in 1..sizeof[f.of] :
           b[At(sizeof[f.of], e, j)] = f.val[e][j]
  PROVE  LET w == Word32(Len(f.val)) \o b
         IN  Len(w) = Size(f) /\ Lies(f, 0, w)
<1> DEFINE s == sizeof[f.of]
<1>1. PICK h \in Seq(net_word) : h = Word32(Len(f.val)) /\ Len(h) = 4
  BY FieldType, WordBytes
<1>2. /\ Len(h \o b) = 4 + Len(b) /\ Len(b) \in Nat
      /\ \A k \in 1..4 : (h \o b)[k] = h[k]
      /\ \A i \in 1..Len(b) : (h \o b)[4 + i] = b[i]
  <2>1. 4 = Len(h)
    BY <1>1
  <2> HIDE <1>1
  <2>2. \A n : n = Len(h) =>
          /\ Len(h \o b) = n + Len(b) /\ Len(b) \in Nat
          /\ \A k \in 1..n : (h \o b)[k] = h[k]
          /\ \A i \in 1..Len(b) : (h \o b)[n + i] = b[i]
    BY JoinedBytes
  <2> QED BY <2>1, <2>2, Zenon
<1>3. Head_size(f) = 4
  BY HeadType
<1>4. ASSUME NEW e \in 1..Len(f.val), NEW j \in 1..s
      PROVE  (h \o b)[0 + Head_size(f) + At(s, e, j)] = f.val[e][j]
  <2>1. At(s, e, j) \in 1..Len(b)
    BY FieldType, AtBounds
  <2>2. 0 + Head_size(f) + At(s, e, j) = 4 + At(s, e, j)
    BY <1>2, <1>3, <2>1
  <2>3. (h \o b)[4 + At(s, e, j)] = b[At(s, e, j)]
    BY <1>2, <2>1, Zenon
  <2> QED BY <2>2, <2>3, Zenon
<1>5. Len(h \o b) = Size(f)
  BY <1>2, <1>3 DEF Size
<1>6. ASSUME NEW k \in 1..4 PROVE (h \o b)[0 + k] = Word32(Len(f.val))[k]
  <2>1. 0 + k = k
    OBVIOUS
  <2> QED BY <1>1, <1>2, <2>1, Zenon
<1>7. Lies(f, 0, h \o b)
  BY <1>4, <1>6, Zenon DEF Lies
<1> QED BY <1>1, <1>5, <1>7

\* What write_msg appends.
LEMMA FieldBytes ==
  ASSUME TypeOK, NEW f \in Fields, NEW behind \in Behind
  PROVE  LET w == Written(f, behind)
         IN  /\ w \in Seq(net_word)
             /\ Plain(f) => Len(w) = Size(f) /\ Lies(f, 0, w)
<1> DEFINE b == WriteElements(f, behind)
           h == Word32(Len(f.val))
           s == sizeof[f.of]
<1>1. /\ b \in Seq(net_word)
      /\ Plain(f) =>
           /\ Len(b) = Len(f.val) * s
           /\ \A e \in 1..Len(f.val), j \in 1..s : b[At(s, e, j)] = f.val[e][j]
  BY ElementBytes
<1>2. /\ Len(f.val) \in Nat /\ s \in Sizes /\ s \in Nat
      /\ Len(f.val) * s \in Nat
      /\ \A e \in 1..Len(f.val), j \in 1..s :
           At(s, e, j) \in 1..Len(f.val) * s
  BY FieldType, AtBounds
<1>3. CASE f.kind # "array"
  <2>1. Written(f, behind) = b /\ Head_size(f) = 0
    BY <1>3 DEF Written, Head_size
  <2>2. \A e \in 1..Len(f.val), j \in 1..s :
          0 + 0 + At(s, e, j) = At(s, e, j)
    BY <1>2
  <2> HIDE DEF b, s
  <2>3. Plain(f) => Len(b) = Size(f)
    BY <1>1, <1>2, <2>1 DEF Size, s
  <2>4. Plain(f) => Lies(f, 0, b)
    BY <1>1, <1>3, <2>1, <2>2 DEF Lies, s
  <2> QED BY <1>1, <2>1, <2>3, <2>4
<1>4. CASE f.kind = "array"
  <2>1. h \in Seq(net_word) /\ Len(h) = 4
    BY <1>2, WordBytes
  <2>2. WriteScalar("uint32", h, behind) = h
    <3>1. "uint32" \notin Floating /\ "uint32" # "float"
      BY DEF Floating
    <3>2. behind \in Seq(net_word) /\ h \in Seq(net_word)
      BY <2>1, BehindAssumption
    <3> HIDE DEF h
    <3> QED BY <3>1, <3>2, ScalarBytes
  <2>3. Written(f, behind) = h \o b
    BY <1>4, <2>2 DEF Written, write_into_array
  <2>4. b \in Seq(net_word)
    BY <1>1
  <2> HIDE DEF b
  <2>5. h \o b \in Seq(net_word)
    BY <2>1, <2>4, Joined
  <2>6. Plain(f) => Len(h \o b) = Size(f) /\ Lies(f, 0, h \o b)
    BY <1>1, <1>4, <2>4, SizeInFront
  <2> QED BY <2>3, <2>5, <2>6
<1> QED BY <1>3, <1>4

\* ... lies behind what was in the message before,
LEMMA Shifts ==
  ASSUME NEW f \in Fields, NEW d \in Seq(net_word), NEW w \in Seq(net_word),
         Len(w) = Size(f), Lies(f, 0, w)
  PROVE  Lies(f, Len(d), d \o w)
<1> DEFINE s == sizeof[f.of]
<1>1. /\ Len(d) \in Nat /\ Len(w) \in Nat
      /\ \A i \in 1..Len(w) : (d \o w)[Len(d) + i] = w[i]
  OBVIOUS
<1>2. ASSUME f.kind = "array", NEW k \in 1..4
      PROVE  (d \o w)[Len(d) + k] = Word32(Len(f.val))[k]
  <2>1. k \in 1..Len(w) /\ 0 + k = k
    BY <1>1, <1>2, FieldType, HeadType DEF Size
  <2> QED BY <1>1, <1>2, <2>1 DEF Lies
<1>3. ASSUME NEW e \in 1..Len(f.val), NEW j \in 1..s
      PROVE  (d \o w)[Len(d) + Head_size(f) + At(s, e, j)] = f.val[e][j]
  <2> DEFINE i == Head_size(f) + At(s, e, j)
  <2> DEFINE a == At(s, e, j)
             p == Len(f.val) * s
  <2>1. a \in 1..p /\ p \in Nat /\ Len(w) = Head_size(f) + p
    BY FieldType, AtBounds DEF Size
  <2> HIDE DEF a, p
  <2>4. /\ Head_size(f) + a \in 1..Len(w)
        /\ 0 + Head_size(f) + a = Head_size(f) + a
        /\ Len(d) + Head_size(f) + a = Len(d) + (Head_size(f) + a)
    BY <1>1, <2>1, HeadType
  <2>2. /\ i \in 1..Len(w) /\ 0 + Head_size(f) + At(s, e, j) = i
        /\ Len(d) + Head_size(f) + At(s, e, j) = Len(d) + i
    BY <2>4 DEF a
  <2>3. w[i] = f.val[e][j]
    BY <2>2 DEF Lies
  <2> QED BY <1>1, <2>2, <2>3
<1> QED BY <1>2, <1>3 DEF Lies

\* ... and stays there when more is appended.
LEMMA Stays ==
  ASSUME NEW f \in Fields, NEW d \in Seq(net_word), NEW w \in Seq(net_word),
         NEW at \in Nat, at + Size(f) <= Len(d), Lies(f, at, d)
  PROVE  Lies(f, at, d \o w)
<1> DEFINE s == sizeof[f.of]
<1>1. Len(d) \in Nat /\ \A i \in 1..Len(d) : (d \o w)[i] = d[i]
  OBVIOUS
<1>2. ASSUME f.kind = "array", NEW k \in 1..4
      PROVE  (d \o w)[at + k] = Word32(Len(f.val))[k]
  <2>1. at + k \in 1..Len(d)
    BY <1>1, <1>2, FieldType, HeadType DEF Size
  <2> QED BY <1>1, <1>2, <2>1 DEF Lies
<1>3. ASSUME NEW e \in 1..Len(f.val), NEW j \in 1..s
      PROVE  (d \o w)[at + Head_size(f) + At(s, e, j)] = f.val[e][j]
  <2> DEFINE a == At(s, e, j)
             p == Len(f.val) * s
  <2>1. a \in 1..p /\ p \in Nat /\ at + (Head_size(f) + p) <= Len(d)
    BY FieldType, AtBounds DEF Size
  <2> HIDE DEF a, p
  <2>3. Head_size(f) \in Nat
    BY HeadType
  <2>4. at + Head_size(f) + a \in 1..Len(d)
    BY <1>1, <2>1, <2>3
  <2>2. at + Head_size(f) + At(s, e, j) \in 1..Len(d)
    BY <2>4 DEF a
  <2> QED BY <1>1, <2>2 DEF Lies
<1> QED BY <1>2, <1>3 DEF Lies

-----------------------------------------------------------------------------
(* The bytes that are read *)

LEMMA Slice ==
  ASSUME NEW d \in Seq(net_word), NEW at \in Nat, NEW n \in Nat,
         at + n <= Len(d)
  PROVE  /\ SubSeq(d, at + 1, at + n) \in Seq(net_word)
         /\ Len(SubSeq(d, at + 1, at + n)) = n
         /\ \A j \in 1..n : SubSeq(d, at + 1, at + n)[j] = d[at + j]
<1>1. Len(d) \in Nat /\ \A i \in at + 1..at + n : d[i] \in net_word
  OBVIOUS
<1>2. /\ SubSeq(d, at + 1, at + n) \in Seq(net_word)
      /\ Len(SubSeq(d, at + 1, at + n)) =
           IF at + 1 <= at + n THEN at + n - (at + 1) + 1 ELSE 0
      /\ \A i \in 1..at + n - (at + 1) + 1 :
           SubSeq(d, at + 1, at + n)[i] = d[at + 1 + i - 1]
  BY <1>1, SubSeqProperties
<1>3. Len(SubSeq(d, at + 1, at + n)) = n
  BY <1>2
<1>4. ASSUME NEW j \in 1..n
      PROVE  SubSeq(d, at + 1, at + n)[j] = d[at + j]
  <2>1. j \in 1..at + n - (at + 1) + 1 /\ at + 1 + j - 1 = at + j
    OBVIOUS
  <2> QED BY <1>2, <2>1
<1> QED BY <1>2, <1>3, <1>4

\* The number of a size is a number, whatever the bytes are.
LEMMA NumberType ==
  ASSUME NEW b, \A k \in 1..4 : b[k] \in net_word
  PROVE  Number(b) \in Nat
<1>1. b[1] \in Nat /\ b[2] \in Nat /\ b[3] \in Nat /\ b[4] \in Nat
  BY DEF net_word
<1> QED BY <1>1, SMT DEF Number

LEMMA ReadSize ==
  ASSUME NEW f \in Fields
  PROVE  /\ Read_size(f.of) \in {0, sizeof[f.of]}
         /\ sizeof[f.of] \in Sizes /\ sizeof[f.of] # 0
         /\ Plain(f) => Read_size(f.of) = sizeof[f.of]
<1>1. sizeof[f.of] \in Sizes
  BY FieldType
<1>2. Plain(f) => ~(f.of \in Floating /\ ~reader_iec559)
  BY DEF Plain, Exact
<1> QED BY <1>1, <1>2 DEF Sizes, Read_size

LEMMA CountType ==
  ASSUME TypeOK, NEW f \in Fields, iter + Head_size(f) <= Len(data)
  PROVE  /\ Count(f) \in Nat /\ Count(f) * Read_size(f.of) \in Nat
         /\ FieldSize(f) \in Nat
<1>1. data \in Seq(net_word) /\ iter \in Nat
  BY DEF TypeOK
<1>2. Count(f) \in Nat
  <2>1. CASE f.kind = "array"
    <3>1. Head_size(f) = 4 /\ iter + 4 <= Len(data)
      BY <2>1, HeadType
    <3>2. \A k \in 1..4 : ValueAt(iter, 4)[k] = data[iter + k]
      BY <1>1, <3>1, Slice DEF ValueAt
    <3>4. \A k \in 1..4 : data[iter + k] \in net_word
      BY <1>1, <3>1
    <3>3. Number(ValueAt(iter, 4)) \in Nat
      BY <3>2, <3>4, NumberType
    <3> QED BY <2>1, <3>3 DEF Count
  <2>2. CASE f.kind # "array"
    BY <2>2, FieldType DEF Count
  <2> QED BY <2>1, <2>2
<1>3. Count(f) * Read_size(f.of) \in Nat
  <2>1. Read_size(f.of) \in {0} \cup Sizes
    BY ReadSize
  <2> QED BY <1>2, <2>1 DEF Sizes
<1> QED BY <1>2, <1>3, HeadType DEF FieldSize

\* The elements read_into takes are the bytes from iter on.
LEMMA ElementsTaken ==
  ASSUME TypeOK, NEW f \in Fields, InBounds(f),
         Read_size(f.of) = sizeof[f.of]
  PROVE  /\ Elements(f) \in Seq(Seq(net_word))
         /\ Len(Elements(f)) = Count(f)
         /\ \A e \in 1..Count(f) :
              /\ Len(Elements(f)[e]) = sizeof[f.of]
              /\ \A j \in 1..sizeof[f.of] :
                   Elements(f)[e][j] =
                     data[iter + Head_size(f) + At(sizeof[f.of], e, j)]
<1> DEFINE s == sizeof[f.of]
           c == Count(f)
           at(e) == iter + Head_size(f) + (e - 1) * s
<1>1. data \in Seq(net_word) /\ iter \in Nat /\ Len(data) \in Nat
  BY DEF TypeOK
<1>2. /\ c \in Nat /\ s \in Sizes /\ s \in Nat /\ c * s \in Nat
      /\ iter + (Head_size(f) + c * s) <= Len(data) /\ Head_size(f) \in Nat
  BY CountType, FieldType, HeadType DEF InBounds, FieldSize
<1>0. s # 0
  BY ReadSize
<1>3. ASSUME NEW e \in 1..c
      PROVE  /\ ValueAt(at(e), s) \in Seq(net_word)
             /\ Len(ValueAt(at(e), s)) = s
             /\ \A j \in 1..s : ValueAt(at(e), s)[j] =
                  data[iter + Head_size(f) + At(s, e, j)]
  <2> DEFINE p == c * s
             q == (e - 1) * s
  <2>1. s \in 1..s
    BY <1>2 DEF Sizes
  <2>2. At(s, e, s) \in 1..p
    BY <1>2, <2>1, AtBounds
  <2>3. q \in Nat /\ q + s <= p /\ p \in Nat
    <3>1. (e - 1) * s \in Nat
      <4>1. e - 1 \in Nat
        BY <1>2
      <4> HIDE DEF s
      <4>2. \A i \in Nat, n \in Nat : i * n \in Nat
        OBVIOUS
      <4> QED BY <1>2, <4>1, <4>2
    <3> QED BY <1>2, <2>2, <3>1 DEF At
  <2> HIDE DEF p, q
  <2>4. iter + (Head_size(f) + p) <= Len(data)
    BY <1>2 DEF p
  <2> HIDE DEF s
  <2>5. /\ iter + Head_size(f) + q \in Nat /\ s \in Nat
        /\ iter + Head_size(f) + q + s <= Len(data)
    <3>1. s \in Nat /\ Head_size(f) \in Nat
      BY <1>2
    <3> QED BY <1>1, <2>3, <2>4, <3>1
  <2>6. at(e) = iter + Head_size(f) + q
    BY DEF q
  <2>7. ASSUME NEW j \in 1..s
        PROVE  iter + Head_size(f) + q + j
                 = iter + Head_size(f) + At(s, e, j)
    <3>1. At(s, e, j) = q + j
      BY DEF At, q
    <3> QED BY <1>1, <1>2, <2>3, <2>5, <3>1
  <2> HIDE DEF at
  <2>8. /\ ValueAt(at(e), s) \in Seq(net_word)
        /\ Len(ValueAt(at(e), s)) = s
        /\ \A j \in 1..s : ValueAt(at(e), s)[j] = data[at(e) + j]
    <3>1. at(e) \in Nat /\ s \in Nat /\ at(e) + s <= Len(data)
      BY <2>5, <2>6
    <3> QED BY <1>1, <3>1, Slice DEF ValueAt
  <2> QED BY <2>6, <2>7, <2>8
<1>4. Elements(f) = [e \in 1..c |-> ValueAt(at(e), s)]
  BY <1>0 DEF Elements, ReadScalar
<1> HIDE DEF at, s, c
<1>5. Elements(f) \in [1..c -> Seq(net_word)]
  BY <1>3, <1>4
<1>6. Elements(f) \in Seq(Seq(net_word)) /\ Len(Elements(f)) = c
  BY <1>2, <1>5, IsSequence
<1> QED BY <1>3, <1>4, <1>6 DEF s, c

LEMMA UnsetType ==
  ASSUME NEW f \in Fields
  PROVE  Unset(f.of) \in Seq(net_word)
<1>1. sizeof[f.of] \in Nat
  BY FieldType
<1>2. [j \in 1..sizeof[f.of] |-> 0] \in [1..sizeof[f.of] -> net_word]
  BY DEF net_word
<1> QED BY <1>1, <1>2, IsSequence DEF Unset

\* They are bytes, whatever is read.
LEMMA ElementsType ==
  ASSUME TypeOK, NEW f \in Fields, InBounds(f)
  PROVE  Elements(f) \in Seq(Seq(net_word))
<1>1. CASE Read_size(f.of) = sizeof[f.of]
  BY <1>1, ElementsTaken
<1>2. CASE Read_size(f.of) = 0
  <2>1. Elements(f) = [e \in 1..Count(f) |-> Unset(f.of)]
    BY <1>2 DEF Elements, ReadScalar
  <2>2. Elements(f) \in [1..Count(f) -> Seq(net_word)] /\ Count(f) \in Nat
    BY <2>1, UnsetType, CountType DEF InBounds
  <2> QED BY <2>2, IsSequence
<1> QED BY <1>1, <1>2, ReadSize

\* A reader at a field that lies in the message gets it.
LEMMA ReadsBack ==
  ASSUME TypeOK, NEW f \in Fields, Plain(f), Lies(f, iter, data),
         iter + Size(f) <= Len(data)
  PROVE  InBounds(f) /\ FieldSize(f) = Size(f) /\ Elements(f) = f.val
<1> DEFINE s == sizeof[f.of]
<1>1. data \in Seq(net_word) /\ iter \in Nat /\ Len(data) \in Nat
  BY DEF TypeOK
<1>2. Count(f) = Len(f.val)
  <2>1. CASE f.kind = "array"
    <3>1. Head_size(f) = 4 /\ Len(f.val) * s \in Nat
      BY <2>1, HeadType, FieldType
    <3>2. iter + 4 <= Len(data)
      BY <1>1, <3>1 DEF Size
    <3>3. \A k \in 1..4 : ValueAt(iter, 4)[k] = data[iter + k]
      BY <1>1, <3>2, Slice DEF ValueAt
    <3>4. \A k \in 1..4 : ValueAt(iter, 4)[k] = Word32(Len(f.val))[k]
      BY <2>1, <3>3 DEF Lies
    <3>5. Len(f.val) \in Nat /\ FitsSize(Len(f.val))
      BY <2>1, FieldType, FieldAssumption
    <3>6. Number(ValueAt(iter, 4)) = Len(f.val)
      BY <3>4, <3>5, WordNumber
    <3> QED BY <2>1, <3>6 DEF Count
  <2>2. CASE f.kind # "array"
    BY <2>2 DEF Count
  <2> QED BY <2>1, <2>2
<1>9. Read_size(f.of) = s
  BY ReadSize
<1>3. FieldSize(f) = Size(f)
  BY <1>2, <1>9 DEF FieldSize, Size
<1>4. InBounds(f)
  <2>1. iter + Head_size(f) <= Len(data)
    BY <1>1, HeadType, FieldType DEF Size
  <2> QED BY <1>3, <2>1 DEF InBounds
<1>5. /\ Elements(f) \in Seq(Seq(net_word)) /\ Len(Elements(f)) = Len(f.val)
      /\ \A e \in 1..Len(f.val) :
           /\ Len(Elements(f)[e]) = s
           /\ \A j \in 1..s : Elements(f)[e][j] =
                data[iter + Head_size(f) + At(s, e, j)]
  BY <1>2, <1>4, <1>9, ElementsTaken
<1>6. ASSUME NEW e \in 1..Len(f.val)
      PROVE  Elements(f)[e] = f.val[e]
  <2>1. f.val[e] \in Seq(net_word) /\ Len(f.val[e]) = s
    BY ElementType
  <2>3. Elements(f)[e] \in Seq(net_word)
    BY <1>5
  <2>4. Len(Elements(f)[e]) = s
    BY <1>5
  <2>2. \A j \in 1..s : Elements(f)[e][j] = f.val[e][j]
    BY <1>5 DEF Lies
  <2> QED BY <2>1, <2>2, <2>3, <2>4, SeqEqual
<1>7. f.val \in Seq(Seq(net_word))
  BY FieldType
<1>8. Elements(f) = f.val
  BY <1>5, <1>6, <1>7, SeqEqual
<1> QED BY <1>3, <1>4, <1>8

-----------------------------------------------------------------------------
(* The types *)

LEMMA HeldType ==
  ASSUME NEW f \in Fields, NEW n \in Initial
  PROVE  Held(f, n) \in Seq(Seq(net_word))
<1>1. n \in Nat
  BY InitialAssumption
<1>2. Held(f, n) \in [1..n -> Seq(net_word)]
  BY UnsetType DEF Held
<1> QED BY <1>1, <1>2, IsSequence

LEMMA NextField ==
  ASSUME TypeOK, Len(got) < Len(wrote)
  PROVE  Next_field \in Fields /\ Len(got) \in Nat /\ Len(wrote) \in Nat
BY DEF TypeOK, Next_field

\* What read_into adds.
LEMMA ReadType ==
  ASSUME TypeOK, NEW n \in Initial, Len(got) < Len(wrote),
         InBounds(Next_field)
  PROVE  [held |-> n, val |-> Held(Next_field, n) \o Elements(Next_field)]
           \in [held : Initial, val : Seq(Seq(net_word))]
<1>1. Next_field \in Fields
  BY NextField
<1>2. /\ Held(Next_field, n) \in Seq(Seq(net_word))
      /\ Elements(Next_field) \in Seq(Seq(net_word))
  BY <1>1, HeldType, ElementsType
<1>3. Held(Next_field, n) \o Elements(Next_field) \in Seq(Seq(net_word))
  BY <1>2
<1> QED BY <1>3

LEMMA WriteType ==
  ASSUME TypeOK, NEW f \in Fields, NEW behind \in Behind, write_into(f, behind)
  PROVE  /\ Written(f, behind) \in Seq(net_word)
         /\ data' = data \o Written(f, behind)
         /\ data' \in Seq(net_word) /\ Len(data) \in Nat
         /\ Len(data') = Len(data) + Len(Written(f, behind))
         /\ wrote' = Append(wrote, f) /\ wrote' \in Seq(Fields)
         /\ Len(wrote') = Len(wrote) + 1 /\ Len(wrote) \in Nat
         /\ UNCHANGED <<hosts, reading, iter, got, overrun>>
<1>1. Written(f, behind) \in Seq(net_word) /\ data \in Seq(net_word)
  BY FieldBytes DEF TypeOK
<1>2. data' = data \o Written(f, behind)
  BY DEF write_into, Written
<1>3. /\ data \o Written(f, behind) \in Seq(net_word) /\ Len(data) \in Nat
      /\ Len(data \o Written(f, behind)) = Len(data) + Len(Written(f, behind))
  BY <1>1, Joined
<1>4. /\ wrote' = Append(wrote, f) /\ wrote' \in Seq(Fields)
      /\ Len(wrote') = Len(wrote) + 1 /\ Len(wrote) \in Nat
      /\ UNCHANGED <<hosts, reading, iter, got, overrun>>
  BY DEF write_into, TypeOK
<1> QED BY <1>1, <1>2, <1>3, <1>4

\* read_into takes a field, or leaves the message.
LEMMA ReadCases ==
  ASSUME NEW n \in Initial, read_into(n)
  PROVE  /\ Len(got) < Len(wrote) /\ UNCHANGED <<hosts, data, wrote, reading>>
         /\ \/ /\ InBounds(Next_field) /\ overrun' = overrun
               /\ iter' = iter + FieldSize(Next_field)
               /\ got' = Append(got,
                    [held |-> n,
                     val |-> Held(Next_field, n) \o Elements(Next_field)])
            \/ /\ ~InBounds(Next_field) /\ overrun' = TRUE
               /\ UNCHANGED <<iter, got>>
BY DEF read_into

LEMMA TypeStep ==
  ASSUME TypeOK, [Next]_vars
  PROVE  TypeOK'
<1>1. ASSUME NEW f \in Fields, NEW behind \in Behind, write_into(f, behind)
      PROVE  TypeOK'
  <2>1. Len(got) <= Len(wrote) + 1 /\ Len(got) \in Nat
    BY <1>1, WriteType DEF TypeOK
  <2> QED BY <1>1, <2>1, WriteType DEF TypeOK, hosts
<1>2. ASSUME make_reader PROVE TypeOK'
  BY <1>2 DEF make_reader, TypeOK, hosts
<1>3. ASSUME NEW n \in Initial, read_into(n) PROVE TypeOK'
  <2>1. /\ Next_field \in Fields
        /\ Len(got) < Len(wrote) /\ Len(got) \in Nat /\ Len(wrote) \in Nat
        /\ UNCHANGED <<hosts, data, wrote, reading>>
    BY <1>3, ReadCases, NextField
  <2>2. CASE InBounds(Next_field)
    <3>1. iter' \in Nat /\ overrun' \in BOOLEAN
      <4>1. FieldSize(Next_field) \in Nat
        BY <2>1, <2>2, CountType DEF InBounds
      <4>2. iter' = iter + FieldSize(Next_field) /\ overrun' = overrun
        BY <1>3, <2>2, ReadCases
      <4> QED BY <4>1, <4>2 DEF TypeOK
    <3>2. PICK r \in [held : Initial, val : Seq(Seq(net_word))] :
            got' = Append(got, r)
      BY <1>3, <2>2, ReadCases, ReadType
    <3>3. /\ got' \in Seq([held : Initial, val : Seq(Seq(net_word))])
          /\ Len(got') = Len(got) + 1
      BY <3>2 DEF TypeOK
    <3> QED BY <2>1, <3>1, <3>3 DEF TypeOK, hosts
  <2>3. CASE ~InBounds(Next_field)
    BY <1>3, <2>1, <2>3, ReadCases DEF TypeOK, hosts
  <2> QED BY <2>2, <2>3
<1>4. CASE UNCHANGED vars
  BY <1>4 DEF vars, hosts, TypeOK
<1> QED BY <1>1, <1>2, <1>3, <1>4 DEF Next

-----------------------------------------------------------------------------
(* The invariant *)

\* The first i fields go out as they are, and are taken.
PlainTo(i) == \A j \in 1..i : Plain(wrote[j])

\* As long as the fields are plain, byte off[i] of the message is where field
\* i ends, and the reader is at the end of what it has read.
Layout(off) ==
  /\ off \in [0..Len(wrote) -> Nat]
  /\ off[0] = 0 /\ off[Len(wrote)] = Len(data)
  /\ \A i \in 1..Len(wrote) :
       PlainTo(i) => /\ off[i] = off[i - 1] + Size(wrote[i])
                     /\ off[i] <= Len(data)
                     /\ Lies(wrote[i], off[i - 1], data)
  /\ PlainTo(Len(got)) => iter = off[Len(got)]

\* What is read before the first float, and the first field that one of the
\* hosts skips, is what was written.
ReadsPlain ==
  \A i \in 1..Len(got) :
    PlainTo(i) => got[i].val = Held(wrote[i], got[i].held) \o wrote[i].val

\* A reader that leaves the message has met one.
OverrunInv == overrun => ~PlainTo(Len(wrote))

MessageInv == TypeOK /\ ReadsPlain /\ OverrunInv /\ \E off : Layout(off)

\* write_msg changes nothing about the fields before.
LEMMA PlainStays ==
  ASSUME TypeOK, NEW f \in Fields, NEW behind \in Behind, write_into(f, behind),
         NEW i \in 0..Len(wrote)
  PROVE  PlainTo(i)' <=> PlainTo(i)
<1>1. \A j \in 1..i : wrote'[j] = wrote[j]
  <2>1. wrote' = Append(wrote, f) /\ wrote \in Seq(Fields)
    BY WriteType DEF TypeOK
  <2> QED BY <2>1
<1>2. writer_iec559' = writer_iec559 /\ reader_iec559' = reader_iec559
  BY WriteType DEF hosts
<1>3. \A j \in 1..i : Plain(wrote[j])' <=> Plain(wrote[j])
  BY <1>1, <1>2, Zenon DEF Plain, Exact
<1> QED BY <1>3, Zenon DEF PlainTo

LEMMA LayoutWrites ==
  ASSUME TypeOK, NEW off, Layout(off),
         NEW f \in Fields, NEW behind \in Behind, write_into(f, behind)
  PROVE  \E o : Layout(o)'
<1> DEFINE w == Written(f, behind)
           n == Len(wrote)
           new == [i \in 0..n + 1 |-> IF i = n + 1 THEN Len(data) + Len(w)
                                      ELSE off[i]]
<1>0. PICK o : o = new
  OBVIOUS
<1>1. /\ w \in Seq(net_word) /\ Len(w) \in Nat
      /\ Plain(f) => Len(w) = Size(f) /\ Lies(f, 0, w)
  BY FieldBytes
<1>2. /\ data' = data \o w /\ Len(data') = Len(data) + Len(w)
      /\ data \in Seq(net_word) /\ Len(data) \in Nat /\ n \in Nat
      /\ wrote' = Append(wrote, f) /\ Len(wrote') = n + 1
      /\ iter' = iter /\ got' = got
      /\ Len(got) \in 0..n
  BY <1>1, WriteType DEF TypeOK
<1> HIDE DEF w
<1>3. /\ wrote'[n + 1] = f /\ \A i \in 1..n : wrote'[i] = wrote[i]
      /\ \A i \in 1..n : wrote[i] \in Fields
  BY <1>2 DEF TypeOK
<1>4. /\ o \in [0..n + 1 -> Nat] /\ o[n + 1] = Len(data) + Len(w)
      /\ \A i \in 0..n : o[i] = off[i] /\ off[i] \in Nat
  <2>1. n \in Nat /\ Len(data) + Len(w) \in Nat
    BY <1>1, <1>2
  <2>2. off \in [0..n -> Nat]
    BY DEF Layout
  <2> HIDE DEF n
  <2>3. \A i \in 0..n + 1 : i # n + 1 => i \in 0..n
    BY <2>1
  <2>4. o \in [0..n + 1 -> Nat]
    BY <1>0, <2>1, <2>2, <2>3
  <2>5. n + 1 \in 0..n + 1 /\ \A i \in 0..n : i \in 0..n + 1 /\ i # n + 1
    BY <2>1
  <2> QED BY <1>0, <2>2, <2>4, <2>5
<1>5. /\ off[0] = 0 /\ off[n] = Len(data)
      /\ PlainTo(Len(got)) => iter = off[Len(got)]
      /\ \A i \in 1..n :
           PlainTo(i) => /\ off[i] = off[i - 1] + Size(wrote[i])
                         /\ off[i] <= Len(data)
                         /\ Lies(wrote[i], off[i - 1], data)
  BY DEF Layout
<1> HIDE DEF new
<1>6. ASSUME NEW i \in 1..n + 1, PlainTo(i)'
      PROVE  /\ o[i] = o[i - 1] + Size(wrote'[i])
             /\ o[i] <= Len(data')
             /\ Lies(wrote'[i], o[i - 1], data')
  <2>1. CASE i = n + 1
    <3>1. o[i - 1] = Len(data) /\ wrote'[i] = f
      <4>1. i - 1 = n /\ n \in 0..n
        BY <1>2, <2>1
      <4> QED BY <1>3, <1>4, <1>5, <2>1, <4>1
    <3>4. Plain(f)
      <4>1. i \in 1..i
        BY <1>2
      <4>2. Plain(wrote[i])'
        BY <1>6, <4>1, Zenon DEF PlainTo
      <4>3. writer_iec559' = writer_iec559 /\ reader_iec559' = reader_iec559
        BY WriteType DEF hosts
      <4> QED BY <3>1, <4>2, <4>3, Zenon DEF Plain, Exact
    <3>2. Lies(f, Len(data), data')
      BY <1>1, <1>2, <3>4, Shifts
    <3>3. Len(w) = Size(f)
      BY <1>1, <3>4
    <3>5. o[i] = Len(data) + Len(w) /\ o[i] <= Len(data')
      BY <1>1, <1>2, <1>4, <2>1
    <3> QED BY <3>1, <3>2, <3>3, <3>5
  <2>2. CASE i # n + 1
    <3>1. i \in 1..n /\ i - 1 \in 0..n /\ i \in 0..n
      BY <1>2, <2>2
    <3>6. PlainTo(i)
      BY <1>6, <3>1, PlainStays
    <3>2. /\ o[i] = off[i] /\ o[i - 1] = off[i - 1] /\ wrote'[i] = wrote[i]
          /\ off[i - 1] \in Nat /\ off[i] \in Nat /\ wrote[i] \in Fields
      BY <1>3, <1>4, <3>1
    <3>3. /\ off[i] = off[i - 1] + Size(wrote[i]) /\ off[i] <= Len(data)
          /\ Lies(wrote[i], off[i - 1], data)
      BY <1>5, <3>1, <3>6
    <3>4. Lies(wrote[i], off[i - 1], data')
      BY <1>1, <1>2, <3>2, <3>3, Stays
    <3>5. off[i] <= Len(data')
      BY <1>1, <1>2, <3>2, <3>3
    <3> QED BY <3>2, <3>3, <3>4, <3>5
  <2> QED BY <2>1, <2>2
<1>7. o[0] = 0 /\ (PlainTo(Len(got))' => iter' = o[Len(got')])
  <2>1. PlainTo(Len(got))' <=> PlainTo(Len(got))
    <3>1. PICK k \in 0..n : k = Len(got)
      BY <1>2
    <3>2. PlainTo(k)' <=> PlainTo(k)
      BY <3>1, PlainStays
    <3>3. k = Len(got')
      BY <1>2, <3>1
    <3> QED BY <3>1, <3>2, <3>3, Zenon DEF PlainTo
  <2>2. 0 \in 0..n /\ Len(got) \in 0..n
    BY <1>2
  <2> QED BY <1>2, <1>4, <1>5, <2>1, <2>2
<1>8. Layout(o)'
  <2>1. o \in [0..Len(wrote') -> Nat]
    BY <1>2, <1>4
  <2>2. /\ o[0] = 0 /\ o[Len(wrote')] = Len(data')
        /\ PlainTo(Len(got))' => iter' = o[Len(got')]
    BY <1>2, <1>4, <1>7
  <2>3. \A i \in 1..Len(wrote') :
          PlainTo(i)' => /\ o[i] = o[i - 1] + Size(wrote'[i])
                         /\ o[i] <= Len(data')
                         /\ Lies(wrote'[i], o[i - 1], data')
    BY <1>2, <1>6
  <2> QED BY <2>1, <2>2, <2>3, Zenon DEF Layout
<1> QED BY <1>8

\* The reader at a field, with plain ones up to it: it gets that field and is
\* at the next one then.
LEMMA AtField ==
  ASSUME TypeOK, NEW off, Layout(off), Len(got) < Len(wrote),
         PlainTo(Len(got) + 1)
  PROVE  LET f == Next_field
         IN  /\ InBounds(f) /\ Elements(f) = f.val
             /\ iter + FieldSize(f) = off[Len(got) + 1]
<1> DEFINE k == Len(got) + 1
<1>1. /\ k \in 1..Len(wrote) /\ k - 1 = Len(got) /\ k - 1 \in 0..Len(wrote)
      /\ Next_field \in Fields /\ Next_field = wrote[k]
  BY NextField DEF Next_field
<1>5. PlainTo(Len(got)) /\ Plain(Next_field)
  <2>1. \A j \in 1..Len(got) : j \in 1..k
    BY <1>1
  <2>2. k \in 1..k
    BY <1>1
  <2> QED BY <1>1, <2>1, <2>2 DEF PlainTo
<1>2. /\ off[k] = off[k - 1] + Size(wrote[k]) /\ off[k] <= Len(data)
      /\ Lies(wrote[k], off[k - 1], data) /\ iter = off[k - 1]
  BY <1>1, <1>5 DEF Layout
<1>3. Lies(Next_field, iter, data) /\ iter + Size(Next_field) <= Len(data)
  BY <1>1, <1>2
<1>4. /\ InBounds(Next_field) /\ FieldSize(Next_field) = Size(Next_field)
      /\ Elements(Next_field) = Next_field.val
  BY <1>1, <1>3, <1>5, ReadsBack
<1> QED BY <1>1, <1>2, <1>4

LEMMA MessageStep ==
  ASSUME MessageInv, [Next]_vars
  PROVE  MessageInv'
<1> USE DEF MessageInv
<1>0. TypeOK'
  BY TypeStep
<1>1. PICK off : Layout(off)
  OBVIOUS
<1>2. ASSUME NEW f \in Fields, NEW behind \in Behind, write_into(f, behind)
      PROVE  MessageInv'
  <2>1. \E o : Layout(o)'
    BY <1>1, <1>2, LayoutWrites
  <2>2. /\ got' = got /\ wrote' = Append(wrote, f) /\ wrote \in Seq(Fields)
        /\ Len(got) <= Len(wrote) /\ Len(got) \in Nat /\ Len(wrote) \in Nat
        /\ Len(wrote') = Len(wrote) + 1 /\ overrun' = overrun
    BY <1>2, WriteType DEF TypeOK
  <2>3. \A i \in 1..Len(got) :
          wrote'[i] = wrote[i] /\ (PlainTo(i)' <=> PlainTo(i))
    <3> SUFFICES ASSUME NEW i \in 1..Len(got)
                 PROVE  wrote'[i] = wrote[i] /\ (PlainTo(i)' <=> PlainTo(i))
      OBVIOUS
    <3>1. i \in 1..Len(wrote) /\ i \in 0..Len(wrote)
      BY <2>2
    <3> QED BY <1>2, <2>2, <3>1, PlainStays
  <2>4. ReadsPlain'
    <3>1. \A i \in 1..Len(got') :
            PlainTo(i)' => got'[i].val = Held(wrote'[i], got'[i].held)
                                           \o wrote'[i].val
      BY <2>2, <2>3, Zenon DEF ReadsPlain
    <3> QED BY <3>1, Zenon DEF ReadsPlain, Held
  <2>5. OverrunInv'
    <3>1. PICK m \in 0..Len(wrote) : m = Len(wrote)
      BY <2>2
    <3>2. PlainTo(m)' <=> PlainTo(m)
      BY <1>2, PlainStays
    <3>3. \A j \in 1..m : j \in 1..Len(wrote')
      BY <2>2, <3>1
    <3>4. PlainTo(Len(wrote))' => PlainTo(m)'
      BY <3>3, Zenon DEF PlainTo
    <3> QED BY <2>2, <3>1, <3>2, <3>4, Zenon DEF OverrunInv
  <2> QED BY <1>0, <2>1, <2>4, <2>5
<1>3. ASSUME make_reader PROVE MessageInv'
  <2>1. UNCHANGED <<hosts, data, wrote, iter, got, overrun>>
    BY <1>3 DEF make_reader
  <2>2. Layout(off)' /\ ReadsPlain' /\ OverrunInv'
    BY <1>1, <2>1 DEF hosts, Layout, ReadsPlain, OverrunInv, PlainTo, Plain,
                      Exact, Held
  <2> QED BY <1>0, <2>2
<1>4. ASSUME NEW n \in Initial, read_into(n) PROVE MessageInv'
  <2> DEFINE f == Next_field
             r == [held |-> n, val |-> Held(f, n) \o Elements(f)]
  <2>1. Len(got) < Len(wrote) /\ UNCHANGED <<hosts, data, wrote, reading>>
    BY <1>4, ReadCases
  <2>2. \A i : PlainTo(i)' <=> PlainTo(i)
    BY <2>1 DEF hosts, PlainTo, Plain, Exact
  <2>3. /\ got \in Seq([held : Initial, val : Seq(Seq(net_word))])
        /\ Len(got) \in Nat /\ Len(wrote) \in Nat
    BY DEF TypeOK
  <2>4. CASE InBounds(f)
    <3>1. /\ got' = Append(got, r) /\ iter' = iter + FieldSize(f)
          /\ overrun' = overrun
      BY <1>4, <2>4, ReadCases
    <3> HIDE DEF r
    <3>2. /\ Len(got') = Len(got) + 1 /\ got'[Len(got) + 1] = r
          /\ \A i \in 1..Len(got) : got'[i] = got[i]
      BY <2>3, <3>1
    <3>3. PlainTo(Len(got) + 1) =>
            Elements(f) = f.val /\ iter' = off[Len(got) + 1]
      BY <1>1, <2>1, <3>1, AtField
    <3>4. Layout(off)'
      <4>1. PlainTo(Len(got))' => iter' = off[Len(got')]
        <5>1. PlainTo(Len(got))' <=> PlainTo(Len(got'))
          BY <2>1 DEF hosts, PlainTo, Plain, Exact
        <5> QED BY <3>2, <3>3, <5>1
      <4>2. /\ off \in [0..Len(wrote') -> Nat]
            /\ off[0] = 0 /\ off[Len(wrote')] = Len(data')
            /\ \A i \in 1..Len(wrote') :
                 PlainTo(i)' => /\ off[i] = off[i - 1] + Size(wrote'[i])
                                /\ off[i] <= Len(data')
                                /\ Lies(wrote'[i], off[i - 1], data')
        BY <1>1, <2>1, <2>2 DEF Layout
      <4> QED BY <4>1, <4>2, Zenon DEF Layout
    <3>5. ReadsPlain'
      <4>1. r.held = n /\ r.val = Held(f, n) \o Elements(f)
            /\ f = wrote[Len(got) + 1]
        BY DEF Next_field, r
      <4> HIDE DEF f
      <4>2. \A i \in 1..Len(got) + 1 :
              PlainTo(i) => got'[i].val = Held(wrote[i], got'[i].held)
                                            \o wrote[i].val
        <5> SUFFICES ASSUME NEW i \in 1..Len(got) + 1, PlainTo(i)
                     PROVE  got'[i].val = Held(wrote[i], got'[i].held)
                                            \o wrote[i].val
          OBVIOUS
        <5>1. CASE i = Len(got) + 1
          <6>1. Elements(f) = f.val
            BY <3>3, <5>1
          <6> QED BY <3>2, <4>1, <5>1, <6>1, Zenon
        <5>2. CASE i # Len(got) + 1
          <6>1. i \in 1..Len(got)
            BY <2>3, <5>2
          <6> QED BY <3>2, <6>1, Zenon DEF ReadsPlain
        <5> QED BY <5>1, <5>2
      <4>3. \A i \in 1..Len(got') :
              PlainTo(i)' => got'[i].val = Held(wrote'[i], got'[i].held)
                                             \o wrote'[i].val
        BY <2>1, <2>2, <3>2, <4>2
      <4> QED BY <4>3, Zenon DEF ReadsPlain, Held
    <3>6. OverrunInv'
      BY <2>1, <2>2, <3>1 DEF OverrunInv
    <3> QED BY <1>0, <3>4, <3>5, <3>6
  <2>5. CASE ~InBounds(f)
    <3>1. overrun' = TRUE /\ UNCHANGED <<iter, got>>
      BY <1>4, <2>5, ReadCases
    <3>2. ~PlainTo(Len(wrote))
      <4>1. ~PlainTo(Len(got) + 1)
        BY <1>1, <2>1, <2>5, AtField
      <4>2. \A j \in 1..Len(got) + 1 : j \in 1..Len(wrote)
        BY <2>1, <2>3
      <4> QED BY <4>1, <4>2 DEF PlainTo
    <3>3. Layout(off)' /\ ReadsPlain' /\ OverrunInv'
      <4>1. OverrunInv'
        BY <2>1, <2>2, <3>1, <3>2 DEF OverrunInv
      <4> QED BY <1>1, <2>1, <3>1, <4>1 DEF hosts, Layout, ReadsPlain,
                  PlainTo, Plain, Exact, Held
    <3> QED BY <1>0, <3>3
  <2> QED BY <2>4, <2>5
<1>5. CASE UNCHANGED vars
  <2>1. Layout(off)' /\ ReadsPlain' /\ OverrunInv'
    BY <1>1, <1>5 DEF vars, hosts, Layout, ReadsPlain, OverrunInv, PlainTo,
                      Plain, Exact, Held
  <2> QED BY <1>0, <2>1
<1> QED BY <1>2, <1>3, <1>4, <1>5 DEF Next

LEMMA MessageInit == Init => MessageInv
<1> SUFFICES ASSUME Init PROVE MessageInv
  OBVIOUS
<1> USE DEF Init
<1>1. TypeOK
  <2>1. /\ <<>> \in Seq(net_word) /\ <<>> \in Seq(Fields)
        /\ <<>> \in Seq([held : Initial, val : Seq(Seq(net_word))])
    BY EmptySeq
  <2>2. 0 \in Nat /\ Len(<<>>) <= Len(<<>>)
    OBVIOUS
  <2> QED BY <2>1, <2>2, Zenon DEF TypeOK
<1>2. ReadsPlain /\ OverrunInv
  BY DEF ReadsPlain, OverrunInv
<1>3. Layout([i \in {0} |-> 0])
  BY DEF Layout
<1> QED BY <1>1, <1>2, <1>3 DEF MessageInv

LEMMA MessageInvariant == Spec => []MessageInv
<1>1. MessageInv /\ [Next]_vars => MessageInv'
  BY MessageStep
<1> QED BY MessageInit, <1>1, PTL DEF Spec

-----------------------------------------------------------------------------
(* The theorems *)

\* Only a float does not lie in the message as it was.
NoFloats == \A f \in Fields : f.of # "float"

LEMMA CarriedPlain ==
  ASSUME NoFloats, TypeOK, NEW i \in 0..Len(wrote),
         \A j \in 1..i : Carried(wrote[j])
  PROVE  PlainTo(i)
<1> SUFFICES ASSUME NEW j \in 1..i PROVE Plain(wrote[j])
  BY DEF PlainTo
<1>1. wrote[j] \in Fields /\ Carried(wrote[j])
  BY DEF TypeOK
<1> QED BY <1>1 DEF Plain, Exact, Carried, NoFloats

\* What is read before the first float, or field that one of the hosts skips,
\* is what was written, whatever stands behind it.
THEOREM ReadsUpToFirstFloat == Spec => []ReadsPlain
<1>1. MessageInv => ReadsPlain
  BY DEF MessageInv
<1> QED BY MessageInvariant, <1>1, PTL

\* Whatever is written, but for floats, is read back as it was, whichever byte
\* order the writing host has and however many fields there are.
THEOREM ReadsWhatWasWritten == ASSUME NoFloats PROVE Spec => []RoundTrip
<1>1. ASSUME MessageInv PROVE RoundTrip
  <2>1. TypeOK /\ ReadsPlain
    BY <1>1 DEF MessageInv
  <2>2. ASSUME NEW i \in 1..Len(got), \A j \in 1..i : Carried(wrote[j])
        PROVE  PlainTo(i)
    <3>1. i \in 0..Len(wrote)
      BY <2>1 DEF TypeOK
    <3> QED BY <2>1, <2>2, <3>1, CarriedPlain
  <2> QED BY <2>1, <2>2 DEF RoundTrip, ReadsPlain
<1> QED BY MessageInvariant, <1>1, PTL

\* A reader of the types that were written finds every field inside the
\* message, and the end of the last one is the end of the message: for any
\* fields but floats, and hosts that carry them all.
THEOREM ReaderStaysInside == ASSUME NoFloats PROVE Spec => []WholeMessage
<1>1. ASSUME MessageInv PROVE WholeMessage
  <2>1. PICK off : Layout(off)
    BY <1>1 DEF MessageInv
  <2>2. TypeOK /\ OverrunInv /\ Len(wrote) \in Nat
    BY <1>1 DEF MessageInv, TypeOK
  <2>3. ASSUME \A j \in 1..Len(wrote) : Carried(wrote[j])
        PROVE  PlainTo(Len(wrote))
    <3>1. Len(wrote) \in 0..Len(wrote)
      BY <2>2
    <3> QED BY <2>2, <2>3, <3>1, CarriedPlain
  <2>4. PlainTo(Len(wrote)) =>
          ~overrun /\ (Len(got) = Len(wrote) => iter = Len(data))
    BY <2>1, <2>2 DEF OverrunInv, Layout
  <2> QED BY <2>3, <2>4 DEF WholeMessage
<1> QED BY MessageInvariant, <1>1, PTL

=============================================================================
