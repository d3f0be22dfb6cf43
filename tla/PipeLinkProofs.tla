--------------------------- MODULE PipeLinkProofs ---------------------------
(* A proof that a named pipe with the framing of ir_link.c is a stream of     *)
(* messages, for every size of a message, of the write queue and of the       *)
(* buffers, and for every way in which the system cuts the bytes.  The bytes  *)
(* on their way are the first bytes of some sequence of messages (Frames),    *)
(* and the messages that they hold (Whole) are what the receiver will handle. *)
EXTENDS PipeLink, SequenceTheorems, WellFoundedInduction, TLAPS

-----------------------------------------------------------------------------
(* Bytes and messages                                                         *)

Message == [kind : {"edge", "ping"}, value : Nat]
Cell    == [of : Message, part : 0..MessageSize - 1]

LEMMA SizesType ==
    /\ MessageSize \in Nat /\ MessageSize > 0
    /\ QueueSlots \in Nat /\ QueueSlots > 0
    /\ WriteBuffer \in Nat /\ WriteBuffer > 0
BY PipeAssumption

LEMMA Division ==
    ASSUME NEW e \in Int, NEW m \in Nat, m > 0
    PROVE  /\ e % m \in 0..m - 1
           /\ e \div m \in Int
           /\ e = m * (e \div m) + (e % m)
BY SMTT(30)

LEMMA DivisionIsUnique ==
    ASSUME NEW k \in Int, NEW r \in Int, NEW m \in Nat, 0 <= r, r < m
    PROVE  (m * k + r) % m = r /\ (m * k + r) \div m = k
BY SMTT(30)

LEMMA Commute == ASSUME NEW k \in Int, NEW m \in Int PROVE m * k = k * m
BY SMTT(30)

LEMMA Remainder ==
    ASSUME NEW e \in Int
    PROVE  /\ e % MessageSize \in 0..MessageSize - 1
           /\ e \div MessageSize \in Int
           /\ e = (e \div MessageSize) * MessageSize + (e % MessageSize)
<1>1. /\ e % MessageSize \in 0..MessageSize - 1
      /\ e \div MessageSize \in Int
      /\ e = MessageSize * (e \div MessageSize) + (e % MessageSize)
  BY Division, SizesType
<1>2. MessageSize * (e \div MessageSize) = (e \div MessageSize) * MessageSize
  BY <1>1, Commute, SizesType
<1> QED BY <1>1, <1>2

LEMMA RemainderIsUnique ==
    ASSUME NEW k \in Int, NEW r \in 0..MessageSize - 1
    PROVE  (k * MessageSize + r) \div MessageSize = k /\ (k * MessageSize + r) % MessageSize = r
<1>1. MessageSize * k = k * MessageSize
  BY Commute, SizesType
<1>2. (MessageSize * k + r) % MessageSize = r /\ (MessageSize * k + r) \div MessageSize = k
  BY DivisionIsUnique, SizesType
<1> QED BY <1>1, <1>2

\* The bytes of k messages, as a product.
LEMMA Product ==
    ASSUME NEW k \in Int
    PROVE  /\ k * MessageSize \in Int
           /\ (k + 1) * MessageSize = k * MessageSize + MessageSize
           /\ k = 0 => k * MessageSize = 0
           /\ k >= 0 => k * MessageSize \in Nat
           /\ k > 0 => k * MessageSize >= MessageSize
BY SizesType, SMTT(30)

LEMMA ProductOrder ==
    ASSUME NEW j \in Int, NEW k \in Int
    PROVE  /\ j <= k <=> j * MessageSize <= k * MessageSize
           /\ j < k <=> j * MessageSize < k * MessageSize
           /\ j < k => (j + 1) * MessageSize <= k * MessageSize
           /\ (j + k) * MessageSize = j * MessageSize + k * MessageSize
           /\ (j - k) * MessageSize = j * MessageSize - k * MessageSize
<1> DEFINE m == MessageSize
<1>1. m \in Int /\ m > 0
  BY SizesType
<1> HIDE DEF m
<1>2. j < k => (j + 1) * m <= k * m
  BY <1>1, SMTT(30)
<1>3. k < j => (k + 1) * m <= j * m
  BY <1>1, SMTT(30)
<1>4. (j + 1) * m = j * m + m /\ (k + 1) * m = k * m + m
  BY <1>1, SMTT(30)
<1>5. (j + k) * m = j * m + k * m /\ (j - k) * m = j * m - k * m
  BY <1>1, SMTT(30)
<1>6. j * m \in Int /\ k * m \in Int
  BY <1>1, SMT
<1>7. j = k => j * m = k * m
  OBVIOUS
<1> QED BY <1>1, <1>2, <1>3, <1>4, <1>5, <1>6, <1>7 DEF m

\* Whole messages before a byte shift its message, and not its part.
LEMMA Shift ==
    ASSUME NEW n \in Int, NEW k \in Int
    PROVE  /\ (k * MessageSize + n) \div MessageSize = k + (n \div MessageSize)
           /\ (k * MessageSize + n) % MessageSize = n % MessageSize
<1> DEFINE q == n \div MessageSize
           r == n % MessageSize
<1>1. q \in Int /\ r \in 0..MessageSize - 1 /\ n = q * MessageSize + r
  BY Remainder
<1> HIDE DEF q, r
<1>2. k * MessageSize + n = (k + q) * MessageSize + r
  BY <1>1, ProductOrder, Product, SizesType, SMT
<1>3. k + q \in Int
  BY <1>1
<1> QED BY <1>1, <1>2, <1>3, RemainderIsUnique DEF q, r

LEMMA Within ==
    ASSUME NEW n \in Nat
    PROVE  /\ n \div MessageSize \in Nat
           /\ n % MessageSize \in 0..MessageSize - 1
           /\ \A k \in Nat : n < k * MessageSize <=> n \div MessageSize < k
           /\ \A k \in Nat : k * MessageSize <= n <=> k <= n \div MessageSize
<1> DEFINE q == n \div MessageSize
           r == n % MessageSize
<1>1. q \in Int /\ r \in 0..MessageSize - 1 /\ n = q * MessageSize + r
  BY Remainder
<1> HIDE DEF q, r
<1>2. q >= 0
  <2> SUFFICES ASSUME q < 0 PROVE FALSE
    BY <1>1
  <2>1. (q + 1) * MessageSize <= 0 * MessageSize
    BY <1>1, ProductOrder
  <2>2. (q + 1) * MessageSize = q * MessageSize + MessageSize /\ 0 * MessageSize = 0
        /\ q * MessageSize \in Int
    BY <1>1, Product
  <2> QED BY <1>1, <2>1, <2>2, SizesType
<1>3. ASSUME NEW k \in Nat
      PROVE  n < k * MessageSize <=> q < k
  <2>1. q < k => (q + 1) * MessageSize <= k * MessageSize
    BY <1>1, ProductOrder
  <2>2. k <= q => k * MessageSize <= q * MessageSize
    BY <1>1, ProductOrder
  <2>3. (q + 1) * MessageSize = q * MessageSize + MessageSize
        /\ q * MessageSize \in Int /\ k * MessageSize \in Int
    BY <1>1, Product
  <2> QED BY <1>1, <2>1, <2>2, <2>3, SizesType
<1>4. ASSUME NEW k \in Nat
      PROVE  k * MessageSize <= n <=> k <= q
  BY <1>1, <1>3, Product
<1> QED BY <1>1, <1>2, <1>3, <1>4 DEF q, r

\* The byte of a sequence of messages that is in place i.
ByteAt(ms, i) == [of |-> ms[(i - 1) \div MessageSize + 1], part |-> (i - 1) % MessageSize]

LEMMA ByteType ==
    ASSUME NEW ms \in Seq(Message), NEW i \in Nat, 1 <= i, i <= Len(ms) * MessageSize
    PROVE  /\ (i - 1) \div MessageSize + 1 \in 1..Len(ms)
           /\ ByteAt(ms, i) \in Cell
<1>1. i - 1 \in Nat /\ Len(ms) \in Nat /\ Len(ms) * MessageSize \in Int
  BY Product
<1>2. i - 1 < Len(ms) * MessageSize
  BY <1>1
<1>3. /\ (i - 1) \div MessageSize \in Nat /\ (i - 1) % MessageSize \in 0..MessageSize - 1
      /\ (i - 1) \div MessageSize < Len(ms)
  BY <1>1, <1>2, Within
<1>4. (i - 1) \div MessageSize + 1 \in 1..Len(ms)
  BY <1>1, <1>3
<1>5. ms[(i - 1) \div MessageSize + 1] \in Message
  BY <1>4, ElementOfSeq
<1> QED BY <1>3, <1>4, <1>5 DEF ByteAt, Cell

LEMMA AllBytesType ==
    ASSUME NEW ms \in Seq(Message)
    PROVE  /\ AllBytes(ms) \in Seq(Cell)
           /\ Len(AllBytes(ms)) = Len(ms) * MessageSize
           /\ \A i \in 1..Len(ms) * MessageSize : AllBytes(ms)[i] = ByteAt(ms, i)
<1>1. Len(ms) \in Nat /\ Len(ms) * MessageSize \in Nat
  BY Product
<1>2. ASSUME NEW i \in 1..Len(ms) * MessageSize PROVE ByteAt(ms, i) \in Cell
  <2>1. i \in Nat /\ 1 <= i /\ i <= Len(ms) * MessageSize
    BY <1>1
  <2> QED BY <2>1, ByteType
<1>3. AllBytes(ms) = [i \in 1..Len(ms) * MessageSize |-> ByteAt(ms, i)]
  BY DEF AllBytes, ByteAt
<1> DEFINE n == Len(ms) * MessageSize
           f == [i \in 1..n |-> ByteAt(ms, i)]
<1>4. f \in [1..n -> Cell]
  BY <1>2
<1>5. n \in Nat
  BY <1>1
<1> HIDE DEF n, f
<1>6. f \in Seq(Cell) /\ Len(f) = n
  BY <1>4, <1>5
<1> QED BY <1>3, <1>6 DEF n, f

\* The parts of a single message.
LEMMA ByteOfOne ==
    ASSUME NEW m, NEW j \in 1..MessageSize
    PROVE  ByteAt(<<m>>, j) = [of |-> m, part |-> j - 1]
<1>1. j - 1 \in 0..MessageSize - 1 /\ 0 * MessageSize = 0
  BY SizesType, Product
<1>2. (0 * MessageSize + (j - 1)) \div MessageSize = 0 /\ (0 * MessageSize + (j - 1)) % MessageSize = j - 1
  BY <1>1, RemainderIsUnique
<1>3. 0 * MessageSize + (j - 1) = j - 1
  BY <1>1
<1> QED BY <1>2, <1>3 DEF ByteAt

\* The bytes after whole messages are those of the messages after them.
LEMMA ByteOfRest ==
    ASSUME NEW ms, NEW rest, NEW k \in Int, NEW i \in Int,
           rest[(i - 1) \div MessageSize + 1] = ms[k + ((i - 1) \div MessageSize + 1)]
    PROVE  ByteAt(rest, i) = ByteAt(ms, k * MessageSize + i)
<1> DEFINE q == (i - 1) \div MessageSize
           r == (i - 1) % MessageSize
<1>1. /\ (k * MessageSize + (i - 1)) \div MessageSize = k + q
      /\ (k * MessageSize + (i - 1)) % MessageSize = r
  BY Shift
<1>2. k * MessageSize + (i - 1) = (k * MessageSize + i) - 1
  BY Product
<1>3. q \in Int
  BY Remainder
<1>4. k + (q + 1) = (k + q) + 1
  BY <1>3
<1> QED BY <1>1, <1>2, <1>4 DEF ByteAt

\* A sequence after its first n entries, and a part of it.
LEMMA FromType ==
    ASSUME NEW S, NEW s \in Seq(S), NEW n \in 0..Len(s)
    PROVE  /\ From(s, n) \in Seq(S) /\ Len(From(s, n)) = Len(s) - n
           /\ \A i \in 1..Len(s) - n : From(s, n)[i] = s[n + i]
<1>1. Len(s) \in Nat /\ \A i \in n + 1..Len(s) : s[i] \in S
  BY ElementOfSeq
<1>2. /\ SubSeq(s, n + 1, Len(s)) \in Seq(S)
      /\ Len(SubSeq(s, n + 1, Len(s))) = IF n + 1 <= Len(s) THEN Len(s) - (n + 1) + 1 ELSE 0
      /\ \A i \in 1..Len(s) - (n + 1) + 1 : SubSeq(s, n + 1, Len(s))[i] = s[(n + 1) + i - 1]
  BY <1>1, SubSeqProperties
<1> QED BY <1>1, <1>2 DEF From

LEMMA PartType ==
    ASSUME NEW S, NEW s \in Seq(S), NEW a \in 0..Len(s), NEW b \in a..Len(s)
    PROVE  /\ SubSeq(s, a + 1, b) \in Seq(S) /\ Len(SubSeq(s, a + 1, b)) = b - a
           /\ \A i \in 1..b - a : SubSeq(s, a + 1, b)[i] = s[a + i]
<1>1. Len(s) \in Nat /\ \A i \in a + 1..b : s[i] \in S
  BY ElementOfSeq
<1>2. /\ SubSeq(s, a + 1, b) \in Seq(S)
      /\ Len(SubSeq(s, a + 1, b)) = IF a + 1 <= b THEN b - (a + 1) + 1 ELSE 0
      /\ \A i \in 1..b - (a + 1) + 1 : SubSeq(s, a + 1, b)[i] = s[(a + 1) + i - 1]
  BY <1>1, SubSeqProperties
<1> QED BY <1>1, <1>2

LEMMA PrefixType ==
    ASSUME NEW S, NEW s \in Seq(S), NEW n \in 0..Len(s)
    PROVE  /\ SubSeq(s, 1, n) \in Seq(S) /\ Len(SubSeq(s, 1, n)) = n
           /\ \A i \in 1..n : SubSeq(s, 1, n)[i] = s[i]
<1>1. 0 \in 0..Len(s) /\ n \in 0..Len(s) /\ n \in Nat
  OBVIOUS
<1>2. /\ SubSeq(s, 0 + 1, n) \in Seq(S) /\ Len(SubSeq(s, 0 + 1, n)) = n - 0
      /\ \A i \in 1..n - 0 : SubSeq(s, 0 + 1, n)[i] = s[0 + i]
  BY <1>1, PartType
<1> QED BY <1>1, <1>2

LEMMA PartBytes ==
    ASSUME NEW ms \in Seq(Message), NEW a \in 0..Len(ms), NEW b \in a..Len(ms)
    PROVE  AllBytes(SubSeq(ms, a + 1, b))
             = SubSeq(AllBytes(ms), a * MessageSize + 1, b * MessageSize)
<1> DEFINE part == SubSeq(ms, a + 1, b)
           am == a * MessageSize
           bm == b * MessageSize
<1>1. /\ part \in Seq(Message) /\ Len(part) = b - a
      /\ \A i \in 1..b - a : part[i] = ms[a + i]
  BY PartType
<1>2. a \in Nat /\ b \in Nat /\ a <= b /\ b <= Len(ms) /\ Len(ms) \in Nat
  OBVIOUS
<1>3. /\ am \in Nat /\ bm \in Nat /\ am <= bm /\ bm <= Len(ms) * MessageSize
      /\ (b - a) * MessageSize = bm - am
  BY <1>2, Product, ProductOrder
<1>4. /\ AllBytes(ms) \in Seq(Cell) /\ Len(AllBytes(ms)) = Len(ms) * MessageSize
      /\ \A i \in 1..Len(ms) * MessageSize : AllBytes(ms)[i] = ByteAt(ms, i)
  BY AllBytesType
<1>5. /\ AllBytes(part) \in Seq(Cell) /\ Len(AllBytes(part)) = bm - am
      /\ \A i \in 1..bm - am : AllBytes(part)[i] = ByteAt(part, i)
  BY <1>1, <1>3, AllBytesType
<1>6. Len(ms) * MessageSize \in Nat
  BY <1>2, Product
<1> DEFINE cut == SubSeq(AllBytes(ms), am + 1, bm)
<1>7. /\ cut \in Seq(Cell) /\ Len(cut) = bm - am
      /\ \A i \in 1..bm - am : cut[i] = AllBytes(ms)[am + i]
  <2> HIDE DEF am, bm
  <2>1. am \in 0..Len(AllBytes(ms)) /\ bm \in am..Len(AllBytes(ms))
    BY <1>3, <1>4, <1>6
  <2> QED BY <1>4, <2>1, PartType
<1>8. ASSUME NEW i \in 1..bm - am PROVE AllBytes(part)[i] = cut[i]
  <2>1. ByteAt(part, i) = ByteAt(ms, am + i)
    <3> DEFINE j == (i - 1) \div MessageSize + 1
    <3>1. i \in Nat /\ 1 <= i /\ i <= Len(part) * MessageSize
      BY <1>1, <1>2, <1>3
    <3>2. j \in 1..b - a
      BY <1>1, <3>1, ByteType
    <3>3. part[j] = ms[a + j]
      BY <1>1, <3>2
    <3>4. a \in Int /\ i \in Int
      BY <1>2, <3>1
    <3> HIDE DEF part
    <3> QED BY <3>3, <3>4, ByteOfRest, Zenon
  <2>2. am + i \in 1..Len(ms) * MessageSize
    BY <1>3, <1>6
  <2> QED BY <1>4, <1>5, <1>7, <2>1, <2>2
<1>9. AllBytes(part) = cut
  <2> HIDE DEF part, cut, am, bm
  <2> QED BY <1>5, <1>7, <1>8, SeqEqual
<1> QED BY <1>9

-----------------------------------------------------------------------------
(* The messages that a stream of bytes holds                                  *)

\* The bytes are those of the messages, from the first one on.
Frames(bytes, ms) ==
    /\ bytes \in Seq(Cell) /\ ms \in Seq(Message)
    /\ Len(bytes) <= Len(ms) * MessageSize
    /\ \A i \in 1..Len(bytes) : bytes[i] = ByteAt(ms, i)

\* What handle_incoming_message gets of a stream of bytes.
Whole(bytes) ==
    [i \in 1..Len(bytes) \div MessageSize |->
        Assembled(SubSeq(bytes, (i - 1) * MessageSize + 1, i * MessageSize))]

LEMMA OneMessage ==
    ASSUME NEW m \in Message
    PROVE  /\ <<m>> \in Seq(Message) /\ Len(<<m>>) * MessageSize = MessageSize
           /\ AllBytes(<<m>>) \in Seq(Cell) /\ Len(AllBytes(<<m>>)) = MessageSize
           /\ \A j \in 1..MessageSize : AllBytes(<<m>>)[j] = ByteAt(<<m>>, j)
           /\ Assembled(AllBytes(<<m>>)) = m
<1>1. <<m>> \in Seq(Message) /\ Len(<<m>>) = 1
  OBVIOUS
<1>2. 1 * MessageSize = MessageSize
  BY SizesType
<1>3. /\ AllBytes(<<m>>) \in Seq(Cell) /\ Len(AllBytes(<<m>>)) = MessageSize
      /\ \A j \in 1..MessageSize : AllBytes(<<m>>)[j] = ByteAt(<<m>>, j)
  BY <1>1, <1>2, AllBytesType
<1>4. 1 \in 1..MessageSize
  BY SizesType
<1>5. AllBytes(<<m>>)[1] = [of |-> m, part |-> 1 - 1]
  BY <1>3, <1>4, ByteOfOne
<1>6. AllBytes(<<m>>)[1].of = m
  BY <1>5
<1>7. Assembled(AllBytes(<<m>>)) = m
  BY <1>6 DEF Assembled
<1> QED BY <1>1, <1>2, <1>3, <1>7

LEMMA WholeCount ==
    ASSUME NEW bytes \in Seq(Cell), NEW ms \in Seq(Message), Len(bytes) <= Len(ms) * MessageSize
    PROVE  LET k == Len(bytes) \div MessageSize IN
           k \in 0..Len(ms) /\ k * MessageSize \in 0..Len(bytes)
<1> DEFINE k == Len(bytes) \div MessageSize
<1>1. Len(bytes) \in Nat /\ Len(ms) \in Nat
  OBVIOUS
<1>2. k \in Nat /\ k * MessageSize <= Len(bytes)
  BY <1>1, Within
<1>3. k * MessageSize \in Nat /\ Len(ms) * MessageSize \in Nat
  BY <1>1, <1>2, Product
<1>4. k <= Len(ms)
  <2>1. k * MessageSize <= Len(ms) * MessageSize
    BY <1>1, <1>2, <1>3
  <2> QED BY <1>1, <1>2, <2>1, ProductOrder
<1> QED BY <1>1, <1>2, <1>3, <1>4

\* The message with number i, out of the bytes.
LEMMA WholeMessage ==
    ASSUME NEW bytes, NEW ms, Frames(bytes, ms),
           NEW i \in Nat, 1 <= i, i * MessageSize <= Len(bytes)
    PROVE  /\ i <= Len(ms)
           /\ SubSeq(bytes, (i - 1) * MessageSize + 1, i * MessageSize) = AllBytes(<<ms[i]>>)
           /\ Assembled(SubSeq(bytes, (i - 1) * MessageSize + 1, i * MessageSize)) = ms[i]
<1> DEFINE a == (i - 1) * MessageSize
           b == i * MessageSize
           piece == SubSeq(bytes, a + 1, b)
<1>1. /\ bytes \in Seq(Cell) /\ ms \in Seq(Message)
      /\ Len(bytes) \in Nat /\ Len(ms) \in Nat
      /\ Len(bytes) <= Len(ms) * MessageSize
      /\ \A j \in 1..Len(bytes) : bytes[j] = ByteAt(ms, j)
  BY DEF Frames
<1>2. i - 1 \in Nat /\ (i - 1) + 1 = i
  OBVIOUS
<1>3. a \in Nat /\ b \in Nat /\ b = a + MessageSize /\ b <= Len(bytes)
  <2> DEFINE h == i - 1
  <2>1. h \in Int /\ h >= 0 /\ h + 1 = i
    BY <1>2
  <2> HIDE DEF h
  <2>2. h * MessageSize \in Nat /\ (h + 1) * MessageSize = h * MessageSize + MessageSize
    BY <2>1, Product, Zenon
  <2>3. i * MessageSize = h * MessageSize + MessageSize
    BY <2>1, <2>2
  <2> QED BY <2>2, <2>3, SizesType DEF h
<1>4. i <= Len(ms)
  <2>1. i * MessageSize <= Len(ms) * MessageSize
    BY <1>1, <1>3, Product
  <2> QED BY <1>1, <2>1, ProductOrder
<1>5. ms[i] \in Message
  BY <1>1, <1>4, ElementOfSeq
<1>6. /\ piece \in Seq(Cell) /\ Len(piece) = MessageSize
      /\ \A j \in 1..MessageSize : piece[j] = bytes[a + j]
  <2>1. a \in 0..Len(bytes) /\ b \in a..Len(bytes) /\ b - a = MessageSize
    BY <1>1, <1>3, SizesType
  <2> HIDE DEF a, b
  <2> QED BY <1>1, <2>1, PartType
<1>7. /\ AllBytes(<<ms[i]>>) \in Seq(Cell) /\ Len(AllBytes(<<ms[i]>>)) = MessageSize
      /\ \A j \in 1..MessageSize : AllBytes(<<ms[i]>>)[j] = ByteAt(<<ms[i]>>, j)
      /\ Assembled(AllBytes(<<ms[i]>>)) = ms[i]
  BY <1>5, OneMessage
<1>8. ASSUME NEW j \in 1..MessageSize PROVE piece[j] = AllBytes(<<ms[i]>>)[j]
  <2>1. a + j \in 1..Len(bytes)
    BY <1>1, <1>3, SizesType
  <2>2. piece[j] = ByteAt(ms, a + j)
    BY <1>1, <1>6, <2>1
  <2>3. (j - 1) \div MessageSize = 0
    <3>1. j - 1 \in 0..MessageSize - 1 /\ 0 * MessageSize + (j - 1) = j - 1
      BY SizesType, Product
    <3> QED BY <3>1, RemainderIsUnique
  <2>4. <<ms[i]>>[(j - 1) \div MessageSize + 1] = ms[(i - 1) + ((j - 1) \div MessageSize + 1)]
    BY <2>3
  <2>5. i - 1 \in Int /\ j \in Int
    OBVIOUS
  <2>6. ByteAt(<<ms[i]>>, j) = ByteAt(ms, (i - 1) * MessageSize + j)
    BY <2>4, <2>5, ByteOfRest, Zenon
  <2> QED BY <1>7, <2>2, <2>6
<1>9. piece = AllBytes(<<ms[i]>>)
  <2> HIDE DEF piece
  <2> QED BY <1>6, <1>7, <1>8, SizesType, SeqEqual
<1> QED BY <1>4, <1>7, <1>9

LEMMA FramesWhole ==
    ASSUME NEW bytes, NEW ms, Frames(bytes, ms)
    PROVE  /\ Whole(bytes) = SubSeq(ms, 1, Len(bytes) \div MessageSize)
           /\ Whole(bytes) \in Seq(Message) /\ Len(Whole(bytes)) = Len(bytes) \div MessageSize
           /\ \A i \in 1..Len(bytes) \div MessageSize : Whole(bytes)[i] = ms[i]
<1> DEFINE k == Len(bytes) \div MessageSize
<1>1. /\ bytes \in Seq(Cell) /\ ms \in Seq(Message)
      /\ Len(bytes) <= Len(ms) * MessageSize
  BY DEF Frames
<1>2. k \in 0..Len(ms) /\ k * MessageSize \in 0..Len(bytes)
  BY <1>1, WholeCount
<1>3. ASSUME NEW i \in 1..k
      PROVE  Assembled(SubSeq(bytes, (i - 1) * MessageSize + 1, i * MessageSize)) = ms[i]
  <2>1. i \in Nat /\ 1 <= i /\ i <= k /\ k \in Int /\ Len(bytes) \in Nat
    BY <1>1, <1>2
  <2>2. i * MessageSize <= k * MessageSize /\ i * MessageSize \in Int
    BY <2>1, ProductOrder, Product
  <2>3. i * MessageSize <= Len(bytes)
    BY <1>2, <2>1, <2>2
  <2> QED BY <2>1, <2>3, WholeMessage
<1>4. /\ SubSeq(ms, 1, k) \in Seq(Message) /\ Len(SubSeq(ms, 1, k)) = k
      /\ \A i \in 1..k : SubSeq(ms, 1, k)[i] = ms[i]
  <2> HIDE DEF k
  <2> QED BY <1>1, <1>2, PrefixType
<1>5. Whole(bytes) = [i \in 1..k |-> ms[i]]
  BY <1>3 DEF Whole
<1>6. \A i \in 1..k : ms[i] \in Message
  BY <1>1, <1>2, ElementOfSeq
<1> HIDE DEF k
<1>7. Whole(bytes) \in Seq(Message) /\ Len(Whole(bytes)) = k
  BY <1>2, <1>5, <1>6
<1>8. \A i \in 1..k : Whole(bytes)[i] = ms[i]
  BY <1>5
<1>9. Whole(bytes) = SubSeq(ms, 1, k)
  BY <1>4, <1>7, <1>8, SeqEqual
<1> QED BY <1>7, <1>8, <1>9 DEF k

\* The end of a stream of bytes is lost.
LEMMA FramesPrefix ==
    ASSUME NEW bytes, NEW ms, Frames(bytes, ms), NEW n \in 0..Len(bytes)
    PROVE  /\ Frames(SubSeq(bytes, 1, n), ms)
           /\ n \div MessageSize \in 0..Len(Whole(bytes))
           /\ Whole(SubSeq(bytes, 1, n)) = SubSeq(Whole(bytes), 1, n \div MessageSize)
<1> DEFINE cut == SubSeq(bytes, 1, n)
           c == n \div MessageSize
           k == Len(bytes) \div MessageSize
<1>1. /\ bytes \in Seq(Cell) /\ ms \in Seq(Message)
      /\ Len(bytes) \in Nat /\ n \in Nat /\ n <= Len(bytes)
      /\ Len(bytes) <= Len(ms) * MessageSize /\ Len(ms) * MessageSize \in Nat
      /\ \A i \in 1..Len(bytes) : bytes[i] = ByteAt(ms, i)
  <2>1. Len(ms) * MessageSize \in Nat
    <3>1. ms \in Seq(Message)
      BY DEF Frames
    <3>2. Len(ms) \in Int /\ Len(ms) >= 0
      BY <3>1
    <3> QED BY <3>2, Product, Zenon
  <2> QED BY <2>1 DEF Frames
<1>2. cut \in Seq(Cell) /\ Len(cut) = n /\ \A i \in 1..n : cut[i] = bytes[i]
  BY <1>1, PrefixType
<1> HIDE DEF cut
<1>3. Frames(cut, ms)
  <2>1. \A i \in 1..n : i \in 1..Len(bytes)
    BY <1>1
  <2> QED BY <1>1, <1>2, <2>1 DEF Frames
<1>4. /\ Whole(bytes) \in Seq(Message) /\ Len(Whole(bytes)) = k
      /\ \A i \in 1..k : Whole(bytes)[i] = ms[i]
  BY FramesWhole
<1>5. /\ Whole(cut) \in Seq(Message) /\ Len(Whole(cut)) = c
      /\ \A i \in 1..c : Whole(cut)[i] = ms[i]
  BY <1>2, <1>3, FramesWhole
<1>6. c \in Nat /\ k \in Nat /\ c <= k
  <2>1. /\ c \in Nat /\ c * MessageSize <= n
    BY <1>1, Within
  <2>2. k \in Nat /\ (c * MessageSize <= Len(bytes) <=> c <= k)
    BY <1>1, <2>1, Within
  <2>3. c * MessageSize \in Int
    BY <2>1, Product
  <2> QED BY <1>1, <2>1, <2>2, <2>3
<1> HIDE DEF c, k
<1>7. /\ SubSeq(Whole(bytes), 1, c) \in Seq(Message) /\ Len(SubSeq(Whole(bytes), 1, c)) = c
      /\ \A i \in 1..c : SubSeq(Whole(bytes), 1, c)[i] = Whole(bytes)[i]
  BY <1>4, <1>6, PrefixType
<1>8. \A i \in 1..c : SubSeq(Whole(bytes), 1, c)[i] = Whole(cut)[i]
  BY <1>4, <1>5, <1>6, <1>7
<1>9. Whole(cut) = SubSeq(Whole(bytes), 1, c)
  BY <1>5, <1>7, <1>8, SeqEqual
<1> QED BY <1>3, <1>4, <1>6, <1>9 DEF c, cut

\* The first message leaves a stream of bytes.
LEMMA FramesDrop ==
    ASSUME NEW bytes, NEW ms, Frames(bytes, ms), MessageSize <= Len(bytes)
    PROVE  /\ Frames(From(bytes, MessageSize), From(ms, 1))
           /\ Whole(bytes) # <<>>
           /\ Head(Whole(bytes)) = Assembled(SubSeq(bytes, 1, MessageSize))
           /\ Tail(Whole(bytes)) = Whole(From(bytes, MessageSize))
           /\ Len(From(bytes, MessageSize)) % MessageSize = Len(bytes) % MessageSize
<1> DEFINE rest == From(bytes, MessageSize)
           after == From(ms, 1)
           k == Len(bytes) \div MessageSize
           n == Len(bytes) - MessageSize
<1>1. /\ bytes \in Seq(Cell) /\ ms \in Seq(Message)
      /\ Len(bytes) \in Nat /\ n \in Nat /\ Len(ms) \in Nat
      /\ Len(bytes) <= Len(ms) * MessageSize
      /\ \A i \in 1..Len(bytes) : bytes[i] = ByteAt(ms, i)
  BY SizesType DEF Frames
<1>2. /\ rest \in Seq(Cell) /\ Len(rest) = n
      /\ \A i \in 1..n : rest[i] = bytes[MessageSize + i]
  <2>1. MessageSize \in 0..Len(bytes)
    BY <1>1, SizesType
  <2> QED BY <1>1, <2>1, FromType
<1>3. 1 * MessageSize = MessageSize /\ 0 * MessageSize = 0
  BY SizesType, Product
<1>4. /\ 1 <= Len(ms)
      /\ SubSeq(bytes, 0 * MessageSize + 1, 1 * MessageSize) = AllBytes(<<ms[1]>>)
      /\ Assembled(SubSeq(bytes, 0 * MessageSize + 1, 1 * MessageSize)) = ms[1]
  <2>1. 1 \in Nat /\ 1 <= 1 /\ 1 * MessageSize <= Len(bytes)
    BY <1>3
  <2>2. /\ 1 <= Len(ms)
        /\ SubSeq(bytes, (1 - 1) * MessageSize + 1, 1 * MessageSize) = AllBytes(<<ms[1]>>)
        /\ Assembled(SubSeq(bytes, (1 - 1) * MessageSize + 1, 1 * MessageSize)) = ms[1]
    BY <2>1, WholeMessage
  <2> QED BY <2>2
<1>5. /\ after \in Seq(Message) /\ Len(after) = Len(ms) - 1
      /\ \A i \in 1..Len(ms) - 1 : after[i] = ms[1 + i]
  <2>1. 1 \in 0..Len(ms)
    BY <1>1, <1>4
  <2> QED BY <1>1, <2>1, FromType
<1> HIDE DEF rest, after
<1>6. (Len(ms) - 1) * MessageSize = Len(ms) * MessageSize - MessageSize /\ Len(ms) * MessageSize \in Int
  <2>1. Len(ms) \in Int /\ 1 \in Int
    BY <1>1
  <2>2. (Len(ms) - 1) * MessageSize = Len(ms) * MessageSize - 1 * MessageSize
    BY <2>1, ProductOrder, Zenon
  <2> QED BY <1>3, <2>1, <2>2, Product
<1>7. Frames(rest, after)
  <2>1. Len(rest) <= Len(after) * MessageSize
    BY <1>1, <1>2, <1>5, <1>6, SizesType
  <2>2. ASSUME NEW i \in 1..n PROVE rest[i] = ByteAt(after, i)
    <3> DEFINE j == (i - 1) \div MessageSize + 1
    <3>1. i \in Nat /\ 1 <= i /\ i <= Len(after) * MessageSize
      <4>1. n <= Len(after) * MessageSize /\ Len(after) * MessageSize \in Int /\ n \in Nat
        BY <1>1, <1>2, <1>5, <1>6, <2>1, SizesType
      <4> DEFINE p == Len(after) * MessageSize
      <4> HIDE DEF n, p
      <4>2. n <= p /\ p \in Int /\ n \in Nat
        BY <4>1 DEF p
      <4>3. i \in Nat /\ 1 <= i /\ i <= p
        BY <4>2
      <4> QED BY <4>3 DEF p
    <3>2. j \in 1..Len(ms) - 1
      BY <1>5, <3>1, ByteType
    <3>3. after[j] = ms[1 + j]
      BY <1>5, <3>2
    <3>4. 1 \in Int /\ i \in Int
      BY <3>1
    <3>5. ByteAt(after, i) = ByteAt(ms, 1 * MessageSize + i)
      BY <3>3, <3>4, ByteOfRest, ZenonT(60)
    <3>6. MessageSize + i \in 1..Len(bytes)
      BY <1>1, SizesType
    <3> QED BY <1>1, <1>2, <1>3, <3>5, <3>6
  <2> QED BY <1>2, <1>5, <2>1, <2>2 DEF Frames
<1>8. n \div MessageSize = k - 1 /\ n % MessageSize = Len(bytes) % MessageSize /\ k \in Int
  <2>1. -1 \in Int /\ Len(bytes) \in Int
    BY <1>1
  <2>2. /\ ((-1) * MessageSize + Len(bytes)) \div MessageSize = -1 + k
        /\ ((-1) * MessageSize + Len(bytes)) % MessageSize = Len(bytes) % MessageSize
    BY <2>1, Shift
  <2>3. (-1) * MessageSize + Len(bytes) = n
    BY <2>1, SizesType
  <2>4. k \in Int
    BY <2>1, Remainder
  <2> QED BY <2>2, <2>3, <2>4
<1>9. /\ Whole(bytes) \in Seq(Message) /\ Len(Whole(bytes)) = k
      /\ \A i \in 1..k : Whole(bytes)[i] = ms[i]
  BY FramesWhole
<1>10. /\ Whole(rest) \in Seq(Message) /\ Len(Whole(rest)) = k - 1
       /\ \A i \in 1..k - 1 : Whole(rest)[i] = after[i]
  BY <1>2, <1>7, <1>8, FramesWhole
<1> HIDE DEF k, n
<1>11. k >= 1
  BY <1>8, <1>10
<1>12. k <= Len(ms)
  <2>1. k \in 0..Len(ms)
    BY <1>1, WholeCount DEF k
  <2> QED BY <1>1, <2>1
<1>13. Whole(bytes) # <<>> /\ Head(Whole(bytes)) = ms[1]
  BY <1>9, <1>11, <1>8
<1>14. /\ Tail(Whole(bytes)) \in Seq(Message) /\ Len(Tail(Whole(bytes))) = k - 1
       /\ \A i \in 1..k - 1 : Tail(Whole(bytes))[i] = Whole(bytes)[i + 1]
  BY <1>9, <1>13, HeadTailProperties
<1>15. ASSUME NEW i \in 1..k - 1 PROVE Tail(Whole(bytes))[i] = Whole(rest)[i]
  <2>1. i + 1 \in 1..k /\ i \in 1..Len(ms) - 1 /\ 1 + i = i + 1
    BY <1>1, <1>8, <1>12
  <2>2. Tail(Whole(bytes))[i] = ms[i + 1]
    BY <1>9, <1>14, <2>1
  <2>3. Whole(rest)[i] = ms[1 + i]
    BY <1>5, <1>10, <2>1
  <2> QED BY <2>1, <2>2, <2>3
<1>16. Tail(Whole(bytes)) = Whole(rest)
  BY <1>10, <1>14, <1>15, SeqEqual
<1>17. Head(Whole(bytes)) = Assembled(SubSeq(bytes, 1, MessageSize))
  <2>1. 0 * MessageSize + 1 = 1 /\ 1 * MessageSize = MessageSize
    BY <1>3
  <2> QED BY <1>4, <1>13, <2>1, Zenon
<1> QED BY <1>2, <1>7, <1>8, <1>13, <1>16, <1>17 DEF rest, after, n

\* Whole messages come to the end of a stream of whole messages.
LEMMA FramesAppend ==
    ASSUME NEW bytes, NEW ms, Frames(bytes, ms), Len(bytes) % MessageSize = 0,
           NEW more \in Seq(Message)
    PROVE  /\ Frames(bytes \o AllBytes(more), Whole(bytes) \o more)
           /\ Whole(bytes \o AllBytes(more)) = Whole(bytes) \o more
           /\ Len(bytes \o AllBytes(more)) % MessageSize = 0
<1> DEFINE k == Len(bytes) \div MessageSize
           n == Len(more)
           all == bytes \o AllBytes(more)
           both == Whole(bytes) \o more
<1>1. /\ bytes \in Seq(Cell) /\ ms \in Seq(Message)
      /\ Len(bytes) \in Nat /\ Len(ms) \in Nat /\ n \in Nat
      /\ Len(bytes) <= Len(ms) * MessageSize
      /\ \A i \in 1..Len(bytes) : bytes[i] = ByteAt(ms, i)
  BY DEF Frames
<1>2. k \in Nat /\ Len(bytes) = k * MessageSize
  <2>1. k \in Int /\ Len(bytes) = k * MessageSize + (Len(bytes) % MessageSize)
    BY <1>1, Remainder
  <2>2. k \in Nat
    BY <1>1, Within
  <2> QED BY <1>1, <2>1, <2>2, Product
<1>3. /\ AllBytes(more) \in Seq(Cell) /\ Len(AllBytes(more)) = n * MessageSize
      /\ \A i \in 1..n * MessageSize : AllBytes(more)[i] = ByteAt(more, i)
  BY AllBytesType
<1>4. /\ Whole(bytes) \in Seq(Message) /\ Len(Whole(bytes)) = k
      /\ \A i \in 1..k : Whole(bytes)[i] = ms[i]
  BY FramesWhole
<1>5. /\ both \in Seq(Message) /\ Len(both) = k + n
      /\ \A i \in 1..k + n : both[i] = IF i <= k THEN Whole(bytes)[i] ELSE more[i - k]
  <2> DEFINE old == Whole(bytes)
  <2>1. old \in Seq(Message) /\ Len(old) = k
    BY <1>4
  <2> HIDE DEF old, k
  <2>2. /\ old \o more \in Seq(Message) /\ Len(old \o more) = Len(old) + Len(more)
        /\ \A i \in 1..Len(old) + Len(more) : (old \o more)[i]
              = IF i <= Len(old) THEN old[i] ELSE more[i - Len(old)]
    BY <2>1, ConcatProperties
  <2> QED BY <2>1, <2>2, Zenon DEF old
<1> DEFINE km == k * MessageSize
           nm == n * MessageSize
<1>6. km \in Nat /\ nm \in Nat /\ (k + n) * MessageSize = km + nm
  <2> HIDE DEF k, n
  <2>1. k \in Int /\ n \in Int /\ k >= 0 /\ n >= 0
    BY <1>1, <1>2
  <2>2. (k + n) * MessageSize = k * MessageSize + n * MessageSize
    BY <2>1, ProductOrder, Zenon
  <2>3. k * MessageSize \in Nat /\ n * MessageSize \in Nat
    BY <2>1, Product, Zenon
  <2> QED BY <2>2, <2>3
<1>7. /\ all \in Seq(Cell) /\ Len(all) = km + nm
      /\ \A i \in 1..km + nm : all[i] = IF i <= km THEN bytes[i] ELSE AllBytes(more)[i - km]
  <2> DEFINE new == AllBytes(more)
  <2>1. bytes \in Seq(Cell) /\ new \in Seq(Cell) /\ Len(bytes) = km /\ Len(new) = nm
    BY <1>1, <1>2, <1>3
  <2> HIDE DEF new, km, nm
  <2>2. /\ bytes \o new \in Seq(Cell) /\ Len(bytes \o new) = Len(bytes) + Len(new)
        /\ \A i \in 1..Len(bytes) + Len(new) : (bytes \o new)[i]
              = IF i <= Len(bytes) THEN bytes[i] ELSE new[i - Len(bytes)]
    BY <2>1, ConcatProperties
  <2> QED BY <2>1, <2>2, Zenon DEF new
<1>8. ASSUME NEW i \in 1..km + nm PROVE all[i] = ByteAt(both, i)
  <2>1. CASE i <= km
    <3> DEFINE q == (i - 1) \div MessageSize + 1
    <3>1. i - 1 \in Nat /\ i - 1 < k * MessageSize
      BY <1>6, <2>1
    <3>2. (i - 1) \div MessageSize \in Nat /\ (i - 1) \div MessageSize < k
      BY <1>2, <3>1, Within
    <3>3. q \in 1..k
      BY <1>2, <3>2
    <3> HIDE DEF k, n
    <3>4. q \in 1..k + n /\ q <= k
      BY <1>1, <1>2, <3>3
    <3>5. both[q] = ms[q]
      BY <1>4, <1>5, <3>3, <3>4
    <3>6. ByteAt(both, i) = ByteAt(ms, i)
      BY <3>5 DEF ByteAt
    <3>7. i \in 1..Len(bytes)
      BY <1>2, <1>6, <2>1
    <3> QED BY <1>1, <1>7, <2>1, <3>6, <3>7
  <2>2. CASE ~(i <= km)
    <3> DEFINE h == i - km
               j == (h - 1) \div MessageSize + 1
    <3>1. h \in 1..nm /\ h \in Nat /\ 1 <= h /\ h <= Len(more) * MessageSize /\ km + h = i
      BY <1>6, <2>2
    <3> HIDE DEF h
    <3>2. j \in 1..n
      BY <3>1, ByteType
    <3> HIDE DEF j, k, n
    <3>3. k + j \in 1..k + n /\ ~(k + j <= k) /\ (k + j) - k = j
      BY <1>1, <1>2, <3>2
    <3>4. more[j] = both[k + j]
      BY <1>5, <3>3
    <3>5. k \in Int /\ h \in Int
      BY <1>2, <3>1
    <3>6. ByteAt(more, h) = ByteAt(both, k * MessageSize + h)
      BY <3>4, <3>5, ByteOfRest, Zenon DEF j
    <3>7. all[i] = AllBytes(more)[h]
      BY <1>7, <2>2 DEF h
    <3> QED BY <1>3, <3>1, <3>6, <3>7
  <2> QED BY <2>1, <2>2
<1> HIDE DEF k, n, all, both, km, nm
<1>9. Frames(all, both)
  <2>1. Len(both) * MessageSize = km + nm
    BY <1>5, <1>6
  <2>2. km + nm \in Nat
    BY <1>6
  <2> QED BY <1>5, <1>7, <1>8, <2>1, <2>2 DEF Frames
<1>10. Len(all) \div MessageSize = k + n /\ Len(all) % MessageSize = 0
  <2>1. k + n \in Int /\ 0 \in 0..MessageSize - 1
    BY <1>1, <1>2, SizesType
  <2>2. /\ ((k + n) * MessageSize + 0) \div MessageSize = k + n
        /\ ((k + n) * MessageSize + 0) % MessageSize = 0
    BY <2>1, RemainderIsUnique, Zenon
  <2>3. (k + n) * MessageSize + 0 = km + nm
    BY <1>6
  <2> QED BY <1>7, <2>2, <2>3
<1>11. /\ Whole(all) \in Seq(Message) /\ Len(Whole(all)) = k + n
       /\ \A i \in 1..k + n : Whole(all)[i] = both[i]
  BY <1>9, <1>10, FramesWhole
<1>12. Whole(all) = both
  BY <1>5, <1>11, SeqEqual
<1> QED BY <1>9, <1>10, <1>12 DEF all, both

-----------------------------------------------------------------------------
(* Parts of sequences                                                         *)

LEMMA FromOfPart ==
    ASSUME NEW S, NEW s \in Seq(S), NEW a \in 0..Len(s), NEW b \in a..Len(s), NEW n \in 0..b - a
    PROVE  From(SubSeq(s, a + 1, b), n) = SubSeq(s, (a + n) + 1, b)
<1> DEFINE cut == SubSeq(s, a + 1, b)
           left == From(cut, n)
           right == SubSeq(s, (a + n) + 1, b)
<1>1. cut \in Seq(S) /\ Len(cut) = b - a /\ \A i \in 1..b - a : cut[i] = s[a + i]
  BY PartType
<1>2. a \in Nat /\ b \in Nat /\ n \in Nat /\ Len(s) \in Nat /\ a + n <= b /\ b <= Len(s)
  OBVIOUS
<1> HIDE DEF cut
<1>3. left \in Seq(S) /\ Len(left) = b - a - n /\ \A i \in 1..b - a - n : left[i] = cut[n + i]
  <2>1. n \in 0..Len(cut) /\ Len(cut) - n = b - a - n
    BY <1>1, <1>2
  <2>2. /\ left \in Seq(S) /\ Len(left) = Len(cut) - n
        /\ \A i \in 1..Len(cut) - n : left[i] = cut[n + i]
    BY <1>1, <2>1, FromType
  <2> QED BY <2>1, <2>2
<1>4. /\ right \in Seq(S) /\ Len(right) = b - (a + n)
      /\ \A i \in 1..b - (a + n) : right[i] = s[(a + n) + i]
  <2> DEFINE h == a + n
  <2>1. h \in 0..Len(s) /\ b \in h..Len(s)
    BY <1>2
  <2> HIDE DEF h
  <2>2. /\ SubSeq(s, h + 1, b) \in Seq(S) /\ Len(SubSeq(s, h + 1, b)) = b - h
        /\ \A i \in 1..b - h : SubSeq(s, h + 1, b)[i] = s[h + i]
    BY <2>1, PartType
  <2> QED BY <2>2 DEF h
<1> HIDE DEF left, right
<1>5. Len(left) = Len(right)
  BY <1>2, <1>3, <1>4
<1>6. ASSUME NEW i \in 1..Len(left) PROVE left[i] = right[i]
  <2>1. i \in 1..b - a - n /\ i \in 1..b - (a + n) /\ n + i \in 1..b - a /\ a + (n + i) = (a + n) + i
    BY <1>2, <1>3
  <2> QED BY <1>1, <1>3, <1>4, <2>1
<1>7. left = right
  BY <1>3, <1>4, <1>5, <1>6, SeqEqual
<1> QED BY <1>7 DEF left, right, cut

LEMMA StartOfPart ==
    ASSUME NEW S, NEW s \in Seq(S), NEW a \in 0..Len(s), NEW b \in a..Len(s), NEW n \in 0..b - a
    PROVE  SubSeq(SubSeq(s, a + 1, b), 1, n) = SubSeq(s, a + 1, a + n)
<1> DEFINE cut == SubSeq(s, a + 1, b)
           left == SubSeq(cut, 1, n)
           right == SubSeq(s, a + 1, a + n)
<1>1. cut \in Seq(S) /\ Len(cut) = b - a /\ \A i \in 1..b - a : cut[i] = s[a + i]
  BY PartType
<1>2. a \in Nat /\ b \in Nat /\ n \in Nat /\ Len(s) \in Nat /\ a + n <= b /\ b <= Len(s)
  OBVIOUS
<1> HIDE DEF cut
<1>3. left \in Seq(S) /\ Len(left) = n /\ \A i \in 1..n : left[i] = cut[i]
  BY <1>1, <1>2, PrefixType
<1>4. right \in Seq(S) /\ Len(right) = n /\ \A i \in 1..n : right[i] = s[a + i]
  <2> DEFINE h == a + n
  <2>1. h \in a..Len(s) /\ h - a = n
    BY <1>2
  <2> HIDE DEF h
  <2>2. /\ SubSeq(s, a + 1, h) \in Seq(S) /\ Len(SubSeq(s, a + 1, h)) = h - a
        /\ \A i \in 1..h - a : SubSeq(s, a + 1, h)[i] = s[a + i]
    BY <2>1, PartType
  <2> QED BY <2>1, <2>2 DEF h
<1> HIDE DEF left, right
<1>5. ASSUME NEW i \in 1..Len(left) PROVE left[i] = right[i]
  <2>1. i \in 1..n /\ i \in 1..b - a
    BY <1>2, <1>3
  <2> QED BY <1>1, <1>3, <1>4, <2>1
<1>6. left = right
  BY <1>3, <1>4, <1>5, SeqEqual
<1> QED BY <1>6 DEF left, right, cut

LEMMA JoinedParts ==
    ASSUME NEW S, NEW s \in Seq(S), NEW a \in 0..Len(s), NEW b \in a..Len(s), NEW c \in b..Len(s)
    PROVE  SubSeq(s, a + 1, b) \o SubSeq(s, b + 1, c) = SubSeq(s, a + 1, c)
<1>1. a + 1 \in 1..Len(s) + 1 /\ b \in (a + 1) - 1..Len(s) /\ c \in b..Len(s)
  BY Len(s) \in Nat
<1> DEFINE h == a + 1
<1> HIDE DEF h
<1>2. h \in 1..Len(s) + 1 /\ b \in h - 1..Len(s)
  BY <1>1 DEF h
<1>3. SubSeq(s, h, b) \o SubSeq(s, b + 1, c) = SubSeq(s, h, c)
  BY <1>2, ConcatAdjacentSubSeq
<1> QED BY <1>3 DEF h

LEMMA SplitAt ==
    ASSUME NEW S, NEW s \in Seq(S), NEW n \in 0..Len(s)
    PROVE  /\ SubSeq(s, 1, n) \in Seq(S) /\ Len(SubSeq(s, 1, n)) = n
           /\ SubSeq(s, 1, n) \o From(s, n) = s
<1>1. 0 \in 0..Len(s) /\ n \in 0..Len(s) /\ Len(s) \in n..Len(s) /\ n \in Nat
  BY Len(s) \in Nat
<1>2. SubSeq(s, 0 + 1, n) \o SubSeq(s, n + 1, Len(s)) = SubSeq(s, 0 + 1, Len(s))
  BY <1>1, JoinedParts
<1>3. SubSeq(s, 0 + 1, n) \in Seq(S) /\ Len(SubSeq(s, 0 + 1, n)) = n - 0
  BY <1>1, PartType
<1>4. SubSeq(s, 1, Len(s)) = s
  BY SubSeqFull
<1>5. 0 + 1 = 1 /\ n - 0 = n
  BY <1>1
<1> QED BY <1>2, <1>3, <1>4, <1>5, Zenon DEF From

LEMMA LeastNumber ==
    ASSUME NEW T \in SUBSET Nat, T # {}
    PROVE  \E x \in T : \A y \in T : x <= y
<1> DEFINE R == OpToRel(<, Nat)
<1>0. IsWellFoundedOn(R, Nat) BY NatLessThanWellFounded
<1> HIDE DEF R
<1>1. PICK x \in T : \A y \in T : ~(<<y, x>> \in R)
  BY <1>0, WFMin
<1>2. ASSUME NEW y \in T PROVE x <= y
  <2>1. ~(y < x)
    BY <1>1 DEF R, OpToRel
  <2> QED BY <2>1
<1> QED BY <1>2

-----------------------------------------------------------------------------
(* The write queue                                                            *)

QueueOK(q) ==
    /\ q \in [messages : Seq(Message), head : 0..QueueSlots - 1, offset : 0..MessageSize - 1]
    /\ q.offset # 0 => q.messages # <<>>

\* The bytes of a message that the transport took in part.
Rest(q) ==
    IF q.offset = 0 THEN <<>> ELSE From(AllBytes(SubSeq(q.messages, 1, 1)), q.offset)

\* The number of messages of a queue that the transport took a byte of.
Touched(q) == IF q.offset = 0 THEN 0 ELSE 1

Bare(m) == IF m.kind = "ping" THEN Ping(0) ELSE m

\* writable_run is a PING alone or a run of edges.
LEMMA RunOfQueue ==
    ASSUME NEW q, QueueOK(q), q.messages # <<>>
    PROVE  /\ WritableRun(q) \in 1..Len(q.messages)
           /\ \/ WritableRun(q) = 1 /\ q.messages[1].kind = "ping"
              \/ \A i \in 1..WritableRun(q) : q.messages[i].kind = "edge"
<1> DEFINE limit == Least(Len(q.messages), QueueSlots - q.head)
           timed == {i \in 1..limit : q.messages[i].kind = "ping"}
           first == CHOOSE i \in timed : \A j \in timed : i <= j
<1>1. /\ q.messages \in Seq(Message) /\ q.head \in 0..QueueSlots - 1
      /\ Len(q.messages) \in Nat /\ Len(q.messages) >= 1
  BY DEF QueueOK
<1>2. limit \in 1..Len(q.messages)
  BY <1>1, SizesType DEF Least
<1>3. WritableRun(q) = CASE timed = {} -> limit
                         [] 1 \in timed -> 1
                         [] OTHER -> first - 1
  BY DEF WritableRun
<1> HIDE DEF limit
<1>4. \A i \in 1..limit : q.messages[i] \in Message
  BY <1>1, <1>2, ElementOfSeq
<1>5. \A i \in 1..limit : i \notin timed => q.messages[i].kind = "edge"
  BY <1>4 DEF Message
<1>6. CASE timed = {}
  BY <1>2, <1>3, <1>5, <1>6
<1>7. CASE 1 \in timed
  <2>1. WritableRun(q) = 1
    BY <1>3, <1>7
  <2> QED BY <1>1, <1>7, <2>1
<1>8. CASE timed # {} /\ 1 \notin timed
  <2>1. timed \in SUBSET Nat
    BY <1>2
  <2>2. first \in timed /\ \A j \in timed : first <= j
    <3> HIDE DEF timed
    <3> QED BY <1>8, <2>1, LeastNumber
  <2>3. WritableRun(q) = first - 1
    BY <1>3, <1>8
  <2> HIDE DEF first
  <2>4. first \in 2..limit
    BY <1>2, <1>8, <2>2
  <2>5. ASSUME NEW i \in 1..first - 1 PROVE q.messages[i].kind = "edge"
    <3>1. i \in 1..limit /\ ~(first <= i)
      BY <1>2, <2>4
    <3>2. i \notin timed
      BY <2>2, <3>1
    <3> QED BY <1>5, <3>1, <3>2
  <2> QED BY <1>2, <2>3, <2>4, <2>5
<1> QED BY <1>6, <1>7, <1>8

LEMMA RestIsPart ==
    ASSUME NEW q, QueueOK(q)
    PROVE  /\ Touched(q) \in 0..Len(q.messages)
           /\ q.offset <= Touched(q) * MessageSize
           /\ Touched(q) * MessageSize <= Len(q.messages) * MessageSize
           /\ Rest(q) = SubSeq(AllBytes(q.messages), q.offset + 1, Touched(q) * MessageSize)
           /\ Rest(q) \in Seq(Cell)
<1> DEFINE G == AllBytes(q.messages)
<1>1. /\ q.messages \in Seq(Message) /\ q.offset \in 0..MessageSize - 1
      /\ Len(q.messages) \in Nat /\ (q.offset # 0 => Len(q.messages) >= 1)
  BY DEF QueueOK
<1>2. /\ 0 * MessageSize = 0 /\ 1 * MessageSize = MessageSize
      /\ Len(q.messages) * MessageSize \in Nat
      /\ Len(q.messages) >= 1 => MessageSize <= Len(q.messages) * MessageSize
  BY <1>1, SizesType, Product
<1>3. G \in Seq(Cell) /\ Len(G) = Len(q.messages) * MessageSize
  BY <1>1, AllBytesType
<1>4. CASE q.offset = 0
  <2>1. Touched(q) = 0 /\ Rest(q) = <<>>
    BY <1>4 DEF Touched, Rest
  <2>2. SubSeq(G, 0 + 1, 0) = <<>>
    BY SubSeqEmpty
  <2> QED BY <1>1, <1>2, <1>4, <2>1, <2>2
<1>5. CASE q.offset # 0
  <2>1. Touched(q) = 1 /\ Rest(q) = From(AllBytes(SubSeq(q.messages, 1, 1)), q.offset)
    BY <1>5 DEF Touched, Rest
  <2>2. 0 \in 0..Len(q.messages) /\ 1 \in 0..Len(q.messages)
    BY <1>1, <1>5
  <2>3. AllBytes(SubSeq(q.messages, 0 + 1, 1)) = SubSeq(G, 0 * MessageSize + 1, 1 * MessageSize)
    BY <1>1, <2>2, PartBytes
  <2>4. AllBytes(SubSeq(q.messages, 1, 1)) = SubSeq(G, 0 + 1, MessageSize)
    BY <1>2, <2>3
  <2> HIDE DEF G
  <2>5. /\ 0 \in 0..Len(G) /\ MessageSize \in 0..Len(G) /\ q.offset \in 0..MessageSize - 0
        /\ MessageSize \in q.offset..Len(G) /\ q.offset \in 0..Len(G)
    BY <1>1, <1>2, <1>3, <1>5, SizesType
  <2>6. From(SubSeq(G, 0 + 1, MessageSize), q.offset) = SubSeq(G, (0 + q.offset) + 1, MessageSize)
    BY <1>3, <2>5, FromOfPart
  <2>7. SubSeq(G, q.offset + 1, MessageSize) \in Seq(Cell)
    BY <1>3, <2>5, PartType
  <2>8. Rest(q) = SubSeq(G, q.offset + 1, MessageSize)
    <3>1. 0 + q.offset = q.offset
      BY <1>1
    <3> QED BY <2>1, <2>4, <2>6, <3>1, Zenon
  <2>9. /\ Touched(q) * MessageSize = MessageSize /\ 1 \in 0..Len(q.messages)
        /\ q.offset <= MessageSize /\ MessageSize <= Len(q.messages) * MessageSize
    <3>1. Touched(q) * MessageSize = MessageSize
      BY <1>2, <2>1, Zenon
    <3>2. 1 \in 0..Len(q.messages) /\ q.offset <= MessageSize
      BY <1>1, <1>5, SizesType
    <3>3. MessageSize <= Len(q.messages) * MessageSize
      BY <1>1, <1>2, <1>5
    <3> QED BY <3>1, <3>2, <3>3
  <2> QED BY <2>1, <2>7, <2>8, <2>9, Zenon DEF G
<1> QED BY <1>4, <1>5

\* The bytes of a run that poll_write offers to the transport.
LEMMA OfferType ==
    ASSUME NEW q, QueueOK(q), NEW n \in 1..Len(q.messages)
    PROVE  LET bytes == From(AllBytes(SubSeq(q.messages, 1, n)), q.offset) IN
           /\ bytes = SubSeq(AllBytes(q.messages), q.offset + 1, n * MessageSize)
           /\ bytes \in Seq(Cell)
           /\ Len(bytes) = n * MessageSize - q.offset /\ Len(bytes) \in Nat \ {0}
           /\ n * MessageSize <= Len(q.messages) * MessageSize
<1> DEFINE G == AllBytes(q.messages)
           nm == n * MessageSize
           bytes == From(AllBytes(SubSeq(q.messages, 1, n)), q.offset)
<1>1. /\ q.messages \in Seq(Message) /\ q.offset \in 0..MessageSize - 1
      /\ Len(q.messages) \in Nat /\ n \in Int /\ 0 < n /\ n <= Len(q.messages)
  BY DEF QueueOK
<1>2. 0 * MessageSize = 0 /\ Len(q.messages) * MessageSize \in Int
  BY <1>1, Product, SizesType
<1>3. nm \in Int /\ nm >= MessageSize
  BY <1>1, Product
<1>4. nm <= Len(q.messages) * MessageSize
  <2>1. Len(q.messages) \in Int
    BY <1>1
  <2> QED BY <1>1, <2>1, ProductOrder, Zenon
<1>5. G \in Seq(Cell) /\ Len(G) = Len(q.messages) * MessageSize
  BY <1>1, AllBytesType
<1>6. AllBytes(SubSeq(q.messages, 1, n)) = SubSeq(G, 0 + 1, nm)
  <2>1. 0 \in 0..Len(q.messages) /\ n \in 0..Len(q.messages)
    BY <1>1
  <2>2. AllBytes(SubSeq(q.messages, 0 + 1, n)) = SubSeq(G, 0 * MessageSize + 1, n * MessageSize)
    BY <1>1, <2>1, PartBytes
  <2>3. 0 + 1 = 1 /\ 0 * MessageSize + 1 = 0 + 1
    BY <1>2
  <2> QED BY <2>2, <2>3, Zenon
<1> HIDE DEF nm, G
<1>7. 0 \in 0..Len(G) /\ nm \in 0..Len(G) /\ q.offset \in 0..nm - 0 /\ q.offset \in 0..Len(G) /\ nm \in q.offset..Len(G)
  BY <1>1, <1>3, <1>4, <1>5, SizesType, Product, <1>2
<1>8. From(SubSeq(G, 0 + 1, nm), q.offset) = SubSeq(G, (0 + q.offset) + 1, nm)
  BY <1>5, <1>7, FromOfPart
<1>9. 0 + q.offset = q.offset
  BY <1>1
<1>10. bytes = SubSeq(G, q.offset + 1, nm)
  BY <1>6, <1>8, <1>9, Zenon
<1>11. SubSeq(G, q.offset + 1, nm) \in Seq(Cell) /\ Len(SubSeq(G, q.offset + 1, nm)) = nm - q.offset
  BY <1>5, <1>7, PartType
<1>12. nm - q.offset \in Nat \ {0}
  BY <1>1, <1>3, SizesType
<1> QED BY <1>4, <1>10, <1>11, <1>12, Zenon DEF nm, G

\* A send of c of the bytes that a run of n messages offers, and what it does to
\* the queue.
IsSend(q, n, bytes, c, next, whole) ==
    /\ QueueOK(q) /\ n \in 1..Len(q.messages)
    /\ bytes = From(AllBytes(SubSeq(q.messages, 1, n)), q.offset) /\ c \in 1..Len(bytes)
    /\ next = Advanced(q, c) /\ whole = (q.offset + c) \div MessageSize

IsCut(q, n, bytes, c, next, whole) ==
    /\ QueueOK(next)
    /\ whole \in 0..n /\ next.messages = From(q.messages, whole)
    /\ whole + Touched(next) \in Touched(q)..n
    /\ whole + Touched(next) >= 1
    /\ SubSeq(bytes, 1, c) \o Rest(next)
         = Rest(q) \o AllBytes(SubSeq(q.messages, Touched(q) + 1, whole + Touched(next)))

\* What the transport took and what is left of the last message of it: the rest
\* of the message before, and whole messages.
LEMMA SendIsCut ==
    ASSUME NEW q, NEW n, NEW bytes, NEW c, NEW next, NEW whole,
           IsSend(q, n, bytes, c, next, whole)
    PROVE  IsCut(q, n, bytes, c, next, whole)
<1> SUFFICES ASSUME QueueOK(q), n \in 1..Len(q.messages),
                    bytes = From(AllBytes(SubSeq(q.messages, 1, n)), q.offset),
                    c \in 1..Len(bytes), next = Advanced(q, c),
                    whole = (q.offset + c) \div MessageSize
             PROVE  /\ QueueOK(next)
                    /\ whole \in 0..n /\ next.messages = From(q.messages, whole)
                    /\ whole + Touched(next) \in Touched(q)..n
                    /\ whole + Touched(next) >= 1
                    /\ SubSeq(bytes, 1, c) \o Rest(next)
                         = Rest(q) \o AllBytes(SubSeq(q.messages, Touched(q) + 1, whole + Touched(next)))
  BY DEF IsSend, IsCut
<1> DEFINE G == AllBytes(q.messages)
           o == q.offset
           e == o + c
           r == e % MessageSize
           s == Touched(q)
           top == whole + Touched(next)
           N == Len(q.messages)
<1>1. /\ q.messages \in Seq(Message) /\ q.head \in 0..QueueSlots - 1 /\ o \in 0..MessageSize - 1
      /\ N \in Nat /\ n \in Nat /\ 1 <= n /\ n <= N
  BY DEF QueueOK
<1> DEFINE nm == n * MessageSize
           Nm == N * MessageSize
<1>2. /\ bytes = SubSeq(G, o + 1, nm) /\ Len(bytes) = nm - o /\ nm <= Nm
  BY OfferType
<1>3. nm \in Nat /\ Nm \in Nat
  <2>1. n \in Int /\ n >= 0 /\ N \in Int /\ N >= 0
    BY <1>1
  <2> QED BY <2>1, Product, Zenon
<1>4. G \in Seq(Cell) /\ Len(G) = Nm
  BY <1>1, AllBytesType
<1>5. c \in Nat /\ 1 <= c /\ e \in Nat /\ 1 <= e /\ e <= nm
  <2> HIDE DEF nm
  <2>1. o \in Nat /\ nm \in Nat /\ Len(bytes) = nm - o /\ c \in 1..Len(bytes) /\ e = o + c
    BY <1>1, <1>2, <1>3
  <2> HIDE DEF o, e
  <2> QED BY ONLY <2>1, SMT
<1> DEFINE wm == whole * MessageSize
<1>6. whole \in Nat /\ r \in 0..MessageSize - 1 /\ e = wm + r /\ wm \in Nat
  <2> HIDE DEF e
  <2>1. e \in Nat /\ e \in Int /\ whole = e \div MessageSize
    BY <1>5 DEF e
  <2>2. e \div MessageSize \in Nat /\ e % MessageSize \in 0..MessageSize - 1
    BY <2>1, Within, Zenon
  <2>3. e = (e \div MessageSize) * MessageSize + (e % MessageSize)
    BY <2>1, Remainder, Zenon
  <2>4. whole \in Nat /\ e = wm + r /\ r \in 0..MessageSize - 1
    BY <2>1, <2>2, <2>3, Zenon
  <2>5. whole \in Int /\ whole >= 0
    BY <2>4
  <2>6. wm \in Nat
    BY <2>5, Product, Zenon
  <2> QED BY <2>4, <2>6
<1> HIDE DEF r
<1>7. whole <= n /\ (r # 0 => whole < n)
  <2>1. whole \in Int /\ n \in Int
    BY <1>1, <1>6
  <2>2. (whole <= n <=> wm <= nm) /\ (whole < n <=> wm < nm)
    BY <2>1, ProductOrder, Zenon
  <2> HIDE DEF wm, nm, e
  <2> QED BY <1>3, <1>5, <1>6, <2>1, <2>2
<1>8. next = [messages |-> From(q.messages, whole), head |-> (q.head + whole) % QueueSlots, offset |-> r]
  BY DEF Advanced, r
<1>9. /\ From(q.messages, whole) \in Seq(Message) /\ Len(From(q.messages, whole)) = N - whole
  <2>1. whole \in 0..Len(q.messages)
    BY <1>1, <1>6, <1>7
  <2> QED BY <1>1, <2>1, FromType
<1>10. QueueOK(next)
  <2>1. (q.head + whole) % QueueSlots \in 0..QueueSlots - 1
    <3>1. q.head + whole \in Int
      <4>1. q.head \in Int /\ whole \in Int
        BY <1>1, <1>6
      <4> DEFINE h == q.head
      <4> HIDE DEF h
      <4>2. h \in Int
        BY <4>1 DEF h
      <4>3. h + whole \in Int
        BY <4>1, <4>2
      <4> QED BY <4>3 DEF h
    <3> QED BY <3>1, SizesType, Division
  <2>2. r # 0 => From(q.messages, whole) # <<>>
    BY <1>1, <1>6, <1>7, <1>9
  <2> QED BY <1>6, <1>8, <1>9, <2>1, <2>2 DEF QueueOK
<1>11. Touched(next) = (IF r = 0 THEN 0 ELSE 1)
  BY <1>8 DEF Touched
<1>12. s \in {0, 1}
  BY DEF Touched
<1>13. top \in s..n /\ top >= 1 /\ top \in Nat
  <2>1. CASE r = 0
    <3>1. whole # 0
      <4>1. 0 * MessageSize = 0
        BY Product
      <4>2. whole = 0 => wm = 0
        BY <4>1
      <4> HIDE DEF e, wm
      <4> QED BY <1>5, <1>6, <2>1, <4>2
    <3>2. top = whole + 0
      BY <1>11, <2>1
    <3> HIDE DEF s, top
    <3> QED BY <1>1, <1>6, <1>7, <1>12, <3>1, <3>2
  <2>2. CASE r # 0
    <3>1. top = whole + 1
      BY <1>11, <2>2
    <3> HIDE DEF s, top
    <3> QED BY <1>1, <1>6, <1>7, <1>12, <2>2, <3>1
  <2> QED BY <2>1, <2>2
<1> DEFINE sm == s * MessageSize
           tm == top * MessageSize
<1>14. /\ s \in 0..N /\ o <= sm /\ Rest(q) = SubSeq(G, o + 1, sm)
  BY RestIsPart
<1>15. sm \in Int /\ tm \in Int /\ sm <= tm /\ tm <= nm
  <2> HIDE DEF s, top
  <2>1. s \in Int /\ top \in Int /\ n \in Int /\ s <= top /\ top <= n
    BY <1>1, <1>12, <1>13
  <2>2. s * MessageSize <= top * MessageSize /\ top * MessageSize <= n * MessageSize
    BY <2>1, ProductOrder, Zenon
  <2>3. s * MessageSize \in Int /\ top * MessageSize \in Int
    BY <2>1, Product, Zenon
  <2> QED BY <2>2, <2>3
<1>16. tm = (IF r = 0 THEN wm ELSE wm + MessageSize)
  <2>1. whole \in Int
    BY <1>6
  <2>2. (whole + 1) * MessageSize = whole * MessageSize + MessageSize
    BY <2>1, Product, Zenon
  <2>3. CASE r = 0
    <3>1. top = whole
      BY <1>11, <2>1, <2>3
    <3> QED BY <2>3, <3>1
  <2>4. CASE r # 0
    <3>1. top = whole + 1
      BY <1>11, <2>4
    <3> QED BY <2>2, <2>4, <3>1, Zenon
  <2> QED BY <2>3, <2>4
<1>17. e <= tm /\ o <= e
  <2> HIDE DEF tm, wm
  <2>1. e <= tm
    <3> HIDE DEF e
    <3> QED BY <1>5, <1>6, <1>15, <1>16, SizesType
  <2> QED BY <1>1, <1>5, <2>1
<1>18. SubSeq(bytes, 1, c) = SubSeq(G, o + 1, e)
  <2> HIDE DEF G, nm, Nm
  <2>1. o \in 0..Len(G) /\ nm \in o..Len(G) /\ c \in 0..nm - o
    BY <1>1, <1>2, <1>3, <1>4, <1>5
  <2>2. SubSeq(SubSeq(G, o + 1, nm), 1, c) = SubSeq(G, o + 1, o + c)
    BY <1>4, <2>1, StartOfPart
  <2> QED BY <1>2, <2>2
<1>19. Rest(next) = SubSeq(G, e + 1, tm)
  <2>1. CASE r = 0
    <3>1. Rest(next) = <<>> /\ tm = e
      <4>1. tm = wm
        BY <1>16, <2>1
      <4> HIDE DEF tm, wm, e
      <4>2. tm = e
        BY <1>6, <2>1, <4>1
      <4> QED BY <1>8, <2>1, <4>2 DEF Rest
    <3> HIDE DEF tm, e
    <3>2. SubSeq(G, e + 1, e) = <<>>
      BY <1>5, SubSeqEmpty
    <3> QED BY <3>1, <3>2, Zenon
  <2>2. CASE r # 0
    <3>1. whole \in 0..N /\ N \in whole..N /\ 1 \in 0..N - whole /\ whole + 1 \in whole..N
      BY <1>1, <1>6, <1>7, <2>2
    <3>2. SubSeq(SubSeq(q.messages, whole + 1, N), 1, 1) = SubSeq(q.messages, whole + 1, whole + 1)
      <4> HIDE DEF N
      <4> QED BY <1>1, <3>1, StartOfPart DEF N
    <3>3. AllBytes(SubSeq(q.messages, whole + 1, whole + 1)) = SubSeq(G, whole * MessageSize + 1, (whole + 1) * MessageSize)
      BY <1>1, <3>1, PartBytes
    <3>4. (whole + 1) * MessageSize = tm
      BY <1>11, <2>2
    <3>5. Rest(next) = From(SubSeq(G, wm + 1, tm), r)
      <4>1. Rest(next) = From(AllBytes(SubSeq(From(q.messages, whole), 1, 1)), r)
        BY <1>8, <2>2 DEF Rest
      <4> HIDE DEF tm
      <4> QED BY <3>2, <3>3, <3>4, <4>1, Zenon DEF From
    <3>6. wm \in 0..Len(G) /\ tm \in wm..Len(G) /\ r \in 0..tm - wm
      <4> HIDE DEF tm, wm, nm, Nm, e, G
      <4> QED BY <1>2, <1>3, <1>4, <1>6, <1>15, <1>16, <2>2, SizesType
    <3>7. From(SubSeq(G, wm + 1, tm), r) = SubSeq(G, (wm + r) + 1, tm)
      <4> HIDE DEF tm, wm, G
      <4> QED BY <1>4, <3>6, FromOfPart
    <3> HIDE DEF tm, wm, e, G
    <3> QED BY <1>6, <3>5, <3>7, Zenon
  <2> QED BY <2>1, <2>2
<1>20. SubSeq(bytes, 1, c) \o Rest(next) = SubSeq(G, o + 1, tm)
  <2> HIDE DEF G, tm, nm, Nm
  <2>1. o \in 0..Len(G) /\ e \in o..Len(G) /\ tm \in e..Len(G)
    <3> HIDE DEF e
    <3> QED BY <1>1, <1>2, <1>3, <1>4, <1>5, <1>15, <1>17
  <2> HIDE DEF e, o
  <2>2. SubSeq(G, o + 1, e) \o SubSeq(G, e + 1, tm) = SubSeq(G, o + 1, tm)
    BY <1>4, <2>1, JoinedParts
  <2> QED BY <1>18, <1>19, <2>2, Zenon
<1>21. AllBytes(SubSeq(q.messages, s + 1, top)) = SubSeq(G, sm + 1, tm)
  <2>1. s \in 0..Len(q.messages) /\ top \in s..Len(q.messages)
    <3> HIDE DEF s, top
    <3> QED BY <1>1, <1>13, <1>14
  <2> HIDE DEF s, top
  <2> QED BY <1>1, <2>1, PartBytes
<1>22. Rest(q) \o AllBytes(SubSeq(q.messages, s + 1, top)) = SubSeq(G, o + 1, tm)
  <2> HIDE DEF G, tm, sm, nm, Nm
  <2>1. o \in 0..Len(G) /\ sm \in o..Len(G) /\ tm \in sm..Len(G)
    <3>1. /\ o \in Nat /\ nm \in Nat /\ Nm \in Nat /\ Len(G) = Nm /\ nm <= Nm
          /\ sm \in Int /\ tm \in Int /\ o <= sm /\ sm <= tm /\ tm <= nm
      BY <1>1, <1>2, <1>3, <1>4, <1>14, <1>15
    <3> HIDE DEF o
    <3> QED BY ONLY <3>1, SMT
  <2> HIDE DEF o
  <2>2. SubSeq(G, o + 1, sm) \o SubSeq(G, sm + 1, tm) = SubSeq(G, o + 1, tm)
    BY <1>4, <2>1, JoinedParts
  <2> QED BY <1>14, <1>21, <2>2, Zenon DEF o
<1>23. whole \in 0..n /\ next.messages = From(q.messages, whole)
  BY <1>1, <1>6, <1>7, <1>8
<1> QED BY <1>10, <1>13, <1>20, <1>22, <1>23, Zenon

-----------------------------------------------------------------------------
(* The invariant of a connection                                              *)

EndType == [state : {"opening", "open", "error"}, buf : Seq(Cell),
            op : {"none", "started", "done"}, took : Nat]

Unsent(w) == IF w.op = "none" THEN <<>> ELSE From(w.buf, w.took)

\* The bytes of a direction: with the receiver, and with a sender that has the
\* connection.
Received == IF reader.state = "open" THEN partial \o reader.buf ELSE <<>>
Held == IF pipe.up /\ writer.state = "open" THEN Unsent(writer) \o Rest(queue) ELSE <<>>

SenderInv ==
    /\ QueueOK(queue)
    /\ ping \in [sent : Nat, outstanding : BOOLEAN]
    /\ made \in [edges : Nat, connections : Nat]
    /\ writer \in EndType /\ writer.took <= Len(writer.buf)
    /\ writer.op = "started" => writer.took = 0
    /\ writer.state = "opening" => writer = Opening /\ queue = EmptyQueue

ReceiverInv ==
    /\ reader \in EndType /\ partial \in Seq(Cell)
    /\ reader.state = "open" => Len(partial) < MessageSize
    /\ reader.op = "started" => reader.state = "open" /\ reader.buf = <<>>

\* A connection that the sender does not know of yet has carried nothing.
ConnectionInv ==
    /\ pipe \in [up : BOOLEAN, bytes : Seq(Cell)]
    /\ pipe.up => writer.state # "error"
    /\ pipe.up /\ writer.state = "opening" => pipe.bytes = <<>> /\ Received = <<>>

\* The bytes on their way are those of messages from a first byte on, and up to
\* a last one while the sender can still complete it.
FramingInv ==
    /\ \E ms : Frames(InTransit, ms)
    /\ pipe.up /\ writer.state = "open" => Len(InTransit) % MessageSize = 0

PipeInv == SenderInv /\ ReceiverInv /\ ConnectionInv /\ FramingInv

streamVars == <<Untouched, OnTheWay, handled, ping.sent>>

LEMMA Parts ==
    ASSUME SenderInv, ReceiverInv, ConnectionInv
    PROVE  /\ Received \in Seq(Cell) /\ pipe.bytes \in Seq(Cell)
           /\ Unsent(writer) \in Seq(Cell) /\ Rest(queue) \in Seq(Cell) /\ Held \in Seq(Cell)
           /\ Received \o pipe.bytes \in Seq(Cell)
           /\ InTransit = (Received \o pipe.bytes) \o Held
           /\ InTransit \in Seq(Cell)
<1>1. Received \in Seq(Cell) /\ pipe.bytes \in Seq(Cell)
  BY DEF ReceiverInv, ConnectionInv, Received, EndType
<1>2. Unsent(writer) \in Seq(Cell)
  <2>1. writer.buf \in Seq(Cell) /\ writer.took \in 0..Len(writer.buf)
    BY DEF SenderInv, EndType
  <2> QED BY <2>1, FromType DEF Unsent
<1>3. Rest(queue) \in Seq(Cell)
  BY RestIsPart DEF SenderInv
<1>4. Held \in Seq(Cell)
  BY <1>2, <1>3 DEF Held
<1>5. InTransit = (Received \o pipe.bytes) \o Held
  BY DEF InTransit, Received, Held, Unsent, Rest
<1> QED BY <1>1, <1>2, <1>3, <1>4, <1>5

LEMMA WayIsWhole == OnTheWay = Whole(InTransit)
BY DEF OnTheWay, Whole

LEMMA NoBytes == Frames(<<>>, <<>>) /\ Whole(<<>>) = <<>> /\ Len(<<>>) % MessageSize = 0
<1>1. 0 * MessageSize = 0
  BY Product
<1>2. Frames(<<>>, <<>>)
  BY <1>1 DEF Frames
<1>3. 0 \div MessageSize = 0 /\ 0 % MessageSize = 0
  <2>1. 0 \in 0..MessageSize - 1 /\ 0 * MessageSize + 0 = 0
    BY <1>1, SizesType
  <2> QED BY <2>1, RemainderIsUnique
<1>4. Whole(<<>>) \in Seq(Message) /\ Len(Whole(<<>>)) = 0
  BY <1>2, <1>3, FramesWhole
<1> QED BY <1>2, <1>3, <1>4

LEMMA StartOfConcat ==
    ASSUME NEW S, NEW s \in Seq(S), NEW t \in Seq(S)
    PROVE  Len(s) \in 0..Len(s \o t) /\ SubSeq(s \o t, 1, Len(s)) = s
<1> DEFINE st == s \o t
           cut == SubSeq(st, 1, Len(s))
<1>1. /\ st \in Seq(S) /\ Len(st) = Len(s) + Len(t) /\ Len(s) \in Nat /\ Len(t) \in Nat
      /\ \A i \in 1..Len(s) + Len(t) : st[i] = IF i <= Len(s) THEN s[i] ELSE t[i - Len(s)]
  BY ConcatProperties
<1> HIDE DEF st
<1>2. Len(s) \in 0..Len(st)
  BY <1>1
<1>3. /\ cut \in Seq(S) /\ Len(cut) = Len(s) /\ \A i \in 1..Len(s) : cut[i] = st[i]
  BY <1>1, <1>2, PrefixType
<1> HIDE DEF cut
<1>4. \A i \in 1..Len(s) : cut[i] = s[i]
  BY <1>1, <1>3
<1>5. cut = s
  BY <1>3, <1>4, SeqEqual
<1> QED BY <1>2, <1>5 DEF cut, st

\* The bytes that the receiver and the pipe still have of a connection that ends.
LEMMA Cutoff ==
    ASSUME PipeInv, InTransit' \in {InTransit, Received \o pipe.bytes, Received, <<>>}
    PROVE  /\ \E n \in 0..Len(OnTheWay) : OnTheWay' = SubSeq(OnTheWay, 1, n)
           /\ \E ms : Frames(InTransit', ms)
<1>1. /\ Received \in Seq(Cell) /\ pipe.bytes \in Seq(Cell) /\ Held \in Seq(Cell)
      /\ Received \o pipe.bytes \in Seq(Cell)
      /\ InTransit = (Received \o pipe.bytes) \o Held
      /\ InTransit \in Seq(Cell)
  BY Parts DEF PipeInv
<1>2. PICK ms : Frames(InTransit, ms)
  BY DEF PipeInv, FramingInv
<1>3. \E n \in 0..Len(InTransit) : InTransit' = SubSeq(InTransit, 1, n)
  <2>1. CASE InTransit' = InTransit
    <3>1. Len(InTransit) \in 0..Len(InTransit)
      BY <1>1
    <3>2. SubSeq(InTransit, 1, Len(InTransit)) = InTransit
      BY <1>1, SubSeqFull
    <3> QED BY <2>1, <3>1, <3>2
  <2> DEFINE near == Received \o pipe.bytes
  <2>2. Len(near) \in 0..Len(InTransit) /\ SubSeq(InTransit, 1, Len(near)) = near
    <3> HIDE DEF near
    <3>1. Len(near) \in 0..Len(near \o Held) /\ SubSeq(near \o Held, 1, Len(near)) = near
      BY <1>1, StartOfConcat DEF near
    <3> QED BY <1>1, <3>1 DEF near
  <2>3. CASE InTransit' = Received \o pipe.bytes
    BY <2>2, <2>3
  <2>4. CASE InTransit' = Received
    <3>1. Len(Received) \in 0..Len(near) /\ SubSeq(near, 1, Len(Received)) = Received
      BY <1>1, StartOfConcat
    <3> DEFINE far == pipe.bytes \o Held
    <3>2. far \in Seq(Cell)
      BY <1>1
    <3>3. InTransit = Received \o far
      <4> DEFINE a == Received
                 b == pipe.bytes
                 c == Held
      <4>1. a \in Seq(Cell) /\ b \in Seq(Cell) /\ c \in Seq(Cell)
        BY <1>1
      <4> HIDE DEF a, b, c
      <4>2. (a \o b) \o c = a \o (b \o c)
        BY <4>1, ConcatAssociative
      <4> QED BY <1>1, <4>2, Zenon DEF a, b, c
    <3> HIDE DEF far
    <3>4. Len(Received) \in 0..Len(Received \o far) /\ SubSeq(Received \o far, 1, Len(Received)) = Received
      BY <1>1, <3>2, StartOfConcat
    <3> QED BY <2>4, <3>3, <3>4
  <2>5. CASE InTransit' = <<>>
    <3>1. 0 \in 0..Len(InTransit)
      BY <1>1
    <3>2. SubSeq(InTransit, 1, 0) = <<>>
      BY SubSeqEmpty
    <3> QED BY <2>5, <3>1, <3>2
  <2> QED BY <2>1, <2>3, <2>4, <2>5
<1>4. PICK n \in 0..Len(InTransit) : InTransit' = SubSeq(InTransit, 1, n)
  BY <1>3
<1>5. /\ Frames(SubSeq(InTransit, 1, n), ms)
      /\ n \div MessageSize \in 0..Len(Whole(InTransit))
      /\ Whole(SubSeq(InTransit, 1, n)) = SubSeq(Whole(InTransit), 1, n \div MessageSize)
  BY <1>2, <1>4, FramesPrefix
<1>6. OnTheWay = Whole(InTransit)
  BY WayIsWhole
<1>7. OnTheWay' = Whole(InTransit')
  BY DEF OnTheWay, Whole
<1> DEFINE T == InTransit
           U == InTransit'
           W == OnTheWay
           V == OnTheWay'
<1>8. /\ Frames(U, ms) /\ n \div MessageSize \in 0..Len(W)
      /\ V = SubSeq(W, 1, n \div MessageSize)
  BY <1>4, <1>5, <1>6, <1>7
<1> HIDE DEF U, V, W
<1>9. \E k \in 0..Len(W) : V = SubSeq(W, 1, k)
  BY <1>8
<1> QED BY <1>8, <1>9 DEF U, V, W

LEMMA PipeInitStep == PipeInit => PipeInv /\ Messages!Init
<1> SUFFICES ASSUME PipeInit PROVE PipeInv /\ Messages!Init
  OBVIOUS
<1> USE DEF PipeInit
<1>1. SenderInv
  <2>1. QueueOK(queue)
    BY SizesType DEF QueueOK, EmptyQueue
  <2> QED BY <2>1 DEF SenderInv, EndType, Opening
<1>2. ReceiverInv
  BY DEF ReceiverInv, EndType, Opening
<1>3. ConnectionInv
  BY DEF ConnectionInv, Opening
<1>4. InTransit = <<>>
  BY DEF InTransit, Opening
<1>5. FramingInv
  BY <1>4, NoBytes DEF FramingInv
<1>6. OnTheWay = <<>>
  BY <1>4, WayIsWhole, NoBytes
<1>7. Untouched = <<>>
  <2>1. From(queue.messages, 0) = <<>>
    BY SubSeqEmpty DEF From, EmptyQueue
  <2> QED BY <2>1 DEF Untouched, EmptyQueue
<1> QED BY <1>1, <1>2, <1>3, <1>5, <1>6, <1>7 DEF PipeInv, Messages!Init, None, Messages!None

-----------------------------------------------------------------------------
(* The steps of a connection                                                  *)

LEMMA LoseStep ==
    ASSUME PipeInv, InTransit' \in {InTransit, Received \o pipe.bytes, Received, <<>>},
           Untouched' \in {Untouched, <<>>}, UNCHANGED <<handled, ping>>
    PROVE  /\ [Messages!Next]_streamVars
           /\ \E ms : Frames(InTransit', ms)
<1>1. /\ \E n \in 0..Len(OnTheWay) : OnTheWay' = SubSeq(OnTheWay, 1, n)
      /\ \E ms : Frames(InTransit', ms)
  BY Cutoff
<1>2. Messages!Lose
  BY <1>1, Zenon DEF Messages!Lose
<1> QED BY <1>1, <1>2 DEF Messages!Next

LEMMA StayStep ==
    ASSUME InTransit' = InTransit, Untouched' = Untouched, handled' = handled, ping.sent' = ping.sent
    PROVE  [Messages!Next]_streamVars
<1>1. OnTheWay' = OnTheWay
  <2>1. OnTheWay = Whole(InTransit) /\ OnTheWay' = Whole(InTransit')
    BY DEF OnTheWay, Whole
  <2> QED BY <2>1, Zenon
<1> QED BY <1>1 DEF streamVars

LEMMA UntouchedStays == queue' = queue => Untouched' = Untouched
BY DEF Untouched

LEMMA EmptyUntouched == queue = EmptyQueue => Untouched = <<>>
<1> SUFFICES ASSUME queue = EmptyQueue PROVE Untouched = <<>>
  OBVIOUS
<1>1. From(queue.messages, 0) = <<>>
  BY SubSeqEmpty DEF From, EmptyQueue
<1> QED BY <1>1 DEF Untouched, EmptyQueue

LEMMA NoRest == queue.offset = 0 => Rest(queue) = <<>>
BY DEF Rest

LEMMA OpeningHoldsNothing ==
    ASSUME SenderInv, writer.state # "error"
    PROVE  writer.state = "open" \/ (writer = Opening /\ queue = EmptyQueue)
BY DEF SenderInv, EndType

LEMMA OpenedType ==
    ASSUME NEW r, r = [state |-> "open", buf |-> <<>>, op |-> "started", took |-> 0]
    PROVE  r \in EndType /\ r.state = "open" /\ r.buf = <<>>
BY DEF EndType

LEMMA ConnectStep == PipeInv /\ OsConnect => PipeInv' /\ [Messages!Next]_streamVars
<1> SUFFICES ASSUME PipeInv, OsConnect PROVE PipeInv' /\ [Messages!Next]_streamVars
  OBVIOUS
<1> USE DEF OsConnect
<1>1. Received = <<>> /\ Received' = <<>>
  BY DEF Received
<1>2. InTransit' = <<>>
  BY DEF InTransit
<1>3. Untouched' = Untouched
  BY UntouchedStays
<1>4. [Messages!Next]_streamVars /\ \E ms : Frames(InTransit', ms)
  BY <1>2, <1>3, LoseStep
<1>5. SenderInv' /\ ReceiverInv'
  BY DEF PipeInv, SenderInv, ReceiverInv
<1>6. ConnectionInv'
  BY <1>1 DEF PipeInv, ConnectionInv
<1>7. FramingInv'
  BY <1>2, <1>4, NoBytes DEF FramingInv
<1> QED BY <1>4, <1>5, <1>6, <1>7 DEF PipeInv

LEMMA SenderConnectedStep == PipeInv /\ SenderConnected => PipeInv' /\ [Messages!Next]_streamVars
<1> SUFFICES ASSUME PipeInv, SenderConnected PROVE PipeInv' /\ [Messages!Next]_streamVars
  OBVIOUS
<1> USE DEF SenderConnected
<1>1. queue = EmptyQueue /\ queue' = queue /\ writer = Opening
  BY DEF PipeInv, SenderInv
<1>2. pipe.bytes = <<>> /\ Received = <<>>
  BY DEF PipeInv, ConnectionInv
<1>3. Received' = <<>>
  BY <1>2 DEF Received
<1>4. InTransit = <<>>
  BY <1>2, NoRest DEF InTransit, Received
<1>5. InTransit' = <<>>
  <2>1. queue.offset = 0 /\ writer'.op = "none"
    BY <1>1 DEF EmptyQueue, Opening
  <2> QED BY <1>1, <1>2, <1>3, <2>1 DEF InTransit, Received
<1>6. Untouched' = Untouched
  BY <1>1, UntouchedStays
<1>7. [Messages!Next]_streamVars
  BY <1>4, <1>5, <1>6, StayStep DEF PipeInv, SenderInv
<1>8. SenderInv'
  BY <1>1 DEF PipeInv, SenderInv, EndType, Opening
<1>9. ReceiverInv' /\ ConnectionInv'
  BY <1>2 DEF PipeInv, ReceiverInv, ConnectionInv, Opening
<1>10. FramingInv'
  BY <1>5, NoBytes DEF FramingInv
<1> QED BY <1>7, <1>8, <1>9, <1>10 DEF PipeInv

LEMMA ReceiverConnectedStep == PipeInv /\ ReceiverConnected => PipeInv' /\ [Messages!Next]_streamVars
<1> SUFFICES ASSUME PipeInv, ReceiverConnected PROVE PipeInv' /\ [Messages!Next]_streamVars
  OBVIOUS
<1> USE DEF ReceiverConnected
<1>1. Received = <<>>
  BY DEF Received
<1>2. Received' = <<>>
  BY DEF Received, Opening
<1>3. InTransit' = InTransit
  <2>1. Held' = Held
    BY DEF Held, Unsent, Rest
  <2>2. InTransit = (Received \o pipe.bytes) \o Held /\ InTransit' = (Received' \o pipe.bytes) \o Held'
    BY DEF InTransit, Received, Held, Unsent, Rest
  <2> QED BY <1>1, <1>2, <2>1, <2>2
<1>4. [Messages!Next]_streamVars
  BY <1>3, UntouchedStays, StayStep
<1>5. SenderInv'
  BY DEF PipeInv, SenderInv
<1>6. ReceiverInv'
  <2>1. reader' = [state |-> "open", buf |-> <<>>, op |-> "started", took |-> 0] /\ partial' = <<>>
    BY DEF Opening
  <2>2. <<>> \in Seq(Cell) /\ Len(<<>>) = 0
    OBVIOUS
  <2>3. reader' \in EndType /\ reader'.state = "open" /\ reader'.buf = <<>>
    BY <2>1, OpenedType, Zenon
  <2>5. partial' \in Seq(Cell) /\ Len(partial') < MessageSize
    BY <2>1, <2>2, SizesType
  <2> QED BY <2>3, <2>5, Zenon DEF ReceiverInv
<1>7. ConnectionInv'
  BY <1>1, <1>2 DEF PipeInv, ConnectionInv
<1>8. FramingInv'
  BY <1>3 DEF PipeInv, FramingInv
<1> QED BY <1>4, <1>5, <1>6, <1>7, <1>8 DEF PipeInv

\* The bytes that are left when the connection goes.
LEMMA LeftBehind ==
    ASSUME PipeInv, pipe' \in Down, UNCHANGED <<reader, partial>>
    PROVE  /\ InTransit' \in {Received \o pipe.bytes, Received} /\ Received' = Received
           /\ pipe'.up = FALSE /\ pipe'.bytes \in Seq(Cell)
<1>1. Received' = Received
  BY DEF Received
<1>2. pipe'.up = FALSE /\ pipe'.bytes \in {<<>>, pipe.bytes}
  BY DEF Down
<1>3. InTransit' = (Received \o pipe'.bytes) \o <<>>
  BY <1>1, <1>2 DEF InTransit, Received
<1>4. Received \in Seq(Cell) /\ pipe.bytes \in Seq(Cell) /\ Received \o pipe.bytes \in Seq(Cell)
  BY Parts DEF PipeInv
<1>5. InTransit' \in {Received \o pipe.bytes, Received}
  <2>1. CASE pipe'.bytes = <<>>
    BY <1>3, <1>4, <2>1
  <2>2. CASE pipe'.bytes = pipe.bytes
    BY <1>3, <1>4, <2>2, ConcatEmptySeq
  <2> QED BY <1>2, <2>1, <2>2
<1>6. pipe'.bytes \in Seq(Cell)
  <2>1. pipe'.bytes = <<>> \/ pipe'.bytes = pipe.bytes
    BY <1>2
  <2>2. <<>> \in Seq(Cell)
    OBVIOUS
  <2> QED BY <1>4, <2>1, <2>2, Zenon
<1> QED BY <1>1, <1>2, <1>5, <1>6, Zenon

LEMMA BreakStep == PipeInv /\ Break => PipeInv' /\ [Messages!Next]_streamVars
<1> SUFFICES ASSUME PipeInv, Break PROVE PipeInv' /\ [Messages!Next]_streamVars
  OBVIOUS
<1> USE DEF Break
<1>1. /\ InTransit' \in {Received \o pipe.bytes, Received} /\ Received' = Received
      /\ pipe'.up = FALSE /\ pipe'.bytes \in Seq(Cell)
  BY LeftBehind
<1>2. [Messages!Next]_streamVars /\ \E ms : Frames(InTransit', ms)
  BY <1>1, UntouchedStays, LoseStep
<1>3. SenderInv' /\ ReceiverInv'
  BY DEF PipeInv, SenderInv, ReceiverInv
<1>4. ConnectionInv'
  BY <1>1 DEF ConnectionInv, Down, PipeInv
<1>5. FramingInv'
  BY <1>1, <1>2 DEF FramingInv
<1> QED BY <1>2, <1>3, <1>4, <1>5 DEF PipeInv

LEMMA SenderReopensStep == PipeInv /\ SenderReopens => PipeInv' /\ [Messages!Next]_streamVars
<1> SUFFICES ASSUME PipeInv, SenderReopens PROVE PipeInv' /\ [Messages!Next]_streamVars
  OBVIOUS
<1> USE DEF SenderReopens
<1>1. /\ InTransit' \in {Received \o pipe.bytes, Received} /\ Received' = Received
      /\ pipe'.up = FALSE /\ pipe'.bytes \in Seq(Cell)
  BY LeftBehind
<1>2. Untouched' = <<>>
  <2>1. queue' = EmptyQueue
    OBVIOUS
  <2>2. SubSeq(<<>>, 0 + 1, Len(<<>>)) = <<>>
    BY SubSeqEmpty
  <2> QED BY <2>1, <2>2 DEF Untouched, EmptyQueue, From
<1>3. [Messages!Next]_streamVars /\ \E ms : Frames(InTransit', ms)
  BY <1>1, <1>2, LoseStep
<1>4. SenderInv'
  BY SizesType DEF PipeInv, SenderInv, QueueOK, EmptyQueue, EndType, Opening
<1>5. ReceiverInv'
  BY DEF PipeInv, ReceiverInv
<1>6. ConnectionInv'
  BY <1>1 DEF ConnectionInv, Down, PipeInv
<1>7. FramingInv'
  BY <1>1, <1>3 DEF FramingInv
<1> QED BY <1>3, <1>4, <1>5, <1>6, <1>7 DEF PipeInv

LEMMA ReceiverReopensStep == PipeInv /\ ReceiverReopens => PipeInv' /\ [Messages!Next]_streamVars
<1> SUFFICES ASSUME PipeInv, ReceiverReopens PROVE PipeInv' /\ [Messages!Next]_streamVars
  OBVIOUS
<1> USE DEF ReceiverReopens
<1>1. InTransit' = <<>>
  BY DEF InTransit, Opening
<1>2. [Messages!Next]_streamVars /\ \E ms : Frames(InTransit', ms)
  BY <1>1, UntouchedStays, LoseStep
<1>3. SenderInv'
  BY DEF PipeInv, SenderInv
<1>4. ReceiverInv'
  BY DEF PipeInv, ReceiverInv, EndType, Opening
<1>5. ConnectionInv'
  BY DEF PipeInv, ConnectionInv
<1>6. FramingInv'
  BY <1>2 DEF FramingInv
<1> QED BY <1>2, <1>3, <1>4, <1>5, <1>6 DEF PipeInv

LEMMA PollReadFailsStep == PipeInv /\ PollReadFails => PipeInv' /\ [Messages!Next]_streamVars
<1> SUFFICES ASSUME PipeInv, PollReadFails PROVE PipeInv' /\ [Messages!Next]_streamVars
  OBVIOUS
<1> USE DEF PollReadFails
<1>1. InTransit' = <<>>
  <2>1. reader'.state = "error"
    BY DEF PipeInv, ReceiverInv, EndType
  <2> QED BY <2>1 DEF InTransit
<1>2. [Messages!Next]_streamVars /\ \E ms : Frames(InTransit', ms)
  BY <1>1, UntouchedStays, LoseStep
<1>3. SenderInv'
  BY DEF PipeInv, SenderInv
<1>4. ReceiverInv'
  BY DEF PipeInv, ReceiverInv, EndType
<1>5. ConnectionInv'
  BY DEF PipeInv, ConnectionInv
<1>6. FramingInv'
  BY <1>2 DEF FramingInv
<1> QED BY <1>2, <1>3, <1>4, <1>5, <1>6 DEF PipeInv

-----------------------------------------------------------------------------
(* The operating system                                                       *)

LEMMA OsWriteStep ==
    ASSUME NEW n \in 1..WriteBuffer
    PROVE  PipeInv /\ OsWrite(n) => PipeInv' /\ [Messages!Next]_streamVars
<1> SUFFICES ASSUME PipeInv, OsWrite(n) PROVE PipeInv' /\ [Messages!Next]_streamVars
  OBVIOUS
<1> USE DEF OsWrite
<1>1. /\ writer.state = "open" /\ writer.took = 0 /\ writer.buf \in Seq(Cell) /\ writer \in EndType
      /\ QueueOK(queue)
  BY DEF PipeInv, SenderInv, ConnectionInv, EndType, Opening
<1>2. n \in 0..Len(writer.buf)
  BY <1>1, SizesType
<1> DEFINE s == SubSeq(writer.buf, 1, n)
           f == From(writer.buf, n)
<1>3. s \in Seq(Cell) /\ f \in Seq(Cell) /\ s \o f = writer.buf
  <2>1. s \in Seq(Cell) /\ s \o f = writer.buf
    BY <1>1, <1>2, SplitAt
  <2>2. f \in Seq(Cell)
    BY <1>1, <1>2, FromType
  <2> QED BY <2>1, <2>2
<1>4. Unsent(writer) = writer.buf
  <2>1. SubSeq(writer.buf, 1, Len(writer.buf)) = writer.buf
    BY <1>1, SubSeqFull
  <2> QED BY <1>1, <2>1 DEF Unsent, From
<1>5. /\ writer' = [writer EXCEPT !.op = "done", !.took = n]
      /\ pipe' = [pipe EXCEPT !.bytes = @ \o s]
  OBVIOUS
<1>6. /\ writer'.op = "done" /\ writer'.took = n /\ writer'.buf = writer.buf /\ writer'.state = "open"
      /\ pipe'.up = TRUE /\ pipe'.bytes = pipe.bytes \o s
  BY <1>1, <1>5 DEF EndType, PipeInv, ConnectionInv
<1> HIDE DEF s
<1>7. Held = writer.buf \o Rest(queue)
  BY <1>1, <1>4 DEF Held
<1>8. Held' = f \o Rest(queue)
  BY <1>6 DEF Held, Unsent, Rest
<1>9. Received' = Received
  BY DEF Received
<1>10. /\ Received \in Seq(Cell) /\ pipe.bytes \in Seq(Cell) /\ Rest(queue) \in Seq(Cell)
       /\ InTransit = (Received \o pipe.bytes) \o Held
  BY Parts DEF PipeInv
<1>11. InTransit' = (Received' \o pipe'.bytes) \o Held'
  BY DEF InTransit, Received, Held, Unsent, Rest
<1>12. InTransit' = InTransit
  <2> DEFINE a == Received
             b == pipe.bytes
             t == Rest(queue)
  <2>1. a \in Seq(Cell) /\ b \in Seq(Cell) /\ t \in Seq(Cell) /\ s \in Seq(Cell) /\ f \in Seq(Cell)
    BY <1>3, <1>10
  <2> HIDE DEF a, b, t, f
  <2>2. (a \o (b \o s)) \o (f \o t) = (a \o b) \o ((s \o f) \o t)
    <3>1. (a \o b) \o s = a \o (b \o s)
      BY ONLY <2>1, ConcatAssociative, SMTT(30)
    <3>2. (s \o f) \o t = s \o (f \o t)
      BY ONLY <2>1, ConcatAssociative, SMTT(30)
    <3> DEFINE x == a \o b
               y == f \o t
    <3>3. x \in Seq(Cell) /\ y \in Seq(Cell) /\ s \in Seq(Cell)
      BY <2>1
    <3> HIDE DEF x, y
    <3>4. (x \o s) \o y = x \o (s \o y)
      BY ONLY <3>3, ConcatAssociative, SMTT(30)
    <3> QED BY <3>1, <3>2, <3>4, Zenon DEF x, y
  <2>3. InTransit' = (a \o (b \o s)) \o (f \o t)
    BY <1>6, <1>8, <1>9, <1>11, Zenon DEF a, b, t
  <2>4. InTransit = (a \o b) \o ((s \o f) \o t)
    BY <1>3, <1>7, <1>10, Zenon DEF a, b, t
  <2> QED BY <2>2, <2>3, <2>4, Zenon
<1>13. [Messages!Next]_streamVars
  BY <1>12, UntouchedStays, StayStep
<1>14. SenderInv'
  <2>1. writer' \in EndType
    <3>1. n \in Nat
      OBVIOUS
    <3> QED BY <1>1, <1>5, <3>1 DEF EndType
  <2>2. writer'.took <= Len(writer'.buf) /\ writer'.op # "started" /\ writer'.state # "opening"
    BY <1>2, <1>6
  <2> QED BY <2>1, <2>2 DEF PipeInv, SenderInv
<1>15. ReceiverInv'
  BY DEF PipeInv, ReceiverInv
<1>16. ConnectionInv'
  <2>1. pipe.bytes \o s \in Seq(Cell)
    BY <1>3, <1>10
  <2>2. pipe' \in [up : BOOLEAN, bytes : Seq(Cell)]
    BY <1>5, <2>1 DEF PipeInv, ConnectionInv
  <2> QED BY <1>6, <2>2 DEF ConnectionInv
<1>17. FramingInv'
  BY <1>1, <1>12 DEF PipeInv, FramingInv
<1> QED BY <1>13, <1>14, <1>15, <1>16, <1>17 DEF PipeInv

LEMMA OsReadStep ==
    ASSUME NEW n \in 1..ReadBuffer
    PROVE  PipeInv /\ OsRead(n) => PipeInv' /\ [Messages!Next]_streamVars
<1> SUFFICES ASSUME PipeInv, OsRead(n) PROVE PipeInv' /\ [Messages!Next]_streamVars
  OBVIOUS
<1> USE DEF OsRead
<1>1. /\ reader.state = "open" /\ reader.buf = <<>> /\ reader \in EndType /\ partial \in Seq(Cell)
      /\ pipe.bytes \in Seq(Cell) /\ pipe \in [up : BOOLEAN, bytes : Seq(Cell)]
  BY DEF PipeInv, ReceiverInv, ConnectionInv
<1>2. n \in 0..Len(pipe.bytes) /\ 1 <= n
  BY <1>1
<1> DEFINE s == SubSeq(pipe.bytes, 1, n)
           f == From(pipe.bytes, n)
<1>3. s \in Seq(Cell) /\ f \in Seq(Cell) /\ s \o f = pipe.bytes
  <2>1. s \in Seq(Cell) /\ s \o f = pipe.bytes
    BY <1>1, <1>2, SplitAt
  <2>2. f \in Seq(Cell)
    BY <1>1, <1>2, FromType
  <2> QED BY <2>1, <2>2
<1>4. /\ reader' = [reader EXCEPT !.op = "done", !.buf = s]
      /\ pipe' = [pipe EXCEPT !.bytes = f]
  OBVIOUS
<1> HIDE DEF s, f
<1>5. /\ reader'.state = "open" /\ reader'.buf = s /\ reader'.op = "done"
      /\ pipe'.up = pipe.up /\ pipe'.bytes = f
  BY <1>1, <1>4 DEF EndType
<1>6. Received = partial \o <<>> /\ Received' = partial \o s
  BY <1>1, <1>5 DEF Received
<1>7. Held' = Held /\ Held \in Seq(Cell)
  <2>1. Held' = Held
    BY <1>5 DEF Held, Unsent, Rest
  <2>2. Held \in Seq(Cell)
    BY Parts DEF PipeInv
  <2> QED BY <2>1, <2>2
<1>8. InTransit = (Received \o pipe.bytes) \o Held /\ InTransit' = (Received' \o pipe'.bytes) \o Held'
  BY DEF InTransit, Received, Held, Unsent, Rest
<1>9. (partial \o s) \o f = (partial \o <<>>) \o pipe.bytes
  <2>1. (partial \o s) \o f = partial \o (s \o f)
    <3> DEFINE p == partial
    <3>1. p \in Seq(Cell) /\ s \in Seq(Cell) /\ f \in Seq(Cell)
      BY <1>1, <1>3
    <3> HIDE DEF p
    <3>2. (p \o s) \o f = p \o (s \o f)
      BY ONLY <3>1, ConcatAssociative, SMTT(30)
    <3> QED BY <3>2 DEF p
  <2>2. partial \o <<>> = partial
    BY <1>1, ConcatEmptySeq
  <2> QED BY <1>3, <2>1, <2>2, Zenon
<1>10. InTransit' = InTransit
  BY <1>5, <1>6, <1>7, <1>8, <1>9, Zenon
<1>11. [Messages!Next]_streamVars
  BY <1>10, UntouchedStays, StayStep
<1>12. SenderInv'
  BY DEF PipeInv, SenderInv
<1>13. ReceiverInv'
  <2>1. reader' \in EndType
    BY <1>1, <1>3, <1>4 DEF EndType
  <2> QED BY <1>1, <1>5, <2>1 DEF PipeInv, ReceiverInv
<1>14. ConnectionInv'
  <2>1. pipe' \in [up : BOOLEAN, bytes : Seq(Cell)]
    BY <1>1, <1>3, <1>4
  <2>2. pipe.bytes # <<>>
    BY <1>1, <1>2
  <2> QED BY <1>5, <2>1, <2>2 DEF PipeInv, ConnectionInv
<1>15. FramingInv'
  BY <1>5, <1>10 DEF PipeInv, FramingInv
<1> QED BY <1>11, <1>12, <1>13, <1>14, <1>15 DEF PipeInv

-----------------------------------------------------------------------------
(* Messages come into the queue                                               *)

\* The messages of a queue that the transport has no byte of.
Bared(q) == [i \in 1..Len(q.messages) - Touched(q) |-> Bare(q.messages[Touched(q) + i])]

LEMMA BaredType ==
    ASSUME NEW q, QueueOK(q)
    PROVE  /\ Bared(q) \in Seq(Message) /\ Len(Bared(q)) = Len(q.messages) - Touched(q)
           /\ \A i \in 1..Len(q.messages) - Touched(q) : Bared(q)[i] = Bare(q.messages[Touched(q) + i])
<1> DEFINE n == Len(q.messages) - Touched(q)
<1>1. q.messages \in Seq(Message) /\ Touched(q) \in 0..Len(q.messages) /\ Len(q.messages) \in Nat
  BY RestIsPart DEF QueueOK
<1>2. n \in Nat
  BY <1>1
<1>3. ASSUME NEW i \in 1..n PROVE Bare(q.messages[Touched(q) + i]) \in Message
  <2>1. Touched(q) + i \in 1..Len(q.messages)
    BY <1>1
  <2>2. q.messages[Touched(q) + i] \in Message
    BY <1>1, <2>1, ElementOfSeq
  <2> QED BY <2>2 DEF Bare, Message, Ping
<1>4. Bared(q) = [i \in 1..n |-> Bare(q.messages[Touched(q) + i])]
  BY DEF Bared
<1> HIDE DEF n
<1>5. Bared(q) \in [1..n -> Message]
  BY <1>3, <1>4
<1>6. Bared(q) \in Seq(Message) /\ Len(Bared(q)) = n
  BY <1>2, <1>5
<1>7. \A i \in 1..n : Bared(q)[i] = Bare(q.messages[Touched(q) + i])
  BY <1>4
<1> QED BY <1>6, <1>7 DEF n

LEMMA UntouchedIsBared ==
    QueueOK(queue) => Untouched = Bared(queue)
<1> SUFFICES ASSUME QueueOK(queue) PROVE Untouched = Bared(queue)
  OBVIOUS
<1> DEFINE t == Touched(queue)
           ms == From(queue.messages, t)
           n == Len(queue.messages) - t
<1>1. queue.messages \in Seq(Message) /\ t \in 0..Len(queue.messages)
  BY RestIsPart DEF QueueOK
<1>2. /\ ms \in Seq(Message) /\ Len(ms) = n
      /\ \A i \in 1..n : ms[i] = queue.messages[t + i]
  BY <1>1, FromType
<1>3. Untouched = [i \in DOMAIN ms |-> Bare(ms[i])]
  BY DEF Untouched, Bare, Touched
<1> HIDE DEF ms, t
<1>4. DOMAIN ms = 1..n
  BY <1>2
<1>5. Untouched = [i \in 1..n |-> Bare(queue.messages[t + i])]
  BY <1>2, <1>3, <1>4
<1> QED BY <1>5 DEF Bared, t

LEMMA EnqueuedIsLater ==
    ASSUME NEW q, QueueOK(q), NEW m \in Message, NEW next, next = [q EXCEPT !.messages = Append(@, m)]
    PROVE  /\ QueueOK(next) /\ Rest(next) = Rest(q)
           /\ Len(Bared(next)) = Len(Bared(q)) + 1
           /\ SubSeq(Bared(next), 1, Len(Bared(q))) = Bared(q)
<1> DEFINE ms == q.messages
           t == Touched(q)
<1>1. /\ ms \in Seq(Message) /\ Len(ms) \in Nat /\ t \in 0..Len(ms)
      /\ q.offset \in 0..MessageSize - 1 /\ (q.offset # 0 => ms # <<>>)
  BY RestIsPart DEF QueueOK
<1>2. next.messages = Append(ms, m) /\ next.offset = q.offset /\ next.head = q.head
  BY DEF QueueOK
<1>3. /\ Append(ms, m) \in Seq(Message) /\ Len(Append(ms, m)) = Len(ms) + 1
      /\ \A i \in 1..Len(ms) : Append(ms, m)[i] = ms[i]
      /\ Append(ms, m) # <<>>
  <2> HIDE DEF ms
  <2> QED BY <1>1
<1>4. QueueOK(next)
  BY <1>1, <1>3 DEF QueueOK
<1>5. Touched(next) = t
  BY <1>2 DEF Touched
<1>6. Rest(next) = Rest(q)
  <2>1. CASE q.offset = 0
    BY <1>2, <2>1 DEF Rest
  <2>2. CASE q.offset # 0
    <3>1. 1 \in 1..Len(ms) /\ 1 \in 1..Len(Append(ms, m)) /\ 1 \in 0..Len(ms) /\ 1 \in 0..Len(Append(ms, m))
      BY <1>1, <1>3, <2>2
    <3>2. SubSeq(Append(ms, m), 1, 1) = SubSeq(ms, 1, 1)
      <4> DEFINE long == Append(ms, m)
      <4> HIDE DEF long, ms
      <4>1. SubSeq(long, 1, 1) \in Seq(Message) /\ Len(SubSeq(long, 1, 1)) = 1 /\ SubSeq(long, 1, 1)[1] = long[1]
        BY <1>3, <3>1, SubSeqProperties, ElementOfSeq DEF long
      <4>2. SubSeq(ms, 1, 1) \in Seq(Message) /\ Len(SubSeq(ms, 1, 1)) = 1 /\ SubSeq(ms, 1, 1)[1] = ms[1]
        BY <1>1, <3>1, SubSeqProperties, ElementOfSeq
      <4>3. long[1] = ms[1]
        BY <1>3, <3>1 DEF long
      <4>4. \A i \in 1..1 : SubSeq(long, 1, 1)[i] = SubSeq(ms, 1, 1)[i]
        BY <4>1, <4>2, <4>3
      <4> QED BY <4>1, <4>2, <4>4, SeqEqual DEF long
    <3>3. SubSeq(next.messages, 1, 1) = SubSeq(q.messages, 1, 1) /\ next.offset = q.offset
      BY <1>2, <3>2, Zenon
    <3>4. Rest(next) = From(AllBytes(SubSeq(next.messages, 1, 1)), next.offset)
      BY <1>2, <2>2, Zenon DEF Rest
    <3>5. Rest(q) = From(AllBytes(SubSeq(q.messages, 1, 1)), q.offset)
      BY <2>2, Zenon DEF Rest
    <3> QED BY <3>3, <3>4, <3>5, Zenon
  <2> QED BY <2>1, <2>2
<1> DEFINE n == Len(ms) - t
<1>7. /\ Bared(q) \in Seq(Message) /\ Len(Bared(q)) = n
      /\ \A i \in 1..n : Bared(q)[i] = Bare(ms[t + i])
  BY BaredType
<1>8. /\ Bared(next) \in Seq(Message) /\ Len(Bared(next)) = n + 1
      /\ \A i \in 1..n + 1 : Bared(next)[i] = Bare(Append(ms, m)[t + i])
  <2>1. /\ Bared(next) \in Seq(Message) /\ Len(Bared(next)) = Len(next.messages) - Touched(next)
        /\ \A i \in 1..Len(next.messages) - Touched(next) : Bared(next)[i] = Bare(next.messages[Touched(next) + i])
    BY <1>4, BaredType
  <2>2. Len(next.messages) - Touched(next) = n + 1
    BY <1>1, <1>2, <1>3, <1>5
  <2> QED BY <1>2, <1>5, <2>1, <2>2
<1>9. /\ SubSeq(Bared(next), 1, n) \in Seq(Message) /\ Len(SubSeq(Bared(next), 1, n)) = n
      /\ \A i \in 1..n : SubSeq(Bared(next), 1, n)[i] = Bared(next)[i]
  <2> HIDE DEF n
  <2>1. n \in Nat
    BY <1>1 DEF n
  <2>2. n \in 0..Len(Bared(next))
    BY <1>8, <2>1
  <2> DEFINE long == Bared(next)
  <2>3. long \in Seq(Message) /\ n \in 0..Len(long)
    BY <1>8, <2>2
  <2> HIDE DEF long
  <2>4. /\ SubSeq(long, 1, n) \in Seq(Message) /\ Len(SubSeq(long, 1, n)) = n
        /\ \A i \in 1..n : SubSeq(long, 1, n)[i] = long[i]
    BY <2>3, PrefixType
  <2> QED BY <2>4 DEF long
<1>10. ASSUME NEW i \in 1..n PROVE Bared(next)[i] = Bared(q)[i]
  <2>1. t + i \in 1..Len(ms) /\ i \in 1..n + 1
    BY <1>1
  <2> QED BY <1>3, <1>7, <1>8, <2>1
<1> HIDE DEF n
<1>11. \A i \in 1..n : SubSeq(Bared(next), 1, n)[i] = Bared(q)[i]
  BY <1>9, <1>10
<1>12. SubSeq(Bared(next), 1, n) = Bared(q)
  BY <1>7, <1>9, <1>11, SeqEqual
<1> QED BY <1>4, <1>6, <1>7, <1>8, <1>12

\* enqueue_write, with room in the queue and without.
LEMMA EnqueueStep ==
    ASSUME PipeInv, writer.state = "open", NEW m \in Message, queue' = Enqueued(queue, m),
           UNCHANGED <<writer, pipe, reader, partial, handled>>
    PROVE  /\ QueueOK(queue') /\ InTransit' = InTransit
           /\ Messages!Next
           /\ ReceiverInv' /\ ConnectionInv' /\ FramingInv'
<1>1. QueueOK(queue)
  BY DEF PipeInv, SenderInv
<1>2. /\ InTransit = (Received \o pipe.bytes) \o Held
      /\ InTransit' = (Received' \o pipe'.bytes) \o Held'
      /\ Received' = Received
  BY DEF InTransit, Received, Held, Unsent, Rest
<1>3. QueueOK(queue') /\ InTransit' = InTransit /\ Messages!Next
  <2>1. CASE Len(queue.messages) < QueueSlots
    <3>1. queue' = [queue EXCEPT !.messages = Append(@, m)]
      BY <2>1 DEF Enqueued
    <3> DEFINE q == queue
               next == queue'
    <3>2. QueueOK(q) /\ next = [q EXCEPT !.messages = Append(@, m)]
      BY <1>1, <3>1
    <3> HIDE DEF q, next
    <3>3. /\ QueueOK(next) /\ Rest(next) = Rest(q)
          /\ Len(Bared(next)) = Len(Bared(q)) + 1
          /\ SubSeq(Bared(next), 1, Len(Bared(q))) = Bared(q)
      BY <3>2, EnqueuedIsLater
    <3>4. Held' = Held
      <4>1. Rest(queue)' = Rest(queue)
        BY <3>3 DEF q, next, Rest
      <4>2. Unsent(writer)' = Unsent(writer)
        BY DEF Unsent
      <4> QED BY <4>1, <4>2 DEF Held
    <3>5. InTransit' = InTransit
      BY <1>2, <3>4
    <3>6. OnTheWay' = OnTheWay
      BY <3>5 DEF OnTheWay
    <3>7. Untouched = Bared(q) /\ Untouched' = Bared(next)
      <4>1. Untouched = Bared(queue)
        BY <1>1, UntouchedIsBared
      <4>2. (QueueOK(queue) => Untouched = Bared(queue))'
        BY UntouchedIsBared, PTL
      <4>3. Untouched' = Bared(queue')
        BY <3>3, <4>2 DEF next, QueueOK, Bared, Touched
      <4> QED BY <4>1, <4>3 DEF q, next
    <3>8. Messages!Enqueue
      BY <3>3, <3>6, <3>7 DEF Messages!Enqueue
    <3> QED BY <3>3, <3>5, <3>8 DEF Messages!Next, next
  <2>2. CASE ~(Len(queue.messages) < QueueSlots)
    <3>1. queue' = queue
      BY <2>2 DEF Enqueued
    <3>2. Held' = Held
      BY <3>1 DEF Held, Unsent, Rest
    <3>3. InTransit' = InTransit
      BY <1>2, <3>2
    <3>4. OnTheWay' = OnTheWay
      BY <3>3 DEF OnTheWay
    <3>5. Untouched' = Untouched
      BY <3>1, UntouchedStays
    <3>6. Messages!Time
      BY <3>4, <3>5 DEF Messages!Time
    <3> QED BY <1>1, <3>1, <3>3, <3>6 DEF Messages!Next
  <2> QED BY <2>1, <2>2
<1>4. ReceiverInv'
  BY DEF PipeInv, ReceiverInv
<1>5. ConnectionInv'
  BY <1>2 DEF PipeInv, ConnectionInv
<1>6. FramingInv'
  BY <1>3 DEF PipeInv, FramingInv
<1> QED BY <1>3, <1>4, <1>5, <1>6

LEMMA EnqueueEdgeStep == PipeInv /\ EnqueueEdge => PipeInv' /\ [Messages!Next]_streamVars
<1> SUFFICES ASSUME PipeInv, EnqueueEdge PROVE PipeInv' /\ [Messages!Next]_streamVars
  OBVIOUS
<1> USE DEF EnqueueEdge
<1>1. made'.edges \in Nat /\ made' \in [edges : Nat, connections : Nat]
  BY DEF PipeInv, SenderInv
<1>2. Edge(made'.edges) \in Message
  BY <1>1 DEF Edge, Message
<1>3. /\ QueueOK(queue') /\ InTransit' = InTransit
      /\ Messages!Next
      /\ ReceiverInv' /\ ConnectionInv' /\ FramingInv'
  BY <1>2, EnqueueStep
<1>4. SenderInv'
  BY <1>1, <1>3 DEF PipeInv, SenderInv
<1> QED BY <1>3, <1>4 DEF PipeInv

LEMMA MaybeSendPingStep == PipeInv /\ MaybeSendPing => PipeInv' /\ [Messages!Next]_streamVars
<1> SUFFICES ASSUME PipeInv, MaybeSendPing PROVE PipeInv' /\ [Messages!Next]_streamVars
  OBVIOUS
<1> USE DEF MaybeSendPing
<1>1. Ping(0) \in Message
  BY DEF Ping, Message
<1>2. /\ QueueOK(queue') /\ InTransit' = InTransit
      /\ Messages!Next
      /\ ReceiverInv' /\ ConnectionInv' /\ FramingInv'
  BY <1>1, EnqueueStep
<1>3. SenderInv'
  BY <1>2 DEF PipeInv, SenderInv
<1> QED BY <1>2, <1>3 DEF PipeInv

LEMMA PingEndsStep == PipeInv /\ PingEnds => PipeInv' /\ [Messages!Next]_streamVars
<1> SUFFICES ASSUME PipeInv, PingEnds PROVE PipeInv' /\ [Messages!Next]_streamVars
  OBVIOUS
<1> USE DEF PingEnds
<1>1. InTransit' = InTransit
  BY DEF InTransit
<1>2. ping'.sent = ping.sent /\ ping' \in [sent : Nat, outstanding : BOOLEAN]
  BY DEF PipeInv, SenderInv
<1>3. [Messages!Next]_streamVars
  BY <1>1, <1>2, UntouchedStays, StayStep
<1>4. SenderInv'
  BY <1>2 DEF PipeInv, SenderInv
<1>5. ReceiverInv' /\ ConnectionInv' /\ FramingInv'
  BY <1>1 DEF PipeInv, ReceiverInv, ConnectionInv, Received, FramingInv
<1> QED BY <1>3, <1>4, <1>5 DEF PipeInv

-----------------------------------------------------------------------------
(* Messages leave the queue                                                   *)

LEMMA StampedQueue ==
    ASSUME NEW old, QueueOK(old), old.messages # <<>>, NEW now \in Nat, NEW q, q = Stamped(old, now)
    PROVE  /\ QueueOK(q) /\ q.messages # <<>> /\ q.offset = old.offset
           /\ Rest(q) = Rest(old) /\ Bared(q) = Bared(old)
           /\ q.offset = 0 /\ q.messages[1].kind = "ping" => q.messages[1] = Ping(now)
<1>1. /\ old.messages \in Seq(Message) /\ Len(old.messages) \in Nat \ {0}
      /\ old \in [messages : Seq(Message), head : 0..QueueSlots - 1, offset : 0..MessageSize - 1]
  BY DEF QueueOK
<1>2. CASE ~(old.offset = 0 /\ old.messages[1].kind = "ping")
  <2>1. q = old
    BY <1>2 DEF Stamped
  <2> QED BY <1>2, <2>1
<1>3. CASE old.offset = 0 /\ old.messages[1].kind = "ping"
  <2> DEFINE ms == [old.messages EXCEPT ![1] = Ping(now)]
  <2>1. q = [old EXCEPT !.messages = ms]
    BY <1>3 DEF Stamped
  <2>2. Ping(now) \in Message /\ 1 \in 1..Len(old.messages)
    BY <1>1 DEF Ping, Message
  <2>3. /\ ms \in Seq(Message) /\ Len(ms) = Len(old.messages)
        /\ \A j \in 1..Len(old.messages) : ms[j] = IF j = 1 THEN Ping(now) ELSE old.messages[j]
    BY <1>1, <2>2, ExceptSeq
  <2> HIDE DEF ms
  <2>4. q.messages = ms /\ q.offset = 0 /\ q.head = old.head
    BY <1>1, <1>3, <2>1
  <2>5. ms # <<>>
    BY <1>1, <2>3
  <2>6. QueueOK(q)
    BY <1>1, <2>1, <2>3, <2>4 DEF QueueOK
  <2>7. Rest(q) = Rest(old)
    BY <1>3, <2>4 DEF Rest
  <2>8. Touched(q) = 0 /\ Touched(old) = 0
    BY <1>3, <2>4 DEF Touched
  <2>9. Bared(q) = Bared(old)
    <3> DEFINE n == Len(old.messages)
    <3>1. n \in Nat
      BY <1>1
    <3>2. /\ Bared(q) \in Seq(Message) /\ Len(Bared(q)) = n
          /\ \A i \in 1..n : Bared(q)[i] = Bare(ms[i])
      <4>1. /\ Bared(q) \in Seq(Message) /\ Len(Bared(q)) = Len(q.messages) - Touched(q)
            /\ \A i \in 1..Len(q.messages) - Touched(q) : Bared(q)[i] = Bare(q.messages[Touched(q) + i])
        BY <2>6, BaredType
      <4>2. Len(q.messages) - Touched(q) = n /\ \A i \in 1..n : Touched(q) + i = i
        BY <2>3, <2>4, <2>8, <3>1
      <4> QED BY <2>4, <4>1, <4>2
    <3>3. /\ Bared(old) \in Seq(Message) /\ Len(Bared(old)) = n
          /\ \A i \in 1..n : Bared(old)[i] = Bare(old.messages[i])
      <4>1. /\ Bared(old) \in Seq(Message) /\ Len(Bared(old)) = Len(old.messages) - Touched(old)
            /\ \A i \in 1..Len(old.messages) - Touched(old) : Bared(old)[i] = Bare(old.messages[Touched(old) + i])
        BY BaredType
      <4>2. Len(old.messages) - Touched(old) = n /\ \A i \in 1..n : Touched(old) + i = i
        BY <2>8, <3>1
      <4> QED BY <4>1, <4>2
    <3>4. ASSUME NEW i \in 1..n PROVE Bare(ms[i]) = Bare(old.messages[i])
      <4>1. CASE i = 1
        <5>1. Bare(ms[i]) = Ping(0)
          BY <2>2, <2>3, <4>1 DEF Bare, Ping
        <5>2. Bare(old.messages[i]) = Ping(0)
          BY <1>3, <4>1 DEF Bare
        <5> QED BY <5>1, <5>2
      <4>2. CASE i # 1
        BY <2>3, <4>2
      <4> QED BY <4>1, <4>2
    <3> HIDE DEF n
    <3>5. \A i \in 1..n : Bared(q)[i] = Bared(old)[i]
      BY <3>2, <3>3, <3>4
    <3> QED BY <3>2, <3>3, <3>5, SeqEqual
  <2>10. q.messages[1] = Ping(now)
    BY <2>2, <2>3, <2>4
  <2> QED BY <1>3, <2>4, <2>5, <2>6, <2>7, <2>9, <2>10
<1> QED BY <1>2, <1>3

\* A call that the transport takes nothing of.
LEMMA NothingTaken ==
    ASSUME NEW q, QueueOK(q)
    PROVE  Advanced(q, 0) = q
<1>1. /\ q \in [messages : Seq(Message), head : 0..QueueSlots - 1, offset : 0..MessageSize - 1]
      /\ q.messages \in Seq(Message) /\ q.head \in 0..QueueSlots - 1 /\ q.offset \in 0..MessageSize - 1
  BY DEF QueueOK
<1>2. q.offset \div MessageSize = 0 /\ q.offset % MessageSize = q.offset
  <2>1. 0 * MessageSize = 0
    BY Product
  <2>2. (0 * MessageSize + q.offset) \div MessageSize = 0 /\ (0 * MessageSize + q.offset) % MessageSize = q.offset
    BY <1>1, RemainderIsUnique
  <2>3. 0 * MessageSize + q.offset = q.offset
    BY <1>1, <2>1
  <2> QED BY <2>2, <2>3
<1>3. q.head % QueueSlots = q.head
  <2>1. QueueSlots * 0 = 0
    BY SizesType
  <2>2. q.head \in Int /\ 0 <= q.head /\ q.head < QueueSlots /\ QueueSlots \in Nat
    BY <1>1, SizesType
  <2>3. (QueueSlots * 0 + q.head) % QueueSlots = q.head
    BY <2>2, DivisionIsUnique
  <2>4. QueueSlots * 0 + q.head = q.head
    BY <2>1, <2>2
  <2> QED BY <2>3, <2>4
<1>4. q.offset + 0 = q.offset /\ q.head + 0 = q.head
  BY <1>1
<1>5. From(q.messages, 0) = q.messages
  BY <1>1, SubSeqFull DEF From
<1>6. Advanced(q, 0) = [messages |-> q.messages, head |-> q.head, offset |-> q.offset]
  BY <1>2, <1>3, <1>4, <1>5, Zenon DEF Advanced
<1> QED BY <1>1, <1>6

\* The two outcomes of pipe_send: nothing taken, and what the transport had is
\* still there; or bytes taken, when it had none.
LEMMA SendOutcome ==
    ASSUME SenderInv, ConnectionInv, writer.state = "open", NEW bytes \in Seq(Cell), bytes # <<>>,
           NEW sent, sent = PipeSend(writer, bytes)
    PROVE  /\ sent.writer \in EndType /\ sent.writer.took <= Len(sent.writer.buf)
           /\ sent.writer.op = "started" => sent.writer.took = 0
           /\ sent.writer.state # "opening" /\ (pipe.up => sent.writer.state = "open")
           /\ \/ sent.got = 0 /\ (pipe.up => Unsent(sent.writer) = Unsent(writer))
              \/ /\ pipe.up /\ Unsent(writer) = <<>>
                 /\ sent.got \in 1..Len(bytes)
                 /\ Unsent(sent.writer) = SubSeq(bytes, 1, sent.got)
<1>1. /\ writer \in EndType /\ writer.buf \in Seq(Cell) /\ writer.took \in 0..Len(writer.buf)
      /\ (writer.op = "started" => writer.took = 0)
  BY DEF SenderInv, EndType
<1>2. ASSUME NEW new \in Seq(Cell), NEW w, w = Started(writer, new)
      PROVE  /\ w \in EndType /\ w.took <= Len(w.buf) /\ w.took = 0
             /\ w.state # "opening" /\ (pipe.up => w.state = "open")
             /\ pipe.up => Unsent(w) = new
  <2>1. w = IF pipe.up THEN [writer EXCEPT !.buf = new, !.op = "started", !.took = 0]
            ELSE [writer EXCEPT !.buf = new, !.op = "none", !.took = 0, !.state = "error"]
    BY <1>2 DEF Started
  <2>2. w \in EndType /\ w.took = 0 /\ w.buf = new
    BY <1>1, <2>1 DEF EndType
  <2>3. w.state # "opening" /\ (pipe.up => w.state = "open" /\ w.op = "started")
    BY <1>1, <2>1 DEF EndType
  <2>4. From(new, 0) = new
    BY SubSeqFull DEF From
  <2> QED BY <2>2, <2>3, <2>4 DEF Unsent
<1>3. CASE writer.op = "started"
  <2>1. sent = [writer |-> IF pipe.up THEN writer ELSE [writer EXCEPT !.state = "error"], got |-> 0]
    BY <1>3 DEF PipeSend
  <2> DEFINE w == sent.writer
  <2>2. sent.got = 0 /\ w = IF pipe.up THEN writer ELSE [writer EXCEPT !.state = "error"]
    BY <2>1
  <2>3. CASE pipe.up
    BY <1>1, <2>2, <2>3
  <2>4. CASE ~pipe.up
    <3>1. w = [writer EXCEPT !.state = "error"]
      BY <2>2, <2>4
    <3> HIDE DEF w
    <3>2. w \in EndType /\ w.buf = writer.buf /\ w.took = writer.took /\ w.state = "error" /\ w.op = writer.op
      BY <1>1, <3>1 DEF EndType
    <3> QED BY <1>1, <2>2, <2>4, <3>2 DEF w
  <2> QED BY <2>3, <2>4
<1>4. CASE writer.op # "started" /\ writer.op = "done" /\ writer.took < Len(writer.buf)
  <2>1. sent = [writer |-> Started(writer, From(writer.buf, writer.took)), got |-> 0]
    BY <1>4 DEF PipeSend
  <2> DEFINE new == From(writer.buf, writer.took)
  <2>2. new \in Seq(Cell)
    BY <1>1, FromType
  <2>3. sent.got = 0 /\ sent.writer = Started(writer, new)
    BY <2>1
  <2>4. Unsent(writer) = new
    BY <1>4 DEF Unsent
  <2> HIDE DEF new
  <2> QED BY <1>2, <2>2, <2>3, <2>4
<1>5. CASE writer.op # "started" /\ ~(writer.op = "done" /\ writer.took < Len(writer.buf))
  <2> DEFINE c == Least(Len(bytes), WriteBuffer)
             taken == SubSeq(bytes, 1, c)
  <2>1. sent = [writer |-> Started(writer, taken), got |-> IF pipe.up THEN Len(taken) ELSE 0]
    BY <1>5 DEF PipeSend
  <2>2. c \in 1..Len(bytes)
    <3>1. Len(bytes) \in Nat \ {0}
      OBVIOUS
    <3> QED BY <3>1, SizesType DEF Least
  <2> HIDE DEF c
  <2>3. taken \in Seq(Cell) /\ Len(taken) = c
    <3>1. c \in 0..Len(bytes)
      BY <2>2
    <3> QED BY <3>1, PrefixType
  <2>4. Unsent(writer) = <<>>
    <3>1. CASE writer.op = "none"
      BY <3>1 DEF Unsent
    <3>2. CASE writer.op = "done"
      <4>1. writer.took = Len(writer.buf) /\ Len(writer.buf) \in Nat
        BY <1>1, <1>5, <3>2
      <4>2. SubSeq(writer.buf, Len(writer.buf) + 1, Len(writer.buf)) = <<>>
        BY <4>1, SubSeqEmpty
      <4> QED BY <3>2, <4>1, <4>2 DEF Unsent, From
    <3> QED BY <1>1, <1>5, <3>1, <3>2 DEF EndType
  <2>5. sent.writer = Started(writer, taken) /\ sent.got = IF pipe.up THEN c ELSE 0
    BY <2>1, <2>3
  <2> DEFINE t == taken
  <2>6. t \in Seq(Cell) /\ sent.writer = Started(writer, t)
    BY <2>3, <2>5
  <2> HIDE DEF t
  <2>7. /\ sent.writer \in EndType /\ sent.writer.took <= Len(sent.writer.buf) /\ sent.writer.took = 0
        /\ sent.writer.state # "opening" /\ (pipe.up => sent.writer.state = "open")
        /\ pipe.up => Unsent(sent.writer) = t
    BY <1>2, <2>6
  <2>8. CASE pipe.up
    BY <2>2, <2>4, <2>5, <2>7, <2>8 DEF t
  <2>9. CASE ~pipe.up
    BY <2>5, <2>7, <2>9
  <2> QED BY <2>8, <2>9
<1> QED BY <1>3, <1>4, <1>5

\* What the run of a send takes from the queue and what it leaves.
TakesRun(q, next, whole) ==
    /\ QueueOK(q) /\ QueueOK(next) /\ whole \in 0..Len(q.messages)
    /\ next.messages = From(q.messages, whole)
    /\ whole + Touched(next) \in Touched(q)..Len(q.messages)

IsRun(q, next, k) ==
    /\ k \in 0..Len(Bared(q))
    /\ Bared(next) = SubSeq(Bared(q), k + 1, Len(Bared(q)))
    /\ \A i \in 1..k : SubSeq(Bared(q), 1, k)[i] = Bare(q.messages[Touched(q) + i])
    /\ SubSeq(Bared(q), 1, k) \in Seq(Message) /\ Len(SubSeq(Bared(q), 1, k)) = k

\* The run of a Send, out of the messages that the queue had.
LEMMA SentRun ==
    ASSUME NEW q, NEW next, NEW whole, TakesRun(q, next, whole)
    PROVE  IsRun(q, next, (whole + Touched(next)) - Touched(q))
<1> DEFINE k == (whole + Touched(next)) - Touched(q)
<1> SUFFICES ASSUME QueueOK(q), QueueOK(next), whole \in 0..Len(q.messages),
                    next.messages = From(q.messages, whole),
                    whole + Touched(next) \in Touched(q)..Len(q.messages)
             PROVE  IsRun(q, next, k)
  BY DEF TakesRun
<1> DEFINE N == Len(q.messages)
           s == Touched(q)
           t == Touched(next)
           B == Bared(q)
<1>1. /\ q.messages \in Seq(Message) /\ N \in Nat /\ s \in 0..N /\ t \in Nat /\ s \in Nat
      /\ whole \in Nat
  <2>1. s \in {0, 1} /\ t \in {0, 1}
    BY DEF Touched
  <2> QED BY <2>1, RestIsPart DEF QueueOK
<1>2. Len(next.messages) = N - whole /\ \A i \in 1..N - whole : next.messages[i] = q.messages[whole + i]
  BY <1>1, FromType
<1>3. /\ B \in Seq(Message) /\ Len(B) = N - s
      /\ \A i \in 1..N - s : B[i] = Bare(q.messages[s + i])
  BY BaredType
<1>4. /\ Bared(next) \in Seq(Message) /\ Len(Bared(next)) = Len(next.messages) - t
      /\ \A i \in 1..Len(next.messages) - t : Bared(next)[i] = Bare(next.messages[t + i])
  BY BaredType
<1>5. whole + t \in s..N /\ k = (whole + t) - s
  OBVIOUS
<1> HIDE DEF s, t, B, N, k
<1>6. k \in 0..Len(B) /\ k \in Nat /\ Len(B) - k = N - whole - t
  BY <1>1, <1>3, <1>5
<1>7. /\ From(B, k) \in Seq(Message) /\ Len(From(B, k)) = Len(B) - k
      /\ \A i \in 1..Len(B) - k : From(B, k)[i] = B[k + i]
  BY <1>3, <1>6, FromType
<1>8. Len(Bared(next)) = Len(B) - k
  BY <1>1, <1>2, <1>4, <1>6
<1>9. ASSUME NEW i \in 1..Len(B) - k PROVE Bared(next)[i] = From(B, k)[i]
  <2>1. i \in 1..N - whole - t /\ i \in Nat
    BY <1>6
  <2>2. t + i \in 1..N - whole /\ whole + (t + i) = s + (k + i) /\ k + i \in 1..N - s /\ i \in 1..(N - whole) - t
    BY <1>1, <1>3, <1>6, <2>1
  <2>3. Bared(next)[i] = Bare(next.messages[t + i])
    BY <1>2, <1>4, <2>2
  <2>4. next.messages[t + i] = q.messages[s + (k + i)]
    BY <1>2, <2>2
  <2>5. B[k + i] = Bare(q.messages[s + (k + i)])
    BY <1>3, <2>2
  <2> QED BY <1>7, <2>3, <2>4, <2>5
<1>10. Bared(next) = From(B, k)
  BY <1>4, <1>7, <1>8, <1>9, SeqEqual
<1>11. /\ SubSeq(B, 1, k) \in Seq(Message) /\ Len(SubSeq(B, 1, k)) = k
       /\ \A i \in 1..k : SubSeq(B, 1, k)[i] = B[i]
  BY <1>3, <1>6, PrefixType
<1>12. \A i \in 1..k : i \in 1..N - s
  BY <1>1, <1>3, <1>6
<1>13. \A i \in 1..k : SubSeq(B, 1, k)[i] = Bare(q.messages[s + i])
  BY <1>3, <1>11, <1>12
<1> QED BY <1>6, <1>10, <1>11, <1>13 DEF B, s, t, From, IsRun

LEMMA PollWriteStep ==
    ASSUME NEW now \in Stamps
    PROVE  PipeInv /\ PollWrite(now) => PipeInv' /\ [Messages!Next]_streamVars
<1> SUFFICES ASSUME PipeInv, PollWrite(now) PROVE PipeInv' /\ [Messages!Next]_streamVars
  OBVIOUS
<1> DEFINE q == Stamped(queue, now)
           n == WritableRun(q)
           bytes == From(AllBytes(SubSeq(q.messages, 1, n)), q.offset)
           sent == PipeSend(writer, bytes)
           next == queue'
<1>1. /\ writer.state = "open" /\ queue.messages # <<>>
      /\ writer' = sent.writer /\ queue' = Advanced(q, sent.got)
      /\ ping' = [ping EXCEPT !.sent = IF q.offset = 0 /\ q.messages[1].kind = "ping" THEN now ELSE @]
      /\ UNCHANGED <<pipe, reader, partial, handled, made>>
  BY DEF PollWrite
<1>2. now \in Nat
  BY DEF Stamps
<1>3. QueueOK(queue) /\ SenderInv /\ ReceiverInv /\ ConnectionInv
  BY DEF PipeInv, SenderInv
<1>4. /\ QueueOK(q) /\ q.messages # <<>> /\ q.offset = queue.offset
      /\ Rest(q) = Rest(queue) /\ Bared(q) = Bared(queue)
      /\ q.offset = 0 /\ q.messages[1].kind = "ping" => q.messages[1] = Ping(now)
  BY <1>1, <1>2, <1>3, StampedQueue
<1> HIDE DEF q
<1>5. /\ n \in 1..Len(q.messages)
      /\ \/ n = 1 /\ q.messages[1].kind = "ping"
         \/ \A i \in 1..n : q.messages[i].kind = "edge"
  BY <1>4, RunOfQueue
<1> HIDE DEF n
<1>6. bytes \in Seq(Cell) /\ Len(bytes) \in Nat \ {0} /\ bytes # <<>>
  <2>1. bytes \in Seq(Cell) /\ Len(bytes) \in Nat \ {0}
    BY <1>4, <1>5, OfferType
  <2> HIDE DEF bytes
  <2> QED BY <2>1
<1> HIDE DEF bytes
<1>7. /\ sent.writer \in EndType /\ sent.writer.took <= Len(sent.writer.buf)
      /\ sent.writer.op = "started" => sent.writer.took = 0
      /\ sent.writer.state # "opening" /\ (pipe.up => sent.writer.state = "open")
      /\ \/ sent.got = 0 /\ (pipe.up => Unsent(sent.writer) = Unsent(writer))
         \/ /\ pipe.up /\ Unsent(writer) = <<>>
            /\ sent.got \in 1..Len(bytes)
            /\ Unsent(sent.writer) = SubSeq(bytes, 1, sent.got)
  BY <1>1, <1>3, <1>6, SendOutcome
<1> HIDE DEF sent
<1>8. ping' \in [sent : Nat, outstanding : BOOLEAN]
  BY <1>1, <1>2 DEF PipeInv, SenderInv
<1>9. Received' = Received
  BY <1>1 DEF Received
<1>10. ReceiverInv'
  BY <1>1 DEF PipeInv, ReceiverInv
<1>11. ConnectionInv'
  BY <1>1, <1>7, <1>9 DEF PipeInv, ConnectionInv
<1>12. /\ InTransit = (Received \o pipe.bytes) \o Held
       /\ InTransit' = (Received \o pipe.bytes) \o Held'
  BY <1>1, <1>9 DEF InTransit, Received, Held, Unsent, Rest
<1>13. Held' = IF pipe.up /\ writer'.state = "open" THEN Unsent(writer') \o Rest(queue') ELSE <<>>
  BY <1>1 DEF Held, Unsent, Rest
<1>14. ASSUME QueueOK(next)
       PROVE  SenderInv' /\ Untouched = Bared(q) /\ Untouched' = Bared(next)
  <2>1. SenderInv'
    BY <1>1, <1>7, <1>8, <1>14 DEF PipeInv, SenderInv
  <2>2. Untouched = Bared(q)
    BY <1>3, <1>4, UntouchedIsBared
  <2>3. (QueueOK(queue) => Untouched = Bared(queue))'
    BY UntouchedIsBared, PTL
  <2>4. Untouched' = Bared(queue')
    BY <1>14, <2>3 DEF QueueOK, Bared, Touched
  <2> QED BY <2>1, <2>2, <2>4
<1>15. CASE sent.got = 0 /\ (pipe.up => Unsent(sent.writer) = Unsent(writer))
  <2>1. queue' = q
    BY <1>1, <1>4, <1>15, NothingTaken
  <2>2. Held' = Held
    <3>1. CASE pipe.up
      BY <1>1, <1>4, <1>7, <1>13, <1>15, <2>1, <3>1 DEF Held
    <3>2. CASE ~pipe.up
      BY <1>13, <3>2 DEF Held
    <3> QED BY <3>1, <3>2
  <2>3. InTransit' = InTransit
    BY <1>12, <2>2
  <2>4. OnTheWay' = OnTheWay
    BY <2>3 DEF OnTheWay
  <2>5. SenderInv' /\ Untouched' = Untouched
    BY <1>4, <1>14, <2>1
  <2>6. Messages!Time
    BY <1>1, <2>4, <2>5 DEF Messages!Time
  <2>7. FramingInv'
    BY <1>1, <2>3 DEF PipeInv, FramingInv
  <2> QED BY <1>10, <1>11, <2>5, <2>6, <2>7 DEF PipeInv, Messages!Next
<1>16. CASE /\ pipe.up /\ Unsent(writer) = <<>>
            /\ sent.got \in 1..Len(bytes)
            /\ Unsent(sent.writer) = SubSeq(bytes, 1, sent.got)
  <2> DEFINE c == sent.got
             whole == (q.offset + c) \div MessageSize
             s == Touched(q)
             top == whole + Touched(next)
             part == SubSeq(q.messages, s + 1, top)
             k == top - s
  <2>1. /\ QueueOK(next)
        /\ whole \in 0..n /\ next.messages = From(q.messages, whole)
        /\ top \in s..n /\ top >= 1
        /\ SubSeq(bytes, 1, c) \o Rest(next) = Rest(q) \o AllBytes(part)
    <3>1. next = Advanced(q, c) /\ bytes = From(AllBytes(SubSeq(q.messages, 1, n)), q.offset)
      BY <1>1 DEF bytes
    <3>2. c \in 1..Len(bytes)
      BY <1>16
    <3> DEFINE x == next
    <3> HIDE DEF c, x
    <3>3. x = Advanced(q, c)
      BY <3>1 DEF x
    <3> DEFINE w == whole
    <3> HIDE DEF w
    <3>4. w = (q.offset + c) \div MessageSize
      BY DEF w
    <3>5. IsSend(q, n, bytes, c, x, w)
      BY <1>4, <1>5, <3>1, <3>2, <3>3, <3>4 DEF IsSend
    <3>6. IsCut(q, n, bytes, c, x, w)
      BY <3>5, SendIsCut, Zenon
    <3> QED BY <3>6, Zenon DEF IsCut, x, w
  <2> HIDE DEF whole
  <2>2. q.messages \in Seq(Message) /\ Len(q.messages) \in Nat /\ n \in Nat /\ n <= Len(q.messages) /\ s \in 0..Len(q.messages)
    <3>1. q.messages \in Seq(Message)
      BY <1>4 DEF QueueOK
    <3>2. s \in 0..Len(q.messages)
      BY <1>4, RestIsPart
    <3> QED BY <1>5, <3>1, <3>2
  <2>3. SenderInv' /\ Untouched = Bared(q) /\ Untouched' = Bared(next)
    BY <1>14, <2>1
  <2>4. /\ k \in 0..Len(Bared(q))
        /\ Bared(next) = SubSeq(Bared(q), k + 1, Len(Bared(q)))
        /\ \A i \in 1..k : SubSeq(Bared(q), 1, k)[i] = Bare(q.messages[s + i])
        /\ SubSeq(Bared(q), 1, k) \in Seq(Message) /\ Len(SubSeq(Bared(q), 1, k)) = k
    <3>1. whole \in 0..Len(q.messages) /\ top \in s..Len(q.messages)
      <4> HIDE DEF s, top
      <4> QED BY <2>1, <2>2
    <3> DEFINE x == next
    <3> HIDE DEF x
    <3>2. TakesRun(q, x, whole)
      BY <1>4, <2>1, <3>1 DEF x, TakesRun
    <3>3. IsRun(q, x, (whole + Touched(x)) - Touched(q))
      BY <3>2, SentRun, Zenon
    <3> QED BY <3>3, Zenon DEF x, IsRun
  <2>5. /\ part \in Seq(Message) /\ Len(part) = k
        /\ \A i \in 1..k : part[i] = q.messages[s + i]
    <3>1. s \in 0..Len(q.messages) /\ top \in s..Len(q.messages)
      <4> HIDE DEF s, top
      <4> QED BY <2>1, <2>2
    <3> HIDE DEF s, top
    <3> QED BY <2>2, <3>1, PartType
  <2>6. InTransit' = InTransit \o AllBytes(part)
    <3> DEFINE a == Received \o pipe.bytes
               r == Rest(q)
               g == AllBytes(part)
    <3>1. a \in Seq(Cell) /\ r \in Seq(Cell) /\ g \in Seq(Cell)
      <4>1. a \in Seq(Cell)
        BY <1>3, Parts
      <4>2. r \in Seq(Cell)
        BY <1>4, RestIsPart
      <4>3. g \in Seq(Cell)
        <5> HIDE DEF part
        <5> QED BY <2>5, AllBytesType
      <4> QED BY <4>1, <4>2, <4>3
    <3>2. Held = r
      <4>1. Held = <<>> \o r
        BY <1>1, <1>4, <1>16 DEF Held
      <4> HIDE DEF r
      <4>2. <<>> \o r = r
        BY <3>1, ConcatEmptySeq
      <4> QED BY <4>1, <4>2
    <3>3. Held' = r \o g
      <4>1. Held' = Unsent(writer') \o Rest(queue')
        BY <1>1, <1>7, <1>13, <1>16
      <4>2. Unsent(writer') = SubSeq(bytes, 1, c)
        BY <1>1, <1>16
      <4> QED BY <2>1, <4>1, <4>2, Zenon
    <3> HIDE DEF a, r, g
    <3>4. (a \o r) \o g = a \o (r \o g)
      BY ONLY <3>1, ConcatAssociative, SMTT(30)
    <3>5. InTransit = a \o r /\ InTransit' = a \o (r \o g)
      BY <1>12, <3>2, <3>3, Zenon DEF a
    <3> QED BY <3>4, <3>5, Zenon DEF g
  <2>7. /\ FramingInv' /\ OnTheWay' = OnTheWay \o part
        /\ OnTheWay \in Seq(Message)
    <3>1. PICK ms : Frames(InTransit, ms)
      BY DEF PipeInv, FramingInv
    <3>2. Len(InTransit) % MessageSize = 0
      BY <1>1, <1>16 DEF PipeInv, FramingInv
    <3> DEFINE T == InTransit
               p == part
    <3>3. Frames(T, ms) /\ Len(T) % MessageSize = 0 /\ p \in Seq(Message)
      BY <2>5, <3>1, <3>2
    <3> HIDE DEF T, p
    <3>4. /\ Frames(T \o AllBytes(p), Whole(T) \o p)
          /\ Whole(T \o AllBytes(p)) = Whole(T) \o p
          /\ Len(T \o AllBytes(p)) % MessageSize = 0
      BY <3>3, FramesAppend
    <3>5. Whole(T) \in Seq(Message)
      BY <3>3, FramesWhole
    <3>6. OnTheWay = Whole(T) /\ OnTheWay' = Whole(InTransit')
      BY DEF T, OnTheWay, Whole
    <3>7. InTransit' = T \o AllBytes(p)
      BY <2>6 DEF T, p
    <3>8. FramingInv'
      BY <3>4, <3>7 DEF FramingInv
    <3>9. OnTheWay' = OnTheWay \o part
      BY <3>4, <3>6, <3>7, Zenon DEF p
    <3> QED BY <3>5, <3>6, <3>8, <3>9
  <2> DEFINE B == Bared(q)
             run == SubSeq(B, 1, k)
             W == OnTheWay
  <2>8. Messages!Next
    <3>1. CASE k = 0
      <4>1. part = <<>>
        <5> HIDE DEF part, k
        <5> QED BY <2>5, <3>1
      <4>2. OnTheWay' = OnTheWay
        <5>1. W \o <<>> = W
          BY <2>7, ConcatEmptySeq
        <5> QED BY <2>7, <4>1, <5>1, Zenon
      <4>3. Bared(next) = Bared(q)
        <5>1. B \in Seq(Message)
          BY <1>4, BaredType
        <5> HIDE DEF B
        <5>2. SubSeq(B, 0 + 1, Len(B)) = B
          BY <5>1, SubSeqFull
        <5> HIDE DEF k
        <5> QED BY <2>4, <3>1, <5>2, Zenon DEF B
      <4>4. Messages!Time
        BY <1>1, <2>3, <4>2, <4>3, Zenon DEF Messages!Time
      <4> QED BY <4>4 DEF Messages!Next
    <3>2. CASE k # 0
      <4>1. k \in 1..Len(B)
        <5>1. B \in Seq(Message)
          BY <1>4, BaredType
        <5> HIDE DEF B, k
        <5> QED BY <2>4, <3>2, <5>1 DEF B
      <4>2. /\ Untouched = B /\ Untouched' = SubSeq(B, k + 1, Len(B))
        BY <2>3, <2>4, Zenon
      <4>3. \/ /\ \A i \in 1..k : run[i].kind = "edge"
               /\ OnTheWay' = OnTheWay \o run
               /\ ping'.sent = ping.sent
            \/ /\ k = 1 /\ run[1].kind = "ping"
               /\ OnTheWay' = Append(OnTheWay, [kind |-> "ping", value |-> ping'.sent])
        <5>1. CASE n = 1 /\ q.messages[1].kind = "ping"
          <6>1. s = 0 /\ k = 1
            <7> HIDE DEF s, top
            <7> QED BY <2>1, <2>2, <4>1, <5>1
          <6>2. q.offset = 0
            BY <6>1 DEF Touched
          <6>3. q.messages[1] = Ping(now)
            BY <1>4, <5>1, <6>2
          <6>4. part[1] = Ping(now) /\ run[1] = Bare(Ping(now))
            <7>1. 1 \in 1..k /\ s + 1 = 1
              <8> HIDE DEF k, s
              <8> QED BY <6>1
            <7> HIDE DEF k, s, part, B
            <7> QED BY <2>4, <2>5, <6>3, <7>1 DEF B
          <6>5. run[1].kind = "ping"
            <7>1. Bare(Ping(now)).kind = "ping"
              BY DEF Bare, Ping
            <7> QED BY <6>4, <7>1, Zenon
          <6>6. part = <<Ping(now)>>
            <7> HIDE DEF k, part, s
            <7>1. Ping(now) \in Message
              BY <1>2 DEF Ping, Message
            <7>2. <<Ping(now)>> \in Seq(Message) /\ Len(<<Ping(now)>>) = 1 /\ <<Ping(now)>>[1] = Ping(now)
              BY <7>1
            <7> DEFINE one == <<Ping(now)>>
            <7> HIDE DEF one
            <7>3. one \in Seq(Message) /\ Len(one) = Len(part) /\ \A i \in 1..Len(one) : one[i] = part[i]
              BY <2>5, <6>1, <6>4, <7>2 DEF one
            <7> QED BY <2>5, <7>3, SeqEqual DEF one
          <6>7. ping'.sent = now
            BY <1>1, <5>1, <6>2 DEF PipeInv, SenderInv
          <6>8. OnTheWay' = Append(OnTheWay, [kind |-> "ping", value |-> ping'.sent])
            <7>1. OnTheWay' = OnTheWay \o <<Ping(now)>>
              BY <2>7, <6>6, Zenon
            <7> DEFINE V == OnTheWay'
            <7> HIDE DEF W, V
            <7>2. V = W \o <<Ping(now)>> /\ W \in Seq(Message)
              BY <2>7, <7>1 DEF W, V
            <7>3. V = Append(W, Ping(now))
              BY <7>2, AppendProperties, AppendIsConcat
            <7> QED BY <6>7, <7>3 DEF W, V, Ping
          <6> QED BY <6>1, <6>5, <6>8
        <5>2. CASE \A i \in 1..n : q.messages[i].kind = "edge"
          <6>1. ASSUME NEW i \in 1..k
                PROVE  run[i] = part[i] /\ run[i].kind = "edge"
            <7>1. s + i \in 1..n
              <8> HIDE DEF s, top
              <8> QED BY <2>1, <2>2
            <7>2. q.messages[s + i].kind = "edge"
              BY <5>2, <7>1
            <7> HIDE DEF k, s, part, B
            <7>3. run[i] = Bare(q.messages[s + i]) /\ part[i] = q.messages[s + i]
              BY <2>4, <2>5 DEF B
            <7> QED BY <7>2, <7>3 DEF Bare
          <6>2. run = part
            <7> HIDE DEF k, part, B
            <7>1. run \in Seq(Message) /\ Len(run) = k
              BY <2>4, Zenon DEF B
            <7> HIDE DEF run
            <7> QED BY <2>5, <6>1, <7>1, SeqEqual
          <6>3. ping'.sent = ping.sent
            <7>1. 1 \in 1..n
              BY <1>5, <2>2
            <7>2. q.messages[1].kind = "edge"
              BY <5>2, <7>1
            <7> QED BY <1>1, <7>2 DEF PipeInv, SenderInv
          <6>4. OnTheWay' = OnTheWay \o run
            BY <2>7, <6>2, Zenon
          <6> QED BY <6>1, <6>3, <6>4, Zenon
        <5> QED BY <1>5, <5>1, <5>2
      <4>4. Messages!Send
        <5> HIDE DEF k, B
        <5> QED BY <1>1, <4>1, <4>2, <4>3, Zenon DEF Messages!Send
      <4> QED BY <4>4 DEF Messages!Next
    <3> QED BY <3>1, <3>2
  <2> QED BY <1>10, <1>11, <2>3, <2>7, <2>8 DEF PipeInv
<1> QED BY <1>7, <1>15, <1>16

-----------------------------------------------------------------------------
(* The receiver                                                               *)

LEMMA EndOfConcat ==
    ASSUME NEW S, NEW s \in Seq(S), NEW t \in Seq(S)
    PROVE  From(s \o t, Len(s)) = t
<1> DEFINE st == s \o t
           end == From(st, Len(s))
<1>1. /\ st \in Seq(S) /\ Len(st) = Len(s) + Len(t) /\ Len(s) \in Nat /\ Len(t) \in Nat
      /\ \A i \in 1..Len(s) + Len(t) : st[i] = IF i <= Len(s) THEN s[i] ELSE t[i - Len(s)]
  BY ConcatProperties
<1> HIDE DEF st
<1>2. Len(s) \in 0..Len(st) /\ Len(st) - Len(s) = Len(t)
  BY <1>1
<1>3. /\ end \in Seq(S) /\ Len(end) = Len(t) /\ \A i \in 1..Len(t) : end[i] = st[Len(s) + i]
  BY <1>1, <1>2, FromType
<1> HIDE DEF end
<1>4. ASSUME NEW i \in 1..Len(t) PROVE end[i] = t[i]
  <2>1. /\ Len(s) + i \in 1..Len(s) + Len(t) /\ ~(Len(s) + i <= Len(s))
        /\ (Len(s) + i) - Len(s) = i
    BY <1>1
  <2>2. st[Len(s) + i] = t[(Len(s) + i) - Len(s)]
    BY <1>1, <2>1
  <2> QED BY <1>3, <2>1, <2>2
<1>5. end = t
  BY <1>3, <1>4, SeqEqual
<1> QED BY <1>5 DEF end, st

\* The bytes that poll_read has after a read of the buffer, and those that stay
\* in the buffer.
LEMMA ReadSplit ==
    ASSUME ReceiverInv, reader.state = "open", reader.buf # <<>>,
           NEW n, n = Least(Len(reader.buf), MessageSize - Len(partial)),
           NEW bytes, bytes = partial \o SubSeq(reader.buf, 1, n),
           NEW rest, rest = From(reader.buf, n)
    PROVE  /\ bytes \in Seq(Cell) /\ rest \in Seq(Cell)
           /\ bytes \o rest = partial \o reader.buf
           /\ Len(bytes) <= MessageSize
           /\ Len(bytes) # MessageSize => rest = <<>>
<1> DEFINE a == partial
           b == reader.buf
           h == SubSeq(b, 1, n)
<1>1. a \in Seq(Cell) /\ b \in Seq(Cell) /\ Len(a) < MessageSize /\ b # <<>>
  BY DEF ReceiverInv, EndType
<1>2. Len(a) \in Nat /\ Len(b) \in Nat /\ Len(b) # 0
  BY <1>1
<1>3. /\ n \in Nat /\ 1 <= n /\ n <= Len(b) /\ Len(a) + n <= MessageSize
      /\ Len(a) + n # MessageSize => n = Len(b)
  <2>1. n = IF Len(b) < MessageSize - Len(a) THEN Len(b) ELSE MessageSize - Len(a)
    BY DEF Least
  <2> HIDE DEF a, b
  <2> QED BY <1>1, <1>2, <2>1, SizesType
<1>6. bytes = a \o h /\ rest = From(b, n) /\ h = SubSeq(b, 1, n)
  OBVIOUS
<1> HIDE DEF a, b, h
<1>4. h \in Seq(Cell) /\ Len(h) = n /\ h \o rest = b
  <2>1. n \in 0..Len(b)
    BY <1>2, <1>3
  <2>2. /\ SubSeq(b, 1, n) \in Seq(Cell) /\ Len(SubSeq(b, 1, n)) = n
        /\ SubSeq(b, 1, n) \o From(b, n) = b
    BY <1>1, <2>1, SplitAt
  <2> QED BY <1>6, <2>2, Zenon
<1>5. rest \in Seq(Cell) /\ Len(rest) = Len(b) - n
  <2>1. n \in 0..Len(b)
    BY <1>2, <1>3
  <2>2. From(b, n) \in Seq(Cell) /\ Len(From(b, n)) = Len(b) - n
    BY <1>1, <2>1, FromType
  <2> QED BY <1>6, <2>2, Zenon
<1>7. bytes \in Seq(Cell) /\ Len(bytes) = Len(a) + n
  <2>1. a \o h \in Seq(Cell) /\ Len(a \o h) = Len(a) + Len(h)
    BY <1>1, <1>4, ConcatProperties
  <2> QED BY <1>4, <1>6, <2>1
<1>8. (a \o h) \o rest = a \o (h \o rest)
  <2>1. a \in Seq(Cell) /\ h \in Seq(Cell) /\ rest \in Seq(Cell)
    BY <1>1, <1>4, <1>5
  <2> QED BY ONLY <2>1, ConcatAssociative, SMTT(30)
<1>9. bytes \o rest = a \o b
  BY <1>4, <1>6, <1>8, Zenon
<1>10. Len(bytes) <= MessageSize
  BY <1>3, <1>7
<1>11. Len(bytes) # MessageSize => rest = <<>>
  BY <1>2, <1>3, <1>5, <1>7
<1> QED BY <1>5, <1>7, <1>9, <1>10, <1>11 DEF a, b

LEMMA PollReadStep == PipeInv /\ PollRead => PipeInv' /\ [Messages!Next]_streamVars
<1> SUFFICES ASSUME PipeInv, PollRead PROVE PipeInv' /\ [Messages!Next]_streamVars
  OBVIOUS
<1> DEFINE n == Least(Len(reader.buf), MessageSize - Len(partial))
           bytes == partial \o SubSeq(reader.buf, 1, n)
           rest == From(reader.buf, n)
           after == (rest \o pipe.bytes) \o Held
<1>1. /\ reader.state = "open" /\ reader.buf # <<>>
      /\ reader' = IF rest = <<>> THEN ReadStarted(reader)
                                  ELSE [reader EXCEPT !.buf = rest, !.op = "none"]
      /\ IF Len(bytes) = MessageSize /\ reader'.state = "open"
         THEN partial' = <<>> /\ handled' = Assembled(bytes)
         ELSE partial' = bytes /\ UNCHANGED handled
      /\ UNCHANGED <<queue, ping, writer, pipe, made>>
  BY DEF PollRead
<1>2. /\ bytes \in Seq(Cell) /\ rest \in Seq(Cell)
      /\ bytes \o rest = partial \o reader.buf
      /\ Len(bytes) <= MessageSize
      /\ Len(bytes) # MessageSize => rest = <<>>
  BY <1>1, ReadSplit DEF PipeInv
<1> HIDE DEF n, bytes, rest
<1>3. /\ reader' \in EndType /\ reader'.buf = rest
      /\ reader'.state \in {"open", "error"}
      /\ reader'.state = "error" => ~pipe.up /\ pipe.bytes = <<>>
      /\ reader'.op = "started" => reader'.state = "open" /\ rest = <<>>
  <2>1. reader \in EndType
    BY DEF PipeInv, ReceiverInv
  <2>2. CASE rest = <<>>
    <3>1. reader' = ReadStarted(reader)
      BY <1>1, <2>2
    <3>2. /\ reader.state = "open" /\ reader.took \in Nat /\ <<>> \in Seq(Cell)
          /\ reader = [state |-> reader.state, buf |-> reader.buf, op |-> reader.op, took |-> reader.took]
      BY <1>1, <2>1 DEF EndType
    <3>3. CASE pipe.up \/ pipe.bytes # <<>>
      <4>1. reader' = [state |-> "open", buf |-> <<>>, op |-> "started", took |-> reader.took]
        BY <3>1, <3>2, <3>3 DEF ReadStarted
      <4> QED BY <2>2, <3>2, <4>1 DEF EndType
    <3>4. CASE ~pipe.up /\ pipe.bytes = <<>>
      <4>1. reader' = [state |-> "error", buf |-> <<>>, op |-> "none", took |-> reader.took]
        BY <3>1, <3>2, <3>4 DEF ReadStarted
      <4> QED BY <2>2, <3>2, <3>4, <4>1 DEF EndType
    <3> QED BY <3>3, <3>4
  <2>3. CASE rest # <<>>
    <3>1. reader' = [reader EXCEPT !.buf = rest, !.op = "none"]
      BY <1>1, <2>3
    <3> QED BY <1>1, <1>2, <2>1, <3>1 DEF EndType
  <2> QED BY <2>2, <2>3
<1>4. /\ Received \in Seq(Cell) /\ pipe.bytes \in Seq(Cell) /\ Held \in Seq(Cell)
      /\ InTransit = (Received \o pipe.bytes) \o Held
      /\ InTransit \in Seq(Cell)
  BY Parts DEF PipeInv
<1>5. Received = bytes \o rest
  BY <1>1, <1>2 DEF Received
<1>6. Held' = Held
  BY <1>1 DEF Held, Unsent, Rest
<1>7. InTransit' = (Received' \o pipe.bytes) \o Held
  <2>1. InTransit' = (Received' \o pipe'.bytes) \o Held'
    BY DEF InTransit, Received, Held, Unsent, Rest
  <2> QED BY <1>1, <1>6, <2>1
<1>8. SenderInv'
  BY <1>1 DEF PipeInv, SenderInv
<1>9. ReceiverInv'
  <2>1. partial' \in Seq(Cell)
    <3>1. partial' = <<>> \/ partial' = bytes
      BY <1>1
    <3>2. <<>> \in Seq(Cell)
      OBVIOUS
    <3> QED BY <1>2, <3>1, <3>2, Zenon
  <2>2. reader'.state = "open" => Len(partial') < MessageSize
    <3>1. Len(<<>>) = 0 /\ 0 < MessageSize
      BY SizesType
    <3> QED BY <1>1, <1>2, <3>1, SizesType
  <2> QED BY <1>3, <2>1, <2>2 DEF ReceiverInv
<1>10. UNCHANGED <<queue, ping>> /\ Untouched' = Untouched
  BY <1>1, UntouchedStays
<1>11. ConnectionInv'
  <2>1. pipe.up /\ writer.state = "opening" => FALSE
    <3>1. pipe.up /\ writer.state = "opening" => Received = <<>>
      BY DEF PipeInv, ConnectionInv
    <3>2. Received # <<>>
      <4>1. partial \in Seq(Cell) /\ reader.buf \in Seq(Cell)
        BY DEF PipeInv, ReceiverInv, EndType
      <4> QED BY <1>1, <4>1 DEF Received
    <3> QED BY <3>1, <3>2
  <2> QED BY <1>1, <2>1 DEF PipeInv, ConnectionInv
<1>12. CASE reader'.state = "error"
  <2>1. Received' = <<>> /\ pipe.bytes = <<>> /\ Held = <<>>
    BY <1>3, <1>12 DEF Received, Held
  <2>2. InTransit' = <<>>
    BY <1>7, <2>1
  <2>3. handled' = handled
    BY <1>1, <1>12
  <2>4. [Messages!Next]_streamVars /\ \E ms : Frames(InTransit', ms)
    BY <1>10, <2>2, <2>3, LoseStep
  <2>5. FramingInv'
    BY <1>1, <1>3, <1>12, <2>4 DEF FramingInv
  <2> QED BY <1>8, <1>9, <1>11, <2>4, <2>5 DEF PipeInv
<1>13. CASE reader'.state = "open" /\ Len(bytes) # MessageSize
  <2>1. partial' = bytes /\ handled' = handled
    BY <1>1, <1>13
  <2>2. Received' = bytes \o rest
    BY <1>3, <1>13, <2>1 DEF Received
  <2>3. InTransit' = InTransit
    BY <1>4, <1>5, <1>7, <2>2, Zenon
  <2>4. [Messages!Next]_streamVars
    BY <1>10, <2>1, <2>3, StayStep
  <2>5. FramingInv'
    BY <1>1, <2>3 DEF PipeInv, FramingInv
  <2> QED BY <1>8, <1>9, <1>11, <2>4, <2>5 DEF PipeInv
<1>14. CASE reader'.state = "open" /\ Len(bytes) = MessageSize
  <2>1. partial' = <<>> /\ handled' = Assembled(bytes)
    BY <1>1, <1>14
  <2>2. Received' = rest
    <3>1. Received' = <<>> \o rest
      BY <1>3, <1>14, <2>1 DEF Received
    <3>2. <<>> \o rest = rest
      BY <1>2, ConcatEmptySeq
    <3> QED BY <3>1, <3>2
  <2>3. InTransit' = after /\ after \in Seq(Cell)
    <3>1. after \in Seq(Cell)
      BY <1>2, <1>4
    <3> QED BY <1>7, <2>2, <3>1, Zenon
  <2>4. InTransit = bytes \o after
    <3> DEFINE p == pipe.bytes
               hd == Held
    <3>1. p \in Seq(Cell) /\ hd \in Seq(Cell) /\ bytes \in Seq(Cell) /\ rest \in Seq(Cell)
      BY <1>2, <1>4
    <3>2. InTransit = ((bytes \o rest) \o p) \o hd
      BY <1>4, <1>5, Zenon
    <3> HIDE DEF p, hd
    <3>3. (bytes \o rest) \o p = bytes \o (rest \o p)
      BY ONLY <3>1, ConcatAssociative, SMTT(30)
    <3> DEFINE rp == rest \o p
    <3>4. rp \in Seq(Cell)
      BY ONLY <3>1, ConcatProperties, SMTT(30)
    <3> HIDE DEF rp
    <3>5. (bytes \o rp) \o hd = bytes \o (rp \o hd)
      BY ONLY <3>1, <3>4, ConcatAssociative, SMTT(30)
    <3>6. after = rp \o hd
      BY DEF rp, p, hd
    <3>7. ((bytes \o rest) \o p) \o hd = (bytes \o rp) \o hd
      BY <3>3, Zenon DEF rp
    <3> QED BY <3>2, <3>5, <3>6, <3>7, Zenon
  <2> HIDE DEF after
  <2>5. SubSeq(InTransit, 1, MessageSize) = bytes /\ MessageSize \in 0..Len(InTransit)
    BY <1>2, <1>14, <2>3, <2>4, StartOfConcat
  <2>6. From(InTransit, MessageSize) = InTransit'
    BY <1>2, <1>14, <2>3, <2>4, EndOfConcat
  <2>7. PICK ms : Frames(InTransit, ms)
    BY DEF PipeInv, FramingInv
  <2> DEFINE T == InTransit
             T1 == InTransit'
  <2>8. /\ Frames(T, ms) /\ MessageSize <= Len(T)
        /\ SubSeq(T, 1, MessageSize) = bytes /\ From(T, MessageSize) = T1
    BY <2>5, <2>6, <2>7
  <2>9. OnTheWay = Whole(T) /\ OnTheWay' = Whole(T1)
    BY DEF OnTheWay, Whole
  <2>10. pipe'.up /\ writer'.state = "open" => Len(T) % MessageSize = 0
    BY <1>1 DEF PipeInv, FramingInv
  <2> HIDE DEF T, T1
  <2>11. /\ Frames(T1, From(ms, 1))
         /\ Whole(T) # <<>> /\ Head(Whole(T)) = Assembled(bytes) /\ Tail(Whole(T)) = Whole(T1)
         /\ Len(T1) % MessageSize = Len(T) % MessageSize
    <3>1. /\ Frames(From(T, MessageSize), From(ms, 1))
          /\ Whole(T) # <<>>
          /\ Head(Whole(T)) = Assembled(SubSeq(T, 1, MessageSize))
          /\ Tail(Whole(T)) = Whole(From(T, MessageSize))
          /\ Len(From(T, MessageSize)) % MessageSize = Len(T) % MessageSize
      BY <2>8, FramesDrop
    <3> QED BY <2>8, <3>1, Zenon
  <2>12. FramingInv'
    BY <2>10, <2>11 DEF FramingInv, T1
  <2>13. Messages!Receive
    BY <1>10, <2>1, <2>9, <2>11 DEF Messages!Receive
  <2> QED BY <1>8, <1>9, <1>11, <2>12, <2>13 DEF PipeInv, Messages!Next
<1> QED BY <1>3, <1>12, <1>13, <1>14

-----------------------------------------------------------------------------
(* The theorem                                                                *)

LEMMA PipeNextStep == PipeInv /\ [PipeNext]_pipeVars => PipeInv' /\ [Messages!Next]_streamVars
<1> SUFFICES ASSUME PipeInv, [PipeNext]_pipeVars PROVE PipeInv' /\ [Messages!Next]_streamVars
  OBVIOUS
<1>1. CASE OsConnect
  BY <1>1, ConnectStep
<1>2. CASE SenderConnected
  BY <1>2, SenderConnectedStep
<1>3. CASE Break
  BY <1>3, BreakStep
<1>4. CASE SenderReopens
  BY <1>4, SenderReopensStep
<1>5. CASE ReceiverReopens
  BY <1>5, ReceiverReopensStep
<1>6. CASE EnqueueEdge
  BY <1>6, EnqueueEdgeStep
<1>7. CASE PipeSystem
  BY <1>7, OsWriteStep, OsReadStep DEF PipeSystem
<1>8. CASE PingClock
  BY <1>8, MaybeSendPingStep, PingEndsStep DEF PingClock
<1>9. CASE SenderPump
  BY <1>9, PollWriteStep DEF SenderPump
<1>10. CASE ReceiverPump
  BY <1>10, ReceiverConnectedStep, PollReadStep, PollReadFailsStep DEF ReceiverPump
<1>11. CASE UNCHANGED pipeVars
  <2>1. /\ UNCHANGED queue /\ UNCHANGED ping /\ UNCHANGED writer /\ UNCHANGED pipe
        /\ UNCHANGED reader /\ UNCHANGED partial /\ UNCHANGED handled /\ UNCHANGED made
    BY <1>11 DEF pipeVars
  <2>2. Received' = Received
    BY <2>1 DEF Received
  <2>3. InTransit' = InTransit
    BY <2>1 DEF InTransit
  <2>4. Untouched' = Untouched
    BY <2>1, UntouchedStays
  <2>5. [Messages!Next]_streamVars
    BY <2>1, <2>3, <2>4, StayStep
  <2>6. SenderInv'
    BY <2>1 DEF PipeInv, SenderInv
  <2>7. ReceiverInv'
    BY <2>1 DEF PipeInv, ReceiverInv
  <2>8. ConnectionInv'
    BY <2>1, <2>2 DEF PipeInv, ConnectionInv
  <2>9. FramingInv'
    BY <2>1, <2>3 DEF PipeInv, FramingInv
  <2> QED BY <2>5, <2>6, <2>7, <2>8, <2>9 DEF PipeInv
<1> QED BY <1>1, <1>2, <1>3, <1>4, <1>5, <1>6, <1>7, <1>8, <1>9, <1>10, <1>11 DEF PipeNext

\* Messages arrive whole, in order, at most one time and with the stamp of their
\* first byte, for every size of a message, of the queue and of the buffers, and
\* whatever parts the system takes (poll_write and poll_read of ir_link.c,
\* pipe_send and pipe_recv of ir_transport_pipe.c).
THEOREM PipeRefines == PipeSpec => PipeIsAStream
<1>1. PipeInit => PipeInv /\ Messages!Init
  BY PipeInitStep
<1>2. PipeInv /\ [PipeNext]_pipeVars => PipeInv' /\ [Messages!Next]_streamVars
  BY PipeNextStep
<1> QED BY <1>1, <1>2, PTL DEF PipeSpec, PipeIsAStream, Messages!Spec, streamVars
=============================================================================
