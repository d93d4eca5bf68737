-------------------------- MODULE ProtoStreamProofs --------------------------
(* Proofs about the codec and the stream for any messages, any type names,    *)
(* any chunk sizes and any length limit: what is framed parses back, and      *)
(* however the stream is cut, messages come out as they were sent and the     *)
(* first bad frame is the one the error callback hears of.                    *)
EXTENDS ProtoStream, BufferLemmas, WellFoundedInduction

-----------------------------------------------------------------------------
(* A nonempty set of naturals has a least element: induction by least         *)
(* counterexample.                                                            *)
LEMMA LeastNat ==
    ASSUME NEW T, T \subseteq Nat, T # {}
    PROVE  \E x \in T : \A y \in T : x <= y
<1> DEFINE R == {ss \in Nat \X Nat : ss[1] < ss[2]}
<1>1. IsWellFoundedOn(R, Nat)
  BY NatLessThanWellFounded DEF OpToRel
<1>2. \E x \in T : \A y \in T : ~ (<<y, x>> \in R)
  <2> HIDE DEF R
  <2>1. QED
    BY <1>1, WFMin
<1>3. ASSUME NEW x \in T, NEW y \in T, <<y, x>> \notin R PROVE x <= y
  BY <1>3
<1>4. QED
  <2> HIDE DEF R
  <2>1. QED
    BY <1>2, <1>3

(* f sums up g: the recursion of Adler32 and of SizesOf.                      *)
Sums(f, g, n) == f = [i \in 0..n |-> IF i = 0 THEN 0 ELSE f[i - 1] + g[i]]

(* A sum of naturals is a natural.                                            *)
LEMMA SumsType ==
    ASSUME NEW n \in Nat, NEW g, \A i \in 1..n : g[i] \in Nat, NEW f, Sums(f, g, n)
    PROVE  /\ f \in [0..n -> Nat]
           /\ f[0] = 0
           /\ \A i \in 1..n : f[i] = f[i - 1] + g[i]
<1>1. f[0] = 0 /\ \A i \in 1..n : f[i] = f[i - 1] + g[i]
  BY DEF Sums
<1> DEFINE T == {i \in 0..n : f[i] \notin Nat}
<1>2. T = {}
  <2> SUFFICES ASSUME T # {} PROVE FALSE
    OBVIOUS
  <2>0. T \subseteq Nat
    OBVIOUS
  <2>1. PICK i \in T : \A j \in T : i <= j
    <3> HIDE DEF T
    <3>1. QED
      BY <2>0, LeastNat
  <2>2. i # 0 /\ i \in 1..n /\ i - 1 \in 0..n /\ ~(i <= i - 1)
    BY <1>1
  <2>3. f[i - 1] \in Nat
    BY <2>1, <2>2
  <2>4. QED
    BY <1>1, <2>1, <2>2, <2>3
<1>3. DOMAIN f = 0..n /\ f = [i \in 0..n |-> f[i]]
  BY DEF Sums
<1>4. QED
  BY <1>1, <1>2, <1>3

(* Every sequence of naturals can be summed up.                               *)
LEMMA SumsExist ==
    ASSUME NEW n \in Nat, NEW g, \A i \in 1..n : g[i] \in Nat
    PROVE  \E f : Sums(f, g, n)
<1> DEFINE T == {m \in 0..n : ~ \E f : Sums(f, g, m)}
<1>1. T = {}
  <2> SUFFICES ASSUME T # {} PROVE FALSE
    OBVIOUS
  <2>0. T \subseteq Nat
    OBVIOUS
  <2>1. PICK m \in T : \A j \in T : m <= j
    <3> HIDE DEF T
    <3>1. QED
      BY <2>0, LeastNat
  <2>2. m # 0
    <3> DEFINE f == [i \in 0..0 |-> 0]
    <3>1. f = [i \in 0..0 |-> IF i = 0 THEN 0 ELSE f[i - 1] + g[i]]
      OBVIOUS
    <3>2. Sums(f, g, 0)
      BY <3>1 DEF Sums
    <3>3. QED
      BY <3>2
  <2>3. m \in 1..n /\ m - 1 \in 0..n /\ ~(m <= m - 1)
    BY <2>2
  <2>4. PICK f : Sums(f, g, m - 1)
    BY <2>1, <2>3
  <2> DEFINE h == [i \in 0..m |-> IF i = m THEN f[m - 1] + g[m] ELSE f[i]]
  <2>5. ASSUME NEW i \in 0..m PROVE h[i] = IF i = 0 THEN 0 ELSE h[i - 1] + g[i]
    <3>1. CASE i = m
      BY <2>3, <3>1
    <3>2. CASE i # m
      <4>1. i \in 0..(m - 1) /\ h[i] = f[i]
        BY <2>3, <3>2
      <4>2. i # 0 => h[i - 1] = f[i - 1]
        BY <2>3, <4>1
      <4>3. f[i] = IF i = 0 THEN 0 ELSE f[i - 1] + g[i]
        BY <2>4, <4>1 DEF Sums
      <4> HIDE DEF h
      <4>4. QED
        BY <4>1, <4>2, <4>3
    <3>3. QED
      BY <3>1, <3>2
  <2>6. h = [i \in 0..m |-> h[i]]
    OBVIOUS
  <2> HIDE DEF h
  <2>7. Sums(h, g, m)
    BY <2>5, <2>6 DEF Sums
  <2>8. QED
    BY <2>7
<1>2. n \notin T
  BY <1>1
<1>3. QED
  BY <1>2

(* The two sums of a checksum, put together.                                  *)
AdlerValue(low, high) ==
    (IF high < 32768 THEN high ELSE high - 65536) * 65536 + low

LEMMA AdlerRange ==
    ASSUME NEW a \in Nat, NEW b \in Nat
    PROVE  LET v == AdlerValue(a % 65521, b % 65521)
           IN  v \in Int /\ FitsIn(v, kCheckSumLen)
<1> DEFINE low == a % 65521
           high == b % 65521
           h == IF high < 32768 THEN high ELSE high - 65536
<1>1. low \in Int /\ 0 <= low /\ low <= 65520
  BY SMT
<1>2. high \in Int /\ 0 <= high /\ high <= 65520
  BY SMT
<1> HIDE DEF low, high
<1>3. h \in Int /\ -32768 <= h /\ h <= 32767
  BY <1>2, SMT
<1>4. AdlerValue(low, high) = h * 65536 + low
  BY DEF AdlerValue
<1> HIDE DEF h
<1>5. /\ h * 65536 + low \in Int
      /\ -128 <= (h * 65536 + low) \div 16777216
      /\ (h * 65536 + low) \div 16777216 <= 127
  BY <1>1, <1>3, SMT
<1>6. FitsIn(h * 65536 + low, 4)
  BY <1>5, Powers256, SMT DEF FitsIn
<1>7. QED
  BY <1>4, <1>5, <1>6, SMT DEF kCheckSumLen, low, high

(* A checksum is an int32_t.                                                  *)
LEMMA AdlerFits ==
    ASSUME NEW s \in Seq(Byte)
    PROVE  Adler32(s) \in Int /\ FitsIn(Adler32(s), kCheckSumLen)
<1> DEFINE n == Len(s)
           IsSum(f) == f = [i \in 0..n |-> IF i = 0 THEN 0 ELSE f[i - 1] + s[i]]
           IsWeighted(f) ==
               f = [i \in 0..n |-> IF i = 0 THEN 0 ELSE f[i - 1] + (n - i + 1) * s[i]]
           sum == CHOOSE f : IsSum(f)
           weighted == CHOOSE f : IsWeighted(f)
           g == [i \in 1..n |-> (n - i + 1) * s[i]]
<1>1. n \in Nat /\ \A i \in 1..n : s[i] \in Nat
  <2>1. n \in Nat /\ \A i \in 1..n : s[i] \in Byte
    OBVIOUS
  <2>2. \A x \in Byte : x \in Nat
    BY DEF Byte
  <2>3. QED
    BY <2>1, <2>2, Zenon
<1>2. \A i \in 1..n : g[i] \in Nat
  <2> SUFFICES ASSUME NEW i \in 1..n PROVE (n - i + 1) * s[i] \in Nat
    OBVIOUS
  <2>1. n - i + 1 \in Nat /\ s[i] \in Nat
    BY <1>1
  <2>2. \A a \in Nat, b \in Nat : a * b \in Nat
    OBVIOUS
  <2>3. QED
    BY <2>1, <2>2
<1>3. sum[n] \in Nat
  <2>1. \A f : IsSum(f) <=> Sums(f, s, n)
    BY DEF Sums
  <2>2. \E f : IsSum(f)
    <3> HIDE DEF IsSum
    <3>1. QED
      BY <1>1, <2>1, SumsExist
  <2>3. Sums(sum, s, n)
    <3> HIDE DEF IsSum
    <3>1. QED
      BY <2>1, <2>2
  <2> HIDE DEF sum, n
  <2>4. QED
    BY <1>1, <2>3, SumsType
<1>4. weighted[n] \in Nat
  <2>1. \A f : IsWeighted(f) <=> Sums(f, g, n)
    <3> SUFFICES ASSUME NEW f PROVE IsWeighted(f) <=> Sums(f, g, n)
      OBVIOUS
    <3>1. [i \in 0..n |-> IF i = 0 THEN 0 ELSE f[i - 1] + (n - i + 1) * s[i]]
           = [i \in 0..n |-> IF i = 0 THEN 0 ELSE f[i - 1] + g[i]]
      BY <1>1
    <3>2. QED
      BY <3>1 DEF Sums
  <2>2. \E f : IsWeighted(f)
    <3> HIDE DEF IsWeighted, g
    <3>1. QED
      BY <1>1, <1>2, <2>1, SumsExist
  <2>3. Sums(weighted, g, n)
    <3> HIDE DEF IsWeighted, g
    <3>1. QED
      BY <2>1, <2>2
  <2> HIDE DEF weighted, n, g
  <2>4. QED
    BY <1>1, <1>2, <2>3, SumsType
<1>5. Adler32(s) = AdlerValue((1 + sum[n]) % 65521, (n + weighted[n]) % 65521)
  BY DEF Adler32, AdlerValue
<1>6. 1 + sum[n] \in Nat /\ n + weighted[n] \in Nat
  <2> HIDE DEF sum, weighted, n
  <2>1. QED
    BY <1>1, <1>3, <1>4
<1> HIDE DEF sum, weighted, n
<1>7. QED
  BY <1>5, <1>6, AdlerRange

-----------------------------------------------------------------------------
(* Cutting a concatenation where its parts meet.                              *)
LEMMA ConcatAssoc ==
    ASSUME NEW a \in Seq(Byte), NEW b \in Seq(Byte), NEW c \in Seq(Byte)
    PROVE  (a \o b) \o c = a \o (b \o c)
OBVIOUS

LEMMA CutMiddle ==
    ASSUME NEW a \in Seq(Byte), NEW b \in Seq(Byte), NEW c \in Seq(Byte)
    PROVE  SubSeq((a \o b) \o c, Len(a) + 1, Len(a) + Len(b)) = b
<1> DEFINE s == (a \o b) \o c
<1>1. /\ s \in Seq(Byte) /\ Len(s) = Len(a) + Len(b) + Len(c)
      /\ \A i \in 1..Len(b) : s[Len(a) + i] = b[i]
  OBVIOUS
<1> HIDE DEF s
<1> DEFINE u == SubSeq(s, Len(a) + 1, Len(a) + Len(b))
<1>2. /\ u \in Seq(Byte) /\ Len(u) = Len(b)
      /\ \A i \in 1..Len(b) : u[i] = s[Len(a) + i]
  BY <1>1
<1> HIDE DEF u
<1>3. u = b
  BY <1>1, <1>2, SeqEqual
<1>4. QED
  BY <1>3 DEF u, s

LEMMA CutFirst ==
    ASSUME NEW a \in Seq(Byte), NEW b \in Seq(Byte)
    PROVE  SubSeq(a \o b, 1, Len(a)) = a
<1> DEFINE u == SubSeq(a \o b, 1, Len(a))
<1>1. u \in Seq(Byte) /\ Len(u) = Len(a) /\ \A i \in 1..Len(a) : u[i] = a[i]
  OBVIOUS
<1> HIDE DEF u
<1>2. QED
  BY <1>1, SeqEqual DEF u

LEMMA CutLast ==
    ASSUME NEW a \in Seq(Byte), NEW b \in Seq(Byte)
    PROVE  SubSeq(a \o b, Len(a) + 1, Len(a \o b)) = b
<1> DEFINE u == SubSeq(a \o b, Len(a) + 1, Len(a \o b))
<1>1. u \in Seq(Byte) /\ Len(u) = Len(b) /\ \A i \in 1..Len(b) : u[i] = b[i]
  OBVIOUS
<1> HIDE DEF u
<1>2. QED
  BY <1>1, SeqEqual DEF u

(* Appending to a buffer whose reader is at kCheapPrepend leaves it there, so *)
(* that the length of a frame can be prepended at the end.                    *)
LEMMA EnsureReader ==
    ASSUME NEW b, b.r = kCheapPrepend, NEW len
    PROVE  EnsureWritableBytes(b, len).r = kCheapPrepend
BY DEF EnsureWritableBytes, MakeSpace, Resize, Compact, MakeBuffer

LEMMA WriteReader ==
    ASSUME NEW b, b.r = kCheapPrepend, NEW s, NEW len
    PROVE  /\ WriteAndAdvance(EnsureWritableBytes(b, len), s).r = kCheapPrepend
           /\ AppendBytes(b, s).r = kCheapPrepend
BY EnsureReader DEF WriteAndAdvance, AppendBytes, MakeBuffer

(* What the checksum is taken of.                                             *)
Body(m) == (NetworkBytes(Len(m.name) + 1, kNamelenLen) \o (m.name \o <<0>>)) \o m.data

(* The facts about a message the layout of its frame needs.                   *)
LEMMA MessageType ==
    ASSUME NEW m \in Messages
    PROVE  /\ m.name \in Seq(Byte) /\ m.data \in Seq(Byte) /\ Len(m.name) >= 1
           /\ Len(m.name) \in Nat /\ Len(m.data) \in Nat
           /\ m = [name |-> m.name, data |-> m.data]
           /\ m.name \o <<0>> \in Seq(Byte) /\ Len(m.name \o <<0>>) = Len(m.name) + 1
           /\ MessageSize(m) \in Nat /\ MessageSize(m) = 13 + Len(m.name) + Len(m.data)
           /\ FitsIn(MessageSize(m) - kHeaderLen, kHeaderLen)
           /\ FitsIn(Len(m.name) + 1, kNamelenLen)
<1>1. m \in [name : Seq(Byte), data : Seq(Byte)] /\ m.name # <<>>
      /\ FitsIn(MessageSize(m), kHeaderLen)
  BY MessagesAssumption
<1>2. m.name \in Seq(Byte) /\ m.data \in Seq(Byte) /\ m = [name |-> m.name, data |-> m.data]
  BY <1>1
<1>3. Len(m.name) \in Nat /\ Len(m.data) \in Nat /\ Len(m.name) >= 1
  BY <1>1, <1>2
<1>4. m.name \o <<0>> \in Seq(Byte) /\ Len(m.name \o <<0>>) = Len(m.name) + 1
  <2>1. <<0>> \in Seq(Byte)
    BY DEF Byte
  <2>2. QED
    BY <1>2, <2>1
<1>5. MessageSize(m) \in Nat /\ MessageSize(m) = 13 + Len(m.name) + Len(m.data)
  <2> DEFINE a == Len(m.name)
             b == Len(m.data)
  <2>1. MessageSize(m) = 4 + 4 + a + 1 + b + 4
    BY DEF MessageSize, kHeaderLen, kNamelenLen, kCheckSumLen
  <2>2. a \in Nat /\ b \in Nat
    BY <1>3
  <2> HIDE DEF a, b
  <2>3. MessageSize(m) \in Nat /\ MessageSize(m) = 13 + a + b
    BY <2>1, <2>2
  <2>4. QED
    BY <2>3 DEF a, b
<1>6. ASSUME NEW x \in Nat, NEW y \in Nat, y <= x, FitsIn(x, 4) PROVE FitsIn(y, 4)
  BY <1>6, Powers256, SMT DEF FitsIn
<1>7. MessageSize(m) - 4 \in Nat /\ MessageSize(m) - 4 <= MessageSize(m)
      /\ Len(m.name) + 1 \in Nat /\ Len(m.name) + 1 <= MessageSize(m)
  <2> DEFINE a == Len(m.name)
             b == Len(m.data)
             z == MessageSize(m)
  <2>1. a \in Nat /\ b \in Nat /\ z \in Nat /\ z = 13 + a + b
    BY <1>3, <1>5
  <2> HIDE DEF a, b, z
  <2>2. z - 4 \in Nat /\ z - 4 <= z /\ a + 1 \in Nat /\ a + 1 <= z
    BY <2>1
  <2>3. QED
    BY <2>2 DEF a, z
<1>8. QED
  BY <1>1, <1>2, <1>3, <1>4, <1>5, <1>6, <1>7 DEF kHeaderLen, kNamelenLen

LEMMA BodyType ==
    ASSUME NEW m \in Messages
    PROVE  Body(m) \in Seq(Byte) /\ Len(Body(m)) = MessageSize(m) - 8
<1> DEFINE a == NetworkBytes(Len(m.name) + 1, 4)
           b == m.name \o <<0>>
           c == m.data
<1>1. a \in Seq(Byte) /\ Len(a) = 4
  <2>1. Len(m.name) + 1 \in Int /\ 4 \in IntSizes
    BY MessageType DEF IntSizes
  <2>2. QED
    BY <2>1, NetworkBytesType
<1>2. b \in Seq(Byte) /\ Len(b) = Len(m.name) + 1 /\ c \in Seq(Byte)
      /\ MessageSize(m) = 13 + Len(m.name) + Len(c)
      /\ Len(m.name) \in Nat /\ Len(c) \in Nat
  BY MessageType
<1>3. Body(m) = (a \o b) \o c
  BY DEF Body, kNamelenLen
<1> HIDE DEF a, b, c
<1>4. a \o b \in Seq(Byte) /\ Len(a \o b) = 4 + Len(b)
  BY <1>1, <1>2, ConcatBytes
<1>5. (a \o b) \o c \in Seq(Byte) /\ Len((a \o b) \o c) = 4 + Len(b) + Len(c)
  BY <1>2, <1>4, ConcatBytes
<1>6. QED
  BY <1>2, <1>3, <1>5

(* FillEmptyBuffer lays a frame out as the picture in the header file has it. *)
LEMMA FrameLayout ==
    ASSUME NEW m \in Messages
    PROVE  Frame[m] = NetworkBytes(MessageSize(m) - kHeaderLen, kHeaderLen)
                      \o (Body(m) \o NetworkBytes(Adler32(Body(m)), kCheckSumLen))
<1> DEFINE nb == NetworkBytes(Len(m.name) + 1, kNamelenLen)
           b1 == AppendInt(NewBuffer, Len(m.name) + 1, kNamelenLen)
           b2 == AppendBytes(b1, m.name \o <<0>>)
           b3 == WriteAndAdvance(EnsureWritableBytes(b2, Len(m.data)), m.data)
           sum == NetworkBytes(Adler32(Content(b3)), kCheckSumLen)
           b4 == AppendInt(b3, Adler32(Content(b3)), kCheckSumLen)
           len == NetworkBytes(ReadableBytes(b4), kHeaderLen)
<1>1. nb \in Seq(Byte)
  <2>1. Len(m.name) + 1 \in Int /\ kNamelenLen \in IntSizes
    BY MessageType DEF IntSizes, kNamelenLen
  <2>2. QED
    BY <2>1, NetworkBytesType
<1>2. BufferOK(b1) /\ Content(b1) = nb /\ b1.r = kCheapPrepend
  <2>1. NewBuffer.r = kCheapPrepend
    BY DEF NewBuffer, MakeBuffer
  <2>2. b1 = AppendBytes(NewBuffer, nb)
    BY DEF AppendInt
  <2>3. <<>> \o nb = nb
    BY <1>1
  <2> HIDE DEF b1, nb
  <2>4. BufferOK(b1) /\ Content(b1) = <<>> \o nb
    BY <1>1, <2>2, NewBufferOK, AppendOK
  <2>5. b1.r = kCheapPrepend
    BY <2>1, <2>2, WriteReader
  <2>6. QED
    BY <2>3, <2>4, <2>5
<1> HIDE DEF b1
<1>3. BufferOK(b2) /\ Content(b2) = nb \o (m.name \o <<0>>) /\ b2.r = kCheapPrepend
  BY <1>2, MessageType, AppendOK, WriteReader
<1> HIDE DEF b2
<1>4. BufferOK(b3) /\ Content(b3) = Body(m) /\ b3.r = kCheapPrepend
  <2> DEFINE e == EnsureWritableBytes(b2, Len(m.data))
  <2>1. m.data \in Seq(Byte) /\ Len(m.data) \in Nat
    BY MessageType
  <2>2. BufferOK(e) /\ WritableBytes(e) >= Len(m.data) /\ Content(e) = Content(b2)
    BY <1>3, <2>1, EnsureOK
  <2>3. b3.r = kCheapPrepend
    BY <1>3, WriteReader
  <2> HIDE DEF e
  <2>4. BufferOK(WriteAndAdvance(e, m.data))
        /\ Content(WriteAndAdvance(e, m.data)) = Content(b2) \o m.data
    BY <2>1, <2>2, WriteOK
  <2>5. QED
    BY <1>3, <2>3, <2>4 DEF e, Body
<1> HIDE DEF b3
<1>5. sum \in Seq(Byte) /\ Len(sum) = 4
  <2>1. Adler32(Body(m)) \in Int /\ kCheckSumLen \in IntSizes
    BY BodyType, AdlerFits DEF IntSizes, kCheckSumLen
  <2>2. QED
    BY <1>4, <2>1, NetworkBytesType DEF kCheckSumLen
<1>6. BufferOK(b4) /\ Content(b4) = Body(m) \o sum /\ b4.r = kCheapPrepend
  <2>1. b4 = AppendBytes(b3, sum)
    BY DEF AppendInt
  <2> HIDE DEF b4, sum
  <2>2. QED
    BY <1>4, <1>5, <2>1, AppendOK, WriteReader
<1> HIDE DEF b4
<1>7. ReadableBytes(b4) = MessageSize(m) - kHeaderLen
  <2>1. ReadableBytes(b4) = Len(Body(m) \o sum)
    BY <1>6, ContentType
  <2>2. Len(Body(m) \o sum) = Len(Body(m)) + 4
    <3> HIDE DEF sum
    <3>1. Body(m) \in Seq(Byte)
      BY BodyType
    <3>2. Len(Body(m) \o sum) = Len(Body(m)) + Len(sum)
      BY <1>5, <3>1, ConcatBytes
    <3>3. QED
      BY <1>5, <3>2
  <2>3. MessageSize(m) \in Nat
    BY MessageType
  <2>4. QED
    BY <2>1, <2>2, <2>3, BodyType DEF kHeaderLen
<1>8. len \in Seq(Byte) /\ Len(len) = 4
  <2>1. ReadableBytes(b4) \in Int /\ kHeaderLen \in IntSizes
    BY <1>6 DEF ReadableBytes, BufferOK, IntSizes, kHeaderLen
  <2>2. QED
    BY <2>1, NetworkBytesType DEF kHeaderLen
<1>9. Content(PrependInt(b4, ReadableBytes(b4), kHeaderLen)) = len \o Content(b4)
  <2>1. Len(len) <= PrependableBytes(b4)
    BY <1>6, <1>8, SizeAssumption, HeaderFits DEF PrependableBytes, kHeaderLen
  <2>2. PrependInt(b4, ReadableBytes(b4), kHeaderLen) = Prepend(b4, len)
    BY DEF PrependInt
  <2> HIDE DEF len
  <2>3. QED
    BY <1>6, <1>8, <2>1, <2>2, PrependOK
<1>10. FillEmptyBuffer(m) = PrependInt(b4, ReadableBytes(b4), kHeaderLen)
  BY DEF FillEmptyBuffer, b1, b2, b3, b4
<1>11. QED
  BY <1>4, <1>6, <1>7, <1>9, <1>10 DEF Frame

LEMMA ConcatSeq ==
    ASSUME NEW a \in Seq(Byte), NEW b \in Seq(Byte)
    PROVE  a \o b \in Seq(Byte)
OBVIOUS

LEMMA ConcatLen ==
    ASSUME NEW a \in Seq(Byte), NEW b \in Seq(Byte)
    PROVE  Len(a \o b) = Len(a) + Len(b)
OBVIOUS

(* The name in a body: behind its length a, before its NUL c and the rest d.  *)
Parts(a, b, c, d) ==
    a \in Seq(Byte) /\ b \in Seq(Byte) /\ c \in Seq(Byte) /\ d \in Seq(Byte)

LEMMA CutName ==
    ASSUME NEW a, NEW b, NEW c, NEW d, Parts(a, b, c, d)
    PROVE  /\ SubSeq((a \o (b \o c)) \o d, 1, Len(a)) = a
           /\ SubSeq((a \o (b \o c)) \o d, Len(a) + 1, Len(a) + Len(b)) = b
<1>0. a \in Seq(Byte) /\ b \in Seq(Byte) /\ c \in Seq(Byte) /\ d \in Seq(Byte)
  BY DEF Parts
<1>1. b \o c \in Seq(Byte) /\ c \o d \in Seq(Byte)
  BY <1>0, ConcatSeq
<1>2. (b \o c) \o d \in Seq(Byte)
  BY <1>0, <1>1, ConcatSeq
<1>3. (a \o (b \o c)) \o d = a \o ((b \o c) \o d)
  BY <1>0, <1>1, ConcatAssoc
<1>4. SubSeq(a \o ((b \o c) \o d), 1, Len(a)) = a
  BY <1>0, <1>2, CutFirst
<1>5. SubSeq((a \o b) \o (c \o d), Len(a) + 1, Len(a) + Len(b)) = b
  BY <1>0, <1>1, CutMiddle
<1>6. (a \o (b \o c)) \o d = (a \o b) \o (c \o d)
  <2>1. a \o b \in Seq(Byte)
    BY <1>0, ConcatSeq
  <2>2. a \o (b \o c) = (a \o b) \o c
    BY <1>0, ConcatAssoc
  <2>3. ((a \o b) \o c) \o d = (a \o b) \o (c \o d)
    BY <1>0, <2>1, ConcatAssoc
  <2>4. QED
    BY <2>2, <2>3, Zenon
<1>7. QED
  BY <1>3, <1>4, <1>5, <1>6, Zenon

(* A body of four parts, cut where Parse cuts it.                             *)
IsFrame(a, b, z, c, d) ==
    Parts(a, b, z, c) /\ d \in Seq(Byte) /\ Len(a) = 4 /\ Len(z) = 1 /\ Len(d) = 4

CutsInto(s, body, a, b, c, d) ==
    /\ s \in Seq(Byte) /\ Len(s) = 9 + Len(b) + Len(c)
    /\ SubSeq(s, 1, Len(s) - 4) = body
    /\ SubSeq(s, Len(s) - 4 + 1, Len(s)) = d
    /\ SubSeq(s, 1, 4) = a
    /\ SubSeq(s, 4 + 1, 4 + (Len(b) + 1) - 1) = b
    /\ SubSeq(s, 4 + (Len(b) + 1) + 1, Len(s) - 4) = c

LEMMA PartsOfBody ==
    ASSUME NEW a, NEW b, NEW z, NEW c, NEW d, IsFrame(a, b, z, c, d)
    PROVE  CutsInto(((a \o (b \o z)) \o c) \o d, (a \o (b \o z)) \o c, a, b, c, d)
<1>a. /\ a \in Seq(Byte) /\ b \in Seq(Byte) /\ z \in Seq(Byte) /\ c \in Seq(Byte)
      /\ d \in Seq(Byte) /\ Len(a) = 4 /\ Len(z) = 1 /\ Len(d) = 4
  BY DEF IsFrame, Parts
<1> USE <1>a
<1> DEFINE u == a \o (b \o z)
           body == u \o c
           s == body \o d
<1>0. Len(b) \in Nat /\ Len(c) \in Nat
  OBVIOUS
<1>1. b \o z \in Seq(Byte) /\ Len(b \o z) = Len(b) + 1
  <2>1. b \o z \in Seq(Byte)
    BY ConcatSeq
  <2>2. Len(b \o z) = Len(b) + Len(z)
    BY ConcatLen
  <2>3. QED
    BY <2>1, <2>2
<1>2. u \in Seq(Byte) /\ Len(u) = 5 + Len(b)
  <2>1. u \in Seq(Byte) /\ Len(u) = Len(a) + Len(b \o z)
    BY <1>1, ConcatSeq, ConcatLen
  <2> HIDE DEF u
  <2>2. QED
    BY <1>0, <1>1, <2>1
<1>3. s = u \o (c \o d) /\ c \o d \in Seq(Byte)
  <2> HIDE DEF u
  <2>1. (u \o c) \o d = u \o (c \o d)
    BY <1>2, ConcatAssoc
  <2>2. c \o d \in Seq(Byte)
    BY ConcatSeq
  <2>3. QED
    BY <2>1, <2>2, Zenon
<1>4. SubSeq(s, 1, Len(a)) = a /\ SubSeq(s, Len(a) + 1, Len(a) + Len(b)) = b
  <2> HIDE DEF s
  <2>1. PICK e \in Seq(Byte) : e = c \o d
    BY <1>3
  <2>2. Parts(a, b, z, e)
    BY DEF Parts
  <2>3. /\ SubSeq((a \o (b \o z)) \o e, 1, Len(a)) = a
        /\ SubSeq((a \o (b \o z)) \o e, Len(a) + 1, Len(a) + Len(b)) = b
    BY <2>2, CutName, Zenon
  <2>4. QED
    BY <1>3, <2>1, <2>3, Zenon DEF u
<1> HIDE DEF u
<1>5. SubSeq(s, Len(u) + 1, Len(u) + Len(c)) = c
  BY <1>2, CutMiddle
<1>6. body \in Seq(Byte) /\ Len(body) = Len(u) + Len(c)
  BY <1>2, ConcatSeq, ConcatLen
<1> HIDE DEF body
<1>7. s \in Seq(Byte) /\ Len(s) = Len(body) + Len(d)
  BY <1>6, ConcatSeq, ConcatLen
<1>8. SubSeq(s, 1, Len(body)) = body /\ SubSeq(s, Len(body) + 1, Len(s)) = d
  BY <1>6, CutFirst, CutLast
<1> HIDE DEF s
<1>9. /\ Len(body) = 5 + Len(b) + Len(c) /\ Len(s) = 9 + Len(b) + Len(c)
      /\ Len(s) - 4 = Len(body)
      /\ 4 + (Len(b) + 1) - 1 = 4 + Len(b) /\ 4 + (Len(b) + 1) + 1 = Len(u) + 1
      /\ Len(s) - 4 = Len(u) + Len(c)
  BY <1>0, <1>2, <1>6, <1>7
<1>10. /\ SubSeq(s, 1, Len(s) - 4) = body
       /\ SubSeq(s, Len(s) - 4 + 1, Len(s)) = d
       /\ SubSeq(s, 1, 4) = a
       /\ SubSeq(s, 4 + 1, 4 + (Len(b) + 1) - 1) = b
       /\ SubSeq(s, 4 + (Len(b) + 1) + 1, Len(s) - 4) = c
  BY <1>4, <1>5, <1>8, <1>9
<1>11. CutsInto(s, body, a, b, c, d)
  BY <1>7, <1>9, <1>10, Zenon DEF CutsInto
<1>12. QED
  BY <1>11, Zenon DEF s, body, u

(* A message, its size and its parts by name.                                 *)
LEMMA MessageParts ==
    ASSUME NEW m \in Messages
    PROVE  \E name \in Seq(Byte), data \in Seq(Byte), k \in Nat, l \in Nat :
              /\ m = [name |-> name, data |-> data] /\ m.name = name /\ m.data = data
              /\ Len(name) = k /\ Len(data) = l /\ k >= 1
              /\ MessageSize(m) = 13 + k + l
              /\ FitsIn(9 + k + l, 4) /\ FitsIn(k + 1, 4)
<1>1. /\ m.name \in Seq(Byte) /\ m.data \in Seq(Byte)
      /\ Len(m.name) \in Nat /\ Len(m.data) \in Nat /\ Len(m.name) >= 1
      /\ MessageSize(m) = 13 + Len(m.name) + Len(m.data)
      /\ FitsIn(MessageSize(m) - 4, 4) /\ FitsIn(Len(m.name) + 1, 4)
      /\ m = [name |-> m.name, data |-> m.data]
  BY MessageType DEF kHeaderLen, kNamelenLen
<1>2. PICK k \in Nat, l \in Nat : k = Len(m.name) /\ l = Len(m.data)
  BY <1>1
<1>3. MessageSize(m) = 13 + k + l
  BY <1>1, <1>2, Zenon
<1>4. FitsIn(9 + k + l, 4) /\ FitsIn(k + 1, 4) /\ k >= 1
  <2>1. MessageSize(m) - 4 = 9 + k + l
    BY <1>3
  <2>2. QED
    BY <1>1, <1>2, <2>1, Zenon
<1>5. QED
  BY <1>1, <1>2, <1>3, <1>4, Zenon

(* Any receiver reads off the header how long the rest is; the rest passes    *)
(* the checksum and parses back into the message; what is left to go wrong is *)
(* that its type is not known or its data cannot be parsed.                   *)
LEMMA FrameParses ==
    ASSUME NEW m \in Messages
    PROVE  LET rest == SubSeq(Frame[m], kHeaderLen + 1, Len(Frame[m]))
           IN  /\ Frame[m] \in Seq(Byte) /\ Len(Frame[m]) = MessageSize(m)
               /\ NetworkInt(SubSeq(Frame[m], 1, kHeaderLen)) = MessageSize(m) - kHeaderLen
               /\ ParsedMessage(rest) = m
               /\ ParseErrorOf(rest) =
                      IF m.name \notin KnownNames THEN "kUnknownMessageType"
                      ELSE IF m \notin Decodable THEN "kParseError"
                      ELSE "kNoError"
<1> USE DEF kHeaderLen, kNamelenLen, kCheckSumLen
<1>0. 4 \in IntSizes
  BY DEF IntSizes
<1>1. PICK name \in Seq(Byte), data \in Seq(Byte), k \in Nat, l \in Nat :
         /\ m = [name |-> name, data |-> data] /\ m.name = name /\ m.data = data
         /\ Len(name) = k /\ Len(data) = l /\ k >= 1
         /\ MessageSize(m) = 13 + k + l
         /\ FitsIn(9 + k + l, 4) /\ FitsIn(k + 1, 4)
  BY MessageParts
<1>2. PICK a \in Seq(Byte) : a = NetworkBytes(k + 1, 4) /\ Len(a) = 4 /\ NetworkInt(a) = k + 1
  <2>1. k + 1 \in Int
    OBVIOUS
  <2>2. QED
    BY <1>0, <1>1, <2>1, NetworkBytesType, IntRoundTrip
<1>3. PICK z \in Seq(Byte) : z = <<0>> /\ Len(z) = 1
  <2>1. <<0>> \in Seq(Byte)
    BY DEF Byte
  <2>2. Len(<<0>>) = 1
    OBVIOUS
  <2>3. QED
    BY <2>1, <2>2, Zenon
<1>4. PICK d \in Seq(Byte) :
         d = NetworkBytes(Adler32(Body(m)), 4) /\ Len(d) = 4 /\ NetworkInt(d) = Adler32(Body(m))
  <2>1. Adler32(Body(m)) \in Int /\ FitsIn(Adler32(Body(m)), 4)
    BY BodyType, AdlerFits
  <2>2. QED
    BY <1>0, <2>1, NetworkBytesType, IntRoundTrip
<1>5. PICK h \in Seq(Byte) :
         h = NetworkBytes(9 + k + l, 4) /\ Len(h) = 4 /\ NetworkInt(h) = 9 + k + l
  <2>1. 9 + k + l \in Int
    OBVIOUS
  <2>2. QED
    BY <1>0, <1>1, <2>1, NetworkBytesType, IntRoundTrip
<1>6. IsFrame(a, name, z, data, d)
  BY <1>2, <1>3, <1>4 DEF IsFrame, Parts
<1> DEFINE body == (a \o (name \o z)) \o data
           s == body \o d
<1>7. /\ s \in Seq(Byte) /\ Len(s) = 9 + Len(name) + Len(data)
      /\ SubSeq(s, 1, Len(s) - 4) = body
      /\ SubSeq(s, Len(s) - 4 + 1, Len(s)) = d
      /\ SubSeq(s, 1, 4) = a
      /\ SubSeq(s, 4 + 1, 4 + (Len(name) + 1) - 1) = name
      /\ SubSeq(s, 4 + (Len(name) + 1) + 1, Len(s) - 4) = data
  <2>1. CutsInto(s, body, a, name, data, d)
    BY <1>6, PartsOfBody
  <2> HIDE DEF s, body
  <2>2. QED
    BY <2>1, Zenon DEF CutsInto
<1>8. body = Body(m)
  BY <1>1, <1>2, <1>3, Zenon DEF Body
<1> HIDE DEF body
<1>9. Frame[m] = h \o s
  <2>1. MessageSize(m) - 4 = 9 + k + l
    BY <1>1
  <2>2. Frame[m] = NetworkBytes(MessageSize(m) - 4, 4) \o (Body(m) \o NetworkBytes(Adler32(Body(m)), 4))
    BY FrameLayout, Zenon
  <2>3. QED
    BY <1>4, <1>5, <1>8, <2>1, <2>2, Zenon
<1> HIDE DEF s
<1>10. Len(s) = 9 + k + l
  BY <1>1, <1>7
<1>11. /\ Frame[m] \in Seq(Byte) /\ Len(Frame[m]) = 4 + Len(s)
       /\ SubSeq(Frame[m], 1, 4) = h /\ SubSeq(Frame[m], 4 + 1, Len(Frame[m])) = s
  <2>1. h \o s \in Seq(Byte) /\ Len(h \o s) = Len(h) + Len(s)
    BY <1>7, ConcatSeq, ConcatLen
  <2>2. SubSeq(h \o s, 1, Len(h)) = h /\ SubSeq(h \o s, Len(h) + 1, Len(h \o s)) = s
    BY <1>7, CutFirst, CutLast
  <2>3. QED
    BY <1>5, <1>9, <2>1, <2>2
<1>12. Len(Frame[m]) = MessageSize(m) /\ NetworkInt(h) = MessageSize(m) - 4
  BY <1>1, <1>5, <1>10, <1>11
<1>13. ParsedMessage(s) = m
  <2>1. ParsedMessage(s) = [name |-> name, data |-> data]
    BY <1>1, <1>2, <1>7, Zenon DEF ParsedMessage
  <2>2. QED
    BY <1>1, <2>1, Zenon
<1>14. ParseErrorOf(s) = IF m.name \notin KnownNames THEN "kUnknownMessageType"
                        ELSE IF m \notin Decodable THEN "kParseError"
                        ELSE "kNoError"
  <2>1. k + 1 >= 2 /\ k + 1 <= Len(s) - 4
    BY <1>1, <1>10
  <2>2. /\ NetworkInt(SubSeq(s, 1, 4)) = k + 1
        /\ NetworkInt(SubSeq(s, Len(s) - 4 + 1, Len(s)))
              = Adler32(SubSeq(s, 1, Len(s) - 4))
    BY <1>2, <1>4, <1>7, <1>8, Zenon
  <2>3. QED
    BY <1>13, <2>1, <2>2, Zenon DEF ParseErrorOf
<1>15. QED
  BY <1>11, <1>12, <1>13, <1>14, Zenon

-----------------------------------------------------------------------------
Things == Messages \cup Foreign

Bytes(x) == IF x \in Foreign THEN x.bytes ELSE Frame[x]

LEMMA NotForeign == ASSUME NEW m \in Messages PROVE m \notin Foreign
<1>1. m \in [name : Seq(Byte), data : Seq(Byte)]
  BY MessagesAssumption
<1>2. ASSUME m \in Foreign PROVE m \in [bytes : Seq(Byte), error : STRING]
  BY <1>2, ForeignAssumption
<1>3. DOMAIN m = {"name", "data"}
  BY <1>1
<1>4. m \in [bytes : Seq(Byte), error : STRING] => DOMAIN m = {"bytes", "error"}
  OBVIOUS
<1>5. {"name", "data"} # {"bytes", "error"}
  OBVIOUS
<1>6. QED
  BY <1>2, <1>3, <1>4, <1>5

LenOk(len) == len <= kMaxMessageLen /\ len >= kMinMessageLen
HeaderOf(s) == NetworkInt(SubSeq(s, 1, kHeaderLen))
RestOf(s) == SubSeq(s, kHeaderLen + 1, Len(s))

(* What the codec makes of each thing sent when its bytes are there is what   *)
(* the thing deserves.                                                        *)
LEMMA Judged ==
    ASSUME NEW x \in Things
    PROVE  /\ Bytes(x) \in Seq(Byte) /\ Size(x) \in Nat /\ Len(Bytes(x)) = Size(x)
           /\ Size(x) >= 14
           /\ Deserves(x) = "kInvalidLength" => ~LenOk(HeaderOf(Bytes(x)))
           /\ Deserves(x) # "kInvalidLength" =>
                 /\ LenOk(HeaderOf(Bytes(x))) /\ HeaderOf(Bytes(x)) = Size(x) - 4
                 /\ ParseErrorOf(RestOf(Bytes(x))) = Deserves(x)
           /\ Deserves(x) = "kNoError" => ParsedMessage(RestOf(Bytes(x))) = x
<1>1. CASE x \in Foreign
  <2>1. Bytes(x) = x.bytes /\ Size(x) = Len(x.bytes) /\ Deserves(x) = x.error
    BY <1>1 DEF Bytes, Size, Deserves
  <2>2. /\ x.bytes \in Seq(Byte) /\ Len(x.bytes) >= kMinMessageLen + kHeaderLen
        /\ x.error # "kNoError"
        /\ x.error = "kInvalidLength" => ~LenOk(HeaderOf(x.bytes))
        /\ x.error # "kInvalidLength" =>
              /\ LenOk(HeaderOf(x.bytes)) /\ HeaderOf(x.bytes) = Len(x.bytes) - kHeaderLen
              /\ x.error = ParseErrorOf(RestOf(x.bytes))
    BY <1>1, ForeignAssumption DEF LenOk, HeaderOf, RestOf
  <2>3. Len(x.bytes) \in Nat /\ Len(x.bytes) >= 14
    BY <2>2 DEF kMinMessageLen, kHeaderLen, kCheckSumLen
  <2>4. QED
    BY <2>1, <2>2, <2>3 DEF kHeaderLen
<1>2. CASE x \notin Foreign
  <2>1. x \in Messages
    BY <1>2 DEF Things
  <2>2. Bytes(x) = Frame[x] /\ Size(x) = MessageSize(x)
    BY <1>2 DEF Bytes, Size
  <2>3. PICK k \in Nat, l \in Nat : MessageSize(x) = 13 + k + l /\ k >= 1
    BY <2>1, MessageParts
  <2>4. Size(x) \in Nat /\ Size(x) >= 14
    BY <2>2, <2>3
  <2>5. /\ Bytes(x) \in Seq(Byte) /\ Len(Bytes(x)) = Size(x)
        /\ HeaderOf(Bytes(x)) = Size(x) - 4
        /\ ParsedMessage(RestOf(Bytes(x))) = x
        /\ ParseErrorOf(RestOf(Bytes(x))) =
               IF x.name \notin KnownNames THEN "kUnknownMessageType"
               ELSE IF x \notin Decodable THEN "kParseError" ELSE "kNoError"
    BY <2>1, <2>2, FrameParses, Zenon DEF HeaderOf, RestOf, kHeaderLen
  <2>6. Deserves(x) = IF Size(x) - 4 > kMaxMessageLen THEN "kInvalidLength"
                      ELSE IF x.name \notin KnownNames THEN "kUnknownMessageType"
                      ELSE IF x \notin Decodable THEN "kParseError" ELSE "kNoError"
    BY <1>2 DEF Deserves, kHeaderLen
  <2>7. LenOk(Size(x) - 4) <=> ~(Size(x) - 4 > kMaxMessageLen)
    BY <2>4, BoundsAssumption DEF LenOk, kMinMessageLen, kHeaderLen, kCheckSumLen
  <2>8. QED
    BY <2>4, <2>5, <2>6, <2>7
<1>3. QED
  BY <1>1, <1>2

(* The sizes of what was sent add up.                                         *)
LEMMA Sizes ==
    ASSUME NEW q \in Seq(Things)
    PROVE  /\ SizesOf(q) \in [0..Len(q) -> Nat]
           /\ SizesOf(q)[0] = 0
           /\ \A i \in 1..Len(q) : SizesOf(q)[i] = SizesOf(q)[i - 1] + Size(q[i])
<1> DEFINE n == Len(q)
           IsSum(f) == f = [k \in 0..n |-> IF k = 0 THEN 0 ELSE f[k - 1] + Size(q[k])]
           z == CHOOSE f : IsSum(f)
           g == [k \in 1..n |-> Size(q[k])]
<1>1. n \in Nat /\ \A k \in 1..n : g[k] = Size(q[k]) /\ g[k] \in Nat
  <2>1. n \in Nat /\ \A k \in 1..n : q[k] \in Things
    OBVIOUS
  <2>2. QED
    BY <2>1, Judged
<1>2. \A f : IsSum(f) <=> Sums(f, g, n)
  <2> SUFFICES ASSUME NEW f PROVE IsSum(f) <=> Sums(f, g, n)
    OBVIOUS
  <2>1. [k \in 0..n |-> IF k = 0 THEN 0 ELSE f[k - 1] + Size(q[k])]
         = [k \in 0..n |-> IF k = 0 THEN 0 ELSE f[k - 1] + g[k]]
    BY <1>1
  <2>2. QED
    BY <2>1 DEF Sums
<1>3. SizesOf(q) = z
  BY DEF SizesOf
<1>4. \E f : IsSum(f)
  <2> HIDE DEF IsSum, g, n
  <2>1. QED
    BY <1>1, <1>2, SumsExist
<1>5. Sums(z, g, n)
  <2> HIDE DEF IsSum, g
  <2>1. QED
    BY <1>2, <1>4
<1> HIDE DEF z, g
<1>6. z \in [0..n -> Nat] /\ z[0] = 0 /\ \A i \in 1..n : z[i] = z[i - 1] + g[i]
  <2> HIDE DEF n
  <2>1. QED
    BY <1>1, <1>5, SumsType
<1>7. QED
  BY <1>1, <1>3, <1>6

(* More things, more bytes.                                                   *)
LEMMA SizesGrow ==
    ASSUME NEW q \in Seq(Things), NEW i \in 0..Len(q), NEW j \in i..Len(q)
    PROVE  SizesOf(q)[i] <= SizesOf(q)[j]
<1> DEFINE z == SizesOf(q)
           T == {k \in i..Len(q) : ~(z[i] <= z[k])}
<1>1. /\ z \in [0..Len(q) -> Nat]
      /\ \A k \in 1..Len(q) : z[k] = z[k - 1] + Size(q[k])
  BY Sizes
<1> HIDE DEF z
<1>2. T = {}
  <2> SUFFICES ASSUME T # {} PROVE FALSE
    OBVIOUS
  <2>1. T \subseteq Nat
    OBVIOUS
  <2>2. PICK k \in T : \A y \in T : k <= y
    <3> HIDE DEF T
    <3>1. QED
      BY <2>1, LeastNat
  <2>3. k \in i..Len(q) /\ ~(z[i] <= z[k]) /\ k # i
    BY <1>1, <2>2
  <2>4. k - 1 \in i..Len(q) /\ k \in 1..Len(q) /\ ~(k <= k - 1)
    BY <2>3
  <2>5. z[i] <= z[k - 1]
    BY <2>2, <2>4
  <2>6. q[k] \in Things
    BY <2>4
  <2>7. Size(q[k]) \in Nat
    BY <2>6, Judged
  <2>8. z[k] = z[k - 1] + Size(q[k]) /\ z[i] \in Nat /\ z[k - 1] \in Nat
    <3>1. k - 1 \in 0..Len(q)
      BY <2>4
    <3> HIDE DEF T
    <3>2. QED
      BY <1>1, <2>4, <3>1
  <2>9. QED
    BY <2>3, <2>5, <2>7, <2>8
<1>3. QED
  BY <1>2 DEF z

(* One thing more does not change the sums before it.                         *)
LEMMA SizesAppend ==
    ASSUME NEW q \in Seq(Things), NEW x \in Things
    PROVE  /\ \A k \in 0..Len(q) : SizesOf(Append(q, x))[k] = SizesOf(q)[k]
           /\ SizesOf(Append(q, x))[Len(q) + 1] = SizesOf(q)[Len(q)] + Size(x)
<1> DEFINE p == Append(q, x)
           z == SizesOf(q)
           y == SizesOf(p)
           n == Len(q)
           T == {k \in 0..n : y[k] # z[k]}
<1>1. /\ n \in Nat /\ p \in Seq(Things) /\ Len(p) = n + 1 /\ p[n + 1] = x
      /\ \A k \in 1..n : p[k] = q[k]
  OBVIOUS
<1>2. z[0] = 0 /\ \A k \in 1..n : z[k] = z[k - 1] + Size(q[k])
  BY Sizes
<1>3. y[0] = 0 /\ \A k \in 1..(n + 1) : y[k] = y[k - 1] + Size(p[k])
  <2> HIDE DEF p
  <2>1. QED
    BY <1>1, Sizes
<1> HIDE DEF p, z, y, n
<1>4. T = {}
  <2> SUFFICES ASSUME T # {} PROVE FALSE
    OBVIOUS
  <2>1. T \subseteq Nat
    OBVIOUS
  <2>2. PICK k \in T : \A j \in T : k <= j
    <3> HIDE DEF T
    <3>1. QED
      BY <2>1, LeastNat
  <2>3. k \in 0..n /\ y[k] # z[k] /\ k # 0
    BY <1>2, <1>3, <2>2
  <2>4. k - 1 \in 0..n /\ k \in 1..n /\ k \in 1..(n + 1) /\ ~(k <= k - 1)
    BY <1>1, <2>3
  <2>5. y[k - 1] = z[k - 1]
    BY <2>2, <2>4
  <2> HIDE DEF T
  <2>6. QED
    BY <1>1, <1>2, <1>3, <2>3, <2>4, <2>5
<1>5. \A k \in 0..n : y[k] = z[k]
  BY <1>4
<1>6. y[n + 1] = z[n] + Size(x)
  <2>1. n + 1 \in 1..(n + 1) /\ n + 1 - 1 = n /\ n \in 0..n
    BY <1>1
  <2>2. y[n + 1] = y[n + 1 - 1] + Size(p[n + 1])
    BY <1>3, <2>1
  <2>3. QED
    BY <1>1, <1>5, <2>1, <2>2
<1>7. QED
  BY <1>5, <1>6 DEF p, z, y, n

(* rest is the bytes of what q has behind its first p things.                 *)
Carries(rest, q, p) ==
    /\ rest \in Seq(Byte) /\ q \in Seq(Things) /\ p \in 0..Len(q)
    /\ Len(rest) = SizesOf(q)[Len(q)] - SizesOf(q)[p]
    /\ \A i \in (p + 1)..Len(q) : \A j \in 1..Size(q[i]) :
          rest[SizesOf(q)[i - 1] - SizesOf(q)[p] + j] = Bytes(q[i])[j]

(* The first bytes are the next thing's.                                      *)
LEMMA CarriesFront ==
    ASSUME NEW rest, NEW q, NEW p, Carries(rest, q, p), Len(rest) > 0
    PROVE  /\ p + 1 \in 1..Len(q)
           /\ Size(q[p + 1]) <= Len(rest)
           /\ SizesOf(q)[p + 1] = SizesOf(q)[p] + Size(q[p + 1])
           /\ \A j \in 1..Size(q[p + 1]) : rest[j] = Bytes(q[p + 1])[j]
<1> DEFINE z == SizesOf(q)
           n == Len(q)
<1>1. /\ rest \in Seq(Byte) /\ q \in Seq(Things) /\ p \in 0..n /\ n \in Nat
      /\ Len(rest) = z[n] - z[p]
      /\ \A i \in (p + 1)..n : \A j \in 1..Size(q[i]) :
            rest[z[i - 1] - z[p] + j] = Bytes(q[i])[j]
  BY DEF Carries
<1>2. z \in [0..n -> Nat] /\ \A i \in 1..n : z[i] = z[i - 1] + Size(q[i])
  BY <1>1, Sizes
<1>3. \A i \in 0..n : \A j \in i..n : z[i] <= z[j]
  BY <1>1, SizesGrow
<1> HIDE DEF z
<1>4. p # n
  BY <1>1, <1>2
<1>5. p + 1 \in 1..n /\ p + 1 \in (p + 1)..n /\ p + 1 - 1 = p /\ p + 1 \in 0..n
      /\ n \in (p + 1)..n /\ n \in 0..n
  BY <1>1, <1>4
<1>6. q[p + 1] \in Things
  BY <1>1, <1>5
<1>7. Size(q[p + 1]) \in Nat
  BY <1>6, Judged
<1>8. z[p + 1] = z[p] + Size(q[p + 1]) /\ z[p + 1] <= z[n]
      /\ z[p] \in Nat /\ z[n] \in Nat
  <2>1. z[p + 1] = z[p] + Size(q[p + 1])
    <3>1. PICK i \in 1..n : i = p + 1 /\ i - 1 = p
      BY <1>1, <1>5
    <3>2. z[i] = z[i - 1] + Size(q[i])
      BY <1>2
    <3>3. z[i] = z[p] + Size(q[i])
      BY <3>1, <3>2
    <3>4. QED
      BY <3>1, <3>3
  <2>2. QED
    BY <1>1, <1>2, <1>3, <1>5, <2>1
<1>9. ASSUME NEW j \in 1..Size(q[p + 1]) PROVE rest[j] = Bytes(q[p + 1])[j]
  <2>1. rest[z[p + 1 - 1] - z[p] + j] = Bytes(q[p + 1])[j]
    BY <1>1, <1>5
  <2>2. z[p + 1 - 1] - z[p] + j = j
    BY <1>5, <1>7, <1>8
  <2>3. QED
    BY <2>1, <2>2
<1>10. QED
  BY <1>1, <1>5, <1>7, <1>8, <1>9 DEF z

(* Sending adds the thing's bytes at the end.                                 *)
LEMMA CarriesMore ==
    ASSUME NEW rest, NEW q, NEW p, Carries(rest, q, p), NEW x \in Things
    PROVE  Carries(rest \o Bytes(x), Append(q, x), p)
<1> DEFINE z == SizesOf(q)
           n == Len(q)
           r == rest \o Bytes(x)
           u == Append(q, x)
           y == SizesOf(u)
<1>1. /\ rest \in Seq(Byte) /\ q \in Seq(Things) /\ p \in 0..n /\ n \in Nat
      /\ Len(rest) = z[n] - z[p]
      /\ \A i \in (p + 1)..n : \A j \in 1..Size(q[i]) :
            rest[z[i - 1] - z[p] + j] = Bytes(q[i])[j]
  BY DEF Carries
<1>2. z \in [0..n -> Nat] /\ \A i \in 1..n : z[i] = z[i - 1] + Size(q[i])
  BY <1>1, Sizes
<1>3. \A i \in 0..n : \A j \in i..n : z[i] <= z[j]
  BY <1>1, SizesGrow
<1>4. \A k \in 0..n : y[k] = z[k]
  BY <1>1, SizesAppend
<1>5. y[n + 1] = z[n] + Size(x)
  BY <1>1, SizesAppend
<1>6. u \in Seq(Things) /\ Len(u) = n + 1 /\ u[n + 1] = x /\ \A i \in 1..n : u[i] = q[i]
  BY <1>1
<1>7. Bytes(x) \in Seq(Byte) /\ Size(x) \in Nat /\ Len(Bytes(x)) = Size(x)
  BY Judged
<1>8. /\ r \in Seq(Byte) /\ Len(r) = Len(rest) + Size(x)
      /\ \A i \in 1..(Len(rest) + Size(x)) :
            r[i] = IF i <= Len(rest) THEN rest[i] ELSE Bytes(x)[i - Len(rest)]
  BY <1>1, <1>7, ConcatBytes
<1> HIDE DEF z, r, u, y
<1>9. z[n] \in Nat /\ z[p] \in Nat /\ Len(rest) \in Nat
  BY <1>1, <1>2
<1>10. ASSUME NEW i \in (p + 1)..(n + 1), NEW j \in 1..Size(u[i])
       PROVE  r[y[i - 1] - y[p] + j] = Bytes(u[i])[j]
  <2>1. i - 1 \in 0..n /\ i \in Nat
    BY <1>1
  <2>2. y[i - 1] = z[i - 1] /\ y[p] = z[p] /\ z[i - 1] \in Nat
    BY <1>1, <1>2, <1>4, <2>1
  <2>3. CASE i = n + 1
    <3>1. u[i] = x /\ z[i - 1] = z[n] /\ j \in 1..Size(x)
      BY <1>1, <1>6, <2>3
    <3>2. y[i - 1] - y[p] + j = Len(rest) + j
      BY <1>1, <1>9, <2>2, <3>1
    <3>3. Len(rest) + j \in 1..(Len(rest) + Size(x)) /\ ~(Len(rest) + j <= Len(rest))
          /\ Len(rest) + j - Len(rest) = j
      BY <1>7, <1>9, <3>1
    <3>4. r[Len(rest) + j] = Bytes(x)[j]
      BY <1>8, <3>3
    <3>5. QED
      BY <3>1, <3>2, <3>4
  <2>4. CASE i # n + 1
    <3>1. i \in (p + 1)..n /\ i \in 1..n /\ i \in 0..n /\ n \in i..n
          /\ p \in 0..n /\ i - 1 \in p..n
      BY <1>1, <2>4
    <3>2. u[i] = q[i] /\ q[i] \in Things
      BY <1>1, <1>6, <3>1
    <3>3. Size(q[i]) \in Nat
      BY <3>2, Judged
    <3>4. z[i] = z[i - 1] + Size(q[i]) /\ z[i] <= z[n] /\ z[p] <= z[i - 1]
      BY <1>2, <1>3, <3>1
    <3> DEFINE k == z[i - 1] - z[p] + j
    <3>5. j \in 1..Size(q[i]) /\ rest[k] = Bytes(q[i])[j]
      BY <1>1, <3>1, <3>2
    <3>6. k \in 1..(Len(rest) + Size(x)) /\ k <= Len(rest)
      <4>1. PICK a \in Nat, b \in Nat, c \in Nat, d \in Nat :
               a = z[i - 1] /\ b = z[p] /\ c = z[n] /\ d = Size(q[i])
        BY <1>9, <2>2, <3>3
      <4>2. /\ a + d <= c /\ b <= a /\ Len(rest) = c - b /\ j \in 1..d
            /\ k = a - b + j
        BY <1>1, <3>4, <3>5, <4>1, Zenon
      <4> HIDE DEF k
      <4>3. QED
        BY <1>7, <4>2
    <3>7. r[k] = rest[k]
      <4> HIDE DEF k
      <4>1. QED
        BY <1>8, <3>6
    <3>8. QED
      BY <2>2, <3>2, <3>5, <3>7
  <2>5. QED
    BY <2>3, <2>4
<1>11. p \in 0..(n + 1) /\ y[p] = z[p]
  BY <1>1, <1>4
<1>12. Len(r) = y[n + 1] - y[p]
  BY <1>1, <1>5, <1>7, <1>8, <1>9, <1>11
<1>13. Carries(r, u, p)
  BY <1>6, <1>8, <1>10, <1>11, <1>12 DEF Carries, y
<1>14. QED
  BY <1>13 DEF r, u

(* Taking the next thing's bytes off the front leaves the others'.            *)
LEMMA CarriesLess ==
    ASSUME NEW rest, NEW q, NEW p, Carries(rest, q, p), Len(rest) > 0
    PROVE  Carries(SubSeq(rest, Size(q[p + 1]) + 1, Len(rest)), q, p + 1)
<1> DEFINE z == SizesOf(q)
           n == Len(q)
           w == Size(q[p + 1])
           r == SubSeq(rest, w + 1, Len(rest))
<1>1. /\ rest \in Seq(Byte) /\ q \in Seq(Things) /\ p \in 0..n /\ n \in Nat
      /\ Len(rest) = z[n] - z[p]
      /\ \A i \in (p + 1)..n : \A j \in 1..Size(q[i]) :
            rest[z[i - 1] - z[p] + j] = Bytes(q[i])[j]
  BY DEF Carries
<1>2. z \in [0..n -> Nat] /\ \A i \in 1..n : z[i] = z[i - 1] + Size(q[i])
  BY <1>1, Sizes
<1>3. \A i \in 0..n : \A j \in i..n : z[i] <= z[j]
  BY <1>1, SizesGrow
<1>4. p + 1 \in 1..n /\ w <= Len(rest) /\ z[p + 1] = z[p] + w
  BY CarriesFront
<1>5. q[p + 1] \in Things
  BY <1>1, <1>4
<1>6. w \in Nat
  BY <1>5, Judged
<1> HIDE DEF z, w
<1>7. /\ r \in Seq(Byte) /\ Len(r) = Len(rest) - w
      /\ \A i \in 1..(Len(rest) - w) : r[i] = rest[w + i]
  BY <1>1, <1>4, <1>6
<1> HIDE DEF r
<1>8. z[n] \in Nat /\ z[p] \in Nat /\ z[p + 1] \in Nat /\ Len(rest) \in Nat
  <2>1. n \in 0..n /\ p + 1 \in 0..n /\ p \in 0..n
    BY <1>1, <1>4
  <2>2. QED
    BY <1>1, <1>2, <2>1
<1>9. ASSUME NEW i \in (p + 1 + 1)..n, NEW j \in 1..Size(q[i])
      PROVE  r[z[i - 1] - z[p + 1] + j] = Bytes(q[i])[j]
  <2>1. /\ i \in (p + 1)..n /\ i \in 1..n /\ i \in 0..n /\ n \in i..n /\ i - 1 \in 0..n
        /\ p + 1 \in 0..n /\ i - 1 \in (p + 1)..n
    BY <1>1, <1>4
  <2>2. q[i] \in Things
    BY <1>1, <2>1
  <2>3. Size(q[i]) \in Nat
    BY <2>2, Judged
  <2>4. z[i] = z[i - 1] + Size(q[i]) /\ z[i] <= z[n] /\ z[p + 1] <= z[i - 1]
        /\ z[i - 1] \in Nat
    BY <1>2, <1>3, <2>1
  <2> DEFINE k == z[i - 1] - z[p + 1] + j
  <2>5. rest[z[i - 1] - z[p] + j] = Bytes(q[i])[j]
    BY <1>1, <2>1
  <2>6. k \in 1..(Len(rest) - w) /\ w + k = z[i - 1] - z[p] + j
    <3>1. PICK a \in Nat, b \in Nat, c \in Nat, d \in Nat, e \in Nat :
             a = z[i - 1] /\ b = z[p] /\ c = z[n] /\ d = Size(q[i]) /\ e = z[p + 1]
      BY <1>8, <2>3, <2>4
    <3>2. /\ a + d <= c /\ e <= a /\ e = b + w /\ Len(rest) = c - b /\ j \in 1..d
          /\ k = a - e + j
      BY <1>1, <1>4, <2>4, <3>1, Zenon
    <3> HIDE DEF k
    <3>3. k \in 1..(Len(rest) - w) /\ w + k = a - b + j
      BY <1>6, <3>2
    <3>4. QED
      BY <3>1, <3>3
  <2>7. r[k] = rest[w + k]
    <3> HIDE DEF k
    <3>1. QED
      BY <1>7, <2>6
  <2>8. QED
    BY <2>5, <2>6, <2>7
<1>10. p + 1 \in 0..n /\ Len(r) = z[n] - z[p + 1]
  BY <1>1, <1>4, <1>6, <1>7, <1>8
<1>11. Carries(r, q, p + 1)
  BY <1>1, <1>7, <1>9, <1>10 DEF Carries, z
<1>12. QED
  BY <1>11 DEF r, w

-----------------------------------------------------------------------------
(* The bytes that arrived and those still in flight are those of what was     *)
(* sent and is not parsed; what is parsed was sent and was good; and only     *)
(* errors are reported.                                                       *)
StreamInv ==
    /\ Carries(Content(inbuf) \o wire, sent, Len(parsed))
    /\ \A i \in 1..Len(parsed) : parsed[i] = sent[i] /\ Deserves(sent[i]) = "kNoError"
    /\ "kNoError" \notin errors

Now == sent[Len(parsed) + 1]

(* The error callback has heard of the next thing if that is bad and the      *)
(* codec has seen all of it.                                                  *)
ErrorInv ==
    /\ \A code \in errors : Len(parsed) + 1 <= Len(sent) /\ Deserves(Now) = code
    /\ ~parsing /\ Len(parsed) + 1 <= Len(sent) /\ Size(Now) <= ReadableBytes(inbuf)
          => errors # {}
    /\ conn = "disconnecting" <=> errors # {}

(* The inductive invariant.                                                   *)
IInv == TypeOK /\ StreamInv /\ ErrorInv

LEMMA SplitSeq ==
    ASSUME NEW w \in Seq(Byte), NEW k \in 0..Len(w)
    PROVE  /\ SubSeq(w, 1, k) \in Seq(Byte) /\ SubSeq(w, k + 1, Len(w)) \in Seq(Byte)
           /\ SubSeq(w, 1, k) \o SubSeq(w, k + 1, Len(w)) = w
<1> DEFINE a == SubSeq(w, 1, k)
           b == SubSeq(w, k + 1, Len(w))
<1>1. a \in Seq(Byte) /\ Len(a) = k /\ \A i \in 1..k : a[i] = w[i]
  OBVIOUS
<1>2. b \in Seq(Byte) /\ Len(b) = Len(w) - k /\ \A i \in 1..(Len(w) - k) : b[i] = w[k + i]
  OBVIOUS
<1> HIDE DEF a, b
<1>3. /\ a \o b \in Seq(Byte) /\ Len(a \o b) = Len(w)
      /\ \A i \in 1..Len(w) : (a \o b)[i] = IF i <= k THEN a[i] ELSE b[i - k]
  BY <1>1, <1>2, ConcatBytes
<1>4. \A i \in 1..Len(w) : (a \o b)[i] = w[i]
  <2> SUFFICES ASSUME NEW i \in 1..Len(w) PROVE (a \o b)[i] = w[i]
    OBVIOUS
  <2>1. CASE i <= k
    BY <1>1, <1>3, <2>1
  <2>2. CASE ~(i <= k)
    <3>1. i - k \in 1..(Len(w) - k) /\ k + (i - k) = i
      BY <2>2
    <3>2. b[i - k] = w[i]
      BY <1>2, <3>1
    <3>3. QED
      BY <1>3, <2>2, <3>2
  <2>3. QED
    BY <2>1, <2>2
<1>5. a \o b = w
  BY <1>3, <1>4, SeqEqual
<1>6. QED
  BY <1>1, <1>2, <1>5 DEF a, b

LEMMA DropFront ==
    ASSUME NEW c \in Seq(Byte), NEW w \in Seq(Byte), NEW k \in 0..Len(c)
    PROVE  SubSeq(c, k + 1, Len(c)) \o w = SubSeq(c \o w, k + 1, Len(c \o w))
<1>1. PICK a \in Seq(Byte), b \in Seq(Byte) :
         a = SubSeq(c, 1, k) /\ b = SubSeq(c, k + 1, Len(c)) /\ a \o b = c /\ Len(a) = k
  <2>1. Len(SubSeq(c, 1, k)) = k
    OBVIOUS
  <2>2. QED
    BY <2>1, SplitSeq
<1>2. b \o w \in Seq(Byte) /\ (a \o b) \o w = a \o (b \o w)
  BY ConcatSeq, ConcatAssoc
<1>3. SubSeq(a \o (b \o w), Len(a) + 1, Len(a \o (b \o w))) = b \o w
  BY <1>2, CutLast
<1>4. QED
  BY <1>1, <1>2, <1>3, Zenon

(* What has arrived of the next thing is in the buffer.                       *)
LEMMA ArrivedNow ==
    ASSUME TypeOK, StreamInv, Len(parsed) + 1 \in 1..Len(sent)
    PROVE  /\ Now \in Things
           /\ SizeOfFirst[Len(parsed) + 1] <= Arrived <=> Size(Now) <= ReadableBytes(inbuf)
<1> DEFINE z == SizesOf(sent)
           p == Len(parsed)
           n == Len(sent)
           r == ReadableBytes(inbuf)
<1>1. sent \in Seq(Things) /\ wire \in Seq(Byte) /\ BufferOK(inbuf)
  BY DEF TypeOK, Things
<1>2. Now \in Things
  BY <1>1 DEF Now
<1>3. Size(Now) \in Nat
  BY <1>2, Judged
<1>4. z \in [0..n -> Nat] /\ z[p + 1] = z[p] + Size(Now)
  <2>1. z \in [0..n -> Nat] /\ \A i \in 1..n : z[i] = z[i - 1] + Size(sent[i])
    BY <1>1, Sizes
  <2>2. PICK i \in 1..n : i = p + 1 /\ i - 1 = p
    <3>1. p \in Nat
      BY DEF TypeOK
    <3>2. QED
      BY <3>1
  <2>3. z[i] = z[p] + Size(sent[i])
    BY <2>1, <2>2
  <2>4. QED
    BY <2>1, <2>2, <2>3 DEF Now
<1>5. Len(Content(inbuf) \o wire) = z[n] - z[p] /\ p \in 0..n
  BY DEF StreamInv, Carries
<1>6. r \in Nat /\ Len(wire) \in Nat /\ Len(Content(inbuf) \o wire) = r + Len(wire)
  <2>1. Content(inbuf) \in Seq(Byte) /\ Len(Content(inbuf)) = r /\ r \in Nat
    BY <1>1, ContentType DEF ReadableBytes, BufferOK
  <2>2. Len(Content(inbuf) \o wire) = Len(Content(inbuf)) + Len(wire)
    BY <1>1, <2>1, ConcatLen
  <2>3. QED
    BY <1>1, <2>1, <2>2
<1>7. z[n] \in Nat /\ z[p] \in Nat
  <2>1. n \in 0..n
    BY <1>1
  <2>2. QED
    BY <1>4, <1>5, <2>1
<1>8. SizeOfFirst[p + 1] = z[p] + Size(Now) /\ Arrived = z[n] - Len(wire)
  BY <1>4 DEF SizeOfFirst, Arrived
<1> HIDE DEF z, r, p, n
<1>9. (z[p] + Size(Now) <= z[n] - Len(wire)) <=> (Size(Now) <= r)
  BY <1>3, <1>5, <1>6, <1>7
<1>10. QED
  BY <1>2, <1>8, <1>9 DEF p, r

(* When a header is there, the loop of ParseMessages looks at the next thing  *)
(* sent, and sees what that deserves.                                         *)
LEMMA LoopSees ==
    ASSUME TypeOK, StreamInv, HeaderArrived
    PROVE  /\ Len(parsed) + 1 \in 1..Len(sent) /\ Now \in Things
           /\ LengthValid <=> Deserves(Now) # "kInvalidLength"
           /\ LengthValid => /\ NextLen + kHeaderLen = Size(Now)
                             /\ kHeaderLen + NextLen = Size(Now)
           /\ LengthValid /\ FrameArrived =>
                 /\ ParseErrorOf(FrameBody) = Deserves(Now)
                 /\ Deserves(Now) = "kNoError" => ParsedMessage(FrameBody) = Now
<1> DEFINE c == Content(inbuf)
           rest == c \o wire
           r == ReadableBytes(inbuf)
           b == Bytes(Now)
<1>1. /\ wire \in Seq(Byte) /\ BufferOK(inbuf) /\ sent \in Seq(Things)
      /\ Carries(rest, sent, Len(parsed))
  BY DEF TypeOK, StreamInv, Things
<1>2. c \in Seq(Byte) /\ Len(c) = r /\ r \in Nat /\ r >= 14
  BY <1>1, ContentType
     DEF ReadableBytes, BufferOK, HeaderArrived, kMinMessageLen, kHeaderLen, kCheckSumLen
<1> HIDE DEF c, r
<1>3. /\ Len(rest) = r + Len(wire) /\ Len(wire) \in Nat
      /\ \A i \in 1..r : rest[i] = c[i]
  <2>1. Len(wire) \in Nat
    BY <1>1
  <2>2. Len(rest) = r + Len(wire)
    BY <1>1, <1>2, ConcatLen
  <2>3. ASSUME NEW i \in 1..r PROVE rest[i] = c[i]
    <3>1. i \in 1..(Len(c) + Len(wire)) /\ i <= Len(c)
      BY <1>2, <2>1
    <3>2. \A j \in 1..(Len(c) + Len(wire)) :
             (c \o wire)[j] = IF j <= Len(c) THEN c[j] ELSE wire[j - Len(c)]
      BY <1>1, <1>2, ConcatBytes
    <3>3. QED
      BY <3>1, <3>2
  <2>4. QED
    BY <2>1, <2>2, <2>3
<1> HIDE DEF rest
<1>4. /\ Len(parsed) + 1 \in 1..Len(sent)
      /\ \A j \in 1..Size(Now) : rest[j] = b[j]
  <2>1. Len(rest) > 0
    BY <1>2, <1>3
  <2>2. QED
    BY <1>1, <2>1, CarriesFront DEF Now
<1>5. Now \in Things
  BY <1>1, <1>4 DEF Now
<1>6. /\ b \in Seq(Byte) /\ Size(Now) \in Nat /\ Len(b) = Size(Now) /\ Size(Now) >= 14
      /\ Deserves(Now) = "kInvalidLength" => ~LenOk(HeaderOf(b))
      /\ Deserves(Now) # "kInvalidLength" =>
            /\ LenOk(HeaderOf(b)) /\ HeaderOf(b) = Size(Now) - 4
            /\ ParseErrorOf(RestOf(b)) = Deserves(Now)
      /\ Deserves(Now) = "kNoError" => ParsedMessage(RestOf(b)) = Now
  BY <1>5, Judged
<1> HIDE DEF b
<1>7. \A j \in 1..Size(Now) : j <= r => c[j] = b[j]
  BY <1>2, <1>3, <1>4, <1>6
<1>8. NextLen = HeaderOf(b)
  <2>1. NextLen = NetworkInt(SubSeq(c, 1, 4))
    BY <1>1, <1>2, PeekIntOK DEF NextLen, kHeaderLen, c, r
  <2>2. SubSeq(c, 1, 4) = SubSeq(b, 1, 4)
    <3>1. /\ SubSeq(c, 1, 4) = [i \in 1..4 |-> c[i]]
          /\ SubSeq(b, 1, 4) = [i \in 1..4 |-> b[i]]
      BY <1>2, <1>6
    <3>2. \A i \in 1..4 : c[i] = b[i]
      BY <1>2, <1>6, <1>7
    <3>3. QED
      BY <3>1, <3>2
  <2>3. QED
    BY <2>1, <2>2 DEF HeaderOf, kHeaderLen
<1>9. LengthValid <=> LenOk(HeaderOf(b))
  BY <1>8 DEF LengthValid, LenOk
<1>10. LengthValid <=> Deserves(Now) # "kInvalidLength"
  BY <1>6, <1>9
<1>11. ASSUME LengthValid PROVE NextLen = Size(Now) - 4
  BY <1>6, <1>8, <1>10, <1>11
<1>12. ASSUME LengthValid, FrameArrived PROVE FrameBody = RestOf(b)
  <2>1. NextLen = Size(Now) - 4 /\ Size(Now) <= r
    <3>1. NextLen = Size(Now) - 4 /\ r >= NextLen + 4
      BY <1>11, <1>12 DEF FrameArrived, kHeaderLen, r
    <3>2. QED
      BY <1>2, <1>6, <3>1
  <2>2. FrameBody = SubSeq(c, 5, Size(Now))
    <3>1. 4 + 1 = 5 /\ 4 + NextLen = Size(Now)
      BY <1>6, <2>1
    <3>2. QED
      BY <3>1 DEF FrameBody, kHeaderLen, c
  <2>3. RestOf(b) = SubSeq(b, 5, Size(Now))
    BY <1>6 DEF RestOf, kHeaderLen
  <2>4. PICK w \in Nat : w = Size(Now) - 4
    BY <1>6
  <2>5. /\ SubSeq(c, 5, Size(Now)) = [i \in 1..w |-> c[4 + i]]
        /\ SubSeq(b, 5, Size(Now)) = [i \in 1..w |-> b[4 + i]]
    BY <1>2, <1>6, <2>1, <2>4
  <2>6. \A i \in 1..w : c[4 + i] = b[4 + i]
    BY <1>2, <1>6, <1>7, <2>1, <2>4
  <2>7. QED
    BY <2>2, <2>3, <2>5, <2>6
<1>13. LengthValid => NextLen + kHeaderLen = Size(Now) /\ kHeaderLen + NextLen = Size(Now)
  BY <1>6, <1>11 DEF kHeaderLen
<1>14. QED
  BY <1>4, <1>5, <1>6, <1>10, <1>12, <1>13

-----------------------------------------------------------------------------
LEMMA InitIInv == Init => IInv
<1> SUFFICES ASSUME Init PROVE IInv
  OBVIOUS
<1>1. BufferOK(inbuf) /\ Content(inbuf) = <<>>
  BY NewBufferOK DEF Init
<1>2. TypeOK
  <2>1. <<>> \in Seq(Messages \cup Foreign) /\ <<>> \in Seq(Byte) /\ <<>> \in Seq(Decodable)
        /\ Len(<<>>) = 0
    OBVIOUS
  <2>2. 0 <= MaxSent
    BY BoundsAssumption
  <2>3. QED
    BY <1>1, <2>1, <2>2 DEF Init, TypeOK
<1>3. Carries(<<>>, <<>>, 0)
  <2>1. <<>> \in Seq(Things) /\ <<>> \in Seq(Byte) /\ Len(<<>>) = 0
    OBVIOUS
  <2>2. SizesOf(<<>>) \in [0..0 -> Nat]
    BY <2>1, Sizes
  <2>3. SizesOf(<<>>)[0] - SizesOf(<<>>)[0] = 0
    BY <2>2
  <2>4. QED
    BY <2>1, <2>3 DEF Carries
<1>4. Content(inbuf) \o wire = <<>>
  BY <1>1 DEF Init
<1>5. StreamInv
  BY <1>3, <1>4 DEF Init, StreamInv
<1>6. ErrorInv
  BY DEF Init, ErrorInv
<1>7. QED
  BY <1>2, <1>5, <1>6 DEF IInv

(* What is in the buffer and in flight.                                       *)
LEMMA InFlight ==
    ASSUME TypeOK, StreamInv
    PROVE  /\ Content(inbuf) \in Seq(Byte) /\ wire \in Seq(Byte) /\ sent \in Seq(Things)
           /\ ReadableBytes(inbuf) \in Nat
           /\ Len(Content(inbuf)) = ReadableBytes(inbuf)
           /\ Len(parsed) \in 0..Len(sent) /\ Len(sent) \in Nat
           /\ SizesOf(sent) \in [0..Len(sent) -> Nat]
           /\ ReadableBytes(inbuf) + Len(wire) =
                 SizesOf(sent)[Len(sent)] - SizesOf(sent)[Len(parsed)]
<1>1. wire \in Seq(Byte) /\ sent \in Seq(Things) /\ BufferOK(inbuf)
  BY DEF TypeOK, Things
<1>2. /\ Content(inbuf) \in Seq(Byte) /\ ReadableBytes(inbuf) \in Nat
      /\ Len(Content(inbuf)) = ReadableBytes(inbuf)
  BY <1>1, ContentType DEF ReadableBytes, BufferOK
<1>3. /\ Len(parsed) \in 0..Len(sent)
      /\ Len(Content(inbuf) \o wire) =
            SizesOf(sent)[Len(sent)] - SizesOf(sent)[Len(parsed)]
  BY DEF StreamInv, Carries
<1>4. Len(Content(inbuf) \o wire) = ReadableBytes(inbuf) + Len(wire)
  BY <1>1, <1>2, ConcatLen
<1>5. SizesOf(sent) \in [0..Len(sent) -> Nat]
  BY <1>1, Sizes
<1>6. Len(sent) \in Nat
  BY <1>1
<1>7. QED
  BY <1>1, <1>2, <1>3, <1>4, <1>5, <1>6

(* A frame sent lengthens the stream and leaves the next thing the next.      *)
LEMMA TransmitKeeps ==
    ASSUME IInv, NEW x \in Things, Transmit(x, Bytes(x))
    PROVE  IInv'
<1> DEFINE c == Content(inbuf)
           k == Len(parsed) + 1
<1>1. /\ TypeOK /\ StreamInv /\ ErrorInv
      /\ Len(sent) < MaxSent /\ sent' = Append(sent, x) /\ wire' = wire \o Bytes(x)
      /\ UNCHANGED <<inbuf, parsing, parsed, errors, conn>>
  BY DEF IInv, Transmit
<1>2. /\ c \in Seq(Byte) /\ wire \in Seq(Byte) /\ sent \in Seq(Things)
      /\ ReadableBytes(inbuf) \in Nat /\ Len(parsed) \in 0..Len(sent) /\ Len(sent) \in Nat
  BY <1>1, InFlight
<1>3. /\ Bytes(x) \in Seq(Byte) /\ Size(x) \in Nat /\ Size(x) >= 14
  BY Judged
<1>4. /\ sent' \in Seq(Things) /\ Len(sent') = Len(sent) + 1 /\ sent'[Len(sent) + 1] = x
      /\ \A i \in 1..Len(sent) : sent'[i] = sent[i]
  BY <1>1, <1>2
<1>5. TypeOK'
  <2>1. wire' \in Seq(Byte)
    BY <1>1, <1>2, <1>3, ConcatSeq
  <2>2. sent' \in Seq(Messages \cup Foreign) /\ Len(sent') <= MaxSent
    BY <1>1, <1>2, <1>4, BoundsAssumption DEF Things
  <2>3. /\ BufferOK(inbuf') /\ parsing' \in BOOLEAN /\ parsed' \in Seq(Decodable)
        /\ conn' \in {"connected", "disconnecting"}
    BY <1>1 DEF TypeOK
  <2>4. QED
    BY <2>1, <2>2, <2>3 DEF TypeOK
<1>6. StreamInv'
  <2>1. Carries((c \o wire) \o Bytes(x), Append(sent, x), Len(parsed))
    BY <1>1, CarriesMore DEF StreamInv
  <2>2. (c \o wire) \o Bytes(x) = c \o (wire \o Bytes(x))
    BY <1>2, <1>3, ConcatAssoc
  <2>3. Carries(Content(inbuf') \o wire', sent', Len(parsed'))
    BY <1>1, <2>1, <2>2
  <2>4. /\ \A i \in 1..Len(parsed) : parsed[i] = sent[i] /\ Deserves(sent[i]) = "kNoError"
        /\ "kNoError" \notin errors
    BY <1>1 DEF StreamInv
  <2>5. \A i \in 1..Len(parsed) : i \in 1..Len(sent) /\ sent'[i] = sent[i]
    BY <1>2, <1>4
  <2>6. \A i \in 1..Len(parsed') : parsed'[i] = sent'[i] /\ Deserves(sent'[i]) = "kNoError"
    BY <1>1, <2>4, <2>5
  <2>7. QED
    BY <1>1, <2>3, <2>4, <2>6 DEF StreamInv
<1>7. ErrorInv'
  <2>1. CASE k <= Len(sent)
    <3>1. k \in 1..Len(sent) /\ Now' = Now /\ k <= Len(sent')
      BY <1>1, <1>2, <1>4, <2>1 DEF Now
    <3>2. QED
      BY <1>1, <2>1, <3>1 DEF ErrorInv
  <2>2. CASE ~(k <= Len(sent))
    <3>1. errors = {}
      BY <1>1, <2>2 DEF ErrorInv
    <3>2. Len(parsed) = Len(sent) /\ Now' = x
      BY <1>1, <1>2, <1>4, <2>2 DEF Now
    <3>3. ReadableBytes(inbuf) = 0
      <4>1. SizesOf(sent)[Len(sent)] \in Nat /\ Len(wire) \in Nat
        <5>1. Len(sent) \in 0..Len(sent)
          BY <1>2
        <5>2. SizesOf(sent) \in [0..Len(sent) -> Nat]
          BY <1>1, InFlight
        <5>3. SizesOf(sent)[Len(sent)] \in Nat
          BY <5>1, <5>2
        <5>4. Len(wire) \in Nat
          BY <1>2
        <5>5. QED
          BY <5>3, <5>4
      <4>2. ReadableBytes(inbuf) + Len(wire) =
               SizesOf(sent)[Len(sent)] - SizesOf(sent)[Len(sent)]
        BY <1>1, <3>2, InFlight
      <4>3. QED
        BY <1>2, <4>1, <4>2
    <3>4. ~(Size(Now') <= ReadableBytes(inbuf))
      BY <1>3, <3>2, <3>3
    <3>5. QED
      BY <1>1, <3>1, <3>4 DEF ErrorInv
  <2>3. QED
    BY <2>1, <2>2
<1>8. QED
  BY <1>5, <1>6, <1>7 DEF IInv

(* Reading moves bytes from the wire to the buffer.                           *)
LEMMA ReceiveKeeps ==
    ASSUME IInv, NEW n \in ChunkSizes, Receive(n)
    PROVE  IInv'
<1>1. TypeOK /\ StreamInv /\ ErrorInv
  BY DEF IInv
<1>2. Content(inbuf) \in Seq(Byte) /\ wire \in Seq(Byte) /\ BufferOK(inbuf)
  BY <1>1, InFlight DEF TypeOK
<1>3. PICK k \in 0..Len(wire) :
         /\ inbuf' = AppendBytes(inbuf, SubSeq(wire, 1, k))
         /\ wire' = SubSeq(wire, k + 1, Len(wire))
         /\ parsing' = TRUE
         /\ UNCHANGED <<sent, parsed, errors, conn>>
  <2> DEFINE k == IF n <= Len(wire) THEN n ELSE Len(wire)
  <2>1. k \in 0..Len(wire)
    BY <1>2, BoundsAssumption
  <2>2. QED
    BY <2>1 DEF Receive
<1>4. PICK a \in Seq(Byte), b \in Seq(Byte) :
         a = SubSeq(wire, 1, k) /\ b = SubSeq(wire, k + 1, Len(wire)) /\ a \o b = wire
  BY <1>2, SplitSeq
<1>5. BufferOK(inbuf') /\ Content(inbuf') = Content(inbuf) \o a /\ wire' = b
  BY <1>2, <1>3, <1>4, AppendOK
<1>6. Content(inbuf') \o wire' = Content(inbuf) \o wire
  <2>1. (Content(inbuf) \o a) \o b = Content(inbuf) \o (a \o b)
    BY <1>2, ConcatAssoc
  <2>2. QED
    BY <1>4, <1>5, <2>1, Zenon
<1>7. TypeOK'
  BY <1>1, <1>3, <1>4, <1>5 DEF TypeOK
<1>8. StreamInv'
  BY <1>1, <1>3, <1>6 DEF StreamInv
<1>9. ErrorInv'
  BY <1>1, <1>3 DEF ErrorInv, Now
<1>10. QED
  BY <1>7, <1>8, <1>9 DEF IInv

(* Only messages the receiver's class can parse deserve no error.             *)
LEMMA GoodDecodes ==
    ASSUME NEW x \in Things, Deserves(x) = "kNoError"
    PROVE  x \in Decodable
<1>1. x \notin Foreign
  <2> SUFFICES ASSUME x \in Foreign PROVE FALSE
    OBVIOUS
  <2>1. x.error # "kNoError"
    BY ForeignAssumption
  <2>2. QED
    BY <2>1 DEF Deserves
<1>2. QED
  BY <1>1 DEF Deserves

(* When ParseMessages accepts, it accepts the next thing sent, and no error   *)
(* has been reported.                                                         *)
LEMMA AcceptIsNow ==
    ASSUME IInv, Accept
    PROVE  /\ Now \in Things /\ Deserves(Now) = "kNoError"
           /\ Len(parsed) + 1 \in 1..Len(sent)
           /\ parsed' = Append(parsed, Now)
           /\ inbuf' = Retrieve(inbuf, Size(Now)) /\ Size(Now) <= ReadableBytes(inbuf)
           /\ errors = {}
<1>1. /\ TypeOK /\ StreamInv /\ HeaderArrived /\ LengthValid /\ FrameArrived
      /\ ParseErrorOf(FrameBody) = "kNoError"
  BY DEF IInv, Accept
<1>2. /\ Len(parsed) + 1 \in 1..Len(sent) /\ Now \in Things
      /\ NextLen + kHeaderLen = Size(Now) /\ kHeaderLen + NextLen = Size(Now)
      /\ ParseErrorOf(FrameBody) = Deserves(Now)
      /\ Deserves(Now) = "kNoError" => ParsedMessage(FrameBody) = Now
  BY <1>1, LoopSees
<1>3. Deserves(Now) = "kNoError" /\ ParsedMessage(FrameBody) = Now
  BY <1>1, <1>2
<1>4. parsed' = Append(parsed, Now) /\ inbuf' = Retrieve(inbuf, Size(Now))
  BY <1>2, <1>3 DEF Accept
<1>5. Size(Now) \in Nat /\ ReadableBytes(inbuf) \in Nat
  BY <1>1, <1>2, Judged, InFlight
<1>6. ReadableBytes(inbuf) >= Size(Now)
  BY <1>1, <1>2 DEF FrameArrived
<1>7. errors = {}
  BY <1>3 DEF IInv, StreamInv, ErrorInv
<1>8. QED
  BY <1>2, <1>3, <1>4, <1>5, <1>6, <1>7

(* Accepting moves the next thing from the buffer to the messages parsed.     *)
LEMMA AcceptKeeps ==
    ASSUME IInv, Accept
    PROVE  IInv'
<1> DEFINE c == Content(inbuf)
           w == Size(Now)
           p == Len(parsed)
<1>1. /\ TypeOK /\ StreamInv /\ ErrorInv /\ parsing
      /\ UNCHANGED <<sent, wire, parsing, errors, conn>>
  BY DEF IInv, Accept
<1>2. /\ c \in Seq(Byte) /\ wire \in Seq(Byte) /\ BufferOK(inbuf) /\ p \in Nat
      /\ Len(c) = ReadableBytes(inbuf) /\ parsed \in Seq(Decodable)
  BY <1>1, InFlight DEF TypeOK
<1>3. /\ Now \in Things /\ Deserves(Now) = "kNoError" /\ p + 1 \in 1..Len(sent)
      /\ parsed' = Append(parsed, Now) /\ inbuf' = Retrieve(inbuf, w)
      /\ w <= ReadableBytes(inbuf) /\ errors = {}
  BY AcceptIsNow
<1>4. w \in Nat /\ w >= 14
  BY <1>3, Judged
<1>5. Now \in Decodable
  BY <1>3, GoodDecodes
<1>6. /\ parsed' \in Seq(Decodable) /\ Len(parsed') = p + 1 /\ parsed'[p + 1] = Now
      /\ \A i \in 1..p : parsed'[i] = parsed[i]
  <2> HIDE DEF Now
  <2>1. QED
    BY <1>2, <1>3, <1>5
<1>7. BufferOK(inbuf') /\ Content(inbuf') = SubSeq(c, w + 1, Len(c))
  <2> HIDE DEF w
  <2>1. QED
    BY <1>2, <1>3, <1>4, RetrieveOK
<1>8. TypeOK'
  BY <1>1, <1>6, <1>7 DEF TypeOK
<1>9. StreamInv'
  <2>1. Carries(c \o wire, sent, p)
    BY <1>1 DEF StreamInv
  <2>2. Len(c \o wire) > 0
    <3>1. Len(c \o wire) = Len(c) + Len(wire) /\ Len(c) \in Nat /\ Len(wire) \in Nat
      BY <1>2, ConcatLen
    <3>2. QED
      BY <1>2, <1>3, <1>4, <3>1
  <2>3. Carries(SubSeq(c \o wire, w + 1, Len(c \o wire)), sent, p + 1)
    BY <2>1, <2>2, CarriesLess DEF Now
  <2>4. SubSeq(c, w + 1, Len(c)) \o wire = SubSeq(c \o wire, w + 1, Len(c \o wire))
    <3>1. w \in 0..Len(c)
      BY <1>2, <1>3, <1>4
    <3>2. QED
      BY <1>2, <3>1, DropFront
  <2>5. Carries(Content(inbuf') \o wire', sent', Len(parsed'))
    BY <1>1, <1>6, <1>7, <2>3, <2>4
  <2>6. ASSUME NEW i \in 1..Len(parsed')
        PROVE  parsed'[i] = sent'[i] /\ Deserves(sent'[i]) = "kNoError"
    <3>1. CASE i = p + 1
      BY <1>1, <1>3, <1>6, <3>1 DEF Now
    <3>2. CASE i # p + 1
      <4>1. i \in 1..p
        BY <1>2, <1>6, <3>2
      <4>2. QED
        BY <1>1, <1>6, <4>1 DEF StreamInv
    <3>3. QED
      BY <3>1, <3>2
  <2>7. "kNoError" \notin errors'
    BY <1>1 DEF StreamInv
  <2>8. QED
    BY <2>5, <2>6, <2>7 DEF StreamInv
<1>10. ErrorInv'
  BY <1>1, <1>3 DEF ErrorInv
<1>11. QED
  BY <1>8, <1>9, <1>10 DEF IInv

(* When ParseMessages rejects, it is the next thing sent it rejects, and for  *)
(* what that deserves.                                                        *)
LEMMA RejectIsNow ==
    ASSUME TypeOK, StreamInv, RejectLength \/ RejectFrame
    PROVE  /\ Len(parsed) + 1 \in 1..Len(sent) /\ Now \in Things
           /\ Deserves(Now) # "kNoError"
           /\ Fail(Deserves(Now))
<1>1. HeaderArrived
  BY DEF RejectLength, RejectFrame
<1>2. Len(parsed) + 1 \in 1..Len(sent) /\ Now \in Things
  BY <1>1, LoopSees
<1>3. CASE RejectLength
  <2>1. Deserves(Now) = "kInvalidLength"
    BY <1>1, <1>3, LoopSees DEF RejectLength
  <2>2. QED
    BY <1>2, <1>3, <2>1 DEF RejectLength
<1>4. CASE RejectFrame
  <2>1. ParseErrorOf(FrameBody) = Deserves(Now)
    BY <1>1, <1>4, LoopSees DEF RejectFrame
  <2>2. QED
    BY <1>2, <1>4, <2>1 DEF RejectFrame
<1>5. QED
  BY <1>3, <1>4

LEMMA RejectKeeps ==
    ASSUME IInv, RejectLength \/ RejectFrame
    PROVE  IInv'
<1>1. TypeOK /\ StreamInv /\ ErrorInv
  BY DEF IInv
<1>2. /\ Len(parsed) + 1 \in 1..Len(sent) /\ Deserves(Now) # "kNoError"
      /\ errors' = errors \cup {Deserves(Now)}
      /\ conn' = IF conn = "connected" THEN "disconnecting" ELSE conn
      /\ parsing' = FALSE
      /\ UNCHANGED <<sent, wire, inbuf, parsed>>
  BY <1>1, RejectIsNow DEF Fail
<1>3. conn' = "disconnecting"
  BY <1>1, <1>2 DEF TypeOK
<1>4. TypeOK'
  BY <1>1, <1>2, <1>3 DEF TypeOK
<1>5. StreamInv'
  BY <1>1, <1>2 DEF StreamInv
<1>6. ErrorInv'
  <2>1. Now' = Now /\ Len(parsed') + 1 <= Len(sent')
    <3>1. Len(sent) \in Nat
      BY <1>1, InFlight
    <3>2. QED
      BY <1>2, <3>1 DEF Now
  <2>2. \A code \in errors' : Deserves(Now) = code
    BY <1>1, <1>2 DEF ErrorInv
  <2>3. errors' # {}
    BY <1>2
  <2>4. QED
    BY <1>3, <2>1, <2>2, <2>3 DEF ErrorInv
<1>7. QED
  BY <1>4, <1>5, <1>6 DEF IInv

(* ParseMessages returns 0 only while the next thing has not arrived in full. *)
LEMMA AwaitKeeps ==
    ASSUME IInv, AwaitMore
    PROVE  IInv'
<1>1. /\ TypeOK /\ StreamInv /\ ErrorInv /\ parsing' = FALSE
      /\ UNCHANGED <<sent, wire, inbuf, parsed, errors, conn>>
  BY DEF IInv, AwaitMore
<1>2. TypeOK'
  BY <1>1 DEF TypeOK
<1>3. StreamInv'
  BY <1>1 DEF StreamInv
<1>4. ASSUME Len(parsed) + 1 <= Len(sent), Size(Now) <= ReadableBytes(inbuf)
      PROVE  FALSE
  <2>1. ReadableBytes(inbuf) \in Nat /\ Len(parsed) + 1 \in 1..Len(sent)
        /\ sent \in Seq(Things)
    BY <1>1, <1>4, InFlight
  <2>2. Now \in Things
    BY <2>1 DEF Now
  <2>3. Size(Now) \in Nat /\ Size(Now) >= 14
    BY <2>2, Judged
  <2>4. HeaderArrived
    BY <1>4, <2>1, <2>3 DEF HeaderArrived, kMinMessageLen, kHeaderLen, kCheckSumLen
  <2>5. LengthValid /\ ~FrameArrived
    BY <2>4 DEF AwaitMore
  <2>6. NextLen + kHeaderLen = Size(Now)
    BY <1>1, <2>4, <2>5, LoopSees
  <2>7. QED
    BY <1>4, <2>1, <2>3, <2>5, <2>6 DEF FrameArrived
<1>5. ErrorInv'
  BY <1>1, <1>4 DEF ErrorInv, Now
<1>6. QED
  BY <1>2, <1>3, <1>5 DEF IInv

LEMMA NextIInv == IInv /\ [Next]_vars => IInv'
<1> SUFFICES ASSUME IInv, [Next]_vars PROVE IInv'
  OBVIOUS
<1>1. CASE \E m \in Messages : SendMsg(m)
  <2>1. PICK m \in Messages : SendMsg(m)
    BY <1>1
  <2>2. m \in Things /\ Bytes(m) = Frame[m]
    BY NotForeign DEF Things, Bytes
  <2>3. QED
    BY <2>1, <2>2, TransmitKeeps DEF SendMsg
<1>2. CASE \E f \in Foreign : SendForeign(f)
  <2>1. PICK f \in Foreign : SendForeign(f)
    BY <1>2
  <2>2. f \in Things /\ Bytes(f) = f.bytes
    BY DEF Things, Bytes
  <2>3. QED
    BY <2>1, <2>2, TransmitKeeps DEF SendForeign
<1>3. CASE \E n \in ChunkSizes : Receive(n)
  BY <1>3, ReceiveKeeps
<1>4. CASE Accept
  BY <1>4, AcceptKeeps
<1>5. CASE RejectLength \/ RejectFrame
  BY <1>5, RejectKeeps
<1>6. CASE AwaitMore
  BY <1>6, AwaitKeeps
<1>7. CASE UNCHANGED vars
  BY <1>7 DEF vars, IInv, TypeOK, StreamInv, ErrorInv, Now
<1>8. QED
  BY <1>1, <1>2, <1>3, <1>4, <1>5, <1>6, <1>7 DEF Next, ParseMessages

(* The invariant is inductive.                                                *)
LEMMA Invariant == Spec => []IInv
BY InitIInv, NextIInv, PTL DEF Spec

-----------------------------------------------------------------------------
(* The input buffer stays in order, and everything ParseMessages puts into    *)
(* its vector is a message the receiver's class can parse.                    *)
THEOREM StreamTypes == Spec => []TypeOK
<1>1. IInv => TypeOK
  BY DEF IInv
<1>2. QED
  BY <1>1, Invariant, PTL

LEMMA IInvErrors == IInv => ErrorIsTheFirst
<1> SUFFICES ASSUME IInv PROVE ErrorIsTheFirst
  OBVIOUS
<1> DEFINE k == Len(parsed) + 1
<1>1. TypeOK /\ StreamInv /\ ErrorInv
  BY DEF IInv
<1>2. Len(parsed) \in Nat /\ Len(sent) \in Nat
  BY <1>1, InFlight
<1>3. \A code \in errors : k <= Len(sent) /\ Deserves(sent[k]) = code
  BY <1>1 DEF ErrorInv, Now
<1>4. ASSUME ~parsing, k <= Len(sent), SizeOfFirst[k] <= Arrived PROVE errors # {}
  <2>1. k \in 1..Len(sent)
    BY <1>2, <1>4
  <2>2. Size(Now) <= ReadableBytes(inbuf)
    BY <1>1, <1>4, <2>1, ArrivedNow
  <2>3. QED
    BY <1>1, <1>4, <2>2 DEF ErrorInv
<1>5. conn = "disconnecting" <=> errors # {}
  BY <1>1 DEF ErrorInv
<1>6. QED
  BY <1>3, <1>4, <1>5 DEF ErrorIsTheFirst

(* The error callback hears of the first bad frame of the stream, with the    *)
(* code it deserves, and of nothing else; and it has heard of it once         *)
(* ParseMessages returned with the whole frame there.                         *)
THEOREM FirstError == Spec => []ErrorIsTheFirst
BY Invariant, IInvErrors, PTL

LEMMA IInvDelivers == IInv => DeliversWhatArrived
<1> SUFFICES ASSUME IInv PROVE DeliversWhatArrived
  OBVIOUS
<1> DEFINE z == SizesOf(sent)
           N == Len(sent)
           p == Len(parsed)
           Leading(k) == /\ SizeOfFirst[k] <= Arrived
                         /\ \A i \in 1..k : Deserves(sent[i]) = "kNoError"
           Last(k) == Leading(k) /\ \A j \in 0..N : Leading(j) => j <= k
           n == CHOOSE k \in 0..N : Last(k)
<1>1. TypeOK /\ StreamInv /\ ErrorIsTheFirst /\ ErrorInv
  BY IInvErrors DEF IInv
<1>2. /\ wire \in Seq(Byte) /\ sent \in Seq(Things) /\ N \in Nat /\ p \in 0..N
      /\ z \in [0..N -> Nat] /\ ReadableBytes(inbuf) \in Nat
      /\ ReadableBytes(inbuf) + Len(wire) = z[N] - z[p]
  BY <1>1, InFlight
<1>3. /\ parsed \in Seq(Decodable) /\ "kNoError" \notin errors
      /\ \A i \in 1..p : parsed[i] = sent[i] /\ Deserves(sent[i]) = "kNoError"
  BY <1>1 DEF TypeOK, StreamInv
<1>4. Leading(p)
  <2>1. z[N] \in Nat /\ z[p] \in Nat /\ Len(wire) \in Nat
    <3>1. N \in 0..N
      BY <1>2
    <3>2. QED
      BY <1>2, <3>1
  <2>2. SizeOfFirst[p] = z[p] /\ Arrived = z[N] - Len(wire)
    BY DEF SizeOfFirst, Arrived
  <2> HIDE DEF z
  <2>3. z[p] <= z[N] - Len(wire)
    BY <1>2, <2>1
  <2>4. QED
    BY <1>3, <2>2, <2>3
<1> HIDE DEF Leading
<1>5. \E k \in 0..N : Last(k)
  <2> DEFINE T == {N - k : k \in {j \in 0..N : Leading(j)}}
  <2>1. T \subseteq Nat /\ N - p \in T
    BY <1>2, <1>4
  <2>2. PICK x \in T : \A y \in T : x <= y
    <3> HIDE DEF T
    <3>1. QED
      BY <2>1, LeastNat
  <2>3. PICK k \in 0..N : Leading(k) /\ x = N - k
    BY <2>2
  <2>4. ASSUME NEW j \in 0..N, Leading(j) PROVE j <= k
    <3>1. N - j \in T
      BY <2>4
    <3>2. N - k <= N - j
      BY <2>2, <2>3, <3>1
    <3>3. QED
      BY <1>2, <3>2
  <2>5. QED
    BY <2>3, <2>4
<1>6. n \in 0..N /\ Last(n)
  <2> HIDE DEF Last
  <2>1. QED
    BY <1>5
<1>7. Due = SubSeq(sent, 1, n)
  BY DEF Due, Leading
<1> HIDE DEF n
<1>8. p <= n /\ Leading(n)
  BY <1>2, <1>4, <1>6
<1>9. /\ Due \in Seq(Things) /\ Len(Due) = n
      /\ \A i \in 1..n : Due[i] = sent[i]
  BY <1>2, <1>6, <1>7
<1> HIDE DEF N, Last
<1>10. /\ Len(SubSeq(Due, 1, p)) = p /\ SubSeq(Due, 1, p) \in Seq(Things)
       /\ \A i \in 1..p : SubSeq(Due, 1, p)[i] = sent[i]
  BY <1>2, <1>6, <1>8, <1>9
<1>11. parsed = SubSeq(Due, 1, p)
  <2>1. PICK s \in Seq(Things) : s = SubSeq(Due, 1, p)
    BY <1>10
  <2>2. Len(s) = Len(parsed) /\ \A i \in 1..Len(s) : s[i] = parsed[i]
    BY <1>3, <1>10, <2>1
  <2>3. s = parsed
    BY <1>3, <2>2
  <2>4. QED
    BY <2>1, <2>3
<1>12. ASSUME ~parsing PROVE parsed = Due
  <2>1. n = p
    <3> SUFFICES ASSUME n # p PROVE FALSE
      OBVIOUS
    <3>1. p + 1 \in 1..n /\ p + 1 \in 0..N /\ n \in (p + 1)..N /\ p + 1 <= N
      BY <1>2, <1>6, <1>8
    <3>2. SizeOfFirst[p + 1] <= SizeOfFirst[n]
      BY <1>2, <3>1, SizesGrow DEF SizeOfFirst, N
    <3>3. /\ SizeOfFirst[n] <= Arrived /\ Deserves(sent[p + 1]) = "kNoError"
      BY <1>8, <3>1 DEF Leading
    <3>4. SizeOfFirst[p + 1] <= Arrived
      <4>1. SizeOfFirst[p + 1] \in Nat /\ SizeOfFirst[n] \in Nat /\ Arrived \in Int
        <5>1. z[p + 1] \in Nat /\ z[n] \in Nat /\ z[N] \in Nat /\ Len(wire) \in Nat
          <6>1. n \in 0..N /\ N \in 0..N
            BY <1>2, <1>6
          <6>2. QED
            BY <1>2, <3>1, <6>1
        <5>2. QED
          BY <5>1 DEF SizeOfFirst, Arrived, N
      <4>2. QED
        BY <3>2, <3>3, <4>1
    <3>5. errors # {}
      BY <1>1, <1>12, <3>1, <3>4 DEF ErrorIsTheFirst, N
    <3>6. QED
      BY <1>1, <1>3, <3>3, <3>5 DEF ErrorInv, Now
  <2>2. QED
    BY <1>3, <1>9, <2>1
<1>13. QED
  BY <1>8, <1>9, <1>11, <1>12 DEF DeliversWhatArrived

(* However the stream is cut into chunks, and whatever is sent, ParseMessages *)
(* yields the leading good messages in order, each once, unchanged, and all   *)
(* that arrived in full when it returns.                                      *)
THEOREM Delivers == Spec => []DeliversWhatArrived
BY Invariant, IInvDelivers, PTL

LEMMA QuietStep ==
    IInv /\ [Next]_vars => [errors # {} => parsed' = parsed /\ errors' = errors]_vars
<1> SUFFICES ASSUME IInv, Next, errors # {}
             PROVE  parsed' = parsed /\ errors' = errors
  OBVIOUS
<1>1. TypeOK /\ StreamInv /\ ErrorInv
  BY DEF IInv
<1>2. ~Accept
  BY AcceptIsNow
<1>3. CASE RejectLength \/ RejectFrame
  <2>1. errors' = errors \cup {Deserves(Now)} /\ parsed' = parsed
    BY <1>1, <1>3, RejectIsNow DEF Fail
  <2>2. Deserves(Now) \in errors
    BY <1>1 DEF ErrorInv
  <2>3. QED
    BY <2>1, <2>2
<1>4. QED
  BY <1>2, <1>3 DEF Next, ParseMessages, SendMsg, SendForeign, Transmit, Receive, AwaitMore

(* After the first error nothing is delivered and no other error reported,    *)
(* however often the codec is called again on the bytes it left in place.     *)
THEOREM ErrorIsFinal == Spec => NothingAfterError
BY Invariant, QuietStep, PTL DEF Spec, NothingAfterError

=============================================================================
