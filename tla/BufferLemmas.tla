---------------------------- MODULE BufferLemmas -----------------------------
(* What the methods of Buffer do to the content, for any kCheapPrepend and    *)
(* kInitialSize, and that integers survive the network byte order: the facts  *)
(* the proofs about Buffer's callers and about the codec rest on.             *)
EXTENDS Buffer, TLAPS

USE SizeAssumption

-----------------------------------------------------------------------------
(* A new buffer is in order and empty.                                        *)
LEMMA NewBufferOK == BufferOK(NewBuffer) /\ Content(NewBuffer) = <<>>
<1>1. NewBuffer.data \in Cells(NewBuffer.size)
  BY DEF NewBuffer, MakeBuffer, Cells, Byte
<1>2. BufferOK(NewBuffer)
  BY <1>1 DEF NewBuffer, MakeBuffer, BufferOK
<1>3. QED
  BY <1>2 DEF NewBuffer, MakeBuffer, Content, ReadableBytes

(* The content of a buffer in order is a byte sequence of ReadableBytes       *)
(* bytes.                                                                     *)
LEMMA ContentType ==
    ASSUME NEW b, BufferOK(b)
    PROVE  Content(b) \in Seq(Byte) /\ Len(Content(b)) = ReadableBytes(b)
<1>1. ReadableBytes(b) \in Nat
  BY DEF BufferOK, ReadableBytes
<1>2. \A i \in 1..ReadableBytes(b) : b.data[b.r + i - 1] \in Byte
  <2> SUFFICES ASSUME NEW i \in 1..ReadableBytes(b) PROVE b.data[b.r + i - 1] \in Byte
    OBVIOUS
  <2>1. b.r + i - 1 \in 0..(b.size - 1)
    BY DEF BufferOK, ReadableBytes
  <2>2. QED
    BY <2>1 DEF BufferOK, Cells
<1>3. Content(b) \in [1..ReadableBytes(b) -> Byte]
  BY <1>2 DEF Content
<1>4. QED
  BY <1>1, <1>3 DEF Content

(* Storing a string inside the array leaves an array of bytes.                *)
LEMMA StoreType ==
    ASSUME NEW n \in Nat, NEW data \in Cells(n), NEW at \in Nat, NEW s \in Seq(Byte)
    PROVE  Store(data, at, s) \in Cells(n)
BY DEF Store, Cells

(* Growing the vector changes neither the indices nor the content.            *)
LEMMA ResizeOK ==
    ASSUME NEW b, BufferOK(b), NEW n \in Nat, b.size <= n
    PROVE  /\ BufferOK(Resize(b, n))
           /\ Resize(b, n).size = n
           /\ Resize(b, n).r = b.r /\ Resize(b, n).w = b.w
           /\ Content(Resize(b, n)) = Content(b)
<1>1. /\ Resize(b, n).size = n /\ Resize(b, n).r = b.r /\ Resize(b, n).w = b.w
      /\ Resize(b, n).data = [i \in 0..(n - 1) |-> IF i < b.size THEN b.data[i] ELSE 0]
  BY DEF Resize, MakeBuffer
<1>2. Resize(b, n).data \in Cells(n)
  <2>1. b.data \in [0..(b.size - 1) -> Byte] /\ b.size \in Nat
    BY DEF BufferOK, Cells
  <2>2. \A i \in 0..(n - 1) : (IF i < b.size THEN b.data[i] ELSE 0) \in Byte
    <3> SUFFICES ASSUME NEW i \in 0..(n - 1)
                 PROVE  (IF i < b.size THEN b.data[i] ELSE 0) \in Byte
      OBVIOUS
    <3>1. CASE i < b.size
      <4>1. i \in 0..(b.size - 1)
        BY <2>1, <3>1
      <4>2. QED
        BY <2>1, <3>1, <4>1
    <3>2. CASE ~(i < b.size)
      BY <3>2 DEF Byte
    <3>3. QED
      BY <3>1, <3>2
  <2>3. QED
    BY <1>1, <2>2 DEF Cells
<1>3. BufferOK(Resize(b, n))
  BY <1>1, <1>2 DEF BufferOK
<1>4. Content(Resize(b, n)) = Content(b)
  BY <1>1 DEF BufferOK, Content, ReadableBytes
<1>5. QED
  BY <1>1, <1>3, <1>4

(* Compact is only called when the reader is beyond kCheapPrepend.            *)
LEMMA CompactOK ==
    ASSUME NEW b, BufferOK(b), kCheapPrepend < b.r
    PROVE  /\ BufferOK(Compact(b))
           /\ Compact(b).size = b.size
           /\ Compact(b).r = kCheapPrepend
           /\ Compact(b).w = kCheapPrepend + ReadableBytes(b)
           /\ Content(Compact(b)) = Content(b)
<1> DEFINE d == Store(b.data, kCheapPrepend, Content(b))
<1>1. /\ Compact(b).size = b.size /\ Compact(b).data = d
      /\ Compact(b).r = kCheapPrepend
      /\ Compact(b).w = kCheapPrepend + ReadableBytes(b)
  BY DEF Compact, MakeBuffer
<1>2. d \in Cells(b.size)
  BY ContentType, StoreType DEF BufferOK
<1>3. BufferOK(Compact(b))
  BY <1>1, <1>2 DEF BufferOK, ReadableBytes
<1>4. \A i \in 1..ReadableBytes(b) : d[kCheapPrepend + i - 1] = Content(b)[i]
  <2> SUFFICES ASSUME NEW i \in 1..ReadableBytes(b)
               PROVE  d[kCheapPrepend + i - 1] = Content(b)[i]
    OBVIOUS
  <2>1. kCheapPrepend + i - 1 \in 0..(b.size - 1)
    BY DEF BufferOK, ReadableBytes
  <2>2. DOMAIN b.data = 0..(b.size - 1)
    BY DEF BufferOK, Cells
  <2>3. QED
    BY <2>1, <2>2, ContentType DEF Store, ReadableBytes, BufferOK
<1>5. Content(Compact(b)) = Content(b)
  <2>1. Content(Compact(b)) = [i \in 1..ReadableBytes(b) |-> d[kCheapPrepend + i - 1]]
    BY <1>1 DEF Content, ReadableBytes, BufferOK
  <2> HIDE DEF d
  <2>2. QED
    BY <1>4, <2>1 DEF Content
<1>6. QED
  BY <1>1, <1>3, <1>5

(* MakeSpace's assertion: it compacts only if the reader is beyond            *)
(* kCheapPrepend.  The two tests of EnsureWritableBytes and MakeSpace imply   *)
(* it together.                                                               *)
LEMMA CompactsLeft ==
    ASSUME NEW b, BufferOK(b), NEW len \in Nat,
           WritableBytes(b) < len, ~MustGrow(b, len)
    PROVE  kCheapPrepend < b.r
BY DEF BufferOK, WritableBytes, PrependableBytes, MustGrow

(* EnsureWritableBytes, whether it grows, moves or does nothing, makes the    *)
(* space asked for and keeps the content.                                     *)
LEMMA EnsureOK ==
    ASSUME NEW b, BufferOK(b), NEW len \in Nat
    PROVE  LET e == EnsureWritableBytes(b, len)
           IN  BufferOK(e) /\ WritableBytes(e) >= len /\ Content(e) = Content(b)
<1> DEFINE e == EnsureWritableBytes(b, len)
<1>1. CASE WritableBytes(b) >= len
  BY <1>1 DEF EnsureWritableBytes, BufferOK, WritableBytes
<1>2. CASE WritableBytes(b) < len /\ MustGrow(b, len)
  <2>1. e = Resize(b, b.w + len) /\ b.w + len \in Nat /\ b.size <= b.w + len
    BY <1>2 DEF EnsureWritableBytes, MakeSpace, BufferOK, WritableBytes
  <2>2. QED
    BY <2>1, ResizeOK DEF WritableBytes, BufferOK
<1>3. CASE WritableBytes(b) < len /\ ~MustGrow(b, len)
  <2>1. e = Compact(b) /\ kCheapPrepend < b.r
    BY <1>3, CompactsLeft DEF EnsureWritableBytes, MakeSpace
  <2>2. BufferOK(e) /\ Content(e) = Content(b) /\ e.size = b.size
        /\ e.w = kCheapPrepend + ReadableBytes(b)
    BY <2>1, CompactOK
  <2>3. WritableBytes(e) >= len
    BY <1>3, <2>2 DEF WritableBytes, ReadableBytes, PrependableBytes, MustGrow,
                      BufferOK
  <2>4. QED
    BY <2>2, <2>3
<1>4. QED
  BY <1>1, <1>2, <1>3 DEF WritableBytes, BufferOK

(* Two byte sequences of the same length with the same bytes are equal.       *)
LEMMA SeqEqual ==
    ASSUME NEW s \in Seq(Byte), NEW u \in Seq(Byte), Len(s) = Len(u),
           \A i \in 1..Len(s) : s[i] = u[i]
    PROVE  s = u
OBVIOUS

(* The bytes of a concatenation.                                              *)
LEMMA ConcatBytes ==
    ASSUME NEW s \in Seq(Byte), NEW u \in Seq(Byte)
    PROVE  /\ s \o u \in Seq(Byte)
           /\ Len(s \o u) = Len(s) + Len(u)
           /\ \A i \in 1..(Len(s) + Len(u)) :
                 (s \o u)[i] = IF i <= Len(s) THEN s[i] ELSE u[i - Len(s)]
OBVIOUS

(* Where the bytes of the content are.                                        *)
LEMMA ContentAt ==
    ASSUME NEW b, BufferOK(b), NEW i \in 1..ReadableBytes(b)
    PROVE  Content(b)[i] = b.data[b.r + i - 1] /\ b.r + i - 1 \in 0..(b.size - 1)
BY DEF Content, BufferOK, ReadableBytes

(* What a cell holds after a string has been stored.                          *)
LEMMA StoreAt ==
    ASSUME NEW n \in Nat, NEW data \in Cells(n), NEW at \in Nat, NEW s \in Seq(Byte),
           NEW j \in 0..(n - 1)
    PROVE  Store(data, at, s)[j] =
               IF at <= j /\ j < at + Len(s) THEN s[j - at + 1] ELSE data[j]
BY DEF Store, Cells

(* Writing into space that is there appends to the content.                   *)
LEMMA WriteOK ==
    ASSUME NEW b, BufferOK(b), NEW s \in Seq(Byte), WritableBytes(b) >= Len(s)
    PROVE  /\ BufferOK(WriteAndAdvance(b, s))
           /\ Content(WriteAndAdvance(b, s)) = Content(b) \o s
<1> DEFINE e == WriteAndAdvance(b, s)
           d == Store(b.data, b.w, s)
<1>1. e.size = b.size /\ e.data = d /\ e.r = b.r /\ e.w = b.w + Len(s)
  BY DEF WriteAndAdvance, MakeBuffer
<1>2. b.data \in Cells(b.size) /\ b.size \in Nat /\ b.w \in Nat /\ b.r \in Nat
      /\ Len(s) \in Nat /\ b.r <= b.w /\ b.w + Len(s) <= b.size
  BY DEF BufferOK, WritableBytes
<1>3. d \in Cells(b.size)
  BY <1>2, StoreType
<1>4. BufferOK(e)
  BY <1>1, <1>2, <1>3 DEF BufferOK
<1>5. Len(Content(e)) = Len(Content(b)) + Len(s) /\ Len(Content(b)) = b.w - b.r
      /\ Content(e) \in Seq(Byte) /\ Content(b) \in Seq(Byte)
  BY <1>1, <1>2, <1>4, ContentType DEF ReadableBytes
<1>6. ASSUME NEW i \in 1..Len(Content(e)) PROVE Content(e)[i] = (Content(b) \o s)[i]
  <2> DEFINE j == b.r + i - 1
  <2>0. i \in Int /\ b.w - b.r \in Int /\ j \in Int /\ i <= b.w - b.r + Len(s) /\ 1 <= i
    BY <1>2, <1>5
  <2>1. Content(e)[i] = d[j] /\ j \in 0..(b.size - 1)
    BY <1>1, <1>4, <1>5, ContentAt, ContentType
  <2>3. (Content(b) \o s)[i] = IF i <= b.w - b.r THEN Content(b)[i] ELSE s[i - (b.w - b.r)]
    BY <1>5, ConcatBytes
  <2>4. CASE i <= b.w - b.r
    <3>1. Content(b)[i] = b.data[j]
      BY <1>2, <2>4, ContentAt DEF ReadableBytes
    <3>2. ~(b.w <= j)
      BY <1>2, <2>0, <2>4
    <3> HIDE DEF j, d
    <3>3. d[j] = b.data[j]
      BY <1>2, <2>1, <3>2, StoreAt DEF d
    <3>4. QED
      BY <2>1, <2>3, <2>4, <3>1, <3>3
  <2>5. CASE i > b.w - b.r
    <3>1. j - b.w + 1 = i - (b.w - b.r) /\ b.w <= j /\ j < b.w + Len(s)
      BY <1>2, <2>0, <2>5
    <3> HIDE DEF j, d
    <3>2. d[j] = s[j - b.w + 1]
      BY <1>2, <2>1, <3>1, StoreAt DEF d
    <3>3. ~(i <= b.w - b.r)
      BY <2>0, <2>5
    <3>4. QED
      BY <2>1, <2>3, <3>1, <3>2, <3>3
  <2>6. i <= b.w - b.r \/ i > b.w - b.r
    BY <2>0
  <2>7. QED
    BY <2>4, <2>5, <2>6, Zenon
<1>7. Content(e) = Content(b) \o s
  <2> HIDE DEF e
  <2>1. Content(b) \o s \in Seq(Byte) /\ Len(Content(b) \o s) = Len(Content(e))
    BY <1>5, ConcatBytes
  <2>2. QED
    BY <1>5, <1>6, <2>1, SeqEqual
<1>8. QED
  BY <1>4, <1>7

(* Append adds its string behind the content, wherever space comes from.      *)
LEMMA AppendOK ==
    ASSUME NEW b, BufferOK(b), NEW s \in Seq(Byte)
    PROVE  BufferOK(AppendBytes(b, s)) /\ Content(AppendBytes(b, s)) = Content(b) \o s
<1> DEFINE e == EnsureWritableBytes(b, Len(s))
<1>1. BufferOK(e) /\ WritableBytes(e) >= Len(s) /\ Content(e) = Content(b)
  BY EnsureOK
<1> HIDE DEF e
<1>2. BufferOK(WriteAndAdvance(e, s)) /\ Content(WriteAndAdvance(e, s)) = Content(b) \o s
  BY <1>1, WriteOK
<1>3. QED
  BY <1>2 DEF AppendBytes, e

(* Prepend, called as its assertion demands, adds its string before the       *)
(* content.                                                                   *)
LEMMA PrependOK ==
    ASSUME NEW b, BufferOK(b), NEW s \in Seq(Byte), Len(s) <= PrependableBytes(b)
    PROVE  BufferOK(Prepend(b, s)) /\ Content(Prepend(b, s)) = s \o Content(b)
<1> DEFINE e == Prepend(b, s)
           at == b.r - Len(s)
           d == Store(b.data, at, s)
<1>1. e.size = b.size /\ e.data = d /\ e.r = at /\ e.w = b.w
  BY DEF Prepend, MakeBuffer
<1>2. b.data \in Cells(b.size) /\ b.size \in Nat /\ b.w \in Nat /\ b.r \in Nat
      /\ Len(s) \in Nat /\ b.r <= b.w /\ b.w <= b.size /\ at \in Nat /\ at + Len(s) = b.r
  BY DEF BufferOK, PrependableBytes
<1> HIDE DEF at
<1>3. d \in Cells(b.size)
  BY <1>2, StoreType
<1>4. BufferOK(e)
  BY <1>1, <1>2, <1>3 DEF BufferOK
<1>5. Len(Content(e)) = Len(s) + Len(Content(b)) /\ Len(Content(b)) = b.w - b.r
      /\ Content(e) \in Seq(Byte) /\ Content(b) \in Seq(Byte)
  BY <1>1, <1>2, <1>4, ContentType DEF ReadableBytes
<1>6. ASSUME NEW i \in 1..Len(Content(e)) PROVE Content(e)[i] = (s \o Content(b))[i]
  <2>0. i \in Int /\ Len(s) \in Int
    BY <1>2
  <2> DEFINE j == at + i - 1
  <2>1. Content(e)[i] = d[j] /\ j \in 0..(b.size - 1)
    BY <1>1, <1>4, <1>5, ContentAt, ContentType
  <2>2. d[j] = IF at <= j /\ j < at + Len(s) THEN s[j - at + 1] ELSE b.data[j]
    <3> HIDE DEF j
    <3>1. QED
      BY <1>2, <2>1, StoreAt
  <2>3. (s \o Content(b))[i] = IF i <= Len(s) THEN s[i] ELSE Content(b)[i - Len(s)]
    BY <1>5, ConcatBytes
  <2>4. CASE i <= Len(s)
    <3>1. j - at + 1 = i
      BY <1>2
    <3>2. QED
      BY <1>2, <2>1, <2>2, <2>3, <2>4, <3>1
  <2>5. CASE i > Len(s)
    <3>1. i - Len(s) \in 1..ReadableBytes(b)
      BY <1>2, <1>5, <2>5 DEF ReadableBytes
    <3>2. Content(b)[i - Len(s)] = b.data[b.r + (i - Len(s)) - 1]
      BY <3>1, ContentAt
    <3>3. b.r + (i - Len(s)) - 1 = j
      BY <1>2
    <3>4. QED
      BY <1>2, <2>1, <2>2, <2>3, <2>5, <3>2, <3>3
  <2>6. i <= Len(s) \/ i > Len(s)
    BY <2>0
  <2>7. QED
    BY <2>4, <2>5, <2>6, Zenon
<1>7. Content(e) = s \o Content(b)
  <2> HIDE DEF e
  <2>1. s \o Content(b) \in Seq(Byte) /\ Len(s \o Content(b)) = Len(Content(e))
    BY <1>5, ConcatBytes
  <2>2. QED
    BY <1>5, <1>6, <2>1, SeqEqual
<1>8. QED
  BY <1>4, <1>7

(* Retrieve drops the first bytes, also when it drops them all and resets     *)
(* both indices.                                                              *)
LEMMA RetrieveOK ==
    ASSUME NEW b, BufferOK(b), NEW n \in Nat, n <= ReadableBytes(b)
    PROVE  /\ BufferOK(Retrieve(b, n))
           /\ Content(Retrieve(b, n)) = SubSeq(Content(b), n + 1, Len(Content(b)))
<1>0. Content(b) \in Seq(Byte) /\ Len(Content(b)) = ReadableBytes(b)
      /\ ReadableBytes(b) \in Nat
  BY ContentType DEF ReadableBytes, BufferOK
<1>1. CASE n < ReadableBytes(b)
  <2> DEFINE e == Retrieve(b, n)
  <2>1. e.size = b.size /\ e.data = b.data /\ e.r = b.r + n /\ e.w = b.w
    BY <1>1 DEF Retrieve, MakeBuffer
  <2>2. BufferOK(e)
    BY <1>1, <2>1 DEF BufferOK, ReadableBytes
  <2>3. /\ SubSeq(Content(b), n + 1, Len(Content(b))) \in Seq(Byte)
        /\ Len(SubSeq(Content(b), n + 1, Len(Content(b)))) = ReadableBytes(b) - n
        /\ \A i \in 1..(ReadableBytes(b) - n) :
              SubSeq(Content(b), n + 1, Len(Content(b)))[i] = Content(b)[n + i]
    BY <1>0, <1>1
  <2>4. ReadableBytes(e) = ReadableBytes(b) - n
    BY <2>1 DEF ReadableBytes, BufferOK
  <2>5. ASSUME NEW i \in 1..(ReadableBytes(b) - n)
        PROVE  Content(e)[i] = Content(b)[n + i]
    <3>1. Content(e)[i] = b.data[b.r + n + i - 1]
      BY <2>1, <2>2, <2>4, ContentAt
    <3>2. n + i \in 1..ReadableBytes(b)
      BY <1>0
    <3>3. Content(b)[n + i] = b.data[b.r + (n + i) - 1]
      BY <3>2, ContentAt
    <3>4. b.r + (n + i) - 1 = b.r + n + i - 1
      BY DEF BufferOK
    <3>5. QED
      BY <3>1, <3>3, <3>4
  <2>6. Content(e) \in Seq(Byte) /\ Len(Content(e)) = ReadableBytes(b) - n
    BY <2>2, <2>4, ContentType
  <2> HIDE DEF e
  <2>7. Content(e) = SubSeq(Content(b), n + 1, Len(Content(b)))
    BY <2>3, <2>5, <2>6, SeqEqual
  <2>8. QED
    BY <2>2, <2>7 DEF e
<1>2. CASE n = ReadableBytes(b)
  <2> DEFINE e == Retrieve(b, n)
  <2>1. e.size = b.size /\ e.data = b.data /\ e.r = kCheapPrepend /\ e.w = kCheapPrepend
    BY <1>0, <1>2 DEF Retrieve, RetrieveAll, MakeBuffer
  <2>2. BufferOK(e)
    BY <2>1 DEF BufferOK
  <2>3. Content(e) = <<>>
    BY <2>1 DEF Content, ReadableBytes
  <2>4. SubSeq(Content(b), n + 1, Len(Content(b))) = <<>>
    BY <1>0, <1>2
  <2>5. QED
    BY <2>2, <2>3, <2>4
<1>3. QED
  BY <1>0, <1>1, <1>2

(* Shrink keeps the content.                                                  *)
LEMMA ShrinkOK ==
    ASSUME NEW b, BufferOK(b), NEW n \in Nat
    PROVE  BufferOK(Shrink(b, n)) /\ Content(Shrink(b, n)) = Content(b)
<1> DEFINE e == EnsureWritableBytes(NewBuffer, ReadableBytes(b) + n)
<1>1. ReadableBytes(b) + n \in Nat
  BY DEF BufferOK, ReadableBytes
<1>2. BufferOK(e) /\ Content(e) = <<>>
  BY <1>1, NewBufferOK, EnsureOK
<1>3. Content(b) \in Seq(Byte)
  BY ContentType
<1> HIDE DEF e
<1>4. BufferOK(AppendBytes(e, Content(b)))
      /\ Content(AppendBytes(e, Content(b))) = <<>> \o Content(b)
  BY <1>2, <1>3, AppendOK
<1>5. <<>> \o Content(b) = Content(b)
  BY <1>3
<1>6. QED
  BY <1>4, <1>5 DEF Shrink, e

-----------------------------------------------------------------------------
(* The first byte carries the sign.                                           *)
Signed(byte) == IF byte < 128 THEN byte ELSE byte - 256

(* NetworkInt's recursion has a solution, and NetworkInt reads its last       *)
(* value.                                                                     *)
LEMMA NetworkIntValue ==
    ASSUME NEW s \in Seq(Byte), NEW g,
           g = [i \in 1..Len(s) |-> IF i = 1 THEN Signed(s[1]) ELSE g[i - 1] * 256 + s[i]]
    PROVE  \E h :
             /\ h = [i \in 1..Len(s) |->
                         IF i = 1 THEN Signed(s[1]) ELSE h[i - 1] * 256 + s[i]]
             /\ NetworkInt(s) = h[Len(s)]
<1> DEFINE Solves(f) == f = [i \in 1..Len(s) |->
                               IF i = 1 THEN Signed(s[1]) ELSE f[i - 1] * 256 + s[i]]
           h == CHOOSE f : Solves(f)
<1>1. Solves(g)
  OBVIOUS
<1>2. Solves(h)
  <2> HIDE DEF Solves
  <2>1. QED
    BY <1>1
<1>3. NetworkInt(s) = h[Len(s)]
  BY DEF NetworkInt, Signed
<1> HIDE DEF h
<1>4. QED
  BY <1>2, <1>3

(* The three widths the code converts, written out.                           *)
LEMMA NetworkInt8 ==
    ASSUME NEW s \in Seq(Byte), Len(s) = 1
    PROVE  NetworkInt(s) = Signed(s[1])
<1> DEFINE g == [i \in 1..1 |-> Signed(s[1])]
<1>1. g = [i \in 1..Len(s) |-> IF i = 1 THEN Signed(s[1]) ELSE g[i - 1] * 256 + s[i]]
  OBVIOUS
<1> HIDE DEF g
<1>2. QED
  BY <1>1, NetworkIntValue

LEMMA NetworkInt16 ==
    ASSUME NEW s \in Seq(Byte), Len(s) = 2
    PROVE  NetworkInt(s) = Signed(s[1]) * 256 + s[2]
<1> DEFINE g == [i \in 1..2 |-> IF i = 1 THEN Signed(s[1]) ELSE Signed(s[1]) * 256 + s[2]]
<1>1. \A i \in 1..2 : g[i] = IF i = 1 THEN Signed(s[1]) ELSE g[i - 1] * 256 + s[i]
  OBVIOUS
<1>2. g = [i \in 1..2 |-> g[i]]
  OBVIOUS
<1> HIDE DEF g
<1>3. g = [i \in 1..Len(s) |-> IF i = 1 THEN Signed(s[1]) ELSE g[i - 1] * 256 + s[i]]
  BY <1>1, <1>2
<1>4. PICK h : /\ h = [i \in 1..Len(s) |->
                          IF i = 1 THEN Signed(s[1]) ELSE h[i - 1] * 256 + s[i]]
               /\ NetworkInt(s) = h[Len(s)]
  BY <1>3, NetworkIntValue
<1>5. QED
  BY <1>4

LEMMA NetworkInt32 ==
    ASSUME NEW s \in Seq(Byte), Len(s) = 4
    PROVE  NetworkInt(s) = ((Signed(s[1]) * 256 + s[2]) * 256 + s[3]) * 256 + s[4]
<1> DEFINE g2 == Signed(s[1]) * 256 + s[2]
           g3 == g2 * 256 + s[3]
           g == [i \in 1..4 |-> IF i = 1 THEN Signed(s[1])
                                ELSE IF i = 2 THEN g2
                                ELSE IF i = 3 THEN g3 ELSE g3 * 256 + s[4]]
<1>1. ASSUME NEW i \in 1..4
      PROVE  g[i] = IF i = 1 THEN Signed(s[1]) ELSE g[i - 1] * 256 + s[i]
  <2>1. i = 1 \/ i = 2 \/ i = 3 \/ i = 4
    OBVIOUS
  <2>2. QED
    BY <2>1
<1>2. g = [i \in 1..4 |-> g[i]]
  OBVIOUS
<1> HIDE DEF g
<1>3. g = [i \in 1..Len(s) |-> IF i = 1 THEN Signed(s[1]) ELSE g[i - 1] * 256 + s[i]]
  BY <1>1, <1>2
<1>4. PICK h : /\ h = [i \in 1..Len(s) |->
                          IF i = 1 THEN Signed(s[1]) ELSE h[i - 1] * 256 + s[i]]
               /\ NetworkInt(s) = h[Len(s)]
  BY <1>3, NetworkIntValue
<1>5. h[1] = Signed(s[1]) /\ h[2] = h[1] * 256 + s[2]
      /\ h[3] = h[2] * 256 + s[3] /\ h[4] = h[3] * 256 + s[4]
  BY <1>4
<1>6. QED
  BY <1>4, <1>5

(* The divisors of the conversion.                                            *)
LEMMA Powers256 == 256 ^ 0 = 1 /\ 256 ^ 1 = 256 /\ 256 ^ 2 = 65536 /\ 256 ^ 3 = 16777216
BY SMT

(* HostToNetwork yields as many bytes as the integer is wide.                 *)
LEMMA NetworkBytesType ==
    ASSUME NEW x \in Int, NEW n \in IntSizes
    PROVE  NetworkBytes(x, n) \in Seq(Byte) /\ Len(NetworkBytes(x, n)) = n
<1>1. NetworkBytes(x, 1) \in Seq(Byte) /\ Len(NetworkBytes(x, 1)) = 1
  BY DEF NetworkBytes, Byte
<1>2. NetworkBytes(x, 2) \in Seq(Byte) /\ Len(NetworkBytes(x, 2)) = 2
  BY DEF NetworkBytes, Byte
<1>3. NetworkBytes(x, 4) \in Seq(Byte) /\ Len(NetworkBytes(x, 4)) = 4
  BY DEF NetworkBytes, Byte
<1>4. QED
  BY <1>1, <1>2, <1>3 DEF IntSizes

(* NetworkToHost undoes HostToNetwork for every value of the type, negative   *)
(* ones included.                                                             *)
LEMMA IntRoundTrip ==
    ASSUME NEW x \in Int, NEW n \in IntSizes, FitsIn(x, n)
    PROVE  NetworkInt(NetworkBytes(x, n)) = x
<1>0. NetworkBytes(x, n) \in Seq(Byte) /\ Len(NetworkBytes(x, n)) = n
  BY NetworkBytesType
<1>1. CASE n = 1
  <2>1. NetworkBytes(x, n)[1] = x % 256 /\ x \in -128..127
    BY <1>1 DEF NetworkBytes, FitsIn
  <2>2. QED
    BY <1>0, <1>1, <2>1, NetworkInt8 DEF Signed
<1>2. CASE n = 2
  <2>1. /\ NetworkBytes(x, n)[1] = (x \div 256) % 256 /\ NetworkBytes(x, n)[2] = x % 256
        /\ x \div 256 \in -128..127
    BY <1>2 DEF NetworkBytes, FitsIn
  <2>2. QED
    BY <1>0, <1>2, <2>1, NetworkInt16 DEF Signed
<1>3. CASE n = 4
  <2>1. /\ NetworkBytes(x, n)[1] = (x \div 16777216) % 256
        /\ NetworkBytes(x, n)[2] = (x \div 65536) % 256
        /\ NetworkBytes(x, n)[3] = (x \div 256) % 256
        /\ NetworkBytes(x, n)[4] = x % 256
        /\ x \div 16777216 \in -128..127
    <3>2. NetworkBytes(x, 4) = [i \in 1..4 |-> (x \div 256 ^ (4 - i)) % 256]
      BY DEF NetworkBytes
    <3>3. x \div 256 ^ (4 - 1) \in -128..127
      BY <1>3 DEF FitsIn
    <3>4. 4 - 1 = 3 /\ 4 - 2 = 2 /\ 4 - 3 = 1 /\ 4 - 4 = 0
      OBVIOUS
    <3>5. x \div 1 = x
      OBVIOUS
    <3>6. QED
      BY <1>3, Powers256, <3>2, <3>3, <3>4, <3>5, SMT
  <2> DEFINE a == (x \div 16777216) % 256
             b == (x \div 65536) % 256
             c == (x \div 256) % 256
  <2>2. NetworkInt(NetworkBytes(x, n)) = ((Signed(a) * 256 + b) * 256 + c) * 256 + (x % 256)
    BY <1>0, <1>3, <2>1, NetworkInt32, SMT
  <2>3. ((Signed(a) * 256 + b) * 256 + c) * 256 + (x % 256) = x
    BY <2>1, SMT DEF Signed
  <2>4. QED
    BY <2>2, <2>3
<1>4. QED
  BY <1>1, <1>2, <1>3 DEF IntSizes

(* PeekInt reads the first bytes of the content.                              *)
LEMMA PeekIntOK ==
    ASSUME NEW b, BufferOK(b), NEW n \in Nat, n <= ReadableBytes(b)
    PROVE  PeekInt(b, n) = NetworkInt(SubSeq(Content(b), 1, n))
<1>1. Content(b) \in Seq(Byte) /\ Len(Content(b)) = ReadableBytes(b)
  BY ContentType
<1>2. SubSeq(Content(b), 1, n) = [i \in 1..n |-> Content(b)[i]]
  BY <1>1 DEF ReadableBytes, BufferOK
<1>3. \A i \in 1..n : Content(b)[i] = b.data[b.r + i - 1]
  BY ContentAt DEF ReadableBytes, BufferOK
<1>4. PeekBytes(b, n) = SubSeq(Content(b), 1, n)
  BY <1>2, <1>3 DEF PeekBytes
<1>5. QED
  BY <1>4 DEF PeekInt

=============================================================================
