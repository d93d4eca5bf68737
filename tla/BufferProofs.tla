---------------------------- MODULE BufferProofs -----------------------------
(* Proofs about Buffer for any kCheapPrepend and kInitialSize, any strings    *)
(* and any integers: the indices stay in order, MakeSpace makes space and     *)
(* moves the content only towards the front, integers read back, and the      *)
(* content is a byte FIFO.                                                    *)
EXTENDS BufferCalls, BufferLemmas

USE SizeAssumption

-----------------------------------------------------------------------------
(* 0 <= readerIndex <= writerIndex <= size whatever is called.                *)
THEOREM IndicesInOrder == Spec => []TypeOK
<1> USE StringsAssumption, BoundAssumption
<1>1. Init => TypeOK
  BY NewBufferOK DEF Init, TypeOK
<1>2. TypeOK /\ [Next]_buf => TypeOK'
  <2> SUFFICES ASSUME BufferOK(buf), [Next]_buf PROVE BufferOK(buf')
    BY DEF TypeOK
  <2>1. ASSUME NEW s \in Strings, CallAppend(s) PROVE BufferOK(buf')
    BY <2>1, AppendOK DEF CallAppend, Becomes
  <2>2. ASSUME NEW s \in Strings, CallPrepend(s) PROVE BufferOK(buf')
    BY <2>2, PrependOK DEF CallPrepend, Becomes
  <2>3. ASSUME NEW n \in 0..ReadableBytes(buf), CallRetrieve(n) PROVE BufferOK(buf')
    BY <2>3, RetrieveOK DEF CallRetrieve, Becomes, ReadableBytes, BufferOK
  <2>4. ASSUME NEW n \in 0..MaxReserve, CallEnsureWritableBytes(n) PROVE BufferOK(buf')
    BY <2>4, EnsureOK DEF CallEnsureWritableBytes, Becomes
  <2>5. ASSUME NEW n \in 0..MaxReserve, CallShrink(n) PROVE BufferOK(buf')
    BY <2>5, ShrinkOK DEF CallShrink, Becomes
  <2>6. CASE UNCHANGED buf
    BY <2>6
  <2>7. QED
    BY <2>1, <2>2, <2>3, <2>4, <2>5, <2>6 DEF Next
<1>3. QED
  BY <1>1, <1>2, PTL DEF Spec

(* The asserts of MakeSpace and EnsureWritableBytes never fail.               *)
THEOREM SpaceIsAlwaysMade == Spec => []SpaceIsMade
<1>1. TypeOK => SpaceIsMade
  <2> SUFFICES ASSUME BufferOK(buf), NEW len \in 0..MaxSize
               PROVE  /\ WritableBytes(buf) < len /\ ~MustGrow(buf, len)
                            => kCheapPrepend < buf.r
                      /\ WritableBytes(EnsureWritableBytes(buf, len)) >= len
    BY DEF TypeOK, SpaceIsMade
  <2>1. len \in Nat
    BY BoundAssumption
  <2>2. QED
    BY <2>1, CompactsLeft, EnsureOK
<1>2. QED
  BY <1>1, IndicesInOrder, PTL

(* Every integer reads back as itself, in front of any content and behind an  *)
(* emptied buffer, in each of the three widths.                               *)
THEOREM IntsReadBack == Spec => []IntReadsBack
<1>1. TypeOK => IntReadsBack
  <2> SUFFICES ASSUME BufferOK(buf), NEW x \in Ints, NEW n \in IntSizes, FitsIn(x, n)
               PROVE  /\ PrependableBytes(buf) >= n
                            => PeekInt(PrependInt(buf, x, n), n) = x
                      /\ PeekInt(AppendInt(RetrieveAll(buf), x, n), n) = x
    BY DEF TypeOK, IntReadsBack
  <2> DEFINE s == NetworkBytes(x, n)
  <2>1. x \in Int /\ n \in Nat
    BY IntsAssumption DEF IntSizes
  <2>2. s \in Seq(Byte) /\ Len(s) = n /\ NetworkInt(s) = x
    BY <2>1, NetworkBytesType, IntRoundTrip
  <2> HIDE DEF s
  <2>3. ASSUME NEW b, BufferOK(b), NEW t \in Seq(Byte), Content(b) = s \o t
        PROVE  PeekInt(b, n) = x
    <3>1. n <= ReadableBytes(b)
      BY <2>1, <2>2, <2>3, ContentType
    <3>2. SubSeq(s \o t, 1, n) = s
      BY <2>2
    <3>3. QED
      BY <2>1, <2>2, <2>3, <3>1, <3>2, PeekIntOK
  <2>4. ASSUME PrependableBytes(buf) >= n PROVE PeekInt(PrependInt(buf, x, n), n) = x
    <3>1. BufferOK(Prepend(buf, s)) /\ Content(Prepend(buf, s)) = s \o Content(buf)
      BY <2>1, <2>2, <2>4, PrependOK DEF PrependableBytes, BufferOK
    <3>2. QED
      BY <2>3, <3>1, ContentType DEF PrependInt, s
  <2>5. PeekInt(AppendInt(RetrieveAll(buf), x, n), n) = x
    <3> DEFINE e == RetrieveAll(buf)
    <3>1. BufferOK(e) /\ Content(e) = <<>>
      BY DEF RetrieveAll, MakeBuffer, BufferOK, Content, ReadableBytes
    <3> HIDE DEF e
    <3>2. BufferOK(AppendBytes(e, s)) /\ Content(AppendBytes(e, s)) = <<>> \o s
      BY <2>2, <3>1, AppendOK
    <3>3. <<>> \in Seq(Byte) /\ <<>> \o s = s \o <<>>
      BY <2>2
    <3>4. PeekInt(AppendBytes(e, s), n) = x
      BY <2>3, <3>2, <3>3
    <3>5. QED
      BY <3>4 DEF AppendInt, s, e
  <2>6. QED
    BY <2>4, <2>5
<1>2. QED
  BY <1>1, IndicesInOrder, PTL

(* Whatever the storage does, callers see a byte FIFO.                        *)
THEOREM BufferIsByteFifo == Spec => ImplementsByteFifo
<1> USE StringsAssumption, BoundAssumption
<1>1. Init => Fifo!Init
  BY NewBufferOK DEF Init, Fifo!Init
<1>2. TypeOK /\ [Next]_buf => [Fifo!Next]_(Content(buf))
  <2> SUFFICES ASSUME BufferOK(buf), [Next]_buf
               PROVE  Fifo!Next \/ Content(buf') = Content(buf)
    BY DEF TypeOK
  <2>1. ASSUME NEW s \in Strings, CallAppend(s)
        PROVE  Content(buf') = Content(buf) \o s
    BY <2>1, AppendOK DEF CallAppend, Becomes
  <2>2. ASSUME NEW s \in Strings, CallPrepend(s)
        PROVE  Content(buf') = s \o Content(buf)
    BY <2>2, PrependOK DEF CallPrepend, Becomes
  <2>3. ASSUME NEW n \in 0..ReadableBytes(buf), CallRetrieve(n)
        PROVE  /\ Content(buf') = SubSeq(Content(buf), n + 1, Len(Content(buf)))
               /\ n \in 0..Len(Content(buf))
    <3>1. n \in Nat /\ n <= ReadableBytes(buf)
      BY DEF ReadableBytes, BufferOK
    <3>2. buf' = Retrieve(buf, n)
      BY <2>3 DEF CallRetrieve, Becomes
    <3>3. Content(buf') = SubSeq(Content(buf), n + 1, Len(Content(buf)))
      BY <3>1, <3>2, RetrieveOK
    <3>4. Len(Content(buf)) = ReadableBytes(buf)
      BY ContentType
    <3>5. QED
      BY <3>3, <3>4
  <2>4. ASSUME NEW n \in 0..MaxReserve, CallEnsureWritableBytes(n) \/ CallShrink(n)
        PROVE  Content(buf') = Content(buf)
    BY <2>4, EnsureOK, ShrinkOK DEF CallEnsureWritableBytes, CallShrink, Becomes
  <2>5. QED
    BY <2>1, <2>2, <2>3, <2>4
       DEF Next, Fifo!Next, Fifo!Extend, Fifo!Prepend, Fifo!Retrieve
<1>3. QED
  BY <1>1, <1>2, IndicesInOrder, PTL DEF Spec, ImplementsByteFifo, Fifo!Spec

=============================================================================
