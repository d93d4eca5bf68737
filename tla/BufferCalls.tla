----------------------------- MODULE BufferCalls -----------------------------
(* A Buffer under any sequence of calls its asserts permit.  AppendInt32 and  *)
(* its relatives are appends and prepends of four, two or one bytes.          *)
EXTENDS Buffer

CONSTANTS Strings,     \* what callers append and prepend
          Ints,        \* integers to append, prepend and read back
          MaxSize,     \* bound on the size of the vector
          MaxReserve   \* bound on the argument of Shrink

ASSUME StringsAssumption == Strings \subseteq Seq(Byte)
ASSUME IntsAssumption == Ints \subseteq Int
ASSUME BoundAssumption == MaxSize \in Nat /\ MaxReserve \in Nat

VARIABLE buf

Init == buf = NewBuffer

(* Calls that would grow the vector past the bound are not made.              *)
Becomes(b) ==
    /\ b.size <= MaxSize
    /\ buf' = b

CallAppend(s) == Becomes(AppendBytes(buf, s))

CallPrepend(s) ==
    /\ Len(s) <= PrependableBytes(buf)
    /\ Becomes(Prepend(buf, s))

(* RetrieveAsString, ReadInt32, ReadInt16, ReadInt8 and RetrieveUntil look at *)
(* the first bytes and then retrieve them.                                    *)
CallRetrieve(n) ==
    /\ n <= ReadableBytes(buf)
    /\ Becomes(Retrieve(buf, n))

CallEnsureWritableBytes(n) == Becomes(EnsureWritableBytes(buf, n))

CallShrink(n) == Becomes(Shrink(buf, n))

Next ==
    \/ \E s \in Strings : CallAppend(s) \/ CallPrepend(s)
    \/ \E n \in 0..ReadableBytes(buf) : CallRetrieve(n)
    \/ \E n \in 0..MaxReserve : CallEnsureWritableBytes(n) \/ CallShrink(n)

Spec == Init /\ [][Next]_buf

-----------------------------------------------------------------------------
(* The picture in the class comment: reader, writer and size are in order,    *)
(* and every cell is a byte.                                                  *)
TypeOK == BufferOK(buf)

(* The asserts of MakeSpace and EnsureWritableBytes, for whatever length is   *)
(* asked for next: content is only ever moved towards the front               *)
(* (kCheapPrepend < readerIndex_, line 316, so the forward std::copy is safe) *)
(* and the space asked for is there afterwards (line 166).                    *)
SpaceIsMade ==
    \A len \in 0..MaxSize :
        /\ WritableBytes(buf) < len /\ ~MustGrow(buf, len) => kCheapPrepend < buf.r
        /\ WritableBytes(EnsureWritableBytes(buf, len)) >= len

(* An integer put in front of a buffer, or written behind an empty one, reads *)
(* back as itself in every width that holds it, also when it is negative.     *)
IntReadsBack ==
    \A x \in Ints, n \in IntSizes :
      FitsIn(x, n) =>
        /\ PrependableBytes(buf) >= n => PeekInt(PrependInt(buf, x, n), n) = x
        /\ PeekInt(AppendInt(RetrieveAll(buf), x, n), n) = x

(* The readable bytes behave like a byte FIFO, wherever they lie.             *)
Fifo == INSTANCE ByteFifo
            WITH content <- Content(buf)
ImplementsByteFifo == Fifo!Spec

=============================================================================
