------------------------------- MODULE Buffer --------------------------------
(* Buffer (common/net/buffer.h): a growing array with a reader and a writer   *)
(* index.  A buffer is a record of the vector's size, its cells (numbered     *)
(* from 0 as in the code) and the two indices; every method is an operator    *)
(* that returns the buffer after the call.                                    *)
EXTENDS Integers, Sequences

CONSTANTS kCheapPrepend,   \* 8 in the code
          kInitialSize     \* 1024 in the code

ASSUME SizeAssumption == kCheapPrepend \in Nat /\ kInitialSize \in Nat

Byte == 0..255

Cells(n) == [0..(n - 1) -> Byte]

MakeBuffer(size, data, r, w) == [size |-> size, data |-> data, r |-> r, w |-> w]

NewBuffer ==
    MakeBuffer(kCheapPrepend + kInitialSize,
               [i \in 0..(kCheapPrepend + kInitialSize - 1) |-> 0],
               kCheapPrepend, kCheapPrepend)

ReadableBytes(b) == b.w - b.r
WritableBytes(b) == b.size - b.w
PrependableBytes(b) == b.r

(* The bytes from peek() to BeginWrite().                                     *)
Content(b) == [i \in 1..ReadableBytes(b) |-> b.data[b.r + i - 1]]

(* The bytes a read of n bytes at peek() sees.                                *)
PeekBytes(b, n) == [i \in 1..n |-> b.data[b.r + i - 1]]

(* std::copy of s to the cells that start at index at.                        *)
Store(data, at, s) ==
    [i \in DOMAIN data |->
        IF at <= i /\ i < at + Len(s) THEN s[i - at + 1] ELSE data[i]]

(* vector::resize: new cells are zero.                                        *)
Resize(b, n) ==
    MakeBuffer(n, [i \in 0..(n - 1) |-> IF i < b.size THEN b.data[i] ELSE 0], b.r, b.w)

(* The readable bytes are moved back to kCheapPrepend.                        *)
CompactWithoutCopy(b) ==
    MakeBuffer(b.size, b.data, kCheapPrepend, kCheapPrepend + ReadableBytes(b))

Compact(b) ==
    MakeBuffer(b.size, Store(b.data, kCheapPrepend, Content(b)),
               kCheapPrepend, kCheapPrepend + ReadableBytes(b))

MustGrowIgnoringPrepend(b, len) == WritableBytes(b) + PrependableBytes(b) < len

MustGrow(b, len) == WritableBytes(b) + PrependableBytes(b) < len + kCheapPrepend

MakeSpace(b, len) == IF MustGrow(b, len) THEN Resize(b, b.w + len) ELSE Compact(b)

EnsureWritableBytes(b, len) == IF WritableBytes(b) < len THEN MakeSpace(b, len) ELSE b

(* Writes at BeginWrite() followed by HasWritten.                             *)
WriteAndAdvance(b, s) ==
    MakeBuffer(b.size, Store(b.data, b.w, s), b.r, b.w + Len(s))

AppendBytes(b, s) == WriteAndAdvance(EnsureWritableBytes(b, Len(s)), s)

RetrieveAllReaderOnly(b) == MakeBuffer(b.size, b.data, kCheapPrepend, b.w)

RetrieveAll(b) == MakeBuffer(b.size, b.data, kCheapPrepend, kCheapPrepend)

Retrieve(b, len) ==
    IF len < ReadableBytes(b) THEN MakeBuffer(b.size, b.data, b.r + len, b.w)
                              ELSE RetrieveAll(b)

Prepend(b, s) ==
    MakeBuffer(b.size, Store(b.data, b.r - Len(s), s), b.r - Len(s), b.w)

(* Shrink: a new buffer with room for the content and the reserve.            *)
Shrink(b, reserve) ==
    AppendBytes(EnsureWritableBytes(NewBuffer, ReadableBytes(b) + reserve), Content(b))

-----------------------------------------------------------------------------
(* The widths of int8_t, int16_t and int32_t in bytes, and their values.      *)
IntSizes == {1, 2, 4}
FitsIn(x, n) == x \div 256 ^ (n - 1) \in -128..127

(* HostToNetwork and NetworkToHost: two's complement, most significant byte   *)
(* first, for the int8_t, int16_t and int32_t variants.                       *)
NetworkBytes(x, n) == [i \in 1..n |-> (x \div 256 ^ (n - i)) % 256]

NetworkIntUnsigned(s) ==
    LET n == Len(s)
        Value[i \in 1..n] == IF i = 1 THEN s[1] ELSE Value[i - 1] * 256 + s[i]
    IN  Value[n]

NetworkInt(s) ==
    LET n == Len(s)
        Signed(byte) == IF byte < 128 THEN byte ELSE byte - 256
        Value[i \in 1..n] == IF i = 1 THEN Signed(s[1]) ELSE Value[i - 1] * 256 + s[i]
    IN  Value[n]

AppendInt(b, x, n) == AppendBytes(b, NetworkBytes(x, n))
PrependInt(b, x, n) == Prepend(b, NetworkBytes(x, n))
PeekInt(b, n) == NetworkInt(PeekBytes(b, n))

-----------------------------------------------------------------------------
(* 0 <= readerIndex <= writerIndex <= size, as the class comment draws it.    *)
BufferOK(b) ==
    /\ b.size \in Nat /\ b.r \in Nat /\ b.w \in Nat
    /\ b.r <= b.w /\ b.w <= b.size
    /\ kCheapPrepend <= b.size
    /\ b.data \in Cells(b.size)

=============================================================================
