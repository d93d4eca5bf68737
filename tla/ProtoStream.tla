----------------------------- MODULE ProtoStream -----------------------------
(* ProtobufCodec (common/net/codec_proto.cpp) at both ends of a connection:   *)
(* a peer frames messages into a Buffer and sends its bytes, TCP delivers     *)
(* them in chunks of any size, and for every chunk the receiver appends to    *)
(* its input Buffer and calls ParseMessages.                                  *)
(*                                                                            *)
(*   | len | namelen | name_string | protobuf_data | checksum |               *)
EXTENDS Buffer

CONSTANTS Messages,        \* what SendMsg is called with: [name, data]
          KnownNames,      \* names CreateMessage finds in the generated pool
          Decodable,       \* messages whose data the receiver's class can parse
          Foreign,         \* frames of other senders: [bytes, error]
          kMaxMessageLen,  \* 64 MB in the code
          ChunkSizes,      \* how many bytes one read of the socket may yield
          MaxSent          \* bound on the number of frames sent

kHeaderLen == 4
kNamelenLen == 4
kCheckSumLen == 4
kMinMessageLen == kHeaderLen + 2 + kCheckSumLen

(* FillEmptyBuffer prepends the length into the cells a new Buffer keeps      *)
(* free in front.                                                             *)
ASSUME HeaderFits == kCheapPrepend >= kHeaderLen

ASSUME BoundsAssumption ==
    kMaxMessageLen \in Nat /\ ChunkSizes \subseteq Nat /\ MaxSent \in Nat

(* The bytes of a message on the wire.                                        *)
MessageSize(m) ==
    kHeaderLen + kNamelenLen + Len(m.name) + 1 + Len(m.data) + kCheckSumLen

(* A protobuf type has a name, and the size of a message is an int32_t.       *)
ASSUME MessagesAssumption ==
    \A m \in Messages :
        /\ m \in [name : Seq(Byte), data : Seq(Byte)]
        /\ m.name # <<>>
        /\ FitsIn(MessageSize(m), kHeaderLen)

(* zlib's adler32(1, ...): the bytes and their running sums, each summed      *)
(* modulo 65521, as the signed 32-bit value the code casts them to.           *)
Adler32(s) ==
    LET n == Len(s)
        Sum[i \in 0..n] == IF i = 0 THEN 0 ELSE Sum[i - 1] + s[i]
        Weighted[i \in 0..n] == IF i = 0 THEN 0 ELSE Weighted[i - 1] + (n - i + 1) * s[i]
        low == (1 + Sum[n]) % 65521
        high == (n + Weighted[n]) % 65521
    IN  (IF high < 32768 THEN high ELSE high - 65536) * 65536 + low

-----------------------------------------------------------------------------
(* FillEmptyBuffer: name length, name with its final NUL, serialized data,    *)
(* checksum of all that, and the length of all that in front.                 *)
FillEmptyBuffer(m) ==
    LET named == AppendBytes(AppendInt(NewBuffer, Len(m.name) + 1, kNamelenLen),
                             m.name \o <<0>>)
        filled == WriteAndAdvance(EnsureWritableBytes(named, Len(m.data)), m.data)
        summed == AppendInt(filled, Adler32(Content(filled)), kCheckSumLen)
    IN  PrependInt(summed, ReadableBytes(summed), kHeaderLen)

Frame == [m \in Messages |-> Content(FillEmptyBuffer(m))]

(* Parse: what it makes of the len bytes that follow the header, and the      *)
(* error code it returns.                                                     *)
ParsedMessage(s) ==
    LET nameLen == NetworkInt(SubSeq(s, 1, kNamelenLen))
    IN  [name |-> SubSeq(s, kNamelenLen + 1, kNamelenLen + nameLen - 1),
         data |-> SubSeq(s, kNamelenLen + nameLen + 1, Len(s) - kCheckSumLen)]

ParseErrorIgnoringData(s) ==
    LET body == SubSeq(s, 1, Len(s) - kCheckSumLen)
        sum == NetworkInt(SubSeq(s, Len(s) - kCheckSumLen + 1, Len(s)))
        nameLen == NetworkInt(SubSeq(s, 1, kNamelenLen))
    IN  IF Adler32(body) # sum THEN "kCheckSumError"
        ELSE IF ~(nameLen >= 2 /\ nameLen <= Len(s) - kCheckSumLen) THEN "kInvalidNameLen"
        ELSE IF ParsedMessage(s).name \notin KnownNames THEN "kUnknownMessageType"
        ELSE "kNoError"

ParseErrorOf(s) ==
    LET body == SubSeq(s, 1, Len(s) - kCheckSumLen)
        sum == NetworkInt(SubSeq(s, Len(s) - kCheckSumLen + 1, Len(s)))
        nameLen == NetworkInt(SubSeq(s, 1, kNamelenLen))
        m == ParsedMessage(s)
    IN  IF Adler32(body) # sum THEN "kCheckSumError"
        ELSE IF ~(nameLen >= 2 /\ nameLen <= Len(s) - kCheckSumLen) THEN "kInvalidNameLen"
        ELSE IF m.name \notin KnownNames THEN "kUnknownMessageType"
        ELSE IF m \notin Decodable THEN "kParseError"
        ELSE "kNoError"

(* A frame of another sender is as long as it says, unless its length is the  *)
(* bad thing about it, and error says what that is.                           *)
ASSUME ForeignAssumption ==
    \A f \in Foreign :
        LET len == NetworkInt(SubSeq(f.bytes, 1, kHeaderLen))
            valid == len <= kMaxMessageLen /\ len >= kMinMessageLen
        IN  /\ f \in [bytes : Seq(Byte), error : STRING]
            /\ Len(f.bytes) >= kMinMessageLen + kHeaderLen
            /\ f.error = "kInvalidLength" => ~valid
            /\ f.error # "kInvalidLength" =>
                  /\ valid /\ len = Len(f.bytes) - kHeaderLen
                  /\ f.error = ParseErrorOf(SubSeq(f.bytes, kHeaderLen + 1, Len(f.bytes)))
                  /\ f.error # "kNoError"

-----------------------------------------------------------------------------
VARIABLES sent,      \* history: what was sent, in order
          wire,      \* bytes in flight
          inbuf,     \* the receiver's input Buffer
          parsing,   \* the receiver is inside ParseMessages
          parsed,    \* messages ParseMessages has put into its vector, in order
          errors,    \* codes handed to the error callback so far
          conn       \* the receiver's connection: "connected", or "disconnecting"
                     \* after Shutdown, which closes the sending side only

vars == <<sent, wire, inbuf, parsing, parsed, errors, conn>>

Init ==
    /\ sent = <<>>
    /\ wire = <<>>
    /\ inbuf = NewBuffer
    /\ parsing = FALSE
    /\ parsed = <<>>
    /\ errors = {}
    /\ conn = "connected"

Transmit(x, bytes) ==
    /\ Len(sent) < MaxSent
    /\ sent' = Append(sent, x)
    /\ wire' = wire \o bytes
    /\ UNCHANGED <<inbuf, parsing, parsed, errors, conn>>

SendMsg(m) == Transmit(m, Frame[m])

SendForeign(f) == Transmit(f, f.bytes)

(* The event loop reads what has arrived, up to n bytes of it, into the       *)
(* input buffer and hands the buffer to the codec.                            *)
Receive(n) ==
    LET k == IF n <= Len(wire) THEN n ELSE Len(wire)
    IN  /\ ~parsing
        /\ k > 0
        /\ inbuf' = AppendBytes(inbuf, SubSeq(wire, 1, k))
        /\ wire' = SubSeq(wire, k + 1, Len(wire))
        /\ parsing' = TRUE
        /\ UNCHANGED <<sent, parsed, errors, conn>>

(* One iteration of the while loop of ParseMessages.                          *)
HeaderArrived == ReadableBytes(inbuf) >= kMinMessageLen + kHeaderLen
NextLen == PeekInt(inbuf, kHeaderLen)
LengthValid == NextLen <= kMaxMessageLen /\ NextLen >= kMinMessageLen
FrameArrived == ReadableBytes(inbuf) >= NextLen + kHeaderLen
FrameBody == SubSeq(Content(inbuf), kHeaderLen + 1, kHeaderLen + NextLen)

AcceptOnce ==
    /\ parsing
    /\ HeaderArrived /\ LengthValid /\ FrameArrived
    /\ ParseErrorOf(FrameBody) = "kNoError"
    /\ parsed' = Append(parsed, ParsedMessage(FrameBody))
    /\ inbuf' = Retrieve(inbuf, kHeaderLen + NextLen)
    /\ parsing' = FALSE
    /\ UNCHANGED <<sent, wire, errors, conn>>

AcceptMisaligned ==
    /\ parsing
    /\ HeaderArrived /\ LengthValid /\ FrameArrived
    /\ ParseErrorOf(FrameBody) = "kNoError"
    /\ parsed' = Append(parsed, ParsedMessage(FrameBody))
    /\ inbuf' = Retrieve(inbuf, NextLen)
    /\ UNCHANGED <<sent, wire, parsing, errors, conn>>

Accept ==
    /\ parsing
    /\ HeaderArrived /\ LengthValid /\ FrameArrived
    /\ ParseErrorOf(FrameBody) = "kNoError"
    /\ parsed' = Append(parsed, ParsedMessage(FrameBody))
    /\ inbuf' = Retrieve(inbuf, kHeaderLen + NextLen)
    /\ UNCHANGED <<sent, wire, parsing, errors, conn>>

(* error_callback_, by default DefaultErrorCallback: shut the connection      *)
(* down; ParseMessages returns -1 and leaves the bytes in the buffer.         *)
Fail(code) ==
    /\ errors' = errors \cup {code}
    /\ conn' = IF conn = "connected" THEN "disconnecting" ELSE conn
    /\ parsing' = FALSE
    /\ UNCHANGED <<sent, wire, inbuf, parsed>>

RejectLength ==
    /\ parsing
    /\ HeaderArrived /\ ~LengthValid
    /\ Fail("kInvalidLength")

RejectAndSkip ==
    /\ parsing
    /\ HeaderArrived /\ LengthValid /\ FrameArrived
    /\ ParseErrorOf(FrameBody) # "kNoError"
    /\ errors' = errors \cup {ParseErrorOf(FrameBody)}
    /\ conn' = "disconnecting"
    /\ parsing' = FALSE
    /\ inbuf' = Retrieve(inbuf, kHeaderLen + NextLen)
    /\ UNCHANGED <<sent, wire, parsed>>

RejectFrame ==
    /\ parsing
    /\ HeaderArrived /\ LengthValid /\ FrameArrived
    /\ ParseErrorOf(FrameBody) # "kNoError"
    /\ Fail(ParseErrorOf(FrameBody))

(* Not enough bytes for a header, or for the frame it announces: return 0.    *)
AwaitMore ==
    /\ parsing
    /\ HeaderArrived => LengthValid /\ ~FrameArrived
    /\ parsing' = FALSE
    /\ UNCHANGED <<sent, wire, inbuf, parsed, errors, conn>>

ParseMessages == Accept \/ RejectLength \/ RejectFrame \/ AwaitMore

Next ==
    \/ \E m \in Messages : SendMsg(m)
    \/ \E f \in Foreign : SendForeign(f)
    \/ \E n \in ChunkSizes : Receive(n)
    \/ ParseMessages

Spec == Init /\ [][Next]_vars

-----------------------------------------------------------------------------
(* The buffer is in order and everything parsed is a message the receiver     *)
(* can decode.                                                                *)
TypeOK ==
    /\ BufferOK(inbuf)
    /\ sent \in Seq(Messages \cup Foreign) /\ Len(sent) <= MaxSent
    /\ wire \in Seq(Byte)
    /\ parsing \in BOOLEAN
    /\ parsed \in Seq(Decodable)
    /\ conn \in {"connected", "disconnecting"}

(* What each thing sent deserves, independently of the codec: which error the *)
(* header file's enum has for it, and how many bytes it is.  SendMsg does     *)
(* not look at the limit the receiver has on the length.                      *)
Size(x) == IF x \in Foreign THEN Len(x.bytes) ELSE MessageSize(x)

Deserves(x) ==
    IF x \in Foreign THEN x.error
    ELSE IF Size(x) - kHeaderLen > kMaxMessageLen THEN "kInvalidLength"
    ELSE IF x.name \notin KnownNames THEN "kUnknownMessageType"
    ELSE IF x \notin Decodable THEN "kParseError"
    ELSE "kNoError"

SizesOf(q) ==
    LET SizeOf[k \in 0..Len(q)] == IF k = 0 THEN 0 ELSE SizeOf[k - 1] + Size(q[k])
    IN  SizeOf

SizeOfFirst == SizesOf(sent)

Arrived == SizeOfFirst[Len(sent)] - Len(wire)

(* The leading messages of sent that are good and have arrived in full.       *)
Due ==
    LET Leading(k) == /\ SizeOfFirst[k] <= Arrived
                      /\ \A i \in 1..k : Deserves(sent[i]) = "kNoError"
        n == CHOOSE k \in 0..Len(sent) :
                /\ Leading(k)
                /\ \A j \in 0..Len(sent) : Leading(j) => j <= k
    IN  SubSeq(sent, 1, n)

(* However the stream is cut into chunks, messages come out as they were      *)
(* sent, in order, none lost, none twice and none after a bad frame; and when *)
(* ParseMessages has returned, every message whose last byte has arrived is   *)
(* out.                                                                       *)
DeliversWhatArrived ==
    /\ Len(parsed) <= Len(Due) /\ parsed = SubSeq(Due, 1, Len(parsed))
    /\ ~parsing => parsed = Due

(* The error callback hears about the first bad frame of the stream and about *)
(* nothing else, with the code that frame deserves, however often the codec   *)
(* is called again on the bytes it left in the buffer; and it has heard of it *)
(* when ParseMessages returns and the whole frame is there.                   *)
ErrorIsTheFirst ==
    LET k == Len(parsed) + 1
    IN  /\ \A code \in errors : k <= Len(sent) /\ Deserves(sent[k]) = code
        /\ (~parsing /\ k <= Len(sent) /\ SizeOfFirst[k] <= Arrived) => errors # {}
        /\ conn = "disconnecting" <=> errors # {}

(* A connection that was shut down for a bad frame never delivers again.      *)
NothingAfterError == [][errors # {} => parsed' = parsed /\ errors' = errors]_vars

=============================================================================
