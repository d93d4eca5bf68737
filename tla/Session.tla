------------------------------- MODULE Session -------------------------------
(* Session (common/net/session.cpp) on a muduo TcpConnection in its EventLoop *)
(* (3rd_party/muduo).  A session that has more than a high water mark of      *)
(* bytes to send stops reading from its peer; when all is written it reads    *)
(* again.  Both happen in callbacks that the connection queues in the loop,   *)
(* so they run later than the event they answer, between sends that other     *)
(* threads have queued, and possibly after the connection is closed.          *)
(*                                                                            *)
(* Bytes are counted in units.  One iteration of the loop: poll, the          *)
(* channel's read and write events, the batch of functors queued before it.   *)
EXTENDS Naturals, Sequences

CONSTANTS HighWaterMark,   \* the watermark handed to the constructor
          MsgSizes,        \* sizes of the messages sent
          MaxSends         \* bound on the number of messages sent

ASSUME WaterMarkAssumption == HighWaterMark \in Nat
ASSUME MsgSizesAssumption == MsgSizes \subseteq Nat \ {0}
ASSUME MaxSendsAssumption == MaxSends \in Nat

VARIABLES state,        \* TcpConnection::state_
          output,       \* outputBuffer_.readableBytes()
          reading,      \* reading_
          channel,      \* the events the channel is registered for
          wcSet,        \* writeCompleteCallback_ is set
          pending,      \* EventLoop::pendingFunctors_
          batch,        \* functors doPendingFunctors has yet to run
          pc,           \* where the loop is
          revents,      \* events of this iteration yet to be handled
          finSent,      \* shutdownWrite has been called on the socket
          peer,         \* "open"; "shut": it will send no more, reads return 0;
                        \* "gone": it has reset the connection
          sends         \* messages sent so far

connVars == <<state, output, reading, channel, wcSet>>
loopVars == <<pending, batch, pc, revents>>
envVars == <<finSent, peer, sends>>
vars == <<connVars, loopVars, envVars>>

Send(n) == [kind |-> "send", len |-> n]
HighWater == [kind |-> "hwm", len |-> 0]
WriteComplete == [kind |-> "wc", len |-> 0]
Functors == {Send(n) : n \in MsgSizes} \cup {HighWater, WriteComplete}

(* The state after connectEstablished and the constructor of Session.         *)
Init ==
    /\ state = "kConnected"
    /\ output = 0
    /\ reading = TRUE
    /\ channel = {"IN"}
    /\ wcSet = FALSE
    /\ pending = <<>>
    /\ batch = <<>>
    /\ pc = "poll"
    /\ revents = {}
    /\ finSent = FALSE
    /\ peer = "open"
    /\ sends = 0

-----------------------------------------------------------------------------
(* sendInLoop, when something is left over: queue the high water callback if  *)
(* the mark is crossed, append, and register for writing.                     *)
EnqueueAboveOnly(m) ==
    /\ pending' = IF output + m > HighWaterMark /\ output < HighWaterMark
                  THEN Append(pending, HighWater) ELSE pending
    /\ output' = output + m
    /\ channel' = channel \cup {"OUT"}

Enqueue(m) ==
    /\ pending' = IF output + m >= HighWaterMark /\ output < HighWaterMark
                  THEN Append(pending, HighWater) ELSE pending
    /\ output' = output + m
    /\ channel' = channel \cup {"OUT"}

CanWriteDirectly == "OUT" \notin channel /\ output = 0

(* A direct write takes k of the n units; after shutdownWrite or a reset it   *)
(* fails with EPIPE or ECONNRESET and the message is dropped.                 *)
WriteFails == finSent \/ peer = "gone"

SendInLoopAnyway(n) ==
    \/ /\ CanWriteDirectly /\ WriteFails
       /\ UNCHANGED <<pending, output, channel>>
    \/ /\ CanWriteDirectly /\ ~WriteFails
       /\ pending' = IF wcSet THEN Append(pending, WriteComplete) ELSE pending
       /\ UNCHANGED <<output, channel>>
    \/ /\ CanWriteDirectly /\ ~WriteFails
       /\ \E k \in 0..(n - 1) : Enqueue(n - k)
    \/ /\ ~CanWriteDirectly
       /\ Enqueue(n)

SendInLoop(n) ==
    \/ /\ state = "kDisconnected" \/ (CanWriteDirectly /\ WriteFails)
       /\ UNCHANGED <<pending, output, channel>>
    \/ /\ state # "kDisconnected"
       /\ CanWriteDirectly /\ ~WriteFails
       /\ pending' = IF wcSet THEN Append(pending, WriteComplete) ELSE pending
       /\ UNCHANGED <<output, channel>>
    \/ /\ state # "kDisconnected"
       /\ CanWriteDirectly /\ ~WriteFails
       /\ \E k \in 0..(n - 1) : Enqueue(n - k)
    \/ /\ state # "kDisconnected"
       /\ ~CanWriteDirectly
       /\ Enqueue(n)

(* SendProtocol on a thread other than the loop's: TcpConnection::send looks  *)
(* at the state and queues sendInLoop.                                        *)
SendFromThread(n) ==
    /\ state = "kConnected"
    /\ sends < MaxSends
    /\ sends' = sends + 1
    /\ pending' = Append(pending, Send(n))
    /\ UNCHANGED <<connVars, batch, pc, revents, finSent, peer>>

PeerCloses ==
    /\ peer = "open"
    /\ peer' = "shut"
    /\ UNCHANGED <<connVars, loopVars, finSent, sends>>

PeerResets ==
    /\ peer # "gone"
    /\ peer' = "gone"
    /\ UNCHANGED <<connVars, loopVars, finSent, sends>>

-----------------------------------------------------------------------------
(* poll: any of the events the channel is registered for, or none (another    *)
(* channel, or the wakeup).  Once both directions are down the kernel reports *)
(* a hangup with all of them, for as long as the channel is registered.       *)
HungUp == peer = "gone" \/ (peer = "shut" /\ finSent)

Poll ==
    /\ pc = "poll"
    /\ IF HungUp /\ channel # {} THEN revents' = channel \cup {"HUP"}
                                 ELSE revents' \in SUBSET channel
    /\ pc' = "events"
    /\ UNCHANGED <<connVars, pending, batch, envVars>>

(* handleEventWithGuard: a hangup closes unless there is something to read.   *)
HangUp ==
    /\ pc = "events" /\ "HUP" \in revents
    /\ revents' = revents \ {"HUP"}
    /\ pc' = IF "IN" \in revents THEN "events" ELSE "close"
    /\ UNCHANGED <<connVars, pending, batch, envVars>>

(* handleRead with data: OnMessage does nothing, answers with a message, or   *)
(* finds a bad frame and calls shutdown().                                    *)
Reading == pc = "events" /\ "IN" \in revents /\ "HUP" \notin revents

Readable == Reading /\ peer = "open"

ReadQuietly ==
    /\ Readable
    /\ revents' = revents \ {"IN"}
    /\ UNCHANGED <<connVars, pending, batch, pc, envVars>>

ReadAndAnswer(n) ==
    /\ Readable
    /\ state = "kConnected"
    /\ sends < MaxSends
    /\ sends' = sends + 1
    /\ SendInLoop(n)
    /\ revents' = revents \ {"IN"}
    /\ UNCHANGED <<state, reading, wcSet, batch, pc, finSent, peer>>

ShutdownAtOnce ==
    /\ Readable
    /\ state = "kConnected"
    /\ state' = "kDisconnecting"
    /\ finSent' = TRUE
    /\ revents' = revents \ {"IN"}
    /\ UNCHANGED <<output, reading, channel, wcSet, pending, batch, pc, peer, sends>>

ReadAndShutdown ==
    /\ Readable
    /\ state = "kConnected"
    /\ state' = "kDisconnecting"
    /\ finSent' = ("OUT" \notin channel)
    /\ revents' = revents \ {"IN"}
    /\ UNCHANGED <<output, reading, channel, wcSet, pending, batch, pc, peer, sends>>

(* handleRead with an error, which is logged.                                 *)
ReadError ==
    /\ Reading
    /\ peer = "gone"
    /\ revents' = revents \ {"IN"}
    /\ UNCHANGED <<connVars, pending, batch, pc, envVars>>

(* handleRead with 0: handleClose.                                            *)
ReadEnd ==
    /\ Reading
    /\ peer # "open"
    /\ revents' = revents \ {"IN"}
    /\ pc' = "close"
    /\ UNCHANGED <<connVars, pending, batch, envVars>>

HandleClose ==
    /\ pc = "close"
    /\ state' = "kDisconnected"
    /\ channel' = {}
    /\ pc' = "events"
    /\ UNCHANGED <<output, reading, wcSet, pending, batch, revents, envVars>>

(* handleWrite: nothing if the channel stopped writing meanwhile; otherwise   *)
(* the kernel takes some of the output, all of it, or (an error) none.        *)
Writable == pc = "events" /\ revents = {"OUT"}

WriteNothing ==
    /\ Writable
    /\ revents' = {}
    /\ UNCHANGED <<connVars, pending, batch, pc, envVars>>

WriteSome ==
    /\ Writable
    /\ "OUT" \in channel /\ ~WriteFails
    /\ \E k \in 1..(output - 1) : output' = output - k
    /\ revents' = {}
    /\ UNCHANGED <<state, reading, channel, wcSet, pending, batch, pc, envVars>>

WriteAllSilently ==
    /\ Writable
    /\ "OUT" \in channel /\ ~WriteFails
    /\ output' = 0
    /\ channel' = channel \ {"OUT"}
    /\ finSent' = (finSent \/ state = "kDisconnecting")
    /\ revents' = {}
    /\ UNCHANGED <<state, reading, wcSet, pending, batch, pc, peer, sends>>

WriteAll ==
    /\ Writable
    /\ "OUT" \in channel /\ ~WriteFails
    /\ output' = 0
    /\ channel' = channel \ {"OUT"}
    /\ pending' = IF wcSet THEN Append(pending, WriteComplete) ELSE pending
    /\ finSent' = (finSent \/ state = "kDisconnecting")
    /\ revents' = {}
    /\ UNCHANGED <<state, reading, wcSet, batch, pc, peer, sends>>

-----------------------------------------------------------------------------
(* doPendingFunctors: the functors queued so far are swapped out and run in   *)
(* order; those they queue wait for the next iteration.                       *)
SwapFunctors ==
    /\ pc = "events" /\ revents = {}
    /\ batch' = pending
    /\ pending' = <<>>
    /\ pc' = "functors"
    /\ UNCHANGED <<connVars, revents, envVars>>

NextFunctor(f) ==
    /\ pc = "functors"
    /\ batch # <<>>
    /\ f = Head(batch)
    /\ batch' = Tail(batch)
    /\ UNCHANGED <<pc, revents>>

RunSend(n) ==
    /\ NextFunctor(Send(n))
    /\ SendInLoop(n)
    /\ UNCHANGED <<state, reading, wcSet, envVars>>

(* OnHighWaterMark: stopRead and setWriteCompleteCallback, unless everything  *)
(* has been written meanwhile.                                                *)
PauseRegardless ==
    /\ NextFunctor(HighWater)
    /\ reading' = FALSE
    /\ channel' = channel \ {"IN"}
    /\ wcSet' = TRUE
    /\ UNCHANGED <<state, output, pending, envVars>>

OnHighWaterMark ==
    /\ NextFunctor(HighWater)
    /\ IF output > 0
       THEN /\ reading' = FALSE
            /\ channel' = channel \ {"IN"}
            /\ wcSet' = TRUE
       ELSE UNCHANGED <<reading, channel, wcSet>>
    /\ UNCHANGED <<state, output, pending, envVars>>

(* OnWriteComplete, through onWriteCompleteWeak: startRead, which registers   *)
(* the channel for reading, and clear the callback.                           *)
OnWriteComplete ==
    /\ NextFunctor(WriteComplete)
    /\ reading' = TRUE
    /\ channel' = channel \cup {"IN"}
    /\ wcSet' = FALSE
    /\ UNCHANGED <<state, output, pending, envVars>>

EndFunctorsEarly ==
    /\ pc = "functors"
    /\ pc' = "poll"
    /\ UNCHANGED <<connVars, pending, batch, revents, envVars>>

EndFunctors ==
    /\ pc = "functors"
    /\ batch = <<>>
    /\ pc' = "poll"
    /\ UNCHANGED <<connVars, pending, batch, revents, envVars>>

-----------------------------------------------------------------------------
LoopStep ==
    \/ Poll
    \/ HangUp
    \/ ReadQuietly
    \/ \E n \in MsgSizes : ReadAndAnswer(n)
    \/ ReadAndShutdown
    \/ ReadError
    \/ ReadEnd
    \/ HandleClose
    \/ WriteNothing
    \/ WriteSome
    \/ WriteAll
    \/ SwapFunctors
    \/ \E n \in MsgSizes : RunSend(n)
    \/ OnHighWaterMark
    \/ OnWriteComplete
    \/ EndFunctors

Next ==
    \/ LoopStep
    \/ \E n \in MsgSizes : SendFromThread(n)
    \/ PeerCloses
    \/ PeerResets

Spec == Init /\ [][Next]_vars

(* The loop runs, poll reports a socket that stays writable, and a peer that  *)
(* keeps reading lets every write through in the end.                         *)
FairSpec ==
    /\ Spec
    /\ WF_vars(LoopStep)
    /\ SF_vars(Poll /\ revents' = {"OUT"})
    /\ SF_vars(WriteAll)

-----------------------------------------------------------------------------
States == {"kConnected", "kDisconnecting", "kDisconnected"}

(* Every variable keeps its type; a batch exists only while it is being run.  *)
TypeOK ==
    /\ state \in States
    /\ output \in Nat
    /\ reading \in BOOLEAN /\ wcSet \in BOOLEAN
    /\ channel \subseteq {"IN", "OUT"}
    /\ pending \in Seq(Functors)
    /\ batch \in Seq(Functors)
    /\ batch # <<>> => pc = "functors"
    /\ pc \in {"poll", "events", "close", "functors"}
    /\ revents \subseteq {"IN", "OUT", "HUP"}
    /\ finSent \in BOOLEAN
    /\ peer \in {"open", "shut", "gone"}
    /\ sends \in 0..MaxSends

(* What is going to be called, in order.                                      *)
Upcoming == batch \o pending

Queued(f) == \E i \in 1..Len(Upcoming) : Upcoming[i] = f

(* Back-pressure works: while the output is above the high water mark the     *)
(* session has stopped reading and nothing is queued that would start it      *)
(* again, or the callback that stops it is queued behind everything that      *)
(* would start it.  A mark of 0 is no mark: no output is below it, so it is   *)
(* never crossed (line 181) and the session never pauses.                     *)
OverflowPauses ==
    (0 < HighWaterMark /\ output >= HighWaterMark /\ state # "kDisconnected") =>
        \/ ~reading /\ "IN" \notin channel /\ ~Queued(WriteComplete)
        \/ \E i \in 1..Len(Upcoming) :
              /\ Upcoming[i] = HighWater
              /\ \A j \in (i + 1)..Len(Upcoming) : Upcoming[j] # WriteComplete

(* A paused session is never forgotten: its callback is set and either there  *)
(* is output whose last byte will call it, or the call is queued.             *)
PausedWillResume ==
    (~reading /\ state # "kDisconnected") =>
        /\ wcSet
        /\ "OUT" \in channel \/ Queued(WriteComplete)

(* Registration for writing and output go together, so that poll neither      *)
(* spins on an empty buffer nor forgets a full one, and a closed connection   *)
(* is not registered again by a send that was queued before it closed.        *)
WritingIffOutput ==
    "OUT" \in channel <=> (output > 0 /\ state # "kDisconnected")

(* Output is flushed before the connection's sending side is shut.            *)
FlushedBeforeFin == (finSent /\ state # "kDisconnected") => output = 0

(* The assertion of TcpConnection::handleClose (line 412).                    *)
CloseAssertHolds == pc = "close" => state \in {"kConnected", "kDisconnecting"}

(* A session that stopped reading reads again, unless it is closed.           *)
Resumes == ~reading ~> (reading \/ state = "kDisconnected")

=============================================================================
