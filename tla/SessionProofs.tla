---------------------------- MODULE SessionProofs ----------------------------
(* Proofs about Session for any high water mark, any sizes of messages and    *)
(* any number of them.                                                        *)
EXTENDS Session, TLAPS

USE WaterMarkAssumption, MsgSizesAssumption, MaxSendsAssumption
-----------------------------------------------------------------------------
(* What the two properties about back-pressure say of the functors to come:   *)
(* whether f is among them, and whether reading is stopped behind the last    *)
(* functor that starts it.                                                    *)
Contains(q, f) == \E i \in 1..Len(q) : q[i] = f

PauseComes(q) ==
    \E i \in 1..Len(q) :
        /\ q[i] = HighWater
        /\ \A j \in (i + 1)..Len(q) : q[j] # WriteComplete

(* The kinds of functors are told apart.                                      *)
LEMMA FunctorKinds ==
    /\ HighWater # WriteComplete
    /\ \A n \in MsgSizes : Send(n) # WriteComplete /\ Send(n) # HighWater
    /\ HighWater \in Functors /\ WriteComplete \in Functors
    /\ \A n \in MsgSizes : Send(n) \in Functors
BY DEF HighWater, WriteComplete, Send, Functors

(* A functor queued at the end adds itself.                                   *)
LEMMA AfterAppend ==
    ASSUME NEW S, NEW q \in Seq(S), NEW f \in S
    PROVE  /\ \A g : Contains(q, g) => Contains(Append(q, f), g)
           /\ \A g : Contains(Append(q, f), g) => Contains(q, g) \/ g = f
           /\ Contains(Append(q, f), f)
           /\ f = HighWater => PauseComes(Append(q, f))
           /\ f # WriteComplete => (PauseComes(q) => PauseComes(Append(q, f)))
<1> DEFINE r == Append(q, f)
<1>1. /\ Len(q) \in Nat /\ Len(r) = Len(q) + 1 /\ r[Len(q) + 1] = f
      /\ \A i \in 1..Len(q) : r[i] = q[i]
  OBVIOUS
<1> HIDE DEF r
<1>2. /\ \A g : Contains(q, g) => Contains(r, g)
      /\ \A g : Contains(r, g) => Contains(q, g) \/ g = f
      /\ Contains(r, f)
  BY <1>1 DEF Contains
<1>3. f = HighWater => PauseComes(r)
  BY <1>1 DEF PauseComes
<1>4. ASSUME f # WriteComplete, PauseComes(q) PROVE PauseComes(r)
  <2>1. PICK i \in 1..Len(q) : q[i] = HighWater /\ \A j \in (i + 1)..Len(q) : q[j] # WriteComplete
    BY <1>4 DEF PauseComes
  <2>2. i \in 1..Len(r) /\ r[i] = HighWater
    BY <1>1, <2>1
  <2>3. ASSUME NEW j \in (i + 1)..Len(r) PROVE r[j] # WriteComplete
    BY <1>1, <1>4, <2>1, <2>3
  <2>4. QED  BY <2>2, <2>3 DEF PauseComes
<1>5. QED  BY <1>2, <1>3, <1>4 DEF r

(* The functor at the front has been run.                                     *)
LEMMA AfterRun ==
    ASSUME NEW S, NEW q \in Seq(S), q # <<>>
    PROVE  /\ \A g : Contains(Tail(q), g) => Contains(q, g)
           /\ \A g : Contains(q, g) => Contains(Tail(q), g) \/ g = Head(q)
           /\ Contains(q, Head(q))
           /\ PauseComes(q) =>
                 \/ PauseComes(Tail(q))
                 \/ Head(q) = HighWater /\ ~Contains(Tail(q), WriteComplete)
<1> DEFINE r == Tail(q)
<1>1. /\ Len(q) \in Nat /\ Len(q) >= 1 /\ Len(r) = Len(q) - 1
      /\ \A i \in 1..Len(r) : r[i] = q[i + 1]
      /\ Head(q) = q[1]
  OBVIOUS
<1> HIDE DEF r
<1>2. ASSUME NEW g, Contains(r, g) PROVE Contains(q, g)
  <2>1. PICK i \in 1..Len(r) : r[i] = g
    BY <1>2 DEF Contains
  <2>2. i + 1 \in 1..Len(q) /\ q[i + 1] = g
    BY <1>1, <2>1
  <2>3. QED  BY <2>2 DEF Contains
<1>3. ASSUME NEW g, Contains(q, g), g # Head(q) PROVE Contains(r, g)
  <2>1. PICK i \in 1..Len(q) : q[i] = g
    BY <1>3 DEF Contains
  <2>2. i - 1 \in 1..Len(r) /\ r[i - 1] = g
    BY <1>1, <1>3, <2>1
  <2>3. QED  BY <2>2 DEF Contains
<1>4. Contains(q, Head(q))
  BY <1>1 DEF Contains
<1>5. ASSUME PauseComes(q)
      PROVE  PauseComes(r) \/ (Head(q) = HighWater /\ ~Contains(r, WriteComplete))
  <2>1. PICK i \in 1..Len(q) : q[i] = HighWater /\ \A j \in (i + 1)..Len(q) : q[j] # WriteComplete
    BY <1>5 DEF PauseComes
  <2>2. \A j \in i..Len(r) : r[j] # WriteComplete
    BY <1>1, <2>1
  <2>3. CASE i = 1
    BY <1>1, <2>1, <2>2, <2>3 DEF Contains
  <2>4. CASE i # 1
    <3>1. i - 1 \in 1..Len(r) /\ r[i - 1] = HighWater
      BY <1>1, <2>1, <2>4
    <3>2. \A j \in ((i - 1) + 1)..Len(r) : r[j] # WriteComplete
      BY <2>2
    <3>3. QED  BY <3>1, <3>2 DEF PauseComes
  <2>5. QED  BY <2>3, <2>4
<1>6. QED  BY <1>2, <1>3, <1>4, <1>5 DEF r

-----------------------------------------------------------------------------
(* OverflowPauses and PausedWillResume, as a function of what is to come.     *)
Over(q) ==
    (0 < HighWaterMark /\ output >= HighWaterMark /\ state # "kDisconnected") =>
        \/ ~reading /\ "IN" \notin channel /\ ~Contains(q, WriteComplete)
        \/ PauseComes(q)

Paused(q) ==
    (~reading /\ state # "kDisconnected") =>
        wcSet /\ ("OUT" \in channel \/ Contains(q, WriteComplete))

LEMMA InTermsOfUpcoming ==
    /\ OverflowPauses <=> Over(Upcoming)
    /\ PausedWillResume <=> Paused(Upcoming)
BY DEF OverflowPauses, PausedWillResume, Over, Paused, Queued, Contains, PauseComes

LEMMA InTermsOfUpcomingNext ==
    /\ OverflowPauses' <=> Over(Upcoming)'
    /\ PausedWillResume' <=> Paused(Upcoming)'
BY DEF OverflowPauses, PausedWillResume, Over, Paused, Queued, Contains, PauseComes

IInv == TypeOK /\ OverflowPauses /\ PausedWillResume /\ WritingIffOutput /\ FlushedBeforeFin

(* The queue in the order in which it will run.                               *)
LEMMA UpcomingFacts ==
    ASSUME NEW b \in Seq(Functors), NEW p \in Seq(Functors)
    PROVE  /\ b \o p \in Seq(Functors)
           /\ \A f \in Functors : b \o Append(p, f) = Append(b \o p, f)
           /\ b # <<>> => /\ b \o p # <<>> /\ Head(b \o p) = Head(b)
                          /\ Tail(b) \in Seq(Functors)
                          /\ Tail(b) \o p = Tail(b \o p)
           /\ p \o <<>> = p /\ <<>> \o p = p
OBVIOUS

(* sendInLoop does one of four things: nothing; a write that takes all;       *)
(* m units left over that are appended.                                       *)
LEMMA SendFacts ==
    ASSUME TypeOK, NEW n \in MsgSizes, SendInLoop(n)
    PROVE  \/ UNCHANGED <<pending, output, channel>>
           \/ /\ CanWriteDirectly
              /\ pending' \in {pending, Append(pending, WriteComplete)}
              /\ UNCHANGED <<output, channel>>
           \/ /\ state # "kDisconnected"
              /\ CanWriteDirectly => ~WriteFails
              /\ \E m \in Nat \ {0} : Enqueue(m)
<1>1. ASSUME NEW k \in 0..(n - 1) PROVE n - k \in Nat \ {0}
  OBVIOUS
<1>2. n \in Nat \ {0}
  OBVIOUS
<1>3. QED  BY <1>1, <1>2 DEF SendInLoop

(* A send keeps the invariant, in whatever place of the loop it runs: b are   *)
(* the functors left in the batch.                                            *)
LEMMA SendKeeps ==
    ASSUME TypeOK, WritingIffOutput, FlushedBeforeFin, NEW n \in MsgSizes, SendInLoop(n),
           batch' \in Seq(Functors), UNCHANGED <<state, reading, wcSet, finSent>>,
           Over(batch' \o pending), Paused(batch' \o pending)
    PROVE  /\ output' \in Nat /\ channel' \subseteq {"IN", "OUT"} /\ pending' \in Seq(Functors)
           /\ OverflowPauses' /\ PausedWillResume' /\ WritingIffOutput' /\ FlushedBeforeFin'
<1> DEFINE q == batch' \o pending
<1>0. /\ output \in Nat /\ channel \subseteq {"IN", "OUT"} /\ pending \in Seq(Functors)
      /\ finSent \in BOOLEAN
  BY DEF TypeOK
<1>1. /\ q \in Seq(Functors)
      /\ \A f \in Functors : batch' \o Append(pending, f) = Append(q, f)
  BY <1>0, UpcomingFacts
<1>2. Over(q) /\ Paused(q)
  OBVIOUS
<1> HIDE DEF q
<1>3. CASE UNCHANGED <<pending, output, channel>>
  <2>1. Upcoming' = q
    BY <1>3 DEF Upcoming, q
  <2>2. OverflowPauses' /\ PausedWillResume'
    BY <1>2, <1>3, <2>1, InTermsOfUpcomingNext DEF Over, Paused
  <2>3. QED  BY <1>0, <1>3, <2>2 DEF WritingIffOutput, FlushedBeforeFin
<1>4. CASE /\ CanWriteDirectly
           /\ pending' = Append(pending, WriteComplete)
           /\ UNCHANGED <<output, channel>>
  <2>1. Upcoming' = Append(q, WriteComplete)
    BY <1>1, <1>4, FunctorKinds DEF Upcoming
  <2>2. Contains(Upcoming', WriteComplete)
    BY <1>1, <2>1, AfterAppend, FunctorKinds
  <2>3. output' = 0
    BY <1>4 DEF CanWriteDirectly
  <2>4. OverflowPauses' /\ PausedWillResume'
    BY <1>2, <1>4, <2>2, <2>3, InTermsOfUpcomingNext DEF Over, Paused
  <2>5. pending' \in Seq(Functors)
    BY <1>0, <1>4, FunctorKinds
  <2>6. QED  BY <1>0, <1>4, <2>4, <2>5 DEF WritingIffOutput, FlushedBeforeFin
<1>5. ASSUME state # "kDisconnected", CanWriteDirectly => ~WriteFails,
             NEW m \in Nat \ {0}, Enqueue(m)
      PROVE  /\ output' \in Nat /\ channel' \subseteq {"IN", "OUT"} /\ pending' \in Seq(Functors)
             /\ OverflowPauses' /\ PausedWillResume' /\ WritingIffOutput' /\ FlushedBeforeFin'
  <2>1. output' = output + m /\ output' \in Nat /\ output' > 0
    BY <1>0, <1>5 DEF Enqueue
  <2>2. channel' = channel \cup {"OUT"}
    BY <1>5 DEF Enqueue
  <2>3. pending' \in Seq(Functors)
    BY <1>0, <1>5, FunctorKinds DEF Enqueue
  <2>4. ~finSent
    BY <1>5 DEF CanWriteDirectly, WriteFails, WritingIffOutput, FlushedBeforeFin
  <2>5. PausedWillResume'
    BY <1>2, <2>2, InTermsOfUpcomingNext DEF Paused
  <2>6. OverflowPauses'
    <3>1. CASE output + m >= HighWaterMark /\ output < HighWaterMark
      <4>1. Upcoming' = Append(q, HighWater)
        BY <1>1, <1>5, <3>1, FunctorKinds DEF Upcoming, Enqueue
      <4>2. PauseComes(Upcoming')
        BY <1>1, <4>1, AfterAppend, FunctorKinds
      <4>3. QED  BY <4>2, InTermsOfUpcomingNext DEF Over
    <3>2. CASE ~(output + m >= HighWaterMark /\ output < HighWaterMark)
      <4>1. Upcoming' = q
        BY <1>5, <3>2 DEF Upcoming, Enqueue, q
      <4>2. output' >= HighWaterMark => output >= HighWaterMark
        BY <1>0, <2>1, <3>2
      <4>3. QED  BY <1>2, <2>2, <4>1, <4>2, InTermsOfUpcomingNext DEF Over
    <3>3. QED  BY <3>1, <3>2
  <2>7. WritingIffOutput' /\ FlushedBeforeFin'
    BY <1>5, <2>1, <2>2, <2>4 DEF WritingIffOutput, FlushedBeforeFin
  <2>8. QED  BY <1>0, <2>1, <2>2, <2>3, <2>5, <2>6, <2>7
<1>6. QED
  BY <1>3, <1>4, <1>5, SendFacts

-----------------------------------------------------------------------------
LEMMA InitInv == Init => IInv
<1> SUFFICES ASSUME Init PROVE IInv
  OBVIOUS
<1>1. reading \in BOOLEAN /\ wcSet \in BOOLEAN /\ finSent \in BOOLEAN
  BY Zenon DEF Init
<1>2. TypeOK
  <2>1. /\ state \in States /\ peer \in {"open", "shut", "gone"}
        /\ pc \in {"poll", "events", "close", "functors"}
    BY Zenon DEF Init, States
  <2>2. output \in Nat /\ sends \in 0..MaxSends
    BY DEF Init
  <2>3. channel \subseteq {"IN", "OUT"} /\ revents \subseteq {"IN", "OUT", "HUP"}
    BY Zenon DEF Init
  <2>4. batch = <<>> /\ pending = <<>>
    BY DEF Init
  <2>5. QED  BY <1>1, <2>1, <2>2, <2>3, <2>4 DEF TypeOK
<1>3. QED
  BY <1>2 DEF Init, IInv, OverflowPauses, PausedWillResume, WritingIffOutput, FlushedBeforeFin

(* Steps that leave the connection, the functors and the FIN alone.           *)
LEMMA QuietKeeps ==
    ASSUME IInv, UNCHANGED <<connVars, pending, batch, finSent>>
    PROVE  OverflowPauses' /\ PausedWillResume' /\ WritingIffOutput' /\ FlushedBeforeFin'
<1>1. Upcoming' = Upcoming
  BY DEF Upcoming
<1>2. OverflowPauses' /\ PausedWillResume'
  BY <1>1, InTermsOfUpcoming, InTermsOfUpcomingNext DEF IInv, Over, Paused, connVars
<1>3. QED
  BY <1>2 DEF IInv, connVars, WritingIffOutput, FlushedBeforeFin

LEMMA QuietSteps ==
    ASSUME IInv,
           \/ Poll \/ HangUp \/ ReadQuietly \/ ReadError \/ ReadEnd \/ WriteNothing
           \/ EndFunctors \/ PeerCloses \/ PeerResets \/ UNCHANGED vars
    PROVE  IInv'
<1>1. TypeOK
  BY DEF IInv
<1>2. UNCHANGED <<connVars, pending, batch, finSent>>
  BY DEF Poll, HangUp, ReadQuietly, ReadError, ReadEnd, WriteNothing, EndFunctors,
         PeerCloses, PeerResets, vars, loopVars, envVars
<1>3. /\ revents' \subseteq {"IN", "OUT", "HUP"} /\ peer' \in {"open", "shut", "gone"}
      /\ UNCHANGED sends
  BY <1>1 DEF TypeOK, Poll, HangUp, ReadQuietly, ReadError, ReadEnd, WriteNothing, EndFunctors,
         PeerCloses, PeerResets, vars, loopVars, envVars
<1>4. /\ pc' \in {"poll", "events", "close", "functors"}
      /\ batch # <<>> => pc' = "functors"
  <2>1. CASE Poll \/ EndFunctors
    BY <1>1, <2>1 DEF TypeOK, Poll, EndFunctors
  <2>2. CASE HangUp \/ ReadEnd
    BY <1>1, <2>2 DEF TypeOK, HangUp, ReadEnd, Reading
  <2>3. CASE \/ ReadQuietly \/ ReadError \/ WriteNothing \/ PeerCloses \/ PeerResets
             \/ UNCHANGED vars
    <3>1. UNCHANGED pc
      BY <2>3 DEF ReadQuietly, ReadError, WriteNothing, PeerCloses, PeerResets, vars, loopVars
    <3>2. QED  BY <1>1, <3>1 DEF TypeOK
  <2>4. QED  BY <2>1, <2>2, <2>3
<1>5. TypeOK'
  BY <1>1, <1>2, <1>3, <1>4 DEF TypeOK, connVars
<1>6. QED  BY <1>2, <1>5, QuietKeeps DEF IInv

(* A message queued by another thread.                                        *)
LEMMA ForeignSendStep ==
    ASSUME IInv, NEW n \in MsgSizes, SendFromThread(n)
    PROVE  IInv'
<1>1. /\ TypeOK /\ batch \in Seq(Functors) /\ pending \in Seq(Functors)
      /\ pending' = Append(pending, Send(n)) /\ UNCHANGED <<connVars, batch, finSent>>
  BY DEF IInv, TypeOK, SendFromThread
<1>2. TypeOK'
  <2>1. pending' \in Seq(Functors)
    BY <1>1, FunctorKinds
  <2>2. QED  BY <1>1, <2>1 DEF TypeOK, SendFromThread, connVars
<1>3. Upcoming' = Append(Upcoming, Send(n)) /\ Upcoming \in Seq(Functors)
  BY <1>1, UpcomingFacts, FunctorKinds DEF Upcoming
<1>4. /\ Contains(Upcoming', WriteComplete) <=> Contains(Upcoming, WriteComplete)
      /\ PauseComes(Upcoming) => PauseComes(Upcoming')
  BY <1>3, AfterAppend, FunctorKinds
<1>5. OverflowPauses' /\ PausedWillResume'
  BY <1>1, <1>4, InTermsOfUpcoming, InTermsOfUpcomingNext DEF IInv, Over, Paused, connVars
<1>6. QED
  BY <1>1, <1>2, <1>5 DEF IInv, connVars, WritingIffOutput, FlushedBeforeFin

(* An answer sent from the message callback.                                  *)
LEMMA AnswerStep ==
    ASSUME IInv, NEW n \in MsgSizes, ReadAndAnswer(n)
    PROVE  IInv'
<1>1. /\ TypeOK /\ batch' = batch /\ UNCHANGED <<state, reading, wcSet, finSent>>
      /\ SendInLoop(n)
  BY DEF IInv, ReadAndAnswer
<1>2. batch' \in Seq(Functors) /\ Over(batch' \o pending) /\ Paused(batch' \o pending)
  BY <1>1, InTermsOfUpcoming DEF IInv, TypeOK, Upcoming
<1>3. /\ output' \in Nat /\ channel' \subseteq {"IN", "OUT"} /\ pending' \in Seq(Functors)
      /\ OverflowPauses' /\ PausedWillResume' /\ WritingIffOutput' /\ FlushedBeforeFin'
  BY <1>1, <1>2, SendKeeps DEF IInv
<1>4. TypeOK'
  BY <1>1, <1>3 DEF TypeOK, ReadAndAnswer
<1>5. QED  BY <1>3, <1>4 DEF IInv

LEMMA ShutdownStep ==
    ASSUME IInv, ReadAndShutdown
    PROVE  IInv'
<1>1. /\ TypeOK /\ state = "kConnected" /\ state' = "kDisconnecting"
      /\ finSent' = ("OUT" \notin channel)
      /\ UNCHANGED <<output, reading, channel, wcSet, pending, batch>>
  BY DEF IInv, ReadAndShutdown
<1>2. TypeOK'
  BY <1>1 DEF TypeOK, States, ReadAndShutdown
<1>3. Upcoming' = Upcoming
  BY <1>1 DEF Upcoming
<1>4. OverflowPauses' /\ PausedWillResume'
  BY <1>1, <1>3, InTermsOfUpcoming, InTermsOfUpcomingNext DEF IInv, Over, Paused
<1>5. WritingIffOutput' /\ FlushedBeforeFin'
  BY <1>1 DEF IInv, TypeOK, WritingIffOutput, FlushedBeforeFin
<1>6. QED  BY <1>2, <1>4, <1>5 DEF IInv

LEMMA CloseStep ==
    ASSUME IInv, HandleClose
    PROVE  IInv'
<1>1. TypeOK /\ state' = "kDisconnected" /\ channel' = {}
  BY DEF IInv, HandleClose
<1>2. TypeOK'
  BY <1>1 DEF TypeOK, States, HandleClose, envVars
<1>3. QED
  BY <1>1, <1>2 DEF IInv, OverflowPauses, PausedWillResume, WritingIffOutput, FlushedBeforeFin

LEMMA WriteSomeStep ==
    ASSUME IInv, WriteSome
    PROVE  IInv'
<1>1. /\ TypeOK /\ UNCHANGED <<state, reading, channel, wcSet, pending, batch, finSent>>
      /\ "OUT" \in channel /\ ~finSent
  BY DEF IInv, WriteSome, WriteFails, envVars
<1>2. output \in Nat /\ output' \in Nat /\ output' > 0 /\ output' <= output
  BY <1>1 DEF WriteSome, TypeOK
<1>3. TypeOK'
  BY <1>1, <1>2 DEF TypeOK, WriteSome, envVars
<1>4. Upcoming' = Upcoming
  BY <1>1 DEF Upcoming
<1>5. OverflowPauses' /\ PausedWillResume'
  BY <1>1, <1>2, <1>4, InTermsOfUpcoming, InTermsOfUpcomingNext DEF IInv, Over, Paused
<1>6. WritingIffOutput' /\ FlushedBeforeFin'
  BY <1>1, <1>2 DEF IInv, WritingIffOutput, FlushedBeforeFin
<1>7. QED  BY <1>3, <1>5, <1>6 DEF IInv

(* The write that empties the output calls the callback of a paused session.  *)
LEMMA WriteAllStep ==
    ASSUME IInv, WriteAll
    PROVE  IInv'
<1>1. /\ TypeOK /\ UNCHANGED <<state, reading, wcSet, batch>> /\ output' = 0
      /\ channel' = channel \ {"OUT"}
      /\ batch \in Seq(Functors) /\ pending \in Seq(Functors)
      /\ pending' = IF wcSet THEN Append(pending, WriteComplete) ELSE pending
  BY DEF IInv, TypeOK, WriteAll
<1>2. TypeOK'
  <2>1. pending' \in Seq(Functors)
    BY <1>1, FunctorKinds
  <2>2. QED  BY <1>1, <2>1 DEF TypeOK, WriteAll
<1>3. wcSet => Contains(Upcoming', WriteComplete)
  <2> SUFFICES ASSUME wcSet PROVE Contains(Upcoming', WriteComplete)
    OBVIOUS
  <2>1. Upcoming' = Append(Upcoming, WriteComplete) /\ Upcoming \in Seq(Functors)
    BY <1>1, UpcomingFacts, FunctorKinds DEF Upcoming
  <2>2. Contains(Append(Upcoming, WriteComplete), WriteComplete)
    BY <2>1, AfterAppend, FunctorKinds
  <2>3. QED  BY <2>1, <2>2
<1>4. PausedWillResume'
  BY <1>1, <1>3, InTermsOfUpcoming, InTermsOfUpcomingNext DEF IInv, Paused
<1>5. OverflowPauses' /\ WritingIffOutput' /\ FlushedBeforeFin'
  BY <1>1 DEF OverflowPauses, WritingIffOutput, FlushedBeforeFin
<1>6. QED  BY <1>2, <1>4, <1>5 DEF IInv

LEMMA SwapStep ==
    ASSUME IInv, SwapFunctors
    PROVE  IInv'
<1>1. /\ TypeOK /\ UNCHANGED <<connVars, finSent>> /\ batch = <<>>
      /\ batch' = pending /\ pending' = <<>> /\ pending \in Seq(Functors)
  BY DEF IInv, TypeOK, SwapFunctors, envVars
<1>2. TypeOK'
  BY <1>1 DEF TypeOK, SwapFunctors, connVars, envVars
<1>3. Upcoming' = Upcoming
  BY <1>1, UpcomingFacts DEF Upcoming
<1>4. OverflowPauses' /\ PausedWillResume'
  BY <1>1, <1>3, InTermsOfUpcoming, InTermsOfUpcomingNext DEF IInv, Over, Paused, connVars
<1>5. QED
  BY <1>1, <1>2, <1>4 DEF IInv, connVars, WritingIffOutput, FlushedBeforeFin

(* Running the first functor.                                                 *)
LEMMA NextFacts ==
    ASSUME TypeOK, NEW f, NextFunctor(f)
    PROVE  /\ batch' \in Seq(Functors) /\ pending \in Seq(Functors)
           /\ Upcoming \in Seq(Functors) /\ Upcoming # <<>>
           /\ Head(Upcoming) = f
           /\ batch' \o pending = Tail(Upcoming)
<1>1. batch \in Seq(Functors) /\ pending \in Seq(Functors)
  BY DEF TypeOK
<1>2. QED
  BY <1>1, UpcomingFacts DEF NextFunctor, Upcoming

LEMMA RunSendStep ==
    ASSUME IInv, NEW n \in MsgSizes, RunSend(n)
    PROVE  IInv'
<1>1. /\ TypeOK /\ UNCHANGED <<state, reading, wcSet, finSent>> /\ SendInLoop(n)
      /\ NextFunctor(Send(n))
  BY DEF IInv, RunSend, envVars
<1> DEFINE q == batch' \o pending
<1>2. /\ batch' \in Seq(Functors) /\ pending \in Seq(Functors)
      /\ Upcoming \in Seq(Functors) /\ Upcoming # <<>>
      /\ Head(Upcoming) = Send(n) /\ q = Tail(Upcoming)
  BY <1>1, NextFacts
<1> HIDE DEF q
<1>3. /\ Contains(q, WriteComplete) <=> Contains(Upcoming, WriteComplete)
      /\ PauseComes(Upcoming) => PauseComes(q)
  BY <1>2, AfterRun, FunctorKinds
<1>4. Over(q) /\ Paused(q)
  BY <1>3, InTermsOfUpcoming DEF IInv, Over, Paused
<1>5. /\ output' \in Nat /\ channel' \subseteq {"IN", "OUT"} /\ pending' \in Seq(Functors)
      /\ OverflowPauses' /\ PausedWillResume' /\ WritingIffOutput' /\ FlushedBeforeFin'
  BY <1>1, <1>2, <1>4, SendKeeps DEF IInv, q
<1>6. TypeOK'
  BY <1>1, <1>2, <1>5 DEF TypeOK, RunSend, NextFunctor, envVars
<1>7. QED  BY <1>5, <1>6 DEF IInv

LEMMA HighWaterStep ==
    ASSUME IInv, OnHighWaterMark
    PROVE  IInv'
<1>1. /\ TypeOK /\ UNCHANGED <<state, output, pending, finSent>> /\ NextFunctor(HighWater)
      /\ "OUT" \in channel' <=> "OUT" \in channel
  BY DEF IInv, OnHighWaterMark, envVars
<1>2. /\ batch' \in Seq(Functors) /\ Upcoming \in Seq(Functors) /\ Upcoming # <<>>
      /\ Head(Upcoming) = HighWater /\ Upcoming' = Tail(Upcoming)
  BY <1>1, NextFacts DEF Upcoming
<1>3. TypeOK'
  BY <1>1, <1>2 DEF TypeOK, OnHighWaterMark, NextFunctor, envVars
<1>4. /\ Contains(Upcoming', WriteComplete) <=> Contains(Upcoming, WriteComplete)
      /\ PauseComes(Upcoming) =>
            PauseComes(Upcoming') \/ ~Contains(Upcoming', WriteComplete)
  BY <1>2, AfterRun, FunctorKinds
<1>5. OverflowPauses'
  <2>1. output \in Nat
    BY <1>1 DEF TypeOK
  <2>2. QED
    BY <1>1, <1>4, <2>1, InTermsOfUpcoming, InTermsOfUpcomingNext DEF IInv, Over, OnHighWaterMark
<1>6. PausedWillResume'
  BY <1>1, <1>4, InTermsOfUpcoming, InTermsOfUpcomingNext
     DEF IInv, Paused, OnHighWaterMark, WritingIffOutput
<1>7. QED
  BY <1>1, <1>3, <1>5, <1>6 DEF IInv, WritingIffOutput, FlushedBeforeFin

LEMMA WriteCompleteStep ==
    ASSUME IInv, OnWriteComplete
    PROVE  IInv'
<1>1. /\ TypeOK /\ UNCHANGED <<state, output, pending, finSent>> /\ NextFunctor(WriteComplete)
      /\ reading' = TRUE
      /\ "OUT" \in channel' <=> "OUT" \in channel
  BY DEF IInv, OnWriteComplete, envVars
<1>2. /\ batch' \in Seq(Functors) /\ Upcoming \in Seq(Functors) /\ Upcoming # <<>>
      /\ Head(Upcoming) = WriteComplete /\ Upcoming' = Tail(Upcoming)
  BY <1>1, NextFacts DEF Upcoming
<1>3. TypeOK'
  BY <1>1, <1>2 DEF TypeOK, OnWriteComplete, NextFunctor, envVars
<1>4. /\ Contains(Upcoming, WriteComplete)
      /\ PauseComes(Upcoming) => PauseComes(Upcoming')
  BY <1>2, AfterRun, FunctorKinds
<1>5. OverflowPauses'
  BY <1>1, <1>4, InTermsOfUpcoming, InTermsOfUpcomingNext DEF IInv, Over
<1>6. PausedWillResume'
  BY <1>1 DEF PausedWillResume
<1>7. QED
  BY <1>1, <1>3, <1>5, <1>6 DEF IInv, WritingIffOutput, FlushedBeforeFin

LEMMA InductiveInvariant == Spec => []IInv
<1>1. IInv /\ [Next]_vars => IInv'
  <2> SUFFICES ASSUME IInv, [Next]_vars PROVE IInv'
    OBVIOUS
  <2>1. CASE \/ Poll \/ HangUp \/ ReadQuietly \/ ReadError \/ ReadEnd \/ WriteNothing
             \/ EndFunctors \/ PeerCloses \/ PeerResets \/ UNCHANGED vars
    BY <2>1, QuietSteps
  <2>2. CASE ReadAndShutdown \/ HandleClose \/ WriteSome \/ WriteAll
    BY <2>2, ShutdownStep, CloseStep, WriteSomeStep, WriteAllStep
  <2>3. CASE SwapFunctors \/ OnHighWaterMark \/ OnWriteComplete
    BY <2>3, SwapStep, HighWaterStep, WriteCompleteStep
  <2>4. ASSUME NEW n \in MsgSizes, ReadAndAnswer(n) \/ RunSend(n) \/ SendFromThread(n)
        PROVE  IInv'
    BY <2>4, AnswerStep, RunSendStep, ForeignSendStep
  <2>5. QED  BY <2>1, <2>2, <2>3, <2>4 DEF Next, LoopStep
<1>2. QED  BY <1>1, InitInv, PTL DEF Spec

-----------------------------------------------------------------------------
(* Every variable keeps its type in every reachable state.                    *)
THEOREM SessionTypes == Spec => []TypeOK
<1>1. IInv => TypeOK
  BY DEF IInv
<1>2. QED  BY <1>1, InductiveInvariant, PTL

(* Back-pressure engages whenever the mark is crossed, in whatever order      *)
(* sends, writes and callbacks come: above the mark the session does not      *)
(* read, or the call that stops it is behind every call that starts it.       *)
THEOREM BackPressure == Spec => []OverflowPauses
<1>1. IInv => OverflowPauses
  BY DEF IInv
<1>2. QED  BY <1>1, InductiveInvariant, PTL

(* A session that does not read is going to be told to read again: by the     *)
(* write that empties its output, or by a functor already queued.             *)
THEOREM NeverForgotten == Spec => []PausedWillResume
<1>1. IInv => PausedWillResume
  BY DEF IInv
<1>2. QED  BY <1>1, InductiveInvariant, PTL

(* The channel is registered for writing exactly while there is output.       *)
THEOREM WritesWhatItHas == Spec => []WritingIffOutput
<1>1. IInv => WritingIffOutput
  BY DEF IInv
<1>2. QED  BY <1>1, InductiveInvariant, PTL

(* The FIN follows the last byte of output.                                   *)
THEOREM FinIsLast == Spec => []FlushedBeforeFin
<1>1. IInv => FlushedBeforeFin
  BY DEF IInv
<1>2. QED  BY <1>1, InductiveInvariant, PTL

=============================================================================
