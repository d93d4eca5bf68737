# airnet in TLA+

airnet is the start of a network server in C++: a small base library (locks,
queues, byte buffer), a protobuf codec, and sessions on top of a vendored copy of
muduo. The repository is work in progress and does not compile as it stands
(include paths that do not exist, `boost::weak_ptr` used with `->`, classes that are
only declared). The modules here model what the code does once those
spellings are put right: the control flow, the locks and the data it keeps are clear.

Paths below are relative to `src/src/` unless they start with `3rd_party/`.

## Inventory

| Part | State | Operations | Interacts through |
|---|---|---|---|
| `MutexLock`, `Condition` (`common/base/mutex.h`, `condition.h`) | pthread mutex, `holder_`, pthread condition | lock, unlock, timed_lock, Wait, Notify; guards for one and, in the order of their addresses, for two mutexes | guards of the queues |
| `BlockingQueue` (`common/base/blocking_queue.h`) | deque | put, putAll, take, takeAll, size, empty, clearAll | any thread; one mutex, one condition |
| `RWLock` (`common/base/rwlock.h`) | pthread rwlock, one `holder_` | (timed) rdlock, wrlock, unlock | guards of `RWLockQueue` |
| `RWLockQueue` (`common/base/rwlock_queue.h`) | deque | as above, without waiting | any thread |
| `Buffer` (`common/net/buffer.h`, `common/base/endian_ex.h`) | vector, reader and writer index | Append, Prepend, Retrieve, EnsureWritableBytes, Shrink, integers in network order | codec, connections |
| `ProtobufCodec` (`common/net/codec_proto.*`) | none of its own; works on a connection's input `Buffer` | SendMsg, ParseMessages | the byte stream between two peers, error callback, Shutdown |
| `Session` (`common/net/session.*`) | connection, write-complete callback | SendProtocol, OnHighWaterMark, OnWriteComplete | functors queued in muduo's `EventLoop` |
| muduo `EventLoop` (`3rd_party/muduo/muduo/net/EventLoop.*`) | `quit_`, wakeup descriptor, active channels, pending functors | loop, quit, queueInLoop, wakeup, doPendingFunctors | any thread, through queueInLoop and quit |
| muduo `TcpConnection`, `Channel`, `EPollPoller` (`3rd_party/muduo/muduo/net`) | connection state, output buffer, registered events | send, shutdown, forceClose, handleRead/Write/Close, startRead/stopRead, connectEstablished/Destroyed | callbacks in the connection's loop |
| muduo `TcpServer`, `Acceptor`, `EventLoopThreadPool` | map of connections, pool of loops, next loop | newConnection, removeConnection, destructor, quit and join of the pool | functors between the base loop and the io loops |
| `ProtobufDispatcher`, `ProtobufSession`, `SessionManager`, `StringPiece`, `AtomicIntegerT`, `Singleton`, `main`, `global_init` | little or none | - | - |

What is hard to test, and therefore what the properties are about: the
order in which threads get the mutex around `Condition::Wait`; how many signals reach
how many sleepers; two readers in code that writes; `holder_`, written outside the
pthread calls it stands for; the arithmetic of `MakeSpace`; frames cut by TCP at any
byte; a codec that is called again after it has failed; callbacks that run later than
the event they answer; two threads that take the same two mutexes; a connection that ends
in one loop while another accepts, removes or destroys it; a functor or a quit that comes
just before its loop goes to sleep. `PROJECT.json` lists them as hazards, each at its line.

What makes each part correct:

* locks: `holder_` names the owner, all through a critical section; guards never make a
  circle of waiting threads;
* queues: the asserts in take and takeAll hold, every item comes out once and in order,
  nobody sleeps over an item;
* buffer: indices in order, the space asked for is there, content is never disturbed;
* codec: what was sent comes out, in order, as soon as it has arrived; the first bad
  frame ends the stream with the right error;
* session: above the high water mark it does not read, and it always reads again;
* loop: no queued functor and no quit is slept over;
* server: users hear of each connection once up and once down, the assertions on the
  way hold, and a closed connection is released.

## Modules

| Module | Models | Notes |
|---|---|---|
| `Monitor` | `MutexLock` and `Condition` | One step per pthread call and per write of `holder_`. `owner` is the pthread mutex. `pc[t]` is where thread `t` is. |
| `TimedGuards` | `MutexLock::timed_lock`, `MutexLockTimedGuard`, `MutexLockTimedDoubleGuard` | Mutexes are their addresses. `lhs`, `rhs` are the arguments of a thread's guard. |
| `TimedGuardsProofs` | | Proofs. |
| `FifoQueue` | the promise of both queues | Abstract: each call one step. |
| `BlockingQueue` | `BlockingQueue` | Extends `Monitor`. `MayCall[t]` says which operations thread `t` calls. `delivered` is a history of what the takes returned. |
| `BlockingQueueProofs` | | Proofs. |
| `RWLock`, `RWLockQueue` | the classes of the same names | The time-outs are not taken. `sees[t]` is the last answer of the unlocked `empty()`; callers of take ask it first, because take asserts rather than waits. `overtaken` is a history: who takes and has not asked since another thread removed the last item. A take that finds nothing stops at its assertion (`AssertFails`). |
| `RWLockQueueProofs` | | Proofs about both. |
| `Buffer` | `Buffer` and the byte order functions | A buffer is a record; every method is an operator that returns the buffer after it. Cells are numbered from 0 as in the vector. |
| `ByteFifo`, `BufferCalls` | a buffer under any sequence of calls; what it promises | |
| `BufferLemmas`, `BufferProofs` | | What each method does to a buffer, shared with the codec's proofs; proofs about `BufferCalls`. |
| `ProtoStream` | `ProtobufCodec` at both ends of a TCP stream | Uses the operators of `Buffer`: frames are built and parsed byte by byte, Adler-32 included, in small buffers. Protobuf is two sets: names the pool knows, messages whose data parses. |
| `ProtoStreamProofs` | | Proofs. |
| `Session` | `Session` on `TcpConnection` in `EventLoop` | Bytes are counted in units. `pending` and `batch` are the loop's queue and the vector it swapped it into. |
| `SessionProofs` | | Proofs. |
| `EventLoop` | `EventLoop`, any number of them | `lpc[l]` is the phase of loop `l`; `Handling` and `Running` frame what its user does for an event or a functor. |
| `TcpServer` | `TcpServer`, `Acceptor`, `EventLoopThreadPool` and the life of a `TcpConnection` | Extends `EventLoop`. `told[c]` is a history of the connection callback, `failed` the assertion that stopped the process. What is read and written is left to `Session`. |
| `TcpServerProofs` | | Proofs. |
| `MCBlockingQueue`, `MCRWLockQueue`, `MCBufferCalls`, `MCProtoStream`, `MCTcpServer` | | Instances for TLC. |

Operators whose names describe a slip (`UnassignForgotten`, `PushFront`,
`CompactWithoutCopy` and so on) stand in front of the definition they vary and are used
by nothing: putting one in place of that definition must make a named property fail,
which shows that the property depends on the code. `PROJECT.json` lists which.

Some choices:

* An operation is cut where another thread can run in between: at lock, assignment of
  `holder_`, test, copy, removal, signal, unlock. `BlockingQueue` splits `front()` and
  `pop_front()` although both are under the mutex; that nothing comes between them is
  a result (`TakeFindsItem`), not an assumption.
* `pthread_cond_signal` wakes any one sleeper; a sleeper may also wake by itself.
* The unlocked `empty()` of `RWLockQueue` returns the answer before or after a racing
  push. With two removers at once the deque's internals race as well; the model keeps
  each library call atomic, and the failure found is visible already.
* A `putAll` may bring an empty vector.
* In `ProtoStream`, `Receive` hands at most n bytes to the input buffer, and the codec
  runs to its return before the next read, as in the event loop. After an error the
  connection is only half closed, so reads go on.
* In `Session`, poll reports any subset of the registered events; once both directions
  of the socket are down it reports a hangup with all of them. `handleClose` continues
  past its assertion as it does in a build with `NDEBUG`, and the assertion is a property.
* In `TimedGuards` time is not counted: whoever waits for a mutex that is owned may find
  its 30 seconds over, which aborts the process (the default build type is Debug,
  `util/cmake/CompilerOption.cmake:10`). A thread has one guard at a time: a guard declared
  inside the scope of another is outside the model, and no order of addresses protects it.
* In `Session` the mark is any natural number, 0 included. A mark of 0 is never crossed,
  because `oldLen < highWaterMark_` (`TcpConnection.cc:181`) is never true: such a session never
  pauses, and `OverflowPauses` is stated for marks above 0.
* In `EventLoop` the push of `queueInLoop` and the write of the eventfd are one step, and so
  are `quit_ = true` and its wakeup: the flag or the functor comes first in the code, so
  this only brings the wakeup forward.
* In `TcpServer` a failed assertion is recorded and ends the process. The server is used
  as muduo's examples use it: callbacks run in the loops, and the base loop's thread
  destroys the server after its loop has been told to quit, by another thread, which wakes
  it, or by something the loop itself is running, which does not. The pool has any length up to
  that of `IoLoops`, none included.

## Runs

| Run | Expect | Question | Bounds |
|---|---|---|---|
| `bq_mixed` | pass | Is the queue correct for put, take, takeAll, size, clearAll in any interleaving? | 2 producers, 2 consumers, 3 items: more items than takers, so a taker can find its item gone |
| `bq_drain` | pass | Is one signal per batch enough if takers take everything? | 2 producers, 2 takers, 3 items, batches up to 2 |
| `bq_batch` | violation | The same with take | 1 producer, 2 takers, one batch of 2 |
| `rwq_one_taker` | pass | Is the read lock enough for a single taker, and when does the assertion of its take fail? | 2 writers, 1 taker, 1 reader that also clears, 3 items |
| `rwq_two_takers` | violation | And for two? | 1 writer, 2 takers |
| `guards` | pass | Do guards protect their scope, and never wait in a circle? | 3 threads, 3 mutexes: the smallest with a circle of three |
| `buffer` | pass | Does any sequence of calls keep the buffer in order and its content a byte FIFO? | cells and strings small enough that growing, moving, and exact fits all occur; integers at the limits of 8, 16 and 32 bits |
| `stream` | pass | Are messages and errors right however the stream is cut? | 3 frames from 5 messages and 3 foreign frames, chunks of 3, 14 and 40 bytes (inside a header, exactly a small frame, several frames) |
| `session` | pass | Does back-pressure engage and lift? | mark 2, messages of 1 and 2 units, 6 sends: enough for two crossings of the mark |
| `session_close` | violation | Does the assertion of `handleClose` hold? | 3 sends |
| `server` | pass | Is every connection told, closed and released in order, and does no loop sleep over work? | 2 connections, a base loop and at most one io loop: two ends may cross in both directions, and one may end while the other is accepted |
| `server_stop` | violation | Do the assertions also hold when the server is destroyed? | 1 connection |

Deadlock is checked except in `stream`, where everything may have been sent and read, in
`guards`, where the process may abort, and in the runs of the server, which stops.

The four violations are disagreements between the code and what it says of itself.

* `bq_batch`: `putAll` signals once for a whole batch (`blocking_queue.h:36`). Two
  threads wait in take; one is woken and takes one item; the other sleeps on although
  its loop says `while (queue_.empty())`.
* `rwq_two_takers`: take removes under the read lock (`rwlock_queue.h:37`). Two threads
  pass `assert(!queue_.empty())` on one item.
* `session_close`: `OnWriteComplete` starts reading without looking whether the
  connection is still there (`session.cpp:46`); a second queued write-complete
  re-registers a closed channel, and `handleClose` is entered twice.
* `server_stop`: `connectDestroyed` turns a channel's events off only in state
  `kConnected` (`TcpConnection.cc:337`), but `~TcpServer` calls it on half-closed
  connections too, and `Channel::remove` asserts that there are no events (`Channel.cc:61`).

The trace of `server_stop` shows the half-closed case. The other assertion at stake, that
`~TcpConnection` finds its connection disconnected (`TcpConnection.cc:73`), is broken as well, by an io
loop that is told to quit before it looks at the functors queued in it.

That all readers share one `holder_` (`rwlock.h:87`), so that `AssertLocked` may fail in a
reader that has the lock, is known to the code (a TODO at `rwlock.h:50`).
`HolderNotStale` states what remains true.

### Fairness

`bq_drain` assumes weak fairness of every thread inside an operation: a runnable thread
is scheduled and a free mutex is obtained in the end. Calls and spurious wakeups are not
fair: nothing makes a producer call again, and no sleeper may rely on waking by itself.
Weak fairness suffices because the property asks for one of several takers only.

`session` assumes that the loop runs (weak fairness), that poll keeps reporting a socket
that keeps becoming writable, and that a peer which is neither gone nor shut lets a write
empty the output in the end (strong fairness of both). A peer that never reads
keeps a session paused for ever, which is what the pause is for. A peer that has reset
the connection is found by the hangup that epoll reports on every poll.

`guards` assumes weak fairness of every thread inside a guard: it is scheduled, a mutex
that stays free is obtained, a critical section ends. Nobody has to declare a
guard, and no progress relies on a time-out. The property asks for some thread only,
because a mutex may pass between the others for ever.

`server` assumes weak fairness of every loop and of the destructor: threads run. poll's
time-out is not fair, so no functor and no quit may wait for it. A quit that comes before
`loop()` is forgotten (the FIXME at `EventLoop.cc:108`), which is why `QuitIsHeard` is about loops that have been entered.

## Proofs

Every safety property and every action property that a passing run checks is also proved,
for every value of the constants that their `ASSUME`s allow; so are the three refinements.
Four theorems have a hypothesis on who calls what, which they state.
The assumptions are about the kind of thing a constant is, with these exceptions, each of
which the code gives: `kCheapPrepend` leaves room for a frame's header (`HeaderFits`), a
message has a type name and a size that is an `int32_t` (`MessagesAssumption`), and a frame
of another sender is described truthfully by its `error` (`ForeignAssumption`).

`BlockingQueueProofs` holds for any set of threads (finite where threads are counted), any
`MayCall`, any bounds.

* `TypeCorrect`, `HolderCorrect`, `TakeCorrect` follow from the inductive invariant
  `IInv`: `TypeOK`; `OwnerInv` and `HolderInv` (a thread is inside exactly if it owns
  the mutex, and between the assignments of `holder_` exactly if `holder_` names it);
  `OpInv` (a thread is only in the code of the operation it called); `EmptyInv` (a
  thread about to wait is right that the queue is empty); `TakeFindsItem`. None of these
  is inductive alone: `TakeFindsItem` survives another thread's `pop_front` only because
  `OwnerInv` says that there is no such other thread, and `TypeOK` needs
  `TakeFindsItem` for the item take returns.
* `Refinement`: the push, `pop_front`, swap and clear steps are the abstract steps, all
  others stutter. `Take` needs `TakeFindsItem`.
* `NoLostWakeup`: if nobody calls putAll, or nobody calls take, no one sleeps over an item
  without help. A helper is a taker past its wait or a putter about to signal.
  Without putAll the invariant is `CountInv`: while someone sleeps there are at most as
  many items as helpers (a push adds one of each, a pop removes one of each, a signal
  replaces the putter by the sleeper it wakes). Without take a single helper empties the
  queue. The run `bq_batch` shows that the hypothesis cannot be dropped.
* `NothingTwice` (`NoDuplicate`): the items queued, delivered, and brought by each put that
  has not pushed yet are apart from one another (`PlaceInv`, `ArgInv`) and all among those
  made so far, so that the next ones are new. `NoDuplicate` counts occurrences; that the
  sets are apart is what survives a push.

`RWLockQueueProofs` holds for any set of threads, any bounds and, unless said, any `MayCall`.

* `RWTypes`, `WriterExcludes` (`WriterAlone`) and `HolderFresh` (`HolderNotStale`) follow from
  the inductive invariant of `TypeOK`, `OpInv` (a thread is only in the code of the operation
  it called), `LockInv` (the pthread lock knows exactly the threads between lock and unlock,
  and a writer excludes readers), `HolderNotStale` and `FrontInv` (take returns what it copied).
* `PopIsSafe` and `RWRefinement` need `TakesAlone`: beside a thread that calls take nobody else
  calls take or takeAll. The run `rwq_two_takers` shows that `TakesAlone` cannot be dropped.
  The invariant is `HeadInv`: the item copied is still in front.
* `TakeIsSafe` (`TakeAssertHolds`) is about the assertion behind an unlocked `empty()` and needs
  no restriction: the assertion fails only for a caller that was overtaken. The
  invariant is `SeenInv`: what a caller saw is still true when its take arrives, or it
  was overtaken. `TakeNeverAborts` adds that nobody is overtaken under `RemovesAlone`, which
  forbids the others clearAll too, so that the assertion never fails.

`BufferProofs` holds for any `kCheapPrepend` and `kInitialSize`, any strings, integers and
bounds. `IndicesInOrder`, `SpaceIsAlwaysMade` and `BufferIsByteFifo` rest on one lemma per
method, in `BufferLemmas`: each keeps the buffer in order, and its content afterwards is what
the byte FIFO says. The delicate one is `EnsureOK`: if `MakeSpace` does not grow, then
`kCheapPrepend < readerIndex_` (so the move goes towards the front) and after the move the
space is there. `IntsReadBack` (`IntReadsBack`) is about the byte order functions: the digits
to the base 256 of any value that fits 1, 2 or 4 bytes, the first of them signed, add up to
the value again.

`ProtoStreamProofs` holds for any messages, names, foreign frames, chunk sizes and length limit.

* `FrameParses`: what `FillEmptyBuffer` builds, in whatever cells the buffer puts it, `Parse`
  takes apart into the same name, data and checksum. It needs `AdlerFits`: the checksum,
  two sums modulo 65521 in one signed integer, fits the 4 bytes it is sent in.
* `Judged`: what the codec makes of the bytes of anything sent is what the thing `Deserves`.
* The inductive invariant is `TypeOK`, `StreamInv` and `ErrorInv`. `StreamInv` says that the
  content of the input buffer and the bytes in flight, put together, are the bytes of what was
  sent and is not parsed yet (`Carries`), that what is parsed was sent and good, in order.
  `ErrorInv` says that an error is about the next thing of the stream, and that it has been
  reported if that thing is there in full and the codec is not running. `DeliversWhatArrived`
  alone says nothing of the bytes and is not inductive.
* `LoopSees` is the step from bytes to messages: when a header is there the loop looks at the
  next thing sent, however it was cut, and at nothing else. From it follow
  `Delivers` (`DeliversWhatArrived`), `FirstError` (`ErrorIsTheFirst`), `StreamTypes`, and
  `ErrorIsFinal` (`NothingAfterError`): a frame left in the buffer is judged the same again.

`SessionProofs` holds for any high water mark, message sizes and number of sends. `SessionTypes`,
`BackPressure` (`OverflowPauses`), `NeverForgotten` (`PausedWillResume`), `WritesWhatItHas`
(`WritingIffOutput`) and `FinIsLast` (`FlushedBeforeFin`) are inductive together and not one by
one. Both properties of back-pressure are about `Upcoming`, the rest of the running batch and
the queue behind it, in the order in which they will run; the lemmas say what happens to them
when a functor is added behind or removed in front. A pause that is set while everything is
being written relies on `WritingIffOutput`: the write that empties the output queues the
functor that starts reading again.

`TimedGuardsProofs` holds for any number of threads and any finite set of addresses.

* `GuardTypes` and `GuardCorrect` (`GuardProtects`) follow from the inductive invariant of
  `TypeOK` (which says that a double guard names two mutexes), `OwnerInv` (a thread owns exactly what its place in the guard says),
  `HolderInv` (the same for `holder_`) and `DoubleInv` (the places of the second mutex are
  reached by double guards only). `GuardProtects` alone says nothing of a thread
  between two of its locks.
* `CycleFree` (`NoCircularWait`): in a set of threads that wait for each other, look at the
  highest address waited for. Its owner waits too, with one mutex in hand, hence
  for its second, which is higher. This is where the comparison of addresses is needed.

`TcpServerProofs` holds for any number of loops, pool threads and connections.

* `ServerTypes` (`TypeOK`) needs `PhaseInv`: outside the phase that works through them, the
  active channels and the batch are empty and `ran` is 0.
* `NoLostWakeup` (`WakeupNotLost`): a push wakes the loop or finds it handling events, with
  the swap still to come; only the handler of the wakeup channel clears it, and the
  swap follows.
* `ToldInOrder` (`UpThenDown`) rests on `LifeInv`. `ToldInv` ties what was told to the
  state. `ChannelInv` says that a registered channel, and one that a poll has reported and
  whose event is yet to be handled, belongs to an open connection, the latter in its own
  loop; without it `handleClose` could tell "down" a second time. `HomeInv` says that functors are queued
  in the loop of their connection and only for connections that exist. `FreshInv` says that
  connectEstablished is still to be run at most once, and only while the connection is
  connecting; without it "up" could be told again. `ServerInv` says that the destructor
  runs only after the base loop has left, and that the server knows nothing of a
  connection not made yet.
* `NoAssertFails` (`AssertsHoldWhileServing`) rests on all that and on `ServingInv`. `LifeOf` says
  where a connection is between its end and its release: removeConnectionInLoop waits in
  the base loop, or connectDestroyed at home, never both and each at most once; the server's map
  holds it until the former has run and the poller knows it until the latter has. `PoolRuns`
  says that, while the server serves, no loop of the pool has been told to quit, so no functor
  is dropped. The run `server_stop` shows that the restriction to serving is needed.

Recursive definitions (the sums of `Adler32` and `SizesOf`) are reasoned about by least
counterexample: a nonempty set of naturals has a least element (`LeastNat`, from the library's
`WFMin`), hence a recursive function has the values its equation says.

Only model-checked: liveness (`SleeperServed`, `Resumes`, `SomeoneGetsIn`, `ClosedIsReleased`,
`QuitIsHeard`), which the prover cannot reason about. The violations are TLC's as well.

## Not modelled

* Time-outs of `RWLock` (30 seconds, then a failed assertion), and builds with `NDEBUG`,
  where a thread whose time is over goes on without the lock.
* `Condition::WaitForSeconds` and `Buffer::ReadFd`, which have no body; `NotifyAll`, which has no caller.
* A frame whose name length reaches into the checksum (`codec_proto.cpp:186`): what
  follows is decided inside protobuf.
* `Session` replaces the server's close callback by its own (`session.cpp:30`), so
  the server would never remove the connection; as written its constructor cannot
  finish, since `shared_from_this` is not available there.
* Of muduo: timers and `forceCloseWithDelay`; start-up (`startLoop`, `Acceptor::listen`)
  and the acceptor out of descriptors; shutdown and forceClose from other threads
  (both test and set `state_` without a lock; `TcpConnection.h:71` declares the former NOT
  thread safe, the header says nothing of the latter, whose FIXME at `TcpConnection.cc:241` asks
  for compare and swap); a quit that touches a loop being destroyed; `ThreadPool`,
  `Connector`, `TcpClient`. They have no user in `common/`.
* `SessionManager` (declarations only), `ProtobufSession` and `ProtobufDispatcher` (the former does not compile).
* `AtomicIntegerT`, `Singleton`, `StringPiece`, `main` and `global_init`.
* The rest of the vendored code. protobuf and googletest make up nearly all the lines of the
  repository; they are other projects' programs, and airnet's own code is a few thousand
  lines.

## Plan

Done, in this order: `Monitor`, `BlockingQueue` with `FifoQueue` and its proofs, `RWLock`
and `RWLockQueue`, `Buffer` with `ByteFifo` and its proofs, `ProtoStream`, `Session`,
`TimedGuards` and its proofs, `EventLoop` and `TcpServer` and their proofs; then the proofs of
`RWLockQueue`, `Session` and `ProtoStream`, of `NoDuplicate`, `IntReadsBack` and
`AssertsHoldWhileServing`.

Next, most important first:

1. Proofs: what of `server_stop` remains true once the server is being destroyed (`UpThenDown`
   is proved for that stage too, the assertions other than `Channel::remove`'s are not);
   for `Session`, that `handleClose` is entered once if no write-complete is left behind.
2. Codec and session together: a `ProtoStream` receiver whose answers fill the output of a
   `Session` that pauses reading, with `ProtobufDispatcher` choosing the handler.
3. Receive path: session, `BlockingQueue` of received messages, worker threads, answers
   through `send` from another thread; nothing lost between a worker and a closing
   connection except what sendInLoop drops.
4. `AtomicIntegerT` with its width.
